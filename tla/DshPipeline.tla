---------------------------- MODULE DshPipeline ----------------------------
(***************************************************************************)
(* exec_cmd and execute_pipeline of 5-ShellP3/dshlib.c, the local shell    *)
(* with pipes: one session of the algorithm of RshPipeline, which the      *)
(* remote shell took over, with what the local shell adds, the status that *)
(* rc prints, and the lines that are no pipelines: refused ones and        *)
(* built-in commands.  exec_cmd is the pipeline of one command.            *)
(***************************************************************************)
EXTENDS RshPipeline

CONSTANTS
    Shell,      \* the one session
    Statuses,   \* exit statuses of programs
    ERRNO,      \* errno of a call that failed
    ERR_CMD_ARGS_BAD,   \* -4
    SIGPIPE     \* 13

ASSUME ShellAssumption == Sessions = {Shell}
ASSUME StatusAssumption ==
    /\ Statuses \subseteq 0..255 /\ ERRNO \in Nat \ {0} /\ SIGPIPE \in 1..64
    /\ ERR_CMD_ARGS_BAD \in Int \ {0}

VARIABLES
    last_status,   \* for rc
    wstatus,       \* child -> how it ended
    reaped,        \* the children that waitpid has returned
    orphans,       \* history: the children of lines whose fork failed
    carried        \* history: what the last line was that was carried out

shellVars == <<last_status, wstatus, reaped, orphans, carried>>
allVars == <<vars, shellVars>>

Exited(code) == [exit |-> code, signal |-> 0]
Killed(signal) == [exit |-> 0, signal |-> signal]

ShellInit ==
    /\ Init /\ last_status = 0 /\ wstatus = [p \in Pids |-> Exited(0)]
    /\ reaped = {} /\ orphans = {} /\ carried = "nothing"

----------------------------------------------------------------------------
(* The line that is typed at the prompt. *)

Line ==
    /\ Begin(Shell) /\ carried' = "pipeline"
    /\ UNCHANGED <<last_status, wstatus, reaped, orphans>>

\* cd without an argument or to a directory, with too many, or to no directory.
Cd ==
    /\ pc[Shell] = "idle"
    /\ \/ last_status' = 0 /\ carried' = "cd"
       \/ last_status' \in {ERR_CMD_ARGS_BAD, ERRNO} /\ carried' = "bad cd"
    /\ UNCHANGED <<vars, wstatus, reaped, orphans>>

\* A line that build_cmd_list refuses, and rc, which prints the status.
Passed == pc[Shell] = "idle" /\ UNCHANGED allVars

Typed == Line \/ Cd \/ Passed

----------------------------------------------------------------------------
(* The shell carries out a pipeline. *)

Pipe == CreatePipe(Shell) /\ UNCHANGED shellVars

NoPipe == PipeFails(Shell) /\ last_status' = ERRNO /\ UNCHANGED <<wstatus, reaped, orphans, carried>>

ForkChild == Fork(Shell) /\ UNCHANGED shellVars

NoFork ==
    /\ ForkFails(Shell) /\ last_status' = ERRNO
    /\ orphans' = orphans \cup {Pid(Shell, i) : i \in 1..(k[Shell] - 1)}
    /\ UNCHANGED <<wstatus, reaped, carried>>

Close == ClosePipe(Shell) /\ UNCHANGED shellVars

StatusOf(s) == IF s.signal = 0 THEN s.exit ELSE 128 + s.signal

\* Whose status the line gets.  Mutant: the one of the first command.
Final_First == 1
Final == Len(cmds[Shell])

Reap ==
    /\ Wait(Shell)
    /\ IF k[Shell] \in WaitedFor(Shell)
       THEN reaped' = reaped \cup {Pid(Shell, k[Shell])} /\ UNCHANGED last_status
       ELSE last_status' = StatusOf(wstatus[Pid(Shell, Final)]) /\ UNCHANGED reaped
    /\ UNCHANGED <<wstatus, orphans, carried>>

----------------------------------------------------------------------------
(* A child of the shell. *)

Setup(p) == Exec(p) /\ UNCHANGED shellVars

\* dup2, open or execvp fails.
SetupFails(p) ==
    /\ ExecFails(p) /\ wstatus' = [wstatus EXCEPT ![p] = Exited(127)]
    /\ UNCHANGED <<last_status, reaped, orphans, carried>>

\* A program that writes to a pipe without a reader is killed.
Finish(p) ==
    /\ ProgramEnds(p)
    /\ IF prog[p].kind = "endless" THEN wstatus' = [wstatus EXCEPT ![p] = Killed(SIGPIPE)]
       ELSE \E s \in Statuses : wstatus' = [wstatus EXCEPT ![p] = Exited(s)]
    /\ UNCHANGED <<last_status, reaped, orphans, carried>>

ShellStep == Pipe \/ NoPipe \/ ForkChild \/ NoFork \/ Close \/ Reap
ChildStep(p) == Setup(p) \/ SetupFails(p) \/ Finish(p)

ShellNext == Typed \/ ShellStep \/ \E p \in Pids : ChildStep(p)

(* The shell and every process are scheduled; nobody has to type a line. *)
ShellSpec ==
    /\ ShellInit /\ [][ShellNext]_allVars
    /\ WF_allVars(ShellStep) /\ \A p \in Pids : WF_allVars(ChildStep(p))

----------------------------------------------------------------------------
ShellTypeOK ==
    /\ TypeOK
    /\ last_status \in 0..255 \cup {ERRNO, ERR_CMD_ARGS_BAD}
    /\ reaped \subseteq Pids /\ orphans \subseteq Pids
    /\ carried \in {"nothing", "cd", "bad cd", "pipeline"}
    /\ wstatus \in [Pids -> [exit : 0..255, signal : 0..64]]

(* At the prompt the shell has waited for every child it ever had, also for
   those that ended in another order than it waits in; the only ones it did not
   wait for are those of a line whose fork failed halfway, which go on with the
   terminal for their input. *)
NoStrayChild ==
    pc[Shell] = "idle" => {p \in Pids : st[p] # "none"} = reaped \cup orphans

(* rc tells how the last line ended that was carried out, which is an earlier
   one than the last line typed if that was refused or was rc itself: it prints
   0 before any, after a cd that changed the directory or had no argument, and
   after a pipeline that was carried out to its end and whose last command
   exited with 0, and after nothing else.  Neither a call that failed nor another
   command of the pipeline is taken for the last command, and no line in between
   hides a failure. *)
StatusOfLine ==
    pc[Shell] = "idle" =>
        LET p == Pid(Shell, Len(cmds[Shell]))
        IN  last_status = 0 <=>
                \/ carried \in {"nothing", "cd"}
                \/ carried = "pipeline" /\ p \in reaped /\ wstatus[p] = Exited(0)
=============================================================================
