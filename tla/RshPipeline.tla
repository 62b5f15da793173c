---------------------------- MODULE RshPipeline ----------------------------
(***************************************************************************)
(* rsh_execute_pipeline of 6-RShell/rsh_server.c, run by the sessions of   *)
(* one server process, which may be threads: who holds which end of which  *)
(* pipe decides when a reader finds the end of its input and when a writer *)
(* is told that nobody reads.  fork copies every descriptor of the process *)
(* at that moment, those of the other sessions' pipelines too, and the     *)
(* pipes are not closed on exec.  With a single session it is also the     *)
(* execute_pipeline of the local shell, which forks and closes alike.      *)
(***************************************************************************)
EXTENDS Integers, Sequences, FiniteSets

CONSTANTS
    Sessions,    \* the sessions of the process
    Pipelines,   \* the command lines: sequences of commands
    CMD_MAX,     \* most commands on a line (8 in C)
    MaxRuns,     \* bound on the command lines of one session
    Failures     \* what may fail: "pipe", "fork", "exec"

(* A source ends by itself, a filter at the end of its input, a taker after
   some of its input; an endless command ends when nobody can read its output
   any more. *)
Kinds == {"source", "filter", "taker", "endless"}

(* A command, and which of its input and output a file takes the place of. *)
Commands == [kind : Kinds, redir : SUBSET {"in", "out"}]

ASSUME CommandsAssumption == CMD_MAX \in Nat \ {0}
ASSUME PipelinesAssumption ==
    \A line \in Pipelines : line \in Seq(Commands) /\ Len(line) \in 1..CMD_MAX
ASSUME MaxRunsAssumption == MaxRuns \in Nat

Pids == Sessions \X (1..MaxRuns) \X (1..CMD_MAX)
Ends == Pids \X {"read", "write"}   \* of the pipe after that command

VARIABLES
    pc,      \* session -> where it is in rsh_execute_pipeline
    run,     \* session -> how many command lines it has started
    cmds,    \* session -> clist, the commands of the last one
    k,       \* session -> the index of the current loop
    parent,  \* the pipe ends that are open in the server process
    leaked,  \* those whose numbers no session remembers
    st,      \* child -> what it does
    prog,    \* child -> its command
    holds    \* child -> the pipe ends that are open in it

sessVars == <<run, cmds>>
childVars == <<st, prog, holds>>
vars == <<pc, sessVars, k, parent, leaked, childVars>>

Pid(s, i) == <<s, run[s], i>>
End(p, d) == <<p, d>>
BothEnds(p) == {End(p, "read"), End(p, "write")}
PipeEnds(s) == UNION {BothEnds(Pid(s, i)) : i \in 1..(Len(cmds[s]) - 1)}

Alive(p) == st[p] \in {"setup", "running"}
Held(e) == e \in parent \/ \E p \in Pids : e \in holds[p]

Init ==
    /\ pc = [s \in Sessions |-> "idle"] /\ run = [s \in Sessions |-> 0]
    /\ cmds = [s \in Sessions |-> <<>>] /\ k = [s \in Sessions |-> 1]
    /\ parent = {} /\ leaked = {}
    /\ st = [p \in Pids |-> "none"] /\ prog = [p \in Pids |-> [kind |-> "source", redir |-> {}]]
    /\ holds = [p \in Pids |-> {}]

Goto(s, label, i) == /\ pc' = [pc EXCEPT ![s] = label]
                     /\ k' = [k EXCEPT ![s] = i]

-----------------------------------------------------------------------------
(* rsh_execute_pipeline, in the thread of session s. *)

Begin(s) ==
    /\ pc[s] = "idle" /\ run[s] < MaxRuns
    /\ \E line \in Pipelines : cmds' = [cmds EXCEPT ![s] = line]
    /\ run' = [run EXCEPT ![s] = @ + 1]
    /\ Goto(s, "pipe", 1)
    /\ UNCHANGED <<parent, leaked, childVars>>

CreatePipe(s) ==
    /\ pc[s] = "pipe"
    /\ IF k[s] < Len(cmds[s])
       THEN /\ parent' = parent \cup BothEnds(Pid(s, k[s]))
            /\ Goto(s, "pipe", k[s] + 1)
       ELSE Goto(s, "fork", 1) /\ UNCHANGED parent
    /\ UNCHANGED <<sessVars, leaked, childVars>>

(* pipe() fails: return at once, without closing the pipes it has. *)
PipeFails(s) ==
    /\ "pipe" \in Failures /\ pc[s] = "pipe" /\ k[s] < Len(cmds[s])
    /\ leaked' = leaked \cup (PipeEnds(s) \cap parent)
    /\ Goto(s, "idle", 1)
    /\ UNCHANGED <<sessVars, parent, childVars>>

Fork(s) ==
    /\ pc[s] = "fork"
    /\ IF k[s] <= Len(cmds[s])
       THEN LET p == Pid(s, k[s])
            IN  /\ st' = [st EXCEPT ![p] = "setup"]
                /\ holds' = [holds EXCEPT ![p] = parent]
                /\ prog' = [prog EXCEPT ![p] = cmds[s][k[s]]]
                /\ Goto(s, "fork", k[s] + 1)
       ELSE Goto(s, "close", 1) /\ UNCHANGED childVars
    /\ UNCHANGED <<sessVars, parent, leaked>>

(* The pipes the error path of fork closes.  Mutant: none. *)
Abandoned_None(s) == {}
Abandoned(s) == PipeEnds(s)

(* fork() fails: close the pipes and return without waiting for the children
   that exist. *)
ForkFails(s) ==
    /\ "fork" \in Failures /\ pc[s] = "fork" /\ k[s] <= Len(cmds[s])
    /\ parent' = parent \ Abandoned(s)
    /\ Goto(s, "idle", 1)
    /\ UNCHANGED <<sessVars, leaked, childVars>>

ClosePipe(s) ==
    /\ pc[s] = "close"
    /\ IF k[s] < Len(cmds[s])
       THEN /\ parent' = parent \ BothEnds(Pid(s, k[s]))
            /\ Goto(s, "close", k[s] + 1)
       ELSE Goto(s, "wait", 1) /\ UNCHANGED parent
    /\ UNCHANGED <<sessVars, leaked, childVars>>

(* The children waitpid is called for.  Mutant: not for the last one. *)
WaitedFor_ButLast(s) == 1..(Len(cmds[s]) - 1)
WaitedFor(s) == 1..Len(cmds[s])

(* waitpid(pids[i]) returns when that child has ended. *)
Wait(s) ==
    /\ pc[s] = "wait"
    /\ IF k[s] \in WaitedFor(s)
       THEN /\ st[Pid(s, k[s])] = "zombie"
            /\ Goto(s, "wait", k[s] + 1)
       ELSE Goto(s, "idle", 1)
    /\ UNCHANGED <<sessVars, parent, leaked, childVars>>

-----------------------------------------------------------------------------
(* A child.  dup2 makes pipes its standard input and output, except at the
   ends of the pipeline, and files take their place where the command says so;
   then it closes the descriptors of the pipeline's own pipes.  Mutants: it
   closes none; the first and the last have pipes as well. *)
OwnPipes_Kept(p) == {}
OwnPipes(p) ==
    UNION {BothEnds(<<p[1], p[2], i>>) : i \in 1..CMD_MAX}

Input(p) == End(<<p[1], p[2], p[3] - 1>>, "read")
Output(p) == End(p, "write")
Stdio_AllPiped(p) == {Input(p), Output(p)}
Stdio(p) ==
    holds[p] \cap ((IF "in" \in prog[p].redir THEN {} ELSE {Input(p)})
                   \cup (IF "out" \in prog[p].redir THEN {} ELSE {Output(p)}))

Exec(p) ==
    /\ st[p] = "setup"
    /\ st' = [st EXCEPT ![p] = "running"]
    /\ holds' = [holds EXCEPT ![p] = (@ \ OwnPipes(p)) \cup Stdio(p)]
    /\ UNCHANGED <<pc, sessVars, k, parent, leaked, prog>>

(* dup2, a redirection or execvp fails: _exit(127). *)
ExecFails(p) ==
    /\ "exec" \in Failures /\ st[p] = "setup"
    /\ st' = [st EXCEPT ![p] = "zombie"]
    /\ holds' = [holds EXCEPT ![p] = {}]
    /\ UNCHANGED <<pc, sessVars, k, parent, leaked, prog>>

(* A program ends: its input is a file or has no writer left, its output is a
   pipe without a reader, or it has done what it was to do. *)
CanEnd(p) ==
    LET kind == prog[p].kind  redir == prog[p].redir IN
    \/ kind \in {"source", "taker"}
    \/ /\ kind = "filter"
       /\ "in" \in redir \/ ~Held(End(<<p[1], p[2], p[3] - 1>>, "write"))
    \/ kind = "endless" /\ "out" \notin redir /\ ~Held(End(p, "read"))

ProgramEnds(p) ==
    /\ st[p] = "running" /\ CanEnd(p)
    /\ st' = [st EXCEPT ![p] = "zombie"]
    /\ holds' = [holds EXCEPT ![p] = {}]
    /\ UNCHANGED <<pc, sessVars, k, parent, leaked, prog>>

Session(s) ==
    \/ Begin(s) \/ CreatePipe(s) \/ PipeFails(s) \/ Fork(s) \/ ForkFails(s)
    \/ ClosePipe(s) \/ Wait(s)

Child(p) == Exec(p) \/ ExecFails(p) \/ ProgramEnds(p)

Over ==
    /\ \A s \in Sessions : pc[s] = "idle" /\ run[s] = MaxRuns
    /\ \A p \in Pids : ~Alive(p)
    /\ UNCHANGED vars

Next == (\E s \in Sessions : Session(s)) \/ (\E p \in Pids : Child(p)) \/ Over

(* Every thread and every process is scheduled. *)
Spec ==
    /\ Init /\ [][Next]_vars
    /\ \A s \in Sessions : WF_vars(Session(s))
    /\ \A p \in Pids : WF_vars(Child(p))

-----------------------------------------------------------------------------
TypeOK ==
    /\ pc \in [Sessions -> {"idle", "pipe", "fork", "close", "wait"}]
    /\ run \in [Sessions -> 0..MaxRuns] /\ cmds \in [Sessions -> Pipelines \cup {<<>>}]
    /\ k \in [Sessions -> 1..(CMD_MAX + 1)]
    /\ parent \subseteq Ends /\ leaked \subseteq Ends
    /\ st \in [Pids -> {"none", "setup", "running", "zombie"}]
    /\ prog \in [Pids -> Commands] /\ holds \in [Pids -> SUBSET Ends]

(* Whatever failed, a session that has returned to its prompt has no pipe left
   in the server process, other than those a failing pipe() made it forget. *)
NoPipeLeft ==
    \A s \in Sessions : pc[s] = "idle" =>
        \A e \in parent : e[1][1] = s => e \in leaked

(* A command line that was started completely is over when its answer is:
   no command of it goes on to write to the client's socket. *)
AnswerAfterAllCommands ==
    [][\A s \in Sessions : pc[s] = "wait" /\ pc'[s] = "idle" =>
          \A i \in 1..Len(cmds[s]) : ~Alive(Pid(s, i))]_vars

(* test_dsh4.py:340 "Commands complete (EOF marker works)": every command line
   is over some time, and its session answers. *)
CommandsComplete == \A s \in Sessions : pc[s] # "idle" ~> pc[s] = "idle"

(* So is every process that was ever forked, those a failing fork left behind
   and nobody waits for included. *)
ChildrenEnd == \A p \in Pids : Alive(p) ~> ~Alive(p)
=============================================================================
