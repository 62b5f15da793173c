------------------------------ MODULE DshLocal ------------------------------
(***************************************************************************)
(* The local shell, exec_local_cmd_loop of 6-RShell/dshlib.c: it reads a   *)
(* line, builds its commands with CmdParser, runs a builtin or a pipeline  *)
(* and frees the commands' buffers.  How the processes of a pipeline run   *)
(* is in RshPipeline; here it is its outcome.                              *)
(***************************************************************************)
EXTENDS CmdParser

CONSTANTS
    Lines,      \* what fgets may return, the newline removed
    MaxLines,   \* bound on the lines of a run
    EXIT_CMD, CD_CMD, RC_CMD, DRAGON_CMD, STOP_CMD,   \* names of the builtins
    Statuses,   \* exit statuses of a command
    ERRNO       \* errno of a call that failed

ASSUME LinesAssumption == \A l \in Lines : l \in Seq(Char) /\ Len(l) < SH_CMD_MAX
ASSUME StatusAssumption == MaxLines \in Nat /\ Statuses \subseteq Nat /\ ERRNO \in Nat \ {0}

VARIABLES
    n,            \* how many lines have been read
    last_status   \* of the last command that ran

vars == <<pc, parserVars, n, last_status>>

Init == pc = "prompt" /\ ParserInit /\ n = 0 /\ last_status = 0

----------------------------------------------------------------------------
ReadLine(l) ==
    /\ pc = "prompt" /\ n < MaxLines
    /\ n' = n + 1 /\ BuildList(l) /\ UNCHANGED last_status

EndOfInput ==
    /\ pc = "prompt" /\ pc' = "ended"
    /\ UNCHANGED <<parserVars, n, last_status>>

\* The list was not built: a message, and the next prompt.
Rejected ==
    /\ pc = "parsed" /\ rc # OK /\ pc' = "prompt"
    /\ Forget /\ UNCHANGED <<clist, rc, live, refused, n, last_status>>

\* The end of a turn of the loop.
FreeCommands == FreeList /\ Forget /\ UNCHANGED <<refused, n>>

Alone(name) == pc = "parsed" /\ rc = OK /\ Len(clist) = 1 /\ clist[1].argv[1] = name

ExitBuiltIn ==
    /\ Alone(EXIT_CMD) /\ pc' = "ended"
    /\ FreeCommands /\ UNCHANGED <<rc, last_status>>

\* rc prints last_status, stop-server means nothing here.
SilentBuiltIn ==
    /\ \E name \in {RC_CMD, STOP_CMD} : Alone(name)
    /\ pc' = "prompt" /\ FreeCommands /\ UNCHANGED <<rc, last_status>>

CdStatus(argc) == CASE argc = 1 -> {0} [] argc > 2 -> {ERR_CMD_ARGS_BAD} [] OTHER -> {0, ERRNO}

CdBuiltIn ==
    /\ Alone(CD_CMD) /\ last_status' \in CdStatus(Len(clist[1].argv))
    /\ pc' = "prompt" /\ FreeCommands /\ UNCHANGED rc

DragonBuiltIn ==
    /\ Alone(DRAGON_CMD) /\ last_status' = 0
    /\ pc' = "prompt" /\ FreeCommands /\ UNCHANGED rc

IsBuiltIn ==
    \E name \in {EXIT_CMD, CD_CMD, RC_CMD, DRAGON_CMD, STOP_CMD} : Alone(name)

\* Anything else is run by execute_pipeline, which may fail.
Executed ==
    /\ pc = "parsed" /\ rc = OK /\ ~IsBuiltIn
    /\ \/ last_status' \in Statuses /\ UNCHANGED rc
       \/ last_status' = ERRNO /\ rc' = ERR_EXEC_CMD
    /\ pc' = "prompt" /\ FreeCommands

Exited == pc = "ended" /\ UNCHANGED vars

Next ==
    \/ \E l \in Lines : ReadLine(l)
    \/ Parse /\ UNCHANGED <<n, last_status>>
    \/ EndOfInput \/ Rejected \/ ExitBuiltIn \/ SilentBuiltIn \/ CdBuiltIn
    \/ DragonBuiltIn \/ Executed \/ Exited

Spec == Init /\ [][Next]_vars

----------------------------------------------------------------------------
(* Types. *)
Word == Seq(Char)
CommandType == [argv : Seq(Word), input : Word, output : Word, append : BOOLEAN]
TypeOK ==
    /\ pc \in {"prompt", "list", "expand", "tokens", "args", "parsed", "ended"}
    /\ line \in Word /\ rest \in Word /\ seg \in Word /\ clist \in Seq(CommandType)
    /\ rc \in ERR_EXEC_CMD..OK /\ src \in Nat \ {0} /\ quote \in Quotes \cup {Unquoted}
    /\ expanded \in Seq(Char \cup {NUL}) /\ tokens \in Seq(Word) /\ tok \in Word
    /\ open \in BOOLEAN /\ dst \in Nat /\ cmd \in CommandType
    /\ live \in Nat /\ refused \in Nat /\ n \in 0..MaxLines
    /\ last_status \in Statuses \cup {0, ERRNO, ERR_CMD_ARGS_BAD}

(* Back at the prompt, every buffer of the commands of the line has been freed
   exactly once, on every path out of the parser and of the loop; the only ones
   that stay are those of the segments that build_cmd_buff refused, which are
   not counted in clist->num yet when the list is freed. *)
BuffersFreed == pc \in {"prompt", "ended"} => clist = <<>> /\ live = refused
=============================================================================
