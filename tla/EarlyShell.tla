----------------------------- MODULE EarlyShell -----------------------------
(***************************************************************************)
(* The first two shells, exec_local_cmd_loop of 3-ShellP1/dshlib.c, which  *)
(* only parses its lines, and of 4-ShellP2/dshlib.c, which runs one        *)
(* command at a time in a child process.  fgets returns what fits in       *)
(* cmd_line: what is left of a long line, and a last line without a        *)
(* newline, are read as the two loops read them.                           *)
(***************************************************************************)
EXTENDS InPlaceParser

CONSTANTS
    Stages,     \* the shells that are run: "P1", "P2"
    Typed,      \* the lines a user may type, without their newline
    MaxLines,   \* bound on the lines of a run
    EXIT_CMD, CD_CMD, RC_CMD, DRAGON_CMD,   \* names of the builtins
    Statuses,   \* exit statuses of a program
    Signals,    \* signals that may end it
    ENOENT, EACCES, EAGAIN   \* values of errno

NEWLINE == "\\n"

ASSUME NewlineAssumption == NEWLINE \notin Plain
ASSUME StagesAssumption == Stages \subseteq {"P1", "P2"}
ASSUME TypedAssumption == Typed \subseteq Seq(Char) /\ MaxLines \in Nat
ASSUME StatusAssumption ==
    /\ Statuses \subseteq 0..255 /\ Signals \subseteq 1..64
    /\ {ENOENT, EACCES, EAGAIN} \subseteq 1..124 /\ ENOENT # EACCES

VARIABLES
    stdin,        \* what fgets has not read of what was typed
    eof,          \* whether nothing else will be typed
    n,            \* how many lines were typed
    typed,        \* history: the last of them
    last_status,  \* P2: what rc prints
    child,        \* P2: "none", "forked", "running", "zombie"
    status,       \* how it ended
    ran,          \* history: whether the last child's execvp succeeded
    said          \* the message the last line got

inputVars == <<stdin, eof, n, typed>>
childVars == <<last_status, child, status, ran, said>>
vars == <<pc, parserVars, inputVars, childVars>>

Exit(code) == [exit |-> code, signal |-> 0]
Killed(signal) == [exit |-> 0, signal |-> signal]

Init ==
    /\ stage \in Stages /\ ParserInit
    /\ pc = "prompt" /\ live = (IF stage = "P2" THEN 1 ELSE 0)
    /\ stdin = <<>> /\ eof = FALSE /\ n = 0 /\ typed = <<>>
    /\ last_status = 0 /\ child = "none" /\ status = Exit(0)
    /\ ran = FALSE /\ said = "nothing"

\* alloc_cmd_buff fails before P2's loop.
AllocFails ==
    /\ stage = "P2" /\ MallocFails /\ pc = "prompt" /\ n = 0 /\ ~eof
    /\ pc' = "ended" /\ rc' = ERR_MEMORY /\ live' = 0
    /\ UNCHANGED <<stage, listVars, scanVars, refused, inputVars, childVars>>

----------------------------------------------------------------------------
(* Reading a line. *)

\* The user types a line, or ends the input in the middle of one.
TypeLine(l) ==
    /\ pc = "prompt" /\ stdin = <<>> /\ ~eof /\ n < MaxLines
    /\ n' = n + 1 /\ typed' = l
    /\ \/ stdin' = Append(l, NEWLINE) /\ UNCHANGED eof
       \/ stdin' = l /\ eof' = TRUE
    /\ UNCHANGED <<pc, parserVars, childVars>>

\* What fgets returns, and what it leaves.
Newlines == {i \in DOMAIN stdin : stdin[i] = NEWLINE}
PieceLength == Min({SH_CMD_MAX - 1, Len(stdin)} \cup Newlines)
HasNewline == \E i \in Newlines : i <= PieceLength
Piece == SubSeq(stdin, 1, PieceLength - (IF HasNewline THEN 1 ELSE 0))
Unread == SubSeq(stdin, PieceLength + 1, Len(stdin))

\* P1 drains the rest of a line that does not fit.  Mutant: it does not.
Drained_Not == Unread
Drained ==
    SubSeq(stdin, (IF Newlines = {} THEN Len(stdin) ELSE Min(Newlines)) + 1, Len(stdin))

EndInput ==
    /\ pc = "prompt" /\ stdin = <<>>
    /\ pc' = "ended" /\ eof' = TRUE
    /\ live' = IF stage = "P2" THEN 0 ELSE live
    /\ UNCHANGED <<stage, listVars, rc, scanVars, refused, stdin, n, typed, childVars>>

TooLong ==
    /\ stage = "P1" /\ pc = "prompt" /\ stdin # <<>> /\ ~HasNewline
    /\ stdin' = Drained /\ rc' = ERR_CMD_OR_ARGS_TOO_BIG
    /\ said' = "nothing"
    /\ UNCHANGED <<pc, stage, listVars, scanVars, live, refused, eof, n, typed,
                   last_status, child, status, ran>>

ExitTyped ==
    /\ stage = "P1" /\ pc = "prompt" /\ HasNewline /\ Trim(Piece) = EXIT_CMD
    /\ stdin' = Unread /\ rc' = OK /\ pc' = "ended" /\ said' = "exiting"
    /\ UNCHANGED <<stage, listVars, scanVars, live, refused, eof, n, typed,
                   last_status, child, status, ran>>

ReadLine ==
    /\ pc = "prompt" /\ stdin # <<>>
    /\ \/ stage = "P1" /\ HasNewline /\ Trim(Piece) # EXIT_CMD /\ BuildList(Piece)
       \/ stage = "P2" /\ BuildBuff(Piece)
    /\ stdin' = Unread /\ said' = "nothing"
    /\ UNCHANGED <<eof, n, typed, last_status, child, status, ran>>

----------------------------------------------------------------------------
(* What the loops do with the commands. *)

Warning ==
    IF rc = WARN_NO_CMDS THEN "no commands"
    ELSE IF rc = ERR_TOO_MANY_COMMANDS THEN "too many pipes" ELSE "nothing"

Rejected ==
    /\ pc = "parsed" /\ rc # OK
    /\ pc' = "prompt" /\ said' = Warning /\ Forget
    /\ UNCHANGED <<stage, clist, rc, live, refused, inputVars, last_status, child,
                   status, ran>>

\* P1 prints the commands, and the dragon if that is all the line says.
Printed ==
    /\ stage = "P1" /\ pc = "parsed" /\ rc = OK
    /\ said' = IF Len(clist) = 1 /\ Strings(clist[1])[1] = DRAGON_CMD
               THEN "dragon" ELSE "commands"
    /\ pc' = "prompt" /\ FreeList /\ Forget
    /\ UNCHANGED <<stage, rc, refused, inputVars, last_status, child, status, ran>>

\* P2 has a command to run.
Command == Strings([buf |-> buf, argv |-> argv])
Ready == stage = "P2" /\ pc = "parsed" /\ rc = OK
BuiltIns == {EXIT_CMD, RC_CMD, CD_CMD}

ExitBuiltIn ==
    /\ Ready /\ Command[1] = EXIT_CMD
    /\ pc' = "ended" /\ said' = "exiting" /\ live' = 0 /\ Forget
    /\ UNCHANGED <<stage, clist, rc, refused, inputVars, last_status, child, status, ran>>

CdStatus(argc) ==
    CASE argc = 1 -> {0} [] argc > 2 -> {ERR_CMD_ARGS_BAD} [] OTHER -> {0, ENOENT, EACCES}

BuiltIn ==
    /\ Ready /\ Command[1] \in {RC_CMD, CD_CMD}
    /\ IF Command[1] = RC_CMD THEN said' = "status" /\ UNCHANGED last_status
       ELSE said' = "nothing" /\ last_status' \in CdStatus(Len(argv))
    /\ pc' = "prompt" /\ Forget
    /\ UNCHANGED <<stage, clist, rc, live, refused, inputVars, child, status, ran>>

Fork ==
    /\ Ready /\ Command[1] \notin BuiltIns
    /\ pc' = "wait" /\ child' = "forked" /\ ran' = FALSE
    /\ UNCHANGED <<parserVars, inputVars, last_status, status, said>>

ForkFails ==
    /\ Ready /\ Command[1] \notin BuiltIns
    /\ pc' = "prompt" /\ rc' = ERR_EXEC_CMD /\ last_status' = EAGAIN
    /\ said' = "fork" /\ ran' = FALSE /\ Forget
    /\ UNCHANGED <<stage, clist, live, refused, inputVars, child, status>>

\* The child: execvp, or _exit with the errno of its failure.  Mutant: the
\* child of a failed execvp exits with 0.
ExecStatus_Zero(errno) == 0
ExecStatus(errno) == errno

Exec ==
    /\ child = "forked"
    /\ \/ child' = "running" /\ ran' = TRUE /\ UNCHANGED status
       \/ /\ child' = "zombie" /\ UNCHANGED ran
          /\ \E errno \in {ENOENT, EACCES} : status' = Exit(ExecStatus(errno))
    /\ UNCHANGED <<pc, parserVars, inputVars, last_status, said>>

ProgramEnds ==
    /\ child = "running" /\ child' = "zombie"
    /\ \/ \E s \in Statuses : status' = Exit(s)
       \/ \E s \in Signals : status' = Killed(s)
    /\ UNCHANGED <<pc, parserVars, inputVars, last_status, ran, said>>

StatusOf(s) == IF s.signal = 0 THEN s.exit ELSE 128 + s.signal

MessageOf(s) ==
    CASE s = 0 -> "nothing" [] s = ENOENT -> "not found" [] s = EACCES -> "denied"
      [] OTHER -> "execution failure"

Wait ==
    /\ pc = "wait" /\ child = "zombie"
    /\ last_status' = StatusOf(status) /\ said' = MessageOf(last_status')
    /\ pc' = "prompt" /\ child' = "none" /\ Forget
    /\ UNCHANGED <<stage, clist, rc, live, refused, inputVars, status, ran>>

Exited == pc = "ended" /\ UNCHANGED vars

Next ==
    \/ AllocFails \/ (\E l \in Typed : TypeLine(l)) \/ EndInput
    \/ TooLong \/ ExitTyped \/ ReadLine
    \/ Parse /\ UNCHANGED <<inputVars, childVars>>
    \/ Rejected \/ Printed \/ ExitBuiltIn \/ BuiltIn \/ Fork \/ ForkFails
    \/ Exec \/ ProgramEnds \/ Wait \/ Exited

Spec == Init /\ [][Next]_vars

----------------------------------------------------------------------------
(* Types. *)
Word == Seq(Char)
Buffers == [1..SH_CMD_MAX -> Char \cup {NUL}]
CommandType == [buf : Buffers, argv : Seq(Nat)]
TypeOK ==
    /\ stage \in Stages
    /\ pc \in {"prompt", "list", "scan", "parsed", "wait", "ended"}
    /\ line \in Word /\ rest \in Word /\ more \in BOOLEAN /\ clist \in Seq(CommandType)
    /\ rc \in ERR_EXEC_CMD..OK /\ buf \in Buffers /\ argv \in Seq(Nat)
    /\ src \in Nat /\ dst \in Nat /\ token_start \in Nat \cup {NULL}
    /\ quote \in Quotes \cup {Unquoted} /\ live \in Nat /\ refused \in Nat
    /\ stdin \in Seq(Char \cup {NEWLINE}) /\ eof \in BOOLEAN
    /\ n \in 0..MaxLines /\ typed \in Word
    /\ last_status \in 0..255 \cup {ERR_CMD_ARGS_BAD}
    /\ child \in {"none", "forked", "running", "zombie"} /\ ran \in BOOLEAN
    /\ status \in [exit : 0..255, signal : 0..64]
    /\ said \in {"nothing", "no commands", "too many pipes", "commands", "dragon",
                 "exiting", "status", "fork", "not found", "denied",
                 "execution failure"}

(* At the prompt P1 has freed every buffer but those of refused segments, and
   P2 has the one it allocated before the loop; at the end P2 has none. *)
BuffersFreed ==
    /\ stage = "P1" /\ pc \in {"prompt", "ended"} => clist = <<>> /\ live = refused
    /\ stage = "P2" => live = IF pc = "ended" THEN 0 ELSE 1

(* dshlib.c:536 of P1, "drain the remainder so it does not become a new
   command": the parser is only ever given a line as the user typed it. *)
WholeLines == stage = "P1" /\ pc = "parsed" => line = Trim(typed)

(* The wait tells a failure from a success: a command that never ran, was killed
   or returned an error leaves a status other than 0 and a message, and only
   such a command does. *)
FailureIsTold ==
    [][pc = "wait" /\ pc' = "prompt" =>
          LET failed == ~ran \/ status # Exit(0)
          IN  failed = (last_status' # 0) /\ failed = (said' # "nothing")]_vars
=============================================================================
