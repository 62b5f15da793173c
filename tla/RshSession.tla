----------------------------- MODULE RshSession -----------------------------
(***************************************************************************)
(* One session of the remote shell: the loop of the client in              *)
(* 6-RShell/rsh_cli.c, the two byte streams of its TCP connection, and the *)
(* loop of exec_client_requests in rsh_server.c with the commands it runs. *)
(* Requests end with a NUL byte and answers with 0x04; a recv returns any  *)
(* part of what has arrived.  A request is one byte for its text and one   *)
(* for its NUL; bytes carry the number of the line they belong to, which   *)
(* no step of the program looks at.                                        *)
(***************************************************************************)
EXTENDS Integers, Sequences, SequencesExt

CONSTANTS
    Lines,     \* the kinds of lines the user types
    Outputs,   \* what a command may write: sequences of "data" and "eot"
    MaxLines   \* bound on the number of lines

Kinds == {"empty",      \* no command on it
          "invalid",    \* one that build_cmd_list refuses: too many commands, ...
          "exit", "stop-server", "rc", "cd",
          "exit now",   \* a line whose first word is exit, but not only that
          "run",        \* a pipeline that does not read its standard input
          "read"}       \* a pipeline whose first command reads to the end of it

ASSUME LinesAssumption == Lines \subseteq Kinds
ASSUME OutputsAssumption == Outputs \subseteq Seq({"data", "eot"})
ASSUME MaxLinesAssumption == MaxLines \in Nat

VARIABLES
    cpc,      \* the client: at its prompt, waiting for an answer, or gone
    line,     \* cmd_buff, the line it sent last
    n,        \* how many lines it has sent
    up,       \* client to server: bytes sent and not yet received
    down,     \* server to client
    cliEnd,   \* the connection, as the server finds it after the bytes of up
    srvEnd,   \* and as the client finds it after the bytes of down
    spc,      \* the server: what exec_client_requests is doing
    io,       \* io_buff, up to the NUL
    serving,  \* the number of the request it has received last
    reply,    \* what it still has to send
    next,     \* what it does then
    child,    \* what the running pipeline still has to write
    last_rc,  \* the exit code that rc reports
    orphan,   \* a first command that nobody waits for reads the socket
    clean     \* no command has written 0x04 or been left behind so far

clientVars == <<cpc, line, n>>
serverVars == <<spc, io, serving, reply, next, child, last_rc, orphan, clean>>
vars == <<clientVars, up, down, cliEnd, srvEnd, serverVars>>

Byte(k, c) == [n |-> k, ch |-> c]

Init ==
    /\ cpc = "prompt" /\ line = "empty" /\ n = 0
    /\ up = <<>> /\ down = <<>> /\ cliEnd = "open" /\ srvEnd = "open"
    /\ spc = "recv" /\ io = <<>> /\ serving = 0 /\ reply = <<>> /\ next = "recv"
    /\ child = <<>> /\ last_rc = 0 /\ orphan = FALSE /\ clean = TRUE

(* The kernel closes one end: a reset tells the other one that bytes were
   lost, else it finds the end of the stream after the bytes under way. *)
ClientCloses ==
    /\ cliEnd' = IF down = <<>> THEN "fin" ELSE "rst"
    /\ down' = <<>>

(* A child that was left behind keeps the connection open. *)
ServerCloses ==
    IF orphan
    THEN UNCHANGED <<up, down, srvEnd>>
    ELSE /\ srvEnd' = IF up = <<>> THEN "fin" ELSE "rst"
         /\ \E k \in 0..Len(down) : /\ up = <<>> => k = Len(down)
                                    /\ down' = SubSeq(down, 1, k)
         /\ up' = <<>>

-----------------------------------------------------------------------------
(* exec_remote_cmd_loop. *)

Request(k, l) ==
    (IF l = "empty" THEN <<>> ELSE <<Byte(k, l)>>) \o <<Byte(k, "nul")>>

(* fgets returns a line and send_all sends it with its NUL: to a server that
   has closed its end the bytes are lost, after a reset the send fails. *)
TypeLine(l) ==
    /\ cpc = "prompt" /\ n < MaxLines
    /\ line' = l /\ n' = n + 1
    /\ IF srvEnd = "rst"
       THEN cpc' = "closed" /\ ClientCloses /\ UNCHANGED up
       ELSE /\ cpc' = "recv"
            /\ up' = IF srvEnd = "open" THEN up \o Request(n', l) ELSE up
            /\ UNCHANGED <<down, cliEnd>>
    /\ UNCHANGED <<srvEnd, serverVars>>

(* fgets returns NULL: the loop ends. *)
EndOfInput ==
    /\ cpc = "prompt"
    /\ cpc' = "closed" /\ ClientCloses
    /\ UNCHANGED <<line, n, up, srvEnd, serverVars>>

(* is_last: the test of the last byte of what one recv returned.  Mutant: a
   recv returns a whole answer. *)
IsLast_Always(chunk) == TRUE
IsLast(chunk) == Last(chunk).ch = "eot"

(* Only these very words end the client's loop. *)
Leaves == line \in {"exit", "stop-server"}

RecvChunk ==
    /\ cpc = "recv" /\ down # <<>>
    /\ \E k \in 1..Len(down) :
          LET rest == SubSeq(down, k + 1, Len(down))
              last == IsLast(SubSeq(down, 1, k))
          IN  IF last /\ Leaves
              THEN /\ cpc' = "closed" /\ down' = <<>>
                   /\ cliEnd' = IF rest = <<>> THEN "fin" ELSE "rst"
              ELSE /\ cpc' = IF last THEN "prompt" ELSE "recv"
                   /\ down' = rest /\ UNCHANGED cliEnd
    /\ UNCHANGED <<line, n, up, srvEnd, serverVars>>

(* recv returns 0, "server appeared to terminate", or -1. *)
RecvNothing ==
    /\ cpc = "recv" /\ down = <<>> /\ srvEnd # "open"
    /\ cpc' = "closed" /\ ClientCloses
    /\ UNCHANGED <<line, n, up, srvEnd, serverVars>>

(* The user interrupts the client, or its terminal goes away. *)
Interrupt ==
    /\ cpc # "closed"
    /\ cpc' = "closed" /\ ClientCloses
    /\ UNCHANGED <<line, n, up, srvEnd, serverVars>>

-----------------------------------------------------------------------------
(* exec_client_requests. *)

(* It returns, and its caller closes the socket. *)
Return ==
    /\ spc' = "ended" /\ ServerCloses
    /\ io' = <<>> /\ reply' = <<>> /\ next' = "recv"
    /\ UNCHANGED <<child, orphan>>

(* recv_until_null: append what recv returned; at the first NUL forget what
   came after it.  Mutant: at the last one. *)
NulAt_Last(chunk) == SelectLastInSeq(chunk, LAMBDA b : b.ch = "nul")
NulAt(chunk) == SelectInSeq(chunk, LAMBDA b : b.ch = "nul")

Receive ==
    /\ spc = "recv" /\ up # <<>>
    /\ \E k \in 1..Len(up) :
          LET chunk == SubSeq(up, 1, k)
              nul == NulAt(chunk)
          IN  /\ up' = SubSeq(up, k + 1, Len(up))
              /\ IF nul = 0
                 THEN io' = io \o chunk /\ UNCHANGED <<spc, serving>>
                 ELSE /\ io' = io \o SubSeq(chunk, 1, nul - 1)
                      /\ serving' = chunk[nul].n
                      /\ spc' = "parse"
    /\ UNCHANGED <<clientVars, down, cliEnd, srvEnd, reply, next, child,
                   last_rc, orphan, clean>>

(* recv returned 0.  Mutant: it is taken for a recv to be repeated. *)
AtEnd_Again == FALSE
AtEnd == TRUE

(* recv returns 0 when the client has closed its end, or -1 after a reset. *)
ReceiveNothing ==
    /\ spc = "recv" /\ up = <<>> /\ cliEnd # "open" /\ AtEnd
    /\ Return
    /\ UNCHANGED <<clientVars, cliEnd, serving, last_rc, clean>>

Eot == <<Byte(serving, "eot")>>
Message == <<Byte(serving, "data")>> \o Eot

(* The answer to a builtin that has been executed.  Mutant: without its end. *)
Executed_NoEof == <<>>
Executed == Eot

Answer(bytes, then) == /\ spc' = "reply" /\ reply' = bytes /\ next' = then
                       /\ UNCHANGED child

(* build_cmd_list and the builtins, or the start of the pipeline.  When pipe or
   fork fails, rsh_execute_pipeline returns without waiting for the children
   it has, and the first of them has the socket as its standard input. *)
Dispatch ==
    /\ spc = "parse"
    /\ io' = <<>>
    /\ LET kind == IF io = <<>> THEN "empty" ELSE io[1].ch
       IN  \/ /\ kind \in {"empty", "invalid", "rc"} /\ Answer(Message, "recv")
              /\ UNCHANGED <<last_rc, orphan>>
           \/ /\ kind \in {"exit", "exit now", "stop-server"} /\ Answer(Eot, "end")
              /\ UNCHANGED <<last_rc, orphan>>
           \/ /\ kind = "cd" /\ Answer(Executed, "recv")
              /\ last_rc' = 0 /\ UNCHANGED orphan
           \/ /\ kind \in {"run", "read"}
              /\ \E out \in Outputs : child' = out
              /\ spc' = IF kind = "read" THEN "read" ELSE "run"
              /\ UNCHANGED <<reply, next, last_rc, orphan>>
           \/ /\ kind \in {"run", "read"} /\ Answer(Message, "recv")
              /\ last_rc' = -1                        \* ERR_RDSH_CMD_EXEC
              /\ orphan' \in {orphan, orphan \/ kind = "read"}
    /\ clean' = (clean /\ ~orphan')
    /\ UNCHANGED <<clientVars, up, down, cliEnd, srvEnd, serving>>

(* What a write to the socket does while it succeeds: a client that is gone
   answers with a reset, some time later. *)
Deliver(b) ==
    \/ cliEnd = "open" /\ down' = Append(down, b) /\ UNCHANGED cliEnd
    \/ cliEnd = "fin" /\ cliEnd' \in {"fin", "gone"} /\ UNCHANGED down

(* send_message_string and send_message_eof.  After the first error the socket
   has no reader any more: a send that finds it so raises SIGPIPE, which kills
   the server process, with all its sessions. *)
Send ==
    /\ spc = "reply" /\ reply # <<>>
    /\ \/ /\ Deliver(Head(reply))
          /\ reply' = Tail(reply)
          /\ UNCHANGED <<up, srvEnd, spc, io, next, child, orphan>>
       \/ /\ cliEnd = "rst" /\ cliEnd' = "gone"
          /\ Return
       \/ /\ cliEnd = "gone" /\ spc' = "dead"
          /\ UNCHANGED <<up, down, cliEnd, srvEnd, io, reply, next, child, orphan>>
    /\ UNCHANGED <<clientVars, serving, last_rc, clean>>

Replied ==
    /\ spc = "reply" /\ reply = <<>>
    /\ IF next = "end"
       THEN Return
       ELSE spc' = "recv" /\ UNCHANGED <<up, down, srvEnd, io, reply, next, child, orphan>>
    /\ UNCHANGED <<clientVars, cliEnd, serving, last_rc, clean>>

-----------------------------------------------------------------------------
(* The commands of the pipeline; the last one writes to the socket. *)

ChildWrite ==
    /\ spc = "run" /\ child # <<>>
    /\ \/ /\ Deliver(Byte(serving, Head(child)))
          /\ child' = Tail(child)
       \/ /\ cliEnd \in {"rst", "gone"} /\ cliEnd' = "gone"   \* it fails, or dies
          /\ child' = <<>>
          /\ UNCHANGED down
    /\ clean' = (clean /\ Head(child) # "eot")
    /\ UNCHANGED <<clientVars, up, srvEnd, spc, io, serving, reply, next,
                   last_rc, orphan>>

(* The first command reads what the client sends; at the end of its input it
   goes on to write. *)
ChildRead ==
    /\ spc = "read"
    /\ \/ /\ up # <<>>
          /\ \E k \in 1..Len(up) : up' = SubSeq(up, k + 1, Len(up))
          /\ UNCHANGED spc
       \/ /\ up = <<>> /\ cliEnd # "open"
          /\ spc' = "run" /\ UNCHANGED up
    /\ UNCHANGED <<clientVars, down, cliEnd, srvEnd, io, serving, reply, next,
                   child, last_rc, orphan, clean>>

(* One that was left behind does the same, until its own output, a pipe without
   a reader, or the end of its input ends it; the connection is closed when it
   was the last one to hold it. *)
OrphanRead ==
    /\ orphan
    /\ \/ /\ up # <<>>
          /\ \E k \in 1..Len(up) : up' = SubSeq(up, k + 1, Len(up))
          /\ orphan' \in BOOLEAN
       \/ /\ up = <<>> /\ cliEnd # "open"
          /\ orphan' = FALSE /\ UNCHANGED up
    /\ srvEnd' = IF orphan' \/ spc # "ended" THEN srvEnd
                 ELSE IF up' = <<>> THEN "fin" ELSE "rst"
    /\ UNCHANGED <<clientVars, down, cliEnd, spc, io, serving, reply, next,
                   child, last_rc, clean>>

(* waitpid has returned for all: the exit code, then the end of the answer. *)
ChildrenExit ==
    /\ spc = "run" /\ child = <<>>
    /\ last_rc' \in {0, 1}
    /\ Answer(Eot, "recv")
    /\ UNCHANGED <<clientVars, up, down, cliEnd, srvEnd, io, serving, orphan, clean>>

Client == \/ \E l \in Lines : TypeLine(l)
          \/ EndOfInput \/ Interrupt
ClientRecv == RecvChunk \/ RecvNothing
Server == \/ Receive \/ ReceiveNothing \/ Dispatch \/ Send \/ Replied
Children == ChildWrite \/ ChildRead \/ OrphanRead \/ ChildrenExit

Over == cpc = "closed" /\ spc \in {"ended", "dead"} /\ UNCHANGED vars

Next == Client \/ ClientRecv \/ Server \/ Children \/ Over

Spec == Init /\ [][Next]_vars

(* The processes are scheduled and the network delivers; the user need not
   type anything. *)
FairSpec == Spec /\ WF_vars(ClientRecv) /\ WF_vars(Server) /\ WF_vars(Children)

-----------------------------------------------------------------------------
TextBytes == [n : 1..MaxLines, ch : Kinds]
UpBytes == [n : 1..MaxLines, ch : Kinds \cup {"nul"}]
DownBytes == [n : 0..MaxLines, ch : {"data", "eot"}]

TypeOK ==
    /\ cpc \in {"prompt", "recv", "closed"} /\ line \in Kinds /\ n \in 0..MaxLines
    /\ up \in Seq(UpBytes) /\ down \in Seq(DownBytes)
    /\ cliEnd \in {"open", "fin", "rst", "gone"} /\ srvEnd \in {"open", "fin", "rst"}
    /\ spc \in {"recv", "parse", "run", "read", "reply", "ended", "dead"}
    /\ io \in Seq(TextBytes) /\ serving \in 0..MaxLines
    /\ reply \in Seq(DownBytes) /\ next \in {"recv", "end"}
    /\ child \in Seq({"data", "eot"}) /\ last_rc \in {-1, 0, 1}
    /\ orphan \in BOOLEAN /\ clean \in BOOLEAN

(* Until a command writes 0x04 or is left behind with the socket, client and
   server stay in step, however the streams are cut into pieces: while the
   client waits for an answer, all that arrives belongs to its last line, and
   when it prompts, the server has executed that line, has no other one, and
   the whole answer has been read. *)
InStep ==
    clean =>
        /\ cpc = "recv" => \A k \in 1..Len(down) : down[k].n = n
        /\ cpc = "prompt" => /\ up = <<>> /\ down = <<>>
                             /\ spc \in {"ended", "dead"} \/ serving = n

(* rshlib.h:47 "client exited: getting next connection...": whenever and however
   the client leaves, the server process survives it. *)
ServerOutlivesClient == spc # "dead"

(* Every line gets its answer, or the client learns that the server has gone;
   except a command that reads its standard input, which is the socket. *)
Answered == (cpc = "recv" /\ line # "read") ~> (cpc # "recv" \/ ~clean)

(* A client that is gone does not leave its handler behind: its thread ends and
   its socket is closed, wherever the session was. *)
HandlerEnds == (cpc = "closed") ~> (spc \in {"ended", "dead"})
=============================================================================
