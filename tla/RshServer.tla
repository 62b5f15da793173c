----------------------------- MODULE RshServer -----------------------------
(***************************************************************************)
(* The remote-shell server process of 6-RShell/rsh_server.c: start_server, *)
(* the two accept loops, one handler thread per client, the stop request   *)
(* and the descriptor table all these threads share.  Every open, close    *)
(* and shutdown names a NUMBER of that table, as in the code, so a close   *)
(* hits whatever object the number denotes at that moment.  No descriptor  *)
(* is closed on exec, so the commands that sessions start inherit the      *)
(* sockets, and a socket is gone only when the last copy is.  What a       *)
(* session says on its socket is the subject of RshSession; what the       *)
(* processes of a pipeline do with its pipes is the subject of RshPipeline.*)
(***************************************************************************)
EXTENDS Integers, FiniteSets

CONSTANTS
    Clients,   \* the clients; each connects at most once
    Fds,       \* descriptor numbers above stdio, up to RLIMIT_NOFILE
    Modes,     \* the values of is_threaded that are explored
    MaxPipes,  \* most pipes one command line asks for (CMD_MAX - 1 in C)
    None       \* no client, no descriptor

ASSUME FdsAssumption == Fds \subseteq Nat
ASSUME ModesAssumption == Modes \subseteq BOOLEAN
ASSUME PipesAssumption == MaxPipes \in Nat
ASSUME NoneAssumption == None \notin Clients /\ None \notin Fds

OK == "OK"
OK_EXIT == "OK_EXIT"
ERR_RDSH_COMMUNICATION == "ERR_RDSH_COMMUNICATION"
ERR_RDSH_SERVER == "ERR_RDSH_SERVER"
Codes == {OK, OK_EXIT, ERR_RDSH_COMMUNICATION, ERR_RDSH_SERVER}

(* What accept reports that no descriptor number explains: a connection its
   client broke while it waited, the limits of process and system. *)
KernelErrnos == {"ECONNABORTED", "EMFILE", "ENOBUFS"}
Errnos == {"none", "EBADF", "EINVAL", "EINTR", "ENOTSOCK"} \cup KernelErrnos

VARIABLES
    mode,   \* threaded_mode_enabled
    stop,   \* threaded_stop_requested
    lock,   \* the handler that holds threaded_state_lock, or None
    pc,     \* where the main thread is
    cur,    \* the client whose socket the main thread holds
    rc,     \* what the accept loop returned
    err,    \* errno of a failed accept, until the loop has looked at it
    table,  \* the descriptor table: number -> kernel object
    svr,    \* svr_socket, the listening socket's number
    shut,   \* the listening socket was shut down or destroyed
    held,   \* the sockets that commands have copies of
    conn,   \* the connection of each client
    hpc,    \* where the code that serves a client is
    sock,   \* its cli_socket
    res,    \* what its exec_client_requests returned
    need,   \* pipes its command line still has to create
    pfds    \* the pipe descriptors its locals pipes[][] hold

mainVars == <<pc, cur, rc, err, svr, mode>>
sessVars == <<res, need, pfds>>
vars == <<mode, stop, lock, pc, cur, rc, err, table, svr, shut, held, conn,
          hpc, sock, res, need, pfds>>

Obj(kind, who) == [kind |-> kind, who |-> who]
Free == Obj("free", None)
Listener == Obj("listen", None)
Objects == [kind : {"free", "listen", "sock", "pipe"}, who : Clients \cup {None}]
Sockets == {Listener} \cup {Obj("sock", c) : c \in Clients}

MainPcs == {"boot", "check", "accept", "blocked", "failed", "spawn", "serve",
            "return", "exit", "exited"}
SessionPcs == {"start", "recv", "pipe", "wait", "closing", "ret"}
HandlerPcs == SessionPcs \cup {"none", "lock", "shutdown", "close", "unlock",
                               "done", "killed"}

(* A connection is kept when the server has closed it and a command has not:
   its client sees no difference to an open one. *)
ConnStates == {"none", "queued", "open", "kept", "closed", "reset"}

FreeFds == {f \in Fds : table[f] = Free}

(* POSIX: a new descriptor is the lowest number that is not in use. *)
Lowest(f, S) == f \in S /\ \A g \in S : f <= g

(* What the kernel does to the listening socket when it is shut down or its
   last descriptor goes: the connections nobody has accepted are reset. *)
ResetQueued == [c \in Clients |-> IF conn[c] = "queued" THEN "reset" ELSE conn[c]]

(* What the client sees when the server's last descriptor of its socket goes. *)
AfterClose(c) == IF Obj("sock", c) \in held THEN "kept" ELSE "closed"

Init ==
    /\ mode = FALSE /\ stop = FALSE /\ lock = None
    /\ pc = "boot" /\ cur = None /\ rc = OK /\ err = "none"
    /\ table = [f \in Fds |-> Free]
    /\ svr = None /\ shut = FALSE /\ held = {}
    /\ conn = [c \in Clients |-> "none"]
    /\ hpc = [c \in Clients |-> "none"]
    /\ sock = [c \in Clients |-> None]
    /\ res = [c \in Clients |-> OK]
    /\ need = [c \in Clients |-> 0]
    /\ pfds = [c \in Clients |-> {}]

-----------------------------------------------------------------------------
(* The main thread. *)

(* close(cli_socket).  Mutant: an error path forgets it. *)
CloseSocket_Forgotten(c) == UNCHANGED <<table, conn>>
CloseSocket(c) ==
    /\ table' = [table EXCEPT ![sock[c]] = Free]
    /\ conn' = [conn EXCEPT ![c] = AfterClose(c)]

(* start_server up to the choice of the loop, with boot_server's socket,
   bind and listen succeeding. *)
Boot ==
    /\ pc = "boot"
    /\ \E f \in Fds, threaded \in Modes :
          /\ Lowest(f, FreeFds)
          /\ svr' = f
          /\ table' = [table EXCEPT ![f] = Listener]
          /\ mode' = threaded
          /\ pc' = IF threaded THEN "check" ELSE "accept"
    /\ stop' = FALSE
    /\ UNCHANGED <<lock, cur, rc, err, shut, held, conn, hpc, sock, sessVars>>

(* boot_server fails at any of its calls; it closes what it opened. *)
BootFails ==
    /\ pc = "boot"
    /\ rc' = ERR_RDSH_COMMUNICATION
    /\ pc' = "exit"
    /\ UNCHANGED <<mode, stop, lock, cur, err, table, svr, shut, held,
                   conn, hpc, sock, sessVars>>

(* while (!is_threaded_stop_requested()): the flag is read under the lock. *)
CheckStop ==
    /\ pc = "check" /\ lock = None
    /\ IF stop THEN pc' = "return" /\ rc' = OK_EXIT
               ELSE pc' = "accept" /\ rc' = rc
    /\ UNCHANGED <<mode, stop, lock, cur, err, table, svr, shut, held,
                   conn, hpc, sock, sessVars>>

(* accept() resolves the number svr_socket to an object. *)
EnterAccept ==
    /\ pc = "accept"
    /\ \/ table[svr].kind = "listen" /\ pc' = "blocked" /\ err' = err
       \/ table[svr].kind = "free" /\ pc' = "failed" /\ err' = "EBADF"
       \/ table[svr].kind = "pipe" /\ pc' = "failed" /\ err' = "ENOTSOCK"
       \/ table[svr].kind = "sock" /\ pc' = "failed" /\ err' = "EINVAL"
    /\ UNCHANGED <<mode, stop, lock, cur, rc, table, svr, shut, held,
                   conn, hpc, sock, sessVars>>

(* The threaded loop goes on to create a handler, the other one enters
   exec_client_requests itself.  Mutant: both do. *)
ServedInline_Always == TRUE
ServedInline == ~mode

(* accept() returns a connection. *)
Accept(c) ==
    /\ pc = "blocked" /\ ~shut /\ conn[c] = "queued"
    /\ \E f \in Fds :
          /\ Lowest(f, FreeFds)
          /\ table' = [table EXCEPT ![f] = Obj("sock", c)]
          /\ sock' = [sock EXCEPT ![c] = f]
    /\ conn' = [conn EXCEPT ![c] = "open"]
    /\ cur' = c
    /\ pc' = IF ServedInline THEN "serve" ELSE "spawn"
    /\ hpc' = [hpc EXCEPT ![c] = IF ServedInline THEN "start" ELSE "none"]
    /\ UNCHANGED <<mode, stop, lock, rc, err, svr, shut, held, sessVars>>

(* accept() fails: the socket was shut or no number is free, which it finds out
   first; a signal came, or the system has no memory, file or network for it. *)
AcceptFails(e) ==
    /\ pc = "blocked"
    /\ \/ e = "EINVAL" /\ shut
       \/ e = "EMFILE" /\ ~shut /\ FreeFds = {}
       \/ e \in {"EINTR", "ENOBUFS"} /\ ~shut /\ FreeFds # {}
    /\ pc' = "failed" /\ err' = e
    /\ UNCHANGED <<mode, stop, lock, cur, rc, table, svr, shut, held,
                   conn, hpc, sock, sessVars>>

(* A client breaks its connection while it waits, and accept reports that. *)
AcceptBroken(c) ==
    /\ pc = "blocked" /\ ~shut /\ FreeFds # {} /\ conn[c] = "queued"
    /\ conn' = [conn EXCEPT ![c] = "reset"]
    /\ pc' = "failed" /\ err' = "ECONNABORTED"
    /\ UNCHANGED <<mode, stop, lock, cur, rc, table, svr, shut, held, hpc, sock,
                   sessVars>>

(* cli_socket < 0: retry after EINTR, OK_EXIT when a stop explains the error,
   else the server gives up.  process_cli_requests always gives up. *)
AcceptError ==
    /\ pc = "failed"
    /\ IF mode /\ err = "EINTR"
       THEN pc' = "check" /\ rc' = rc
       ELSE /\ mode => lock = None
            /\ pc' = "return"
            /\ rc' = IF mode /\ stop /\ err \in {"EBADF", "EINVAL"}
                     THEN OK_EXIT ELSE ERR_RDSH_COMMUNICATION
    /\ err' = "none"
    /\ UNCHANGED <<mode, stop, lock, cur, table, svr, shut, held, conn, hpc,
                   sock, sessVars>>

(* exec_client_thread: the handler owns the socket from here on. *)
Spawn ==
    /\ pc = "spawn"
    /\ hpc' = [hpc EXCEPT ![cur] = "start"]
    /\ pc' = "check" /\ cur' = None
    /\ UNCHANGED <<mode, stop, lock, rc, err, table, svr, shut, held, conn,
                   sock, sessVars>>

(* malloc or pthread_create fails: close(cli_socket) and give up. *)
SpawnFails ==
    /\ pc = "spawn"
    /\ CloseSocket(cur)
    /\ pc' = "return" /\ rc' = ERR_RDSH_SERVER /\ cur' = None
    /\ UNCHANGED <<mode, stop, lock, err, svr, shut, held, hpc, sock, sessVars>>

(* process_cli_requests after exec_client_requests has returned. *)
Served ==
    /\ pc = "serve" /\ hpc[cur] = "ret"
    /\ CloseSocket(cur)
    /\ hpc' = [hpc EXCEPT ![cur] = "done"]
    /\ cur' = None
    /\ IF res[cur] = OK THEN pc' = "accept" /\ rc' = rc
                        ELSE pc' = "return" /\ rc' = res[cur]
    /\ UNCHANGED <<mode, stop, lock, err, svr, shut, held, sock, sessVars>>

(* A close of number f ends the listening socket if no command has a copy of
   it; else it goes on listening, although nobody will ever accept. *)
LastOfListener(f) == table[f] = Listener /\ Listener \notin held

(* What close(svr_socket) does: the number is freed whatever it denotes; a
   listening socket nobody refers to any more takes its queue with it. *)
CloseSvr ==
    /\ table' = [table EXCEPT ![svr] = Free]
    /\ IF LastOfListener(svr)
       THEN shut' = TRUE /\ conn' = ResetQueued
       ELSE UNCHANGED <<shut, conn>>

(* The end of start_server: the threaded server closes svr_socket unless it
   ends because of a stop request, which closed it already. *)
StopServer ==
    /\ pc = "return"
    /\ (mode /\ rc = OK_EXIT) => lock = None
    /\ IF mode /\ rc = OK_EXIT /\ stop
       THEN UNCHANGED <<table, shut, conn>>
       ELSE CloseSvr
    /\ pc' = "exit"
    /\ UNCHANGED <<mode, stop, lock, cur, rc, err, svr, held, hpc, sock, sessVars>>

(* The process ends, with every thread and descriptor in it; the commands it
   has started go on, with their copies. *)
ProcessEnds ==
    /\ pc' = "exited"
    /\ table' = [f \in Fds |-> Free]
    /\ shut' = (shut \/ Listener \notin held)
    /\ conn' = [c \in Clients |->
                  CASE conn[c] = "queued" /\ Listener \notin held -> "reset"
                    [] conn[c] = "open" -> AfterClose(c)
                    [] OTHER -> conn[c]]
    /\ hpc' = [c \in Clients |-> IF hpc[c] \in {"none", "done"} THEN hpc[c]
                                                                ELSE "killed"]
    /\ lock' = None
    /\ pfds' = [c \in Clients |-> {}]
    /\ UNCHANGED <<mode, stop, cur, rc, err, svr, held, sock, res, need>>

(* main() returns. *)
Exit == pc = "exit" /\ ProcessEnds

-----------------------------------------------------------------------------
(* exec_client_requests(cli_socket) for client c, in its own thread or in   *)
(* the main thread, seen from the descriptor table.                         *)

mainAndListener == <<mode, stop, lock, pc, cur, rc, err, svr, shut, held, conn,
                     sock>>

EndSession(c, r) ==
    /\ hpc' = [hpc EXCEPT ![c] = "ret"]
    /\ res' = [res EXCEPT ![c] = r]

SessionStart(c) ==
    /\ hpc[c] = "start"
    /\ \/ hpc' = [hpc EXCEPT ![c] = "recv"] /\ res' = res
       \/ EndSession(c, ERR_RDSH_SERVER)      \* malloc(RDSH_COMM_BUFF_SZ) fails
    /\ UNCHANGED <<mainAndListener, table, need, pfds>>

(* recv: the client left or said exit (OK), said stop-server (OK_EXIT), or a
   recv or a send of the reply failed. *)
RecvEnds(c) ==
    /\ hpc[c] = "recv"
    /\ \E r \in {OK, OK_EXIT, ERR_RDSH_COMMUNICATION} : EndSession(c, r)
    /\ UNCHANGED <<mainAndListener, table, need, pfds>>

(* A command line of n + 1 commands reaches rsh_execute_pipeline. *)
RecvCommand(c) ==
    /\ hpc[c] = "recv"
    /\ \E n \in 0..MaxPipes : need' = [need EXCEPT ![c] = n]
    /\ hpc' = [hpc EXCEPT ![c] = "pipe"]
    /\ UNCHANGED <<mainAndListener, table, res, pfds>>

(* The bound of the loop that creates the pipes.  Mutant: one pipe too many. *)
MorePipes_OffByOne(c) == need[c] >= 0
MorePipes(c) == need[c] > 0

PipeCreate(c) ==
    /\ hpc[c] = "pipe" /\ MorePipes(c)
    /\ \E f \in Fds, g \in Fds :
          /\ Lowest(f, FreeFds) /\ Lowest(g, FreeFds \ {f})
          /\ table' = [table EXCEPT ![f] = Obj("pipe", c), ![g] = Obj("pipe", c)]
          /\ pfds' = [pfds EXCEPT ![c] = @ \cup {f, g}]
    /\ need' = [need EXCEPT ![c] = @ - 1]
    /\ UNCHANGED <<mainAndListener, hpc, res>>

(* pipe() fails for want of two free numbers: the function returns at once
   and the pipes it had already created stay open, their numbers forgotten. *)
PipeFails(c) ==
    /\ hpc[c] = "pipe" /\ MorePipes(c)
    /\ \A f \in FreeFds : FreeFds \ {f} = {}
    /\ hpc' = [hpc EXCEPT ![c] = "recv"]
    /\ need' = [need EXCEPT ![c] = 0]
    /\ pfds' = [pfds EXCEPT ![c] = {}]
    /\ UNCHANGED <<mainAndListener, table, res>>

(* fork(): the child gets a copy of every socket of the process, the listening
   one and those of other clients too, and hands them on to its command. *)
Fork(c) ==
    /\ hpc[c] = "pipe" /\ ~MorePipes(c)
    /\ held' = held \cup {o \in Sockets : \E f \in Fds : table[f] = o}
    /\ UNCHANGED <<mode, stop, lock, pc, cur, rc, err, table, svr, shut, conn,
                   hpc, sock, sessVars>>

(* All children forked, or a fork failed: either way the pipes are closed. *)
Forked(c) ==
    /\ hpc[c] = "pipe" /\ ~MorePipes(c)
    /\ hpc' = [hpc EXCEPT ![c] = "closing"]
    /\ UNCHANGED <<mainAndListener, table, sessVars>>

ClosePipe(c) ==
    /\ hpc[c] = "closing"
    /\ \E f \in pfds[c] :
          /\ table' = [table EXCEPT ![f] = Free]
          /\ pfds' = [pfds EXCEPT ![c] = @ \ {f}]
          /\ IF LastOfListener(f) THEN shut' = TRUE /\ conn' = ResetQueued
                                  ELSE UNCHANGED <<shut, conn>>
    /\ UNCHANGED <<mode, stop, lock, pc, cur, rc, err, svr, held, sock, hpc, res,
                   need>>

PipesClosed(c) ==
    /\ hpc[c] = "closing" /\ pfds[c] = {}
    /\ hpc' = [hpc EXCEPT ![c] = "wait"]
    /\ UNCHANGED <<mainAndListener, table, sessVars>>

(* A reply is sent to a client that has gone and whose system has said so
   already: send() without MSG_NOSIGNAL raises SIGPIPE, which ends the process
   and not only this session. *)
SigPipe(c) ==
    /\ pc # "exited" /\ hpc[c] \in {"recv", "wait"}
    /\ ProcessEnds

(* waitpid on every child, then the reply, whose send may fail. *)
CommandDone(c) ==
    /\ hpc[c] = "wait"
    /\ \/ hpc' = [hpc EXCEPT ![c] = "recv"] /\ res' = res
       \/ EndSession(c, ERR_RDSH_COMMUNICATION)
    /\ UNCHANGED <<mainAndListener, table, need, pfds>>

-----------------------------------------------------------------------------
(* handle_client after exec_client_requests, and request_threaded_server_stop. *)

(* rc == OK_EXIT.  Mutant: any failure of the session requests the stop. *)
WantsStop_AnyFailure(c) == res[c] # OK
WantsStop(c) == res[c] = OK_EXIT

HandlerClose(c) ==
    /\ mode /\ hpc[c] = "ret"
    /\ CloseSocket(c)
    /\ hpc' = [hpc EXCEPT ![c] = IF WantsStop(c) THEN "lock" ELSE "done"]
    /\ UNCHANGED <<mode, stop, lock, pc, cur, rc, err, svr, shut, held, sock,
                   sessVars>>

(* if (!threaded_stop_requested): only one request shuts and closes. *)
FirstRequest == ~stop

(* threaded_stop_requested = 1.  Mutant: the flag stays as it is. *)
StopFlag_NotSet == stop
StopFlag == TRUE

StopLock(c) ==
    /\ hpc[c] = "lock" /\ lock = None
    /\ lock' = c /\ stop' = StopFlag
    /\ hpc' = [hpc EXCEPT ![c] = IF FirstRequest THEN "shutdown" ELSE "unlock"]
    /\ UNCHANGED <<mainVars, table, shut, held, conn, sock, sessVars>>

(* shutdown(main_socket): it wakes a blocked accept; on a number that is not
   the listening socket it fails and changes nothing the model keeps.  Mutant:
   close() without shutdown(). *)
ShutsDown_Never == FALSE
ShutsDown == table[svr] = Listener

StopShutdown(c) ==
    /\ hpc[c] = "shutdown"
    /\ IF ShutsDown
       THEN shut' = TRUE /\ conn' = ResetQueued
       ELSE UNCHANGED <<shut, conn>>
    /\ hpc' = [hpc EXCEPT ![c] = "close"]
    /\ UNCHANGED <<mainVars, stop, lock, table, held, sock, sessVars>>

(* close(main_socket).  A main thread blocked in accept keeps the object, but
   not the number. *)
StopClose(c) ==
    /\ hpc[c] = "close"
    /\ table' = [table EXCEPT ![svr] = Free]
    /\ hpc' = [hpc EXCEPT ![c] = "unlock"]
    /\ UNCHANGED <<mainVars, stop, lock, shut, held, conn, sock, sessVars>>

Unlocked == None

StopUnlock_ClosesAgain(c) ==
    /\ hpc[c] = "unlock"
    /\ lock' = Unlocked
    /\ hpc' = [hpc EXCEPT ![c] = "done"]
    /\ table' = [table EXCEPT ![sock[c]] = Free]
    /\ UNCHANGED <<mainVars, stop, shut, held, conn, sock, sessVars>>
StopUnlock(c) ==
    /\ hpc[c] = "unlock"
    /\ lock' = Unlocked
    /\ hpc' = [hpc EXCEPT ![c] = "done"]
    /\ UNCHANGED <<mainVars, stop, table, shut, held, conn, sock, sessVars>>

-----------------------------------------------------------------------------
(* Outside the server.  A client connects while the socket listens, whether or
   not there is still somebody to accept. *)
Connect(c) ==
    /\ conn[c] = "none" /\ svr # None /\ ~shut
    /\ conn' = [conn EXCEPT ![c] = "queued"]
    /\ UNCHANGED <<mode, stop, lock, pc, cur, rc, err, table, svr, shut, held,
                   hpc, sock, sessVars>>

(* The last command that has a copy of a socket ends, or closes it: commands
   are any programs, those left behind by a failing fork or started in the
   background by others included, so this may be long after the answer. *)
Release(o) ==
    /\ o \in held
    /\ held' = held \ {o}
    /\ IF o = Listener /\ \A f \in Fds : table[f] # Listener
       THEN shut' = TRUE /\ conn' = ResetQueued
       ELSE /\ shut' = shut
            /\ conn' = [c \in Clients |-> IF o = Obj("sock", c) /\ conn[c] = "kept"
                                          THEN "closed" ELSE conn[c]]
    /\ UNCHANGED <<mode, stop, lock, pc, cur, rc, err, table, svr, hpc, sock,
                   sessVars>>

Main ==
    \/ Boot \/ BootFails \/ CheckStop \/ EnterAccept
    \/ \E c \in Clients : Accept(c) \/ AcceptBroken(c)
    \/ \E e \in Errnos : AcceptFails(e)
    \/ AcceptError \/ Spawn \/ SpawnFails \/ Served \/ StopServer \/ Exit

Session(c) ==
    \/ SessionStart(c) \/ RecvEnds(c) \/ RecvCommand(c) \/ PipeCreate(c)
    \/ PipeFails(c) \/ Fork(c) \/ Forked(c) \/ ClosePipe(c) \/ PipesClosed(c)
    \/ CommandDone(c) \/ SigPipe(c)

StopRequest(c) ==
    HandlerClose(c) \/ StopLock(c) \/ StopShutdown(c) \/ StopClose(c) \/ StopUnlock(c)

Stopped == pc = "exited" /\ UNCHANGED vars

Next ==
    \/ Main
    \/ \E c \in Clients : Connect(c) \/ Session(c) \/ StopRequest(c)
    \/ \E o \in Sockets : Release(o)
    \/ Stopped

Spec == Init /\ [][Next]_vars

(* The scheduler runs every thread that can move; clients need not send and
   commands need not end, so Session and Release get no fairness.  EINTR needs a signal:
   strong fairness says that accept is not interrupted for ever. *)
FairSpec ==
    /\ Spec
    /\ WF_vars(Main)
    /\ \A c \in Clients : SF_vars(Accept(c)) /\ WF_vars(StopRequest(c))

-----------------------------------------------------------------------------
TypeOK ==
    /\ mode \in BOOLEAN /\ stop \in BOOLEAN /\ shut \in BOOLEAN
    /\ lock \in Clients \cup {None}
    /\ pc \in MainPcs
    /\ cur \in Clients \cup {None}
    /\ rc \in Codes /\ err \in Errnos
    /\ table \in [Fds -> Objects]
    /\ svr \in Fds \cup {None}
    /\ held \subseteq Sockets
    /\ conn \in [Clients -> ConnStates]
    /\ hpc \in [Clients -> HandlerPcs]
    /\ sock \in [Clients -> Fds \cup {None}]
    /\ res \in [Clients -> Codes]
    /\ need \in [Clients -> 0..MaxPipes]
    /\ pfds \in [Clients -> SUBSET Fds]

(* The thread that still has to close client c's socket. *)
Responsible(c) == hpc[c] \in SessionPcs \/ (pc = "spawn" /\ cur = c)

(* Every accepted connection has exactly one owner until that owner closes
   it: its number denotes it, no other number does, and some thread is
   responsible for the close (no descriptor is stolen, leaked or closed
   twice, although threads close numbers they share). *)
SocketsOwned ==
    \A c \in Clients :
        /\ conn[c] = "open" <=> (pc # "exited" /\ Responsible(c))
        /\ conn[c] = "open" => \A f \in Fds : table[f] = Obj("sock", c) <=> f = sock[c]

(* Until start_server's last close, the pipes a session holds are its own:
   no other thread's close has hit one of their numbers. *)
PipesOwned ==
    pc \notin {"exit", "exited"} =>
        \A c \in Clients : \A f \in pfds[c] : table[f] = Obj("pipe", c)

(* The server never loses its listening socket while it serves, other than
   by a stop request: an accept that fails with EBADF or ENOTSOCK has a stop
   request behind it. *)
ListenerHeld ==
    pc \in {"check", "accept", "blocked", "spawn", "serve"} /\ ~stop =>
        table[svr] = Listener /\ ~shut

(* Once a stop request is through, no connection is accepted any more, also
   when the main thread was already inside accept. *)
NoAcceptAfterStop ==
    [][\A c \in Clients : stop /\ lock = None => ~(conn[c] = "queued" /\ conn'[c] = "open")]_vars

(* Every end of the threaded accept loop has a cause outside the descriptor
   table: a client said stop-server, no thread could be created, or accept
   failed for reasons of the kernel's.  A session ends nothing but itself, be
   it that its client leaves, breaks the connection or is in the middle of a
   command, and no thread's close makes accept fail on a lost number; OK_EXIT
   is returned for a stop-server only.  A client can end the loop without one
   by breaking its connection before it is accepted, as every failure of
   accept but EINTR is final.  (SIGPIPE does not go through the loop.) *)
EndHasCause ==
    [][mode /\ pc # "return" /\ pc' = "return" =>
          \/ \E c \in Clients : res[c] = OK_EXIT
          \/ pc = "spawn" /\ rc' = ERR_RDSH_SERVER
          \/ err \in KernelErrnos /\ rc' = ERR_RDSH_COMMUNICATION]_vars

(* network-protocol-analysis.md:150: after a stop-server the server "closes
   listening socket and exits": what start_server's last close hits is the
   listening socket, or a number that is free already. *)
LastCloseIsListener ==
    [][pc = "return" /\ pc' = "exit" =>
          table' = table \/ table[svr] \in {Listener, Free}]_vars


(* The server is over and its listening socket lives on in a command. *)
LeftListening == pc \in {"exit", "exited"} /\ Listener \in held

(* In threaded mode a connection never waits behind another session: it is
   accepted or turned away, unless the server has ended without it and left the
   listening socket to a command. *)
QueuedIsServed ==
    \A c \in Clients : (mode /\ conn[c] = "queued") ~> (conn[c] # "queued" \/ LeftListening)

(* What clients could see of the server's state. *)
Phase ==
    IF svr = None THEN "down"
    ELSE IF shut THEN "closed"
    ELSE IF pc \in {"exit", "exited"} THEN "deaf" ELSE "up"

(* Threads that share a descriptor table, a flag and a lock, and commands that
   hold copies of its sockets, give their clients the service of RshService: in
   the single-threaded loop no session begins before the last one's socket is
   closed; whoever closes or shuts down the listening socket, those who wait are
   turned away at the moment it is gone and not before, and nobody is served
   after the server has closed it. *)
Service == INSTANCE RshService WITH phase <- Phase, threaded <- mode
ImplementsService == Service!Spec
=============================================================================
