-------------------------- MODULE RshServerProofs --------------------------
(***************************************************************************)
(* Safety of the server for any set of clients, any descriptor limit and   *)
(* any number of pipes: the invariants and the action properties that the  *)
(* runs of MCRshServer check on small instances, and that it implements    *)
(* RshService.                                                             *)
(***************************************************************************)
EXTENDS RshServer, TLAPS

Serving == {"check", "accept", "blocked", "failed", "spawn", "serve", "return"}
Ending == {"exit", "exited"}

(* Nothing exists before boot_server has succeeded. *)
BootInv ==
    /\ pc = "boot" => svr = None
    /\ pc \in Serving => svr \in Fds
    /\ svr = None => \A c \in Clients :
                        hpc[c] = "none" /\ conn[c] = "none" /\ pfds[c] = {}
    /\ svr = None => \A f \in Fds : table[f] = Free
    /\ svr = None => ~shut \/ pc = "exited"
    /\ svr = None => ~stop /\ held = {}

(* The main thread holds a client exactly while it is responsible for it. *)
MainInv ==
    /\ pc \in {"spawn", "serve"} => cur \in Clients
    /\ pc = "spawn" => hpc[cur] = "none" /\ mode
    /\ pc = "serve" => ~mode
    /\ pc = "exited" => \A c \in Clients : hpc[c] \in {"none", "done", "killed"}
    /\ \A c \in Clients : ~mode /\ hpc[c] \in SessionPcs => pc \in {"serve", "exited"} /\ cur = c

(* Which number denotes which connection. *)
SocketInv ==
    \A c \in Clients :
        /\ conn[c] = "open" <=> (pc # "exited" /\ Responsible(c))
        /\ conn[c] \in {"none", "queued"} => hpc[c] = "none"
        /\ conn[c] = "open" => sock[c] \in Fds
        /\ conn[c] = "open" => \A f \in Fds : table[f] = Obj("sock", c) <=> f = sock[c]

(* Every socket in the table is an open connection, and svr_socket's number is
   never given to one: no accept succeeds once the number was closed. *)
TableInv ==
    /\ \A c \in Clients : \A f \in Fds : table[f] = Obj("sock", c) =>
          conn[c] = "open" /\ f # svr
    /\ ~shut /\ pc \in Serving => table[svr] = Listener

(* A pipe number is hit by a foreign close only in start_server's last step,
   and then it is svr_socket's number. *)
PipeInv ==
    \A c \in Clients : \A f \in pfds[c] :
        table[f] = Obj("pipe", c) \/ (pc \in Ending /\ f = svr)

(* The protocol of the stop request. *)
StopInv ==
    /\ \A c \in Clients : hpc[c] \in {"shutdown", "close", "unlock"} =>
                             stop /\ lock = c /\ svr \in Fds
    /\ \A c \in Clients : hpc[c] \in {"close", "unlock"} => shut \/ pc \in Ending
    /\ \A c \in Clients : hpc[c] \in {"shutdown", "close"} =>
                             table[svr] = Listener \/ pc \in Ending
    /\ stop => shut \/ pc \in Ending \/ \E c \in Clients : hpc[c] = "shutdown"
    /\ shut => stop \/ pc \in Ending

IInv == BootInv /\ MainInv /\ SocketInv /\ TableInv /\ PipeInv /\ StopInv

-----------------------------------------------------------------------------
(* What the proofs need to know of the kernel objects. *)
LEMMA ObjectFacts ==
    /\ Free \in Objects /\ Listener \in Objects /\ Free # Listener
    /\ \A c \in Clients :
          /\ Obj("sock", c) \in Objects \ {Free, Listener}
          /\ Obj("pipe", c) \in Objects \ {Free, Listener}
    /\ \A c, d \in Clients :
          /\ Obj("sock", c) # Obj("pipe", d)
          /\ Obj("sock", c) = Obj("sock", d) => c = d
          /\ Obj("pipe", c) = Obj("pipe", d) => c = d
BY DEF Free, Listener, Obj, Objects

(* The client of a closed connection sees it closed, or kept by a command. *)
LEMMA ClosedOrKept == \A c : AfterClose(c) \in {"kept", "closed"}
BY DEF AfterClose

LEMMA TypeInit == Init => TypeOK
<1> SUFFICES ASSUME Init PROVE TypeOK
  OBVIOUS
<1> USE ObjectFacts, PipesAssumption DEF Init
<1>1. mode \in BOOLEAN /\ stop \in BOOLEAN /\ shut \in BOOLEAN
  OBVIOUS
<1>2. /\ lock \in Clients \cup {None} /\ cur \in Clients \cup {None} /\ svr \in Fds \cup {None}
      /\ pc \in MainPcs /\ rc \in Codes /\ err \in Errnos
  BY DEF MainPcs, Codes, Errnos, KernelErrnos, OK
<1>3. /\ table \in [Fds -> Objects] /\ conn \in [Clients -> ConnStates]
      /\ hpc \in [Clients -> HandlerPcs] /\ res \in [Clients -> Codes]
  BY DEF ConnStates, HandlerPcs, Codes, OK
<1>4. /\ sock \in [Clients -> Fds \cup {None}] /\ need \in [Clients -> 0..MaxPipes]
      /\ pfds \in [Clients -> SUBSET Fds] /\ held \subseteq Sockets
  OBVIOUS
<1> QED
  BY <1>1, <1>2, <1>3, <1>4 DEF TypeOK

(* Types are preserved without any other invariant. *)
LEMMA TypeStep == TypeOK /\ [Next]_vars => TypeOK'
<1> SUFFICES ASSUME TypeOK, [Next]_vars PROVE TypeOK'
  OBVIOUS
<1> USE ObjectFacts, ClosedOrKept, ModesAssumption, PipesAssumption
    DEF TypeOK, mainVars, sessVars, mainAndListener,
        MainPcs, SessionPcs, HandlerPcs, ConnStates, Codes, Errnos, KernelErrnos, OK, OK_EXIT,
        ERR_RDSH_COMMUNICATION, ERR_RDSH_SERVER
<1>1. CASE Boot
  BY <1>1 DEF Boot
<1>2. CASE BootFails
  BY <1>2 DEF BootFails
<1>3. CASE CheckStop
  BY <1>3 DEF CheckStop
<1>4. CASE EnterAccept
  BY <1>4 DEF EnterAccept
<1>5. ASSUME NEW c \in Clients, Accept(c) PROVE TypeOK'
  BY <1>5 DEF Accept, ServedInline
<1>6. ASSUME NEW e \in Errnos, AcceptFails(e) PROVE TypeOK'
  BY <1>6 DEF AcceptFails
<1>7. CASE AcceptError
  BY <1>7 DEF AcceptError
<1>8. CASE Spawn
  BY <1>8 DEF Spawn
<1>9. CASE SpawnFails
  BY <1>9 DEF SpawnFails, CloseSocket
<1>10. CASE Served
  <2>1. table' \in [Fds -> Objects]
    BY <1>10 DEF Served, CloseSocket
  <2>2. conn' \in [Clients -> ConnStates]
    BY <1>10 DEF Served, CloseSocket
  <2>3. shut' \in BOOLEAN /\ stop' \in BOOLEAN
    BY <1>10 DEF Served, CloseSocket
  <2>4. hpc' \in [Clients -> HandlerPcs] /\ pfds' \in [Clients -> SUBSET Fds]
    BY <1>10 DEF Served, CloseSocket
  <2> QED
    BY <1>10, <2>1, <2>2, <2>3, <2>4 DEF Served, CloseSocket
<1>11. CASE StopServer
  <2>1. table' \in [Fds -> Objects]
    BY <1>11 DEF StopServer, CloseSvr, LastOfListener, ResetQueued
  <2>2. conn' \in [Clients -> ConnStates]
    BY <1>11 DEF StopServer, CloseSvr, LastOfListener, ResetQueued
  <2>3. shut' \in BOOLEAN /\ stop' \in BOOLEAN
    BY <1>11 DEF StopServer, CloseSvr, LastOfListener, ResetQueued
  <2>4. hpc' \in [Clients -> HandlerPcs] /\ pfds' \in [Clients -> SUBSET Fds]
    BY <1>11 DEF StopServer, CloseSvr, LastOfListener, ResetQueued
  <2> QED
    BY <1>11, <2>1, <2>2, <2>3, <2>4 DEF StopServer, CloseSvr, LastOfListener, ResetQueued
<1>12. CASE Exit
  BY <1>12 DEF Exit, ProcessEnds
<1>13. ASSUME NEW c \in Clients, Connect(c) PROVE TypeOK'
  BY <1>13 DEF Connect
<1>14. ASSUME NEW c \in Clients, SessionStart(c) PROVE TypeOK'
  BY <1>14 DEF SessionStart, EndSession
<1>15. ASSUME NEW c \in Clients, RecvEnds(c) PROVE TypeOK'
  BY <1>15 DEF RecvEnds, EndSession
<1>16. ASSUME NEW c \in Clients, RecvCommand(c) PROVE TypeOK'
  BY <1>16 DEF RecvCommand
<1>17. ASSUME NEW c \in Clients, PipeCreate(c) PROVE TypeOK'
  BY <1>17 DEF PipeCreate, MorePipes
<1>18. ASSUME NEW c \in Clients, PipeFails(c) PROVE TypeOK'
  BY <1>18 DEF PipeFails, MorePipes
<1>19. ASSUME NEW c \in Clients, Forked(c) PROVE TypeOK'
  BY <1>19 DEF Forked, MorePipes
<1>20. ASSUME NEW c \in Clients, ClosePipe(c) PROVE TypeOK'
  <2>1. table' \in [Fds -> Objects]
    BY <1>20 DEF ClosePipe, LastOfListener, ResetQueued
  <2>2. conn' \in [Clients -> ConnStates]
    BY <1>20 DEF ClosePipe, LastOfListener, ResetQueued
  <2>3. shut' \in BOOLEAN /\ stop' \in BOOLEAN
    BY <1>20 DEF ClosePipe, LastOfListener, ResetQueued
  <2>4. hpc' \in [Clients -> HandlerPcs] /\ pfds' \in [Clients -> SUBSET Fds]
    BY <1>20 DEF ClosePipe, LastOfListener, ResetQueued
  <2> QED
    BY <1>20, <2>1, <2>2, <2>3, <2>4 DEF ClosePipe, LastOfListener, ResetQueued
<1>21. ASSUME NEW c \in Clients, PipesClosed(c) PROVE TypeOK'
  BY <1>21 DEF PipesClosed
<1>22. ASSUME NEW c \in Clients, CommandDone(c) PROVE TypeOK'
  BY <1>22 DEF CommandDone, EndSession
<1>23. ASSUME NEW c \in Clients, HandlerClose(c) PROVE TypeOK'
  <2>1. table' \in [Fds -> Objects]
    BY <1>23 DEF HandlerClose, WantsStop, CloseSocket
  <2>2. conn' \in [Clients -> ConnStates]
    BY <1>23 DEF HandlerClose, WantsStop, CloseSocket
  <2>3. shut' \in BOOLEAN /\ stop' \in BOOLEAN
    BY <1>23 DEF HandlerClose, WantsStop, CloseSocket
  <2>4. hpc' \in [Clients -> HandlerPcs] /\ pfds' \in [Clients -> SUBSET Fds]
    BY <1>23 DEF HandlerClose, WantsStop, CloseSocket
  <2> QED
    BY <1>23, <2>1, <2>2, <2>3, <2>4 DEF HandlerClose, WantsStop, CloseSocket
<1>24. ASSUME NEW c \in Clients, StopLock(c) PROVE TypeOK'
  BY <1>24 DEF StopLock, FirstRequest, StopFlag
<1>25. ASSUME NEW c \in Clients, StopShutdown(c) PROVE TypeOK'
  <2>1. table' \in [Fds -> Objects]
    BY <1>25 DEF StopShutdown, ShutsDown, ResetQueued
  <2>2. conn' \in [Clients -> ConnStates]
    BY <1>25 DEF StopShutdown, ShutsDown, ResetQueued
  <2>3. shut' \in BOOLEAN /\ stop' \in BOOLEAN
    BY <1>25 DEF StopShutdown, ShutsDown, ResetQueued
  <2>4. hpc' \in [Clients -> HandlerPcs] /\ pfds' \in [Clients -> SUBSET Fds]
    BY <1>25 DEF StopShutdown, ShutsDown, ResetQueued
  <2> QED
    BY <1>25, <2>1, <2>2, <2>3, <2>4 DEF StopShutdown, ShutsDown, ResetQueued
<1>26. ASSUME NEW c \in Clients, StopClose(c) PROVE TypeOK'
  <2>1. table' \in [Fds -> Objects]
    BY <1>26 DEF StopClose
  <2>2. conn' \in [Clients -> ConnStates]
    BY <1>26 DEF StopClose
  <2>3. shut' \in BOOLEAN /\ stop' \in BOOLEAN
    BY <1>26 DEF StopClose
  <2>4. hpc' \in [Clients -> HandlerPcs] /\ pfds' \in [Clients -> SUBSET Fds]
    BY <1>26 DEF StopClose
  <2> QED
    BY <1>26, <2>1, <2>2, <2>3, <2>4 DEF StopClose
<1>27. ASSUME NEW c \in Clients, StopUnlock(c) PROVE TypeOK'
  BY <1>27 DEF StopUnlock, Unlocked
<1>28. ASSUME NEW c \in Clients, SigPipe(c) PROVE TypeOK'
  BY <1>28 DEF SigPipe, ProcessEnds
<1>29. CASE UNCHANGED vars
  BY <1>29 DEF vars
<1>30. ASSUME NEW c \in Clients, AcceptBroken(c) PROVE TypeOK'
  BY <1>30 DEF AcceptBroken
<1>31. ASSUME NEW c \in Clients, Fork(c) PROVE TypeOK'
  BY <1>31 DEF Fork, MorePipes
<1>32. ASSUME NEW o \in Sockets, Release(o) PROVE TypeOK'
  <2>1. conn' \in [Clients -> ConnStates]
    BY <1>32 DEF Release, ResetQueued
  <2>2. held' \subseteq Sockets /\ shut' \in BOOLEAN
    BY <1>32 DEF Release
  <2> QED
    BY <1>32, <2>1, <2>2 DEF Release
<1> QED
  BY <1>1, <1>2, <1>3, <1>4, <1>5, <1>6, <1>7, <1>8, <1>9, <1>10,
     <1>11, <1>12, <1>13, <1>14, <1>15, <1>16, <1>17, <1>18,
     <1>19, <1>20, <1>21, <1>22, <1>23, <1>24, <1>25, <1>26, <1>27, <1>28, <1>29,
     <1>30, <1>31, <1>32
  DEF Next, Main, Session, StopRequest, Stopped

(* Every variable keeps its type (TypeOK), whatever clients and threads do. *)
THEOREM TypeCorrect == Spec => []TypeOK
<1> QED
  BY TypeInit, TypeStep, PTL DEF Spec

-----------------------------------------------------------------------------
LEMMA InitInv == Init => IInv
<1> SUFFICES ASSUME Init PROVE IInv
  OBVIOUS
<1> USE ObjectFacts, NoneAssumption DEF Init
<1>1. BootInv
  BY DEF BootInv, Serving
<1>2. MainInv
  BY DEF MainInv, SessionPcs
<1>3. SocketInv
  BY DEF SocketInv, Responsible, SessionPcs
<1>4. TableInv
  BY DEF TableInv, Serving
<1>5. PipeInv /\ StopInv
  BY DEF PipeInv, StopInv
<1> QED
  BY <1>1, <1>2, <1>3, <1>4, <1>5 DEF IInv

LEMMA StepInv == TypeOK /\ TypeOK' /\ IInv /\ [Next]_vars => IInv'
<1> SUFFICES ASSUME TypeOK, TypeOK', IInv, [Next]_vars PROVE IInv'
  OBVIOUS
<1> USE ObjectFacts, ClosedOrKept, NoneAssumption, FdsAssumption
    DEF TypeOK, IInv, BootInv, MainInv, SocketInv, TableInv, PipeInv, StopInv,
        Serving, Ending, Responsible, MainPcs, FreeFds, Lowest, OK, SessionPcs,
        mainVars, sessVars, mainAndListener
<1>1. CASE Boot
  <2>1. BootInv'
    BY <1>1 DEF Boot
  <2>2. MainInv'
    BY <1>1 DEF Boot
  <2>3. SocketInv'
    BY <1>1 DEF Boot
  <2>4. TableInv'
    BY <1>1 DEF Boot
  <2>5. PipeInv'
    <3> SUFFICES ASSUME NEW d \in Clients, NEW g \in pfds'[d]
                 PROVE  table'[g] = Obj("pipe", d) \/ (pc' \in Ending /\ g = svr')
      OBVIOUS
    <3>1. g \in Fds
      OBVIOUS
    <3> QED
      BY <1>1, <3>1 DEF Boot
  <2>6. StopInv'
    BY <1>1 DEF Boot
  <2> QED
    BY <2>1, <2>2, <2>3, <2>4, <2>5, <2>6 DEF IInv
<1>2. CASE BootFails
  BY <1>2 DEF BootFails
<1>3. CASE CheckStop
  BY <1>3 DEF CheckStop
<1>4. CASE EnterAccept
  BY <1>4 DEF EnterAccept
<1>5. ASSUME NEW c \in Clients, Accept(c) PROVE IInv'
  <2>1. BootInv'
    BY <1>5 DEF Accept, ServedInline
  <2>2. MainInv'
    BY <1>5 DEF Accept, ServedInline
  <2>3. SocketInv'
    BY <1>5 DEF Accept, ServedInline
  <2>4. TableInv'
    BY <1>5 DEF Accept, ServedInline
  <2>5. PipeInv'
    <3> SUFFICES ASSUME NEW d \in Clients, NEW g \in pfds'[d]
                 PROVE  table'[g] = Obj("pipe", d) \/ (pc' \in Ending /\ g = svr')
      OBVIOUS
    <3>1. g \in Fds
      OBVIOUS
    <3> QED
      BY <1>5, <3>1 DEF Accept, ServedInline
  <2>6. StopInv'
    BY <1>5 DEF Accept, ServedInline
  <2> QED
    BY <2>1, <2>2, <2>3, <2>4, <2>5, <2>6 DEF IInv
<1>6. ASSUME NEW e \in Errnos, AcceptFails(e) PROVE IInv'
  BY <1>6 DEF AcceptFails
<1>7. CASE AcceptError
  BY <1>7 DEF AcceptError
<1>8. CASE Spawn
  BY <1>8 DEF Spawn
<1>9. CASE SpawnFails
  <2>1. BootInv'
    BY <1>9 DEF SpawnFails, CloseSocket
  <2>2. MainInv'
    BY <1>9 DEF SpawnFails, CloseSocket
  <2>3. SocketInv'
    BY <1>9 DEF SpawnFails, CloseSocket
  <2>4. TableInv'
    BY <1>9 DEF SpawnFails, CloseSocket
  <2>5. PipeInv'
    <3> SUFFICES ASSUME NEW d \in Clients, NEW g \in pfds'[d]
                 PROVE  table'[g] = Obj("pipe", d) \/ (pc' \in Ending /\ g = svr')
      OBVIOUS
    <3>1. g \in Fds
      OBVIOUS
    <3> QED
      BY <1>9, <3>1 DEF SpawnFails, CloseSocket
  <2>6. StopInv'
    BY <1>9 DEF SpawnFails, CloseSocket
  <2> QED
    BY <2>1, <2>2, <2>3, <2>4, <2>5, <2>6 DEF IInv
<1>10. CASE Served
  <2>1. BootInv'
    BY <1>10 DEF Served, CloseSocket
  <2>2. MainInv'
    BY <1>10 DEF Served, CloseSocket
  <2>3. SocketInv'
    BY <1>10 DEF Served, CloseSocket
  <2>4. TableInv'
    BY <1>10 DEF Served, CloseSocket
  <2>5. PipeInv'
    <3> SUFFICES ASSUME NEW d \in Clients, NEW g \in pfds'[d]
                 PROVE  table'[g] = Obj("pipe", d) \/ (pc' \in Ending /\ g = svr')
      OBVIOUS
    <3>1. g \in Fds
      OBVIOUS
    <3> QED
      BY <1>10, <3>1 DEF Served, CloseSocket
  <2>6. StopInv'
    BY <1>10 DEF Served, CloseSocket
  <2> QED
    BY <2>1, <2>2, <2>3, <2>4, <2>5, <2>6 DEF IInv
<1>11. CASE StopServer
  <2>1. BootInv'
    BY <1>11 DEF StopServer, CloseSvr, LastOfListener, ResetQueued
  <2>2. MainInv'
    BY <1>11 DEF StopServer, CloseSvr, LastOfListener, ResetQueued
  <2>3. SocketInv'
    BY <1>11 DEF StopServer, CloseSvr, LastOfListener, ResetQueued
  <2>4. TableInv'
    BY <1>11 DEF StopServer, CloseSvr, LastOfListener, ResetQueued
  <2>5. PipeInv'
    <3> SUFFICES ASSUME NEW d \in Clients, NEW g \in pfds'[d]
                 PROVE  table'[g] = Obj("pipe", d) \/ (pc' \in Ending /\ g = svr')
      OBVIOUS
    <3>1. g \in Fds
      OBVIOUS
    <3> QED
      BY <1>11, <3>1 DEF StopServer, CloseSvr, LastOfListener, ResetQueued
  <2>6. StopInv'
    BY <1>11 DEF StopServer, CloseSvr, LastOfListener, ResetQueued
  <2> QED
    BY <2>1, <2>2, <2>3, <2>4, <2>5, <2>6 DEF IInv
<1>12. CASE Exit
  <2>1. BootInv'
    BY <1>12 DEF Exit, ProcessEnds
  <2>2. MainInv'
    BY <1>12 DEF Exit, ProcessEnds
  <2>3. SocketInv'
    BY <1>12 DEF Exit, ProcessEnds
  <2>4. TableInv'
    BY <1>12 DEF Exit, ProcessEnds
  <2>5. PipeInv'
    <3> SUFFICES ASSUME NEW d \in Clients, NEW g \in pfds'[d]
                 PROVE  table'[g] = Obj("pipe", d) \/ (pc' \in Ending /\ g = svr')
      OBVIOUS
    <3>1. g \in Fds
      OBVIOUS
    <3> QED
      BY <1>12, <3>1 DEF Exit, ProcessEnds
  <2>6. StopInv'
    BY <1>12 DEF Exit, ProcessEnds
  <2> QED
    BY <2>1, <2>2, <2>3, <2>4, <2>5, <2>6 DEF IInv
<1>13. ASSUME NEW c \in Clients, Connect(c) PROVE IInv'
  <2>1. BootInv'
    BY <1>13 DEF Connect
  <2>2. MainInv'
    BY <1>13 DEF Connect
  <2>3. SocketInv'
    BY <1>13 DEF Connect
  <2>4. TableInv'
    BY <1>13 DEF Connect
  <2>5. PipeInv'
    <3> SUFFICES ASSUME NEW d \in Clients, NEW g \in pfds'[d]
                 PROVE  table'[g] = Obj("pipe", d) \/ (pc' \in Ending /\ g = svr')
      OBVIOUS
    <3>1. g \in Fds
      OBVIOUS
    <3> QED
      BY <1>13, <3>1 DEF Connect
  <2>6. StopInv'
    BY <1>13 DEF Connect
  <2> QED
    BY <2>1, <2>2, <2>3, <2>4, <2>5, <2>6 DEF IInv
<1>14. ASSUME NEW c \in Clients, SessionStart(c) PROVE IInv'
  <2>1. BootInv'
    BY <1>14 DEF SessionStart, EndSession
  <2>2. MainInv'
    BY <1>14 DEF SessionStart, EndSession
  <2>3. SocketInv'
    BY <1>14 DEF SessionStart, EndSession
  <2>4. TableInv'
    BY <1>14 DEF SessionStart, EndSession
  <2>5. PipeInv'
    <3> SUFFICES ASSUME NEW d \in Clients, NEW g \in pfds'[d]
                 PROVE  table'[g] = Obj("pipe", d) \/ (pc' \in Ending /\ g = svr')
      OBVIOUS
    <3>1. g \in Fds
      OBVIOUS
    <3> QED
      BY <1>14, <3>1 DEF SessionStart, EndSession
  <2>6. StopInv'
    BY <1>14 DEF SessionStart, EndSession
  <2> QED
    BY <2>1, <2>2, <2>3, <2>4, <2>5, <2>6 DEF IInv
<1>15. ASSUME NEW c \in Clients, RecvEnds(c) PROVE IInv'
  BY <1>15 DEF RecvEnds, EndSession
<1>16. ASSUME NEW c \in Clients, RecvCommand(c) PROVE IInv'
  BY <1>16 DEF RecvCommand
<1>17. ASSUME NEW c \in Clients, PipeCreate(c) PROVE IInv'
  <2>1. BootInv'
    BY <1>17 DEF PipeCreate, MorePipes
  <2>2. MainInv'
    BY <1>17 DEF PipeCreate, MorePipes
  <2>3. SocketInv'
    BY <1>17 DEF PipeCreate, MorePipes
  <2>4. TableInv'
    BY <1>17 DEF PipeCreate, MorePipes
  <2>5. PipeInv'
    <3> SUFFICES ASSUME NEW d \in Clients, NEW g \in pfds'[d]
                 PROVE  table'[g] = Obj("pipe", d) \/ (pc' \in Ending /\ g = svr')
      OBVIOUS
    <3>1. g \in Fds
      OBVIOUS
    <3> QED
      BY <1>17, <3>1 DEF PipeCreate, MorePipes
  <2>6. StopInv'
    BY <1>17 DEF PipeCreate, MorePipes
  <2> QED
    BY <2>1, <2>2, <2>3, <2>4, <2>5, <2>6 DEF IInv
<1>18. ASSUME NEW c \in Clients, PipeFails(c) PROVE IInv'
  BY <1>18 DEF PipeFails, MorePipes
<1>19. ASSUME NEW c \in Clients, Forked(c) PROVE IInv'
  BY <1>19 DEF Forked, MorePipes
<1>20. ASSUME NEW c \in Clients, ClosePipe(c) PROVE IInv'
  <2>1. BootInv'
    BY <1>20 DEF ClosePipe, LastOfListener, ResetQueued
  <2>2. MainInv'
    BY <1>20 DEF ClosePipe, LastOfListener, ResetQueued
  <2>3. SocketInv'
    BY <1>20 DEF ClosePipe, LastOfListener, ResetQueued
  <2>4. TableInv'
    BY <1>20 DEF ClosePipe, LastOfListener, ResetQueued
  <2>5. PipeInv'
    <3> SUFFICES ASSUME NEW d \in Clients, NEW g \in pfds'[d]
                 PROVE  table'[g] = Obj("pipe", d) \/ (pc' \in Ending /\ g = svr')
      OBVIOUS
    <3>1. g \in Fds
      OBVIOUS
    <3> QED
      BY <1>20, <3>1 DEF ClosePipe, LastOfListener, ResetQueued
  <2>6. StopInv'
    BY <1>20 DEF ClosePipe, LastOfListener, ResetQueued
  <2> QED
    BY <2>1, <2>2, <2>3, <2>4, <2>5, <2>6 DEF IInv
<1>21. ASSUME NEW c \in Clients, PipesClosed(c) PROVE IInv'
  BY <1>21 DEF PipesClosed
<1>22. ASSUME NEW c \in Clients, CommandDone(c) PROVE IInv'
  <2>1. BootInv'
    BY <1>22 DEF CommandDone, EndSession
  <2>2. MainInv'
    BY <1>22 DEF CommandDone, EndSession
  <2>3. SocketInv'
    BY <1>22 DEF CommandDone, EndSession
  <2>4. TableInv'
    BY <1>22 DEF CommandDone, EndSession
  <2>5. PipeInv'
    <3> SUFFICES ASSUME NEW d \in Clients, NEW g \in pfds'[d]
                 PROVE  table'[g] = Obj("pipe", d) \/ (pc' \in Ending /\ g = svr')
      OBVIOUS
    <3>1. g \in Fds
      OBVIOUS
    <3> QED
      BY <1>22, <3>1 DEF CommandDone, EndSession
  <2>6. StopInv'
    BY <1>22 DEF CommandDone, EndSession
  <2> QED
    BY <2>1, <2>2, <2>3, <2>4, <2>5, <2>6 DEF IInv
<1>23. ASSUME NEW c \in Clients, HandlerClose(c) PROVE IInv'
  <2>1. BootInv'
    BY <1>23 DEF HandlerClose, WantsStop, CloseSocket
  <2>2. MainInv'
    BY <1>23 DEF HandlerClose, WantsStop, CloseSocket
  <2>3. SocketInv'
    BY <1>23 DEF HandlerClose, WantsStop, CloseSocket
  <2>4. TableInv'
    BY <1>23 DEF HandlerClose, WantsStop, CloseSocket
  <2>5. PipeInv'
    <3> SUFFICES ASSUME NEW d \in Clients, NEW g \in pfds'[d]
                 PROVE  table'[g] = Obj("pipe", d) \/ (pc' \in Ending /\ g = svr')
      OBVIOUS
    <3>1. g \in Fds
      OBVIOUS
    <3> QED
      BY <1>23, <3>1 DEF HandlerClose, WantsStop, CloseSocket
  <2>6. StopInv'
    BY <1>23 DEF HandlerClose, WantsStop, CloseSocket
  <2> QED
    BY <2>1, <2>2, <2>3, <2>4, <2>5, <2>6 DEF IInv
<1>24. ASSUME NEW c \in Clients, StopLock(c) PROVE IInv'
  BY <1>24 DEF StopLock, FirstRequest, StopFlag
<1>25. ASSUME NEW c \in Clients, StopShutdown(c) PROVE IInv'
  <2>1. BootInv'
    BY <1>25 DEF StopShutdown, ShutsDown, ResetQueued
  <2>2. MainInv'
    BY <1>25 DEF StopShutdown, ShutsDown, ResetQueued
  <2>3. SocketInv'
    BY <1>25 DEF StopShutdown, ShutsDown, ResetQueued
  <2>4. TableInv'
    BY <1>25 DEF StopShutdown, ShutsDown, ResetQueued
  <2>5. PipeInv'
    <3> SUFFICES ASSUME NEW d \in Clients, NEW g \in pfds'[d]
                 PROVE  table'[g] = Obj("pipe", d) \/ (pc' \in Ending /\ g = svr')
      OBVIOUS
    <3>1. g \in Fds
      OBVIOUS
    <3> QED
      BY <1>25, <3>1 DEF StopShutdown, ShutsDown, ResetQueued
  <2>6. StopInv'
    BY <1>25 DEF StopShutdown, ShutsDown, ResetQueued
  <2> QED
    BY <2>1, <2>2, <2>3, <2>4, <2>5, <2>6 DEF IInv
<1>26. ASSUME NEW c \in Clients, StopClose(c) PROVE IInv'
  <2>1. BootInv'
    BY <1>26 DEF StopClose
  <2>2. MainInv'
    BY <1>26 DEF StopClose
  <2>3. SocketInv'
    BY <1>26 DEF StopClose
  <2>4. TableInv'
    BY <1>26 DEF StopClose
  <2>5. PipeInv'
    <3> SUFFICES ASSUME NEW d \in Clients, NEW g \in pfds'[d]
                 PROVE  table'[g] = Obj("pipe", d) \/ (pc' \in Ending /\ g = svr')
      OBVIOUS
    <3>1. g \in Fds
      OBVIOUS
    <3> QED
      BY <1>26, <3>1 DEF StopClose
  <2>6. StopInv'
    BY <1>26 DEF StopClose
  <2> QED
    BY <2>1, <2>2, <2>3, <2>4, <2>5, <2>6 DEF IInv
<1>27. ASSUME NEW c \in Clients, StopUnlock(c) PROVE IInv'
  BY <1>27 DEF StopUnlock, Unlocked
<1>28. ASSUME NEW c \in Clients, SigPipe(c) PROVE IInv'
  <2>1. BootInv'
    BY <1>28 DEF SigPipe, ProcessEnds
  <2>2. MainInv'
    BY <1>28 DEF SigPipe, ProcessEnds
  <2>3. SocketInv'
    BY <1>28 DEF SigPipe, ProcessEnds
  <2>4. TableInv'
    BY <1>28 DEF SigPipe, ProcessEnds
  <2>5. PipeInv'
    <3> SUFFICES ASSUME NEW d \in Clients, NEW g \in pfds'[d]
                 PROVE  table'[g] = Obj("pipe", d) \/ (pc' \in Ending /\ g = svr')
      OBVIOUS
    <3>1. g \in Fds
      OBVIOUS
    <3> QED
      BY <1>28, <3>1 DEF SigPipe, ProcessEnds
  <2>6. StopInv'
    BY <1>28 DEF SigPipe, ProcessEnds
  <2> QED
    BY <2>1, <2>2, <2>3, <2>4, <2>5, <2>6 DEF IInv
<1>29. CASE UNCHANGED vars
  BY <1>29 DEF vars
<1>30. ASSUME NEW c \in Clients, AcceptBroken(c) PROVE IInv'
  BY <1>30 DEF AcceptBroken
<1>31. ASSUME NEW c \in Clients, Fork(c) PROVE IInv'
  BY <1>31 DEF Fork, MorePipes
<1>32. ASSUME NEW o \in Sockets, Release(o) PROVE IInv'
  BY <1>32 DEF Release, ResetQueued
<1> QED
  BY <1>1, <1>2, <1>3, <1>4, <1>5, <1>6, <1>7, <1>8, <1>9, <1>10,
     <1>11, <1>12, <1>13, <1>14, <1>15, <1>16, <1>17, <1>18,
     <1>19, <1>20, <1>21, <1>22, <1>23, <1>24, <1>25, <1>26, <1>27, <1>28, <1>29,
     <1>30, <1>31, <1>32
  DEF Next, Main, Session, StopRequest, Stopped

-----------------------------------------------------------------------------
LEMMA Invariance == Spec => [](TypeOK /\ IInv)
<1>1. TypeOK /\ TypeOK' /\ IInv /\ [Next]_vars => IInv'
  BY StepInv
<1> QED
  BY TypeCorrect, InitInv, <1>1, PTL DEF Spec

(* No thread steals, leaks or closes twice the socket of a connection, for any
   number of clients: SocketsOwned of rsh_server.c's threads and loops. *)
THEOREM SocketsNeverStolen == Spec => []SocketsOwned
<1>1. TypeOK /\ IInv => SocketsOwned
  BY DEF IInv, SocketInv, SocketsOwned
<1> QED
  BY Invariance, <1>1, PTL

(* Until start_server's last close no thread closes another session's pipe. *)
THEOREM PipesUntouched == Spec => []PipesOwned
<1>1. TypeOK /\ IInv => PipesOwned
  BY DEF IInv, PipeInv, PipesOwned, Ending
<1> QED
  BY Invariance, <1>1, PTL

(* The server keeps listening while it serves and nobody asked it to stop. *)
THEOREM ListenerKept == Spec => []ListenerHeld
<1>1. TypeOK /\ IInv => ListenerHeld
  BY DEF IInv, TableInv, StopInv, ListenerHeld, Serving, Ending
<1> QED
  BY Invariance, <1>1, PTL

(* After a completed stop request no accept returns a connection. *)
THEOREM StopIsFinal == Spec => NoAcceptAfterStop
<1> DEFINE NoAccept == \A c \in Clients :
              stop /\ lock = None => ~(conn[c] = "queued" /\ conn'[c] = "open")
<1>1. ASSUME TypeOK, IInv, [Next]_vars PROVE NoAccept
  <2> SUFFICES ASSUME NEW c \in Clients, stop, lock = None,
                      conn[c] = "queued", conn'[c] = "open"
               PROVE  FALSE
    OBVIOUS
  <2>1. shut \/ pc \in Ending
    BY <1>1, NoneAssumption DEF IInv, StopInv
  <2>2. \A d \in Clients : ~Accept(d)
    BY <2>1 DEF Accept, Ending
  <2>3. conn'[c] # "open"
    <3> USE ClosedOrKept DEF TypeOK, ResetQueued, mainAndListener, mainVars
    <3>1. ASSUME Main PROVE conn'[c] # "open"
      BY <1>1, <2>2, <3>1 DEF Main, Boot, BootFails, CheckStop, EnterAccept, AcceptFails,
         AcceptBroken, AcceptError, Spawn, SpawnFails, CloseSocket, Served, StopServer, CloseSvr, Exit, ProcessEnds
    <3>2. ASSUME NEW d \in Clients, ClosePipe(d) PROVE conn'[c] # "open"
      BY <1>1, <3>2 DEF ClosePipe
    <3>4. ASSUME NEW d \in Clients, Connect(d) PROVE conn'[c] # "open"
      BY <1>1, <3>4 DEF Connect
    <3>6. ASSUME NEW o \in Sockets, Release(o) PROVE conn'[c] # "open"
      BY <1>1, <3>6 DEF Release
    <3>5. ASSUME NEW d \in Clients, Session(d) PROVE conn'[c] # "open"
      BY <3>2, <3>5 DEF Session, SessionStart, RecvEnds, RecvCommand, PipeCreate,
         PipeFails, Fork, Forked, PipesClosed, CommandDone, SigPipe, ProcessEnds
    <3>3. ASSUME NEW d \in Clients, StopRequest(d) PROVE conn'[c] # "open"
      BY <1>1, <3>3 DEF StopRequest, HandlerClose, CloseSocket, StopLock, StopShutdown,
         StopClose, StopUnlock
    <3> QED
      BY <1>1, <3>1, <3>3, <3>4, <3>5, <3>6 DEF Next, Stopped, vars
  <2> QED
    BY <2>3
<1> QED
  BY Invariance, <1>1, PTL DEF Spec, NoAcceptAfterStop

-----------------------------------------------------------------------------
(* Who can end the accept loop. *)

(* A stop has a client that asked for it, and a failed accept of the threaded
   loop is one it survives, or one of the kernel's, or there is a stop. *)
Told == {"ret", "lock", "shutdown", "close", "unlock", "done", "killed"}
ReasonInv ==
    /\ \A c \in Clients :
          /\ hpc[c] \in {"lock", "shutdown", "close", "unlock"} => res[c] = OK_EXIT
          /\ res[c] = OK_EXIT => hpc[c] \in Told
    /\ stop => \E c \in Clients : res[c] = OK_EXIT
    /\ pc = "failed" /\ mode => err \in KernelErrnos \cup {"EINTR"} \/ stop

LEMMA ReasonInit == Init => ReasonInv
BY DEF Init, ReasonInv, OK, OK_EXIT

(* What a session was told to do, it does not forget. *)
LEMMA ReasonStep ==
    ASSUME TypeOK, TypeOK', IInv, ReasonInv, [Next]_vars PROVE ReasonInv'
<1> DEFINE Wants(c) ==
              /\ hpc[c] \in {"lock", "shutdown", "close", "unlock"} => res[c] = OK_EXIT
              /\ res[c] = OK_EXIT => hpc[c] \in Told
           Asked == stop => \E c \in Clients : res[c] = OK_EXIT
           Failed == pc = "failed" /\ mode => err \in KernelErrnos \cup {"EINTR"} \/ stop
<1>1. (\A c \in Clients : Wants(c)) /\ Asked /\ Failed
  BY DEF ReasonInv
<1>2. SUFFICES (\A c \in Clients : Wants(c)') /\ Asked' /\ Failed'
  BY DEF ReasonInv
<1> USE DEF TypeOK, mainVars, sessVars, mainAndListener, OK, OK_EXIT, ERR_RDSH_SERVER,
        ERR_RDSH_COMMUNICATION
<1>3. CASE Main
  <2>1. \A c \in Clients : res'[c] = res[c]
    BY <1>3 DEF Main, Boot, BootFails, CheckStop, EnterAccept, Accept, AcceptFails, AcceptBroken, AcceptError,
       Spawn, SpawnFails, Served, StopServer, Exit, ProcessEnds
  <2>2. stop' => stop
    BY <1>3 DEF Main, Boot, BootFails, CheckStop, EnterAccept, Accept, AcceptFails, AcceptBroken, AcceptError,
       Spawn, SpawnFails, Served, StopServer, Exit, ProcessEnds
  <2>3. Asked'
    BY <1>1, <2>1, <2>2
  <2>4. ASSUME NEW c \in Clients PROVE Wants(c)'
    <3>1. CASE hpc'[c] = hpc[c]
      BY <1>1, <2>1, <3>1
    <3>2. CASE Exit
      BY <1>1, <3>2 DEF Exit, ProcessEnds, Told
    <3>3. CASE Served
      BY <1>1, <3>3 DEF Served, Told, IInv, MainInv
    <3>4. CASE Spawn
      BY <1>1, <3>4 DEF Spawn, Told, IInv, MainInv
    <3>5. ASSUME NEW d \in Clients, Accept(d) PROVE Wants(c)'
      <4>1. hpc[d] = "none"
        BY <3>5 DEF Accept, IInv, SocketInv
      <4> QED
        BY <1>1, <3>5, <4>1 DEF Accept, Told
    <3> QED
      BY <1>3, <3>1, <3>2, <3>3, <3>4, <3>5 DEF Main, Boot, BootFails, CheckStop, EnterAccept,
         AcceptFails, AcceptBroken, AcceptError, SpawnFails, StopServer
  <2>5. Failed'
    <3>1. CASE EnterAccept
      <4>1. pc \in Serving /\ table[svr] # Listener => shut
        BY DEF IInv, TableInv
      <4>2. shut => stop \/ pc \in Ending
        BY DEF IInv, StopInv
      <4>3. pc = "accept" /\ (pc' = "failed" => table[svr].kind # "listen")
        BY <3>1 DEF EnterAccept
      <4>4. pc' = "failed" => stop
        BY <4>1, <4>2, <4>3 DEF Serving, Ending, Listener, Obj
      <4> QED
        BY <3>1, <4>4 DEF EnterAccept
    <3>2. ASSUME NEW e \in Errnos, AcceptFails(e) PROVE Failed'
      <4>1. shut => stop \/ pc \in Ending
        BY DEF IInv, StopInv
      <4> QED
        BY <3>2, <4>1 DEF AcceptFails, Ending, KernelErrnos
    <3>3. CASE pc' # "failed"
      BY <3>3
    <3>4. ASSUME NEW c \in Clients, AcceptBroken(c) PROVE Failed'
      BY <3>4 DEF AcceptBroken, KernelErrnos
    <3> QED
      BY <1>3, <3>1, <3>2, <3>3, <3>4 DEF Main, Boot, BootFails, CheckStop, Accept, AcceptError,
         Spawn, SpawnFails, Served, StopServer, Exit, ProcessEnds
  <2> QED
    BY <2>3, <2>4, <2>5
<1>4. ASSUME NEW d \in Clients, Connect(d) PROVE (\A c \in Clients : Wants(c)') /\ Asked' /\ Failed'
  BY <1>1, <1>4 DEF Connect
<1>5. ASSUME NEW d \in Clients, SigPipe(d) PROVE (\A c \in Clients : Wants(c)') /\ Asked' /\ Failed'
  <2>1. /\ UNCHANGED <<res, stop>> /\ pc' = "exited"
        /\ \A c \in Clients : hpc'[c] = IF hpc[c] \in {"none", "done"} THEN hpc[c] ELSE "killed"
    BY <1>5 DEF SigPipe, ProcessEnds
  <2> QED
    BY <1>1, <2>1 DEF Told
<1>6. ASSUME NEW d \in Clients, Session(d), ~SigPipe(d)
      PROVE  (\A c \in Clients : Wants(c)') /\ Asked' /\ Failed'
  <2>1. UNCHANGED <<stop, pc, err, mode>>
    BY <1>6 DEF Session, SessionStart, RecvEnds, RecvCommand, PipeCreate, PipeFails, Fork, Forked,
       ClosePipe, PipesClosed, CommandDone
  <2>2. /\ hpc[d] \in {"start", "recv", "pipe", "closing", "wait"}
        /\ hpc'[d] \in {"recv", "pipe", "closing", "wait", "ret"}
        /\ res'[d] # res[d] => hpc'[d] = "ret"
        /\ \A c \in Clients \ {d} : hpc'[c] = hpc[c] /\ res'[c] = res[c]
    BY <1>6 DEF Session, SessionStart, RecvEnds, RecvCommand, PipeCreate, PipeFails, Fork, Forked,
       ClosePipe, PipesClosed, CommandDone, EndSession
  <2>3. \A c \in Clients : Wants(c)'
    BY <1>1, <2>2 DEF Told
  <2>4. Asked'
    BY <1>1, <2>1, <2>2 DEF Told
  <2> QED
    BY <1>1, <2>1, <2>3, <2>4
<1>7. ASSUME NEW d \in Clients, StopRequest(d)
      PROVE  (\A c \in Clients : Wants(c)') /\ Asked' /\ Failed'
  <2>1. /\ UNCHANGED <<res, pc, err, mode>>
        /\ stop' = stop \/ (stop' /\ hpc[d] = "lock")
        /\ hpc[d] \in {"ret", "lock", "shutdown", "close", "unlock"}
        /\ hpc'[d] \in {"lock", "shutdown", "close", "unlock", "done"}
        /\ hpc[d] = "ret" /\ hpc'[d] # "done" => res[d] = OK_EXIT
        /\ \A c \in Clients \ {d} : hpc'[c] = hpc[c]
    BY <1>7 DEF StopRequest, HandlerClose, WantsStop, CloseSocket, StopLock, StopFlag,
       StopShutdown, StopClose, StopUnlock
  <2> QED
    BY <1>1, <2>1 DEF Told
<1>8. CASE UNCHANGED vars
  BY <1>1, <1>8 DEF vars
<1>9. ASSUME NEW o \in Sockets, Release(o)
      PROVE  (\A c \in Clients : Wants(c)') /\ Asked' /\ Failed'
  BY <1>1, <1>9 DEF Release
<1> QED
  BY <1>3, <1>4, <1>5, <1>6, <1>7, <1>8, <1>9 DEF Next, Stopped

(* In threaded mode the accept loop has no end without its cause: OK_EXIT is
   returned for a stop-server only, an error for a failure that the kernel alone
   accounts for, whatever sessions, stop requests and commands do. *)
THEOREM EndsHaveCauses == Spec => EndHasCause
<1> DEFINE Cause == mode /\ pc # "return" /\ pc' = "return" =>
                       \/ \E c \in Clients : res[c] = OK_EXIT
                       \/ pc = "spawn" /\ rc' = ERR_RDSH_SERVER
                       \/ err \in KernelErrnos /\ rc' = ERR_RDSH_COMMUNICATION
<1>1. ASSUME TypeOK, IInv, ReasonInv, [Next]_vars PROVE Cause
  <2> SUFFICES ASSUME mode, pc # "return", pc' = "return", ~\E c \in Clients : res[c] = OK_EXIT
               PROVE  \/ pc = "spawn" /\ rc' = ERR_RDSH_SERVER
                      \/ err \in KernelErrnos /\ rc' = ERR_RDSH_COMMUNICATION
    OBVIOUS
  <2>1. CheckStop \/ AcceptError \/ SpawnFails \/ Served
    BY <1>1 DEF Next, Main, Boot, BootFails, EnterAccept, Accept, AcceptFails, AcceptBroken, Spawn,
       StopServer, Exit, ProcessEnds, Connect, Session, SessionStart, RecvEnds, RecvCommand,
       PipeCreate, PipeFails, Fork, Forked, ClosePipe, PipesClosed, CommandDone, SigPipe,
       StopRequest, HandlerClose, StopLock, StopShutdown, StopClose, StopUnlock, Release, Stopped,
       vars, mainVars, mainAndListener
  <2>2. CASE CheckStop
    BY <1>1, <2>2 DEF CheckStop, ReasonInv
  <2>3. CASE AcceptError
    <3>1. ~stop /\ err \in KernelErrnos \cup {"EINTR"}
      BY <1>1, <2>3 DEF AcceptError, ReasonInv
    <3> QED
      BY <2>3, <3>1 DEF AcceptError
  <2>4. CASE SpawnFails
    BY <2>4 DEF SpawnFails
  <2>5. CASE Served
    BY <1>1, <2>5 DEF Served, IInv, MainInv
  <2> QED
    BY <2>1, <2>2, <2>3, <2>4, <2>5
<1>2. TypeOK /\ TypeOK' /\ IInv /\ ReasonInv /\ [Next]_vars => ReasonInv'
  BY ReasonStep
<1> QED
  BY Invariance, ReasonInit, <1>1, <1>2, PTL DEF Spec, EndHasCause

-----------------------------------------------------------------------------
(* The service that clients get. *)

(* Nobody waits at a socket that is shut. *)
QueueInv == shut => \A c \in Clients : conn[c] # "queued"

ServiceStep == QueueInv' /\ [Service!Next]_<<Phase, mode, conn>>

LEMMA QueueInit == Init => QueueInv /\ Service!Init
<1> SUFFICES ASSUME Init PROVE QueueInv /\ Service!Init
  OBVIOUS
<1>1. pc = "boot" /\ svr = None /\ mode = FALSE /\ conn = [c \in Clients |-> "none"] /\ ~shut
  BY DEF Init
<1>2. Phase = "down"
  BY <1>1 DEF Phase
<1> QED
  BY <1>1, <1>2 DEF QueueInv, Service!Init

(* Steps of the loops, of sessions and of the stop request that no client sees. *)
LEMMA Unseen ==
    ASSUME QueueInv, UNCHANGED <<mode, conn, svr, shut>>, pc \in Ending => pc' \in Ending,
           pc' \in Ending => pc \in Ending
    PROVE  ServiceStep
BY DEF ServiceStep, QueueInv, Phase, Ending

LEMMA Begins ==
    ASSUME TypeOK, IInv, QueueInv, Boot PROVE ServiceStep
<1>1. pc = "boot" /\ svr = None /\ ~shut
  BY DEF Boot, IInv, BootInv
<1>2. /\ svr' \in Fds /\ mode' \in BOOLEAN /\ pc' \in {"check", "accept"}
      /\ UNCHANGED <<conn, shut>>
  BY ModesAssumption DEF Boot
<1>3. Phase = "down" /\ Phase' = "up"
  BY <1>1, <1>2, NoneAssumption DEF Phase
<1> QED
  BY <1>1, <1>2, <1>3 DEF ServiceStep, QueueInv, Service!Next, Service!Start

(* The listening socket is shut down, or its last copy closed: by the stop
   request, by start_server, by a command that ends, or already. *)
LEMMA Closes ==
    ASSUME TypeOK, QueueInv, UNCHANGED <<mode, svr>>, svr # None, shut' = TRUE, conn' = ResetQueued
    PROVE  ServiceStep
<1>1. QueueInv'
  BY DEF QueueInv, ResetQueued, TypeOK
<1>2. CASE shut
  <2>1. conn' = conn
    BY <1>2 DEF QueueInv, ResetQueued, TypeOK
  <2> QED
    BY <1>1, <1>2, <2>1 DEF ServiceStep, Phase
<1>3. CASE ~shut
  <2>1. Phase \in {"up", "deaf"} /\ Phase' = "closed"
    BY <1>3 DEF Phase
  <2>2. Service!Close
    BY <2>1 DEF Service!Close, ResetQueued
  <2> QED
    BY <1>1, <2>2 DEF ServiceStep, Service!Next
<1> QED
  BY <1>2, <1>3

(* start_server returns while a command has the listening socket, or after it
   was shut down. *)
LEMMA Leaves ==
    ASSUME QueueInv, UNCHANGED <<mode, conn, svr, shut>>, svr # None,
           pc = "return", pc' = "exit"
    PROVE  ServiceStep
<1>1. QueueInv'
  BY DEF QueueInv
<1>2. CASE shut
  BY <1>1, <1>2 DEF ServiceStep, Phase
<1>3. CASE ~shut
  <2>1. Service!Leave
    BY <1>3 DEF Service!Leave, Phase
  <2> QED
    BY <1>1, <2>1 DEF ServiceStep, Service!Next
<1> QED
  BY <1>2, <1>3

LEMMA Ends ==
    ASSUME TypeOK, IInv, QueueInv, ProcessEnds PROVE ServiceStep
<1> DEFINE seen == [c \in Clients |-> AfterClose(c)]
<1>1. /\ pc' = "exited" /\ UNCHANGED <<svr, mode>> /\ shut' = (shut \/ Listener \notin held)
      /\ conn' = [c \in Clients |->
                    CASE conn[c] = "queued" /\ Listener \notin held -> "reset"
                      [] conn[c] = "open" -> AfterClose(c)
                      [] OTHER -> conn[c]]
  BY DEF ProcessEnds
<1>2. \A c \in Clients : conn'[c] = IF conn[c] = "open" THEN AfterClose(c)
                                    ELSE IF conn[c] = "queued" /\ Listener \notin held THEN "reset"
                                    ELSE conn[c]
  BY <1>1
<1>3. QueueInv'
  BY <1>1, <1>2, ClosedOrKept DEF QueueInv
<1>4. CASE svr = None
  <2>1. conn' = conn
    BY <1>1, <1>2, <1>4 DEF IInv, BootInv, TypeOK
  <2> QED
    BY <1>1, <1>3, <1>4, <2>1 DEF ServiceStep, Phase
<1>5. CASE svr # None
  <2>1. Phase # "down" /\ Phase' = IF shut \/ Listener \notin held THEN "closed" ELSE "deaf"
    BY <1>1, <1>5 DEF Phase
  <2>2. Phase = "closed" => Phase' = "closed"
    BY <1>5, <2>1 DEF Phase
  <2>3. seen \in [Clients -> {"closed", "kept"}]
    BY ClosedOrKept
  <2>4. \A c \in Clients : conn[c] = "queued" => ~shut
    BY DEF QueueInv
  <2>5. conn' = [c \in Clients |->
                   IF conn[c] = "open" THEN seen[c]
                   ELSE IF conn[c] = "queued" /\ Phase' = "closed" THEN "reset" ELSE conn[c]]
    BY <1>1, <1>2, <2>1, <2>4
  <2>6. Service!End
    BY <1>1, <2>1, <2>2, <2>3, <2>5 DEF Service!End
  <2> QED
    BY <1>3, <2>6 DEF ServiceStep, Service!Next
<1> QED
  BY <1>4, <1>5

(* A socket is closed by the thread that is responsible for it, a handler's
   also while main() returns. *)
LEMMA Finishes ==
    ASSUME TypeOK, IInv, QueueInv, NEW c \in Clients, Responsible(c), CloseSocket(c),
           UNCHANGED <<mode, svr, shut>>, pc # "exited", pc \in Ending => pc' \in Ending,
           pc' \in Ending => pc \in Ending
    PROVE  ServiceStep
<1>1. conn[c] = "open" /\ conn' = [conn EXCEPT ![c] = AfterClose(c)] /\ Phase' = Phase
  BY DEF IInv, SocketInv, CloseSocket, Phase, Ending
<1>2. QueueInv'
  BY <1>1, ClosedOrKept DEF QueueInv, TypeOK
<1>3. Service!Finish(c)
  BY <1>1, ClosedOrKept DEF Service!Finish
<1> QED
  BY <1>2, <1>3 DEF ServiceStep, Service!Next

(* A command ends and takes the last copy of a socket with it, or not the last. *)
LEMMA LetsGo ==
    ASSUME TypeOK, IInv, QueueInv, NEW o \in Sockets, Release(o) PROVE ServiceStep
<1>1. UNCHANGED <<mode, svr, pc>> /\ svr # None
  BY DEF Release, IInv, BootInv
<1>2. CASE o = Listener /\ \A f \in Fds : table[f] # Listener
  BY <1>1, <1>2, Closes DEF Release
<1>3. CASE ~(o = Listener /\ \A f \in Fds : table[f] # Listener)
  <2>1. /\ shut' = shut
        /\ conn' = [c \in Clients |-> IF o = Obj("sock", c) /\ conn[c] = "kept"
                                      THEN "closed" ELSE conn[c]]
    BY <1>3 DEF Release
  <2>2. QueueInv'
    BY <2>1 DEF QueueInv
  <2>3. CASE \A c \in Clients : ~(o = Obj("sock", c) /\ conn[c] = "kept")
    <3>1. conn' = conn
      BY <2>1, <2>3 DEF TypeOK
    <3> QED
      BY <1>1, <2>1, <2>2, <3>1 DEF ServiceStep, Phase
  <2>4. ASSUME NEW c \in Clients, o = Obj("sock", c), conn[c] = "kept" PROVE ServiceStep
    <3>1. \A d \in Clients : o = Obj("sock", d) => d = c
      BY <2>4, ObjectFacts
    <3>2. conn' = [conn EXCEPT ![c] = "closed"]
      BY <2>1, <2>4, <3>1 DEF TypeOK
    <3>3. Phase' = Phase
      BY <1>1, <2>1 DEF Phase
    <3>4. Service!LetGo(c)
      BY <1>1, <2>4, <3>2, <3>3 DEF Service!LetGo
    <3> QED
      BY <2>2, <3>4 DEF ServiceStep, Service!Next
  <2> QED
    BY <2>3, <2>4
<1> QED
  BY <1>2, <1>3

LEMMA Aborts ==
    ASSUME TypeOK, IInv, QueueInv, NEW c \in Clients, AcceptBroken(c) PROVE ServiceStep
<1>1. /\ pc = "blocked" /\ pc' = "failed" /\ ~shut /\ conn[c] = "queued"
      /\ conn' = [conn EXCEPT ![c] = "reset"] /\ UNCHANGED <<mode, svr, shut>>
  BY DEF AcceptBroken
<1>2. Phase = "up" /\ Phase' = "up"
  BY <1>1, NoneAssumption DEF Phase, IInv, BootInv, Serving
<1>3. Service!Abort(c)
  BY <1>1, <1>2 DEF Service!Abort
<1>4. QueueInv'
  BY <1>1 DEF QueueInv
<1> QED
  BY <1>3, <1>4 DEF ServiceStep, Service!Next

LEMMA Accepts ==
    ASSUME TypeOK, IInv, QueueInv, NEW c \in Clients, Accept(c) PROVE ServiceStep
<1>1. /\ pc = "blocked" /\ ~shut /\ conn[c] = "queued" /\ pc' \in {"serve", "spawn"}
      /\ conn' = [conn EXCEPT ![c] = "open"] /\ UNCHANGED <<mode, svr, shut>>
  BY DEF Accept
<1>2. Phase = "up" /\ Phase' = "up"
  BY <1>1, NoneAssumption DEF Phase, IInv, BootInv, Serving
<1>3. mode \/ \A d \in Clients : conn[d] # "open"
  BY <1>1 DEF IInv, MainInv, SocketInv, Responsible
<1>4. Service!Serve(c)
  BY <1>1, <1>2, <1>3 DEF Service!Serve
<1>5. QueueInv'
  BY <1>1 DEF QueueInv
<1> QED
  BY <1>4, <1>5 DEF ServiceStep, Service!Next

LEMMA Connects ==
    ASSUME TypeOK, IInv, QueueInv, NEW c \in Clients, Connect(c) PROVE ServiceStep
<1>1. /\ svr # None /\ ~shut /\ conn[c] = "none"
      /\ conn' = [conn EXCEPT ![c] = "queued"] /\ UNCHANGED <<mode, svr, shut, pc>>
  BY DEF Connect
<1>2. Phase \in {"up", "deaf"} /\ Phase' = Phase
  BY <1>1 DEF Phase
<1>3. Service!Connect(c)
  BY <1>1, <1>2 DEF Service!Connect
<1>4. QueueInv'
  BY <1>1 DEF QueueInv
<1> QED
  BY <1>3, <1>4 DEF ServiceStep, Service!Next

LEMMA MainService ==
    ASSUME TypeOK, IInv, QueueInv, Main PROVE ServiceStep
<1>1. CASE CheckStop \/ EnterAccept \/ (\E e \in Errnos : AcceptFails(e)) \/ AcceptError \/ Spawn
  <2>1. UNCHANGED <<mode, conn, svr, shut>> /\ pc \notin Ending /\ pc' \notin Ending
    BY <1>1 DEF CheckStop, EnterAccept, AcceptFails, AcceptError, Spawn, Ending
  <2> QED
    BY <2>1, Unseen
<1>2. CASE BootFails
  <2>1. UNCHANGED <<mode, conn, svr, shut>> /\ svr = None
    BY <1>2 DEF BootFails, IInv, BootInv
  <2> QED
    BY <2>1 DEF ServiceStep, QueueInv, Phase
<1>3. CASE SpawnFails
  <2>1. cur \in Clients /\ Responsible(cur)
    BY <1>3 DEF SpawnFails, IInv, MainInv, Responsible
  <2>2. CloseSocket(cur) /\ UNCHANGED <<mode, svr, shut>> /\ pc \notin Ending /\ pc' \notin Ending
    BY <1>3 DEF SpawnFails, Ending
  <2>3. pc # "exited"
    BY <2>2 DEF Ending
  <2> QED
    BY <2>1, <2>2, <2>3, Finishes
<1>4. CASE Served
  <2>1. cur \in Clients /\ Responsible(cur)
    BY <1>4 DEF Served, IInv, MainInv, Responsible, SessionPcs
  <2>2. CloseSocket(cur) /\ UNCHANGED <<mode, svr, shut>> /\ pc \notin Ending /\ pc' \notin Ending
    BY <1>4 DEF Served, Ending
  <2>3. pc # "exited"
    BY <2>2 DEF Ending
  <2> QED
    BY <2>1, <2>2, <2>3, Finishes
<1>5. CASE StopServer
  <2>1. UNCHANGED <<mode, svr>> /\ svr # None /\ pc = "return" /\ pc' = "exit"
    BY <1>5, NoneAssumption DEF StopServer, IInv, BootInv, Serving
  <2>2. UNCHANGED <<shut, conn>> \/ (shut' = TRUE /\ conn' = ResetQueued)
    BY <1>5 DEF StopServer, CloseSvr
  <2> QED
    BY <2>1, <2>2, Leaves, Closes
<1>6. CASE Exit
  BY <1>6, Ends DEF Exit
<1> QED
  BY <1>1, <1>2, <1>3, <1>4, <1>5, <1>6, Begins, Accepts, Aborts DEF Main

LEMMA SessionService ==
    ASSUME TypeOK, IInv, QueueInv, NEW c \in Clients, Session(c) PROVE ServiceStep
<1>1. CASE SigPipe(c)
  BY <1>1, Ends DEF SigPipe
<1>2. CASE ~SigPipe(c)
  <2>1. UNCHANGED <<mode, svr, pc>> /\ hpc[c] \in SessionPcs
    BY <1>2 DEF Session, SessionStart, RecvEnds, RecvCommand, PipeCreate, PipeFails, Fork, Forked,
       ClosePipe, PipesClosed, CommandDone, mainAndListener, SessionPcs
  <2>2. pc # "exited" /\ svr # None
    BY <2>1 DEF IInv, MainInv, BootInv, SessionPcs
  <2>3. UNCHANGED <<shut, conn>> \/ (shut' = TRUE /\ conn' = ResetQueued)
    BY <1>2 DEF Session, SessionStart, RecvEnds, RecvCommand, PipeCreate, PipeFails, Fork, Forked,
       ClosePipe, PipesClosed, CommandDone, mainAndListener
  <2> QED
    BY <2>1, <2>2, <2>3, Unseen, Closes
<1> QED
  BY <1>1, <1>2

LEMMA StopService ==
    ASSUME TypeOK, IInv, QueueInv, NEW c \in Clients, StopRequest(c) PROVE ServiceStep
<1>1. /\ UNCHANGED <<mode, svr, pc>>
      /\ hpc[c] \in {"ret", "lock", "shutdown", "close", "unlock"}
  BY DEF StopRequest, HandlerClose, StopLock, StopShutdown, StopClose, StopUnlock, mainVars
<1>2. pc # "exited" /\ svr # None
  BY <1>1 DEF IInv, MainInv, BootInv
<1>3. CASE HandlerClose(c)
  <2>1. Responsible(c)
    BY <1>3 DEF HandlerClose, Responsible, SessionPcs
  <2> QED
    BY <1>1, <1>2, <1>3, <2>1, Finishes DEF HandlerClose
<1>4. CASE ~HandlerClose(c)
  <2>1. UNCHANGED <<shut, conn>> \/ (shut' = TRUE /\ conn' = ResetQueued)
    BY <1>4 DEF StopRequest, StopLock, StopShutdown, StopClose, StopUnlock
  <2> QED
    BY <1>1, <1>2, <2>1, Unseen, Closes
<1> QED
  BY <1>3, <1>4

(* Any number of clients, descriptors, threads and pipes: what the server does
   to its clients is what RshService says. *)
THEOREM GivesService == Spec => ImplementsService
<1>1. TypeOK /\ IInv /\ QueueInv /\ [Next]_vars
         => QueueInv' /\ [Service!Next]_<<Phase, mode, conn>>
  <2> SUFFICES ASSUME TypeOK, IInv, QueueInv, [Next]_vars PROVE ServiceStep
    BY DEF ServiceStep
  <2>1. CASE UNCHANGED vars
    BY <2>1 DEF vars, ServiceStep, QueueInv, Phase
  <2> QED
    BY <2>1, MainService, Connects, SessionService, StopService, LetsGo DEF Next, Stopped
<1> QED
  BY Invariance, QueueInit, <1>1, PTL DEF Spec, ImplementsService, Service!Spec
=============================================================================
