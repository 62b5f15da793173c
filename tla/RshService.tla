----------------------------- MODULE RshService -----------------------------
(***************************************************************************)
(* What the remote-shell server promises to its clients, whatever becomes  *)
(* of descriptors, threads, locks and commands: while the service is up    *)
(* they queue and are served, one at a time unless it is threaded.  A      *)
(* service that has ended may go deaf: as long as a command of some        *)
(* session has the listening socket clients still queue, and wait.  Those  *)
(* who wait are turned away at the moment that socket is gone, and nobody  *)
(* is served after the service was up; sessions that have begun go on      *)
(* until they or the process end, and their connections until no command   *)
(* has a copy of them.  RshServer is shown to implement this.              *)
(***************************************************************************)
CONSTANT Clients

VARIABLES
    phase,      \* of the service: "down", "up", "deaf" or "closed"
    threaded,   \* how it was started
    conn        \* the connection of each client

Init == phase = "down" /\ threaded = FALSE /\ conn = [c \in Clients |-> "none"]

Start ==
    /\ phase = "down" /\ phase' = "up"
    /\ threaded' \in BOOLEAN /\ UNCHANGED conn

Connect(c) ==
    /\ phase \in {"up", "deaf"} /\ conn[c] = "none"
    /\ conn' = [conn EXCEPT ![c] = "queued"]
    /\ UNCHANGED <<phase, threaded>>

(* A client gives up before it was served. *)
Abort(c) ==
    /\ phase = "up" /\ conn[c] = "queued"
    /\ conn' = [conn EXCEPT ![c] = "reset"]
    /\ UNCHANGED <<phase, threaded>>

Serve(c) ==
    /\ phase = "up" /\ conn[c] = "queued"
    /\ threaded \/ \A d \in Clients : conn[d] # "open"
    /\ conn' = [conn EXCEPT ![c] = "open"]
    /\ UNCHANGED <<phase, threaded>>

Finish(c) ==
    /\ conn[c] = "open"
    /\ \E seen \in {"closed", "kept"} : conn' = [conn EXCEPT ![c] = seen]
    /\ UNCHANGED <<phase, threaded>>

(* The last command that kept a connection lets go of it. *)
LetGo(c) ==
    /\ conn[c] = "kept"
    /\ conn' = [conn EXCEPT ![c] = "closed"]
    /\ UNCHANGED <<phase, threaded>>

(* The service ends and a command has the listening socket. *)
Leave == phase = "up" /\ phase' = "deaf" /\ UNCHANGED <<threaded, conn>>

Close ==
    /\ phase \in {"up", "deaf"} /\ phase' = "closed"
    /\ conn' = [c \in Clients |-> IF conn[c] = "queued" THEN "reset" ELSE conn[c]]
    /\ UNCHANGED threaded

(* The process ends: sessions too, all at once. *)
End ==
    /\ phase # "down"
    /\ phase' \in {"deaf", "closed"} /\ (phase = "closed" => phase' = "closed")
    /\ \E seen \in [Clients -> {"closed", "kept"}] :
          conn' = [c \in Clients |->
                     IF conn[c] = "open" THEN seen[c]
                     ELSE IF conn[c] = "queued" /\ phase' = "closed" THEN "reset" ELSE conn[c]]
    /\ UNCHANGED threaded

Next ==
    \/ Start \/ Leave \/ Close \/ End
    \/ \E c \in Clients : Connect(c) \/ Abort(c) \/ Serve(c) \/ Finish(c) \/ LetGo(c)

Spec == Init /\ [][Next]_<<phase, threaded, conn>>
=============================================================================
