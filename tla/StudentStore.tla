---------------------------- MODULE StudentStore ----------------------------
(***************************************************************************)
(* What the student database promises to somebody who runs its commands    *)
(* one after the other: a set of students with distinct ids.  A command    *)
(* takes effect at once, and has then its answer ready; it gives it when   *)
(* it exits.  A command that is killed before it took effect has changed   *)
(* nothing, one that is killed between the two has changed what its answer *)
(* would have said, and there is no third possibility.  One that reports   *)
(* an error has changed nothing; -x never changes anything.  StudentDB,    *)
(* with its files and system calls, is shown to implement this.            *)
(***************************************************************************)
EXTENDS Integers, FiniteSets

CONSTANTS
    Procs,   \* who runs commands
    MaxId,   \* MAX_STD_ID
    Gpas,    \* the gpas -a is given, in range or not: the data of a record
    Args     \* the ids the commands are given, in range or not

VARIABLES
    store,   \* the students
    ready,   \* the answer of a command that took effect and did not exit yet
    out      \* the last answer each process gave

ValidIds == 1..MaxId
ValidGpas == 0..500
InRange(id, g) == id \in ValidIds /\ g \in ValidGpas
At(id) == {s \in store : s.id = id}

Answer(code, id, data, n) == [code |-> code, id |-> id, data |-> data, n |-> n]
Nothing == Answer("none", 0, {}, 0)

Init ==
    /\ store = {}
    /\ ready = [p \in Procs |-> Nothing] /\ out = [p \in Procs |-> Nothing]

-----------------------------------------------------------------------------
(* A command takes effect. *)

Found(p, answer) ==
    /\ ready[p] = Nothing /\ ready' = [ready EXCEPT ![p] = answer]
    /\ UNCHANGED out

Say(p, code, id) == Found(p, Answer(code, id, {}, 0))

Add(p, id, g) ==
    \/ /\ InRange(id, g) /\ At(id) = {}
       /\ store' = store \cup {[id |-> id, gpa |-> g]} /\ Say(p, "added", id)
    \/ InRange(id, g) /\ At(id) # {} /\ Say(p, "duplicate", id) /\ UNCHANGED store
    \/ ~InRange(id, g) /\ Say(p, "range", id) /\ UNCHANGED store

Delete(p, id) ==
    \/ At(id) # {} /\ store' = store \ At(id) /\ Say(p, "deleted", id)
    \/ At(id) = {} /\ Say(p, "not found", id) /\ UNCHANGED store

Find(p, id) ==
    /\ \/ At(id) # {} /\ Found(p, Answer("found", id, At(id), 0))
       \/ At(id) = {} /\ Say(p, "not found", id)
    /\ UNCHANGED store

Count(p) == Found(p, Answer("count", 0, {}, Cardinality(store))) /\ UNCHANGED store

PrintAll(p) == Found(p, Answer("print", 0, store, 0)) /\ UNCHANGED store

Compress(p) == Say(p, "compressed", 0) /\ UNCHANGED store

Zero(p) == store' = {} /\ Say(p, "zeroed", 0)

\* An input or output error.
Error(p, id) == Say(p, "error", id) /\ UNCHANGED store

-----------------------------------------------------------------------------
(* It exits, or it is killed, with or without an answer that was ready. *)

Leave(p, answer) ==
    /\ out' = [out EXCEPT ![p] = answer] /\ ready' = [ready EXCEPT ![p] = Nothing]
    /\ UNCHANGED store

Give(p) == ready[p] # Nothing /\ Leave(p, ready[p])

Killed(p) == Leave(p, Answer("killed", 0, {}, 0))

Command(p) ==
    \/ \E id \in Args : Delete(p, id) \/ Find(p, id) \/ Error(p, id)
    \/ \E id \in Args, g \in Gpas : Add(p, id, g)
    \/ Count(p) \/ PrintAll(p) \/ Compress(p) \/ Zero(p)

Next == \E p \in Procs : Command(p) \/ Give(p) \/ Killed(p)

Spec == Init /\ [][Next]_<<store, ready, out>>
=============================================================================
