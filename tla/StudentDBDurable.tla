-------------------------- MODULE StudentDBDurable --------------------------
(***************************************************************************)
(* StudentDB with the history of what a user may rely on after a power     *)
(* loss.  Only compress_db calls fsync; add_student and the others leave   *)
(* it to the kernel to write the file back, so a new student may be lost;  *)
(* but one that has reached the disk must not be put at risk by -x.        *)
(***************************************************************************)
EXTENDS StudentDB

VARIABLE safe   \* students that reached the disk and were not deleted since

allVars == <<vars, safe>>

(* What the disk holds after a power loss. *)
OnDisk == IF ddir[DB] = None THEN {} ELSE Contents(synced[ddir[DB]])

InitD == Init /\ safe = {}

(* A student is safe once the current database is on the disk with it, until it
   is deleted or the database is zeroed. *)
Remember ==
    safe' = (safe \cup IF dir'[DB] = ddir'[DB] THEN OnDisk' ELSE {}) \cap Live'

Run(p) == Step(p) /\ Remember

(* The kernel writes a file, or the directory, back to the disk. *)
WriteBack ==
    /\ \/ \E i \in Inodes : /\ synced[i] # node[i]
                           /\ synced' = [synced EXCEPT ![i] = node[i]]
                           /\ UNCHANGED ddir
       \/ ddir # dir /\ ddir' = dir /\ UNCHANGED synced
    /\ UNCHANGED <<dir, node, pc, cmdVars, fileVars, outVars>> /\ Remember

(* The machine stops and restarts with what is on the disk. *)
PowerLoss ==
    /\ dir' = ddir /\ node' = synced
    /\ pc' = [p \in Procs |-> "idle"]
    /\ op' = [p \in Procs |-> "h"] /\ arg' = [p \in Procs |-> 0]
    /\ gpa' = [p \in Procs |-> 0]
    /\ fd' = [p \in Procs |-> None] /\ tfd' = fd'
    /\ pos' = [p \in Procs |-> 0] /\ buf' = [p \in Procs |-> Empty]
    /\ seen' = [p \in Procs |-> {}] /\ result' = [p \in Procs |-> Nothing]
    /\ UNCHANGED <<ddir, synced, out>> /\ Remember

NextD == (\E p \in Procs : Run(p)) \/ WriteBack \/ PowerLoss

SpecD == InitD /\ [][NextD]_allVars

(* compress_db writes the copy, calls fsync, then renames: whenever the power
   fails, the disk holds every safe student, in the old file or in the copy. *)
SafeStudentsOnDisk == safe \subseteq OnDisk
=============================================================================
