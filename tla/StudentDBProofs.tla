-------------------------- MODULE StudentDBProofs --------------------------
(***************************************************************************)
(* StudentDB for any ids and files, with any of the faults.  For any       *)
(* number of processes at the same time: types, and that a record is only  *)
(* ever in the slot of its id.  For one process at a time: that it acts as *)
(* StudentStore, and that a power loss loses no student that was safe.     *)
(***************************************************************************)
EXTENDS StudentDBDurable, SequenceTheorems, TLAPS

Records == Students \cup {Empty}

(* What a file may hold. *)
File == {f \in Seq(Records) :
            /\ Len(f) <= MaxId + 1
            /\ \A k \in 1..Len(f) : f[k].id \in {0, k - 1}}

FileInv == node \in [Inodes -> File] /\ synced \in [Inodes -> File]

(* A process that is about to use a descriptor has it, and the slot it is about
   to write is that of its record. *)
HasDb == {"get", "put", "scan", "tmp", "copy", "copyto"}
LocalInv ==
    \A p \in Procs :
        /\ pc[p] \in HasDb => fd[p] \in Inodes
        /\ pc[p] \in {"copy", "copyto"} => tfd[p] \in Inodes
        /\ pc[p] # "idle" => op[p] \in Ops
        /\ pc[p] # "idle" /\ op[p] = "a" => gpa[p] \in Gpas
        /\ pc[p] \in {"get", "put"} /\ op[p] = "a" => InRange(arg[p], gpa[p])
        /\ pc[p] = "put" => arg[p] \in 0..MaxId
        /\ pc[p] = "get" => op[p] \in {"a", "d", "f"}
        /\ pc[p] = "copyto" => buf[p] \in Students

Pcs == {"idle", "open", "get", "put", "scan", "tmp", "copy",
        "copyto", "rename", "reopen", "trunc", "exit"}

(* The types without the contents of files. *)
VarInv ==
    /\ dir \in [Files -> Inodes \cup {None}] /\ ddir \in [Files -> Inodes \cup {None}]
    /\ pc \in [Procs -> Pcs]
    /\ op \in [Procs -> Ops \cup {"h"}] /\ arg \in [Procs -> Args]
    /\ gpa \in [Procs -> Gpas \cup {0}]
    /\ fd \in [Procs -> Inodes \cup {None}] /\ tfd \in [Procs -> Inodes \cup {None}]
    /\ pos \in [Procs -> 0..(MaxId + 1)] /\ buf \in [Procs -> Records]
    /\ seen \in [Procs -> SUBSET Students]

IInv == VarInv /\ FileInv /\ LocalInv

-----------------------------------------------------------------------------
(* Records and files. *)

LEMMA EmptyFacts ==
    /\ Empty \in Records /\ Empty.id = 0 /\ Empty \notin Students
    /\ \A s \in Students : s.id \in ValidIds /\ s.id \in 1..MaxId
    /\ \A id \in ValidIds, g \in ValidGpas : [id |-> id, gpa |-> g] \in Students
BY MaxIdAssumption DEF Empty, Records, Students, ValidIds

LEMMA EmptyFile == <<>> \in File
<1>1. <<>> \in Seq(Records) /\ Len(<<>>) = 0
  OBVIOUS
<1>2. 0 <= MaxId + 1
  BY MaxIdAssumption
<1> QED
  BY <1>1, <1>2 DEF File

LEMMA SlotFacts ==
    ASSUME NEW f \in File, NEW k \in Nat
    PROVE  /\ Slot(f, k) \in Records /\ Slot(f, k).id \in {0, k}
           /\ Slot(f, k) # Empty => Slot(f, k) \in Students /\ k \in 0..MaxId
<1>1. f \in Seq(Records) /\ Len(f) \in Nat /\ Len(f) <= MaxId + 1
  BY DEF File
<1>2. CASE k < Len(f)
  <2>1. k + 1 \in 1..Len(f) /\ Slot(f, k) = f[k + 1]
    BY <1>1, <1>2 DEF Slot
  <2>2. f[k + 1] \in Records /\ f[k + 1].id \in {0, k}
    BY <1>1, <2>1 DEF File
  <2>3. k \in 0..MaxId
    BY <1>1, <1>2, MaxIdAssumption
  <2> QED
    BY <2>1, <2>2, <2>3 DEF Records
<1>3. CASE ~(k < Len(f))
  BY <1>3, EmptyFacts DEF Slot
<1> QED
  BY <1>2, <1>3

(* Writing a record to the slot of its id keeps a file a file. *)
LEMMA WriteFile ==
    ASSUME NEW f \in File, NEW k \in 0..MaxId, NEW r \in Records, r.id \in {0, k}
    PROVE  Write(f, k, r) \in File
<1> DEFINE n == IF k < Len(f) THEN Len(f) ELSE k + 1
           w == Write(f, k, r)
<1>1. Len(f) \in Nat /\ Len(f) <= MaxId + 1 /\ k \in Nat
  BY DEF File
<1>2. n \in Nat /\ n <= MaxId + 1
  BY <1>1, MaxIdAssumption
<1>3. w = [i \in 1..n |-> IF i = k + 1 THEN r ELSE Slot(f, i - 1)]
  BY DEF Write
<1> HIDE DEF n, w
<1>4. ASSUME NEW i \in 1..n PROVE w[i] \in Records /\ w[i].id \in {0, i - 1}
  <2>1. i - 1 \in Nat
    BY <1>2
  <2>2. Slot(f, i - 1) \in Records /\ Slot(f, i - 1).id \in {0, i - 1}
    BY <2>1, SlotFacts
  <2>3. i = k + 1 => i - 1 = k
    BY <1>1
  <2> QED
    BY <1>3, <2>2, <2>3
<1>5. w \in [1..n -> Records]
  BY <1>3, <1>4
<1>6. w \in Seq(Records) /\ Len(w) = n
  BY <1>2, <1>5, SeqDef, LenProperties
<1> QED
  BY <1>2, <1>4, <1>6 DEF File, w

LEMMA InvInit == Init => IInv
<1> SUFFICES ASSUME Init PROVE IInv
  OBVIOUS
<1>1. VarInv
  BY EmptyFacts, MaxIdAssumption, ArgsAssumption DEF Init, VarInv, Pcs, Files
<1>2. FileInv
  BY EmptyFile DEF Init, FileInv
<1>3. LocalInv
  BY DEF Init, LocalInv, HasDb
<1> QED
  BY <1>1, <1>2, <1>3 DEF IInv

-----------------------------------------------------------------------------
(* What the parts of the actions do. *)

LEMMA DoneKeeps ==
    ASSUME IInv, NEW p \in Procs, NEW a, Done(p, a), pc[p] # "idle", FileInv',
           dir' \in [Files -> Inodes \cup {None}], ddir' \in [Files -> Inodes \cup {None}],
           fd' \in [Procs -> Inodes \cup {None}], \A q \in Procs \ {p} : fd'[q] = fd[q],
           UNCHANGED <<cmdVars, tfd, pos, buf, seen>>
    PROVE  IInv'
<1>1. pc' = [pc EXCEPT ![p] = "exit"] /\ UNCHANGED <<op, arg, gpa, tfd, pos, buf, seen>>
  BY DEF Done, Goto, cmdVars
<1>2. VarInv'
  BY <1>1 DEF IInv, VarInv, Pcs
<1>3. LocalInv'
  BY <1>1 DEF IInv, VarInv, LocalInv, HasDb
<1> QED
  BY <1>2, <1>3 DEF IInv

(* A command that says its answer and leaves the files alone. *)
LEMMA SayKeeps ==
    ASSUME IInv, NEW p \in Procs, NEW a, Done(p, a), pc[p] # "idle", FileInv',
           dir' \in [Files -> Inodes \cup {None}], ddir' \in [Files -> Inodes \cup {None}],
           UNCHANGED <<cmdVars, fileVars>>
    PROVE  IInv'
<1>1. fd' = fd /\ UNCHANGED <<cmdVars, tfd, pos, buf, seen>>
  BY DEF fileVars
<1>2. fd' \in [Procs -> Inodes \cup {None}] /\ \A q \in Procs \ {p} : fd'[q] = fd[q]
  BY <1>1 DEF IInv, VarInv
<1> QED
  BY <1>1, <1>2, DoneKeeps

LEMMA LeaveKeeps ==
    ASSUME IInv, NEW p \in Procs, NEW a, Leave(p, a)
    PROVE  /\ pc' \in [Procs -> Pcs] /\ op' \in [Procs -> Ops \cup {"h"}]
           /\ arg' \in [Procs -> Args] /\ gpa' \in [Procs -> Gpas \cup {0}]
           /\ fd' \in [Procs -> Inodes \cup {None}] /\ tfd' \in [Procs -> Inodes \cup {None}]
           /\ pos' \in [Procs -> 0..(MaxId + 1)] /\ buf' \in [Procs -> Records]
           /\ seen' \in [Procs -> SUBSET Students]
           /\ LocalInv'
<1> USE EmptyFacts, MaxIdAssumption, ArgsAssumption DEF IInv, VarInv, Leave, Goto
<1>1. /\ pc' \in [Procs -> Pcs] /\ op' \in [Procs -> Ops \cup {"h"}]
      /\ arg' \in [Procs -> Args] /\ gpa' \in [Procs -> Gpas \cup {0}]
      /\ fd' \in [Procs -> Inodes \cup {None}] /\ tfd' \in [Procs -> Inodes \cup {None}]
  BY DEF Pcs
<1>2. /\ pos' \in [Procs -> 0..(MaxId + 1)] /\ buf' \in [Procs -> Records]
      /\ seen' \in [Procs -> SUBSET Students]
  OBVIOUS
<1>3. LocalInv'
  <2> SUFFICES ASSUME NEW q \in Procs
               PROVE  /\ pc[q]' \in HasDb => fd[q]' \in Inodes
                      /\ pc[q]' \in {"copy", "copyto"} => tfd[q]' \in Inodes
                      /\ pc[q]' # "idle" => op[q]' \in Ops
                      /\ pc[q]' # "idle" /\ op[q]' = "a" => gpa[q]' \in Gpas
                      /\ pc[q]' \in {"get", "put"} /\ op[q]' = "a" => InRange(arg[q]', gpa[q]')
                      /\ pc[q]' = "put" => arg[q]' \in 0..MaxId
                      /\ pc[q]' = "get" => op[q]' \in {"a", "d", "f"}
                      /\ pc[q]' = "copyto" => buf[q]' \in Students
    BY DEF LocalInv
  <2>1. CASE q = p
    BY <2>1 DEF HasDb
  <2>2. CASE q # p
    BY <2>2 DEF LocalInv
  <2> QED
    BY <2>1, <2>2
<1> QED
  BY <1>1, <1>2, <1>3

LEMMA OpenFileKeeps ==
    ASSUME IInv, NEW name \in Files, NEW i \in Inodes, NEW t \in BOOLEAN, OpenFile(name, i, t)
    PROVE  /\ FileInv'
           /\ dir' \in [Files -> Inodes \cup {None}] /\ ddir' \in [Files -> Inodes \cup {None}]
<1> DEFINE e == <<>>
<1>1. /\ dir' \in {dir, [dir EXCEPT ![name] = i]} /\ ddir' \in {ddir, dir'}
      /\ node' \in {node, [node EXCEPT ![i] = e]}
      /\ synced' \in {synced, [synced EXCEPT ![i] = e]}
  BY Zenon DEF OpenFile
<1>2. e \in File
  BY EmptyFile
<1> HIDE DEF e
<1> QED
  BY <1>1, <1>2 DEF IInv, VarInv, FileInv

-----------------------------------------------------------------------------
(* The steps. *)

LEMMA StartStep ==
    ASSUME IInv, NEW p \in Procs, Start(p) PROVE IInv'
<1>1. PICK o \in Ops, a \in Args, g \in Gpas \cup {0} :
         /\ op' = [op EXCEPT ![p] = o] /\ arg' = [arg EXCEPT ![p] = a]
         /\ gpa' = [gpa EXCEPT ![p] = g] /\ (o = "a" => g \in Gpas)
  BY DEF Start
<1>2. /\ pc' = [pc EXCEPT ![p] = "open"]
      /\ UNCHANGED <<dir, node, ddir, synced, fd, tfd, pos, buf, seen>>
  BY DEF Start, Goto, fsVars, fileVars
<1>3. VarInv'
  BY <1>1, <1>2 DEF IInv, VarInv, Pcs
<1>4. FileInv'
  BY <1>2 DEF IInv, FileInv
<1>5. LocalInv'
  BY <1>1, <1>2 DEF IInv, VarInv, LocalInv, HasDb
<1> QED
  BY <1>3, <1>4, <1>5 DEF IInv

LEMMA OpenDbStep ==
    ASSUME IInv, NEW p \in Procs, OpenDb(p) PROVE IInv'
<1>1. PICK i \in Inodes : OpenFile(DB, i, FALSE) /\ fd' = [fd EXCEPT ![p] = i]
  BY DEF OpenDb
<1>2. /\ FileInv'
      /\ dir' \in [Files -> Inodes \cup {None}] /\ ddir' \in [Files -> Inodes \cup {None}]
  BY <1>1, OpenFileKeeps DEF Files
<1>3. /\ pc[p] = "open" /\ UNCHANGED <<cmdVars, tfd, pos, buf, seen>>
      /\ op[p] \in Ops
  BY DEF OpenDb, IInv, LocalInv
<1>4. CASE op[p] = "a" /\ ~InRange(arg[p], gpa[p])
  <2>1. \E a : Done(p, a)
    BY <1>4, Zenon DEF OpenDb, Say
  <2>2. fd' \in [Procs -> Inodes \cup {None}] /\ \A q \in Procs \ {p} : fd'[q] = fd[q]
    BY <1>1 DEF IInv, VarInv
  <2> QED
    BY <1>2, <1>3, <2>1, <2>2, DoneKeeps
<1>5. CASE ~(op[p] = "a" /\ ~InRange(arg[p], gpa[p]))
  <2>1. PICK l \in {"get", "scan", "tmp", "trunc"} :
           pc' = [pc EXCEPT ![p] = l] /\ (l = "get" => op[p] \in {"a", "d", "f"})
    BY <1>3, <1>5, OpsAssumption DEF OpenDb, Goto
  <2>2. UNCHANGED <<op, arg, gpa, tfd, pos, buf, seen>>
    BY <1>3 DEF cmdVars
  <2>3. VarInv'
    BY <1>1, <1>2, <2>1, <2>2 DEF IInv, VarInv, Pcs
  <2>4. LocalInv'
    BY <1>1, <1>3, <1>5, <2>1, <2>2 DEF IInv, VarInv, LocalInv, HasDb
  <2> QED
    BY <1>2, <2>3, <2>4 DEF IInv
<1> QED
  BY <1>4, <1>5

(* What get_student comes to: an answer, or the write. *)
LEMMA GetCases ==
    ASSUME IInv, NEW p \in Procs, Get(p), NEW s, s = Slot(node[fd[p]], arg[p])
    PROVE  /\ pc[p] = "get" /\ UNCHANGED <<fsVars, cmdVars, fileVars>>
           /\ \/ arg[p] < 0 /\ Say(p, "error")
              \/ arg[p] >= 0 /\ s = Empty /\ op[p] # "a" /\ Say(p, "not found")
              \/ arg[p] >= 0 /\ s # Empty /\ op[p] = "a" /\ Say(p, "duplicate")
              \/ arg[p] >= 0 /\ s # Empty /\ Done(p, Answer("found", arg[p], {s}, 0))
              \/ /\ arg[p] >= 0 /\ Goto(p, "put") /\ UNCHANGED outVars
                 /\ (op[p] = "a" /\ s = Empty) \/ (op[p] = "d" /\ s # Empty)
<1>1. pc[p] = "get" /\ UNCHANGED <<fsVars, cmdVars, fileVars>>
  BY Zenon DEF Get
<1>2. op[p] \in {"a", "d", "f"}
  BY <1>1 DEF IInv, LocalInv
<1>3. \/ arg[p] < 0 /\ Say(p, "error")
      \/ /\ arg[p] >= 0 /\ s = Empty
         /\ IF op[p] = "a" THEN Goto(p, "put") /\ UNCHANGED outVars
                           ELSE Say(p, "not found")
      \/ /\ arg[p] >= 0 /\ s # Empty
         /\ CASE op[p] = "a" -> Say(p, "duplicate")
              [] op[p] = "d" -> Goto(p, "put") /\ UNCHANGED outVars
              [] op[p] = "f" -> Done(p, Answer("found", arg[p], {s}, 0))
  BY Zenon DEF Get
<1>4. CASE op[p] = "a"
  BY <1>1, <1>3, <1>4, Zenon
<1>5. CASE op[p] = "d"
  BY <1>1, <1>3, <1>5, Zenon
<1>6. CASE op[p] = "f"
  BY <1>1, <1>3, <1>6, Zenon
<1> QED
  BY <1>2, <1>4, <1>5, <1>6

LEMMA GetStep ==
    ASSUME IInv, NEW p \in Procs, Get(p) PROVE IInv'
<1> DEFINE s == Slot(node[fd[p]], arg[p])
<1>1. pc[p] = "get" /\ UNCHANGED <<fsVars, cmdVars, fileVars>>
  BY Zenon DEF Get
<1>2. FileInv' /\ dir' \in [Files -> Inodes \cup {None}] /\ ddir' \in [Files -> Inodes \cup {None}]
  BY <1>1 DEF IInv, VarInv, FileInv, fsVars
<1>3. ASSUME NEW a, Done(p, a) PROVE IInv'
  BY <1>1, <1>2, <1>3, SayKeeps
<1>4. fd[p] \in Inodes /\ node[fd[p]] \in File /\ op[p] \in Ops /\ arg[p] \in Int
  BY <1>1, ArgsAssumption DEF IInv, VarInv, FileInv, LocalInv, HasDb
<1>5. arg[p] >= 0 /\ s # Empty => arg[p] \in 0..MaxId
  BY <1>4, SlotFacts
<1>6. op[p] = "a" => arg[p] \in 0..MaxId
  BY <1>1, MaxIdAssumption DEF IInv, LocalInv, InRange, ValidIds
<1> HIDE DEF s
<1>7. ASSUME Goto(p, "put"), arg[p] \in 0..MaxId PROVE IInv'
  <2>1. pc' = [pc EXCEPT ![p] = "put"]
        /\ UNCHANGED <<op, arg, gpa, fd, tfd, pos, buf, seen>>
    BY <1>1, <1>7 DEF Goto, cmdVars, fileVars
  <2>2. VarInv'
    BY <1>2, <2>1 DEF IInv, VarInv, Pcs
  <2>3. LocalInv'
    BY <1>1, <1>7, <2>1 DEF IInv, VarInv, LocalInv, HasDb
  <2> QED
    BY <1>2, <2>2, <2>3 DEF IInv
<1>8. \/ \E a : Done(p, a)
      \/ Goto(p, "put") /\ (op[p] = "a" \/ (arg[p] >= 0 /\ s # Empty))
  BY GetCases, Zenon DEF s, Say
<1> QED
  BY <1>3, <1>5, <1>6, <1>7, <1>8

LEMMA PutStep ==
    ASSUME IInv, NEW p \in Procs, Put(p) PROVE IInv'
<1> DEFINE r == IF op[p] = "a" THEN [id |-> arg[p], gpa |-> gpa[p]] ELSE Empty
<1>1. /\ node' = [node EXCEPT ![fd[p]] = Write(node[fd[p]], arg[p], r)]
      /\ Say(p, IF op[p] = "a" THEN "added" ELSE "deleted")
      /\ UNCHANGED <<dir, ddir, synced, cmdVars, fileVars>> /\ pc[p] = "put"
  BY DEF Put
<1>2. fd[p] \in Inodes /\ node[fd[p]] \in File /\ arg[p] \in 0..MaxId
  BY <1>1 DEF IInv, FileInv, LocalInv, HasDb
<1>3. r \in Records /\ r.id \in {0, arg[p]}
  <2>1. CASE op[p] = "a"
    <3>1. arg[p] \in ValidIds /\ gpa[p] \in ValidGpas
      BY <1>1, <2>1 DEF IInv, LocalInv, InRange
    <3> QED
      BY <2>1, <3>1, EmptyFacts DEF Records
  <2>2. CASE op[p] # "a"
    BY <2>2, EmptyFacts
  <2> QED
    BY <2>1, <2>2
<1> HIDE DEF r
<1>4. Write(node[fd[p]], arg[p], r) \in File
  BY <1>2, <1>3, WriteFile
<1>5. FileInv'
  BY <1>1, <1>2, <1>4 DEF IInv, FileInv
<1>6. dir' \in [Files -> Inodes \cup {None}] /\ ddir' \in [Files -> Inodes \cup {None}]
  BY <1>1 DEF IInv, VarInv
<1> QED
  BY <1>1, <1>5, <1>6, SayKeeps DEF Say

LEMMA ScanStepStep ==
    ASSUME IInv, NEW p \in Procs, ScanStep(p) PROVE IInv'
<1>1. /\ pc[p] = "scan" /\ pos[p] < Len(node[fd[p]])
      /\ pos' = [pos EXCEPT ![p] = @ + 1]
      /\ seen' = [seen EXCEPT ![p] = @ \cup ({Slot(node[fd[p]], pos[p])} \ {Empty})]
      /\ UNCHANGED <<dir, node, ddir, synced, pc, op, arg, gpa, fd, tfd, buf>>
  BY DEF ScanStep, fsVars, cmdVars
<1>2. node[fd[p]] \in File /\ pos[p] \in 0..(MaxId + 1)
  BY <1>1 DEF IInv, VarInv, FileInv, LocalInv, HasDb
<1>3. pos[p] + 1 \in 0..(MaxId + 1) /\ pos[p] \in Nat
  BY <1>1, <1>2, MaxIdAssumption DEF File
<1>4. {Slot(node[fd[p]], pos[p])} \ {Empty} \subseteq Students
  BY <1>2, <1>3, SlotFacts
<1>5. VarInv'
  BY <1>1, <1>3, <1>4 DEF IInv, VarInv
<1>6. FileInv' /\ LocalInv'
  BY <1>1 DEF IInv, FileInv, LocalInv
<1> QED
  BY <1>5, <1>6 DEF IInv

LEMMA ScanEndStep ==
    ASSUME IInv, NEW p \in Procs, ScanEnd(p) PROVE IInv'
<1>1. /\ UNCHANGED <<fsVars, cmdVars, fileVars>> /\ pc[p] = "scan"
      /\ \E a : Done(p, a)
  BY Zenon DEF ScanEnd
<1>2. FileInv' /\ dir' \in [Files -> Inodes \cup {None}] /\ ddir' \in [Files -> Inodes \cup {None}]
  BY <1>1 DEF IInv, VarInv, FileInv, fsVars
<1> QED
  BY <1>1, <1>2, SayKeeps

LEMMA OpenTmpStep ==
    ASSUME IInv, NEW p \in Procs, OpenTmp(p) PROVE IInv'
<1>1. PICK i \in Inodes : OpenFile(TMP, i, TRUE) /\ tfd' = [tfd EXCEPT ![p] = i]
  BY DEF OpenTmp, TmpTruncates
<1>2. pc[p] = "tmp" /\ pc' = [pc EXCEPT ![p] = "copy"] /\ UNCHANGED <<op, arg, gpa, fd, pos, buf, seen>>
  BY DEF OpenTmp, Goto, cmdVars
<1>3. /\ FileInv'
      /\ dir' \in [Files -> Inodes \cup {None}] /\ ddir' \in [Files -> Inodes \cup {None}]
  BY <1>1, OpenFileKeeps DEF Files
<1>4. VarInv'
  BY <1>1, <1>2, <1>3 DEF IInv, VarInv, Pcs
<1>5. LocalInv'
  BY <1>1, <1>2 DEF IInv, VarInv, LocalInv, HasDb
<1> QED
  BY <1>3, <1>4, <1>5 DEF IInv

LEMMA CopyReadStep ==
    ASSUME IInv, NEW p \in Procs, CopyRead(p) PROVE IInv'
<1> DEFINE s == Slot(node[fd[p]], pos[p])
<1>1. /\ pc[p] = "copy" /\ pos[p] < Len(node[fd[p]])
      /\ \/ s = Empty /\ UNCHANGED <<pc, buf>>
         \/ s # Empty /\ pc' = [pc EXCEPT ![p] = "copyto"] /\ buf' = [buf EXCEPT ![p] = s]
      /\ pos' = [pos EXCEPT ![p] = @ + 1]
      /\ UNCHANGED <<dir, node, ddir, synced, op, arg, gpa, fd, tfd, seen>>
  BY DEF CopyRead, Goto, fsVars, cmdVars
<1>2. node[fd[p]] \in File /\ pos[p] \in 0..(MaxId + 1)
  BY <1>1 DEF IInv, VarInv, FileInv, LocalInv, HasDb
<1>3. pos[p] + 1 \in 0..(MaxId + 1) /\ pos[p] \in Nat
  BY <1>1, <1>2, MaxIdAssumption DEF File
<1>4. s \in Records /\ (s # Empty => s \in Students)
  BY <1>2, <1>3, SlotFacts
<1> HIDE DEF s
<1>5. VarInv'
  <2>1. pc' \in [Procs -> Pcs] /\ buf' \in [Procs -> Records]
    <3>1. CASE s = Empty
      BY <1>1, <3>1 DEF IInv, VarInv
    <3>2. CASE s # Empty
      <4>1. pc' = [pc EXCEPT ![p] = "copyto"] /\ buf' = [buf EXCEPT ![p] = s]
        BY <1>1, <3>2
      <4>2. pc \in [Procs -> Pcs] /\ buf \in [Procs -> Records]
        BY DEF IInv, VarInv
      <4>3. pc' \in [Procs -> Pcs]
        BY <4>1, <4>2 DEF Pcs
      <4>4. buf' \in [Procs -> Records]
        BY <4>1, <4>2, <1>4
      <4> QED
        BY <4>3, <4>4
    <3> QED
      BY <3>1, <3>2
  <2>2. pos' \in [Procs -> 0..(MaxId + 1)]
    BY <1>1, <1>3 DEF IInv, VarInv
  <2> QED
    BY <1>1, <2>1, <2>2 DEF IInv, VarInv
<1>6. FileInv'
  BY <1>1 DEF IInv, FileInv
<1>7. LocalInv'
  BY <1>1, <1>4 DEF IInv, VarInv, LocalInv, HasDb
<1> QED
  BY <1>5, <1>6, <1>7 DEF IInv

LEMMA CopyWriteStep ==
    ASSUME IInv, NEW p \in Procs, CopyWrite(p) PROVE IInv'
<1>1. /\ node' = [node EXCEPT ![tfd[p]] = Write(node[tfd[p]], buf[p].id, buf[p])]
      /\ pc[p] = "copyto" /\ pc' = [pc EXCEPT ![p] = "copy"]
      /\ UNCHANGED <<dir, ddir, synced, op, arg, gpa, fd, tfd, pos, buf, seen>>
  BY DEF CopyWrite, CopySlot, Goto, cmdVars, fileVars
<1>2. node[tfd[p]] \in File /\ buf[p] \in Students
  BY <1>1 DEF IInv, FileInv, LocalInv
<1>3. buf[p].id \in 0..MaxId /\ buf[p] \in Records
  BY <1>2, EmptyFacts, MaxIdAssumption DEF Records
<1>4. Write(node[tfd[p]], buf[p].id, buf[p]) \in File
  BY <1>2, <1>3, WriteFile
<1>5. FileInv'
  BY <1>1, <1>4 DEF IInv, FileInv
<1>6. VarInv'
  BY <1>1 DEF IInv, VarInv, Pcs
<1>7. LocalInv'
  BY <1>1 DEF IInv, VarInv, LocalInv, HasDb
<1> QED
  BY <1>5, <1>6, <1>7 DEF IInv

LEMMA CopyEndStep ==
    ASSUME IInv, NEW p \in Procs, CopyEnd(p) PROVE IInv'
<1>1. /\ pc[p] = "copy" /\ pc' = [pc EXCEPT ![p] = "rename"]
      /\ synced' \in {synced, [synced EXCEPT ![tfd[p]] = node[tfd[p]]]}
      /\ fd' = [fd EXCEPT ![p] = None] /\ tfd' = [tfd EXCEPT ![p] = None]
      /\ UNCHANGED <<dir, ddir, node, op, arg, gpa, pos, buf, seen>>
  BY DEF CopyEnd, Synced, Goto, cmdVars
<1>2. tfd[p] \in Inodes
  BY <1>1 DEF IInv, LocalInv
<1>3. FileInv'
  BY <1>1, <1>2 DEF IInv, FileInv
<1>4. VarInv'
  BY <1>1 DEF IInv, VarInv, Pcs
<1>5. LocalInv'
  BY <1>1 DEF IInv, VarInv, LocalInv, HasDb
<1> QED
  BY <1>3, <1>4, <1>5 DEF IInv

LEMMA RenameStep ==
    ASSUME IInv, NEW p \in Procs, Rename(p) PROVE IInv'
<1>1. pc[p] = "rename" /\ UNCHANGED <<node, synced>>
  BY DEF Rename
<1>2. FileInv'
  BY <1>1 DEF IInv, FileInv
<1>3. CASE dir[TMP] = None
  <2>1. (\E a : Done(p, a)) /\ UNCHANGED <<dir, ddir, cmdVars, fileVars>>
    BY <1>3 DEF Rename, Say
  <2>2. dir' \in [Files -> Inodes \cup {None}] /\ ddir' \in [Files -> Inodes \cup {None}]
    BY <2>1 DEF IInv, VarInv
  <2> QED
    BY <1>1, <1>2, <2>1, <2>2, SayKeeps
<1>4. CASE dir[TMP] # None
  <2>1. /\ dir' = [dir EXCEPT ![DB] = dir[TMP], ![TMP] = None] /\ ddir' \in {ddir, dir'}
        /\ pc' = [pc EXCEPT ![p] = "reopen"]
        /\ UNCHANGED <<op, arg, gpa, fd, tfd, pos, buf, seen>>
    BY <1>4 DEF Rename, Goto, cmdVars, fileVars
  <2>2. VarInv'
    BY <2>1 DEF IInv, VarInv, Pcs, Files
  <2>3. LocalInv'
    BY <1>1, <2>1 DEF IInv, VarInv, LocalInv, HasDb
  <2> QED
    BY <1>2, <2>2, <2>3 DEF IInv
<1> QED
  BY <1>3, <1>4

LEMMA ReopenStep ==
    ASSUME IInv, NEW p \in Procs, Reopen(p) PROVE IInv'
<1>1. /\ fd' = [fd EXCEPT ![p] = dir[DB]] /\ pc[p] = "reopen"
      /\ UNCHANGED <<dir, node, ddir, synced, cmdVars, tfd, pos, buf, seen>>
      /\ \E a : Done(p, a)
  BY DEF Reopen, fsVars, Say
<1>2. FileInv' /\ dir' \in [Files -> Inodes \cup {None}] /\ ddir' \in [Files -> Inodes \cup {None}]
  BY <1>1 DEF IInv, VarInv, FileInv
<1>3. fd' \in [Procs -> Inodes \cup {None}] /\ \A q \in Procs \ {p} : fd'[q] = fd[q]
  BY <1>1 DEF IInv, VarInv, Files
<1> QED
  BY <1>1, <1>2, <1>3, DoneKeeps

LEMMA IoErrorStep ==
    ASSUME IInv, NEW p \in Procs, IoError(p) PROVE IInv'
<1>1. /\ UNCHANGED <<fsVars, cmdVars, fileVars>> /\ pc[p] # "idle"
      /\ \E a : Done(p, a)
  BY DEF IoError, Say
<1>2. FileInv' /\ dir' \in [Files -> Inodes \cup {None}] /\ ddir' \in [Files -> Inodes \cup {None}]
  BY <1>1 DEF IInv, VarInv, FileInv, fsVars
<1> QED
  BY <1>1, <1>2, SayKeeps

LEMMA LeaveStep ==
    ASSUME IInv, NEW p \in Procs, Exit(p) \/ Kill(p) PROVE IInv'
<1>1. UNCHANGED fsVars /\ \E a : Leave(p, a)
  BY DEF Exit, Kill, Leave
<1>2. FileInv' /\ dir' \in [Files -> Inodes \cup {None}] /\ ddir' \in [Files -> Inodes \cup {None}]
  BY <1>1 DEF IInv, VarInv, FileInv, fsVars
<1> QED
  BY <1>1, <1>2, LeaveKeeps DEF IInv, VarInv

LEMMA TruncStep ==
    ASSUME IInv, NEW p \in Procs, Trunc(p) PROVE IInv'
<1>1. PICK i \in Inodes : OpenFile(DB, i, TRUE) /\ fd' = [fd EXCEPT ![p] = i]
  BY DEF Trunc
<1>2. /\ pc[p] = "trunc" /\ UNCHANGED <<cmdVars, tfd, pos, buf, seen>>
      /\ \E a : Done(p, a)
  BY DEF Trunc, Say
<1>3. /\ FileInv'
      /\ dir' \in [Files -> Inodes \cup {None}] /\ ddir' \in [Files -> Inodes \cup {None}]
  BY <1>1, OpenFileKeeps DEF Files
<1>4. fd' \in [Procs -> Inodes \cup {None}] /\ \A q \in Procs \ {p} : fd'[q] = fd[q]
  BY <1>1 DEF IInv, VarInv
<1> QED
  BY <1>2, <1>3, <1>4, DoneKeeps

LEMMA InvStep == IInv /\ [Next]_vars => IInv'
<1> SUFFICES ASSUME IInv, [Next]_vars PROVE IInv'
  OBVIOUS
<1>1. CASE UNCHANGED vars
  BY <1>1 DEF IInv, VarInv, FileInv, LocalInv, vars, fsVars, cmdVars, fileVars
<1>2. ASSUME NEW p \in Procs, Step(p) PROVE IInv'
  BY <1>2, StartStep, OpenDbStep, GetStep, PutStep, ScanStepStep, ScanEndStep, OpenTmpStep,
     CopyReadStep, CopyWriteStep, CopyEndStep, RenameStep, ReopenStep, IoErrorStep, LeaveStep,
     TruncStep DEF Step
<1> QED
  BY <1>1, <1>2 DEF Next

-----------------------------------------------------------------------------
(* Every variable keeps its type: no file grows past the slot of MAX_STD_ID, no
   offset past the end of such a file, and what is read and written is a record. *)
THEOREM TypeCorrect == Spec => []TypeOK
<1>1. IInv => TypeOK
  <2> SUFFICES ASSUME IInv PROVE TypeOK
    OBVIOUS
  <2>1. ASSUME NEW i \in Inodes, NEW f \in {node, synced}
        PROVE  Len(f[i]) <= MaxId + 1 /\ \A k \in 1..Len(f[i]) : f[i][k] \in Students \cup {Empty}
    <3>1. f[i] \in File
      BY <2>1 DEF IInv, FileInv
    <3>2. f[i] \in Seq(Records) /\ Len(f[i]) <= MaxId + 1
      BY <3>1 DEF File
    <3> QED
      BY <3>2 DEF Records
  <2> QED
    BY <2>1 DEF IInv, VarInv, TypeOK, Pcs, Records
<1> QED
  BY <1>1, InvInit, InvStep, PTL DEF Spec

(* Whatever runs at the same time, is killed or fails, a record is only ever in
   the slot of its id: the argument of sdbsc.c that get_student, add_student and
   del_student need no search. *)
THEOREM SlotsStayRight == Spec => []SlotsMatchIds
<1>1. IInv => SlotsMatchIds
  BY DEF IInv, FileInv, File, SlotsMatchIds
<1> QED
  BY <1>1, InvInit, InvStep, PTL DEF Spec

-----------------------------------------------------------------------------
(* One process at a time. *)

(* The copy g has the slots of f before k, and nothing after them. *)
Copied(f, g, k) == \A j \in Nat : Slot(g, j) = IF j < k THEN Slot(f, j) ELSE Empty
SeenBefore(f, k) == {Slot(f, j) : j \in 0..(k - 1)} \ {Empty}

(* What a process that runs alone knows between two of its calls. *)
NameInv == dir[DB] = dir[TMP] => dir[DB] = None
OptionInv(p) ==
    /\ arg[p] # 0 => op[p] \in {"a", "d", "f"}
    /\ pc[p] = "put" => op[p] \in {"a", "d"}
    /\ pc[p] = "scan" => op[p] \in {"c", "p"}
    /\ pc[p] \in {"tmp", "copy", "copyto", "rename", "reopen"} => op[p] = "x"
    /\ pc[p] = "trunc" => op[p] = "z"
DbInv(p) ==
    /\ pc[p] \in HasDb => fd[p] = dir[DB]
    /\ pc[p] = "put" /\ op[p] = "a" => Slot(node[fd[p]], arg[p]) = Empty
    /\ pc[p] = "put" /\ op[p] = "d" => Slot(node[fd[p]], arg[p]) # Empty
ScanInv(p) ==
    /\ pc[p] \in {"idle", "open", "get", "put", "tmp", "trunc"} => pos[p] = 0 /\ seen[p] = {}
    /\ pc[p] = "scan" => seen[p] = SeenBefore(node[fd[p]], pos[p])
CopyInv(p) ==
    /\ pc[p] \in {"copy", "copyto"} => tfd[p] = dir[TMP]
    /\ pc[p] = "copy" => Copied(node[fd[p]], node[tfd[p]], pos[p])
    /\ pc[p] = "copyto" =>
          /\ pos[p] > 0 /\ buf[p] = Slot(node[fd[p]], pos[p] - 1)
          /\ Copied(node[fd[p]], node[tfd[p]], pos[p] - 1)
    /\ pc[p] = "rename" =>
          /\ dir[DB] \in Inodes /\ dir[TMP] \in Inodes
          /\ \A j \in Nat : Slot(node[dir[TMP]], j) = Slot(node[dir[DB]], j)
(* It has an answer exactly when it has only to exit. *)
ResultInv(p) ==
    /\ DOMAIN result = Procs
    /\ pc[p] = "exit" <=> result[p] # Nothing
SerialInv(p) ==
    NameInv /\ OptionInv(p) /\ DbInv(p) /\ ScanInv(p) /\ CopyInv(p) /\ ResultInv(p)

StoreStep == [Store!Next]_<<Live, result, out>>

-----------------------------------------------------------------------------
(* The students of a file, by their slots. *)

LEMMA ContentsFacts ==
    ASSUME NEW f \in File, NEW s
    PROVE  s \in Contents(f) <=> s # Empty /\ \E j \in Nat : s = Slot(f, j)
<1>1. Len(f) \in Nat
  BY DEF File
<1>2. ASSUME s \in Contents(f) PROVE s # Empty /\ \E j \in Nat : s = Slot(f, j)
  <2>1. PICK i \in 1..Len(f) : s = f[i] /\ s # Empty
    BY <1>2 DEF Contents
  <2>2. i - 1 \in Nat /\ i - 1 < Len(f) /\ (i - 1) + 1 = i
    BY <1>1
  <2>3. Slot(f, i - 1) = f[i]
    BY <2>2 DEF Slot
  <2> QED
    BY <2>1, <2>2, <2>3
<1>3. ASSUME s # Empty, NEW j \in Nat, s = Slot(f, j) PROVE s \in Contents(f)
  <2>1. j < Len(f) /\ s = f[j + 1]
    BY <1>3 DEF Slot
  <2>2. j + 1 \in 1..Len(f)
    BY <1>1, <2>1
  <2> QED
    BY <1>3, <2>1, <2>2 DEF Contents
<1> QED
  BY <1>2, <1>3

(* Two files with the same slots have the same students. *)
LEMMA SameSlots ==
    ASSUME NEW f \in File, NEW g \in File, \A j \in Nat : Slot(g, j) = Slot(f, j)
    PROVE  Contents(f) = Contents(g)
<1>1. ASSUME NEW s PROVE s \in Contents(f) <=> s \in Contents(g)
  BY ContentsFacts
<1> QED
  BY <1>1

(* get_student finds the student with the id, the only one, or none. *)
LEMMA AtFacts ==
    ASSUME NEW f \in File, NEW id \in Nat
    PROVE  {s \in Contents(f) : s.id = id} = {Slot(f, id)} \ {Empty}
<1>1. ASSUME NEW s \in Contents(f), s.id = id PROVE s = Slot(f, id) /\ s # Empty
  <2>1. PICK j \in Nat : s = Slot(f, j) /\ s # Empty
    BY ContentsFacts
  <2>2. s \in Students /\ s.id \in {0, j}
    BY <2>1, SlotFacts
  <2>3. s.id # 0
    BY <2>2, EmptyFacts
  <2> QED
    BY <1>1, <2>1, <2>2, <2>3
<1>2. ASSUME Slot(f, id) # Empty PROVE Slot(f, id) \in Contents(f) /\ Slot(f, id).id = id
  <2>1. Slot(f, id) \in Contents(f)
    BY <1>2, ContentsFacts
  <2>2. Slot(f, id) \in Students /\ Slot(f, id).id \in {0, id}
    BY <1>2, SlotFacts
  <2> QED
    BY <2>1, <2>2, EmptyFacts
<1> QED
  BY <1>1, <1>2

LEMMA WriteSlot ==
    ASSUME NEW f \in File, NEW k \in Nat, NEW r
    PROVE  \A j \in Nat : Slot(Write(f, k, r), j) = IF j = k THEN r ELSE Slot(f, j)
<1> DEFINE n == IF k < Len(f) THEN Len(f) ELSE k + 1
           w == Write(f, k, r)
<1>1. Len(f) \in Nat /\ n \in Nat /\ k < n /\ Len(f) <= n
  BY DEF File
<1>2. w = [i \in 1..n |-> IF i = k + 1 THEN r ELSE Slot(f, i - 1)]
  BY DEF Write
<1> HIDE DEF n, w
<1>3. Len(w) = n
  <2> DEFINE S == {w[i] : i \in 1..n}
  <2>1. w \in [1..n -> S]
    BY <1>2
  <2> HIDE DEF S
  <2> QED
    BY <1>1, <2>1, SeqDef, LenProperties
<1>4. ASSUME NEW j \in Nat PROVE Slot(w, j) = IF j = k THEN r ELSE Slot(f, j)
  <2>1. CASE j < n
    <3>1. j + 1 \in 1..n /\ (j + 1) - 1 = j /\ (j + 1 = k + 1 <=> j = k)
      BY <1>1, <2>1
    <3>2. w[j + 1] = IF j = k THEN r ELSE Slot(f, j)
      BY <1>2, <3>1
    <3> QED
      BY <1>3, <2>1, <3>2 DEF Slot
  <2>2. CASE ~(j < n)
    <3>1. j # k /\ ~(j < Len(f))
      BY <1>1, <2>2
    <3> QED
      BY <1>3, <2>2, <3>1 DEF Slot
  <2> QED
    BY <2>1, <2>2
<1> QED
  BY <1>4 DEF w

LEMMA WriteContents ==
    ASSUME NEW f \in File, NEW k \in 0..MaxId, NEW r \in Records, r.id \in {0, k}
    PROVE  \A s : s \in Contents(Write(f, k, r))
                    <=> s # Empty /\ (s = r \/ (s \in Contents(f) /\ s # Slot(f, k)))
<1>1. k \in Nat /\ Write(f, k, r) \in File
  BY WriteFile, MaxIdAssumption
<1> SUFFICES ASSUME NEW s
             PROVE  s \in Contents(Write(f, k, r))
                      <=> s # Empty /\ (s = r \/ (s \in Contents(f) /\ s # Slot(f, k)))
  OBVIOUS
<1>2. s \in Contents(Write(f, k, r)) <=>
         s # Empty /\ \E j \in Nat : s = IF j = k THEN r ELSE Slot(f, j)
  <2>1. s \in Contents(Write(f, k, r)) <=>
           s # Empty /\ \E j \in Nat : s = Slot(Write(f, k, r), j)
    BY <1>1, ContentsFacts
  <2> QED
    BY <2>1, <1>1, WriteSlot
<1>3. ASSUME s # Empty, NEW j \in Nat, j # k, s = Slot(f, j)
      PROVE  s \in Contents(f) /\ s # Slot(f, k)
  <2>1. s \in Students /\ s.id = j
    BY <1>3, SlotFacts, EmptyFacts
  <2>2. Slot(f, k).id \in {0, k}
    BY <1>1, SlotFacts
  <2>3. j \in 1..MaxId
    BY <2>1, EmptyFacts
  <2> QED
    BY <1>3, <2>1, <2>2, <2>3, ContentsFacts
<1>4. ASSUME s \in Contents(f), s # Slot(f, k)
      PROVE  \E j \in Nat : j # k /\ s = Slot(f, j)
  BY <1>4, ContentsFacts
<1> QED
  BY <1>1, <1>2, <1>3, <1>4

-----------------------------------------------------------------------------
(* What the parts of the actions do to the students. *)

LEMMA LiveUnchanged == ASSUME UNCHANGED <<dir, node>> PROVE Live' = Live
BY DEF Live

LEMMA NotNothing ==
    ASSUME NEW c, NEW id, NEW data, NEW n, c # "none"
    PROVE  Answer(c, id, data, n) # Nothing
BY DEF Answer, Nothing

(* A command has its answer. *)
LEMMA DoneSerial ==
    ASSUME IInv, NEW p, Procs = {p}, SerialInv(p), pc[p] \notin {"idle", "exit"},
           NEW a, a # Nothing, Done(p, a), UNCHANGED cmdVars, NameInv'
    PROVE  SerialInv(p)' /\ Store!Found(p, a)
<1>1. /\ pc'[p] = "exit" /\ result' = [result EXCEPT ![p] = a] /\ out' = out
      /\ op' = op /\ arg' = arg
  BY DEF Done, Goto, IInv, VarInv, cmdVars
<1>2. DOMAIN result = Procs /\ result[p] = Nothing
  BY DEF SerialInv, ResultInv
<1>3. OptionInv(p)'
  BY <1>1 DEF SerialInv, OptionInv
<1>4. DbInv(p)' /\ ScanInv(p)' /\ CopyInv(p)'
  BY <1>1 DEF DbInv, HasDb, ScanInv, CopyInv
<1>5. ResultInv(p)'
  <2>1. DOMAIN result' = Procs /\ result'[p] = a
    BY <1>1, <1>2
  <2>2. Nothing' = Nothing
    BY DEF Nothing, Answer
  <2> QED
    BY <1>1, <2>1, <2>2 DEF ResultInv
<1>6. Store!Found(p, a)
  <2>1. Store!Nothing = Nothing
    BY DEF Store!Nothing, Store!Answer, Nothing, Answer
  <2> QED
    BY <1>1, <1>2, <2>1 DEF Store!Found
<1> QED
  BY <1>3, <1>4, <1>5, <1>6 DEF SerialInv

LEMMA SaysAnswer ==
    ASSUME IInv, NEW p, Procs = {p}, SerialInv(p), pc[p] \notin {"idle", "exit"},
           NEW c, c # "none", Say(p, c), UNCHANGED cmdVars, NameInv'
    PROVE  SerialInv(p)' /\ arg[p] \in Args /\ Store!Say(p, c, arg[p])
<1> DEFINE a == Answer(c, arg[p], {}, 0)
<1>1. Done(p, a) /\ a # Nothing
  BY NotNothing DEF Say
<1>2. Store!Answer(c, arg[p], {}, 0) = a
  BY DEF Store!Answer, Answer
<1> HIDE DEF a
<1>3. SerialInv(p)' /\ Store!Found(p, a)
  BY <1>1, DoneSerial
<1>4. Store!Say(p, c, arg[p])
  BY <1>2, <1>3 DEF Store!Say
<1> QED
  BY <1>3, <1>4 DEF IInv, VarInv

(* A process that gives up with an error has changed no student. *)
LEMMA GiveUp ==
    ASSUME IInv, NEW p, Procs = {p}, SerialInv(p), pc[p] \notin {"idle", "exit"},
           Say(p, "error"), UNCHANGED cmdVars, Live' = Live, NameInv'
    PROVE  SerialInv(p)' /\ StoreStep
<1>1. SerialInv(p)' /\ arg[p] \in Args /\ Store!Say(p, "error", arg[p])
  BY SaysAnswer
<1>2. Store!Error(p, arg[p])
  BY <1>1 DEF Store!Error
<1> QED
  BY <1>1, <1>2 DEF StoreStep, Store!Next, Store!Command

(* A step before the command has its answer. *)
LEMMA NoAnswer ==
    ASSUME NEW p, SerialInv(p), pc[p] # "exit", pc'[p] # "exit", UNCHANGED outVars
    PROVE  ResultInv(p)' /\ UNCHANGED <<result, out>>
<1>1. result' = result /\ out' = out
  BY DEF outVars
<1>2. Nothing' = Nothing
  BY DEF Nothing, Answer
<1> QED
  BY <1>1, <1>2 DEF SerialInv, ResultInv

LEMMA LeaveSerial ==
    ASSUME IInv, NEW p, Procs = {p}, SerialInv(p), NEW a, Leave(p, a)
    PROVE  SerialInv(p)' /\ Live' = Live /\ Store!Leave(p, a)
<1>1. /\ pc'[p] = "idle" /\ op'[p] = "h" /\ arg'[p] = 0
      /\ pos'[p] = 0 /\ seen'[p] = {}
  BY DEF Leave, Goto, IInv, VarInv
<1>2. UNCHANGED <<dir, node>> /\ out' = [out EXCEPT ![p] = a]
      /\ result' = [result EXCEPT ![p] = Nothing]
  BY DEF Leave, fsVars
<1>3. Live' = Live /\ NameInv'
  BY <1>2, LiveUnchanged DEF SerialInv, NameInv
<1>4. OptionInv(p)' /\ DbInv(p)' /\ ScanInv(p)' /\ CopyInv(p)'
  BY <1>1 DEF OptionInv, DbInv, HasDb, ScanInv, CopyInv
<1>5. ResultInv(p)'
  <2>1. DOMAIN result' = Procs /\ result'[p] = Nothing
    BY <1>2 DEF SerialInv, ResultInv
  <2>2. Nothing' = Nothing
    BY DEF Nothing, Answer
  <2> QED
    BY <1>1, <2>1, <2>2 DEF ResultInv
<1>6. Store!Leave(p, a)
  <2>1. Store!Nothing = Nothing
    BY DEF Store!Nothing, Store!Answer, Nothing, Answer
  <2> QED
    BY <1>2, <1>3, <2>1 DEF Store!Leave
<1> QED
  BY <1>3, <1>4, <1>5, <1>6 DEF SerialInv

(* Opening the database changes no student, and gives it an inode of its own. *)
LEMMA OpenDbFile ==
    ASSUME IInv, NameInv, NEW i \in Inodes, OpenFile(DB, i, FALSE)
    PROVE  Live' = Live /\ NameInv' /\ dir'[DB] = i
<1>1. dir \in [Files -> Inodes \cup {None}] /\ node \in [Inodes -> File]
  BY DEF IInv, VarInv, FileInv
<1>2. CASE dir[DB] = None
  <2> DEFINE e == <<>>
  <2>1. /\ i \in Unused /\ dir' = [dir EXCEPT ![DB] = i] /\ node' = [node EXCEPT ![i] = e]
    BY <1>2 DEF OpenFile
  <2>2. Contents(e) = {}
    BY DEF Contents
  <2> HIDE DEF e
  <2>3. dir[TMP] # i
    BY <2>1 DEF Unused, Files
  <2>4. dir'[DB] = i /\ dir'[TMP] = dir[TMP] /\ node'[i] = e
    BY <1>1, <2>1 DEF Files, DB, TMP
  <2> QED
    BY <1>2, <2>2, <2>3, <2>4, NoneAssumption DEF Live, NameInv
<1>3. CASE dir[DB] # None
  <2>1. i = dir[DB] /\ UNCHANGED <<dir, node>>
    BY <1>3 DEF OpenFile
  <2> QED
    BY <2>1 DEF Live, NameInv
<1> QED
  BY <1>2, <1>3

(* Opening it with O_TRUNC leaves none. *)
LEMMA TruncDbFile ==
    ASSUME IInv, NameInv, NEW i \in Inodes, OpenFile(DB, i, TRUE)
    PROVE  Live' = {} /\ NameInv'
<1>1. dir \in [Files -> Inodes \cup {None}] /\ node \in [Inodes -> File]
  BY DEF IInv, VarInv, FileInv
<1> DEFINE e == <<>>
<1>2. Contents(e) = {}
  BY DEF Contents
<1>3. CASE dir[DB] = None
  <2>1. /\ i \in Unused /\ dir' = [dir EXCEPT ![DB] = i] /\ node' = [node EXCEPT ![i] = e]
    BY <1>3 DEF OpenFile
  <2> HIDE DEF e
  <2>2. dir[TMP] # i
    BY <2>1 DEF Unused, Files
  <2>3. dir'[DB] = i /\ dir'[TMP] = dir[TMP] /\ node'[i] = e
    BY <1>1, <2>1 DEF Files, DB, TMP
  <2> QED
    BY <1>2, <2>2, <2>3 DEF Live, NameInv
<1>4. CASE dir[DB] # None
  <2>1. i = dir[DB] /\ UNCHANGED dir /\ node' = [node EXCEPT ![i] = e]
    BY <1>4 DEF OpenFile
  <2> HIDE DEF e
  <2>2. node'[i] = e
    BY <1>1, <2>1
  <2> QED
    BY <1>2, <2>1, <2>2 DEF Live, NameInv
<1> QED
  BY <1>3, <1>4

(* Opening the temporary file leaves the database alone, and it is empty. *)
LEMMA OpenTmpFile ==
    ASSUME IInv, NameInv, NEW i \in Inodes, OpenFile(TMP, i, TRUE)
    PROVE  /\ Live' = Live /\ NameInv' /\ dir'[TMP] = i /\ dir'[DB] = dir[DB]
           /\ node'[i] = <<>>
<1>1. dir \in [Files -> Inodes \cup {None}] /\ node \in [Inodes -> File]
  BY DEF IInv, VarInv, FileInv
<1> DEFINE e == <<>>
<1>2. /\ node' = [node EXCEPT ![i] = e] /\ dir[DB] # i
      /\ dir'[TMP] = i /\ dir'[DB] = dir[DB]
  <2>1. CASE dir[TMP] = None
    <3>1. i \in Unused /\ dir' = [dir EXCEPT ![TMP] = i] /\ node' = [node EXCEPT ![i] = e]
      BY <2>1 DEF OpenFile
    <3>2. dir[DB] # i
      BY <3>1 DEF Unused, Files
    <3>3. dir'[TMP] = i /\ dir'[DB] = dir[DB]
      BY <1>1, <3>1 DEF Files, DB, TMP
    <3> QED
      BY <3>1, <3>2, <3>3
  <2>2. CASE dir[TMP] # None
    <3>1. i = dir[TMP] /\ UNCHANGED dir /\ node' = [node EXCEPT ![i] = e]
      BY <2>2 DEF OpenFile
    <3> QED
      BY <2>2, <3>1 DEF NameInv
  <2> QED
    BY <2>1, <2>2
<1>3. node'[i] = e /\ (dir[DB] \in Inodes => node'[dir[DB]] = node[dir[DB]])
  BY <1>1, <1>2
<1>4. dir[DB] \in Inodes \cup {None}
  BY <1>1 DEF Files
<1>5. Live' = Live
  BY <1>2, <1>3, <1>4 DEF Live
<1> QED
  BY <1>2, <1>3, <1>5, NoneAssumption DEF NameInv

(* The file behind a descriptor of the database holds the students. *)
LEMMA DbFile ==
    ASSUME IInv, NEW p, Procs = {p}, SerialInv(p), pc[p] \in HasDb
    PROVE  /\ fd[p] \in Inodes /\ fd[p] = dir[DB] /\ dir[DB] # None
           /\ node[fd[p]] \in File /\ Live = Contents(node[fd[p]])
<1>1. fd[p] \in Inodes /\ fd[p] = dir[DB]
  BY DEF IInv, LocalInv, SerialInv, DbInv
<1> QED
  BY <1>1, NoneAssumption DEF IInv, FileInv, Live

-----------------------------------------------------------------------------
(* Every step is one of the store, or leaves its students and answers alone. *)

LEMMA StartMap ==
    ASSUME IInv, NEW p, Procs = {p}, SerialInv(p), Start(p)
    PROVE  SerialInv(p)' /\ StoreStep
<1>1. PICK o \in Ops, a \in Args :
         /\ o \in {"a", "d", "f"} \/ a = 0
         /\ op' = [op EXCEPT ![p] = o] /\ arg' = [arg EXCEPT ![p] = a]
  BY DEF Start
<1>2. /\ pc[p] = "idle" /\ pc' = [pc EXCEPT ![p] = "open"]
      /\ UNCHANGED <<dir, node, fd, tfd, pos, buf, seen, outVars>>
  BY DEF Start, Goto, fsVars, fileVars
<1>3. pc'[p] = "open" /\ op'[p] = o /\ arg'[p] = a /\ pos'[p] = 0 /\ seen'[p] = {}
  BY <1>1, <1>2 DEF IInv, VarInv, SerialInv, ScanInv
<1>4. NameInv' /\ OptionInv(p)' /\ DbInv(p)' /\ ScanInv(p)' /\ CopyInv(p)'
  BY <1>1, <1>2, <1>3 DEF SerialInv, NameInv, OptionInv, DbInv, ScanInv, CopyInv, HasDb
<1>5. ResultInv(p)' /\ UNCHANGED <<result, out>>
  BY <1>2, <1>3, NoAnswer
<1>6. StoreStep
  BY <1>2, <1>5, LiveUnchanged DEF StoreStep
<1> QED
  BY <1>4, <1>5, <1>6 DEF SerialInv

LEMMA OpenDbMap ==
    ASSUME IInv, NEW p, Procs = {p}, SerialInv(p), OpenDb(p)
    PROVE  SerialInv(p)' /\ StoreStep
<1>1. PICK i \in Inodes : OpenFile(DB, i, FALSE) /\ fd' = [fd EXCEPT ![p] = i]
  BY DEF OpenDb
<1>2. Live' = Live /\ NameInv' /\ dir'[DB] = i
  BY <1>1, OpenDbFile DEF SerialInv
<1>3. pc[p] = "open" /\ UNCHANGED <<cmdVars, op, arg, gpa, tfd, pos, buf, seen>>
  BY DEF OpenDb, cmdVars
<1>4. CASE op[p] = "a" /\ ~InRange(arg[p], gpa[p])
  <2>1. Say(p, "range")
    BY <1>4, Zenon DEF OpenDb
  <2>2. SerialInv(p)' /\ arg[p] \in Args /\ Store!Say(p, "range", arg[p])
    BY <1>2, <1>3, <2>1, SaysAnswer
  <2>3. gpa[p] \in Gpas
    BY <1>3, <1>4 DEF IInv, LocalInv
  <2>4. ~Store!InRange(arg[p], gpa[p])
    BY <1>4 DEF InRange, ValidIds, ValidGpas, Store!InRange, Store!ValidIds, Store!ValidGpas
  <2>5. Store!Add(p, arg[p], gpa[p])
    BY <1>2, <2>2, <2>4 DEF Store!Add
  <2> QED
    BY <2>2, <2>3, <2>5 DEF StoreStep, Store!Next, Store!Command
<1>5. CASE ~(op[p] = "a" /\ ~InRange(arg[p], gpa[p]))
  <2>1. UNCHANGED outVars
    BY <1>5, Zenon DEF OpenDb
  <2>2. op[p] \in Ops
    BY <1>3 DEF IInv, LocalInv
  <2>3. PICK l \in {"get", "scan", "tmp", "trunc"} :
           /\ pc' = [pc EXCEPT ![p] = l]
           /\ l = "scan" => op[p] \in {"c", "p"}
           /\ l = "tmp" => op[p] = "x"
           /\ l = "trunc" => op[p] = "z"
    BY <1>5, <2>2, OpsAssumption DEF OpenDb, Goto
  <2>4. /\ pc'[p] = l /\ fd'[p] = i /\ op'[p] = op[p] /\ arg'[p] = arg[p]
        /\ pos'[p] = 0 /\ seen'[p] = {}
    BY <1>1, <1>3, <2>3 DEF IInv, VarInv, SerialInv, ScanInv
  <2>5. OptionInv(p)'
    BY <2>3, <2>4 DEF SerialInv, OptionInv
  <2>6. DbInv(p)'
    BY <1>2, <2>3, <2>4 DEF DbInv
  <2>7. ScanInv(p)'
    <3>1. SeenBefore(node[fd[p]], pos[p])' = {}
      BY <2>4 DEF SeenBefore
    <3> QED
      BY <2>4, <3>1 DEF ScanInv
  <2>8. CopyInv(p)'
    BY <2>3, <2>4 DEF CopyInv
  <2>9. ResultInv(p)' /\ UNCHANGED <<result, out>>
    BY <1>3, <2>1, <2>3, <2>4, NoAnswer
  <2> QED
    BY <1>2, <2>5, <2>6, <2>7, <2>8, <2>9 DEF SerialInv, StoreStep
<1> QED
  BY <1>4, <1>5

LEMMA GetMap ==
    ASSUME IInv, NEW p, Procs = {p}, SerialInv(p), Get(p)
    PROVE  SerialInv(p)' /\ StoreStep
<1> DEFINE s == Slot(node[fd[p]], arg[p])
<1>1. /\ pc[p] = "get" /\ UNCHANGED <<fsVars, cmdVars, fileVars>>
      /\ op[p] \in {"a", "d", "f"} /\ arg[p] \in Args
      /\ op[p] = "a" => InRange(arg[p], gpa[p]) /\ gpa[p] \in Gpas
  BY Zenon DEF Get, IInv, LocalInv, VarInv
<1>2. UNCHANGED <<dir, node, op, arg, gpa, fd, tfd, pos, buf, seen>>
  BY <1>1 DEF fsVars, cmdVars, fileVars
<1>3. Live' = Live /\ NameInv'
  BY <1>2, LiveUnchanged DEF SerialInv, NameInv
<1>4. /\ fd[p] \in Inodes /\ fd[p] = dir[DB]
      /\ node[fd[p]] \in File /\ Live = Contents(node[fd[p]])
  BY <1>1, DbFile DEF HasDb
<1>5. arg[p] \in Int
  BY <1>1, ArgsAssumption
<1>6. ASSUME arg[p] >= 0 PROVE Store!At(arg[p]) = {s} \ {Empty}
  <2>1. arg[p] \in Nat
    BY <1>5, <1>6
  <2> QED
    BY <1>4, <2>1, AtFacts DEF Store!At
<1>7. op[p] = "a" => Store!InRange(arg[p], gpa[p])
  BY <1>1 DEF InRange, ValidIds, ValidGpas, Store!InRange, Store!ValidIds, Store!ValidGpas
<1> HIDE DEF s
<1>8. CASE Say(p, "error")
  BY <1>1, <1>3, <1>8, GiveUp
<1>9. CASE /\ arg[p] >= 0
           /\ \/ s = Empty /\ Say(p, "not found")
              \/ s # Empty /\ op[p] = "a" /\ Say(p, "duplicate")
  <2>1. CASE s = Empty /\ Say(p, "not found")
    <3>1. SerialInv(p)' /\ Store!Say(p, "not found", arg[p])
      BY <1>1, <1>3, <2>1, SaysAnswer
    <3>2. Store!Find(p, arg[p])
      BY <1>3, <1>6, <1>9, <2>1, <3>1 DEF Store!Find
    <3> QED
      BY <1>1, <3>1, <3>2 DEF StoreStep, Store!Next, Store!Command
  <2>2. CASE s # Empty /\ op[p] = "a" /\ Say(p, "duplicate")
    <3>1. SerialInv(p)' /\ Store!Say(p, "duplicate", arg[p])
      BY <1>1, <1>3, <2>2, SaysAnswer
    <3>2. Store!Add(p, arg[p], gpa[p])
      BY <1>3, <1>6, <1>7, <1>9, <2>2, <3>1 DEF Store!Add
    <3> QED
      BY <1>1, <2>2, <3>1, <3>2 DEF StoreStep, Store!Next, Store!Command
  <2> QED
    BY <1>9, <2>1, <2>2
<1>10. CASE arg[p] >= 0 /\ s # Empty /\ Done(p, Answer("found", arg[p], {s}, 0))
  <2>1. Answer("found", arg[p], {s}, 0) # Nothing
    BY NotNothing
  <2>2. Store!At(arg[p]) = {s}
    BY <1>6, <1>10
  <2>3. Store!Answer("found", arg[p], Store!At(arg[p]), 0) = Answer("found", arg[p], {s}, 0)
    BY <2>2 DEF Answer, Store!Answer
  <2>4. SerialInv(p)' /\ Store!Found(p, Answer("found", arg[p], {s}, 0))
    BY <1>1, <1>3, <1>10, <2>1, DoneSerial
  <2>5. Store!Find(p, arg[p])
    BY <1>3, <2>2, <2>3, <2>4 DEF Store!Find
  <2> QED
    BY <1>1, <2>4, <2>5 DEF StoreStep, Store!Next, Store!Command
<1>11. CASE /\ arg[p] >= 0 /\ Goto(p, "put") /\ UNCHANGED outVars
            /\ (op[p] = "a" /\ s = Empty) \/ (op[p] = "d" /\ s # Empty)
  <2>1. pc' = [pc EXCEPT ![p] = "put"]
    BY <1>11 DEF Goto
  <2>2. pc'[p] = "put" /\ pos'[p] = 0 /\ seen'[p] = {}
    BY <1>1, <1>2, <2>1 DEF IInv, VarInv, SerialInv, ScanInv
  <2>3. OptionInv(p)' /\ ScanInv(p)' /\ CopyInv(p)'
    BY <1>2, <1>11, <2>2 DEF SerialInv, OptionInv, ScanInv, CopyInv
  <2>4. DbInv(p)'
    BY <1>2, <1>4, <1>11, <2>2 DEF DbInv, s
  <2>5. ResultInv(p)' /\ UNCHANGED <<result, out>>
    BY <1>1, <1>11, <2>2, NoAnswer
  <2> QED
    BY <1>3, <2>3, <2>4, <2>5 DEF SerialInv, StoreStep
<1>12. \/ arg[p] < 0 /\ Say(p, "error")
       \/ arg[p] >= 0 /\ s = Empty /\ op[p] # "a" /\ Say(p, "not found")
       \/ arg[p] >= 0 /\ s # Empty /\ op[p] = "a" /\ Say(p, "duplicate")
       \/ arg[p] >= 0 /\ s # Empty /\ Done(p, Answer("found", arg[p], {s}, 0))
       \/ /\ arg[p] >= 0 /\ Goto(p, "put") /\ UNCHANGED outVars
          /\ (op[p] = "a" /\ s = Empty) \/ (op[p] = "d" /\ s # Empty)
  BY GetCases, Zenon DEF s
<1> QED
  BY <1>8, <1>9, <1>10, <1>11, <1>12, Zenon

LEMMA PutMap ==
    ASSUME IInv, NEW p, Procs = {p}, SerialInv(p), Put(p)
    PROVE  SerialInv(p)' /\ StoreStep
<1> DEFINE r == IF op[p] = "a" THEN [id |-> arg[p], gpa |-> gpa[p]] ELSE Empty
           f == node[fd[p]]
<1>1. /\ pc[p] = "put" /\ UNCHANGED <<dir, cmdVars>>
      /\ node' = [node EXCEPT ![fd[p]] = Write(f, arg[p], r)]
      /\ Say(p, IF op[p] = "a" THEN "added" ELSE "deleted")
  BY DEF Put
<1>2. /\ fd[p] \in Inodes /\ fd[p] = dir[DB] /\ dir[DB] # None
      /\ f \in File /\ Live = Contents(f)
  BY <1>1, DbFile DEF HasDb
<1>3. NameInv'
  BY <1>1 DEF SerialInv, NameInv
<1>4. /\ arg[p] \in 0..MaxId /\ arg[p] \in Nat /\ arg[p] \in Args
      /\ op[p] = "a" => /\ arg[p] \in ValidIds /\ gpa[p] \in ValidGpas
                        /\ gpa[p] \in Gpas
  BY <1>1, MaxIdAssumption DEF IInv, VarInv, LocalInv, InRange
<1>5. r \in Records /\ r.id \in {0, arg[p]} /\ (op[p] = "a" => r # Empty)
  BY <1>4, EmptyFacts DEF Records
<1>6. Live' = Contents(Write(f, arg[p], r))
  <2>1. node'[fd[p]] = Write(f, arg[p], r)
    BY <1>1, <1>2 DEF IInv, FileInv
  <2> QED
    BY <1>1, <1>2, <2>1 DEF Live
<1>7. \A s : s \in Live' <=> s # Empty /\ (s = r \/ (s \in Live /\ s # Slot(f, arg[p])))
  BY <1>2, <1>4, <1>5, <1>6, WriteContents
<1>8. Store!At(arg[p]) = {Slot(f, arg[p])} \ {Empty}
  BY <1>2, <1>4, AtFacts DEF Store!At
<1>9. Empty \notin Live
  BY <1>2 DEF Contents
<1>10. CASE op[p] = "a"
  <2>1. Slot(f, arg[p]) = Empty
    BY <1>1, <1>10 DEF SerialInv, DbInv
  <2>2. Live' = Live \cup {[id |-> arg[p], gpa |-> gpa[p]]}
    BY <1>5, <1>7, <1>9, <1>10, <2>1
  <2>3. SerialInv(p)' /\ Store!Say(p, "added", arg[p])
    BY <1>1, <1>3, <1>10, SaysAnswer
  <2>4. Store!InRange(arg[p], gpa[p])
    BY <1>4, <1>10
       DEF ValidIds, ValidGpas, Store!InRange, Store!ValidIds, Store!ValidGpas
  <2>5. Store!Add(p, arg[p], gpa[p])
    BY <1>8, <2>1, <2>2, <2>3, <2>4 DEF Store!Add
  <2> QED
    BY <1>4, <1>10, <2>3, <2>5 DEF StoreStep, Store!Next, Store!Command
<1>11. CASE op[p] # "a"
  <2>1. op[p] = "d" /\ Slot(f, arg[p]) # Empty
    BY <1>1, <1>11 DEF SerialInv, OptionInv, DbInv
  <2>2. Live' = Live \ Store!At(arg[p])
    BY <1>7, <1>8, <1>9, <1>11, <2>1
  <2>3. SerialInv(p)' /\ Store!Say(p, "deleted", arg[p])
    BY <1>1, <1>3, <1>11, SaysAnswer
  <2>4. Store!Delete(p, arg[p])
    BY <1>8, <2>1, <2>2, <2>3 DEF Store!Delete
  <2> QED
    BY <1>4, <2>3, <2>4 DEF StoreStep, Store!Next, Store!Command
<1> QED
  BY <1>10, <1>11

LEMMA ScanStepMap ==
    ASSUME IInv, NEW p, Procs = {p}, SerialInv(p), ScanStep(p)
    PROVE  SerialInv(p)' /\ StoreStep
<1> DEFINE f == node[fd[p]]
           k == pos[p]
<1>1. /\ pc[p] = "scan"
      /\ pos' = [pos EXCEPT ![p] = k + 1]
      /\ seen' = [seen EXCEPT ![p] = seen[p] \cup ({Slot(f, k)} \ {Empty})]
      /\ UNCHANGED <<dir, node, pc, op, arg, fd, tfd, outVars>>
  BY DEF ScanStep, fsVars, cmdVars
<1>2. k \in Nat /\ pos'[p] = k + 1 /\ seen'[p] = seen[p] \cup ({Slot(f, k)} \ {Empty})
  BY <1>1, MaxIdAssumption DEF IInv, VarInv
<1>3. seen[p] = SeenBefore(f, k)
  BY <1>1 DEF SerialInv, ScanInv
<1>4. SeenBefore(f, k + 1) = SeenBefore(f, k) \cup ({Slot(f, k)} \ {Empty})
  <2>1. 0..((k + 1) - 1) = (0..(k - 1)) \cup {k}
    BY <1>2
  <2> HIDE DEF f, k
  <2> QED
    BY <2>1 DEF SeenBefore
<1>5. ScanInv(p)'
  BY <1>1, <1>2, <1>3, <1>4 DEF ScanInv
<1>6. NameInv' /\ OptionInv(p)' /\ DbInv(p)' /\ CopyInv(p)'
  BY <1>1 DEF SerialInv, NameInv, OptionInv, DbInv, CopyInv
<1>7. ResultInv(p)' /\ UNCHANGED <<result, out>>
  BY <1>1, NoAnswer
<1> QED
  BY <1>1, <1>5, <1>6, <1>7, LiveUnchanged DEF SerialInv, StoreStep

LEMMA ScanEndMap ==
    ASSUME IInv, NEW p, Procs = {p}, SerialInv(p), ScanEnd(p)
    PROVE  SerialInv(p)' /\ StoreStep
<1> DEFINE f == node[fd[p]]
           k == pos[p]
           a == IF op[p] = "c" THEN Answer("count", 0, {}, Cardinality(seen[p]))
                               ELSE Answer("print", 0, seen[p], 0)
<1>1. pc[p] = "scan" /\ k >= Len(f) /\ Done(p, a) /\ UNCHANGED <<dir, node, cmdVars>>
  BY DEF ScanEnd, fsVars
<1>2. /\ f \in File /\ Live = Contents(f) /\ Len(f) \in Nat /\ k \in Nat
      /\ seen[p] = SeenBefore(f, k)
  BY <1>1, DbFile, MaxIdAssumption DEF HasDb, File, IInv, VarInv, SerialInv, ScanInv
<1>3. seen[p] = Live
  <2>1. ASSUME NEW s \in seen[p] PROVE s \in Live
    BY <1>2, <2>1, ContentsFacts DEF SeenBefore
  <2>2. ASSUME NEW s \in Live PROVE s \in seen[p]
    <3>1. PICK j \in Nat : s = Slot(f, j) /\ s # Empty
      BY <1>2, ContentsFacts
    <3>2. j < Len(f)
      BY <3>1 DEF Slot
    <3>3. j \in 0..(k - 1)
      BY <1>1, <1>2, <3>2
    <3> QED
      BY <1>2, <3>1, <3>3 DEF SeenBefore
  <2> QED
    BY <2>1, <2>2
<1>4. Live' = Live /\ NameInv'
  BY <1>1, LiveUnchanged DEF SerialInv, NameInv
<1>5. a # Nothing
  BY NotNothing
<1> HIDE DEF a
<1>6. SerialInv(p)' /\ Store!Found(p, a)
  BY <1>1, <1>4, <1>5, DoneSerial
<1>7. Store!Count(p) \/ Store!PrintAll(p)
  <2>1. CASE op[p] = "c"
    <3>1. a = Store!Answer("count", 0, {}, Cardinality(Live))
      BY <1>3, <2>1 DEF a, Store!Answer, Answer
    <3>2. Cardinality(Live) = Store!Cardinality(Live)
      BY DEF Cardinality, Store!Cardinality
    <3>3. Store!Count(p)
      BY <1>4, <1>6, <3>1, <3>2 DEF Store!Count
    <3> QED
      BY <3>3
  <2>2. CASE op[p] # "c"
    <3>1. a = Store!Answer("print", 0, Live, 0)
      BY <1>3, <2>2 DEF a, Store!Answer, Answer
    <3> QED
      BY <1>4, <1>6, <3>1 DEF Store!PrintAll
  <2> QED
    BY <2>1, <2>2
<1> QED
  BY <1>6, <1>7 DEF StoreStep, Store!Next, Store!Command

LEMMA OpenTmpMap ==
    ASSUME IInv, NEW p, Procs = {p}, SerialInv(p), OpenTmp(p)
    PROVE  SerialInv(p)' /\ StoreStep
<1>1. PICK i \in Inodes : OpenFile(TMP, i, TRUE) /\ tfd' = [tfd EXCEPT ![p] = i]
  BY DEF OpenTmp, TmpTruncates
<1>2. /\ pc[p] = "tmp" /\ pc' = [pc EXCEPT ![p] = "copy"]
      /\ UNCHANGED <<op, arg, gpa, fd, pos, buf, seen, outVars>>
  BY DEF OpenTmp, Goto, cmdVars
<1>3. /\ Live' = Live /\ NameInv' /\ dir'[TMP] = i /\ dir'[DB] = dir[DB]
      /\ node'[i] = <<>>
  BY <1>1, OpenTmpFile DEF SerialInv
<1>4. pc'[p] = "copy" /\ tfd'[p] = i /\ fd'[p] = dir[DB] /\ pos'[p] = 0
  BY <1>1, <1>2 DEF IInv, VarInv, SerialInv, DbInv, ScanInv, HasDb
<1>5. OptionInv(p)' /\ DbInv(p)' /\ ScanInv(p)'
  BY <1>2, <1>3, <1>4 DEF SerialInv, OptionInv, DbInv, ScanInv
<1>6. CopyInv(p)'
  <2>1. ASSUME NEW f PROVE Copied(f, <<>>, 0)
    BY DEF Copied, Slot
  <2>2. Copied(node[fd[p]], node[tfd[p]], pos[p])'
    BY <1>3, <1>4, <2>1
  <2> QED
    BY <1>3, <1>4, <2>2 DEF CopyInv
<1>7. ResultInv(p)' /\ UNCHANGED <<result, out>>
  BY <1>2, <1>4, NoAnswer
<1> QED
  BY <1>3, <1>5, <1>6, <1>7 DEF SerialInv, StoreStep

LEMMA CopyReadMap ==
    ASSUME IInv, NEW p, Procs = {p}, SerialInv(p), CopyRead(p)
    PROVE  SerialInv(p)' /\ StoreStep
<1> DEFINE f == node[fd[p]]
           g == node[tfd[p]]
           k == pos[p]
           s == Slot(f, k)
<1>1. /\ pc[p] = "copy"
      /\ \/ s = Empty /\ UNCHANGED <<pc, buf>>
         \/ s # Empty /\ pc' = [pc EXCEPT ![p] = "copyto"] /\ buf' = [buf EXCEPT ![p] = s]
      /\ pos' = [pos EXCEPT ![p] = k + 1]
      /\ UNCHANGED <<dir, node, op, arg, fd, tfd, seen, outVars>>
  BY DEF CopyRead, Goto, fsVars, cmdVars
<1>2. k \in Nat /\ pos'[p] = k + 1 /\ Copied(f, g, k)
  BY <1>1, MaxIdAssumption DEF IInv, VarInv, SerialInv, CopyInv
<1>3. (k + 1) - 1 = k /\ k + 1 > 0
  BY <1>2
<1>4. CopyInv(p)'
  <2>1. CASE s = Empty
    <3>1. Copied(f, g, k + 1)
      BY <1>2, <2>1 DEF Copied
    <3> QED
      BY <1>1, <1>2, <2>1, <3>1 DEF SerialInv, CopyInv
  <2>2. CASE s # Empty
    <3>1. pc'[p] = "copyto" /\ buf'[p] = s
      BY <1>1, <2>2 DEF IInv, VarInv
    <3> QED
      BY <1>1, <1>2, <1>3, <3>1 DEF SerialInv, CopyInv
  <2> QED
    BY <2>1, <2>2
<1>5. pc'[p] \in {"copy", "copyto"}
  BY <1>1 DEF IInv, VarInv
<1>6. NameInv' /\ OptionInv(p)' /\ DbInv(p)' /\ ScanInv(p)'
  BY <1>1, <1>5 DEF SerialInv, NameInv, OptionInv, DbInv, ScanInv, HasDb
<1>7. ResultInv(p)' /\ UNCHANGED <<result, out>>
  BY <1>1, <1>5, NoAnswer
<1> QED
  BY <1>1, <1>4, <1>6, <1>7, LiveUnchanged DEF SerialInv, StoreStep

LEMMA CopyWriteMap ==
    ASSUME IInv, NEW p, Procs = {p}, SerialInv(p), CopyWrite(p)
    PROVE  SerialInv(p)' /\ StoreStep
<1> DEFINE f == node[fd[p]]
           g == node[tfd[p]]
           k == pos[p] - 1
           w == Write(g, buf[p].id, buf[p])
<1>1. /\ node' = [node EXCEPT ![tfd[p]] = w]
      /\ pc[p] = "copyto" /\ pc' = [pc EXCEPT ![p] = "copy"]
      /\ UNCHANGED <<dir, op, arg, fd, tfd, pos, buf, seen, outVars>>
  BY DEF CopyWrite, CopySlot, Goto, cmdVars, fileVars
<1>2. /\ fd[p] \in Inodes /\ fd[p] = dir[DB] /\ dir[DB] # None
      /\ f \in File /\ Live = Contents(f)
  BY <1>1, DbFile DEF HasDb
<1>3. /\ tfd[p] \in Inodes /\ tfd[p] = dir[TMP] /\ g \in File /\ buf[p] \in Students
      /\ pos[p] \in Nat /\ pos[p] > 0 /\ buf[p] = Slot(f, k) /\ Copied(f, g, k)
  BY <1>1, MaxIdAssumption DEF IInv, VarInv, FileInv, LocalInv, SerialInv, CopyInv
<1>4. tfd[p] # fd[p]
  BY <1>2, <1>3 DEF SerialInv, NameInv
<1>5. node'[fd[p]] = f /\ node'[tfd[p]] = w
  BY <1>1, <1>2, <1>3, <1>4 DEF IInv, FileInv
<1>6. k \in Nat /\ buf[p].id = k /\ k + 1 = pos[p]
  <2>1. k \in Nat /\ k + 1 = pos[p]
    BY <1>3
  <2>2. Slot(f, k).id \in {0, k}
    BY <1>2, <2>1, SlotFacts
  <2> QED
    BY <1>3, <2>1, <2>2, EmptyFacts
<1>7. Copied(f, w, pos[p])
  <2>1. \A j \in Nat : Slot(w, j) = IF j = k THEN Slot(f, k) ELSE Slot(g, j)
    BY <1>3, <1>6, WriteSlot
  <2>2. \A j \in Nat : Slot(g, j) = IF j < k THEN Slot(f, j) ELSE Empty
    BY <1>3 DEF Copied
  <2> HIDE DEF f, g, w, k
  <2>3. \A j \in Nat : Slot(w, j) = IF j < pos[p] THEN Slot(f, j) ELSE Empty
    BY <1>3, <1>6, <2>1, <2>2
  <2> QED
    BY <2>3 DEF Copied
<1>8. Live' = Live
  BY <1>1, <1>2, <1>5 DEF Live
<1>9. pc'[p] = "copy"
  BY <1>1 DEF IInv, VarInv
<1>10. CopyInv(p)'
  BY <1>1, <1>3, <1>5, <1>7, <1>9 DEF CopyInv
<1>11. NameInv' /\ OptionInv(p)' /\ DbInv(p)' /\ ScanInv(p)'
  BY <1>1, <1>2, <1>9 DEF SerialInv, NameInv, OptionInv, DbInv, ScanInv
<1>12. ResultInv(p)' /\ UNCHANGED <<result, out>>
  BY <1>1, <1>9, NoAnswer
<1> QED
  BY <1>8, <1>10, <1>11, <1>12 DEF SerialInv, StoreStep

LEMMA CopyEndMap ==
    ASSUME IInv, NEW p, Procs = {p}, SerialInv(p), CopyEnd(p)
    PROVE  SerialInv(p)' /\ StoreStep
<1> DEFINE f == node[fd[p]]
           g == node[tfd[p]]
           k == pos[p]
<1>1. /\ pc[p] = "copy" /\ k >= Len(f) /\ pc' = [pc EXCEPT ![p] = "rename"]
      /\ UNCHANGED <<dir, node, op, arg, pos, buf, seen, outVars>>
  BY DEF CopyEnd, Goto, cmdVars
<1>2. /\ fd[p] \in Inodes /\ fd[p] = dir[DB] /\ f \in File /\ Len(f) \in Nat
      /\ tfd[p] \in Inodes /\ tfd[p] = dir[TMP] /\ k \in Nat /\ Copied(f, g, k)
  BY <1>1, DbFile, MaxIdAssumption
     DEF HasDb, File, IInv, VarInv, LocalInv, SerialInv, CopyInv
<1>3. \A j \in Nat : Slot(g, j) = Slot(f, j)
  <2>1. ASSUME NEW j \in Nat PROVE Slot(g, j) = Slot(f, j)
    <3>1. j < k \/ ~(j < Len(f))
      BY <1>1, <1>2
    <3> QED
      BY <1>2, <3>1 DEF Copied, Slot
  <2> QED
    BY <2>1
<1>4. pc'[p] = "rename"
  BY <1>1 DEF IInv, VarInv
<1>5. CopyInv(p)'
  BY <1>1, <1>2, <1>3, <1>4 DEF CopyInv
<1>6. NameInv' /\ OptionInv(p)' /\ DbInv(p)' /\ ScanInv(p)'
  BY <1>1, <1>4 DEF SerialInv, NameInv, OptionInv, DbInv, ScanInv, HasDb
<1>7. ResultInv(p)' /\ UNCHANGED <<result, out>>
  BY <1>1, <1>4, NoAnswer
<1> QED
  BY <1>1, <1>5, <1>6, <1>7, LiveUnchanged DEF SerialInv, StoreStep

(* rename puts a file with the same students in the place of the database. *)
LEMMA RenameMap ==
    ASSUME IInv, NEW p, Procs = {p}, SerialInv(p), Rename(p)
    PROVE  SerialInv(p)' /\ StoreStep
<1>1. /\ pc[p] = "rename" /\ dir[DB] \in Inodes /\ dir[TMP] \in Inodes
      /\ dir[DB] # None /\ dir[TMP] # None
      /\ \A j \in Nat : Slot(node[dir[TMP]], j) = Slot(node[dir[DB]], j)
  BY NoneAssumption DEF Rename, SerialInv, CopyInv
<1>2. /\ dir' = [dir EXCEPT ![DB] = dir[TMP], ![TMP] = None]
      /\ pc' = [pc EXCEPT ![p] = "reopen"]
      /\ UNCHANGED <<node, op, arg, fd, tfd, pos, buf, seen, outVars>>
  BY <1>1 DEF Rename, Goto, cmdVars, fileVars
<1>3. dir'[DB] = dir[TMP] /\ dir'[TMP] = None /\ pc'[p] = "reopen"
  BY <1>2 DEF IInv, VarInv, Files, DB, TMP
<1>4. Contents(node[dir[DB]]) = Contents(node[dir[TMP]])
  BY <1>1, SameSlots DEF IInv, FileInv
<1>5. Live' = Live
  BY <1>1, <1>2, <1>3, <1>4 DEF Live
<1>6. NameInv' /\ OptionInv(p)' /\ DbInv(p)' /\ ScanInv(p)' /\ CopyInv(p)'
  BY <1>1, <1>2, <1>3 DEF SerialInv, NameInv, OptionInv, DbInv, ScanInv, CopyInv, HasDb
<1>7. ResultInv(p)' /\ UNCHANGED <<result, out>>
  BY <1>1, <1>2, <1>3, NoAnswer
<1> QED
  BY <1>5, <1>6, <1>7 DEF SerialInv, StoreStep

LEMMA ReopenMap ==
    ASSUME IInv, NEW p, Procs = {p}, SerialInv(p), Reopen(p)
    PROVE  SerialInv(p)' /\ StoreStep
<1>1. /\ pc[p] = "reopen" /\ UNCHANGED <<dir, node, cmdVars>>
      /\ Say(p, "compressed") \/ Say(p, "error")
  BY DEF Reopen, fsVars
<1>2. Live' = Live /\ NameInv'
  BY <1>1, LiveUnchanged DEF SerialInv, NameInv
<1>3. CASE Say(p, "error")
  BY <1>1, <1>2, <1>3, GiveUp
<1>4. CASE Say(p, "compressed")
  <2>1. SerialInv(p)' /\ Store!Say(p, "compressed", arg[p])
    BY <1>1, <1>2, <1>4, SaysAnswer
  <2>2. arg[p] = 0
    BY <1>1 DEF SerialInv, OptionInv
  <2>3. Store!Compress(p)
    BY <1>2, <2>1, <2>2 DEF Store!Compress
  <2> QED
    BY <2>1, <2>3 DEF StoreStep, Store!Next, Store!Command
<1> QED
  BY <1>1, <1>3, <1>4

LEMMA TruncMap ==
    ASSUME IInv, NEW p, Procs = {p}, SerialInv(p), Trunc(p)
    PROVE  SerialInv(p)' /\ StoreStep
<1>1. PICK i \in Inodes : OpenFile(DB, i, TRUE)
  BY DEF Trunc
<1>2. pc[p] = "trunc" /\ Say(p, "zeroed") /\ UNCHANGED cmdVars
  BY DEF Trunc
<1>3. Live' = {} /\ NameInv'
  BY <1>1, TruncDbFile DEF SerialInv
<1>4. SerialInv(p)' /\ Store!Say(p, "zeroed", arg[p])
  BY <1>2, <1>3, SaysAnswer
<1>5. arg[p] = 0
  BY <1>2 DEF SerialInv, OptionInv
<1>6. Store!Zero(p)
  BY <1>3, <1>4, <1>5 DEF Store!Zero
<1> QED
  BY <1>4, <1>6 DEF StoreStep, Store!Next, Store!Command

LEMMA IoErrorMap ==
    ASSUME IInv, NEW p, Procs = {p}, SerialInv(p), IoError(p)
    PROVE  SerialInv(p)' /\ StoreStep
<1>1. /\ pc[p] \notin {"idle", "exit"} /\ UNCHANGED <<dir, node, cmdVars>>
      /\ Say(p, "error")
  BY DEF IoError, fsVars
<1>2. Live' = Live /\ NameInv'
  BY <1>1, LiveUnchanged DEF SerialInv, NameInv
<1> QED
  BY <1>1, <1>2, GiveUp

(* The process exits with its answer, or is killed, before or after its effect:
   the students stay what they are. *)
LEMMA LeaveMap ==
    ASSUME IInv, NEW p, Procs = {p}, SerialInv(p), Exit(p) \/ Kill(p)
    PROVE  SerialInv(p)' /\ StoreStep
<1>1. CASE Exit(p)
  <2>1. pc[p] = "exit" /\ Leave(p, result[p])
    BY <1>1 DEF Exit
  <2>2. result[p] # Store!Nothing
    BY <2>1 DEF SerialInv, ResultInv, Store!Nothing, Store!Answer, Nothing, Answer
  <2>3. SerialInv(p)' /\ Store!Leave(p, result[p])
    BY <2>1, LeaveSerial
  <2>4. Store!Give(p)
    BY <2>2, <2>3 DEF Store!Give
  <2> QED
    BY <2>3, <2>4 DEF StoreStep, Store!Next
<1>2. CASE Kill(p)
  <2>1. Leave(p, Answer("killed", 0, {}, 0))
    BY <1>2 DEF Kill
  <2>2. SerialInv(p)' /\ Store!Leave(p, Answer("killed", 0, {}, 0))
    BY <2>1, LeaveSerial
  <2>3. Store!Killed(p)
    BY <2>2 DEF Store!Killed, Store!Answer, Answer
  <2> QED
    BY <2>2, <2>3 DEF StoreStep, Store!Next
<1> QED
  BY <1>1, <1>2

LEMMA SerialInit == ASSUME NEW p, Procs = {p}, Init PROVE SerialInv(p) /\ Store!Init
<1>1. Live = {}
  BY DEF Init, Live, Files
<1>2. Store!Init
  BY <1>1 DEF Init, Store!Init, Store!Nothing, Store!Answer, Nothing, Answer
<1>3. DOMAIN result = Procs /\ result[p] = Nothing
  BY DEF Init
<1>4. /\ dir[DB] = None /\ pc[p] = "idle" /\ arg[p] = 0 /\ pos[p] = 0 /\ seen[p] = {}
  BY DEF Init, Files
<1> QED
  BY <1>2, <1>3, <1>4
     DEF SerialInv, NameInv, OptionInv, DbInv, ScanInv, CopyInv, ResultInv, HasDb

LEMMA SerialStep ==
    ASSUME IInv, NEW p, Procs = {p}, SerialInv(p), [Next]_vars
    PROVE  SerialInv(p)' /\ StoreStep
<1>1. CASE UNCHANGED vars
  <2>1. UNCHANGED <<dir, node, pc, op, arg, fd, tfd, pos, buf, seen, result, out>>
    BY <1>1 DEF vars, fsVars, cmdVars, fileVars, outVars
  <2>2. SerialInv(p)'
    BY <2>1 DEF SerialInv, NameInv, OptionInv, DbInv, ScanInv, CopyInv, ResultInv, Nothing,
       Answer
  <2> QED
    BY <2>1, <2>2, LiveUnchanged DEF StoreStep
<1>2. CASE Next
  <2>1. Step(p)
    BY <1>2 DEF Next
  <2> QED
    BY <2>1, StartMap, OpenDbMap, GetMap, PutMap, ScanStepMap, ScanEndMap, OpenTmpMap,
       CopyReadMap, CopyWriteMap, CopyEndMap, RenameMap, ReopenMap, TruncMap, IoErrorMap,
       LeaveMap DEF Step
<1> QED
  BY <1>1, <1>2

(* One process at a time, with errors at any of its calls and kills before, between
   and after them: what it does to its files is what StudentStore says of a set of
   students, where a killed command has either done all it does or nothing. *)
THEOREM ActsAsStore ==
    ASSUME NEW p, Procs = {p} PROVE Spec => ImplementsStore
<1>1. Init => IInv /\ SerialInv(p) /\ Store!Init
  BY InvInit, SerialInit
<1>2. IInv /\ SerialInv(p) /\ [Next]_vars
         => IInv' /\ SerialInv(p)' /\ [Store!Next]_<<Live, result, out>>
  BY InvStep, SerialStep DEF StoreStep
<1> QED
  BY <1>1, <1>2, PTL DEF Spec, ImplementsStore, Store!Spec

-----------------------------------------------------------------------------
(* Power losses. *)

(* What the names on the disk denote: never the temporary file a run may write. *)
DirInv ==
    /\ ddir[DB] = ddir[TMP] => ddir[DB] = None
    /\ ddir[DB] = dir[TMP] => dir[TMP] = None
SyncInv(p) == pc[p] = "rename" => synced[dir[TMP]] = node[dir[TMP]]

(* The safe students are in the database, and in every version of it that the
   disk may hold once more has been written back. *)
SafeInv ==
    /\ safe \subseteq Live
    /\ dir[DB] # None => safe \subseteq Contents(synced[dir[DB]])
    /\ safe \subseteq OnDisk
    /\ ddir[DB] # None => safe \subseteq Contents(node[ddir[DB]])
DiskInv(p) == DirInv /\ SyncInv(p) /\ SafeInv

(* What a step has to leave on the disk for the students that stay safe. *)
LEMMA SafeKept ==
    ASSUME Remember,
           dir'[DB] # None => safe \cap Live' \subseteq Contents(synced'[dir'[DB]]),
           ddir'[DB] # dir'[DB] =>
              /\ safe \cap Live' \subseteq OnDisk'
              /\ ddir'[DB] # None => safe \cap Live' \subseteq Contents(node'[ddir'[DB]])
    PROVE  SafeInv'
<1>1. /\ safe' \subseteq Live'
      /\ ddir'[DB] # dir'[DB] => safe' \subseteq safe \cap Live'
      /\ ddir'[DB] = dir'[DB] => safe' \subseteq (safe \cap Live') \cup OnDisk'
  BY DEF Remember
<1>2. CASE ddir'[DB] = dir'[DB]
  <2>1. CASE dir'[DB] = None
    <3>1. Live' = {}
      BY <2>1 DEF Live
    <3> QED
      BY <1>1, <1>2, <2>1, <3>1 DEF SafeInv
  <2>2. CASE dir'[DB] # None
    <3>1. OnDisk' = Contents(synced'[dir'[DB]]) /\ Live' = Contents(node'[dir'[DB]])
      BY <1>2, <2>2 DEF OnDisk, Live
    <3>2. safe' \subseteq OnDisk' /\ safe' \subseteq Live'
      BY <1>1, <1>2, <2>2, <3>1
    <3> QED
      BY <1>2, <2>2, <3>1, <3>2 DEF SafeInv
  <2> QED
    BY <2>1, <2>2
<1>3. CASE ddir'[DB] # dir'[DB]
  <2>1. safe' \subseteq safe \cap Live'
    BY <1>1, <1>3
  <2> QED
    BY <1>1, <1>3, <2>1 DEF SafeInv
<1> QED
  BY <1>2, <1>3

(* Steps that leave the names alone, and the files the database may be in. *)
LEMMA OtherFiles ==
    ASSUME SafeInv, Remember, UNCHANGED <<dir, ddir>>,
           dir[DB] # None => synced'[dir[DB]] = synced[dir[DB]],
           ddir[DB] # None /\ ddir[DB] # dir[DB] =>
              synced'[ddir[DB]] = synced[ddir[DB]] /\ node'[ddir[DB]] = node[ddir[DB]]
    PROVE  SafeInv'
<1>1. ddir[DB] # dir[DB] => OnDisk' = OnDisk
  BY DEF OnDisk
<1> QED
  BY <1>1, SafeKept DEF SafeInv

-----------------------------------------------------------------------------
(* The steps of the program. *)

LEMMA QuietDisk ==
    ASSUME IInv, NEW p, Procs = {p}, DiskInv(p), Remember, UNCHANGED fsVars,
           pc'[p] # "rename" \/ pc'[p] = pc[p]
    PROVE  DiskInv(p)'
<1>1. UNCHANGED <<dir, node, ddir, synced>>
  BY DEF fsVars
<1>2. SafeInv'
  BY <1>1, OtherFiles DEF DiskInv
<1> QED
  BY <1>1, <1>2 DEF DiskInv, DirInv, SyncInv

LEMMA OpenDbDisk ==
    ASSUME IInv, NEW p, Procs = {p}, DiskInv(p), "power" \in Faults, Remember,
           NEW i \in Inodes, NEW t \in BOOLEAN, OpenFile(DB, i, t), pc'[p] # "rename"
    PROVE  DiskInv(p)'
<1>1. /\ dir \in [Files -> Inodes \cup {None}] /\ ddir \in [Files -> Inodes \cup {None}]
      /\ node \in [Inodes -> File] /\ synced \in [Inodes -> File]
  BY DEF IInv, VarInv, FileInv
<1> DEFINE e == <<>>
<1>2. CASE dir[DB] = None
  <2>1. /\ i \in Unused /\ dir' = [dir EXCEPT ![DB] = i] /\ UNCHANGED ddir
        /\ node' = [node EXCEPT ![i] = e] /\ synced' = [synced EXCEPT ![i] = e]
    BY <1>2 DEF OpenFile
  <2> HIDE DEF e
  <2>2. dir[TMP] # i /\ ddir[DB] # i
    BY <2>1 DEF Unused, Files
  <2>3. dir'[DB] = i /\ dir'[TMP] = dir[TMP]
    BY <1>1, <2>1 DEF Files, DB, TMP
  <2>4. safe = {}
    BY <1>2 DEF DiskInv, SafeInv, Live
  <2>5. SafeInv'
    BY <2>4, SafeKept
  <2> QED
    BY <2>1, <2>3, <2>5 DEF DiskInv, DirInv, SyncInv
<1>3. CASE dir[DB] # None
  <2>1. i = dir[DB] /\ UNCHANGED <<dir, ddir, synced>>
    BY <1>3 DEF OpenFile
  <2>2. node' = node \/ node' = [node EXCEPT ![i] = e]
    BY <1>3 DEF OpenFile
  <2>3. ddir[DB] # None /\ ddir[DB] # dir[DB] => node'[ddir[DB]] = node[ddir[DB]]
    BY <1>1, <2>1, <2>2 DEF Files
  <2>4. SafeInv'
    BY <2>1, <2>3, OtherFiles DEF DiskInv
  <2> QED
    BY <2>1, <2>4 DEF DiskInv, DirInv, SyncInv
<1> QED
  BY <1>2, <1>3

LEMMA PutDisk ==
    ASSUME IInv, NEW p, Procs = {p}, SerialInv(p), DiskInv(p), Remember, Put(p)
    PROVE  DiskInv(p)'
<1>1. /\ pc[p] = "put" /\ UNCHANGED <<dir, ddir, synced>>
      /\ \E r : node' = [node EXCEPT ![fd[p]] = r]
      /\ Goto(p, "exit")
  BY DEF Put, Say, Done
<1>2. fd[p] = dir[DB] /\ ddir \in [Files -> Inodes \cup {None}] /\ node \in [Inodes -> File]
  BY <1>1, DbFile DEF HasDb, IInv, VarInv, FileInv
<1>3. pc'[p] = "exit"
  BY <1>1 DEF Goto, IInv, VarInv
<1>4. ddir[DB] # None /\ ddir[DB] # dir[DB] => node'[ddir[DB]] = node[ddir[DB]]
  BY <1>1, <1>2 DEF Files
<1>5. SafeInv'
  BY <1>1, <1>4, OtherFiles DEF DiskInv
<1> QED
  BY <1>1, <1>3, <1>5 DEF DiskInv, DirInv, SyncInv

(* Only the temporary file is written, or its copy on the disk. *)
LEMMA TmpDisk ==
    ASSUME IInv, NEW p, Procs = {p}, SerialInv(p), DiskInv(p), Remember, UNCHANGED <<dir, ddir>>,
           NEW i, i = dir[TMP], i # None,
           \E r : node' = [node EXCEPT ![i] = r],
           synced' = synced \/ \E r : synced' = [synced EXCEPT ![i] = r]
    PROVE  SafeInv'
<1>1. /\ dir \in [Files -> Inodes \cup {None}] /\ ddir \in [Files -> Inodes \cup {None}]
      /\ node \in [Inodes -> File] /\ synced \in [Inodes -> File]
  BY DEF IInv, VarInv, FileInv
<1>2. i # dir[DB] /\ i # ddir[DB]
  BY DEF SerialInv, NameInv, DiskInv, DirInv
<1>3. /\ dir[DB] # None => synced'[dir[DB]] = synced[dir[DB]]
      /\ ddir[DB] # None => synced'[ddir[DB]] = synced[ddir[DB]] /\ node'[ddir[DB]] = node[ddir[DB]]
  BY <1>1, <1>2 DEF Files
<1> QED
  BY <1>3, OtherFiles DEF DiskInv

LEMMA OpenTmpDisk ==
    ASSUME IInv, NEW p, Procs = {p}, SerialInv(p), DiskInv(p), "power" \in Faults, Remember,
           OpenTmp(p)
    PROVE  DiskInv(p)'
<1>1. PICK i \in Inodes : OpenFile(TMP, i, TRUE)
  BY DEF OpenTmp, TmpTruncates
<1>2. pc'[p] = "copy"
  BY DEF OpenTmp, Goto, IInv, VarInv
<1>3. /\ dir \in [Files -> Inodes \cup {None}] /\ ddir \in [Files -> Inodes \cup {None}]
      /\ node \in [Inodes -> File] /\ synced \in [Inodes -> File]
  BY DEF IInv, VarInv, FileInv
<1> DEFINE e == <<>>
<1>4. CASE dir[TMP] = None
  <2>1. /\ i \in Unused /\ dir' = [dir EXCEPT ![TMP] = i] /\ UNCHANGED ddir
        /\ node' = [node EXCEPT ![i] = e] /\ synced' = [synced EXCEPT ![i] = e]
    BY <1>1, <1>4 DEF OpenFile
  <2> HIDE DEF e
  <2>2. dir[DB] # i /\ ddir[DB] # i
    BY <2>1 DEF Unused, Files
  <2>3. dir'[DB] = dir[DB] /\ dir'[TMP] = i
    BY <1>3, <2>1 DEF Files, DB, TMP
  <2>4. /\ dir[DB] # None => synced'[dir[DB]] = synced[dir[DB]]
        /\ ddir[DB] # None => synced'[ddir[DB]] = synced[ddir[DB]] /\ node'[ddir[DB]] = node[ddir[DB]]
    BY <1>3, <2>1, <2>2 DEF Files
  <2>5. OnDisk' = OnDisk
    BY <2>1, <2>4 DEF OnDisk
  <2>6. SafeInv'
    BY <2>1, <2>3, <2>4, <2>5, SafeKept DEF DiskInv, SafeInv
  <2> QED
    BY <1>2, <2>1, <2>2, <2>3, <2>6 DEF DiskInv, DirInv, SyncInv
<1>5. CASE dir[TMP] # None
  <2>1. i = dir[TMP] /\ UNCHANGED <<dir, ddir, synced>> /\ node' = [node EXCEPT ![i] = e]
    BY <1>1, <1>5 DEF OpenFile
  <2>2. SafeInv'
    BY <1>5, <2>1, TmpDisk
  <2> QED
    BY <1>2, <2>1, <2>2 DEF DiskInv, DirInv, SyncInv
<1> QED
  BY <1>4, <1>5

LEMMA CopyDisk ==
    ASSUME IInv, NEW p, Procs = {p}, SerialInv(p), DiskInv(p), "power" \in Faults, Remember,
           CopyWrite(p) \/ CopyEnd(p)
    PROVE  DiskInv(p)'
<1>1. /\ pc[p] \in {"copy", "copyto"} /\ UNCHANGED <<dir, ddir>>
      /\ \/ pc' = [pc EXCEPT ![p] = "copy"] /\ UNCHANGED synced /\ pc[p] = "copyto"
            /\ \E r : node' = [node EXCEPT ![tfd[p]] = r]
         \/ pc' = [pc EXCEPT ![p] = "rename"] /\ node' = node
            /\ synced' = [synced EXCEPT ![tfd[p]] = node[tfd[p]]]
  BY DEF CopyWrite, CopyEnd, Synced, Goto
<1>2. tfd[p] \in Inodes /\ tfd[p] = dir[TMP] /\ tfd[p] # None
  BY <1>1, NoneAssumption DEF IInv, LocalInv, SerialInv, CopyInv
<1>3. node \in [Inodes -> File] /\ synced \in [Inodes -> File] /\ pc \in [Procs -> Pcs]
  BY DEF IInv, VarInv, FileInv
<1>4. \E r : node' = [node EXCEPT ![tfd[p]] = r]
  <2>1. node = [node EXCEPT ![tfd[p]] = node[tfd[p]]]
    BY <1>3
  <2> QED
    BY <1>1, <2>1
<1>5. SafeInv'
  BY <1>1, <1>2, <1>4, TmpDisk
<1>6. SyncInv(p)'
  BY <1>1, <1>2, <1>3 DEF SyncInv
<1> QED
  BY <1>1, <1>5, <1>6 DEF DiskInv, DirInv

(* The copy is on the disk before its name is that of the database. *)
LEMMA RenameDisk ==
    ASSUME IInv, NEW p, Procs = {p}, SerialInv(p), DiskInv(p), "power" \in Faults, Remember,
           Rename(p)
    PROVE  DiskInv(p)'
<1>1. /\ pc[p] = "rename" /\ dir[DB] \in Inodes /\ dir[TMP] \in Inodes
      /\ dir[DB] # None /\ dir[TMP] # None
      /\ \A j \in Nat : Slot(node[dir[TMP]], j) = Slot(node[dir[DB]], j)
  BY NoneAssumption DEF Rename, SerialInv, CopyInv
<1>2. /\ dir' = [dir EXCEPT ![DB] = dir[TMP], ![TMP] = None]
      /\ pc' = [pc EXCEPT ![p] = "reopen"]
      /\ UNCHANGED <<node, synced, ddir>>
  BY <1>1 DEF Rename, Goto
<1>3. dir'[DB] = dir[TMP] /\ dir'[TMP] = None /\ pc'[p] = "reopen"
  BY <1>2 DEF IInv, VarInv, Files, DB, TMP
<1>4. Contents(node[dir[DB]]) = Contents(node[dir[TMP]])
  BY <1>1, SameSlots DEF IInv, FileInv
<1>5. safe \subseteq Contents(synced[dir[TMP]])
  BY <1>1, <1>4 DEF DiskInv, SyncInv, SafeInv, Live
<1>6. OnDisk' = OnDisk
  BY <1>2 DEF OnDisk
<1>7. SafeInv'
  BY <1>2, <1>3, <1>5, <1>6, SafeKept DEF DiskInv, SafeInv
<1> QED
  BY <1>2, <1>3, <1>7 DEF DiskInv, DirInv, SyncInv

LEMMA StepDisk ==
    ASSUME IInv, NEW p, Procs = {p}, SerialInv(p), DiskInv(p), "power" \in Faults, Remember,
           Step(p)
    PROVE  DiskInv(p)'
<1>1. pc \in [Procs -> Pcs]
  BY DEF IInv, VarInv
<1>2. ASSUME NEW a, Done(p, a) \/ Leave(p, a) PROVE pc'[p] \in {"idle", "exit"}
  BY <1>1, <1>2 DEF Done, Leave, Goto
<1>3. CASE Start(p) \/ ScanStep(p) \/ CopyRead(p)
  <2>1. UNCHANGED fsVars /\ (pc'[p] # "rename" \/ pc'[p] = pc[p])
    BY <1>1, <1>3 DEF Start, ScanStep, CopyRead, Goto
  <2> QED
    BY <2>1, QuietDisk
<1>4. CASE Get(p)
  <2>1. UNCHANGED fsVars
    BY <1>4, Zenon DEF Get
  <2>2. (\E a : Done(p, a)) \/ Goto(p, "put")
    BY <1>4, GetCases, Zenon DEF Say
  <2>3. pc'[p] # "rename"
    BY <1>1, <1>2, <2>2 DEF Goto
  <2> QED
    BY <2>1, <2>3, QuietDisk
<1>5. CASE ScanEnd(p) \/ Reopen(p) \/ IoError(p) \/ Exit(p) \/ Kill(p)
  <2>1. UNCHANGED fsVars /\ \E a : Done(p, a) \/ Leave(p, a)
    BY <1>5 DEF ScanEnd, Reopen, IoError, Exit, Kill, Leave, Say
  <2> QED
    BY <1>2, <2>1, QuietDisk
<1>6. CASE OpenDb(p)
  <2>1. PICK i \in Inodes : OpenFile(DB, i, FALSE)
    BY <1>6 DEF OpenDb
  <2>2. op[p] \in Ops
    BY <1>6 DEF OpenDb, IInv, LocalInv
  <2>3. \/ Say(p, "range")
        \/ Goto(p, CASE op[p] \in {"a", "d", "f"} -> "get"
                     [] op[p] \in {"c", "p"} -> "scan"
                     [] op[p] = "x" -> "tmp"
                     [] op[p] = "z" -> "trunc")
    BY <1>6, Zenon DEF OpenDb
  <2>4. pc'[p] # "rename"
    BY <1>1, <1>2, <2>2, <2>3, OpsAssumption DEF Say, Goto
  <2> QED
    BY <2>1, <2>4, OpenDbDisk
<1>7. CASE Trunc(p)
  <2>1. PICK i \in Inodes : OpenFile(DB, i, TRUE)
    BY <1>7 DEF Trunc
  <2>2. pc'[p] # "rename"
    BY <1>2, <1>7 DEF Trunc, Say
  <2> QED
    BY <2>1, <2>2, OpenDbDisk
<1> QED
  BY <1>3, <1>4, <1>5, <1>6, <1>7, PutDisk, OpenTmpDisk, CopyDisk, RenameDisk DEF Step

-----------------------------------------------------------------------------
(* What the kernel does. *)

LEMMA WriteBackDisk ==
    ASSUME IInv, NEW p, Procs = {p}, SerialInv(p), DiskInv(p), WriteBack
    PROVE  IInv' /\ SerialInv(p)' /\ DiskInv(p)'
<1>1. /\ UNCHANGED <<dir, node, pc, op, arg, gpa, fd, tfd, pos, buf, seen, result, out>>
      /\ Remember
      /\ \/ \E i \in Inodes : synced' = [synced EXCEPT ![i] = node[i]] /\ UNCHANGED ddir
         \/ ddir' = dir /\ UNCHANGED synced
  BY DEF WriteBack, cmdVars, fileVars, outVars
<1>2. /\ dir \in [Files -> Inodes \cup {None}] /\ ddir \in [Files -> Inodes \cup {None}]
      /\ node \in [Inodes -> File] /\ synced \in [Inodes -> File]
  BY DEF IInv, VarInv, FileInv
<1>3. IInv'
  <2>1. synced' \in [Inodes -> File] /\ ddir' \in [Files -> Inodes \cup {None}]
    BY <1>1, <1>2
  <2> QED
    BY <1>1, <2>1 DEF IInv, VarInv, FileInv, LocalInv
<1>4. SerialInv(p)'
  BY <1>1 DEF SerialInv, NameInv, OptionInv, DbInv, ScanInv, CopyInv, ResultInv, Nothing, Answer
<1>5. Live' = Live
  BY <1>1, LiveUnchanged
<1>6. CASE \E i \in Inodes : synced' = [synced EXCEPT ![i] = node[i]] /\ UNCHANGED ddir
  <2>1. PICK i \in Inodes : synced' = [synced EXCEPT ![i] = node[i]]
    BY <1>6
  <2>2. \A f \in Inodes : synced'[f] = synced[f] \/ synced'[f] = node[f]
    BY <1>2, <2>1
  <2>3. dir[DB] # None => safe \subseteq Contents(synced'[dir[DB]])
    <3>1. dir[DB] # None => dir[DB] \in Inodes /\ Live = Contents(node[dir[DB]])
      BY <1>2 DEF Files, Live
    <3> QED
      BY <2>2, <3>1 DEF DiskInv, SafeInv
  <2>4. safe \subseteq OnDisk'
    <3>1. CASE ddir[DB] = None
      BY <1>6, <3>1 DEF DiskInv, SafeInv, OnDisk
    <3>2. CASE ddir[DB] # None
      <4>1. ddir[DB] \in Inodes /\ OnDisk = Contents(synced[ddir[DB]])
            /\ OnDisk' = Contents(synced'[ddir[DB]])
        BY <1>2, <1>6, <3>2 DEF Files, OnDisk
      <4> QED
        BY <2>2, <3>2, <4>1 DEF DiskInv, SafeInv
    <3> QED
      BY <3>1, <3>2
  <2>5. SafeInv'
    BY <1>1, <1>6, <2>3, <2>4, SafeKept DEF DiskInv, SafeInv
  <2>6. SyncInv(p)'
    <3>1. pc[p] = "rename" => dir[TMP] \in Inodes /\ synced[dir[TMP]] = node[dir[TMP]]
      BY DEF SerialInv, CopyInv, DiskInv, SyncInv
    <3> QED
      BY <1>1, <2>2, <3>1 DEF SyncInv
  <2> QED
    BY <1>1, <1>3, <1>4, <1>6, <2>5, <2>6 DEF DiskInv, DirInv
<1>7. CASE ddir' = dir /\ UNCHANGED synced
  <2>1. SafeInv'
    BY <1>1, <1>7, SafeKept DEF DiskInv, SafeInv
  <2> QED
    BY <1>1, <1>3, <1>4, <1>7, <2>1 DEF DiskInv, DirInv, SyncInv, SerialInv, NameInv
<1> QED
  BY <1>1, <1>6, <1>7

LEMMA PowerLossDisk ==
    ASSUME IInv, NEW p, Procs = {p}, SerialInv(p), DiskInv(p), PowerLoss
    PROVE  IInv' /\ SerialInv(p)' /\ DiskInv(p)'
<1>1. /\ dir' = ddir /\ node' = synced /\ UNCHANGED <<ddir, synced>> /\ Remember
      /\ pc'[p] = "idle" /\ op'[p] = "h" /\ arg'[p] = 0 /\ pos'[p] = 0 /\ seen'[p] = {}
  BY DEF PowerLoss
<1>2. IInv'
  <2>1. VarInv'
    BY MaxIdAssumption, ArgsAssumption DEF PowerLoss, IInv, VarInv, Pcs, Records
  <2>2. FileInv'
    BY <1>1 DEF IInv, FileInv
  <2>3. LocalInv'
    BY <1>1 DEF LocalInv, HasDb
  <2> QED
    BY <2>1, <2>2, <2>3 DEF IInv
<1>3. SerialInv(p)'
  <2>1. ResultInv(p)'
    BY <1>1 DEF PowerLoss, ResultInv, Nothing, Answer
  <2> QED
    BY <1>1, <2>1
       DEF SerialInv, NameInv, OptionInv, DbInv, ScanInv, CopyInv, HasDb, DiskInv, DirInv
<1>4. OnDisk' = OnDisk
  BY <1>1 DEF OnDisk
<1>5. SafeInv'
  BY <1>1, <1>4, SafeKept DEF DiskInv, SafeInv, OnDisk
<1> QED
  BY <1>1, <1>2, <1>3, <1>5 DEF DiskInv, DirInv, SyncInv

LEMMA DiskInit == ASSUME NEW p, Procs = {p}, InitD PROVE DiskInv(p)
<1>1. dir[DB] = None /\ ddir[DB] = None /\ dir[TMP] = None /\ ddir[TMP] = None /\ pc[p] = "idle"
      /\ safe = {}
  BY DEF InitD, Init, Files
<1> QED
  BY <1>1 DEF DiskInv, DirInv, SyncInv, SafeInv

LEMMA DiskStep ==
    ASSUME IInv, NEW p, Procs = {p}, SerialInv(p), DiskInv(p), "power" \in Faults,
           [NextD]_allVars
    PROVE  IInv' /\ SerialInv(p)' /\ DiskInv(p)'
<1>1. CASE UNCHANGED allVars
  <2>1. UNCHANGED <<dir, node, ddir, synced, pc, safe>> /\ UNCHANGED vars
    BY <1>1 DEF allVars, vars, fsVars
  <2>2. IInv' /\ SerialInv(p)'
    BY <2>1, InvStep, SerialStep
  <2>3. Live' = Live /\ OnDisk' = OnDisk
    BY <2>1 DEF Live, OnDisk
  <2> QED
    BY <2>1, <2>2, <2>3 DEF DiskInv, DirInv, SyncInv, SafeInv
<1>2. CASE \E q \in Procs : Run(q)
  <2>1. Step(p) /\ Remember
    BY <1>2 DEF Run
  <2>2. Next
    BY <2>1 DEF Next
  <2> QED
    BY <2>1, <2>2, InvStep, SerialStep, StepDisk
<1> QED
  BY <1>1, <1>2, WriteBackDisk, PowerLossDisk DEF NextD

(* One process at a time, whose files reach the disk in any order: whenever the
   power fails, the disk holds every safe student, in the old file or in the
   copy that compress_db has renamed. *)
THEOREM SafeStayOnDisk ==
    ASSUME NEW p, Procs = {p}, "power" \in Faults PROVE SpecD => []SafeStudentsOnDisk
<1>1. InitD => IInv /\ SerialInv(p) /\ DiskInv(p)
  BY InvInit, SerialInit, DiskInit DEF InitD
<1>2. IInv /\ SerialInv(p) /\ DiskInv(p) /\ [NextD]_allVars
         => IInv' /\ SerialInv(p)' /\ DiskInv(p)'
  BY DiskStep
<1>3. DiskInv(p) => SafeStudentsOnDisk
  BY DEF DiskInv, SafeInv, SafeStudentsOnDisk
<1> QED
  BY <1>1, <1>2, <1>3, PTL DEF SpecD
=============================================================================
