----------------------------- MODULE StudentDB -----------------------------
(***************************************************************************)
(* The student database program of 2-StudentDB/sdbsc.c.  Each run of the   *)
(* program is one command, made of the system calls of main and of the     *)
(* function it calls; several runs may be under way at the same time on    *)
(* the same directory, and nothing locks the files.  A file is a sequence  *)
(* of records, slot k at index k + 1: the program writes whole, aligned    *)
(* records only, so the file size is always a multiple of a record.        *)
(***************************************************************************)
EXTENDS Integers, Sequences, FiniteSets

CONSTANTS
    Procs,    \* processes that run one command after the other
    MaxId,    \* MAX_STD_ID
    Gpas,     \* the gpas -a is given, in range or not
    Args,     \* the ids -a, -d and -f are given, valid or not
    Ops,      \* the options that are used, of a c d f p x z
    Faults,   \* what may go wrong: "io", "kill", "power"
    Inodes,   \* the inodes of the file system
    None      \* no file

ASSUME MaxIdAssumption == MaxId \in Nat \ {0}
ASSUME GpasAssumption == Gpas \subseteq Int
ASSUME ArgsAssumption == Args \subseteq Int /\ 0 \in Args
ASSUME OpsAssumption == Ops \subseteq {"a", "c", "d", "f", "p", "x", "z"}
ASSUME NoneAssumption == None \notin Inodes

VARIABLES
    dir,      \* file name -> inode
    node,     \* inode -> contents
    ddir,     \* the directory as it is on the disk
    synced,   \* the contents as they are on the disk
    pc,       \* process -> where it is
    op, arg, gpa,   \* its command line
    fd, tfd,  \* the files it has open: the database, the temporary file
    pos,      \* the offset of fd, in slots
    buf,      \* current_s, the record compress_db copies
    seen,     \* the students that count_db_records or print_db has met
    result,   \* the answer of a command that has only to exit
    out       \* the answer its last command gave

fsVars == <<dir, node, ddir, synced>>
cmdVars == <<op, arg, gpa>>
fileVars == <<fd, tfd, pos, buf, seen>>
outVars == <<result, out>>
vars == <<fsVars, pc, cmdVars, fileVars, outVars>>

DB == "student.db"
TMP == ".tmp_student.db"
Files == {DB, TMP}

Empty == [id |-> 0, gpa |-> 0]            \* EMPTY_STUDENT_RECORD
ValidIds == 1..MaxId
ValidGpas == 0..500                       \* MIN_STD_GPA..MAX_STD_GPA
InRange(id, g) == id \in ValidIds /\ g \in ValidGpas
Students == [id : ValidIds, gpa : ValidGpas]

Slot(f, k) == IF k < Len(f) THEN f[k + 1] ELSE Empty

(* lseek to slot k and write one record: a gap becomes empty records.  Mutant:
   the write goes to the end of the file. *)
Write_AtEnd(f, k, r) == Append(f, r)
Write(f, k, r) ==
    [i \in 1..(IF k < Len(f) THEN Len(f) ELSE k + 1) |->
        IF i = k + 1 THEN r ELSE Slot(f, i - 1)]

Contents(f) == {f[i] : i \in 1..Len(f)} \ {Empty}

(* The students of the database, for whoever opens it now. *)
Live == IF dir[DB] = None THEN {} ELSE Contents(node[dir[DB]])

Answer(code, id, data, n) == [code |-> code, id |-> id, data |-> data, n |-> n]
Nothing == Answer("none", 0, {}, 0)

Init ==
    /\ dir = [n \in Files |-> None] /\ ddir = dir
    /\ node = [i \in Inodes |-> <<>>] /\ synced = node
    /\ pc = [p \in Procs |-> "idle"]
    /\ op = [p \in Procs |-> "h"] /\ arg = [p \in Procs |-> 0]
    /\ gpa = [p \in Procs |-> 0]
    /\ fd = [p \in Procs |-> None] /\ tfd = fd
    /\ pos = [p \in Procs |-> 0] /\ buf = [p \in Procs |-> Empty]
    /\ seen = [p \in Procs |-> {}]
    /\ result = [p \in Procs |-> Nothing] /\ out = result

-----------------------------------------------------------------------------
(* Inodes nobody can reach any more may be used for a new file. *)
Unused == {i \in Inodes : /\ \A n \in Files : dir[n] # i /\ ddir[n] # i
                          /\ \A p \in Procs : fd[p] # i /\ tfd[p] # i}

(* open(name, O_RDWR | O_CREAT [| O_TRUNC]) returns inode i. *)
OpenFile(name, i, truncate) ==
    IF dir[name] = None
    THEN /\ i \in Unused
         /\ dir' = [dir EXCEPT ![name] = i]
         /\ node' = [node EXCEPT ![i] = <<>>]
         /\ synced' = [synced EXCEPT ![i] = <<>>]
         /\ ddir' = IF "power" \in Faults THEN ddir ELSE dir'
    ELSE /\ i = dir[name]
         /\ node' = IF truncate THEN [node EXCEPT ![i] = <<>>] ELSE node
         /\ UNCHANGED <<dir, ddir, synced>>

Goto(p, label) == pc' = [pc EXCEPT ![p] = label]

(* The command has done what it does and has its answer; main has only to close
   what is open and to exit. *)
Done(p, answer) ==
    result' = [result EXCEPT ![p] = answer] /\ Goto(p, "exit") /\ UNCHANGED out

Say(p, code) == Done(p, Answer(code, arg[p], {}, 0))

(* The process is gone, and its user has an answer. *)
Leave(p, answer) ==
    /\ out' = [out EXCEPT ![p] = answer] /\ result' = [result EXCEPT ![p] = Nothing]
    /\ Goto(p, "idle")
    /\ fd' = [fd EXCEPT ![p] = None] /\ tfd' = [tfd EXCEPT ![p] = None]
    /\ op' = [op EXCEPT ![p] = "h"] /\ arg' = [arg EXCEPT ![p] = 0]
    /\ gpa' = [gpa EXCEPT ![p] = 0]
    /\ pos' = [pos EXCEPT ![p] = 0] /\ buf' = [buf EXCEPT ![p] = Empty]
    /\ seen' = [seen EXCEPT ![p] = {}]
    /\ UNCHANGED fsVars

(* The shell starts the program. *)
Start(p) ==
    /\ pc[p] = "idle"
    /\ \E o \in Ops, a \in Args, g \in Gpas :
          /\ o \in {"a", "d", "f"} \/ a = 0
          /\ op' = [op EXCEPT ![p] = o]
          /\ arg' = [arg EXCEPT ![p] = a]
          /\ gpa' = [gpa EXCEPT ![p] = IF o = "a" THEN g ELSE 0]
    /\ Goto(p, "open")
    /\ UNCHANGED <<fsVars, fileVars, outVars>>

(* main opens the database, whatever the command, creating it if need be;
   -a checks its arguments, with validate_range, only then. *)
OpenDb(p) ==
    /\ pc[p] = "open"
    /\ \E i \in Inodes : OpenFile(DB, i, FALSE) /\ fd' = [fd EXCEPT ![p] = i]
    /\ IF op[p] = "a" /\ ~InRange(arg[p], gpa[p])
       THEN Say(p, "range")
       ELSE /\ Goto(p, CASE op[p] \in {"a", "d", "f"} -> "get"
                         [] op[p] \in {"c", "p"} -> "scan"
                         [] op[p] = "x" -> "tmp"
                         [] op[p] = "z" -> "trunc")
            /\ UNCHANGED outVars
    /\ UNCHANGED <<cmdVars, tfd, pos, buf, seen>>

(* get_student: seek (which refuses a negative offset), read, compare with the
   empty record.  What its callers do with the result. *)
Get(p) ==
    /\ pc[p] = "get"
    /\ LET s == Slot(node[fd[p]], arg[p])
       IN  \/ arg[p] < 0 /\ Say(p, "error")
           \/ /\ arg[p] >= 0 /\ s = Empty
              /\ IF op[p] = "a" THEN Goto(p, "put") /\ UNCHANGED outVars
                                ELSE Say(p, "not found")
           \/ /\ arg[p] >= 0 /\ s # Empty
              /\ CASE op[p] = "a" -> Say(p, "duplicate")
                   [] op[p] = "d" -> Goto(p, "put") /\ UNCHANGED outVars
                   [] op[p] = "f" -> Done(p, Answer("found", arg[p], {s}, 0))
    /\ UNCHANGED <<fsVars, cmdVars, fileVars>>

(* The write that ends add_student and del_student. *)
Put(p) ==
    /\ pc[p] = "put"
    /\ LET r == IF op[p] = "a" THEN [id |-> arg[p], gpa |-> gpa[p]] ELSE Empty
       IN  node' = [node EXCEPT ![fd[p]] = Write(@, arg[p], r)]
    /\ Say(p, IF op[p] = "a" THEN "added" ELSE "deleted")
    /\ UNCHANGED <<dir, ddir, synced, cmdVars, fileVars>>

(* count_db_records and print_db read the file record by record. *)
ScanStep(p) ==
    /\ pc[p] = "scan" /\ pos[p] < Len(node[fd[p]])
    /\ pos' = [pos EXCEPT ![p] = @ + 1]
    /\ seen' = [seen EXCEPT ![p] = @ \cup ({Slot(node[fd[p]], pos[p])} \ {Empty})]
    /\ UNCHANGED <<fsVars, pc, cmdVars, fd, tfd, buf, outVars>>

ScanEnd(p) ==
    /\ pc[p] = "scan" /\ pos[p] >= Len(node[fd[p]])
    /\ Done(p, IF op[p] = "c" THEN Answer("count", 0, {}, Cardinality(seen[p]))
                              ELSE Answer("print", 0, seen[p], 0))
    /\ UNCHANGED <<fsVars, cmdVars, fileVars>>

(* compress_db: open(TMP_DB_FILE, O_CREAT | O_TRUNC | O_RDWR).  Mutant: without
   O_TRUNC. *)
TmpTruncates_Not == FALSE
TmpTruncates == TRUE

OpenTmp(p) ==
    /\ pc[p] = "tmp"
    /\ \E i \in Inodes : OpenFile(TMP, i, TmpTruncates) /\ tfd' = [tfd EXCEPT ![p] = i]
    /\ Goto(p, "copy")
    /\ UNCHANGED <<cmdVars, fd, pos, buf, seen, outVars>>

(* Its loop: read a record, skip it if it is empty, else seek to the slot of
   its id in the temporary file and write it there. *)
CopyRead(p) ==
    /\ pc[p] = "copy" /\ pos[p] < Len(node[fd[p]])
    /\ LET s == Slot(node[fd[p]], pos[p])
       IN  IF s = Empty THEN UNCHANGED <<pc, buf>>
                        ELSE Goto(p, "copyto") /\ buf' = [buf EXCEPT ![p] = s]
    /\ pos' = [pos EXCEPT ![p] = @ + 1]
    /\ UNCHANGED <<fsVars, cmdVars, fd, tfd, seen, outVars>>

(* Mutant: the records are packed one after the other. *)
CopySlot_Packed(p) == Len(node[tfd[p]])
CopySlot(p) == buf[p].id

CopyWrite(p) ==
    /\ pc[p] = "copyto"
    /\ node' = [node EXCEPT ![tfd[p]] = Write(@, CopySlot(p), buf[p])]
    /\ Goto(p, "copy")
    /\ UNCHANGED <<dir, ddir, synced, cmdVars, fileVars, outVars>>

(* fsync(tmpfd).  Mutant: left out. *)
Synced_Not(i) == synced
Synced(i) == [synced EXCEPT ![i] = node[i]]

(* End of file: fsync, then both descriptors are closed. *)
CopyEnd(p) ==
    /\ pc[p] = "copy" /\ pos[p] >= Len(node[fd[p]])
    /\ synced' = IF "power" \in Faults THEN Synced(tfd[p]) ELSE synced
    /\ fd' = [fd EXCEPT ![p] = None] /\ tfd' = [tfd EXCEPT ![p] = None]
    /\ Goto(p, "rename")
    /\ UNCHANGED <<dir, ddir, node, cmdVars, pos, buf, seen, outVars>>

(* rename(TMP_DB_FILE, DB_FILE) replaces the database at once; it fails when
   another process has renamed the temporary file already. *)
Rename(p) ==
    /\ pc[p] = "rename"
    /\ IF dir[TMP] = None
       THEN Say(p, "error") /\ UNCHANGED <<dir, ddir>>
       ELSE /\ dir' = [dir EXCEPT ![DB] = dir[TMP], ![TMP] = None]
            /\ ddir' = IF "power" \in Faults THEN ddir ELSE dir'
            /\ Goto(p, "reopen") /\ UNCHANGED outVars
    /\ UNCHANGED <<node, synced, cmdVars, fileVars>>

Reopen(p) ==
    /\ pc[p] = "reopen"
    /\ fd' = [fd EXCEPT ![p] = dir[DB]]
    /\ Say(p, IF dir[DB] # None THEN "compressed" ELSE "error")
    /\ UNCHANGED <<fsVars, cmdVars, tfd, pos, buf, seen>>

(* -z: main closes the database and opens it again with O_TRUNC. *)
Trunc(p) ==
    /\ pc[p] = "trunc"
    /\ \E i \in Inodes : OpenFile(DB, i, TRUE) /\ fd' = [fd EXCEPT ![p] = i]
    /\ Say(p, "zeroed")
    /\ UNCHANGED <<cmdVars, tfd, pos, buf, seen>>

(* main closes the files and exits; what the command printed, and the exit
   code, reach the user. *)
Exit(p) == pc[p] = "exit" /\ Leave(p, result[p])

-----------------------------------------------------------------------------
(* A system call fails: every function gives up at once, main closes what is
   left and exits with EXIT_FAIL_DB.  The last call, close, is not checked. *)
IoError(p) ==
    /\ "io" \in Faults /\ pc[p] \notin {"idle", "exit"}
    /\ Say(p, "error")
    /\ UNCHANGED <<fsVars, cmdVars, fileVars>>

(* The process is killed, also after its last write and before it exits. *)
Kill(p) ==
    /\ "kill" \in Faults /\ pc[p] # "idle"
    /\ Leave(p, Answer("killed", 0, {}, 0))

Step(p) ==
    \/ Start(p) \/ OpenDb(p) \/ Get(p) \/ Put(p) \/ ScanStep(p) \/ ScanEnd(p)
    \/ OpenTmp(p) \/ CopyRead(p) \/ CopyWrite(p) \/ CopyEnd(p) \/ Rename(p)
    \/ Reopen(p) \/ Trunc(p) \/ Exit(p) \/ IoError(p) \/ Kill(p)

Next == \E p \in Procs : Step(p)

Spec == Init /\ [][Next]_vars

-----------------------------------------------------------------------------
TypeOK ==
    /\ dir \in [Files -> Inodes \cup {None}] /\ ddir \in [Files -> Inodes \cup {None}]
    /\ \A i \in Inodes, f \in {node, synced} :
          Len(f[i]) <= MaxId + 1 /\ \A k \in 1..Len(f[i]) : f[i][k] \in Students \cup {Empty}
    /\ pc \in [Procs -> {"idle", "open", "get", "put", "scan", "tmp", "copy",
                          "copyto", "rename", "reopen", "trunc", "exit"}]
    /\ op \in [Procs -> Ops \cup {"h"}] /\ arg \in [Procs -> Args]
    /\ gpa \in [Procs -> Gpas \cup {0}]
    /\ fd \in [Procs -> Inodes \cup {None}] /\ tfd \in [Procs -> Inodes \cup {None}]
    /\ pos \in [Procs -> 0..(MaxId + 1)] /\ buf \in [Procs -> Students \cup {Empty}]
    /\ seen \in [Procs -> SUBSET Students]

(* One process at a time: every command acts on the students as a whole, with
   errors and kills at any system call: a kill never finds half of an effect. *)
Store == INSTANCE StudentStore WITH store <- Live, ready <- result
ImplementsStore == Store!Spec

(* Whatever runs at the same time, a record sits in the slot of its id, in
   every file: -f id, -d id and -a id look there and nowhere else. *)
SlotsMatchIds ==
    \A i \in Inodes : \A k \in 1..Len(node[i]) : node[i][k].id \in {0, k - 1}

(* sdbsc.c:474 "copy all valid students from the active database (passed in
   via fd) to the temporary file": the rename changes no student. *)
CompressKeepsStudents ==
    [][\A p \in Procs : pc[p] = "rename" /\ pc'[p] = "reopen" => Live' = Live]_vars
=============================================================================
