--------------------------- MODULE DshLocalProofs ---------------------------
(***************************************************************************)
(* Safety of the local shell and of its parser for lines and arrays of any *)
(* size: the types, BuffersFit, BuffersFreed and ParsedAsMeant, which the  *)
(* run of MCDshLocal checks on small arrays.  The first three follow from  *)
(* IInv; the last needs MeantInv as well, which says what the two passes   *)
(* of build_cmd_buff have made of the segment so far.                      *)
(***************************************************************************)
EXTENDS DshLocal, DataLemmas

\* Trimming a line gives a line.
LEMMA TrimType ==
    ASSUME NEW s \in Word
    PROVE  Trim(s) \in Word
<1>1. DOMAIN s = 1..Len(s) /\ Len(s) \in Nat
  BY LenProperties DEF Word
<1>2. CASE Ink(s) = {}
  BY <1>2 DEF Trim, Word
<1>3. CASE Ink(s) # {}
  <2> Ink(s) \subseteq 1..Len(s)
    BY <1>1 DEF Ink
  <2>1. Ink(s) \in SUBSET (0..Len(s)) /\ Ink(s) \in SUBSET Nat
    BY <1>1
  <2>2. Min(Ink(s)) \in 1..Len(s) /\ Max(Ink(s)) \in 1..Len(s)
    BY <2>1, <1>1, <1>3, MinExists, MaxExists
  <2>3. SubSeq(s, Min(Ink(s)), Max(Ink(s))) \in Seq(Char)
    <3>1. \A i \in Min(Ink(s))..Max(Ink(s)) : s[i] \in Char
      BY <2>2, <1>1, ElementOfSeq DEF Word
    <3> QED BY <3>1, <2>2, SubSeqProperties
  <2> QED BY <1>3, <2>3 DEF Trim, Word
<1> QED BY <1>2, <1>3

\* The end of a line is a line, with the same characters further left.
LEMMA Suffix ==
    ASSUME NEW s \in Word, NEW k \in 1..(Len(s) + 1)
    PROVE  /\ SubSeq(s, k, Len(s)) \in Word
           /\ Len(SubSeq(s, k, Len(s))) = Len(s) + 1 - k
           /\ \A i \in 1..(Len(s) + 1 - k) : SubSeq(s, k, Len(s))[i] = s[k + i - 1]
<1>1. Len(s) \in Nat
  BY LenProperties DEF Word
<1>2. \A i \in k..Len(s) : s[i] \in Char
  BY <1>1, ElementOfSeq DEF Word
<1> QED BY <1>1, <1>2, SubSeqProperties DEF Word

\* A line has finitely many pipes.
LEMMA PipesFinite ==
    ASSUME NEW s \in Word
    PROVE  IsFiniteSet(Pipes(s)) /\ Cardinality(Pipes(s)) \in Nat
<1>1. DOMAIN s = 1..Len(s) /\ Len(s) \in Nat
  BY LenProperties DEF Word
<1>2. IsFiniteSet(1..Len(s)) /\ Pipes(s) \in SUBSET (1..Len(s))
  BY <1>1, FS_Interval DEF Pipes
<1> QED BY <1>2, FS_Subset, FS_CardinalityType

\* The end of a line has no more pipes, and fewer once one is cut off.
LEMMA SuffixPipes ==
    ASSUME NEW s \in Word, NEW k \in 1..(Len(s) + 1)
    PROVE  /\ Cardinality(Pipes(SubSeq(s, k, Len(s)))) <= Cardinality(Pipes(s))
           /\ (\E j \in Pipes(s) : j < k) =>
                Cardinality(Pipes(SubSeq(s, k, Len(s)))) < Cardinality(Pipes(s))
<1> DEFINE t == SubSeq(s, k, Len(s))
           U == {j \in Pipes(s) : j >= k}
           f == [i \in Pipes(t) |-> i + k - 1]
<1>1. DOMAIN s = 1..Len(s) /\ Len(s) \in Nat
  BY LenProperties DEF Word
<1>2. t \in Word /\ Len(t) = Len(s) + 1 - k /\ \A i \in 1..(Len(s) + 1 - k) : t[i] = s[k + i - 1]
  BY Suffix
<1>3. DOMAIN t = 1..(Len(s) + 1 - k)
  BY <1>2, LenProperties DEF Word
<1>4. Pipes(t) \subseteq Nat
  BY <1>3 DEF Pipes
<1>5. f \in Injection(Pipes(t), U)
  <2>1. \A i \in Pipes(t) : i + k - 1 \in U
    <3> SUFFICES ASSUME NEW i \in Pipes(t) PROVE i + k - 1 \in U
      OBVIOUS
    <3>1. i \in 1..(Len(s) + 1 - k) /\ t[i] = "|"
      BY <1>3 DEF Pipes
    <3>2. k + i - 1 \in 1..Len(s) /\ s[k + i - 1] = "|" /\ i + k - 1 = k + i - 1 /\ i + k - 1 >= k
      BY <3>1, <1>1, <1>2
    <3> QED BY <3>2, <1>1 DEF Pipes
  <2>2. \A a, b \in Pipes(t) : f[a] = f[b] => a = b
    BY <1>4
  <2> QED BY <2>1, <2>2 DEF Injection, IsInjective
<1>6. IsFiniteSet(Pipes(s)) /\ Cardinality(Pipes(s)) \in Nat /\ U \in SUBSET Pipes(s)
  BY PipesFinite
<1>7. /\ IsFiniteSet(U) /\ Cardinality(U) <= Cardinality(Pipes(s))
      /\ Cardinality(Pipes(s)) = Cardinality(U) => Pipes(s) = U
  BY <1>6, FS_Subset
<1>8. Cardinality(Pipes(t)) <= Cardinality(U)
  <2> HIDE DEF f, U, t
  <2> QED BY <1>5, <1>7, FS_Injection
<1>9. Cardinality(Pipes(t)) \in Nat /\ Cardinality(U) \in Nat
  BY <1>2, <1>7, PipesFinite, FS_CardinalityType
<1>10. (\E j \in Pipes(s) : j < k) => U # Pipes(s)
  BY <1>1 DEF Pipes
<1> QED
  <2> HIDE DEF U, t, f
  <2>1. Cardinality(Pipes(t)) <= Cardinality(Pipes(s))
    BY <1>6, <1>7, <1>8, <1>9
  <2>2. (\E j \in Pipes(s) : j < k) => Cardinality(Pipes(t)) < Cardinality(Pipes(s))
    BY <1>6, <1>7, <1>8, <1>9, <1>10
  <2> QED BY <2>1, <2>2 DEF t

----------------------------------------------------------------------------
(* Segments left in what strtok_r has not returned. *)
Segs(r) == IF r = <<>> THEN 0 ELSE Cardinality(Pipes(r)) + 1

\* The beginning of a line is a line.
LEMMA PrefixType ==
    ASSUME NEW s \in Word, NEW k \in 0..Len(s)
    PROVE  SubSeq(s, 1, k) \in Word
<1>1. Len(s) \in Nat
  BY LenProperties DEF Word
<1>2. \A i \in 1..k : s[i] \in Char
  BY <1>1, ElementOfSeq DEF Word
<1> QED BY <1>1, <1>2, SubSeqProperties DEF Word

\* Skipping the delimiters at the front adds no segment.
LEMMA SkipPipesFewer ==
    ASSUME NEW s \in Word
    PROVE  SkipPipes(s) \in Word /\ Segs(SkipPipes(s)) <= Segs(s)
<1> DEFINE others == DOMAIN s \ Pipes(s)
<1>1. DOMAIN s = 1..Len(s) /\ Len(s) \in Nat
  BY LenProperties DEF Word
<1>2. CASE others = {}
  <2>1. SkipPipes(s) = <<>>
    BY <1>2 DEF SkipPipes
  <2>2. <<>> \in Word
    BY DEF Word
  <2> QED BY <2>1, <2>2, PipesFinite DEF Segs
<1>3. CASE others # {}
  <2>1. others \in SUBSET Nat
    BY <1>1
  <2>2. Min(others) \in others
    BY <2>1, <1>3, MinExists
  <2>3. Min(others) \in 1..(Len(s) + 1)
    BY <2>2, <1>1
  <2>4. SkipPipes(s) = SubSeq(s, Min(others), Len(s))
    BY <1>3 DEF SkipPipes
  <2>5. s # <<>>
    BY <1>3
  <2> HIDE DEF others
  <2>6. SkipPipes(s) \in Word
    BY <2>3, <2>4, Suffix
  <2>7. Cardinality(Pipes(SkipPipes(s))) <= Cardinality(Pipes(s))
    BY <2>3, <2>4, SuffixPipes
  <2> QED BY <2>5, <2>6, <2>7, PipesFinite DEF Segs
<1> QED BY <1>2, <1>3

\* One call of strtok_r leaves at least one segment less.
LEMMA SegmentTaken ==
    ASSUME NEW s \in Word, s # <<>>
    PROVE  /\ FirstSegment(s) \in Word /\ AfterSegment(s) \in Word
           /\ Segs(AfterSegment(s)) + 1 <= Segs(s)
<1>1. DOMAIN s = 1..Len(s) /\ Len(s) \in Nat
  BY LenProperties DEF Word
<1>2. Pipes(s) \in SUBSET (1..Len(s)) /\ Pipes(s) \in SUBSET Nat
  BY <1>1 DEF Pipes
<1>3. CASE Pipes(s) = {}
  <2>1. CutAt(s) = Len(s) + 1
    BY <1>3 DEF CutAt
  <2>2. SubSeq(s, 1, CutAt(s) - 1) \in Word
    BY <2>1, <1>1, PrefixType
  <2>3. AfterSegment(s) = <<>>
    <3>1. SubSeq(s, Len(s) + 2, Len(s)) = <<>>
      BY <1>1, SubSeqProperties, EmptySeq DEF Word
    <3>2. CutAt(s) + 1 = Len(s) + 2
      BY <2>1, <1>1
    <3> QED BY <3>1, <3>2 DEF AfterSegment
  <2>4. FirstSegment(s) \in Word
    BY <2>2, TrimType DEF FirstSegment
  <2>5. <<>> \in Word
    BY DEF Word
  <2>6. Segs(AfterSegment(s)) = 0 /\ Segs(s) = Cardinality(Pipes(s)) + 1
    BY <2>3 DEF Segs
  <2>7. Segs(AfterSegment(s)) + 1 <= Segs(s)
    BY <2>6, PipesFinite
  <2> QED BY <2>3, <2>4, <2>5, <2>7
<1>4. CASE Pipes(s) # {}
  <2>1. CutAt(s) \in Pipes(s)
    BY <1>2, <1>4, MinExists DEF CutAt
  <2>2. CutAt(s) \in 1..Len(s)
    BY <2>1, <1>2
  <2>3. FirstSegment(s) \in Word
    BY <2>2, <1>1, PrefixType, TrimType DEF FirstSegment
  <2>4. CutAt(s) + 1 \in 1..(Len(s) + 1) /\ CutAt(s) < CutAt(s) + 1
    BY <2>2, <1>1
  <2>5. AfterSegment(s) \in Word
    BY <2>4, Suffix DEF AfterSegment
  <2>6. Cardinality(Pipes(AfterSegment(s))) < Cardinality(Pipes(s))
    BY <2>1, <2>4, SuffixPipes DEF AfterSegment
  <2> QED BY <2>3, <2>5, <2>6, PipesFinite DEF Segs
<1> QED BY <1>3, <1>4

----------------------------------------------------------------------------
(* The inductive invariant. *)
Building == IF pc \in {"expand", "tokens", "args"} THEN 1 ELSE 0

\* The arrays of build_cmd_buff, and where each of its loops starts.
PhaseInv ==
    /\ Len(expanded) <= EXPANDED_MAX /\ Len(tokens) <= 2 * CMD_ARGV_MAX
    /\ Len(cmd.argv) < CMD_ARGV_MAX
    /\ pc = "expand" => dst = 0
    /\ pc = "tokens" =>
          /\ src <= Len(expanded) /\ expanded[Len(expanded)] = NUL
          /\ dst < SH_CMD_MAX

\* The commands built and the segments to come never outgrow clist.
ListInv ==
    Len(clist) + Building
        + (IF pc \in {"list", "expand", "tokens", "args"} THEN Segs(rest) ELSE 0) <= CMD_MAX

\* Every buffer in use is in clist, is being filled, or belongs to a refusal.
LiveInv ==
    /\ live = refused + Len(clist) + Building
    /\ pc \in {"prompt", "ended"} => clist = <<>>
    /\ pc = "parsed" /\ rc # OK => clist = <<>>

IInv == TypeOK /\ PhaseInv /\ ListInv /\ LiveInv

\* The count of segments is a number.
LEMMA SegsType ==
    ASSUME NEW s \in Word
    PROVE  Segs(s) \in Nat
BY PipesFinite DEF Segs

\* A character read from the buffer is one of the line or its NUL.
LEMMA CharAtType ==
    ASSUME NEW s \in Word, NEW i \in Nat \ {0}
    PROVE  CharAt(s, i) \in Char \cup {NUL}
<1>1. Len(s) \in Nat
  BY LenProperties DEF Word
<1>2. i <= Len(s) => s[i] \in Char
  BY <1>1, ElementOfSeq DEF Word
<1> QED BY <1>1, <1>2 DEF CharAt

\* Tuples of one and of two are sequences of that length.
LEMMA ShortTuples ==
    ASSUME NEW S, NEW a \in S, NEW b \in S
    PROVE  /\ <<a>> \in Seq(S) /\ Len(<<a>>) = 1
           /\ <<a, b>> \in Seq(S) /\ Len(<<a, b>>) = 2
OBVIOUS

\* A sequence between two copies of another.
LEMMA Wrapped ==
    ASSUME NEW S, NEW p \in Seq(S), NEW t \in Seq(S)
    PROVE  p \o t \o p \in Seq(S) /\ Len(p \o t \o p) = Len(p) + Len(t) + Len(p)
<1>1. p \o t \in Seq(S) /\ Len(p \o t) = Len(p) + Len(t)
  BY ConcatProperties
<1> QED BY <1>1, ConcatProperties

\* What one turn of the expansion adds is never longer than its margin.
LEMMA PieceType ==
    ASSUME NEW c \in Char \cup {NUL}, NEW d \in Char \cup {NUL}
    PROVE  /\ Piece(c, d) \in Seq(Char \cup {NUL})
           /\ Len(Piece(c, d)) \in 1..Margin(c)
           /\ Len(Taken(c, d)) \in 1..2
           /\ c = NUL => Piece(c, d) = <<NUL>>
<1> DEFINE Cell == Char \cup {NUL}
           blank == <<" ">>
           one == <<c>>
           two == <<c, d>>
<1>0. " " \in Cell
  BY DEF Char, Special
<1>1. c \in Cell /\ d \in Cell
  OBVIOUS
<1>2. /\ one \in Seq(Cell) /\ Len(one) = 1 /\ two \in Seq(Cell) /\ Len(two) = 2
      /\ blank \in Seq(Cell) /\ Len(blank) = 1
  <2> HIDE DEF Cell
  <2> QED BY <1>0, <1>1, ShortTuples, Zenon
<1>3. Taken(c, d) = two \/ Taken(c, d) = one
  BY Zenon DEF Taken
<1>4. CASE quote = Unquoted /\ c \in {"<", ">"}
  <2>1. Piece(c, d) = blank \o Taken(c, d) \o blank
    BY <1>4, Zenon DEF Piece
  <2>2. c # NUL
    BY <1>4 DEF NUL
  <2>3. Margin(c) = 4
    BY <1>4 DEF Margin
  <2> HIDE DEF Cell, blank, one, two
  <2>4. Taken(c, d) \in Seq(Cell) /\ Len(Taken(c, d)) \in 1..2
    BY <1>2, <1>3
  <2>5. /\ blank \o Taken(c, d) \o blank \in Seq(Cell)
        /\ Len(blank \o Taken(c, d) \o blank) = Len(blank) + Len(Taken(c, d)) + Len(blank)
    BY <1>2, <2>4, Wrapped, Zenon
  <2>6. Piece(c, d) \in Seq(Cell) /\ Len(Piece(c, d)) = 2 + Len(Taken(c, d))
    BY <1>2, <2>1, <2>4, <2>5
  <2>7. Len(Taken(c, d)) = 1 \/ Len(Taken(c, d)) = 2
    BY <1>2, <1>3, Zenon
  <2>8. Len(Piece(c, d)) = 2 + Len(Taken(c, d))
    BY <2>6
  <2>9. Len(Piece(c, d)) \in 1..4
    <3>1. \A l, m : (l = 1 \/ l = 2) /\ m = 2 + l => m \in 1..4
      OBVIOUS
    <3> QED BY <2>7, <2>8, <3>1, Zenon
  <2>10. Len(Piece(c, d)) \in 1..Margin(c)
    BY <2>3, <2>9
  <2> QED BY <2>2, <2>4, <2>6, <2>10 DEF Cell
<1>5. CASE ~(quote = Unquoted /\ c \in {"<", ">"})
  <2>1. Piece(c, d) = one /\ Margin(c) = 1
    BY <1>5, Zenon DEF Piece, Margin
  <2>2. c = NUL => Piece(c, d) = <<NUL>>
    BY <2>1
  <2> HIDE DEF Cell, one, two
  <2>3. Len(Taken(c, d)) = 1 \/ Len(Taken(c, d)) = 2
    BY <1>2, <1>3, Zenon
  <2>4. Len(Taken(c, d)) \in 1..2
    BY <2>3
  <2>5. Piece(c, d) \in Seq(Cell) /\ Len(Piece(c, d)) = 1
    BY <1>2, <2>1
  <2>6. Len(Piece(c, d)) \in 1..Margin(c)
    BY <2>1, <2>5
  <2> QED BY <2>2, <2>4, <2>5, <2>6, Zenon DEF Cell
<1> QED BY <1>4, <1>5

\* The invariant holds when the shell starts.
LEMMA InitInv == Init => IInv
<1> SUFFICES ASSUME Init PROVE IInv
  OBVIOUS
<1> USE DEF Init, ParserInit
<1>1. TypeOK
  <2>1. NoCommand \in CommandType
    BY DEF NoCommand, CommandType, Word
  <2>2. n \in 0..MaxLines /\ rc \in ERR_EXEC_CMD..OK /\ dst \in Nat /\ live \in Nat /\ refused \in Nat
    BY StatusAssumption DEF ERR_EXEC_CMD, OK
  <2>3. line \in Word /\ rest \in Word /\ seg \in Word /\ tok \in Word
    BY DEF Word
  <2>4. clist \in Seq(CommandType) /\ tokens \in Seq(Word) /\ expanded \in Seq(Char \cup {NUL})
    OBVIOUS
  <2>5. cmd \in CommandType /\ open \in BOOLEAN
    BY <2>1
  <2>6. src \in Nat \ {0}
    OBVIOUS
  <2> QED BY <2>2, <2>3, <2>6, <2>4, <2>5, Zenon DEF TypeOK
<1>2. PhaseInv
  BY SizesAssumption DEF PhaseInv, NoCommand
<1>3. ListInv
  BY SizesAssumption DEF ListInv, Building
<1>4. LiveInv
  BY DEF LiveInv, Building
<1> QED BY <1>1, <1>2, <1>3, <1>4 DEF IInv

\* An error return of build_cmd_buff keeps the invariant.
LEMMA RefuseInv ==
    ASSUME IInv, pc \in {"expand", "tokens", "args"},
           NEW r \in {ERR_CMD_OR_ARGS_TOO_BIG, ERR_CMD_ARGS_BAD, WARN_NO_CMDS}, Refuse(r),
           UNCHANGED <<scanVars, n, last_status>>
    PROVE  IInv'
<1> USE DEF IInv, Refuse, FreeList, Built, scanVars
<1>1. TypeOK'
  <2>1. r \in ERR_EXEC_CMD..OK
    BY DEF ERR_CMD_OR_ARGS_TOO_BIG, ERR_CMD_ARGS_BAD, WARN_NO_CMDS, ERR_EXEC_CMD, OK
  <2>2. live' \in Nat /\ refused' \in Nat
    BY DEF TypeOK, LiveInv, Building
  <2> QED BY <2>1, <2>2 DEF TypeOK
<1>2. PhaseInv'
  BY DEF PhaseInv
<1>3. ListInv'
  BY SizesAssumption DEF ListInv, Building
<1>4. LiveInv'
  BY DEF LiveInv, Building, TypeOK
<1> QED BY <1>1, <1>2, <1>3, <1>4

\* The empty sequence is a line, a list of commands and a list of tokens.
LEMMA EmptyTypes ==
    /\ <<>> \in Word /\ Len(<<>>) = 0 /\ NoCommand \in CommandType /\ NoCommand.argv = <<>>
    /\ <<>> \in Seq(CommandType) /\ <<>> \in Seq(Word) /\ <<>> \in Seq(Char \cup {NUL})
BY DEF Word, CommandType, NoCommand

\* What the locals of build_cmd_buff are when it is called.
LEMMA ScanStartType ==
    ASSUME ScanStart
    PROVE  /\ src' \in Nat \ {0} /\ quote' \in Quotes \cup {Unquoted}
           /\ expanded' \in Seq(Char \cup {NUL}) /\ tokens' \in Seq(Word) /\ tok' \in Word
           /\ open' \in BOOLEAN /\ dst' \in Nat /\ cmd' \in CommandType
           /\ dst' = 0 /\ Len(expanded') = 0 /\ Len(tokens') = 0 /\ Len(cmd'.argv) = 0
<1>1. src' = 1 /\ quote' = Unquoted /\ open' = FALSE /\ dst' = 0
  BY DEF ScanStart
<1>2. expanded' = <<>> /\ tokens' = <<>> /\ tok' = <<>> /\ cmd' = NoCommand
  BY DEF ScanStart
<1>3. cmd' \in CommandType /\ cmd'.argv = <<>>
  BY <1>2, EmptyTypes, Zenon
<1>4. expanded' \in Seq(Char \cup {NUL}) /\ tokens' \in Seq(Word) /\ tok' \in Word
  BY <1>2, EmptyTypes, Zenon
<1>5. Len(expanded') = 0 /\ Len(tokens') = 0 /\ Len(cmd'.argv) = 0
  BY <1>2, <1>3, EmptyTypes, Zenon
<1>6. src' \in Nat \ {0} /\ dst' \in Nat
  BY <1>1
<1>7. quote' \in Quotes \cup {Unquoted} /\ open' \in BOOLEAN
  BY <1>1, Zenon
<1> QED BY <1>1, <1>3, <1>4, <1>5, <1>6, <1>7, Zenon

\* The end of a turn of the loop, whatever ran.
LEMMA FreeInv ==
    ASSUME IInv, pc = "parsed", FreeCommands, pc' \in {"prompt", "ended"},
           rc' \in ERR_EXEC_CMD..OK, last_status' \in Statuses \cup {0, ERRNO, ERR_CMD_ARGS_BAD}
    PROVE  IInv'
<1> USE DEF IInv
<1>1. ScanStart /\ line' = <<>> /\ rest' = <<>> /\ seg' = <<>> /\ clist' = <<>>
  BY DEF FreeCommands, Forget, FreeList
<1>2. live' = live - Len(clist) /\ refused' = refused /\ n' = n
  BY DEF FreeCommands, FreeList
<1>3. live = refused + Len(clist) /\ Len(clist) \in Nat /\ refused \in Nat
  BY LenProperties DEF LiveInv, Building, TypeOK
<1>4. live' = refused' /\ live' \in Nat
  BY <1>2, <1>3
<1>5. TypeOK'
  <2>1. line' \in Word /\ rest' \in Word /\ seg' \in Word /\ clist' \in Seq(CommandType)
    BY <1>1, EmptyTypes, Zenon
  <2>2. n' \in 0..MaxLines /\ refused' \in Nat /\ live' \in Nat
    BY <1>2, <1>3, <1>4 DEF TypeOK
  <2>3. pc' \in {"prompt", "list", "expand", "tokens", "args", "parsed", "ended"}
    OBVIOUS
  <2> QED BY <1>1, <2>1, <2>2, <2>3, ScanStartType, Zenon DEF TypeOK
<1>6. PhaseInv'
  BY <1>1, ScanStartType, SizesAssumption DEF PhaseInv
<1>7. Len(clist') = 0
  BY <1>1, EmptyTypes, Zenon
<1>8. ListInv'
  BY <1>7, SizesAssumption DEF ListInv, Building
<1>9. LiveInv'
  BY <1>1, <1>3, <1>4, <1>7, <1>2 DEF LiveInv, Building
<1> QED BY <1>5, <1>6, <1>8, <1>9

\* A step that changes nothing keeps the invariant.
LEMMA LoopStutters ==
    ASSUME IInv, UNCHANGED vars
    PROVE  IInv'
<1> USE DEF vars, parserVars, listVars, scanVars, IInv
<1>1. TypeOK' /\ PhaseInv'
  BY DEF TypeOK, PhaseInv
<1>2. ListInv' /\ LiveInv'
  BY DEF ListInv, LiveInv, Building
<1> QED BY <1>1, <1>2

\* The steps of exec_local_cmd_loop after a line is parsed.
LEMMA LoopInv ==
    ASSUME IInv,
           EndOfInput \/ Rejected \/ ExitBuiltIn \/ SilentBuiltIn \/ CdBuiltIn
           \/ DragonBuiltIn \/ Executed \/ Exited
    PROVE  IInv'
<1>0. rc \in ERR_EXEC_CMD..OK /\ last_status \in Statuses \cup {0, ERRNO, ERR_CMD_ARGS_BAD}
  BY DEF IInv, TypeOK
<1>1. CASE EndOfInput
  <2> USE <1>1 DEF EndOfInput, parserVars, listVars, scanVars, IInv
  <2>1. TypeOK'
    BY DEF TypeOK
  <2>2. PhaseInv'
    BY DEF PhaseInv
  <2>3. ListInv' /\ LiveInv'
    BY DEF ListInv, LiveInv, Building
  <2> QED BY <2>1, <2>2, <2>3
<1>2. CASE Rejected
  <2> USE <1>2 DEF Rejected, Forget, IInv
  <2>1. line' \in Word /\ rest' \in Word /\ seg' \in Word
    BY EmptyTypes, Zenon
  <2>2. TypeOK'
    <3>1. /\ pc' = "prompt" /\ clist' = clist /\ rc' = rc /\ live' = live /\ refused' = refused
          /\ n' = n /\ last_status' = last_status
      OBVIOUS
    <3> QED BY <2>1, <3>1, ScanStartType DEF TypeOK
  <2>3. PhaseInv'
    BY ScanStartType, SizesAssumption DEF PhaseInv
  <2>4. ListInv' /\ LiveInv'
    BY DEF ListInv, LiveInv, Building
  <2> QED BY <2>2, <2>3, <2>4
<1>3. CASE ExitBuiltIn
  BY <1>0, <1>3, FreeInv DEF ExitBuiltIn, Alone
<1>4. CASE SilentBuiltIn
  BY <1>0, <1>4, FreeInv DEF SilentBuiltIn, Alone
<1>5. CASE CdBuiltIn
  <2>1. last_status' \in {0, ERRNO, ERR_CMD_ARGS_BAD}
    BY <1>5 DEF CdBuiltIn, CdStatus
  <2> QED BY <1>0, <1>5, <2>1, FreeInv DEF CdBuiltIn, Alone
<1>6. CASE DragonBuiltIn
  BY <1>0, <1>6, FreeInv DEF DragonBuiltIn, Alone
<1>7. CASE Executed
  <2>1. ERR_EXEC_CMD \in ERR_EXEC_CMD..OK
    BY DEF ERR_EXEC_CMD, OK
  <2>2. rc' \in ERR_EXEC_CMD..OK /\ last_status' \in Statuses \cup {0, ERRNO, ERR_CMD_ARGS_BAD}
    BY <1>0, <1>7, <2>1 DEF Executed
  <2> QED BY <1>7, <2>2, FreeInv DEF Executed
<1>8. CASE Exited
  BY <1>8, LoopStutters DEF Exited
<1> QED BY <1>1, <1>2, <1>3, <1>4, <1>5, <1>6, <1>7, <1>8

\* The codes that build_cmd_list returns are in the range of codes.
LEMMA BuiltType ==
    \A r \in {OK, WARN_NO_CMDS, ERR_TOO_MANY_COMMANDS, ERR_MEMORY} : r \in ERR_EXEC_CMD..OK
BY DEF OK, WARN_NO_CMDS, ERR_TOO_MANY_COMMANDS, ERR_MEMORY, ERR_EXEC_CMD

\* From the prompt to the first segment.
LEMMA ReadLineInv ==
    ASSUME IInv, NEW l \in Lines, ReadLine(l)
    PROVE  IInv'
<1> USE DEF IInv
<1>1. l \in Word /\ Len(l) \in Nat /\ Len(l) < SH_CMD_MAX
  BY LinesAssumption, LenProperties DEF Word
<1>2. Copied(l) \in Word
  BY <1>1, PrefixType, SizesAssumption DEF Copied
<1>3. line' \in Word
  BY <1>2, TrimType DEF ReadLine, BuildList
<1>4. /\ clist' = <<>> /\ UNCHANGED <<scanVars, live, refused, last_status>>
      /\ n' = n + 1 /\ n < MaxLines
  BY DEF ReadLine, BuildList
<1>5. \/ /\ rest' = <<>> /\ pc' = "parsed" /\ rc' \in {WARN_NO_CMDS, ERR_TOO_MANY_COMMANDS}
      \/ /\ pc' = "list" /\ rest' = line' /\ rc' = rc /\ line' # <<>> /\ ~TooManyPipes(line')
  BY Zenon DEF ReadLine, BuildList, Built
<1>6. TypeOK'
  <2>1. clist' \in Seq(CommandType) /\ rest' \in Word
    BY <1>3, <1>4, <1>5, EmptyTypes, Zenon
  <2>2. rc' \in ERR_EXEC_CMD..OK
    BY <1>5, BuiltType DEF TypeOK
  <2>3. n' \in 0..MaxLines
    BY <1>4, StatusAssumption DEF TypeOK
  <2>4. pc' \in {"prompt", "list", "expand", "tokens", "args", "parsed", "ended"}
    BY <1>5
  <2> QED BY <1>3, <1>4, <2>1, <2>2, <2>3, <2>4 DEF TypeOK, scanVars
<1>7. PhaseInv'
  BY <1>4, <1>5 DEF PhaseInv, scanVars
<1>8. Len(clist') = 0
  BY <1>4, EmptyTypes, Zenon
<1>9. ListInv'
  <2>1. CASE pc' = "parsed"
    BY <2>1, <1>8, SizesAssumption DEF ListInv, Building
  <2>2. CASE pc' = "list"
    <3>1. Segs(rest') <= CMD_MAX /\ Segs(rest') \in Nat
      BY <2>2, <1>3, <1>5, PipesFinite, SizesAssumption, SegsType DEF Segs, TooManyPipes
    <3> QED BY <2>2, <3>1, <1>8 DEF ListInv, Building
  <2> QED BY <1>5, <2>1, <2>2
<1>10. LiveInv'
  <2>1. pc = "prompt" /\ clist = <<>>
    BY DEF ReadLine, LiveInv
  <2>2. Len(clist) = 0
    BY <2>1, EmptyTypes, Zenon
  <2> QED BY <1>4, <1>5, <1>8, <2>1, <2>2 DEF LiveInv, Building, TypeOK
<1> QED BY <1>6, <1>7, <1>9, <1>10

\* What strtok_r may return, and what is left.
LEMMA RestTaken ==
    ASSUME TypeOK, SkipPipes(rest) # <<>>
    PROVE  /\ FirstSegment(SkipPipes(rest)) \in Word /\ AfterSegment(SkipPipes(rest)) \in Word
           /\ Segs(AfterSegment(SkipPipes(rest))) \in Nat
           /\ Segs(AfterSegment(SkipPipes(rest))) + 1 <= Segs(rest) /\ Segs(rest) \in Nat
<1>1. rest \in Word
  BY DEF TypeOK
<1> DEFINE s == SkipPipes(rest)
<1>2. s \in Word /\ Segs(s) <= Segs(rest)
  BY <1>1, SkipPipesFewer
<1>3. /\ FirstSegment(s) \in Word /\ AfterSegment(s) \in Word
      /\ Segs(AfterSegment(s)) + 1 <= Segs(s)
  BY <1>2, SegmentTaken
<1>4. Segs(AfterSegment(s)) \in Nat /\ Segs(s) \in Nat /\ Segs(rest) \in Nat
  BY <1>1, <1>2, <1>3, SegsType
<1> QED BY <1>2, <1>3, <1>4

\* The loop over the segments in build_cmd_list.
LEMMA ListStepInv ==
    ASSUME IInv, LastSegment \/ BlankSegment \/ NextSegment \/ MallocFailsHere,
           UNCHANGED <<n, last_status>>
    PROVE  IInv'
<1> USE DEF IInv
<1>1. pc = "list" /\ rest \in Word /\ Len(clist) \in Nat /\ Len(clist) + Segs(rest) <= CMD_MAX
  <2>1. pc = "list"
    BY DEF LastSegment, BlankSegment, NextSegment, MallocFailsHere
  <2>2. rest \in Word /\ Len(clist) \in Nat
    BY LenProperties DEF TypeOK
  <2> QED BY <2>1, <2>2, SegsType DEF ListInv, Building
<1>2. live = refused + Len(clist) /\ live \in Nat /\ refused \in Nat
  BY <1>1 DEF LiveInv, Building, TypeOK
<1>3. CASE LastSegment
  <2> USE <1>3 DEF LastSegment, Built, scanVars
  <2>1. TypeOK'
    <3>1. rc' \in ERR_EXEC_CMD..OK
      BY BuiltType
    <3> QED BY <3>1 DEF TypeOK
  <2>2. PhaseInv'
    BY DEF PhaseInv
  <2>3. ListInv'
    <3>1. Segs(rest) \in Nat
      BY <1>1, SegsType
    <3>2. pc' = "parsed" /\ clist' = clist
      OBVIOUS
    <3> QED BY <1>1, <3>1, <3>2, SizesAssumption DEF ListInv, Building
  <2>4. LiveInv'
    BY <1>2 DEF LiveInv, Building
  <2> QED BY <2>1, <2>2, <2>3, <2>4
<1>4. CASE BlankSegment \/ MallocFailsHere
  <2>1. /\ pc' = "parsed" /\ rc' \in {WARN_NO_CMDS, ERR_MEMORY} /\ live' = live - Len(clist)
        /\ clist' = <<>> /\ rest' = AfterSegment(SkipPipes(rest)) /\ SkipPipes(rest) # <<>>
        /\ UNCHANGED <<line, scanVars, refused>>
    BY <1>4, Zenon DEF BlankSegment, MallocFailsHere, FreeList, Built
  <2>2. rest' \in Word
    BY <2>1, RestTaken
  <2>3. Len(clist') = 0 /\ clist' \in Seq(CommandType)
    BY <2>1, EmptyTypes, Zenon
  <2>4. live' = refused' /\ live' \in Nat
    BY <1>1, <1>2, <2>1
  <2>5. TypeOK'
    <3>1. rc' \in ERR_EXEC_CMD..OK
      BY <2>1, BuiltType
    <3> QED BY <2>1, <2>2, <2>3, <2>4, <3>1 DEF TypeOK, scanVars
  <2>6. PhaseInv'
    BY <2>1 DEF PhaseInv, scanVars
  <2>7. ListInv'
    BY <2>1, <2>3, SizesAssumption DEF ListInv, Building
  <2>8. LiveInv'
    BY <2>1, <2>3, <2>4, <1>2 DEF LiveInv, Building
  <2> QED BY <2>5, <2>6, <2>7, <2>8
<1>5. CASE NextSegment
  <2>1. /\ pc' = "expand" /\ live' = live + 1 /\ UNCHANGED <<line, clist, rc, refused>>
        /\ seg' = FirstSegment(SkipPipes(rest)) /\ rest' = AfterSegment(SkipPipes(rest))
        /\ SkipPipes(rest) # <<>> /\ ScanStart
    BY <1>5, Zenon DEF NextSegment
  <2>2. seg' \in Word /\ rest' \in Word /\ Segs(rest') \in Nat /\ Segs(rest') + 1 <= Segs(rest)
        /\ Segs(rest) \in Nat
    BY <2>1, RestTaken
  <2>3. TypeOK'
    <3>1. live' \in Nat
      BY <1>2, <2>1
    <3> QED BY <2>1, <2>2, <3>1, ScanStartType DEF TypeOK
  <2>4. PhaseInv'
    BY <2>1, ScanStartType, SizesAssumption DEF PhaseInv
  <2>5. ListInv'
    BY <1>1, <2>1, <2>2, SizesAssumption DEF ListInv, Building
  <2>6. LiveInv'
    BY <1>1, <1>2, <2>1 DEF LiveInv, Building
  <2> QED BY <2>3, <2>4, <2>5, <2>6
<1> QED BY <1>3, <1>4, <1>5

\* What ListInv and LiveInv say is untouched by a step inside build_cmd_buff.
LEMMA SameListInv ==
    ASSUME IInv, pc \in {"expand", "tokens", "args"}, pc' \in {"expand", "tokens", "args"},
           UNCHANGED <<listVars, live, refused>>
    PROVE  ListInv' /\ LiveInv'
<1>1. ListInv'
  BY DEF IInv, ListInv, Building, listVars
<1>2. LiveInv'
  BY DEF IInv, LiveInv, Building, listVars
<1> QED BY <1>1, <1>2

\* One turn of the expansion: the margin leaves room for what it adds.
LEMMA ExpandInv ==
    ASSUME IInv, Expand, UNCHANGED <<n, last_status>>
    PROVE  IInv'
<1> DEFINE c == CharAt(seg, src)
           d == CharAt(seg, src + 1)
<1>1. pc = "expand"
  BY DEF Expand
<1>2. TypeOK /\ PhaseInv
  BY DEF IInv
<1>3. CASE Len(expanded) >= EXPANDED_MAX - Margin(c)
  <2>1. Refuse(ERR_CMD_OR_ARGS_TOO_BIG) /\ UNCHANGED scanVars
    BY <1>3 DEF Expand
  <2> QED BY <1>1, <2>1, RefuseInv
<1>4. CASE ~(Len(expanded) >= EXPANDED_MAX - Margin(c))
  <2>1. /\ expanded' = expanded \o Piece(c, d)
        /\ \/ c = NUL /\ pc' = "tokens" /\ src' = 1 /\ quote' = Unquoted
           \/ pc' = pc /\ src' = src + Len(Taken(c, d)) /\ quote' = NextQuote(quote, c)
        /\ UNCHANGED <<listVars, seg, tokens, tok, open, dst, cmd, live, refused>>
    BY <1>4, Zenon DEF Expand
  <2>2. c \in Char \cup {NUL} /\ d \in Char \cup {NUL}
    <3>1. seg \in Word /\ src \in Nat \ {0} /\ src + 1 \in Nat \ {0}
      BY <1>2 DEF TypeOK
    <3> QED BY <3>1, CharAtType
  <2> HIDE DEF c, d
  <2>3. /\ Piece(c, d) \in Seq(Char \cup {NUL}) /\ Len(Piece(c, d)) \in 1..Margin(c)
        /\ Len(Taken(c, d)) \in 1..2 /\ (c = NUL => Piece(c, d) = <<NUL>>)
    BY <2>2, PieceType
  <2>4. expanded \in Seq(Char \cup {NUL}) /\ Len(expanded) \in Nat
    BY <1>2, LenProperties DEF TypeOK
  <2>5. /\ expanded' \in Seq(Char \cup {NUL})
        /\ Len(expanded') = Len(expanded) + Len(Piece(c, d))
        /\ \A i \in 1..(Len(expanded) + Len(Piece(c, d))) : expanded'[i] =
              IF i <= Len(expanded) THEN expanded[i] ELSE Piece(c, d)[i - Len(expanded)]
    BY <2>1, <2>3, <2>4, ConcatProperties
  <2>6. Margin(c) \in {1, 4}
    BY DEF Margin
  <2>7. Len(expanded') <= EXPANDED_MAX /\ Len(expanded') \in Nat /\ 1 <= Len(expanded')
    BY <1>4, <2>3, <2>4, <2>5, <2>6, SizesAssumption DEF c
  <2>8. c = NUL => expanded'[Len(expanded')] = NUL
    <3> SUFFICES ASSUME c = NUL PROVE expanded'[Len(expanded')] = NUL
      OBVIOUS
    <3>1. Piece(c, d) = <<NUL>>
      BY <2>3
    <3>2. Len(Piece(c, d)) = 1 /\ Piece(c, d)[1] = NUL
      BY <3>1
    <3>3. Len(expanded) + 1 \in 1..(Len(expanded) + 1) /\ ~(Len(expanded) + 1 <= Len(expanded))
          /\ Len(expanded) + 1 - Len(expanded) = 1
      BY <2>4
    <3> QED BY <2>5, <3>2, <3>3
  <2>9. TypeOK'
    <3>1. src' \in Nat \ {0}
      BY <1>2, <2>1, <2>3 DEF TypeOK
    <3>2. quote' \in Quotes \cup {Unquoted}
      BY <1>2, <2>1, Zenon DEF TypeOK, NextQuote
    <3>3. pc' \in {"expand", "tokens"}
      BY <1>1, <2>1
    <3> QED BY <1>2, <2>1, <2>5, <3>1, <3>2, <3>3 DEF TypeOK, listVars
  <2>10. PhaseInv'
    <3>1. dst' = 0 /\ tokens' = tokens /\ cmd' = cmd
      BY <1>1, <1>2, <2>1 DEF PhaseInv
    <3>2. pc' = "tokens" => c = NUL /\ src' = 1
      BY <1>1, <2>1
    <3>3. Len(tokens') <= 2 * CMD_ARGV_MAX /\ Len(cmd'.argv) < CMD_ARGV_MAX
      BY <1>2, <3>1 DEF PhaseInv
    <3>4. pc' = "tokens" => src' <= Len(expanded') /\ expanded'[Len(expanded')] = NUL
      BY <2>7, <2>8, <3>2
    <3>5. dst' < SH_CMD_MAX
      BY <3>1, SizesAssumption
    <3> QED BY <2>7, <3>1, <3>3, <3>4, <3>5 DEF PhaseInv
  <2>11. pc' \in {"expand", "tokens", "args"}
    BY <1>1, <2>1
  <2> QED BY <1>1, <2>1, <2>9, <2>10, <2>11, SameListInv DEF IInv
<1> QED BY <1>3, <1>4

\* One turn of the tokenizer: it stops at the NUL, before the buffer ends.
LEMMA TokenizeInv ==
    ASSUME IInv, Tokenize, UNCHANGED <<n, last_status>>
    PROVE  IInv'
<1> DEFINE c == expanded[src]
<1>1. pc = "tokens" /\ TypeOK /\ PhaseInv
  BY DEF Tokenize, IInv
<1>2. CASE TokensFull(c) \/ BufferFull(c)
  <2>1. Refuse(ERR_CMD_OR_ARGS_TOO_BIG) /\ UNCHANGED scanVars
    BY <1>2 DEF Tokenize
  <2> QED BY <1>1, <2>1, RefuseInv
<1>3. CASE ~TokensFull(c) /\ ~BufferFull(c)
  <2>1. /\ tokens' = (IF Ends(c) /\ open THEN Append(tokens, tok) ELSE tokens)
        /\ \/ Ends(c) /\ tok' = <<>>
           \/ Belongs(c) /\ tok' = Append(tok, c)
           \/ tok' = tok
        /\ open' = ~Ends(c) /\ dst' = Advance(c) /\ quote' = NextQuote(quote, c)
        /\ \/ c = NUL /\ pc' = "args" /\ src' = 1
           \/ c # NUL /\ pc' = pc /\ src' = src + 1
        /\ UNCHANGED <<listVars, seg, expanded, cmd, live, refused>>
    BY <1>3, Zenon DEF Tokenize, Belongs
  <2>2. expanded \in Seq(Char \cup {NUL}) /\ Len(expanded) \in Nat /\ src \in 1..Len(expanded)
    BY <1>1, LenProperties DEF TypeOK, PhaseInv
  <2>3. c \in Char \cup {NUL}
    BY <2>2, ElementOfSeq
  <2> HIDE DEF c
  <2>4. Belongs(c) => c \in Char
    BY <2>3 DEF Belongs, Ends
  <2>5. tok' \in Word
    <3>1. tok \in Word
      BY <1>1 DEF TypeOK
    <3>2. Belongs(c) => Append(tok, c) \in Word
      BY <2>4, <3>1, AppendProperties DEF Word
    <3> QED BY <2>1, <3>1, <3>2, EmptyTypes, Zenon
  <2>6. tokens \in Seq(Word) /\ Len(tokens) \in Nat
    BY <1>1, LenProperties DEF TypeOK
  <2>7. tokens' \in Seq(Word) /\ Len(tokens') <= 2 * CMD_ARGV_MAX
    <3>1. CASE Ends(c) /\ open
      <4>1. tokens' = Append(tokens, tok) /\ tok \in Word
        BY <1>1, <2>1, <3>1 DEF TypeOK
      <4>2. tokens' \in Seq(Word) /\ Len(tokens') = Len(tokens) + 1
        BY <2>6, <4>1, AppendProperties
      <4>3. ~(Len(tokens) >= 2 * CMD_ARGV_MAX)
        BY <1>3, <3>1 DEF TokensFull, c
      <4> QED BY <2>6, <4>2, <4>3, SizesAssumption
    <3>2. CASE ~(Ends(c) /\ open)
      BY <1>1, <2>1, <2>6, <3>2 DEF PhaseInv
    <3> QED BY <3>1, <3>2
  <2>8. dst' \in Nat
    BY <1>1, <2>1 DEF Advance, TypeOK
  <2>9. c # NUL => dst' < SH_CMD_MAX
    BY <1>3, <2>1, <2>8, SizesAssumption DEF BufferFull, c
  <2>10. TypeOK'
    <3>1. quote' \in Quotes \cup {Unquoted}
      BY <1>1, <2>1, Zenon DEF TypeOK, NextQuote
    <3>2. src' \in Nat \ {0}
      BY <2>1, <2>2
    <3>3. pc' \in {"tokens", "args"}
      BY <1>1, <2>1
    <3>4. open' \in BOOLEAN
      BY <2>1, Zenon DEF Ends
    <3> QED BY <1>1, <2>1, <2>5, <2>7, <2>8, <3>1, <3>2, <3>3, <3>4 DEF TypeOK, listVars
  <2>11. PhaseInv'
    <3>1. pc' = "tokens" => c # NUL /\ src' = src + 1
      BY <1>1, <2>1
    <3>2. c # NUL => src + 1 <= Len(expanded)
      BY <1>1, <2>2 DEF PhaseInv, c
    <3>3. Len(expanded') <= EXPANDED_MAX /\ Len(cmd'.argv) < CMD_ARGV_MAX
      BY <1>1, <2>1 DEF PhaseInv
    <3>4. pc' = "tokens" => src' <= Len(expanded') /\ expanded'[Len(expanded')] = NUL
      BY <1>1, <2>1, <3>1, <3>2 DEF PhaseInv
    <3>5. pc' # "expand"
      BY <1>1, <2>1
    <3> QED BY <2>7, <2>9, <3>1, <3>3, <3>4, <3>5 DEF PhaseInv
  <2>12. pc' \in {"expand", "tokens", "args"}
    BY <1>1, <2>1
  <2> QED BY <1>1, <2>1, <2>10, <2>11, <2>12, SameListInv DEF IInv
<1> QED BY <1>2, <1>3

\* Redirections and arguments change cmd and src, and nothing else.
LEMMA ArgsStepInv ==
    ASSUME IInv, pc = "args", pc' = pc, src' \in Nat \ {0}, cmd' \in CommandType,
           Len(cmd'.argv) < CMD_ARGV_MAX,
           UNCHANGED <<listVars, seg, quote, expanded, tokens, tok, open, dst, live, refused,
                       n, last_status>>
    PROVE  IInv'
<1> USE DEF IInv
<1>1. TypeOK'
  BY DEF TypeOK, listVars
<1>2. PhaseInv'
  BY DEF PhaseInv
<1>3. ListInv' /\ LiveInv'
  BY SameListInv
<1> QED BY <1>1, <1>2, <1>3

\* One redirection.
LEMMA RedirectInv ==
    ASSUME IInv, Redirect, UNCHANGED <<n, last_status>>
    PROVE  IInv'
<1>1. /\ pc = "args" /\ TypeOK /\ Len(cmd.argv) < CMD_ARGV_MAX /\ src \in Nat \ {0}
      /\ tokens \in Seq(Word) /\ Len(tokens) \in Nat /\ src <= Len(tokens)
  BY LenProperties DEF Redirect, IInv, PhaseInv, TypeOK
<1>2. CASE src = Len(tokens) \/ tokens[src + 1] \in Redirections
  <2>1. Refuse(ERR_CMD_ARGS_BAD) /\ UNCHANGED scanVars
    BY <1>2, Zenon DEF Redirect
  <2> QED BY <1>1, <2>1, RefuseInv
<1>3. CASE ~(src = Len(tokens) \/ tokens[src + 1] \in Redirections)
  <2> DEFINE file == tokens[src + 1]
             appends == tokens[src] = <<">", ">">>
  <2>1. /\ \/ cmd' = [cmd EXCEPT !.input = file]
           \/ cmd' = [cmd EXCEPT !.output = file, !.append = appends]
        /\ src' = src + 2 /\ pc' = pc
        /\ UNCHANGED <<listVars, seg, quote, expanded, tokens, tok, open, dst, live, refused>>
    BY <1>3, Zenon DEF Redirect
  <2>2. file \in Word
    <3>1. src + 1 \in 1..Len(tokens)
      BY <1>1, <1>3
    <3> QED BY <1>1, <3>1, ElementOfSeq
  <2>3. appends \in BOOLEAN
    OBVIOUS
  <2> HIDE DEF file, appends
  <2>4. cmd' \in CommandType /\ cmd'.argv = cmd.argv
    <3>1. cmd \in CommandType
      BY <1>1 DEF TypeOK
    <3> QED BY <2>1, <2>2, <2>3, <3>1 DEF CommandType
  <2>5. src' \in Nat \ {0}
    BY <1>1, <2>1
  <2> QED BY <1>1, <2>1, <2>4, <2>5, ArgsStepInv
<1> QED BY <1>2, <1>3

\* One argument: argv keeps room for its NULL.
LEMMA ArgumentInv ==
    ASSUME IInv, Argument, UNCHANGED <<n, last_status>>
    PROVE  IInv'
<1>1. /\ pc = "args" /\ TypeOK /\ src \in Nat \ {0} /\ cmd \in CommandType
      /\ tokens \in Seq(Word) /\ Len(tokens) \in Nat /\ src <= Len(tokens)
  BY LenProperties DEF Argument, IInv, TypeOK
<1>2. CASE ArgvFull
  <2>1. Refuse(ERR_CMD_OR_ARGS_TOO_BIG) /\ UNCHANGED scanVars
    BY <1>2, Zenon DEF Argument
  <2> QED BY <1>1, <2>1, RefuseInv
<1>3. CASE ~ArgvFull
  <2>1. /\ cmd' = [cmd EXCEPT !.argv = Append(@, tokens[src])] /\ src' = src + 1 /\ pc' = pc
        /\ UNCHANGED <<listVars, seg, quote, expanded, tokens, tok, open, dst, live, refused>>
    BY <1>3, Zenon DEF Argument
  <2>2. cmd.argv \in Seq(Word) /\ Len(cmd.argv) \in Nat /\ tokens[src] \in Word
    <3>1. cmd.argv \in Seq(Word)
      BY <1>1 DEF CommandType
    <3>2. src \in 1..Len(tokens)
      BY <1>1
    <3> QED BY <1>1, <3>1, <3>2, ElementOfSeq, LenProperties
  <2>3. /\ Append(cmd.argv, tokens[src]) \in Seq(Word)
        /\ Len(Append(cmd.argv, tokens[src])) = Len(cmd.argv) + 1
    BY <2>2, AppendProperties
  <2>4. cmd' \in CommandType /\ cmd'.argv = Append(cmd.argv, tokens[src])
    BY <1>1, <2>1, <2>3 DEF CommandType
  <2>5. Len(cmd'.argv) < CMD_ARGV_MAX
    BY <1>3, <2>2, <2>3, <2>4, SizesAssumption DEF ArgvFull
  <2>6. src' \in Nat \ {0}
    BY <1>1, <2>1
  <2> QED BY <1>1, <2>1, <2>4, <2>5, <2>6, ArgsStepInv
<1> QED BY <1>2, <1>3

\* A command is moved from the one being built to the list.
LEMMA CommandBuiltInv ==
    ASSUME IInv, CommandBuilt, UNCHANGED <<n, last_status>>
    PROVE  IInv'
<1> USE DEF IInv
<1>1. pc = "args" /\ UNCHANGED scanVars
  BY Zenon DEF CommandBuilt
<1>2. CASE cmd.argv = <<>>
  <2>1. Refuse(WARN_NO_CMDS)
    BY <1>2, Zenon DEF CommandBuilt
  <2> QED BY <1>1, <2>1, RefuseInv
<1>3. CASE cmd.argv # <<>>
  <2>1. clist' = Append(clist, cmd) /\ pc' = "list" /\ UNCHANGED <<line, rest, rc, live, refused>>
    BY <1>3, Zenon DEF CommandBuilt
  <2>2. /\ clist \in Seq(CommandType) /\ Len(clist) \in Nat /\ cmd \in CommandType
        /\ rest \in Word /\ live \in Nat /\ refused \in Nat
    BY LenProperties DEF TypeOK
  <2>3. clist' \in Seq(CommandType) /\ Len(clist') = Len(clist) + 1
    BY <2>1, <2>2, AppendProperties
  <2>4. TypeOK'
    BY <1>1, <2>1, <2>3 DEF TypeOK, scanVars
  <2>5. PhaseInv'
    BY <1>1, <2>1 DEF PhaseInv, scanVars
  <2>6. ListInv'
    <3>1. Len(clist) + 1 + Segs(rest) <= CMD_MAX /\ Segs(rest) \in Nat
      BY <1>1, <2>2, SegsType DEF ListInv, Building
    <3>2. rest' = rest
      BY <2>1
    <3>3. Len(clist') + 0 + Segs(rest') <= CMD_MAX
      BY <2>2, <2>3, <3>1, <3>2, SizesAssumption
    <3> QED BY <2>1, <3>3 DEF ListInv, Building
  <2>7. LiveInv'
    BY <1>1, <2>1, <2>2, <2>3 DEF LiveInv, Building
  <2> QED BY <2>4, <2>5, <2>6, <2>7
<1> QED BY <1>2, <1>3

\* Every step of the shell keeps the invariant.
LEMMA NextInv == IInv /\ [Next]_vars => IInv'
<1> SUFFICES ASSUME IInv, [Next]_vars PROVE IInv'
  OBVIOUS
<1>1. CASE \E l \in Lines : ReadLine(l)
  BY <1>1, ReadLineInv
<1>2. CASE Parse /\ UNCHANGED <<n, last_status>>
  <2>1. CASE LastSegment \/ BlankSegment \/ NextSegment \/ MallocFailsHere
    BY <1>2, <2>1, ListStepInv
  <2>2. CASE Expand
    BY <1>2, <2>2, ExpandInv
  <2>3. CASE Tokenize
    BY <1>2, <2>3, TokenizeInv
  <2>4. CASE Redirect
    BY <1>2, <2>4, RedirectInv
  <2>5. CASE Argument
    BY <1>2, <2>5, ArgumentInv
  <2>6. CASE CommandBuilt
    BY <1>2, <2>6, CommandBuiltInv
  <2> QED BY <1>2, <2>1, <2>2, <2>3, <2>4, <2>5, <2>6 DEF Parse
<1>3. CASE EndOfInput \/ Rejected \/ ExitBuiltIn \/ SilentBuiltIn \/ CdBuiltIn
           \/ DragonBuiltIn \/ Executed \/ Exited
  BY <1>3, LoopInv
<1>4. CASE UNCHANGED vars
  BY <1>4, LoopStutters
<1> QED BY <1>1, <1>2, <1>3, <1>4 DEF Next

\* The inductive invariant holds in every state of the shell.
THEOREM Invariant == Spec => []IInv
BY InitInv, NextInv, PTL DEF Spec

----------------------------------------------------------------------------
(* What the loops of build_cmd_buff make of a segment. *)

(* Where the expansion puts a blank: on both sides of an operator. *)
Border(s, i) == (Operator(s, i) \/ Operator(s, i - 1)) /\ ~Second(s, i)

(* The k-th word of s, and how many begin up to i. *)
WordOf(s, k) ==
    LET i == Sorted(WordStarts(s))[k] IN Letters(s, i, WordEnd(s, i))
Rank(s, i) == Cardinality(UpTo(WordStarts(s), i))

----------------------------------------------------------------------------
(* What the places of a segment mean. *)

(* A line is a sequence of characters. *)
LEMMA WordFacts ==
    ASSUME NEW s \in Word
    PROVE  /\ Len(s) \in Nat /\ DOMAIN s = 1..Len(s)
           /\ \A i \in 1..Len(s) : s[i] \in Char
BY LenProperties, ElementOfSeq DEF Word

(* The characters that matter to the parser are told apart. *)
LEMMA NoNul ==
    /\ NUL \notin Char /\ Unquoted \notin Char /\ NUL # " " /\ NUL \notin Quotes
    /\ Unquoted \notin Quotes /\ " " \notin Quotes /\ " " \in Char
    /\ "<" \notin Quotes /\ ">" \notin Quotes /\ " " # "<" /\ " " # ">" /\ "<" # ">"
    /\ "<" \in Char /\ ">" \in Char
<1>1. /\ NUL \notin Special /\ Unquoted \notin Special /\ NUL # " " /\ " " \notin Quotes
      /\ " " \in Special /\ NUL \notin Quotes /\ Unquoted \notin Quotes
      /\ "<" \notin Quotes /\ ">" \notin Quotes /\ " " # "<" /\ " " # ">" /\ "<" # ">"
      /\ "<" \in Special /\ ">" \in Special
  BY DEF Special, Quotes, NUL, Unquoted
<1> QED
  BY <1>1, PlainAssumption DEF Char

\* The quote that is open after a place, from the one before.
QuoteNext(q, c) ==
    IF q = Unquoted /\ c \in Quotes THEN c ELSE IF c = q THEN Unquoted ELSE q

(* The quote that is open after each place, one place after the other. *)
LEMMA QuoteFacts ==
    ASSUME NEW s \in Word
    PROVE  /\ QuoteAfter(s)[0] = Unquoted
           /\ \A i \in 0..Len(s) : QuoteAfter(s)[i] \in Quotes \cup {Unquoted}
           /\ \A i \in 1..Len(s) : QuoteAfter(s)[i] = QuoteNext(QuoteAfter(s)[i - 1], s[i])
<1> DEFINE l == Len(s)
           V == Quotes \cup {Unquoted}
           step == [p \in (1..l) \X V |-> QuoteNext(p[2], s[p[1]])]
           Body(q) == [i \in 0..l |->
                IF i = 0 THEN Unquoted
                ELSE IF q[i - 1] = Unquoted /\ s[i] \in Quotes THEN s[i]
                ELSE IF s[i] = q[i - 1] THEN Unquoted ELSE q[i - 1]]
           Q == CHOOSE q : q = Body(q)
<1>1. l \in Nat
  BY WordFacts
<1>2. step \in [(1..l) \X V -> V]
  <2>1. \A p \in (1..l) \X V : QuoteNext(p[2], s[p[1]]) \in V
    BY DEF QuoteNext
  <2> QED
    BY <2>1
<1>3. PICK f : Follows(f, l, V, Unquoted, step)
  <2>1. Unquoted \in V
    OBVIOUS
  <2> HIDE DEF step, l, V
  <2> QED
    BY <1>1, <1>2, <2>1, RecursionExists
<1>4. /\ f \in [0..l -> V] /\ f[0] = Unquoted
      /\ \A i \in 1..l : f[i] = QuoteNext(f[i - 1], s[i])
  <2>1. f \in [0..l -> V] /\ f[0] = Unquoted
    BY <1>3 DEF Follows
  <2>2. ASSUME NEW i \in 1..l PROVE f[i] = QuoteNext(f[i - 1], s[i])
    <3>1. i - 1 \in 0..l
      BY <1>1
    <3>2. f[i - 1] \in V
      BY <2>1, <3>1
    <3>3. step[<<i, f[i - 1]>>] = QuoteNext(f[i - 1], s[i])
      BY <3>2
    <3>4. f[i] = step[<<i, f[i - 1]>>]
      BY <1>3 DEF Follows
    <3> QED
      BY <3>3, <3>4
  <2> QED
    BY <2>1, <2>2
<1> HIDE DEF step
<1>5. f = Body(f)
  <2> HIDE DEF l, V
  <2>1. ASSUME NEW i \in 0..l
        PROVE  f[i] = IF i = 0 THEN Unquoted
                      ELSE IF f[i - 1] = Unquoted /\ s[i] \in Quotes THEN s[i]
                      ELSE IF s[i] = f[i - 1] THEN Unquoted ELSE f[i - 1]
    <3>1. i = 0 \/ i \in 1..l
      BY <1>1
    <3> QED
      BY <1>4, <3>1 DEF QuoteNext
  <2>2. f = [i \in 0..l |-> f[i]]
    BY <1>4
  <2> QED
    BY <2>1, <2>2
<1>6. Q = Body(Q)
  <2> HIDE DEF Body
  <2> QED
    BY <1>5
<1>7. QuoteAfter(s) = Q
  BY DEF QuoteAfter
<1> HIDE DEF Q, l
<1>8. Q[0] = Unquoted /\ \A i \in 1..l : Q[i] = QuoteNext(Q[i - 1], s[i])
  <2>1. Q[0] = Unquoted
    BY <1>1, <1>6
  <2>2. ASSUME NEW i \in 1..l PROVE Q[i] = QuoteNext(Q[i - 1], s[i])
    <3>1. i \in 0..l /\ i # 0
      BY <1>1
    <3> QED
      BY <1>6, <3>1 DEF QuoteNext
  <2> QED
    BY <2>1, <2>2
<1>9. \A i \in 0..l : Q[i] \in V
  <2> DEFINE P == {i \in 0..l : Q[i] \in V}
  <2>1. 0 \in P
    BY <1>1, <1>8
  <2>2. ASSUME NEW i \in 1..l, i - 1 \in P PROVE i \in P
    <3>1. i \in 0..l /\ Q[i] = QuoteNext(Q[i - 1], s[i]) /\ Q[i - 1] \in V
      BY <1>1, <1>8, <2>2
    <3> QED
      BY <3>1 DEF QuoteNext
  <2> HIDE DEF P
  <2>3. \A i \in 0..l : i \in P
    BY <1>1, <2>1, <2>2, UpToInduction
  <2> QED
    BY <2>3 DEF P
<1> QED
  BY <1>7, <1>8, <1>9 DEF l

(* One place more, without the recursion. *)
LEMMA NextPlace ==
    ASSUME NEW s \in Word, NEW j \in Nat, j < Len(s)
    PROVE  /\ j + 1 \in 1..Len(s) /\ s[j + 1] \in Char
           /\ Free(s, j + 1) <=> QuoteAfter(s)[j] = Unquoted
           /\ QuoteAfter(s)[j + 1] = QuoteNext(QuoteAfter(s)[j], s[j + 1])
           /\ QuoteAfter(s)[j] \in Quotes \cup {Unquoted}
           /\ Mark(s, j + 1) <=>
                 s[j + 1] \in Quotes /\ QuoteAfter(s)[j] \in {Unquoted, s[j + 1]}
<1> DEFINE i == j + 1
<1>1. Len(s) \in Nat /\ DOMAIN s = 1..Len(s) /\ \A p \in 1..Len(s) : s[p] \in Char
  BY WordFacts
<1>2. i \in 1..Len(s) /\ i - 1 = j /\ j \in 0..Len(s)
  BY <1>1
<1> HIDE DEF i
<1>3. s[i] \in Char /\ (Free(s, i) <=> QuoteAfter(s)[j] = Unquoted)
  BY <1>1, <1>2 DEF Free
<1>4. QuoteAfter(s)[i] = QuoteNext(QuoteAfter(s)[j], s[i])
  <2>1. QuoteAfter(s)[i] = QuoteNext(QuoteAfter(s)[i - 1], s[i])
    BY <1>2, QuoteFacts
  <2> QED
    BY <1>2, <2>1
<1>5. Mark(s, i) <=> s[i] \in Quotes /\ QuoteAfter(s)[j] \in {Unquoted, s[i]}
  BY <1>2 DEF Mark
<1>6. QuoteAfter(s)[j] \in Quotes \cup {Unquoted}
  BY <1>2, QuoteFacts
<1> QED
  BY <1>2, <1>3, <1>4, <1>5, <1>6 DEF i

(* The halves of >> alternate along a run of >. *)
LEMMA SecondFacts ==
    ASSUME NEW s \in Word, NEW i \in Nat \ {0}
    PROVE  Second(s, i) <=> More(s, i) /\ More(s, i - 1) /\ ~Second(s, i - 1)
<1> DEFINE S(k) == {j \in 0..(k - 1) : ~More(s, j)}
<1>1. ~More(s, 0)
  <2>1. 0 \notin DOMAIN s
    BY WordFacts
  <2> QED
    BY <2>1 DEF More, Free
<1>2. ASSUME NEW k \in Nat \ {0}
      PROVE  /\ Max(S(k)) \in 0..(k - 1) /\ ~More(s, Max(S(k)))
             /\ \A j \in 0..(k - 1) : ~More(s, j) => j <= Max(S(k))
  <2>1. k - 1 \in Nat /\ S(k) \in SUBSET (0..(k - 1)) /\ 0 \in S(k)
    BY <1>1
  <2>2. Max(S(k)) \in S(k) /\ \A x \in S(k) : x <= Max(S(k))
    BY <2>1, MaxExists
  <2> QED
    BY <2>2
<1>3. ASSUME NEW k \in Nat
      PROVE  Second(s, k) <=> More(s, k) /\ (k - Max(S(k))) % 2 = 0
  BY DEF Second
<1> HIDE DEF S
<1>4. CASE ~More(s, i)
  BY <1>3, <1>4
<1>5. CASE More(s, i) /\ ~More(s, i - 1)
  <2>1. Max(S(i)) = i - 1
    <3>1. i - 1 \in 0..(i - 1)
      OBVIOUS
    <3>2. i - 1 <= Max(S(i)) /\ Max(S(i)) \in 0..(i - 1)
      BY <1>2, <1>5, <3>1
    <3> QED
      BY <3>2
  <2>2. (i - Max(S(i))) % 2 # 0
    <3>1. i - Max(S(i)) = 1
      BY <2>1
    <3> QED
      BY <3>1
  <2> QED
    BY <1>3, <1>5, <2>2
<1>6. CASE More(s, i) /\ More(s, i - 1)
  <2> DEFINE k == i - 1
  <2>1. k \in Nat \ {0}
    BY <1>1, <1>6
  <2>2. S(i) = S(k)
    <3>1. \A j : j \in 0..k /\ ~More(s, j) <=> j \in 0..(k - 1) /\ ~More(s, j)
      BY <1>6, <2>1
    <3> QED
      BY <3>1 DEF S
  <2>3. Max(S(k)) \in 0..(k - 1)
    BY <1>2, <2>1
  <2>4. (i - Max(S(k))) % 2 = 0 <=> (k - Max(S(k))) % 2 # 0
    <3> DEFINE x == k - Max(S(k))
    <3>1. x \in Nat /\ i - Max(S(k)) = x + 1
      BY <2>1, <2>3
    <3> HIDE DEF x
    <3>2. (x + 1) % 2 = 0 <=> x % 2 # 0
      BY <3>1
    <3> QED
      BY <3>1, <3>2 DEF x
  <2>5. Second(s, k) <=> (k - Max(S(k))) % 2 = 0
    BY <1>3, <1>6, <2>1
  <2>6. Second(s, i) <=> (i - Max(S(i))) % 2 = 0
    BY <1>3, <1>6
  <2> QED
    BY <1>6, <2>2, <2>4, <2>5, <2>6
<1> QED
  BY <1>4, <1>5, <1>6

(* A place in front of which a blank is put is outside quotes. *)
LEMMA BorderFacts ==
    ASSUME NEW s \in Word, NEW j \in 0..Len(s), Border(s, j + 1)
    PROVE  QuoteAfter(s)[j] = Unquoted
<1>1. Len(s) \in Nat /\ DOMAIN s = 1..Len(s)
  BY WordFacts
<1>2. CASE Operator(s, j + 1)
  <2>1. j + 1 - 1 = j
    BY <1>1
  <2> QED
    BY <1>2, <2>1 DEF Operator, Free
<1>3. CASE Operator(s, j)
  <2> DEFINE p == j - 1
  <2>1. j \in 1..Len(s) /\ QuoteAfter(s)[p] = Unquoted /\ s[j] \in {"<", ">"}
    BY <1>1, <1>3 DEF Operator, Free
  <2>2. QuoteAfter(s)[j] = QuoteNext(QuoteAfter(s)[p], s[j])
    BY <2>1, QuoteFacts
  <2> HIDE DEF p
  <2>3. s[j] \notin Quotes /\ s[j] # Unquoted
    BY <2>1, NoNul
  <2> QED
    BY <2>1, <2>2, <2>3 DEF QuoteNext
<1>4. j + 1 - 1 = j
  BY <1>1
<1> QED
  BY <1>2, <1>3, <1>4 DEF Border

(* A word begins at a place that is no blank after a blank, in front of which a
   blank is put, or that is the first. *)
LEMMA StartsAre ==
    ASSUME NEW s \in Word, NEW j \in Nat, j < Len(s)
    PROVE  j + 1 \in WordStarts(s) <=>
               ~Blank(s, j + 1) /\ (j = 0 \/ Blank(s, j) \/ Border(s, j + 1))
<1> DEFINE i == j + 1
<1>1. Len(s) \in Nat /\ DOMAIN s = 1..Len(s)
  BY WordFacts
<1>2. i \in DOMAIN s /\ i \in Nat \ {0} /\ i - 1 = j /\ (i = 1 <=> j = 0)
  BY <1>1
<1> HIDE DEF i
<1>3. i \in WordStarts(s) <=>
        /\ ~Blank(s, i) /\ ~Second(s, i)
        /\ i = 1 \/ Blank(s, j) \/ Operator(s, i) \/ Operator(s, j)
  BY <1>2 DEF WordStarts
<1>4. Second(s, i) => More(s, j)
  BY <1>2, SecondFacts
<1>5. More(s, j) => j # 0 /\ ~Blank(s, j)
  <2>1. 0 \notin DOMAIN s
    BY <1>1
  <2> QED
    BY <2>1, NoNul DEF More, Free, Blank
<1>6. Border(s, i) <=> (Operator(s, i) \/ Operator(s, j)) /\ ~Second(s, i)
  BY <1>2 DEF Border
<1> QED
  BY <1>2, <1>3, <1>4, <1>5, <1>6, Zenon DEF i

----------------------------------------------------------------------------
(* Words. *)

(* The letters up to one place more: a quote that opens or closes adds nothing. *)
Kept(s, i, j) == {p \in i..j : ~Mark(s, p)}

(* The letters of a part of a segment are a word. *)
LEMMA KeptFacts ==
    ASSUME NEW s \in Word, NEW i \in Nat \ {0}, NEW j \in 0..Len(s)
    PROVE  /\ Kept(s, i, j) \in SUBSET (0..Len(s)) /\ \A p \in Kept(s, i, j) : s[p] \in Char /\ p <= j
           /\ Letters(s, i, j) = Picked(s, Kept(s, i, j))
           /\ Letters(s, i, j) \in Word
           /\ j < i => Letters(s, i, j) = <<>>
<1> DEFINE K == Kept(s, i, j)
<1>1. Len(s) \in Nat /\ \A p \in 1..Len(s) : s[p] \in Char
  BY WordFacts
<1>2. K \in SUBSET (0..Len(s)) /\ \A p \in K : s[p] \in Char /\ p <= j
  BY <1>1 DEF Kept
<1>3. Letters(s, i, j) = Picked(s, K)
  BY DEF Letters, Kept
<1>4. j < i => K = {}
  BY <1>1 DEF Kept
<1> HIDE DEF K
<1>5. Picked(s, K) \in Seq(Char)
  BY <1>1, <1>2, PickedType
<1>6. j < i => Picked(s, K) = <<>>
  BY <1>4, PickedEmpty
<1> QED
  BY <1>2, <1>3, <1>5, <1>6 DEF Word, K

(* One place more adds its character, unless that is a quote that opens or closes. *)
LEMMA LettersNext ==
    ASSUME NEW s \in Word, NEW i \in Nat \ {0}, NEW j \in Nat, i <= j + 1, j < Len(s)
    PROVE  Letters(s, i, j + 1) =
               IF Mark(s, j + 1) THEN Letters(s, i, j) ELSE Append(Letters(s, i, j), s[j + 1])
<1> DEFINE e == j + 1
           K == Kept(s, i, j)
<1>1. Len(s) \in Nat /\ j \in 0..Len(s) /\ e \in 0..Len(s) /\ s[e] \in Char
  BY WordFacts, NextPlace
<1>2. K \in SUBSET (0..Len(s)) /\ (\A p \in K : s[p] \in Char /\ p <= j) /\ Letters(s, i, j) = Picked(s, K)
  BY <1>1, KeptFacts
<1>3. Kept(s, i, e) = IF Mark(s, e) THEN K ELSE K \cup {e}
  BY DEF Kept
<1>4. \A p \in K : p < e
  BY <1>2
<1> HIDE DEF e, K
<1>5. Letters(s, i, e) = Picked(s, Kept(s, i, e))
  BY <1>1, KeptFacts
<1>6. Picked(s, K \cup {e}) = Append(Picked(s, K), s[e])
  <2>1. \A p \in K : s[p] \in Char
    BY <1>2
  <2> QED
    BY <1>1, <1>2, <1>4, <2>1, PickedAppend
<1> QED
  BY <1>2, <1>3, <1>5, <1>6 DEF e

(* Words begin at places of the segment. *)
LEMMA StartsFacts ==
    ASSUME NEW m \in Word
    PROVE  /\ WordStarts(m) \in SUBSET (1..Len(m)) /\ WordStarts(m) \in SUBSET (0..Len(m))
           /\ Len(m) \in Nat
           /\ Cardinality(WordStarts(m)) \in Nat
           /\ \A i : Rank(m, i) \in Nat /\ Rank(m, i) <= Cardinality(WordStarts(m))
           /\ Rank(m, 0) = 0 /\ Rank(m, Len(m)) = Cardinality(WordStarts(m))
<1>1. Len(m) \in Nat /\ WordStarts(m) \in SUBSET (1..Len(m))
  BY WordFacts DEF WordStarts
<1>2. WordStarts(m) \in SUBSET (0..Len(m))
  BY <1>1
<1>3. /\ Cardinality(WordStarts(m)) \in Nat
      /\ \A i : Rank(m, i) \in Nat /\ Rank(m, i) <= Cardinality(WordStarts(m))
  BY <1>1, <1>2, UpToFinite DEF Rank
<1>4. UpTo(WordStarts(m), Len(m)) = WordStarts(m) /\ UpTo(WordStarts(m), 0) = {}
  BY <1>1, UpToEnds
<1>5. Rank(m, 0) = 0 /\ Rank(m, Len(m)) = Cardinality(WordStarts(m))
  BY <1>4, FS_EmptySet DEF Rank
<1> QED
  BY <1>1, <1>2, <1>3, <1>5

(* One place more counts one word more exactly when a word begins there. *)
LEMMA RankNext ==
    ASSUME NEW m \in Word, NEW j \in Nat, j < Len(m)
    PROVE  /\ j + 1 \notin WordStarts(m) => Rank(m, j + 1) = Rank(m, j)
           /\ j + 1 \in WordStarts(m) => Rank(m, j + 1) = Rank(m, j) + 1
<1>1. WordStarts(m) \in SUBSET (0..Len(m)) /\ Len(m) \in Nat
  BY StartsFacts
<1>2. /\ j + 1 \notin WordStarts(m) =>
            UpTo(WordStarts(m), j + 1) = UpTo(WordStarts(m), j)
      /\ j + 1 \in WordStarts(m) =>
            Cardinality(UpTo(WordStarts(m), j + 1)) = Cardinality(UpTo(WordStarts(m), j)) + 1
  BY <1>1, UpToNext
<1> QED
  BY <1>2 DEF Rank

(* The k-th word begins where k words have begun. *)
LEMMA RankedStart ==
    ASSUME NEW m \in Word, NEW i \in WordStarts(m)
    PROVE  Sorted(WordStarts(m))[Rank(m, i)] = i
<1>1. WordStarts(m) \in SUBSET (0..Len(m)) /\ Len(m) \in Nat
  BY StartsFacts
<1> QED
  BY <1>1, SortedRank DEF Rank

(* The word that begins at i ends where a blank or another word follows. *)
LEMMA EndFacts ==
    ASSUME NEW m \in Word, NEW i \in Nat \ {0}, NEW e \in Nat, i <= e, e <= Len(m),
           e = Len(m) \/ Blank(m, e + 1) \/ e + 1 \in WordStarts(m),
           \A j \in (i + 1)..e : ~Blank(m, j) /\ j \notin WordStarts(m)
    PROVE  WordEnd(m, i) = e
<1> DEFINE S == {j \in i..Len(m) : j = Len(m) \/ Blank(m, j + 1) \/ j + 1 \in WordStarts(m)}
<1>1. Len(m) \in Nat
  BY WordFacts
<1>2. e \in S /\ S \in SUBSET Nat
  BY <1>1
<1>3. Min(S) \in S /\ Min(S) <= e
  BY <1>2, MinExists
<1>4. /\ Min(S) \in i..Len(m)
      /\ Min(S) = Len(m) \/ Blank(m, Min(S) + 1) \/ Min(S) + 1 \in WordStarts(m)
  BY <1>3
<1>5. WordEnd(m, i) = Min(S)
  BY DEF WordEnd
<1> HIDE DEF S
<1>6. Min(S) < e => Min(S) + 1 \in (i + 1)..e /\ Min(S) # Len(m)
  BY <1>1, <1>4
<1> QED
  BY <1>1, <1>3, <1>4, <1>5, <1>6

(* The words are a sequence of words. *)
LEMMA WordsFacts ==
    ASSUME NEW m \in Word
    PROVE  /\ Words(m) \in Seq(Word) /\ Len(Words(m)) = Cardinality(WordStarts(m))
           /\ \A k \in 1..Cardinality(WordStarts(m)) : Words(m)[k] = WordOf(m, k)
<1> DEFINE c == Cardinality(WordStarts(m))
           starts == Sorted(WordStarts(m))
<1>1. /\ WordStarts(m) \in SUBSET (1..Len(m)) /\ WordStarts(m) \in SUBSET (0..Len(m))
      /\ Len(m) \in Nat /\ c \in Nat
  BY StartsFacts
<1>2. DOMAIN starts = 1..c /\ \A k \in 1..c : starts[k] \in WordStarts(m)
  BY <1>1, SortedIsSeq
<1>3. Words(m) = [k \in 1..c |-> Letters(m, starts[k], WordEnd(m, starts[k]))]
  BY <1>2 DEF Words
<1>4. \A k \in 1..c : WordOf(m, k) = Letters(m, starts[k], WordEnd(m, starts[k]))
  BY DEF WordOf
<1>5. ASSUME NEW i \in 1..Len(m) PROVE Letters(m, i, WordEnd(m, i)) \in Word
  <2> DEFINE S == {j \in i..Len(m) : j = Len(m) \/ Blank(m, j + 1) \/ j + 1 \in WordStarts(m)}
             e == WordEnd(m, i)
  <2>1. S \in SUBSET Nat /\ Len(m) \in S
    BY <1>1
  <2>2. Min(S) \in S
    BY <2>1, MinExists
  <2>3. e = Min(S)
    BY DEF WordEnd
  <2>4. e \in 0..Len(m) /\ i \in Nat \ {0}
    BY <1>1, <2>2, <2>3
  <2> HIDE DEF e
  <2>5. Letters(m, i, e) \in Word
    BY <2>4, KeptFacts
  <2> QED
    BY <2>5 DEF e
<1> HIDE DEF c, starts
<1>6. \A k \in 1..c : Letters(m, starts[k], WordEnd(m, starts[k])) \in Word
  BY <1>1, <1>2, <1>5
<1>7. Words(m) \in [1..c -> Word]
  BY <1>3, <1>6
<1>8. Words(m) \in Seq(Word) /\ Len(Words(m)) = c
  BY <1>1, <1>7
<1> QED
  BY <1>3, <1>4, <1>8 DEF c

----------------------------------------------------------------------------
(* The expansion of the operators: P says how much of the segment s the first
   places of e stand for.  Each is a copy of the next character of s or a blank
   beside an operator, and no two copies stand side by side that should not. *)
At(e, k, c) == e[k] = c
Gap(e, k) == e[k] = " "
Copies(P, s, e, k) == P[k] = P[k - 1] + 1 /\ At(e, k, s[P[k]])
Pads(P, s, e, k) == P[k] = P[k - 1] /\ Gap(e, k) /\ Border(s, P[k] + 1)
Expands(P, s, e, l, j) ==
    /\ P \in [0..l -> 0..Len(s)] /\ P[0] = 0 /\ P[l] = j
    /\ \A k \in 1..l : Copies(P, s, e, k) \/ Pads(P, s, e, k)
    /\ \A k \in 2..l : Copies(P, s, e, k - 1) /\ Copies(P, s, e, k) => ~Border(s, P[k])

\* An operator that ends at j has its second blank.
Closed(P, s, e, l, j) == Operator(s, j) => l > 0 /\ Pads(P, s, e, l)
ExpandsTo(s, e, l, j) == \E P : Expands(P, s, e, l, j) /\ Closed(P, s, e, l, j)

\* One place more, that stands for the segment up to i.
Longer(Q, P, l, i) == Q = [k \in 0..(l + 1) |-> IF k <= l THEN P[k] ELSE i]

(* Where an expansion that is one place longer ends. *)
LEMMA LongerEnds ==
    ASSUME NEW s \in Word, NEW e, NEW l \in Nat, NEW j, NEW P, Expands(P, s, e, l, j),
           NEW i \in 0..Len(s), NEW Q, Longer(Q, P, l, i)
    PROVE  Q[l + 1] = i /\ Q[l] = j
<1>1. P[l] = j
  BY DEF Expands
<1>2. l \in 0..(l + 1) /\ l + 1 \in 0..(l + 1) /\ ~(l + 1 <= l) /\ l <= l
  OBVIOUS
<1> QED
  BY <1>1, <1>2 DEF Longer

(* It is one. *)
LEMMA LongerType ==
    ASSUME NEW s \in Word, NEW e, NEW l \in Nat, NEW j, NEW P, Expands(P, s, e, l, j),
           NEW i \in 0..Len(s), NEW Q, Longer(Q, P, l, i)
    PROVE  Q \in [0..(l + 1) -> 0..Len(s)]
<1>1. P \in [0..l -> 0..Len(s)]
  BY DEF Expands
<1>2. \A k \in 0..(l + 1) : k <= l => k \in 0..l
  OBVIOUS
<1> QED
  BY <1>1, <1>2 DEF Longer

(* It copies and pads where the shorter one did. *)
LEMMA LongerFacts ==
    ASSUME NEW s \in Word, NEW e, NEW l \in Nat, NEW j, NEW P, Expands(P, s, e, l, j),
           NEW i \in 0..Len(s), NEW Q, Longer(Q, P, l, i)
    PROVE  /\ \A k \in 1..l : Copies(P, s, e, k) => Copies(Q, s, e, k)
           /\ \A k \in 1..l : Copies(Q, s, e, k) => Copies(P, s, e, k)
           /\ \A k \in 1..l : Pads(P, s, e, k) => Pads(Q, s, e, k)
<1>2. \A k \in 0..l : k \in 0..(l + 1) /\ k <= l
  OBVIOUS
<1>4. \A k \in 0..l : Q[k] = P[k]
  BY <1>2 DEF Longer
<1>5. \A k \in 1..l : k \in 0..l /\ k - 1 \in 0..l
  OBVIOUS
<1>6. \A k \in 1..l : Q[k] = P[k] /\ Q[k - 1] = P[k - 1]
  BY <1>4, <1>5
<1>7. /\ \A k \in 1..l : Copies(P, s, e, k) => Copies(Q, s, e, k)
      /\ \A k \in 1..l : Copies(Q, s, e, k) => Copies(P, s, e, k)
      /\ \A k \in 1..l : Pads(P, s, e, k) => Pads(Q, s, e, k)
  BY <1>6 DEF Copies, Pads
<1> QED
  BY <1>7

(* An expansion goes on with a copy or a pad that may follow its last place. *)
LEMMA Lengthen ==
    ASSUME NEW s \in Word, NEW e, NEW l \in Nat, NEW j, NEW P, Expands(P, s, e, l, j),
           NEW i \in 0..Len(s), NEW Q, Longer(Q, P, l, i),
           Copies(Q, s, e, l + 1) \/ Pads(Q, s, e, l + 1),
           l > 0 /\ Copies(P, s, e, l) /\ Copies(Q, s, e, l + 1) => ~Border(s, i)
    PROVE  Expands(Q, s, e, l + 1, i)
<1>1. /\ Q \in [0..(l + 1) -> 0..Len(s)] /\ (\A k \in 0..l : Q[k] = P[k]) /\ Q[l + 1] = i
      /\ \A k \in 1..l : Copies(Q, s, e, k) => Copies(P, s, e, k)
      /\ \A k \in 1..l : Copies(P, s, e, k) => Copies(Q, s, e, k)
      /\ \A k \in 1..l : Pads(P, s, e, k) => Pads(Q, s, e, k)
  <2>1. Q[l + 1] = i
    BY LongerEnds
  <2>2. \A k \in 0..l : Q[k] = P[k]
    <3>1. \A k \in 0..l : k \in 0..(l + 1) /\ k <= l
      OBVIOUS
    <3> QED
      BY <3>1 DEF Longer
  <2>4. Q \in [0..(l + 1) -> 0..Len(s)]
    BY LongerType
  <2>3. /\ \A k \in 1..l : Copies(Q, s, e, k) => Copies(P, s, e, k)
        /\ \A k \in 1..l : Copies(P, s, e, k) => Copies(Q, s, e, k)
        /\ \A k \in 1..l : Pads(P, s, e, k) => Pads(Q, s, e, k)
    BY LongerFacts
  <2> QED
    BY <2>1, <2>2, <2>3, <2>4
<1>2. /\ P[0] = 0 /\ \A k \in 1..l : Copies(P, s, e, k) \/ Pads(P, s, e, k)
      /\ \A k \in 2..l : Copies(P, s, e, k - 1) /\ Copies(P, s, e, k) => ~Border(s, P[k])
  BY DEF Expands
<1>3. Q[0] = 0
  <2>1. 0 \in 0..l
    OBVIOUS
  <2> QED
    BY <1>1, <1>2, <2>1
<1>4. ASSUME NEW k \in 1..(l + 1) PROVE Copies(Q, s, e, k) \/ Pads(Q, s, e, k)
  <2>1. k \in 1..l \/ k = l + 1
    OBVIOUS
  <2> QED
    BY <1>1, <1>2, <2>1
<1>5. ASSUME NEW k \in 2..(l + 1), Copies(Q, s, e, k - 1), Copies(Q, s, e, k)
      PROVE  ~Border(s, Q[k])
  <2>1. CASE k \in 2..l
    <3>1. k \in 1..l /\ k - 1 \in 1..l /\ k \in 0..l
      BY <2>1
    <3> QED
      BY <1>1, <1>2, <1>5, <2>1, <3>1
  <2>2. CASE k = l + 1
    <3>1. k - 1 = l /\ l > 0 /\ l \in 1..l
      BY <2>2
    <3> QED
      BY <1>1, <1>5, <2>2, <3>1
  <2>3. k \in 2..l \/ k = l + 1
    OBVIOUS
  <2> QED
    BY <2>1, <2>2, <2>3
<1> QED
  BY <1>1, <1>3, <1>4, <1>5 DEF Expands

(* One copy, or one blank, more. *)
LEMMA OneCopy ==
    ASSUME NEW s \in Word, NEW e, NEW l \in Nat, NEW j \in Nat, NEW P, Expands(P, s, e, l, j),
           j < Len(s), At(e, l + 1, s[j + 1]),
           l > 0 /\ Copies(P, s, e, l) => ~Border(s, j + 1),
           NEW Q, Longer(Q, P, l, j + 1)
    PROVE  Expands(Q, s, e, l + 1, j + 1) /\ Copies(Q, s, e, l + 1)
<1> DEFINE i == j + 1
<1>1. i \in 0..Len(s) /\ i = j + 1
  BY NextPlace
<1> HIDE DEF i
<1>2. Longer(Q, P, l, i)
  BY <1>1
<1>3. Q[l + 1] = i /\ Q[l + 1 - 1] = j
  <2>1. Q[l + 1] = i /\ Q[l] = j
    BY <1>1, <1>2, LongerEnds
  <2> QED
    BY <2>1
<1>4. Copies(Q, s, e, l + 1)
  BY <1>1, <1>3 DEF Copies
<1>5. l > 0 /\ Copies(P, s, e, l) /\ Copies(Q, s, e, l + 1) => ~Border(s, i)
  BY <1>1
<1>6. Expands(Q, s, e, l + 1, i)
  BY <1>1, <1>2, <1>4, <1>5, Lengthen
<1> QED
  BY <1>1, <1>4, <1>6

(* It goes on with a blank wherever a blank belongs. *)
LEMMA OnePad ==
    ASSUME NEW s \in Word, NEW e, NEW l \in Nat, NEW j \in 0..Len(s), NEW P,
           Expands(P, s, e, l, j), Gap(e, l + 1), Border(s, j + 1),
           NEW Q, Longer(Q, P, l, j)
    PROVE  Expands(Q, s, e, l + 1, j) /\ Pads(Q, s, e, l + 1)
<1>1. Q[l + 1] = j /\ Q[l + 1 - 1] = j
  <2>1. Q[l + 1] = j /\ Q[l] = j
    BY LongerEnds
  <2> QED
    BY <2>1
<1>2. Pads(Q, s, e, l + 1)
  BY <1>1 DEF Pads
<1>3. Len(s) \in Nat
  BY WordFacts
<1>4. ~Copies(Q, s, e, l + 1)
  BY <1>1, <1>3 DEF Copies
<1> QED
  BY <1>2, <1>4, Lengthen

(* No place of an expansion is both a copy and a pad. *)
LEMMA Exclusive ==
    ASSUME NEW s \in Word, NEW e, NEW l \in Nat, NEW j, NEW P, Expands(P, s, e, l, j),
           NEW k \in 1..l
    PROVE  ~(Copies(P, s, e, k) /\ Pads(P, s, e, k))
<1>1. P \in [0..l -> 0..Len(s)] /\ k \in 0..l /\ k - 1 \in 0..l /\ Len(s) \in Nat
  BY WordFacts DEF Expands
<1>2. P[k] \in Nat /\ P[k - 1] \in Nat
  BY <1>1
<1> QED
  BY <1>2 DEF Copies, Pads

(* What the turns of the loop add: a character that is no operator, *)
LEMMA PlainTurn ==
    ASSUME NEW s \in Word, NEW e, NEW l \in Nat, NEW j \in Nat, ExpandsTo(s, e, l, j),
           j < Len(s), ~Operator(s, j + 1), At(e, l + 1, s[j + 1])
    PROVE  ExpandsTo(s, e, l + 1, j + 1)
<1>1. PICK P : Expands(P, s, e, l, j) /\ Closed(P, s, e, l, j)
  BY DEF ExpandsTo
<1>a. PICK Q : Longer(Q, P, l, j + 1)
  BY DEF Longer
<1>2. ASSUME l > 0, Copies(P, s, e, l), Border(s, j + 1) PROVE FALSE
  <2>1. Operator(s, j)
    <3>1. j + 1 - 1 = j
      OBVIOUS
    <3> QED
      BY <1>2, <3>1 DEF Border
  <2>2. Pads(P, s, e, l) /\ l \in 1..l
    BY <1>1, <1>2, <2>1 DEF Closed
  <2> QED
    BY <1>1, <1>2, <2>2, Exclusive
<1>3. Expands(Q, s, e, l + 1, j + 1)
  BY <1>1, <1>2, <1>a, OneCopy
<1> QED
  BY <1>3 DEF ExpandsTo, Closed

\* an operator of one character,
LEMMA SingleTurn ==
    ASSUME NEW s \in Word, NEW e, NEW l \in Nat, NEW j \in Nat, ExpandsTo(s, e, l, j),
           j < Len(s), Operator(s, j + 1), ~Second(s, j + 1), ~Second(s, j + 2),
           Gap(e, l + 1), At(e, l + 2, s[j + 1]), Gap(e, l + 3)
    PROVE  ExpandsTo(s, e, l + 3, j + 1)
<1>1. PICK P : Expands(P, s, e, l, j)
  BY DEF ExpandsTo
<1>a. PICK Q : Longer(Q, P, l, j)
  BY DEF Longer
<1>b. PICK R : Longer(R, Q, l + 1, j + 1)
  BY DEF Longer
<1>c. PICK T : Longer(T, R, l + 2, j + 1)
  BY DEF Longer
<1>2. Border(s, j + 1) /\ Border(s, j + 1 + 1)
  <2>1. j + 1 + 1 = j + 2 /\ j + 2 - 1 = j + 1
    OBVIOUS
  <2> QED
    BY <2>1 DEF Border
<1>3. /\ j \in 0..Len(s) /\ j + 1 \in 0..Len(s)
      /\ l + 1 \in Nat /\ l + 2 \in Nat /\ l + 1 + 1 = l + 2 /\ l + 2 + 1 = l + 3
      /\ l + 1 \in 1..(l + 1)
  BY WordFacts
<1>4. Expands(Q, s, e, l + 1, j) /\ Pads(Q, s, e, l + 1)
  BY <1>1, <1>2, <1>3, <1>a, OnePad
<1>5. ~Copies(Q, s, e, l + 1)
  BY <1>3, <1>4, Exclusive
<1>6. Expands(R, s, e, l + 2, j + 1)
  <2> DEFINE a == l + 1
  <2>1. a \in Nat /\ At(e, a + 1, s[j + 1]) /\ a + 1 = l + 2 /\ Expands(Q, s, e, a, j)
        /\ ~Copies(Q, s, e, a) /\ Longer(R, Q, a, j + 1)
    BY <1>3, <1>4, <1>5, <1>b
  <2> HIDE DEF a
  <2>2. Expands(R, s, e, a + 1, j + 1)
    BY <2>1, OneCopy
  <2> QED
    BY <2>1, <2>2
<1>7. Expands(T, s, e, l + 3, j + 1) /\ Pads(T, s, e, l + 3)
  <2> DEFINE a == l + 2
             i == j + 1
  <2>1. /\ a \in Nat /\ Gap(e, a + 1) /\ a + 1 = l + 3 /\ Expands(R, s, e, a, i)
        /\ i \in 0..Len(s) /\ Border(s, i + 1) /\ Longer(T, R, a, i)
    BY <1>2, <1>3, <1>6, <1>c
  <2> HIDE DEF a, i
  <2>2. Expands(T, s, e, a + 1, i) /\ Pads(T, s, e, a + 1)
    BY <2>1, OnePad
  <2> QED
    BY <2>1, <2>2 DEF i
<1>8. l + 3 > 0
  OBVIOUS
<1> QED
  BY <1>7, <1>8 DEF ExpandsTo, Closed

\* and >>.
LEMMA DoubleTurn ==
    ASSUME NEW s \in Word, NEW e, NEW l \in Nat, NEW j \in Nat, ExpandsTo(s, e, l, j),
           j + 1 < Len(s), Operator(s, j + 1), ~Second(s, j + 1), Operator(s, j + 2),
           Second(s, j + 2), ~Second(s, j + 3),
           Gap(e, l + 1), At(e, l + 2, s[j + 1]), At(e, l + 3, s[j + 2]), Gap(e, l + 4)
    PROVE  ExpandsTo(s, e, l + 4, j + 2)
<1>1. PICK P : Expands(P, s, e, l, j)
  BY DEF ExpandsTo
<1>a. PICK Q : Longer(Q, P, l, j)
  BY DEF Longer
<1>b. PICK R : Longer(R, Q, l + 1, j + 1)
  BY DEF Longer
<1>c. PICK T : Longer(T, R, l + 2, j + 2)
  BY DEF Longer
<1>d. PICK U : Longer(U, T, l + 3, j + 2)
  BY DEF Longer
<1>2. Border(s, j + 1) /\ ~Border(s, j + 1 + 1) /\ Border(s, j + 2 + 1)
  <2>1. j + 1 + 1 = j + 2 /\ j + 2 + 1 = j + 3 /\ j + 3 - 1 = j + 2
    OBVIOUS
  <2> QED
    BY <2>1 DEF Border
<1>3. /\ j \in 0..Len(s) /\ j + 1 \in 0..Len(s) /\ j + 2 \in 0..Len(s)
      /\ l + 1 \in Nat /\ l + 2 \in Nat /\ l + 3 \in Nat
      /\ l + 1 + 1 = l + 2 /\ l + 2 + 1 = l + 3 /\ l + 3 + 1 = l + 4
      /\ l + 1 \in 1..(l + 1) /\ j < Len(s) /\ j + 1 + 1 = j + 2
  BY WordFacts
<1>4. Expands(Q, s, e, l + 1, j) /\ Pads(Q, s, e, l + 1)
  BY <1>1, <1>2, <1>3, <1>a, OnePad
<1>5. ~Copies(Q, s, e, l + 1)
  BY <1>3, <1>4, Exclusive
<1>6. Expands(R, s, e, l + 2, j + 1)
  <2> DEFINE a == l + 1
  <2>1. a \in Nat /\ At(e, a + 1, s[j + 1]) /\ a + 1 = l + 2 /\ Expands(Q, s, e, a, j)
        /\ ~Copies(Q, s, e, a) /\ Longer(R, Q, a, j + 1) /\ j < Len(s)
    BY <1>3, <1>4, <1>5, <1>b
  <2> HIDE DEF a
  <2>2. Expands(R, s, e, a + 1, j + 1)
    BY <2>1, OneCopy
  <2> QED
    BY <2>1, <2>2
<1>7. Expands(T, s, e, l + 3, j + 2)
  <2> DEFINE a == l + 2
             i == j + 1
  <2>1. a \in Nat /\ At(e, a + 1, s[i + 1]) /\ a + 1 = l + 3 /\ Expands(R, s, e, a, i)
        /\ ~Border(s, i + 1) /\ Longer(T, R, a, i + 1) /\ i < Len(s) /\ i \in Nat
        /\ i + 1 = j + 2
    BY <1>2, <1>3, <1>6, <1>c
  <2> HIDE DEF a, i
  <2>2. Expands(T, s, e, a + 1, i + 1)
    BY <2>1, OneCopy
  <2> QED
    BY <2>1, <2>2
<1>8. Expands(U, s, e, l + 4, j + 2) /\ Pads(U, s, e, l + 4)
  <2> DEFINE a == l + 3
             i == j + 2
  <2>1. /\ a \in Nat /\ Gap(e, a + 1) /\ a + 1 = l + 4 /\ Expands(T, s, e, a, i)
        /\ i \in 0..Len(s) /\ Border(s, i + 1) /\ Longer(U, T, a, i)
    BY <1>2, <1>3, <1>7, <1>d
  <2> HIDE DEF a, i
  <2>2. Expands(U, s, e, a + 1, i) /\ Pads(U, s, e, a + 1)
    BY <2>1, OnePad
  <2> QED
    BY <2>1, <2>2 DEF i
<1>9. l + 4 > 0
  OBVIOUS
<1> QED
  BY <1>8, <1>9 DEF ExpandsTo, Closed

\* Nothing has been expanded yet.
LEMMA NoTurn ==
    ASSUME NEW s \in Word, NEW e
    PROVE  ExpandsTo(s, e, 0, 0) /\ ~Second(s, 1) /\ QuoteAfter(s)[0] = Unquoted
<1> DEFINE P == [k \in 0..0 |-> 0]
<1>1. Len(s) \in Nat /\ DOMAIN s = 1..Len(s)
  BY WordFacts
<1>2. ~Operator(s, 0)
  <2>1. 0 \notin DOMAIN s
    BY <1>1
  <2> QED
    BY <2>1 DEF Operator, Free
<1>3. Expands(P, s, e, 0, 0)
  <2>1. P \in [0..0 -> 0..Len(s)] /\ P[0] = 0
    BY <1>1
  <2>2. \A k \in 1..0 : FALSE
    OBVIOUS
  <2>3. \A k \in 2..0 : FALSE
    OBVIOUS
  <2> HIDE DEF P
  <2> QED
    BY <2>1, <2>2, <2>3 DEF Expands
<1>4. ~Second(s, 1)
  <2>1. 1 \in Nat \ {0} /\ 1 - 1 = 0
    OBVIOUS
  <2>2. ~More(s, 0)
    <3>1. 0 \notin DOMAIN s
      BY <1>1
    <3> QED
      BY <3>1 DEF More, Free
  <2>3. Second(s, 1) <=> More(s, 1) /\ More(s, 1 - 1) /\ ~Second(s, 1 - 1)
    BY <2>1, SecondFacts
  <2> QED
    BY <2>1, <2>2, <2>3
<1>5. QuoteAfter(s)[0] = Unquoted
  BY QuoteFacts
<1> HIDE DEF P
<1> QED
  BY <1>2, <1>3, <1>4, <1>5 DEF ExpandsTo, Closed

\* Another array with the same beginning.
LEMMA SameBeginning ==
    ASSUME NEW s, NEW e, NEW f, NEW l \in Nat, NEW j, ExpandsTo(s, e, l, j),
           \A k \in 1..l : f[k] = e[k]
    PROVE  ExpandsTo(s, f, l, j)
<1>1. PICK P : Expands(P, s, e, l, j) /\ Closed(P, s, e, l, j)
  BY DEF ExpandsTo
<1>2. \A k \in 1..l : Copies(P, s, f, k) = Copies(P, s, e, k) /\ Pads(P, s, f, k) = Pads(P, s, e, k)
  BY DEF Copies, Pads, At, Gap
<1>3. \A k \in 2..l : k \in 1..l /\ k - 1 \in 1..l
  OBVIOUS
<1>4. Expands(P, s, f, l, j)
  BY <1>1, <1>2, <1>3 DEF Expands
<1>5. l > 0 => l \in 1..l
  OBVIOUS
<1>6. Closed(P, s, f, l, j)
  BY <1>1, <1>2, <1>5 DEF Closed
<1> QED
  BY <1>4, <1>6 DEF ExpandsTo

(* How long the expansion is. *)
OperatorsTo(s, i) == Cardinality(UpTo(OperatorStarts(s), i))

(* How many operators begin up to a place of a segment. *)
LEMMA OperatorsFacts ==
    ASSUME NEW s \in Word
    PROVE  /\ \A i : /\ OperatorsTo(s, i) \in Nat
                     /\ OperatorsTo(s, i) <= Cardinality(OperatorStarts(s))
           /\ Cardinality(OperatorStarts(s)) \in Nat
           /\ OperatorsTo(s, 0) = 0 /\ OperatorsTo(s, Len(s)) = Cardinality(OperatorStarts(s))
<1>1. Len(s) \in Nat /\ OperatorStarts(s) \in SUBSET (1..Len(s))
  BY WordFacts DEF OperatorStarts
<1>2. OperatorStarts(s) \in SUBSET (0..Len(s))
  BY <1>1
<1>3. UpTo(OperatorStarts(s), Len(s)) = OperatorStarts(s) /\ UpTo(OperatorStarts(s), 0) = {}
  BY <1>1, UpToEnds
<1>4. /\ Cardinality(OperatorStarts(s)) \in Nat
      /\ \A i : /\ OperatorsTo(s, i) \in Nat
                /\ OperatorsTo(s, i) <= Cardinality(OperatorStarts(s))
  BY <1>1, <1>2, UpToFinite DEF OperatorsTo
<1> QED
  BY <1>3, <1>4, FS_EmptySet DEF OperatorsTo

(* One place more counts one operator more exactly when one begins there. *)
LEMMA OperatorsNext ==
    ASSUME NEW s \in Word, NEW j \in Nat, j < Len(s)
    PROVE  OperatorsTo(s, j + 1) = OperatorsTo(s, j) +
               (IF Operator(s, j + 1) /\ ~Second(s, j + 1) THEN 1 ELSE 0)
<1>1. Len(s) \in Nat /\ OperatorStarts(s) \in SUBSET (1..Len(s)) /\ DOMAIN s = 1..Len(s)
  BY WordFacts DEF OperatorStarts
<1>2. OperatorStarts(s) \in SUBSET (0..Len(s))
  BY <1>1
<1>3. /\ j + 1 \notin OperatorStarts(s) =>
            UpTo(OperatorStarts(s), j + 1) = UpTo(OperatorStarts(s), j)
      /\ j + 1 \in OperatorStarts(s) =>
            Cardinality(UpTo(OperatorStarts(s), j + 1)) = Cardinality(UpTo(OperatorStarts(s), j)) + 1
  BY <1>1, <1>2, UpToNext
<1>4. j + 1 \in OperatorStarts(s) <=> Operator(s, j + 1) /\ ~Second(s, j + 1)
  <2>1. j + 1 \in DOMAIN s
    BY <1>1
  <2> QED
    BY <2>1 DEF OperatorStarts
<1>5. OperatorsTo(s, j) \in Nat
  BY OperatorsFacts
<1> QED
  BY <1>3, <1>4, <1>5 DEF OperatorsTo

(* What the array holds after a piece has been added to it. *)
Cell == Char \cup {NUL}

Joint(f, e, t) ==
    /\ Len(f) = Len(e) + Len(t) /\ Len(e) \in Nat /\ Len(t) \in Nat
    /\ \A k \in 1..Len(e) : f[k] = e[k]
    /\ \A k \in 1..Len(t) : f[Len(e) + k] = t[k]

(* A concatenation joins its parts. *)
LEMMA Joined ==
    ASSUME NEW S, NEW e \in Seq(S), NEW t \in Seq(S)
    PROVE  e \o t \in Seq(S) /\ Joint(e \o t, e, t)
<1>1. /\ e \o t \in Seq(S) /\ Len(e \o t) = Len(e) + Len(t)
      /\ \A i \in 1..(Len(e) + Len(t)) : (e \o t)[i] = IF i <= Len(e) THEN e[i] ELSE t[i - Len(e)]
  BY ConcatProperties
<1>2. Len(e) \in Nat /\ Len(t) \in Nat
  BY LenProperties
<1>3. \A k \in 1..Len(t) : /\ Len(e) + k \in 1..(Len(e) + Len(t)) /\ ~(Len(e) + k <= Len(e))
                           /\ Len(e) + k - Len(e) = k
  BY <1>2
<1>4. \A k \in 1..Len(e) : k \in 1..(Len(e) + Len(t)) /\ k <= Len(e)
  BY <1>2
<1> QED
  BY <1>1, <1>2, <1>3, <1>4 DEF Joint

(* A sequence between two copies of another of length one. *)
LEMMA Around ==
    ASSUME NEW S, NEW t \in Seq(S), NEW o \in Seq(S), Len(o) = 1
    PROVE  /\ o \o t \o o \in Seq(S) /\ Len(o \o t \o o) = Len(t) + 2 /\ Len(t) \in Nat
           /\ (o \o t \o o)[1] = o[1] /\ (o \o t \o o)[Len(t) + 2] = o[1]
           /\ \A k \in 1..Len(t) : (o \o t \o o)[1 + k] = t[k]
<1> DEFINE h == o \o t
           p == h \o o
<1>1. h \in Seq(S) /\ Joint(h, o, t)
  BY Joined, Zenon
<1> HIDE DEF h
<1>2. p \in Seq(S) /\ Joint(p, h, o)
  BY <1>1, Joined, Zenon
<1>3. p = o \o t \o o
  BY DEF h
<1> HIDE DEF p
<1>4. /\ Len(h) + 1 = Len(t) + 2 /\ 1 \in 1..Len(h) /\ Len(h) = 1 + Len(t) /\ Len(t) \in Nat
      /\ \A k \in 1..Len(t) : 1 + k \in 1..Len(h)
  BY <1>1 DEF Joint
<1>5. 1 \in 1..Len(o)
  OBVIOUS
<1>6. h[1] = o[1] /\ \A k \in 1..Len(t) : h[1 + k] = t[k]
  BY <1>1, <1>5 DEF Joint
<1>7. Len(p) = Len(h) + 1
  BY <1>2 DEF Joint
<1>8. p[Len(h) + 1] = o[1] /\ \A k \in 1..Len(h) : p[k] = h[k]
  BY <1>2, <1>5 DEF Joint
<1>9. p[1] = o[1] /\ \A k \in 1..Len(t) : p[1 + k] = t[k]
  BY <1>4, <1>6, <1>8
<1> QED
  BY <1>2, <1>3, <1>4, <1>7, <1>8, <1>9

(* A sequence between two copies of one element. *)
LEMMA Between ==
    ASSUME NEW S, NEW a \in S, NEW t \in Seq(S), NEW p, p = <<a>> \o t \o <<a>>
    PROVE  /\ p \in Seq(S) /\ Len(p) = Len(t) + 2 /\ Len(t) \in Nat
           /\ p[1] = a /\ p[Len(t) + 2] = a
           /\ \A k \in 1..Len(t) : p[1 + k] = t[k]
<1> DEFINE o == <<a>>
           q == o \o t \o o
<1>1. o \in Seq(S) /\ Len(o) = 1 /\ o[1] = a
  OBVIOUS
<1>2. p = q
  OBVIOUS
<1> HIDE DEF o
<1>a. /\ o \o t \o o \in Seq(S) /\ Len(o \o t \o o) = Len(t) + 2 /\ Len(t) \in Nat
      /\ (o \o t \o o)[1] = o[1] /\ (o \o t \o o)[Len(t) + 2] = o[1]
      /\ \A k \in 1..Len(t) : (o \o t \o o)[1 + k] = t[k]
  BY <1>1, Around
<1>3. /\ q \in Seq(S) /\ Len(q) = Len(t) + 2 /\ Len(t) \in Nat
      /\ q[1] = o[1] /\ q[Len(t) + 2] = o[1]
      /\ \A k \in 1..Len(t) : q[1 + k] = t[k]
  BY <1>a
<1> HIDE DEF q
<1> QED
  BY <1>1, <1>2, <1>3

\* What a piece brings to the end of the array.
LEMMA JointPlaces ==
    ASSUME NEW f, NEW e, NEW p, Joint(f, e, p), NEW k \in 1..Len(p)
    PROVE  /\ Gap(p, k) => Gap(f, Len(e) + k)
           /\ \A c : At(p, k, c) => At(f, Len(e) + k, c)
<1>1. f[Len(e) + k] = p[k]
  BY DEF Joint
<1> QED
  BY <1>1 DEF Gap, At

(* The expansion stands for the segment up to j, between two turns. *)
Turned(s, e, j) ==
    /\ ExpandsTo(s, e, Len(e), j) /\ ~Second(s, j + 1)
    /\ Len(e) = j + 2 * OperatorsTo(s, j)

(* A turn of the expansion that copies a character of no operator. *)
LEMMA TurnPlain ==
    ASSUME NEW s \in Word, NEW e, NEW j \in Nat, j < Len(s), Turned(s, e, j),
           NEW f, NEW p, Joint(f, e, p), ~Operator(s, j + 1), Len(p) = 1, At(p, 1, s[j + 1])
    PROVE  Turned(s, f, j + 1)
<1> DEFINE l == Len(e)
<1>1. l \in Nat /\ Len(f) = l + 1 /\ (\A k \in 1..l : f[k] = e[k]) /\ 1 \in 1..Len(p)
  BY DEF Joint
<1>2. At(f, l + 1, s[j + 1])
  BY <1>1, JointPlaces
<1>3. ExpandsTo(s, f, l, j)
  <2>1. ExpandsTo(s, e, l, j)
    BY DEF Turned
  <2> HIDE DEF l
  <2> QED
    BY <1>1, <2>1, SameBeginning
<1>4. l = j + 2 * OperatorsTo(s, j) /\ OperatorsTo(s, j) \in Nat
  BY OperatorsFacts DEF Turned
<1>5. OperatorsTo(s, j + 1) = OperatorsTo(s, j) + 0
  BY OperatorsNext
<1> HIDE DEF l
<1>6. ExpandsTo(s, f, l + 1, j + 1)
  BY <1>1, <1>2, <1>3, PlainTurn
<1>7. ~Second(s, j + 1 + 1)
  <2> DEFINE i == j + 1 + 1
  <2>1. i \in Nat \ {0} /\ i - 1 = j + 1
    OBVIOUS
  <2> HIDE DEF i
  <2>2. ~More(s, j + 1)
    BY DEF More, Operator
  <2>3. Second(s, i) => More(s, i - 1)
    BY <2>1, SecondFacts
  <2> QED
    BY <2>1, <2>2, <2>3 DEF i
<1>8. l + 1 = (j + 1) + 2 * OperatorsTo(s, j + 1)
  BY <1>4, <1>5
<1> QED
  BY <1>1, <1>6, <1>7, <1>8 DEF Turned

(* One that pads an operator of one character. *)
LEMMA TurnSingle ==
    ASSUME NEW s \in Word, NEW e, NEW j \in Nat, j < Len(s), Turned(s, e, j),
           NEW f, NEW p, Joint(f, e, p), Operator(s, j + 1), ~Second(s, j + 2),
           Len(p) = 3, Gap(p, 1), At(p, 2, s[j + 1]), Gap(p, 3)
    PROVE  Turned(s, f, j + 1)
<1> DEFINE l == Len(e)
<1>1. /\ l \in Nat /\ Len(f) = l + 3 /\ (\A k \in 1..l : f[k] = e[k])
      /\ 1 \in 1..Len(p) /\ 2 \in 1..Len(p) /\ 3 \in 1..Len(p)
  BY DEF Joint
<1>2. Gap(f, l + 1) /\ At(f, l + 2, s[j + 1]) /\ Gap(f, l + 3)
  BY <1>1, JointPlaces
<1>3. ExpandsTo(s, f, l, j)
  <2>1. ExpandsTo(s, e, l, j)
    BY DEF Turned
  <2> HIDE DEF l
  <2> QED
    BY <1>1, <2>1, SameBeginning
<1>4. l = j + 2 * OperatorsTo(s, j) /\ OperatorsTo(s, j) \in Nat /\ ~Second(s, j + 1)
  BY OperatorsFacts DEF Turned
<1>5. OperatorsTo(s, j + 1) = OperatorsTo(s, j) + 1
  BY <1>4, OperatorsNext
<1> HIDE DEF l
<1>6. ExpandsTo(s, f, l + 3, j + 1)
  BY <1>1, <1>2, <1>3, <1>4, SingleTurn
<1>7. l + 3 = (j + 1) + 2 * OperatorsTo(s, j + 1) /\ j + 1 + 1 = j + 2
  BY <1>4, <1>5
<1> QED
  BY <1>1, <1>6, <1>7 DEF Turned

(* One that pads >>. *)
LEMMA TurnDouble ==
    ASSUME NEW s \in Word, NEW e, NEW j \in Nat, j + 1 < Len(s), Turned(s, e, j),
           NEW f, NEW p, Joint(f, e, p), Operator(s, j + 1), Operator(s, j + 2), Second(s, j + 2),
           Len(p) = 4, Gap(p, 1), At(p, 2, s[j + 1]), At(p, 3, s[j + 2]), Gap(p, 4)
    PROVE  Turned(s, f, j + 2)
<1> DEFINE l == Len(e)
<1>1. /\ l \in Nat /\ Len(f) = l + 4 /\ (\A k \in 1..l : f[k] = e[k])
      /\ 1 \in 1..Len(p) /\ 2 \in 1..Len(p) /\ 3 \in 1..Len(p) /\ 4 \in 1..Len(p)
  BY DEF Joint
<1>2. Gap(f, l + 1) /\ At(f, l + 2, s[j + 1]) /\ At(f, l + 3, s[j + 2]) /\ Gap(f, l + 4)
  BY <1>1, JointPlaces
<1>3. ExpandsTo(s, f, l, j)
  <2>1. ExpandsTo(s, e, l, j)
    BY DEF Turned
  <2> HIDE DEF l
  <2> QED
    BY <1>1, <2>1, SameBeginning
<1>4. l = j + 2 * OperatorsTo(s, j) /\ OperatorsTo(s, j) \in Nat /\ ~Second(s, j + 1)
  BY OperatorsFacts DEF Turned
<1>5. OperatorsTo(s, j + 2) = OperatorsTo(s, j) + 1
  <2> DEFINE i == j + 1
  <2>1. i \in Nat /\ i < Len(s) /\ i + 1 = j + 2 /\ j < Len(s)
    BY WordFacts
  <2>2. OperatorsTo(s, i) = OperatorsTo(s, j) + 1
    BY <1>4, <2>1, OperatorsNext
  <2> HIDE DEF i
  <2>3. OperatorsTo(s, i + 1) = OperatorsTo(s, i) + (IF Operator(s, i + 1) /\ ~Second(s, i + 1) THEN 1 ELSE 0)
    BY <2>1, OperatorsNext
  <2> QED
    BY <1>4, <2>1, <2>2, <2>3
<1>6. ~Second(s, j + 3)
  <2> DEFINE i == j + 3
  <2>1. i \in Nat \ {0} /\ i - 1 = j + 2
    OBVIOUS
  <2> HIDE DEF i
  <2>2. Second(s, i) => ~Second(s, i - 1)
    BY <2>1, SecondFacts
  <2> QED
    BY <2>1, <2>2 DEF i
<1> HIDE DEF l
<1>7. ExpandsTo(s, f, l + 4, j + 2)
  BY <1>1, <1>2, <1>3, <1>4, <1>6, DoubleTurn
<1>8. l + 4 = (j + 2) + 2 * OperatorsTo(s, j + 2) /\ j + 2 + 1 = j + 3
  <2> DEFINE o == OperatorsTo(s, j)
             q == OperatorsTo(s, j + 2)
  <2>1. l = j + 2 * o /\ o \in Nat /\ q = o + 1
    BY <1>4, <1>5
  <2> HIDE DEF o, q
  <2>2. l + 4 = (j + 2) + 2 * q /\ j + 2 + 1 = j + 3
    BY <2>1
  <2> QED
    BY <2>2 DEF q
<1> QED
  BY <1>1, <1>6, <1>7, <1>8 DEF Turned

(* What a turn of the loop adds, and what it takes. *)
LEMMA PlainPiece ==
    ASSUME NEW c \in Cell, NEW d \in Cell, ~(quote = Unquoted /\ c \in {"<", ">"})
    PROVE  /\ Piece(c, d) \in Seq(Cell) /\ Len(Piece(c, d)) = 1 /\ At(Piece(c, d), 1, c)
           /\ Len(Taken(c, d)) = 1
<1>1. Piece(c, d) = <<c>>
  BY Zenon DEF Piece
<1>2. Taken(c, d) = <<c>>
  BY Zenon DEF Taken
<1> QED
  BY <1>1, <1>2 DEF At

(* An operator outside quotes is taken with a blank on both sides. *)
LEMMA OperatorPiece ==
    ASSUME NEW c \in Cell, NEW d \in Cell, quote = Unquoted, c \in {"<", ">"}
    PROVE  /\ Piece(c, d) \in Seq(Cell) /\ Len(Piece(c, d)) = Len(Taken(c, d)) + 2
           /\ Gap(Piece(c, d), 1) /\ Gap(Piece(c, d), Len(Taken(c, d)) + 2)
           /\ At(Piece(c, d), 2, c)
           /\ ~(c = ">" /\ d = ">") => Len(Taken(c, d)) = 1
           /\ c = ">" /\ d = ">" => Len(Taken(c, d)) = 2 /\ At(Piece(c, d), 3, d)
<1> DEFINE t == Taken(c, d)
           p == Piece(c, d)
           b == " "
           both == c = ">" /\ d = ">"
<1>1. ~both => t = <<c>>
  BY Zenon DEF Taken
<1>2. both => t = <<c, d>>
  BY Zenon DEF Taken
<1> HIDE DEF both
<1>3. /\ t \in Seq(Cell) /\ t[1] = c /\ Len(t) \in {1, 2}
      /\ ~both => Len(t) = 1
      /\ both => Len(t) = 2 /\ t[2] = d
  <2>1. CASE both
    <3>1. t = <<c, d>>
      BY <1>2, <2>1
    <3> HIDE DEF t
    <3> QED
      BY <2>1, <3>1
  <2>2. CASE ~both
    <3>1. t = <<c>>
      BY <1>1, <2>2
    <3> HIDE DEF t
    <3> QED
      BY <2>2, <3>1
  <2> QED
    BY <2>1, <2>2
<1>4. p = <<b>> \o t \o <<b>>
  BY Zenon DEF Piece
<1>5. b \in Cell
  BY NoNul DEF Cell
<1> HIDE DEF t, p, b
<1>6. /\ p \in Seq(Cell) /\ Len(p) = Len(t) + 2 /\ Len(t) \in Nat
      /\ p[1] = b /\ p[Len(t) + 2] = b
      /\ \A k \in 1..Len(t) : p[1 + k] = t[k]
  BY <1>3, <1>4, <1>5, Between
<1>7. Gap(p, 1) /\ Gap(p, Len(t) + 2)
  BY <1>6, Zenon DEF Gap, b
<1>8. p[2] = t[1] /\ (Len(t) = 2 => p[3] = t[2])
  <2>1. 1 \in 1..Len(t) /\ (Len(t) = 2 => 2 \in 1..Len(t)) /\ 1 + 1 = 2 /\ 1 + 2 = 3
    BY <1>3
  <2>2. \A k \in 1..Len(t) : p[1 + k] = t[k]
    BY <1>6
  <2>3. p[1 + 1] = t[1]
    BY <2>1, <2>2
  <2>4. Len(t) = 2 => p[1 + 2] = t[2]
    BY <2>1, <2>2
  <2> QED
    BY <2>1, <2>3, <2>4
<1>9. At(p, 2, c) /\ (both => At(p, 3, d))
  BY <1>3, <1>8 DEF At
<1> QED
  BY <1>3, <1>6, <1>7, <1>9, Zenon DEF t, p, both

(* One turn of the expansion: it takes one character of the segment, or two. *)
ExpandedTo ==
    /\ src - 1 <= Len(seg) /\ quote = QuoteAfter(seg)[src - 1]
    /\ Turned(seg, expanded, src - 1)

(* The two characters that a turn of the expansion looks at. *)
LEMMA ReadAhead ==
    ASSUME TypeOK, ExpandedTo
    PROVE  /\ seg \in Word /\ Len(seg) \in Nat /\ src - 1 \in Nat /\ src - 1 \in 0..Len(seg)
           /\ src \in Nat \ {0}
           /\ src - 1 + 1 = src /\ src - 1 + 2 = src + 1
           /\ CharAt(seg, src) = NUL <=> src - 1 = Len(seg)
           /\ src - 1 # Len(seg) => src - 1 < Len(seg) /\ CharAt(seg, src) = seg[src]
           /\ CharAt(seg, src + 1) # NUL => src < Len(seg) /\ CharAt(seg, src + 1) = seg[src + 1]
           /\ src < Len(seg) => CharAt(seg, src + 1) = seg[src + 1]
           /\ expanded \in Seq(Cell) /\ Len(expanded) \in Nat
<1>1. /\ seg \in Word /\ src \in Nat \ {0} /\ src - 1 <= Len(seg) /\ expanded \in Seq(Cell)
  BY DEF TypeOK, ExpandedTo, Cell
<1>2. Len(seg) \in Nat /\ Len(expanded) \in Nat /\ \A i \in 1..Len(seg) : seg[i] \in Char
  BY <1>1, WordFacts, LenProperties
<1>3. src <= Len(seg) => CharAt(seg, src) = seg[src] /\ seg[src] # NUL
  <2>1. src <= Len(seg) => src \in 1..Len(seg)
    BY <1>1, <1>2
  <2>2. src <= Len(seg) => ~(src > Len(seg))
    BY <1>1, <1>2
  <2> QED
    BY <1>2, <2>1, <2>2, NoNul, Zenon DEF CharAt
<1>4. ~(src <= Len(seg)) => CharAt(seg, src) = NUL
  <2>1. ~(src <= Len(seg)) => src > Len(seg)
    BY <1>1, <1>2
  <2> QED
    BY <2>1, Zenon DEF CharAt
<1>5. ~(src < Len(seg)) => CharAt(seg, src + 1) = NUL
  <2>1. ~(src < Len(seg)) => src + 1 > Len(seg)
    BY <1>1, <1>2
  <2> QED
    BY <2>1, Zenon DEF CharAt
<1>6. src < Len(seg) => CharAt(seg, src + 1) = seg[src + 1]
  <2>1. src < Len(seg) => ~(src + 1 > Len(seg))
    BY <1>1, <1>2
  <2> QED
    BY <2>1, Zenon DEF CharAt
<1>7. src - 1 # Len(seg) <=> src <= Len(seg)
  BY <1>1, <1>2
<1>8. /\ src - 1 \in Nat /\ src - 1 \in 0..Len(seg) /\ src - 1 + 1 = src /\ src - 1 + 2 = src + 1
      /\ src - 1 # Len(seg) => src - 1 < Len(seg)
  BY <1>1, <1>2
<1> QED
  BY <1>1, <1>2, <1>3, <1>4, <1>5, <1>6, <1>7, <1>8, Zenon

(* The quote after a character is the one that the meaning of a segment gives. *)
LEMMA SameNext ==
    ASSUME NEW q, NEW c
    PROVE  NextQuote(q, c) = QuoteNext(q, c)
BY Zenon DEF NextQuote, QuoteNext

(* Each turn of the expansion takes it on by what it has taken. *)
LEMMA ExpandTurn ==
    ASSUME TypeOK, ExpandedTo, NEW c, c = CharAt(seg, src), NEW d, d = CharAt(seg, src + 1),
           c # NUL, NEW j, j = src - 1 + Len(Taken(c, d))
    PROVE  /\ j \in Nat /\ j <= Len(seg) /\ NextQuote(quote, c) = QuoteAfter(seg)[j]
           /\ Turned(seg, expanded \o Piece(c, d), j)
<1> DEFINE i == src - 1
           e == expanded
           p == Piece(c, d)
           f == e \o p
<1>1. /\ seg \in Word /\ Len(seg) \in Nat /\ i \in Nat /\ src = i + 1 /\ src + 1 = i + 2
      /\ i < Len(seg) /\ c = seg[i + 1]
      /\ d # NUL => i + 1 < Len(seg) /\ d = seg[i + 2]
      /\ i + 1 < Len(seg) => d = seg[i + 2]
      /\ e \in Seq(Cell)
  BY ReadAhead
<1>2. quote = QuoteAfter(seg)[i] /\ Turned(seg, e, i)
  BY DEF ExpandedTo
<1>3. c \in Cell /\ d \in Cell
  <2>1. seg \in Word /\ src \in Nat \ {0} /\ src + 1 \in Nat \ {0}
    BY DEF TypeOK
  <2> QED
    BY <2>1, CharAtType DEF Cell
<1> HIDE DEF i, e
<1>4. /\ Free(seg, i + 1) <=> quote = Unquoted
      /\ QuoteAfter(seg)[i + 1] = QuoteNext(quote, c)
      /\ Operator(seg, i + 1) <=> quote = Unquoted /\ c \in {"<", ">"}
      /\ More(seg, i + 1) <=> quote = Unquoted /\ c = ">"
  BY <1>1, <1>2, NextPlace DEF Operator, More
<1>5. NextQuote(quote, c) = QuoteAfter(seg)[i + 1]
  BY <1>4, SameNext
<1>6. p \in Seq(Cell) => Joint(f, e, p)
  <2> HIDE DEF p
  <2> QED
    BY <1>1, Joined, Zenon
<1>7. CASE ~(quote = Unquoted /\ c \in {"<", ">"})
  <2>1. p \in Seq(Cell) /\ Len(p) = 1 /\ At(p, 1, seg[i + 1]) /\ Len(Taken(c, d)) = 1
    BY <1>1, <1>3, <1>7, PlainPiece
  <2>2. ~Operator(seg, i + 1) /\ Joint(f, e, p)
    BY <1>4, <1>6, <1>7, <2>1
  <2> HIDE DEF p, f
  <2>3. Turned(seg, f, i + 1)
    BY <1>1, <1>2, <2>1, <2>2, TurnPlain
  <2>4. j = i + 1
    BY <2>1 DEF i
  <2> QED
    BY <1>1, <1>5, <2>3, <2>4 DEF f, p, e
<1>8. CASE quote = Unquoted /\ c \in {"<", ">"} /\ ~(c = ">" /\ d = ">")
  <2>1. /\ p \in Seq(Cell) /\ Len(p) = 3 /\ Gap(p, 1) /\ At(p, 2, seg[i + 1]) /\ Gap(p, 3)
        /\ Len(Taken(c, d)) = 1
    <3> DEFINE t == Len(Taken(c, d))
    <3>1. /\ p \in Seq(Cell) /\ Len(p) = t + 2 /\ Gap(p, 1) /\ Gap(p, t + 2)
          /\ At(p, 2, c) /\ t = 1
      BY <1>3, <1>8, OperatorPiece
    <3> HIDE DEF p, t
    <3>2. t + 2 = 3
      BY <3>1
    <3> QED
      BY <1>1, <3>1, <3>2 DEF t
  <2>2. Operator(seg, i + 1) /\ Joint(f, e, p)
    BY <1>4, <1>6, <1>8, <2>1
  <2>3. ~Second(seg, i + 2)
    <3> DEFINE k == i + 2
    <3>1. k \in Nat \ {0} /\ k - 1 = i + 1 /\ (k \in 1..Len(seg) => i + 1 < Len(seg))
      BY <1>1
    <3>2. k \in 1..Len(seg) => d = seg[k]
      BY <1>1, <3>1
    <3> HIDE DEF k
    <3>3. DOMAIN seg = 1..Len(seg)
      BY <1>1, WordFacts
    <3>4. Second(seg, k) => More(seg, k) /\ More(seg, k - 1)
      BY <1>1, <3>1, SecondFacts
    <3>5. More(seg, k) => d = ">"
      BY <3>2, <3>3 DEF More, Free
    <3>6. ~Second(seg, k)
      BY <1>4, <1>8, <3>1, <3>4, <3>5
    <3> QED
      BY <3>6 DEF k
  <2> HIDE DEF p, f
  <2>4. Turned(seg, f, i + 1)
    BY <1>1, <1>2, <2>1, <2>2, <2>3, TurnSingle
  <2>5. j = i + 1
    BY <2>1 DEF i
  <2> QED
    BY <1>1, <1>5, <2>4, <2>5 DEF f, p, e
<1>9. CASE quote = Unquoted /\ c = ">" /\ d = ">"
  <2>0. d # NUL
    BY <1>9 DEF NUL
  <2>1. /\ p \in Seq(Cell) /\ Len(p) = 4 /\ Gap(p, 1) /\ At(p, 2, seg[i + 1])
        /\ At(p, 3, seg[i + 2]) /\ Gap(p, 4) /\ Len(Taken(c, d)) = 2
    <3> DEFINE t == Len(Taken(c, d))
    <3>1. /\ p \in Seq(Cell) /\ Len(p) = t + 2 /\ Gap(p, 1) /\ Gap(p, t + 2)
          /\ At(p, 2, c) /\ At(p, 3, d) /\ t = 2
      BY <1>3, <1>9, OperatorPiece
    <3> HIDE DEF p, t
    <3>2. t + 2 = 4
      BY <3>1
    <3> QED
      BY <1>1, <2>0, <3>1, <3>2 DEF t
  <2>2. Operator(seg, i + 1) /\ Joint(f, e, p) /\ More(seg, i + 1)
    BY <1>4, <1>6, <1>9, <2>1
  <2> DEFINE k == i + 1
  <2>3. k \in Nat /\ k < Len(seg) /\ k + 1 = i + 2
    BY <1>1, <2>0
  <2>4. QuoteAfter(seg)[k] = Unquoted /\ seg[k + 1] = ">"
    <3>1. QuoteNext(quote, c) = Unquoted
      BY <1>9, NoNul DEF QuoteNext
    <3> QED
      BY <1>1, <1>4, <1>9, <2>0, <2>3, <3>1
  <2> HIDE DEF k
  <2>5. Free(seg, k + 1) /\ QuoteAfter(seg)[k + 1] = QuoteNext(Unquoted, seg[k + 1])
    BY <1>1, <2>3, <2>4, NextPlace
  <2>6. More(seg, k + 1) /\ Operator(seg, k + 1) /\ QuoteAfter(seg)[k + 1] = Unquoted
    BY <2>4, <2>5, NoNul DEF More, Operator, QuoteNext
  <2>7. Second(seg, i + 2)
    <3> DEFINE h == i + 2
    <3>1. h \in Nat \ {0} /\ h - 1 = i + 1 /\ h = k + 1
      BY <1>1, <2>3
    <3> HIDE DEF h
    <3>2. Second(seg, h) <=> More(seg, h) /\ More(seg, h - 1) /\ ~Second(seg, h - 1)
      BY <1>1, <3>1, SecondFacts
    <3>3. ~Second(seg, i + 1)
      BY <1>2 DEF Turned
    <3>4. Second(seg, h)
      BY <2>2, <2>6, <3>1, <3>2, <3>3
    <3> QED
      BY <3>4 DEF h
  <2>8. NextQuote(quote, c) = Unquoted
    BY <1>5, <2>4 DEF k
  <2> HIDE DEF p, f
  <2>9. Turned(seg, f, i + 2)
    BY <1>1, <1>2, <2>0, <2>1, <2>2, <2>3, <2>6, <2>7, TurnDouble
  <2>10. j = i + 2 /\ i + 2 <= Len(seg) /\ i + 2 \in Nat
    <3>1. j = i + 2
      BY <2>1 DEF i
    <3>2. i + 2 <= Len(seg) /\ i + 2 \in Nat
      BY <1>1, <2>0
    <3> QED
      BY <3>1, <3>2
  <2> QED
    BY <2>3, <2>6, <2>8, <2>9, <2>10 DEF f, p, e
<1> QED
  BY <1>7, <1>8, <1>9

----------------------------------------------------------------------------
(* The words that the tokenizer cuts. *)

(* t holds the letters up to j of the word that begins at i, the r-th. *)
Inside(s, i, j, t, r) ==
    /\ i \in WordStarts(s) /\ i <= j /\ ~Blank(s, j)
    /\ Rank(s, i) = r /\ Rank(s, j) = r /\ t = Letters(s, i, j)
    /\ \A p \in (i + 1)..j : ~Blank(s, p) /\ p \notin WordStarts(s)

\* The word ends with the segment, at a blank and where a blank is put.
LEMMA InsideEnds ==
    ASSUME NEW s \in Word, NEW j \in 0..Len(s), NEW i, NEW t, NEW r, Inside(s, i, j, t, r),
           j = Len(s) \/ Blank(s, j + 1) \/ Border(s, j + 1)
    PROVE  t = WordOf(s, r)
<1>1. /\ i \in WordStarts(s) /\ i <= j /\ Rank(s, i) = r /\ t = Letters(s, i, j) /\ ~Blank(s, j)
      /\ \A p \in (i + 1)..j : ~Blank(s, p) /\ p \notin WordStarts(s)
  BY DEF Inside
<1>2. i \in Nat \ {0} /\ Len(s) \in Nat /\ j \in Nat /\ j <= Len(s)
  <2>1. WordStarts(s) \in SUBSET (1..Len(s)) /\ Len(s) \in Nat
    BY StartsFacts
  <2> QED
    BY <1>1, <2>1
<1>3. j = Len(s) \/ Blank(s, j + 1) \/ j + 1 \in WordStarts(s)
  <2>1. j # Len(s) => j < Len(s)
    BY <1>2
  <2> QED
    BY <1>2, <2>1, StartsAre
<1>4. WordEnd(s, i) = j
  BY <1>1, <1>2, <1>3, EndFacts
<1>5. Sorted(WordStarts(s))[r] = i
  BY <1>1, RankedStart
<1> QED
  BY <1>1, <1>4, <1>5 DEF WordOf

\* It goes on with a character that is no blank and has none put before it.
LEMMA InsideGoes ==
    ASSUME NEW s \in Word, NEW j \in Nat \ {0}, j < Len(s), NEW i, NEW t, NEW r,
           Inside(s, i, j, t, r), ~Blank(s, j + 1), ~Border(s, j + 1)
    PROVE  /\ Mark(s, j + 1) => Inside(s, i, j + 1, t, r)
           /\ ~Mark(s, j + 1) => Inside(s, i, j + 1, Append(t, s[j + 1]), r)
<1> DEFINE k == j + 1
<1>1. /\ i \in WordStarts(s) /\ i <= j /\ Rank(s, i) = r /\ Rank(s, j) = r /\ t = Letters(s, i, j)
      /\ ~Blank(s, j)
      /\ \A p \in (i + 1)..j : ~Blank(s, p) /\ p \notin WordStarts(s)
  BY DEF Inside
<1>2. i \in Nat \ {0} /\ i <= k
  <2>1. WordStarts(s) \in SUBSET (1..Len(s)) /\ Len(s) \in Nat
    BY StartsFacts
  <2> QED
    BY <1>1, <2>1
<1>3. k \notin WordStarts(s)
  BY <1>1, StartsAre
<1>4. Rank(s, k) = r
  BY <1>1, <1>3, RankNext
<1>5. \A p \in (i + 1)..k : p \in (i + 1)..j \/ p = k
  BY <1>2
<1>6. Letters(s, i, k) = IF Mark(s, k) THEN t ELSE Append(t, s[k])
  BY <1>1, <1>2, LettersNext
<1>7. ~Blank(s, k)
  OBVIOUS
<1> HIDE DEF k
<1>8. \A p \in (i + 1)..k : ~Blank(s, p) /\ p \notin WordStarts(s)
  BY <1>1, <1>3, <1>5, <1>7
<1>9. Mark(s, k) => Inside(s, i, k, t, r)
  BY <1>1, <1>2, <1>4, <1>6, <1>7, <1>8 DEF Inside
<1>10. ~Mark(s, k) => Inside(s, i, k, Append(t, s[k]), r)
  BY <1>1, <1>2, <1>4, <1>6, <1>7, <1>8 DEF Inside
<1> QED
  BY <1>9, <1>10 DEF k

\* It begins after a blank, one that is put there too, or with the segment.
LEMMA InsideBegins ==
    ASSUME NEW s \in Word, NEW j \in Nat, j < Len(s), ~Blank(s, j + 1),
           j = 0 \/ Blank(s, j) \/ Border(s, j + 1)
    PROVE  /\ Mark(s, j + 1) => Inside(s, j + 1, j + 1, <<>>, Rank(s, j) + 1)
           /\ ~Mark(s, j + 1) =>
                 Inside(s, j + 1, j + 1, Append(<<>>, s[j + 1]), Rank(s, j) + 1)
<1> DEFINE k == j + 1
<1>1. k \in WordStarts(s)
  BY StartsAre
<1>2. Rank(s, k) = Rank(s, j) + 1
  BY <1>1, RankNext
<1>3. k \in Nat \ {0} /\ k <= k /\ j < k /\ j \in 0..Len(s) /\ \A p \in (k + 1)..k : FALSE
  BY WordFacts
<1>4. Letters(s, k, k) = IF Mark(s, k) THEN Letters(s, k, j) ELSE Append(Letters(s, k, j), s[k])
  <2> DEFINE h == k
  <2>1. h \in Nat \ {0} /\ h <= j + 1
    BY <1>3
  <2> HIDE DEF h
  <2>2. Letters(s, h, j + 1) = IF Mark(s, j + 1) THEN Letters(s, h, j) ELSE Append(Letters(s, h, j), s[j + 1])
    BY <2>1, LettersNext
  <2> QED
    BY <2>2 DEF h
<1>5. ~Blank(s, k)
  OBVIOUS
<1> HIDE DEF k
<1>6. Letters(s, k, j) = <<>>
  BY <1>3, KeptFacts
<1>7. Mark(s, k) => Inside(s, k, k, <<>>, Rank(s, j) + 1)
  BY <1>1, <1>2, <1>3, <1>4, <1>5, <1>6 DEF Inside
<1>8. ~Mark(s, k) => Inside(s, k, k, Append(<<>>, s[k]), Rank(s, j) + 1)
  BY <1>1, <1>2, <1>3, <1>4, <1>5, <1>6 DEF Inside
<1> QED
  BY <1>7, <1>8 DEF k

(* How far the tokenizer is: k places of expanded, which stand for the segment
   up to j, have been cut into words. *)
Cut(k) == /\ \A i \in 1..Len(tokens) : tokens[i] = WordOf(seg, i)
          /\ k = src - 1
CutTo(P, k, j) ==
    /\ Expands(P, seg, expanded, Len(expanded) - 1, Len(seg))
    /\ Cut(k) /\ j = P[k] /\ quote = QuoteAfter(seg)[j]
    /\ open => /\ k > 0 /\ Copies(P, seg, expanded, k)
               /\ \E i : Inside(seg, i, j, tok, Len(tokens) + 1)
    /\ ~open => /\ tok = <<>> /\ Rank(seg, j) = Len(tokens)
                /\ k = 0 \/ Blank(seg, j) \/ Pads(P, seg, expanded, k)

(* Where the cutting into tokens stands in the expansion. *)
LEMMA TokenFacts ==
    ASSUME TypeOK, PhaseInv, pc = "tokens", NEW P, NEW k, NEW j, CutTo(P, k, j),
           NEW l, l = Len(expanded) - 1, NEW c, c = expanded[src]
    PROVE  /\ seg \in Word /\ Len(seg) \in Nat /\ k \in Nat /\ src = k + 1 /\ l \in Nat /\ k <= l
           /\ Len(expanded) = l + 1
           /\ j \in 0..Len(seg) /\ j \in Nat
           /\ c \in Cell
           /\ k = l => j = Len(seg) /\ c = NUL
           /\ k # l => k + 1 \in 1..l
                       /\ (Copies(P, seg, expanded, k + 1) \/ Pads(P, seg, expanded, k + 1))
           /\ Expands(P, seg, expanded, l, Len(seg)) /\ j = P[k]
<1>1. /\ seg \in Word /\ src \in Nat \ {0} /\ expanded \in Seq(Cell) /\ src <= Len(expanded)
      /\ expanded[Len(expanded)] = NUL /\ k = src - 1 /\ j = P[k]
      /\ Expands(P, seg, expanded, l, Len(seg))
  BY DEF TypeOK, PhaseInv, CutTo, Cut, Cell
<1>2. Len(seg) \in Nat /\ Len(expanded) \in Nat
  BY <1>1, WordFacts, LenProperties
<1>3. k \in Nat /\ src = k + 1 /\ l \in Nat /\ k <= l /\ src \in 1..Len(expanded) /\ Len(expanded) = l + 1
  BY <1>1, <1>2
<1>4. c \in Cell
  BY <1>1, <1>3, ElementOfSeq
<1>5. P \in [0..l -> 0..Len(seg)] /\ P[l] = Len(seg)
  BY <1>1 DEF Expands
<1>6. k \in 0..l
  BY <1>3
<1>7. j \in 0..Len(seg)
  BY <1>1, <1>5, <1>6
<1>8. j \in Nat
  BY <1>2, <1>7
<1>9. k = l => j = Len(seg) /\ c = NUL
  BY <1>1, <1>3, <1>5
<1>10. k # l => k + 1 \in 1..l
  BY <1>3
<1>11. k # l => Copies(P, seg, expanded, k + 1) \/ Pads(P, seg, expanded, k + 1)
  BY <1>1, <1>10 DEF Expands
<1> QED
  BY <1>1, <1>2, <1>3, <1>4, <1>7, <1>8, <1>9, <1>10, <1>11

\* A character that is copied: whether it ends the word and whether it is kept.
LEMMA CopiedChar ==
    ASSUME NEW s \in Word, NEW e, NEW l \in Nat, NEW P, Expands(P, s, e, l, Len(s)),
           NEW k \in Nat, k + 1 \in 1..l, Copies(P, s, e, k + 1), NEW j, j = P[k],
           quote = QuoteAfter(s)[j], NEW c, c = e[k + 1]
    PROVE  /\ j \in Nat /\ j < Len(s) /\ P[k + 1] = j + 1 /\ c = s[j + 1] /\ c # NUL
           /\ NextQuote(quote, c) = QuoteAfter(s)[j + 1]
           /\ Ends(c) => Blank(s, j + 1)
           /\ Blank(s, j + 1) => Ends(c)
           /\ Delimits(c) => Mark(s, j + 1)
           /\ Mark(s, j + 1) => Delimits(c)
           /\ c \in Char
<1>1. Len(s) \in Nat /\ P \in [0..l -> 0..Len(s)] /\ k \in 0..l /\ k + 1 \in 0..l /\ k + 1 - 1 = k
  BY WordFacts DEF Expands
<1>2. P[k + 1] = j + 1 /\ c = s[P[k + 1]]
  BY <1>1 DEF Copies, At
<1>3. j \in 0..Len(s) /\ P[k + 1] \in 0..Len(s)
  BY <1>1
<1>4. j \in Nat /\ j < Len(s) /\ c = s[j + 1]
  BY <1>1, <1>2, <1>3
<1>5. /\ c \in Char /\ quote \in Quotes \cup {Unquoted}
      /\ QuoteAfter(s)[j + 1] = QuoteNext(quote, c)
      /\ Free(s, j + 1) <=> quote = Unquoted
      /\ Mark(s, j + 1) <=> c \in Quotes /\ quote \in {Unquoted, c}
  BY <1>4, NextPlace
<1>6. c # NUL
  BY <1>5, NoNul
<1>7. NextQuote(quote, c) = QuoteAfter(s)[j + 1]
  BY <1>5, SameNext
<1>8. Blank(s, j + 1) <=> quote = Unquoted /\ c = " "
  <2> DEFINE i == j + 1
  <2>1. c = s[i] /\ (Free(s, i) <=> quote = Unquoted)
    BY <1>4, <1>5
  <2> HIDE DEF i
  <2>2. Blank(s, i) <=> quote = Unquoted /\ c = " "
    BY <2>1, Zenon DEF Blank
  <2> QED
    BY <2>2 DEF i
<1>9. Ends(c) <=> quote = Unquoted /\ c = " "
  BY <1>6, Zenon DEF Ends
<1>10. Delimits(c) <=> c \in Quotes /\ quote \in {Unquoted, c}
  <2>1. CASE quote = Unquoted
    BY <2>1, Zenon DEF Delimits
  <2>2. CASE quote # Unquoted
    <3>1. Delimits(c) <=> c = quote
      BY <2>2, Zenon DEF Delimits
    <3>2. quote \in Quotes
      BY <1>5, <2>2
    <3> QED
      BY <2>2, <3>1, <3>2
  <2> QED
    BY <2>1, <2>2
<1>11. /\ Ends(c) => Blank(s, j + 1)
       /\ Blank(s, j + 1) => Ends(c)
       /\ Delimits(c) => Mark(s, j + 1)
       /\ Mark(s, j + 1) => Delimits(c)
  BY <1>5, <1>8, <1>9, <1>10, Zenon
<1> QED
  BY <1>2, <1>4, <1>5, <1>6, <1>7, <1>11

\* A blank that was put there ends the word.
LEMMA PaddedChar ==
    ASSUME NEW s \in Word, NEW e, NEW l \in Nat, NEW P, Expands(P, s, e, l, Len(s)),
           NEW k \in Nat, k + 1 \in 1..l, Pads(P, s, e, k + 1), NEW j, j = P[k],
           quote = QuoteAfter(s)[j], NEW c, c = e[k + 1]
    PROVE  /\ j \in 0..Len(s) /\ P[k + 1] = j /\ c # NUL /\ Ends(c) /\ Border(s, j + 1)
           /\ NextQuote(quote, c) = QuoteAfter(s)[j]
<1>1. Len(s) \in Nat /\ P \in [0..l -> 0..Len(s)] /\ k \in 0..l /\ k + 1 - 1 = k
  BY WordFacts DEF Expands
<1>2. j \in 0..Len(s) /\ P[k + 1] = j /\ Border(s, j + 1)
  BY <1>1 DEF Pads
<1>3. c = " "
  <2> DEFINE i == k + 1
  <2>1. Gap(e, i) /\ c = e[i]
    BY DEF Pads
  <2> HIDE DEF i
  <2> QED
    BY <2>1, Zenon DEF Gap
<1>4. quote = Unquoted
  BY <1>2, BorderFacts
<1>5. c # NUL /\ Ends(c)
  BY <1>3, <1>4, NoNul, Zenon DEF Ends
<1>6. NextQuote(quote, c) = quote
  BY <1>3, <1>4, NoNul, Zenon DEF NextQuote
<1> QED
  BY <1>2, <1>5, <1>6

\* The tokens after a word has been cut off.
Cutoff == IF open THEN Append(tokens, tok) ELSE tokens

(* With the token that is open, the tokens are the words that have begun. *)
LEMMA CutoffFacts ==
    ASSUME TypeOK, NEW P, NEW k, NEW j, CutTo(P, k, j), j \in 0..Len(seg),
           open => j = Len(seg) \/ Blank(seg, j + 1) \/ Border(seg, j + 1)
    PROVE  /\ Len(Cutoff) = Rank(seg, j)
           /\ \A i \in 1..Len(Cutoff) : Cutoff[i] = WordOf(seg, i)
<1>1. /\ tokens \in Seq(Word) /\ tok \in Word /\ seg \in Word /\ Len(tokens) \in Nat
      /\ open \in BOOLEAN
  BY LenProperties DEF TypeOK
<1>2. \A i \in 1..Len(tokens) : tokens[i] = WordOf(seg, i)
  BY DEF CutTo, Cut
<1>3. CASE ~open
  <2>1. Cutoff = tokens /\ Rank(seg, j) = Len(tokens)
    BY <1>3, Zenon DEF Cutoff, CutTo
  <2> QED
    BY <1>2, <2>1
<1>4. CASE open
  <2>1. PICK i : Inside(seg, i, j, tok, Len(tokens) + 1)
    BY <1>4, Zenon DEF CutTo
  <2>2. Rank(seg, j) = Len(tokens) + 1
    BY <2>1 DEF Inside
  <2>3. tok = WordOf(seg, Len(tokens) + 1)
    <3> DEFINE r == Len(tokens) + 1
    <3>1. Inside(seg, i, j, tok, r) /\ (j = Len(seg) \/ Blank(seg, j + 1) \/ Border(seg, j + 1))
      BY <1>4, <2>1
    <3> HIDE DEF r
    <3>2. tok = WordOf(seg, r)
      BY <1>1, <3>1, InsideEnds
    <3> QED
      BY <3>2 DEF r
  <2>4. Cutoff = Append(tokens, tok)
    BY <1>4, Zenon DEF Cutoff
  <2>5. /\ Len(Append(tokens, tok)) = Len(tokens) + 1
        /\ \A a \in 1..Len(tokens) : Append(tokens, tok)[a] = tokens[a]
        /\ Append(tokens, tok)[Len(tokens) + 1] = tok
    BY <1>1, AppendProperties
  <2>6. \A a \in 1..(Len(tokens) + 1) : a \in 1..Len(tokens) \/ a = Len(tokens) + 1
    BY <1>1
  <2>7. \A a \in 1..(Len(tokens) + 1) : Append(tokens, tok)[a] = WordOf(seg, a)
    BY <1>2, <2>3, <2>5, <2>6
  <2> QED
    BY <2>2, <2>4, <2>5, <2>7
<1> QED
  BY <1>1, <1>3, <1>4

\* One turn of the tokenizer that does not meet the NUL.
TokenStep(c) ==
    /\ tokens' = IF Ends(c) /\ open THEN Append(tokens, tok) ELSE tokens
    /\ tok' = CASE Ends(c) -> <<>> [] Belongs(c) -> Append(tok, c) [] OTHER -> tok
    /\ open' = ~Ends(c) /\ quote' = NextQuote(quote, c) /\ src' = src + 1
    /\ seg' = seg /\ expanded' = expanded

(* What a turn of the cutting does at the end of a token. *)
LEMMA StepOnEnd ==
    ASSUME NEW c, TokenStep(c), Ends(c)
    PROVE  tokens' = Cutoff /\ tok' = <<>> /\ ~open'
<1>1. tokens' = Cutoff
  BY Zenon DEF TokenStep, Cutoff
<1>2. tok' = <<>>
  BY Zenon DEF TokenStep, Belongs
<1>3. ~open'
  BY Zenon DEF TokenStep
<1> QED
  BY <1>1, <1>2, <1>3

(* And what it does inside one. *)
LEMMA StepInside ==
    ASSUME NEW c, TokenStep(c), ~Ends(c)
    PROVE  /\ tokens' = tokens /\ open'
           /\ Delimits(c) => tok' = tok
           /\ ~Delimits(c) => tok' = Append(tok, c)
<1>1. tokens' = tokens /\ open'
  BY Zenon DEF TokenStep
<1>2. Delimits(c) => tok' = tok
  BY Zenon DEF TokenStep, Belongs
<1>3. ~Delimits(c) => tok' = Append(tok, c)
  BY Zenon DEF TokenStep, Belongs
<1> QED
  BY <1>1, <1>2, <1>3

(* A blank or a pad outside quotes closes the token, and the word. *)
LEMMA CutEnd ==
    ASSUME TypeOK, PhaseInv, pc = "tokens", NEW P, NEW k, NEW j, CutTo(P, k, j),
           NEW c, c = expanded[src], c # NUL, TokenStep(c), Ends(c)
    PROVE  CutTo(P, k + 1, P[k + 1])'
<1> DEFINE l == Len(expanded) - 1
           i == P[k + 1]
<1>1. /\ seg \in Word /\ k \in Nat /\ src = k + 1 /\ l \in Nat /\ j \in Nat /\ j \in 0..Len(seg)
      /\ k + 1 \in 1..l
      /\ Copies(P, seg, expanded, k + 1) \/ Pads(P, seg, expanded, k + 1)
      /\ Expands(P, seg, expanded, l, Len(seg)) /\ j = P[k]
  BY TokenFacts
<1>2. quote = QuoteAfter(seg)[j]
  BY DEF CutTo
<1>3. tokens' = Cutoff /\ tok' = <<>> /\ ~open'
  BY StepOnEnd
<1>4. /\ quote' = NextQuote(quote, c) /\ src' = src + 1 /\ seg' = seg /\ expanded' = expanded
  BY Zenon DEF TokenStep
<1>5. k + 1 = src' - 1
  BY <1>1, <1>4
<1> HIDE DEF l
<1>6. /\ j = Len(seg) \/ Blank(seg, j + 1) \/ Border(seg, j + 1)
      /\ quote' = QuoteAfter(seg)[i] /\ Rank(seg, i) = Rank(seg, j)
      /\ Blank(seg, i) \/ Pads(P, seg, expanded, k + 1)
  <2>1. CASE Copies(P, seg, expanded, k + 1)
    <3>1. /\ j < Len(seg) /\ P[k + 1] = j + 1 /\ Blank(seg, j + 1)
          /\ NextQuote(quote, c) = QuoteAfter(seg)[j + 1]
      BY <1>1, <1>2, <2>1, CopiedChar
    <3>2. j + 1 \notin WordStarts(seg)
      BY <3>1 DEF WordStarts
    <3>3. Rank(seg, j + 1) = Rank(seg, j)
      BY <1>1, <3>1, <3>2, RankNext
    <3> QED
      BY <1>4, <3>1, <3>3
  <2>2. CASE Pads(P, seg, expanded, k + 1)
    <3>1. P[k + 1] = j /\ Border(seg, j + 1) /\ NextQuote(quote, c) = QuoteAfter(seg)[j]
      BY <1>1, <1>2, <2>2, PaddedChar
    <3> QED
      BY <1>4, <2>2, <3>1
  <2> QED
    BY <1>1, <2>1, <2>2
<1>7. Len(Cutoff) = Rank(seg, j) /\ \A a \in 1..Len(Cutoff) : Cutoff[a] = WordOf(seg, a)
  BY <1>1, <1>6, CutoffFacts
<1>8. Cut(k + 1)'
  BY <1>3, <1>4, <1>5, <1>7 DEF Cut
<1>9. Expands(P, seg', expanded', Len(expanded') - 1, Len(seg'))
  BY <1>1, <1>4 DEF l
<1> HIDE DEF i
<1>10. Rank(seg', i) = Len(tokens')
  BY <1>3, <1>4, <1>6, <1>7
<1>11. Blank(seg', i) \/ Pads(P, seg', expanded', k + 1)
  BY <1>4, <1>6
<1>12. quote' = QuoteAfter(seg')[i]
  BY <1>4, <1>6
<1> QED
  BY <1>3, <1>8, <1>9, <1>10, <1>11, <1>12, Zenon DEF CutTo, i

(* Any other character belongs to the token as it does to the word. *)
LEMMA CutLetter ==
    ASSUME TypeOK, PhaseInv, pc = "tokens", NEW P, NEW k, NEW j, CutTo(P, k, j),
           NEW c, c = expanded[src], c # NUL, TokenStep(c), ~Ends(c)
    PROVE  CutTo(P, k + 1, P[k + 1])'
<1> DEFINE l == Len(expanded) - 1
           i == P[k + 1]
<1>1. /\ seg \in Word /\ k \in Nat /\ src = k + 1 /\ l \in Nat /\ j \in Nat /\ k \in 0..l
      /\ k + 1 \in 1..l
      /\ Copies(P, seg, expanded, k + 1) \/ Pads(P, seg, expanded, k + 1)
      /\ Expands(P, seg, expanded, l, Len(seg)) /\ j = P[k]
  BY TokenFacts
<1>2. quote = QuoteAfter(seg)[j]
  BY DEF CutTo
<1>3. tokens' = tokens /\ open' /\ (Delimits(c) => tok' = tok)
      /\ (~Delimits(c) => tok' = Append(tok, c))
  BY StepInside
<1>4. quote' = NextQuote(quote, c) /\ src' = src + 1 /\ seg' = seg /\ expanded' = expanded
  BY Zenon DEF TokenStep
<1>5. k + 1 = src' - 1 /\ k + 1 > 0
  BY <1>1, <1>4
<1> HIDE DEF l
<1>6. Copies(P, seg, expanded, k + 1)
  BY <1>1, <1>2, PaddedChar
<1>7. /\ j < Len(seg) /\ i = j + 1 /\ c = seg[j + 1]
      /\ NextQuote(quote, c) = QuoteAfter(seg)[j + 1]
      /\ ~Blank(seg, j + 1)
      /\ Delimits(c) => Mark(seg, j + 1)
      /\ Mark(seg, j + 1) => Delimits(c)
  BY <1>1, <1>2, <1>6, CopiedChar
<1>8. \E a : Inside(seg, a, j + 1, tok', Len(tokens) + 1)
  <2>1. CASE open
    <3>1. PICK a : Inside(seg, a, j, tok, Len(tokens) + 1)
      BY <2>1, Zenon DEF CutTo
    <3>2. k > 0 /\ Copies(P, seg, expanded, k)
      BY <2>1, Zenon DEF CutTo
    <3>3. j # 0
      <4>1. P \in [0..l -> 0..Len(seg)] /\ P[k] = P[k - 1] + 1 /\ Len(seg) \in Nat
        BY <1>1, <3>2, WordFacts DEF Expands, Copies
      <4>2. k - 1 \in 0..l
        BY <1>1, <3>2
      <4>3. P[k - 1] \in 0..Len(seg)
        BY <4>1, <4>2
      <4> QED
        BY <1>1, <4>1, <4>3
    <3>4. ~Border(seg, j + 1)
      <4>1. \A y \in 2..l :
                Copies(P, seg, expanded, y - 1) /\ Copies(P, seg, expanded, y) => ~Border(seg, P[y])
        BY <1>1 DEF Expands
      <4> DEFINE y == k + 1
      <4>2. y \in 2..l /\ y - 1 = k /\ Copies(P, seg, expanded, y) /\ P[y] = j + 1
        BY <1>1, <1>6, <1>7, <3>2
      <4> HIDE DEF y
      <4> QED
        BY <3>2, <4>1, <4>2
    <3>5. j \in Nat \ {0}
      BY <1>1, <3>3
    <3>6. CASE Delimits(c)
      <4>1. Inside(seg, a, j + 1, tok, Len(tokens) + 1)
        BY <1>1, <1>7, <3>1, <3>4, <3>5, <3>6, InsideGoes
      <4> QED
        BY <1>3, <3>6, <4>1
    <3>7. CASE ~Delimits(c)
      <4>1. Inside(seg, a, j + 1, Append(tok, seg[j + 1]), Len(tokens) + 1)
        BY <1>1, <1>7, <3>1, <3>4, <3>5, <3>7, InsideGoes
      <4> QED
        BY <1>3, <1>7, <3>7, <4>1
    <3> QED
      BY <3>6, <3>7
  <2>2. CASE ~open
    <3>1. /\ tok = <<>> /\ Rank(seg, j) = Len(tokens)
          /\ k = 0 \/ Blank(seg, j) \/ Pads(P, seg, expanded, k)
      BY <2>2, Zenon DEF CutTo
    <3>2. j = 0 \/ Blank(seg, j) \/ Border(seg, j + 1)
      <4>1. CASE k = 0
        BY <1>1, <4>1 DEF Expands
      <4>2. CASE Pads(P, seg, expanded, k)
        BY <1>1, <4>2 DEF Pads
      <4> QED
        BY <3>1, <4>1, <4>2
    <3>3. CASE Delimits(c)
      <4>1. Inside(seg, j + 1, j + 1, <<>>, Rank(seg, j) + 1)
        BY <1>1, <1>7, <3>2, <3>3, InsideBegins
      <4> QED
        BY <1>3, <3>1, <3>3, <4>1
    <3>4. CASE ~Delimits(c)
      <4>1. Inside(seg, j + 1, j + 1, Append(<<>>, seg[j + 1]), Rank(seg, j) + 1)
        BY <1>1, <1>7, <3>2, <3>4, InsideBegins
      <4> QED
        BY <1>3, <1>7, <3>1, <3>4, <4>1
    <3> QED
      BY <3>3, <3>4
  <2> QED
    BY <2>1, <2>2
<1>9. Cut(k + 1)'
  <2>1. \A a \in 1..Len(tokens) : tokens[a] = WordOf(seg, a)
    BY DEF CutTo, Cut
  <2> QED
    BY <1>3, <1>4, <1>5, <2>1 DEF Cut
<1>10. Expands(P, seg', expanded', Len(expanded') - 1, Len(seg'))
  BY <1>1, <1>4 DEF l
<1> HIDE DEF i
<1>11. Copies(P, seg', expanded', k + 1) /\ quote' = QuoteAfter(seg')[i]
  BY <1>4, <1>6, <1>7
<1>12. \E a : Inside(seg', a, i, tok', Len(tokens') + 1)
  BY <1>3, <1>4, <1>7, <1>8
<1> QED
  BY <1>3, <1>5, <1>9, <1>10, <1>11, <1>12, Zenon DEF CutTo, i

----------------------------------------------------------------------------
(* From the segment to its words. *)

\* A segment that is too long for its buffer or for the array expanded.
TooLong(s) == Padded(s) >= Min({SH_CMD_MAX, EXPANDED_MAX}) - 1

(* A segment is too long if its expansion outgrows one of the two arrays. *)
LEMMA TooLongFacts ==
    ASSUME NEW s, NEW x \in {SH_CMD_MAX, EXPANDED_MAX}, Padded(s) \in Nat, Padded(s) >= x - 1
    PROVE  TooLong(s)
<1>1. SH_CMD_MAX \in Nat /\ EXPANDED_MAX \in Nat
  BY SizesAssumption
<1>2. {SH_CMD_MAX, EXPANDED_MAX} \in SUBSET Nat
  BY <1>1
<1>3. Min({SH_CMD_MAX, EXPANDED_MAX}) <= x /\ Min({SH_CMD_MAX, EXPANDED_MAX}) \in Nat
  BY <1>2, MinExists
<1> HIDE DEF Padded
<1> QED
  BY <1>1, <1>2, <1>3 DEF TooLong

\* The locals of the later loops, before these start.
Fresh == tokens = <<>> /\ tok = <<>> /\ open = FALSE /\ dst = 0

Expanding == pc = "expand" => ExpandedTo /\ Fresh /\ cmd = NoCommand
Tokenizing ==
    pc = "tokens" =>
        /\ \E P, k, j : CutTo(P, k, j)
        /\ Len(expanded) - 1 = Padded(seg) /\ dst < src /\ cmd = NoCommand

(* The expansion is never longer than the padded segment. *)
LEMMA PaddedFacts ==
    ASSUME TypeOK, ExpandedTo
    PROVE  /\ Padded(seg) \in Nat /\ Len(expanded) \in Nat /\ Padded(seg) >= Len(expanded)
           /\ src - 1 = Len(seg) => Len(expanded) = Padded(seg)
           /\ Operator(seg, src) => Padded(seg) >= Len(expanded) + 3
<1> DEFINE j == src - 1
           m == Len(seg)
           o == OperatorsTo(seg, j)
           q == Cardinality(OperatorStarts(seg))
           l == Len(expanded)
<1>1. /\ seg \in Word /\ m \in Nat /\ j \in Nat /\ j <= m /\ src = j + 1 /\ l \in Nat
      /\ src \in Nat \ {0}
  BY ReadAhead
<1>2. Turned(seg, expanded, j)
  BY DEF ExpandedTo
<1>3. l = j + 2 * o /\ ~Second(seg, j + 1)
  BY <1>2 DEF Turned
<1>4. o \in Nat /\ q \in Nat /\ o <= q /\ (j = m => o = q)
  BY <1>1, OperatorsFacts
<1>5. Operator(seg, src) => j < m /\ o + 1 <= q
  <2> SUFFICES ASSUME Operator(seg, src) PROVE j < m /\ o + 1 <= q
    OBVIOUS
  <2>1. DOMAIN seg = 1..m /\ src \in DOMAIN seg
    BY <1>1, WordFacts DEF Operator, Free
  <2>2. j < m /\ Operator(seg, j + 1)
    BY <1>1, <2>1
  <2> HIDE DEF j, m
  <2>3. OperatorsTo(seg, j + 1) = o + 1
    BY <1>1, <1>3, <1>4, <2>2, OperatorsNext DEF m
  <2>4. OperatorsTo(seg, j + 1) <= q
    BY <1>1, OperatorsFacts
  <2> QED
    BY <2>2, <2>3, <2>4
<1>6. Padded(seg) = m + 2 * q
  BY DEF Padded
<1> HIDE DEF j, m, o, q, l
<1>7. Padded(seg) \in Nat /\ Padded(seg) >= l /\ (j = m => l = Padded(seg))
  BY <1>1, <1>3, <1>4, <1>6
<1>8. Operator(seg, src) => Padded(seg) >= l + 3
  BY <1>1, <1>3, <1>4, <1>5, <1>6
<1> QED
  BY <1>1, <1>7, <1>8 DEF j, m, l

\* What the expansion gives, and why it gives up.
LEMMA ExpandRefused ==
    ASSUME TypeOK, ExpandedTo, NEW c, c = CharAt(seg, src),
           Len(expanded) >= EXPANDED_MAX - Margin(c)
    PROVE  TooLong(seg)
<1>1. /\ Padded(seg) \in Nat /\ Len(expanded) \in Nat /\ Padded(seg) >= Len(expanded)
      /\ Operator(seg, src) => Padded(seg) >= Len(expanded) + 3
  BY PaddedFacts
<1>2. EXPANDED_MAX \in Nat
  BY SizesAssumption
<1>3. Margin(c) = 1 \/ (Margin(c) = 4 /\ Operator(seg, src))
  <2>1. CASE ~(quote = Unquoted /\ c \in {"<", ">"})
    BY <2>1, Zenon DEF Margin
  <2>2. CASE quote = Unquoted /\ c \in {"<", ">"}
    <3>1. Margin(c) = 4
      BY <2>2, Zenon DEF Margin
    <3>2. c # NUL
      BY <2>2 DEF NUL
    <3> DEFINE j == src - 1
    <3>3. seg \in Word /\ j \in Nat /\ j < Len(seg) /\ c = seg[src] /\ src = j + 1
      BY <3>2, ReadAhead
    <3>4. quote = QuoteAfter(seg)[j]
      BY DEF ExpandedTo
    <3> HIDE DEF j
    <3>5. Free(seg, j + 1)
      BY <2>2, <3>3, <3>4, NextPlace
    <3>6. Operator(seg, src)
      BY <2>2, <3>3, <3>5 DEF Operator
    <3> QED
      BY <3>1, <3>6
  <2> QED
    BY <2>1, <2>2
<1>4. Padded(seg) >= EXPANDED_MAX - 1
  <2>1. CASE Margin(c) = 1
    BY <1>1, <1>2, <2>1
  <2>2. CASE Margin(c) = 4 /\ Operator(seg, src)
    BY <1>1, <1>2, <2>2
  <2> QED
    BY <1>3, <2>1, <2>2
<1> QED
  BY <1>1, <1>4, TooLongFacts

(* At the end of the segment the expansion is the padded segment and a NUL. *)
LEMMA ExpandEnds ==
    ASSUME TypeOK, ExpandedTo, NEW c, c = CharAt(seg, src), c = NUL, NEW d \in Cell,
           NEW f, f = expanded \o Piece(c, d)
    PROVE  /\ Len(f) - 1 = Padded(seg)
           /\ \E P : Expands(P, seg, f, Len(f) - 1, Len(seg))
<1>1. /\ src - 1 = Len(seg) /\ expanded \in Seq(Cell) /\ Len(expanded) \in Nat /\ seg \in Word
  BY ReadAhead
<1>2. Len(expanded) = Padded(seg)
  BY <1>1, PaddedFacts
<1>3. Turned(seg, expanded, Len(seg))
  BY <1>1 DEF ExpandedTo
<1>4. Piece(c, d) \in Seq(Cell) /\ Len(Piece(c, d)) = 1
  <2>1. c \in Cell /\ ~(c \in {"<", ">"})
    BY DEF Cell, NUL
  <2> QED
    BY <2>1, PlainPiece
<1>5. Joint(f, expanded, Piece(c, d))
  BY <1>1, <1>4, Joined, Zenon
<1> DEFINE l == Len(expanded)
<1>6. Len(f) = l + 1 /\ l \in Nat /\ \A k \in 1..l : f[k] = expanded[k]
  BY <1>1, <1>4, <1>5 DEF Joint
<1>7. ExpandsTo(seg, expanded, l, Len(seg))
  BY <1>3 DEF Turned
<1> HIDE DEF l
<1>8. ExpandsTo(seg, f, l, Len(seg))
  BY <1>6, <1>7, SameBeginning
<1>9. Len(f) - 1 = l
  BY <1>6
<1> QED
  BY <1>2, <1>8, <1>9 DEF ExpandsTo, l

\* Nothing has been cut yet.
LEMMA CutNothing ==
    ASSUME NEW m \in Word, seg' = m, expanded' \in Seq(Cell), Len(expanded') - 1 \in Nat,
           NEW P, Expands(P, m, expanded', Len(expanded') - 1, Len(m)),
           src' = 1, quote' = Unquoted, Fresh'
    PROVE  CutTo(P, 0, 0)'
<1>1. P[0] = 0 /\ Expands(P, seg', expanded', Len(expanded') - 1, Len(seg'))
  BY DEF Expands
<1>2. quote' = QuoteAfter(seg')[0]
  BY QuoteFacts
<1>3. tokens' = <<>> /\ tok' = <<>> /\ ~open'
  BY DEF Fresh
<1>4. Len(tokens') = 0
  BY <1>3
<1>5. Rank(seg', 0) = Len(tokens')
  BY <1>4, StartsFacts
<1>6. Cut(0)'
  <2>1. 0 = src' - 1
    OBVIOUS
  <2>2. \A i \in 1..Len(tokens') : FALSE
    BY <1>4
  <2> QED
    BY <2>1, <2>2 DEF Cut
<1>7. 0 = P[0]
  BY <1>1
<1>8. quote' = QuoteAfter(seg')[P[0]]
  BY <1>1, <1>2
<1> QED
  BY <1>1, <1>2, <1>3, <1>5, <1>6, <1>7, Zenon DEF CutTo

----------------------------------------------------------------------------
(* From the words to the command. *)

\* The command that the words up to the k-th make.
CommandTo(ws, k) ==
    [argv |-> Picked(ws, UpTo(ArgumentsAt(ws), k)), input |-> FileAfter(ws, UpTo(Inputs(ws), k)),
     output |-> FileAfter(ws, UpTo(Outputs(ws), k)), append |-> Appends(ws, UpTo(Outputs(ws), k))]

(* Arguments and redirections stand at places of the words. *)
LEMMA PlacesFacts ==
    ASSUME NEW ws \in Seq(Word)
    PROVE  /\ Len(ws) \in Nat /\ DOMAIN ws = 1..Len(ws)
           /\ ArgumentsAt(ws) \in SUBSET (1..Len(ws)) /\ ArgumentsAt(ws) \in SUBSET (0..Len(ws))
           /\ Inputs(ws) \in SUBSET (1..Len(ws)) /\ Inputs(ws) \in SUBSET (0..Len(ws))
           /\ Outputs(ws) \in SUBSET (1..Len(ws)) /\ Outputs(ws) \in SUBSET (0..Len(ws))
<1>1. Len(ws) \in Nat /\ DOMAIN ws = 1..Len(ws)
  BY LenProperties
<1>2. /\ ArgumentsAt(ws) \in SUBSET (1..Len(ws)) /\ Inputs(ws) \in SUBSET (1..Len(ws))
      /\ Outputs(ws) \in SUBSET (1..Len(ws))
  BY <1>1, Zenon DEF ArgumentsAt, Inputs, Outputs
<1>3. \A S : S \in SUBSET (1..Len(ws)) => S \in SUBSET (0..Len(ws))
  BY <1>1
<1> QED
  BY <1>1, <1>2, <1>3

\* Which place is what.
LEMMA PlaceFacts ==
    ASSUME NEW ws \in Seq(Word), NEW k \in Nat, k < Len(ws)
    PROVE  /\ k + 1 \in ArgumentsAt(ws) <=> ~IsOperator(ws, k + 1) /\ ~IsOperator(ws, k)
           /\ k + 1 \in Inputs(ws) <=> ws[k + 1] = <<"<">>
           /\ k + 1 \in Outputs(ws) <=> IsOperator(ws, k + 1) /\ ws[k + 1] # <<"<">>
           /\ k + 1 \in Inputs(ws) => IsOperator(ws, k + 1)
           /\ IsOperator(ws, k + 1) <=> ws[k + 1] \in Redirections
<1> DEFINE i == k + 1
<1>1. i \in DOMAIN ws /\ i - 1 = k
  BY PlacesFacts
<1> HIDE DEF i
<1>2. i \in ArgumentsAt(ws) <=> ~IsOperator(ws, i) /\ ~IsOperator(ws, k)
  BY <1>1 DEF ArgumentsAt
<1>3. /\ i \in Inputs(ws) <=> ws[i] = <<"<">>
      /\ i \in Outputs(ws) <=> IsOperator(ws, i) /\ ws[i] # <<"<">>
  BY <1>1, Zenon DEF Inputs, Outputs, IsOperator
<1>4. /\ IsOperator(ws, i) <=> ws[i] \in Redirections
      /\ ws[i] = <<"<">> => IsOperator(ws, i)
  BY <1>1, Zenon DEF IsOperator, Redirections
<1> QED
  BY <1>2, <1>3, <1>4, Zenon DEF i

(* No words stand for no command. *)
LEMMA CommandStart ==
    ASSUME NEW ws \in Seq(Word)
    PROVE  CommandTo(ws, 0) = NoCommand /\ ~IsOperator(ws, 0)
<1>1. /\ UpTo(ArgumentsAt(ws), 0) = {} /\ UpTo(Inputs(ws), 0) = {} /\ UpTo(Outputs(ws), 0) = {}
  BY PlacesFacts, UpToEnds
<1>2. Picked(ws, {}) = <<>>
  BY PickedEmpty
<1>3. FileAfter(ws, {}) = <<>> /\ Appends(ws, {}) = FALSE
  BY Zenon DEF FileAfter, Appends
<1>4. 0 \notin DOMAIN ws
  BY PlacesFacts
<1> QED
  BY <1>1, <1>2, <1>3, <1>4 DEF CommandTo, NoCommand, IsOperator

(* All of them stand for the whole command. *)
LEMMA CommandEnd ==
    ASSUME NEW ws \in Seq(Word)
    PROVE  CommandTo(ws, Len(ws)) = Command(ws)
<1>1. /\ UpTo(ArgumentsAt(ws), Len(ws)) = ArgumentsAt(ws) /\ UpTo(Inputs(ws), Len(ws)) = Inputs(ws)
      /\ UpTo(Outputs(ws), Len(ws)) = Outputs(ws)
  BY PlacesFacts, UpToEnds
<1> QED
  BY <1>1, Zenon DEF CommandTo, Command

\* The last of several numbers, when one more comes that is larger.
LEMMA LastOf ==
    ASSUME NEW m \in Nat, NEW S \in SUBSET (0..m), NEW x \in 0..m, \A y \in S : y < x
    PROVE  Max(S \cup {x}) = x
<1> DEFINE T == S \cup {x}
<1>1. T \in SUBSET (0..m) /\ T # {}
  OBVIOUS
<1> HIDE DEF T
<1>2. Max(T) \in T /\ \A y \in T : y <= Max(T)
  BY <1>1, MaxExists
<1>3. x <= Max(T)
  BY <1>2 DEF T
<1>4. Max(T) = x \/ Max(T) < x
  BY <1>2 DEF T
<1>5. Max(T) \in Nat
  <2>1. Max(T) \in 0..m
    BY <1>1, <1>2
  <2> QED
    BY <2>1
<1> QED
  BY <1>3, <1>4, <1>5 DEF T

(* The last redirection is the one that counts. *)
LEMMA FileNext ==
    ASSUME NEW ws \in Seq(Word), NEW k \in Nat, k < Len(ws), NEW S \in SUBSET (0..Len(ws)),
           \A y \in S : y < k + 1
    PROVE  /\ FileAfter(ws, S \cup {k + 1}) = ws[k + 2]
           /\ Appends(ws, S \cup {k + 1}) = (ws[k + 1] = <<">", ">">>)
<1> DEFINE x == k + 1
           T == S \cup {x}
<1>1. x \in 0..Len(ws) /\ Len(ws) \in Nat /\ x + 1 = k + 2
  BY PlacesFacts
<1> HIDE DEF x
<1>2. Max(T) = x
  BY <1>1, LastOf DEF x
<1>3. T # {}
  OBVIOUS
<1> HIDE DEF T
<1>4. FileAfter(ws, T) = ws[x + 1]
  BY <1>2, <1>3, Zenon DEF FileAfter
<1>5. Appends(ws, T) = (ws[x] = <<">", ">">>)
  BY <1>2, <1>3, Zenon DEF Appends
<1> QED
  BY <1>1, <1>4, <1>5 DEF T, x

\* A command with one argument more, and one with another output.
Made(c, a, i, o, p) == c = [argv |-> a, input |-> i, output |-> o, append |-> p]
WithArgument(c, w) == [c EXCEPT !.argv = Append(@, w)]
WithOutput(c, w, q) == [c EXCEPT !.output = w, !.append = q]

(* One argument more changes nothing else. *)
LEMMA MoreArguments ==
    ASSUME NEW a, NEW i, NEW o, NEW p, NEW w, NEW c, Made(c, a, i, o, p)
    PROVE  Made(WithArgument(c, w), Append(a, w), i, o, p)
<1>1. c = [argv |-> a, input |-> i, output |-> o, append |-> p]
  BY DEF Made
<1>2. [argv |-> Append(a, w), input |-> i, output |-> o, append |-> p]
      = [c EXCEPT !.argv = Append(@, w)]
  BY <1>1
<1> QED
  BY <1>2, Zenon DEF Made, WithArgument

(* Another output file changes nothing else. *)
LEMMA OtherOutput ==
    ASSUME NEW a, NEW i, NEW o, NEW p, NEW w, NEW q, NEW c, Made(c, a, i, o, p)
    PROVE  Made(WithOutput(c, w, q), a, i, w, q)
<1> DEFINE e == [c EXCEPT !.output = w]
<1>1. c = [argv |-> a, input |-> i, output |-> o, append |-> p]
  BY DEF Made
<1>2. [argv |-> a, input |-> i, output |-> w, append |-> p] = e
  BY <1>1
<1>3. [c EXCEPT !.output = w, !.append = q] = [e EXCEPT !.append = q]
  OBVIOUS
<1>4. e = [argv |-> a, input |-> i, output |-> w, append |-> p]
  BY <1>2, Zenon
<1> HIDE DEF e
<1>5. [argv |-> a, input |-> i, output |-> w, append |-> q] = [e EXCEPT !.append = q]
  BY <1>4
<1> QED
  BY <1>3, <1>5, Zenon DEF Made, WithOutput

\* A word that is no operator and follows none is an argument.
LEMMA ArgumentGoes ==
    ASSUME NEW ws \in Seq(Word), NEW k \in Nat, k < Len(ws), ~IsOperator(ws, k),
           ~IsOperator(ws, k + 1)
    PROVE  /\ CommandTo(ws, k + 1) = WithArgument(CommandTo(ws, k), ws[k + 1])
           /\ Cardinality(UpTo(ArgumentsAt(ws), k + 1)) = Cardinality(UpTo(ArgumentsAt(ws), k)) + 1
<1> DEFINE x == k + 1
           A == UpTo(ArgumentsAt(ws), k)
<1>1. /\ Len(ws) \in Nat /\ DOMAIN ws = 1..Len(ws)
      /\ ArgumentsAt(ws) \in SUBSET (0..Len(ws)) /\ Inputs(ws) \in SUBSET (0..Len(ws))
      /\ Outputs(ws) \in SUBSET (0..Len(ws))
  BY PlacesFacts
<1>2. x \in ArgumentsAt(ws) /\ x \notin Inputs(ws) /\ x \notin Outputs(ws)
  BY PlaceFacts
<1>3. /\ UpTo(Inputs(ws), x) = UpTo(Inputs(ws), k)
      /\ UpTo(Outputs(ws), x) = UpTo(Outputs(ws), k)
      /\ UpTo(ArgumentsAt(ws), x) = A \cup {x}
      /\ Cardinality(UpTo(ArgumentsAt(ws), x)) = Cardinality(A) + 1
  BY <1>1, <1>2, UpToNext
<1>4. Picked(ws, A \cup {x}) = Append(Picked(ws, A), ws[x])
  <2>1. A \in SUBSET (0..Len(ws)) /\ \A y \in A : y < x /\ y \in ArgumentsAt(ws)
    BY <1>1 DEF UpTo
  <2>2. ArgumentsAt(ws) \in SUBSET (1..Len(ws)) /\ \A y \in 1..Len(ws) : ws[y] \in Word
    BY PlacesFacts, ElementOfSeq
  <2>3. \A y \in A : y < x /\ ws[y] \in Word
    BY <2>1, <2>2
  <2>4. ws[x] \in Word /\ x \in 0..Len(ws)
    BY <1>1, <1>2, <2>2
  <2> HIDE DEF A, x
  <2> QED
    BY <1>1, <2>1, <2>3, <2>4, PickedAppend
<1> HIDE DEF x, A
<1>5. CommandTo(ws, x) = WithArgument(CommandTo(ws, k), ws[x])
  <2> DEFINE c == CommandTo(ws, k)
             a == Picked(ws, A)
             f == FileAfter(ws, UpTo(Inputs(ws), k))
             g == FileAfter(ws, UpTo(Outputs(ws), k))
             h == Appends(ws, UpTo(Outputs(ws), k))
  <2>1. Made(c, a, f, g, h)
    BY DEF CommandTo, A, Made
  <2>2. CommandTo(ws, x) = [argv |-> Append(a, ws[x]), input |-> f, output |-> g, append |-> h]
    BY <1>3, <1>4, Zenon DEF CommandTo
  <2> HIDE DEF c, a, f, g, h
  <2>3. Made(WithArgument(c, ws[x]), Append(a, ws[x]), f, g, h)
    BY <2>1, MoreArguments
  <2> QED
    BY <2>2, <2>3, Zenon DEF c, Made
<1> QED
  BY <1>3, <1>5 DEF x, A

\* A redirection and its file.
LEMMA RedirectGoes ==
    ASSUME NEW ws \in Seq(Word), NEW k \in Nat, k + 1 < Len(ws), IsOperator(ws, k + 1),
           ~IsOperator(ws, k + 2)
    PROVE  CommandTo(ws, k + 2) =
               IF ws[k + 1] = <<"<">> THEN [CommandTo(ws, k) EXCEPT !.input = ws[k + 2]]
               ELSE WithOutput(CommandTo(ws, k), ws[k + 2], ws[k + 1] = <<">", ">">>)
<1> DEFINE x == k + 1
           y == k + 2
           in == ws[x] = <<"<">>
           both == ws[x] = <<">", ">">>
           c == CommandTo(ws, k)
<1>1. /\ Len(ws) \in Nat /\ k < Len(ws) /\ x < Len(ws) /\ x \in Nat /\ x + 1 = y
      /\ ArgumentsAt(ws) \in SUBSET (0..Len(ws)) /\ Inputs(ws) \in SUBSET (0..Len(ws))
      /\ Outputs(ws) \in SUBSET (0..Len(ws))
  BY PlacesFacts
<1>2. x \notin ArgumentsAt(ws) /\ (x \in Inputs(ws) <=> in) /\ (x \in Outputs(ws) <=> ~in)
  BY <1>1, PlaceFacts, Zenon
<1>3. y \notin ArgumentsAt(ws) /\ y \notin Inputs(ws) /\ y \notin Outputs(ws)
  <2> HIDE DEF x, y
  <2>1. IsOperator(ws, x) /\ ~IsOperator(ws, x + 1)
    BY <1>1 DEF x, y
  <2>2. x + 1 \notin ArgumentsAt(ws) /\ x + 1 \notin Inputs(ws) /\ x + 1 \notin Outputs(ws)
    BY <1>1, <2>1, PlaceFacts, Zenon
  <2> QED
    BY <1>1, <2>2
<1> HIDE DEF in, both
<1>4. \A S \in SUBSET (0..Len(ws)) :
        /\ y \notin S => UpTo(S, y) = UpTo(S, x)
        /\ x \notin S => UpTo(S, x) = UpTo(S, k)
        /\ x \in S => UpTo(S, x) = UpTo(S, k) \cup {x}
  <2> TAKE S \in SUBSET (0..Len(ws))
  <2>1. x \notin S => UpTo(S, x) = UpTo(S, k)
    BY <1>1, UpToNext
  <2>2. x \in S => UpTo(S, x) = UpTo(S, k) \cup {x}
    BY <1>1, UpToNext
  <2> HIDE DEF x, y
  <2>3. x + 1 \notin S => UpTo(S, x + 1) = UpTo(S, x)
    BY <1>1, UpToNext
  <2> QED
    BY <1>1, <2>1, <2>2, <2>3
<1>5. \A S \in SUBSET (0..Len(ws)) :
        /\ UpTo(S, k) \in SUBSET (0..Len(ws)) /\ \A z \in UpTo(S, k) : z < k + 1
        /\ FileAfter(ws, UpTo(S, k) \cup {x}) = ws[y]
        /\ Appends(ws, UpTo(S, k) \cup {x}) = both
  <2> TAKE S \in SUBSET (0..Len(ws))
  <2>1. UpTo(S, k) \in SUBSET (0..Len(ws)) /\ \A z \in UpTo(S, k) : z < k + 1
    <3>1. UpTo(S, k) \in SUBSET (0..Len(ws)) /\ \A z \in UpTo(S, k) : z \in 0..Len(ws) /\ z <= k
      BY DEF UpTo
    <3> QED
      BY <1>1, <3>1
  <2>2. /\ FileAfter(ws, UpTo(S, k) \cup {x}) = ws[y]
        /\ Appends(ws, UpTo(S, k) \cup {x}) = both
    BY <1>1, <2>1, FileNext, Zenon DEF both
  <2> QED
    BY <2>1, <2>2
<1>6. CommandTo(ws, y) =
        [argv |-> Picked(ws, UpTo(ArgumentsAt(ws), y)), input |-> FileAfter(ws, UpTo(Inputs(ws), y)),
         output |-> FileAfter(ws, UpTo(Outputs(ws), y)), append |-> Appends(ws, UpTo(Outputs(ws), y))]
  BY DEF CommandTo
<1>7. /\ c.argv = Picked(ws, UpTo(ArgumentsAt(ws), k)) /\ c.input = FileAfter(ws, UpTo(Inputs(ws), k))
      /\ c.output = FileAfter(ws, UpTo(Outputs(ws), k))
      /\ c.append = Appends(ws, UpTo(Outputs(ws), k))
      /\ c = [argv |-> c.argv, input |-> c.input, output |-> c.output, append |-> c.append]
  BY DEF CommandTo
<1>8. UpTo(ArgumentsAt(ws), y) = UpTo(ArgumentsAt(ws), k)
  BY <1>1, <1>2, <1>3, <1>4
<1>9. CASE in
  <2>1. UpTo(Outputs(ws), y) = UpTo(Outputs(ws), k) /\ UpTo(Inputs(ws), y) = UpTo(Inputs(ws), k) \cup {x}
    BY <1>1, <1>2, <1>3, <1>4, <1>9
  <2>2. FileAfter(ws, UpTo(Inputs(ws), y)) = ws[y]
    BY <1>1, <1>5, <2>1
  <2> HIDE DEF x, y, c
  <2>3. CommandTo(ws, y) = [c EXCEPT !.input = ws[y]]
    BY <1>6, <1>7, <1>8, <2>1, <2>2
  <2> QED
    BY <1>9, <2>3, Zenon DEF x, y, c, in
<1>10. CASE ~in
  <2>1. UpTo(Inputs(ws), y) = UpTo(Inputs(ws), k) /\ UpTo(Outputs(ws), y) = UpTo(Outputs(ws), k) \cup {x}
    BY <1>1, <1>2, <1>3, <1>4, <1>10
  <2>2. FileAfter(ws, UpTo(Outputs(ws), y)) = ws[y] /\ Appends(ws, UpTo(Outputs(ws), y)) = both
    BY <1>1, <1>5, <2>1
  <2> HIDE DEF x, y, c
  <2>3. CommandTo(ws, y) = [argv |-> c.argv, input |-> c.input, output |-> ws[y], append |-> both]
    BY <1>6, <1>7, <1>8, <2>1, <2>2, Zenon
  <2> DEFINE a == c.argv
             i == c.input
             o == c.output
             p == c.append
             w == ws[y]
  <2>4. Made(c, a, i, o, p)
    BY <1>7, Zenon DEF Made
  <2>5. CommandTo(ws, y) = [argv |-> a, input |-> i, output |-> w, append |-> both]
    BY <2>3
  <2> HIDE DEF a, i, o, p, w
  <2>6. Made(WithOutput(c, w, both), a, i, w, both)
    BY <2>4, OtherOutput
  <2> QED
    BY <1>10, <2>5, <2>6, Zenon DEF x, y, c, in, both, w, Made
<1> QED
  BY <1>9, <1>10

----------------------------------------------------------------------------
(* The loops of build_cmd_buff. *)
SortedTo(k) ==
    /\ k <= Len(tokens) /\ ~IsOperator(tokens, k)
    /\ \A j \in 1..k : IsOperator(tokens, j) => ~IsOperator(tokens, j + 1)
    /\ cmd = CommandTo(tokens, k)
Arguing == pc = "args" => tokens = Words(seg) /\ SortedTo(src - 1)

Phases == Expanding /\ Tokenizing /\ Arguing

\* Why a segment is refused.
TooBig(s) ==
    \/ Cardinality(ArgumentsAt(Words(s))) >= CMD_ARGV_MAX
    \/ Len(Words(s)) > 2 * CMD_ARGV_MAX
    \/ TooLong(s)
Reason(r, s) ==
    \/ r = ERR_CMD_OR_ARGS_TOO_BIG /\ TooBig(s)
    \/ r = ERR_CMD_ARGS_BAD /\ Misplaced(Words(s))
    \/ r = WARN_NO_CMDS /\ ArgumentsAt(Words(s)) = {}

\* A turn of a loop goes on with the segment, or refuses it.
GoesOn ==
    /\ pc' \in {"expand", "tokens", "args"} /\ UNCHANGED <<line, rest, clist, rc, seg>>
    /\ Phases'
Refuses == \E r : Refuse(r) /\ Reason(r, seg)

(* A turn of the expansion. *)
LEMMA ExpandMeant ==
    ASSUME IInv, Phases, Expand
    PROVE  GoesOn \/ Refuses
<1> DEFINE c == CharAt(seg, src)
           d == CharAt(seg, src + 1)
<1>1. TypeOK /\ pc = "expand" /\ ExpandedTo /\ Fresh /\ cmd = NoCommand
  BY DEF IInv, Expand, Phases, Expanding
<1>2. CASE Len(expanded) >= EXPANDED_MAX - Margin(c)
  <2>1. Refuse(ERR_CMD_OR_ARGS_TOO_BIG)
    BY <1>2, Zenon DEF Expand
  <2>2. TooLong(seg)
    BY <1>1, <1>2, ExpandRefused
  <2> QED
    BY <2>1, <2>2, Zenon DEF Refuses, Reason, TooBig
<1>3. CASE ~(Len(expanded) >= EXPANDED_MAX - Margin(c))
  <2>1. /\ expanded' = expanded \o Piece(c, d)
        /\ UNCHANGED <<line, rest, clist, rc, seg, tokens, tok, open, dst, cmd>>
    BY <1>3, Zenon DEF Expand, listVars
  <2>2. c \in Cell /\ d \in Cell
    <3>1. seg \in Word /\ src \in Nat \ {0} /\ src + 1 \in Nat \ {0}
      BY <1>1 DEF TypeOK
    <3> QED
      BY <3>1, CharAtType DEF Cell
  <2>3. Fresh' /\ cmd' = NoCommand
    BY <1>1, <2>1, Zenon DEF Fresh
  <2>4. CASE c = NUL
    <3>1. pc' = "tokens" /\ src' = 1 /\ quote' = Unquoted
      BY <1>3, <2>4, Zenon DEF Expand
    <3> HIDE DEF d
    <3>2. /\ Len(expanded') - 1 = Padded(seg)
          /\ \E P : Expands(P, seg, expanded', Len(expanded') - 1, Len(seg))
      BY <1>1, <2>1, <2>2, <2>4, ExpandEnds
    <3>3. PICK P : Expands(P, seg, expanded', Len(expanded') - 1, Len(seg))
      BY <3>2
    <3>4. expanded' \in Seq(Cell) /\ seg \in Word /\ seg' = seg /\ Len(expanded') - 1 \in Nat
      <4>1. /\ expanded \in Seq(Cell) /\ seg \in Word
        BY <1>1 DEF TypeOK, Cell
      <4>2. Piece(c, d) \in Seq(Cell)
        BY <2>2, PieceType DEF Cell
      <4>3. expanded' \in Seq(Cell)
        BY <2>1, <4>1, <4>2, ConcatProperties
      <4>4. Padded(seg) \in Nat
        BY <1>1, PaddedFacts
      <4> QED
        BY <2>1, <3>2, <4>1, <4>3, <4>4
    <3>5. CutTo(P, 0, 0)'
      <4> DEFINE m == seg
      <4>1. m \in Word /\ seg' = m /\ Expands(P, m, expanded', Len(expanded') - 1, Len(m))
        BY <3>3, <3>4
      <4> HIDE DEF m
      <4> QED
        BY <2>3, <3>1, <3>4, <4>1, CutNothing
    <3>6. dst' < src'
      BY <2>3, <3>1 DEF Fresh
    <3>7. Tokenizing'
      BY <2>1, <2>3, <3>2, <3>5, <3>6 DEF Tokenizing
    <3> QED
      BY <2>1, <3>1, <3>7 DEF GoesOn, Phases, Expanding, Arguing
  <2>5. CASE c # NUL
    <3> DEFINE j == src - 1 + Len(Taken(c, d))
    <3>1. pc' = pc /\ src' = src + Len(Taken(c, d)) /\ quote' = NextQuote(quote, c)
      BY <1>3, <2>5, Zenon DEF Expand
    <3>2. /\ j \in Nat /\ j <= Len(seg) /\ NextQuote(quote, c) = QuoteAfter(seg)[j]
          /\ Turned(seg, expanded \o Piece(c, d), j)
      BY <1>1, <2>5, ExpandTurn
    <3>3. src' - 1 = j
      <4>1. Len(Taken(c, d)) \in 1..2 /\ src \in Nat
        BY <1>1, <2>2, PieceType DEF TypeOK, Cell
      <4> QED
        BY <3>1, <4>1
    <3> HIDE DEF j, c, d
    <3>4. ExpandedTo'
      BY <2>1, <3>1, <3>2, <3>3 DEF ExpandedTo
    <3> QED
      BY <1>1, <2>1, <2>3, <3>1, <3>4 DEF GoesOn, Phases, Expanding, Tokenizing, Arguing
  <2> QED
    BY <2>4, <2>5
<1> QED
  BY <1>2, <1>3

(* A turn of the cutting into tokens: at its end the tokens are the words. *)
LEMMA TokenizeMeant ==
    ASSUME IInv, Phases, Tokenize
    PROVE  GoesOn \/ Refuses
<1> DEFINE c == expanded[src]
           l == Len(expanded) - 1
<1>1. /\ TypeOK /\ PhaseInv /\ pc = "tokens" /\ l = Padded(seg) /\ dst < src /\ cmd = NoCommand
      /\ \E P, k, j : CutTo(P, k, j)
  BY DEF IInv, Tokenize, Phases, Tokenizing
<1>2. PICK P, k, j : CutTo(P, k, j)
  BY <1>1
<1>3. /\ seg \in Word /\ Len(seg) \in Nat /\ k \in Nat /\ src = k + 1 /\ l \in Nat /\ k <= l
      /\ j \in 0..Len(seg) /\ j \in Nat /\ c \in Cell
      /\ k = l => j = Len(seg) /\ c = NUL
      /\ k # l => k + 1 \in 1..l
                  /\ (Copies(P, seg, expanded, k + 1) \/ Pads(P, seg, expanded, k + 1))
      /\ Expands(P, seg, expanded, l, Len(seg)) /\ j = P[k]
  BY <1>1, <1>2, TokenFacts
<1>4. quote = QuoteAfter(seg)[j] /\ tokens \in Seq(Word) /\ Len(tokens) \in Nat /\ dst \in Nat
  BY <1>1, <1>2, LenProperties DEF CutTo, TypeOK
<1> HIDE DEF c, l
<1>5. c = NUL => k = l
  <2> SUFFICES ASSUME k # l PROVE c # NUL
    OBVIOUS
  <2>1. c = expanded[k + 1]
    BY <1>3 DEF c
  <2>2. CASE Copies(P, seg, expanded, k + 1)
    BY <1>3, <1>4, <2>1, <2>2, CopiedChar
  <2>3. CASE Pads(P, seg, expanded, k + 1)
    BY <1>3, <1>4, <2>1, <2>3, PaddedChar
  <2> QED
    BY <1>3, <2>2, <2>3
<1>6. CASE TokensFull(c) \/ BufferFull(c)
  <2>1. Refuse(ERR_CMD_OR_ARGS_TOO_BIG)
    BY <1>6, Zenon DEF Tokenize, c
  <2>2. CASE TokensFull(c)
    <3>1. open /\ Len(tokens) >= 2 * CMD_ARGV_MAX
      BY <2>2 DEF TokensFull
    <3>2. PICK i : Inside(seg, i, j, tok, Len(tokens) + 1)
      BY <1>2, <3>1, Zenon DEF CutTo
    <3>3. Rank(seg, j) = Len(tokens) + 1
      BY <3>2 DEF Inside
    <3>4. Rank(seg, j) <= Len(Words(seg)) /\ Len(Words(seg)) \in Nat
      BY <1>3, StartsFacts, WordsFacts
    <3>5. Len(Words(seg)) > 2 * CMD_ARGV_MAX
      BY <1>4, <3>1, <3>3, <3>4, SizesAssumption
    <3> QED
      BY <2>1, <3>5, Zenon DEF Refuses, Reason, TooBig
  <2>3. CASE BufferFull(c)
    <3>1. c # NUL /\ Advance(c) >= SH_CMD_MAX - 1
      BY <2>3 DEF BufferFull
    <3>2. Advance(c) = dst \/ Advance(c) = dst + 1
      BY Zenon DEF Advance
    <3>3. k < l
      BY <1>3, <3>1
    <3>4. l >= SH_CMD_MAX - 1
      BY <1>1, <1>3, <1>4, <3>1, <3>2, <3>3, SizesAssumption
    <3>5. TooLong(seg)
      BY <1>1, <1>3, <3>4, TooLongFacts
    <3> QED
      BY <2>1, <3>5, Zenon DEF Refuses, Reason, TooBig
  <2> QED
    BY <1>6, <2>2, <2>3
<1>7. CASE ~(TokensFull(c) \/ BufferFull(c))
  <2>1. /\ tokens' = IF Ends(c) /\ open THEN Append(tokens, tok) ELSE tokens
        /\ tok' = CASE Ends(c) -> <<>> [] Belongs(c) -> Append(tok, c) [] OTHER -> tok
        /\ open' = ~Ends(c) /\ dst' = Advance(c) /\ quote' = NextQuote(quote, c)
        /\ UNCHANGED <<line, rest, clist, rc, seg, expanded, cmd>>
    BY <1>7, Zenon DEF Tokenize, listVars, c
  <2>2. CASE c = NUL
    <3>1. pc' = "args" /\ src' = 1
      BY <1>7, <2>2, Zenon DEF Tokenize, c
    <3>2. Ends(c)
      BY <2>2, Zenon DEF Ends
    <3>3. tokens' = Cutoff
      BY <2>1, <3>2, Zenon DEF Cutoff
    <3>4. j = Len(seg)
      BY <1>3, <1>5, <2>2
    <3>5. Len(Cutoff) = Rank(seg, j) /\ \A i \in 1..Len(Cutoff) : Cutoff[i] = WordOf(seg, i)
      BY <1>1, <1>2, <1>3, <3>4, CutoffFacts
    <3>6. /\ Words(seg) \in Seq(Word) /\ Len(Words(seg)) = Rank(seg, Len(seg))
          /\ \A i \in 1..Rank(seg, Len(seg)) : Words(seg)[i] = WordOf(seg, i)
      BY <1>3, WordsFacts, StartsFacts
    <3>7. Cutoff \in Seq(Word)
      <4>1. tok \in Word
        BY <1>1 DEF TypeOK
      <4>2. Append(tokens, tok) \in Seq(Word)
        BY <1>4, <4>1, AppendProperties
      <4> QED
        BY <1>4, <4>2, Zenon DEF Cutoff
    <3>8. Cutoff = Words(seg)
      <4>1. Len(Cutoff) = Len(Words(seg)) /\ \A i \in 1..Len(Cutoff) : Cutoff[i] = Words(seg)[i]
        BY <3>4, <3>5, <3>6
      <4> DEFINE a == Cutoff
                 b == Words(seg)
      <4>2. a \in Seq(Word) /\ b \in Seq(Word) /\ Len(a) = Len(b) /\ \A i \in 1..Len(a) : a[i] = b[i]
        BY <3>6, <3>7, <4>1
      <4> HIDE DEF a, b
      <4>3. a = b
        BY <4>2, SeqEqual
      <4> QED
        BY <4>3 DEF a, b
    <3>9. SortedTo(src - 1)'
      <4>1. src' - 1 = 0 /\ \A i \in 1..0 : FALSE
        BY <3>1
      <4>2. tokens' = Words(seg) /\ cmd' = NoCommand
        BY <1>1, <2>1, <3>3, <3>8
      <4>3. CommandTo(Words(seg), 0) = NoCommand /\ ~IsOperator(Words(seg), 0)
        BY <3>6, CommandStart
      <4>4. 0 <= Len(Words(seg))
        BY <3>6, LenProperties
      <4>5. /\ src' - 1 <= Len(tokens') /\ ~IsOperator(tokens', src' - 1)
            /\ \A i \in 1..(src' - 1) : FALSE
            /\ cmd' = CommandTo(tokens', src' - 1)
        BY <4>1, <4>2, <4>3, <4>4
      <4> QED
        BY <4>5 DEF SortedTo
    <3>10. Arguing'
      BY <2>1, <3>3, <3>8, <3>9 DEF Arguing
    <3> QED
      BY <2>1, <3>1, <3>10 DEF GoesOn, Phases, Expanding, Tokenizing
  <2>3. CASE c # NUL
    <3>1. pc' = pc /\ src' = src + 1
      BY <1>7, <2>3, Zenon DEF Tokenize, c
    <3>2. TokenStep(c)
      BY <2>1, <3>1, Zenon DEF TokenStep
    <3>3. CutTo(P, k + 1, P[k + 1])'
      <4>1. CASE Ends(c)
        BY <1>1, <1>2, <2>3, <3>2, <4>1, CutEnd DEF c
      <4>2. CASE ~Ends(c)
        BY <1>1, <1>2, <2>3, <3>2, <4>2, CutLetter DEF c
      <4> QED
        BY <4>1, <4>2
    <3>4. dst' < src'
      <4>1. Advance(c) = dst \/ Advance(c) = dst + 1
        BY Zenon DEF Advance
      <4> QED
        BY <1>1, <1>3, <1>4, <2>1, <3>1, <4>1
    <3>5. Len(expanded') - 1 = Padded(seg') /\ cmd' = NoCommand
      BY <1>1, <2>1 DEF l
    <3>6. Tokenizing'
      BY <3>3, <3>4, <3>5, Zenon DEF Tokenizing
    <3> QED
      BY <1>1, <2>1, <3>1, <3>6 DEF GoesOn, Phases, Expanding, Arguing
  <2> QED
    BY <2>2, <2>3
<1> QED
  BY <1>6, <1>7

(* A redirection takes the word after it, or is misplaced. *)
LEMMA RedirectMeant ==
    ASSUME IInv, Phases, Redirect
    PROVE  GoesOn \/ Refuses
<1> DEFINE k == src - 1
           in == tokens[src] = <<"<">>
           both == tokens[src] = <<">", ">">>
<1>1. /\ pc = "args" /\ tokens \in Seq(Word) /\ Len(tokens) \in Nat /\ src \in Nat \ {0}
      /\ src <= Len(tokens) /\ tokens[src] \in Redirections /\ DOMAIN tokens = 1..Len(tokens)
      /\ tokens = Words(seg) /\ SortedTo(k)
  BY LenProperties DEF Redirect, IInv, TypeOK, Phases, Arguing
<1>b. src \in Nat /\ Len(tokens) \in Nat /\ src <= Len(tokens)
  BY <1>1
<1>2. k \in Nat /\ k + 1 = src /\ k + 2 = src + 1 /\ src \in DOMAIN tokens
  BY <1>1
<1>3. IsOperator(tokens, src)
  BY <1>1, <1>2 DEF IsOperator
<1> HIDE DEF k
<1>4. CASE src = Len(tokens) \/ tokens[src + 1] \in Redirections
  <2>1. Refuse(ERR_CMD_ARGS_BAD)
    BY <1>4, Zenon DEF Redirect
  <2>2. Misplaced(tokens)
    <3>1. src # Len(tokens) => src + 1 \in DOMAIN tokens
      <4>1. src # Len(tokens) => src + 1 \in 1..Len(tokens)
        BY <1>b
      <4> QED
        BY <1>1, <4>1
    <3>2. src = Len(tokens) \/ IsOperator(tokens, src + 1)
      BY <1>4, <3>1 DEF IsOperator
    <3> QED
      BY <1>2, <1>3, <3>2, Zenon DEF Misplaced
  <2> QED
    BY <1>1, <2>1, <2>2, Zenon DEF Refuses, Reason
<1>5. CASE ~(src = Len(tokens) \/ tokens[src + 1] \in Redirections)
  <2>1. /\ src' = src + 2 /\ UNCHANGED <<pc, line, rest, clist, rc, seg, tokens>>
    BY <1>5, Zenon DEF Redirect, listVars
  <2>2. /\ in => cmd' = [cmd EXCEPT !.input = tokens[src + 1]]
        /\ ~in => cmd' = WithOutput(cmd, tokens[src + 1], both)
    BY <1>5, Zenon DEF Redirect, WithOutput
  <2>3. ~IsOperator(tokens, src + 1) /\ src < Len(tokens)
    <3>1. src < Len(tokens)
      BY <1>b, <1>5
    <3>2. ~IsOperator(tokens, src + 1)
      BY <1>5, Zenon DEF IsOperator
    <3> QED
      BY <3>1, <3>2
  <2>4. cmd = CommandTo(tokens, k)
    BY <1>1 DEF SortedTo
  <2>5. cmd' = CommandTo(tokens, k + 2)
    <3>1. k + 1 < Len(tokens) /\ IsOperator(tokens, k + 1) /\ ~IsOperator(tokens, k + 2)
      BY <1>2, <1>3, <2>3
    <3>2. CommandTo(tokens, k + 2) =
            IF tokens[k + 1] = <<"<">> THEN [CommandTo(tokens, k) EXCEPT !.input = tokens[k + 2]]
            ELSE WithOutput(CommandTo(tokens, k), tokens[k + 2], tokens[k + 1] = <<">", ">">>)
      BY <1>1, <1>2, <3>1, RedirectGoes
    <3>3. CASE in
      BY <1>2, <2>2, <2>4, <3>2, <3>3, Zenon
    <3>4. CASE ~in
      BY <1>2, <2>2, <2>4, <3>2, <3>4, Zenon
    <3> QED
      BY <3>3, <3>4
  <2> HIDE DEF in, both
  <2>6. src' - 1 = k + 2 /\ k + 2 <= Len(tokens)
    BY <1>1, <1>2, <2>1, <2>3
  <2>7. \A j \in 1..(k + 2) : IsOperator(tokens, j) => ~IsOperator(tokens, j + 1)
    <3>1. \A j \in 1..k : IsOperator(tokens, j) => ~IsOperator(tokens, j + 1)
      BY <1>1 DEF SortedTo
    <3>2. \A j \in 1..(k + 2) : j \in 1..k \/ j = src \/ j = src + 1
      BY <1>2
    <3> QED
      BY <2>3, <3>1, <3>2
  <2>8. SortedTo(src - 1)'
    BY <1>2, <2>1, <2>3, <2>5, <2>6, <2>7 DEF SortedTo
  <2>9. Arguing'
    BY <1>1, <2>1, <2>8 DEF Arguing
  <2> QED
    BY <1>1, <2>1, <2>9 DEF GoesOn, Phases, Expanding, Tokenizing
<1> QED
  BY <1>4, <1>5

(* A word that is no operator is an argument, unless there are too many. *)
LEMMA ArgumentMeant ==
    ASSUME IInv, Phases, Argument
    PROVE  GoesOn \/ Refuses
<1> DEFINE k == src - 1
           A == ArgumentsAt(tokens)
<1>1. /\ pc = "args" /\ tokens \in Seq(Word) /\ Len(tokens) \in Nat /\ src \in Nat \ {0}
      /\ src <= Len(tokens) /\ tokens[src] \notin Redirections /\ DOMAIN tokens = 1..Len(tokens)
      /\ tokens = Words(seg) /\ SortedTo(k)
  BY LenProperties DEF Argument, IInv, TypeOK, Phases, Arguing
<1>2. k \in Nat /\ k + 1 = src /\ k < Len(tokens)
  BY <1>1
<1>3. ~IsOperator(tokens, src) /\ ~IsOperator(tokens, k) /\ cmd = CommandTo(tokens, k)
  BY <1>1 DEF IsOperator, SortedTo
<1> HIDE DEF k
<1>4. /\ CommandTo(tokens, src) = WithArgument(CommandTo(tokens, k), tokens[src])
      /\ Cardinality(UpTo(A, src)) = Cardinality(UpTo(A, k)) + 1
  <2>1. ~IsOperator(tokens, k + 1)
    BY <1>2, <1>3
  <2>2. /\ CommandTo(tokens, k + 1) = WithArgument(CommandTo(tokens, k), tokens[k + 1])
        /\ Cardinality(UpTo(A, k + 1)) = Cardinality(UpTo(A, k)) + 1
    BY <1>1, <1>2, <1>3, <2>1, ArgumentGoes
  <2> QED
    BY <1>2, <2>2
<1>5. CASE ArgvFull
  <2>1. Refuse(ERR_CMD_OR_ARGS_TOO_BIG)
    BY <1>5, Zenon DEF Argument
  <2>2. cmd.argv = Picked(tokens, UpTo(A, k))
    BY <1>3 DEF CommandTo
  <2>3. A \in SUBSET (0..Len(tokens))
    BY <1>1, PlacesFacts
  <2>4. /\ \A i : /\ UpTo(A, i) \in SUBSET A /\ Cardinality(UpTo(A, i)) \in Nat
                  /\ Cardinality(UpTo(A, i)) <= Cardinality(A)
        /\ Cardinality(A) \in Nat
    BY <1>1, <2>3, UpToFinite
  <2>5. Len(Picked(tokens, UpTo(A, k))) = Cardinality(UpTo(A, k))
    <3> DEFINE S == UpTo(A, k)
    <3>1. S \in SUBSET (0..Len(tokens)) /\ S \in SUBSET A
      BY <2>3, <2>4
    <3>2. \A x \in S : tokens[x] \in Word
      <4>1. A \in SUBSET (1..Len(tokens))
        BY <1>1, PlacesFacts
      <4>2. \A x \in 1..Len(tokens) : tokens[x] \in Word
        BY <1>1, ElementOfSeq
      <4> QED
        BY <3>1, <4>1, <4>2
    <3> HIDE DEF S
    <3>3. Len(Picked(tokens, S)) = Cardinality(S)
      BY <1>1, <3>1, <3>2, PickedType
    <3> QED
      BY <3>3 DEF S
  <2>6. Cardinality(UpTo(A, k)) >= CMD_ARGV_MAX - 1
    BY <1>5, <2>2, <2>5 DEF ArgvFull
  <2>7. Cardinality(A) >= CMD_ARGV_MAX
    BY <1>4, <2>4, <2>6, SizesAssumption
  <2>8. Cardinality(ArgumentsAt(Words(seg))) >= CMD_ARGV_MAX
    BY <1>1, <2>7
  <2> QED
    BY <2>1, <2>8, Zenon DEF Refuses, Reason, TooBig
<1>6. CASE ~ArgvFull
  <2>1. /\ src' = src + 1 /\ UNCHANGED <<pc, line, rest, clist, rc, seg, tokens>>
        /\ cmd' = WithArgument(cmd, tokens[src])
    BY <1>6, Zenon DEF Argument, listVars, WithArgument
  <2>2. cmd' = CommandTo(tokens, src)
    BY <1>3, <1>4, <2>1
  <2>3. src' - 1 = src
    BY <1>1, <2>1
  <2>4. \A j \in 1..src : IsOperator(tokens, j) => ~IsOperator(tokens, j + 1)
    <3>1. \A j \in 1..k : IsOperator(tokens, j) => ~IsOperator(tokens, j + 1)
      BY <1>1 DEF SortedTo
    <3>2. \A j \in 1..src : j \in 1..k \/ j = src
      BY <1>2
    <3> QED
      BY <1>3, <3>1, <3>2
  <2>5. SortedTo(src - 1)'
    BY <1>1, <1>3, <2>1, <2>2, <2>3, <2>4 DEF SortedTo
  <2>6. Arguing'
    BY <1>1, <2>1, <2>5 DEF Arguing
  <2> QED
    BY <1>1, <2>1, <2>6 DEF GoesOn, Phases, Expanding, Tokenizing
<1> QED
  BY <1>5, <1>6

\* A command is finished, and added to the list.
Finishes ==
    /\ clist' = Append(clist, Command(Words(seg))) /\ pc' = "list"
    /\ ~Misplaced(Words(seg)) /\ UNCHANGED <<line, rest, rc, seg>>

(* After the last token the command is the one the words stand for. *)
LEMMA CommandBuiltMeant ==
    ASSUME IInv, Phases, CommandBuilt
    PROVE  Finishes \/ Refuses
<1> DEFINE k == src - 1
           A == ArgumentsAt(tokens)
<1>1. /\ pc = "args" /\ tokens \in Seq(Word) /\ Len(tokens) \in Nat /\ src \in Nat \ {0}
      /\ src > Len(tokens) /\ DOMAIN tokens = 1..Len(tokens)
      /\ tokens = Words(seg) /\ SortedTo(k)
  BY LenProperties DEF CommandBuilt, IInv, TypeOK, Phases, Arguing
<1>2. /\ k <= Len(tokens) /\ ~IsOperator(tokens, k) /\ cmd = CommandTo(tokens, k)
      /\ \A j \in 1..k : IsOperator(tokens, j) => ~IsOperator(tokens, j + 1)
  BY <1>1 DEF SortedTo
<1>3. k = Len(tokens)
  BY <1>1, <1>2
<1>4. cmd = Command(tokens)
  BY <1>1, <1>2, <1>3, CommandEnd
<1>5. CASE cmd.argv = <<>>
  <2>1. Refuse(WARN_NO_CMDS)
    BY <1>5, Zenon DEF CommandBuilt
  <2>2. Picked(tokens, A) = <<>>
    BY <1>4, <1>5 DEF Command
  <2>3. A \in SUBSET (0..Len(tokens))
    BY <1>1, PlacesFacts
  <2>4. Cardinality(A) \in Nat /\ DOMAIN Picked(tokens, A) = 1..Cardinality(A)
    BY <1>1, <2>3, PickedFacts
  <2>5. Cardinality(A) = 0
    <3>1. DOMAIN <<>> = {}
      OBVIOUS
    <3>2. Cardinality(A) # 0 => 1 \in 1..Cardinality(A)
      BY <2>4
    <3> QED
      BY <2>2, <2>4, <3>1, <3>2
  <2>6. A = {}
    BY <1>1, <2>3, <2>5, UpToFinite, FS_EmptySet
  <2> QED
    BY <1>1, <2>1, <2>6, Zenon DEF Refuses, Reason
<1>6. CASE cmd.argv # <<>>
  <2>1. /\ clist' = Append(clist, cmd) /\ pc' = "list" /\ UNCHANGED <<line, rest, rc, seg>>
    BY <1>6, Zenon DEF CommandBuilt, scanVars
  <2>2. ~Misplaced(tokens)
    <3> SUFFICES ASSUME NEW i \in 1..Len(tokens), IsOperator(tokens, i),
                        i = Len(tokens) \/ IsOperator(tokens, i + 1)
                 PROVE  FALSE
      BY <1>1 DEF Misplaced
    <3> QED
      BY <1>2, <1>3
  <2> QED
    BY <1>1, <1>4, <2>1, <2>2, Zenon DEF Finishes
<1> QED
  BY <1>5, <1>6

----------------------------------------------------------------------------
(* The segments of a line, one after the other. *)

\* r is what follows place p of s, which is in no segment.
Left(s, r, p) ==
    /\ p \in 0..Len(s) /\ r = SubSeq(s, p + 1, Len(s))
    /\ p = Len(s) \/ ~Within(s, p)

\* How many segments begin up to place p.
Begun(s, p) == Cardinality(UpTo(SegmentStarts(s), p))

(* A part of a line is a line. *)
LEMMA SliceFacts ==
    ASSUME NEW s \in Word, NEW i \in Nat \ {0}, NEW j \in 0..Len(s)
    PROVE  /\ SubSeq(s, i, j) \in Seq(Char)
           /\ Len(SubSeq(s, i, j)) = (IF i <= j THEN j - i + 1 ELSE 0)
           /\ \A k \in 1..(j - i + 1) : SubSeq(s, i, j)[k] = s[i + k - 1]
<1>1. Len(s) \in Nat /\ \A k \in 1..Len(s) : s[k] \in Char
  BY WordFacts
<1>2. i \in Int /\ j \in Int /\ \A k \in i..j : k \in 1..Len(s)
  BY <1>1
<1>3. \A k \in i..j : s[k] \in Char
  BY <1>1, <1>2
<1> QED
  BY <1>2, <1>3, SubSeqProperties

(* The parts of what follows place p are parts of the line. *)
LEMMA RestFacts ==
    ASSUME NEW s \in Word, NEW p \in 0..Len(s), NEW r, r = SubSeq(s, p + 1, Len(s))
    PROVE  /\ r \in Word /\ Len(r) = Len(s) - p /\ Len(r) \in Nat /\ DOMAIN r = 1..Len(r)
           /\ \A i \in 1..Len(r) : r[i] = s[p + i]
           /\ \A i \in Nat \ {0} : \A j \in 0..Len(r) :
                 SubSeq(r, i, j) = SubSeq(s, p + i, p + j)
<1>1. Len(s) \in Nat
  BY WordFacts
<1>2. /\ r \in Seq(Char) /\ Len(r) = Len(s) - p /\ \A i \in 1..Len(r) : r[i] = s[p + i]
  <2> DEFINE f == p + 1
             l == Len(s)
  <2>2. /\ f \in Nat \ {0} /\ l \in 0..Len(s)
        /\ (IF f <= l THEN l - f + 1 ELSE 0) = l - p /\ l - f + 1 = l - p
        /\ \A k \in 1..(l - p) : f + k - 1 = p + k
    BY <1>1
  <2>3. r = SubSeq(s, f, l)
    OBVIOUS
  <2> HIDE DEF f, l
  <2>4. /\ SubSeq(s, f, l) \in Seq(Char)
        /\ Len(SubSeq(s, f, l)) = (IF f <= l THEN l - f + 1 ELSE 0)
        /\ \A k \in 1..(l - f + 1) : SubSeq(s, f, l)[k] = s[f + k - 1]
    BY <2>2, SliceFacts
  <2>5. r \in Seq(Char) /\ Len(r) = l - p /\ \A k \in 1..(l - p) : r[k] = s[p + k]
    BY <2>2, <2>3, <2>4
  <2> QED
    BY <2>5 DEF l
<1>3. r \in Word /\ Len(r) \in Nat /\ DOMAIN r = 1..Len(r)
  BY <1>1, <1>2, WordFacts DEF Word
<1>4. ASSUME NEW i \in Nat \ {0}, NEW j \in 0..Len(r)
      PROVE  SubSeq(r, i, j) = SubSeq(s, p + i, p + j)
  <2> DEFINE f == p + i
             t == p + j
             x == SubSeq(r, i, j)
             y == SubSeq(s, f, t)
             l == j - i + 1
  <2>1. /\ f \in Nat \ {0} /\ t \in 0..Len(s) /\ (f <= t <=> i <= j) /\ t - f + 1 = l
        /\ \A k \in 1..l : f + k - 1 = p + (i + k - 1) /\ i + k - 1 \in 1..Len(r)
    BY <1>1, <1>2
  <2>2. /\ x \in Seq(Char) /\ Len(x) = (IF i <= j THEN j - i + 1 ELSE 0)
        /\ \A k \in 1..(j - i + 1) : x[k] = r[i + k - 1]
    BY <1>3, SliceFacts
  <2>3. /\ x \in Seq(Char) /\ Len(x) = (IF i <= j THEN l ELSE 0)
        /\ \A k \in 1..l : x[k] = r[i + k - 1]
    BY <2>2
  <2> HIDE DEF f, t
  <2>4. /\ y \in Seq(Char) /\ Len(y) = (IF f <= t THEN t - f + 1 ELSE 0)
        /\ \A k \in 1..(t - f + 1) : y[k] = s[f + k - 1]
    BY <2>1, SliceFacts
  <2> HIDE DEF x, y
  <2>5. Len(x) = Len(y) /\ \A k \in 1..Len(x) : k \in 1..l
    BY <2>1, <2>3, <2>4
  <2>6. \A k \in 1..l : x[k] = y[k]
    <3>1. \A k \in 1..l : x[k] = s[p + (i + k - 1)]
      BY <1>2, <2>1, <2>3
    <3>2. \A k \in 1..l : y[k] = s[f + k - 1]
      BY <2>1, <2>4
    <3> QED
      BY <2>1, <3>1, <3>2
  <2>7. x = y
    BY <2>3, <2>4, <2>5, <2>6, SeqEqual
  <2> QED
    BY <2>7 DEF x, y, f, t
<1> QED
  BY <1>2, <1>3, <1>4

(* Segments begin at places of the line, and there is one for each of them. *)
LEMMA SegmentFacts ==
    ASSUME NEW s \in Word
    PROVE  /\ Len(s) \in Nat /\ DOMAIN s = 1..Len(s)
           /\ SegmentStarts(s) \in SUBSET (1..Len(s)) /\ SegmentStarts(s) \in SUBSET (0..Len(s))
           /\ Cardinality(SegmentStarts(s)) \in Nat
           /\ \A p : Begun(s, p) \in Nat /\ Begun(s, p) <= Cardinality(SegmentStarts(s))
           /\ Begun(s, 0) = 0
           /\ DOMAIN Segments(s) = 1..Cardinality(SegmentStarts(s))
           /\ Segments(s) \in Seq(Word) /\ Len(Segments(s)) = Cardinality(SegmentStarts(s))
<1> DEFINE S == SegmentStarts(s)
           c == Cardinality(S)
           starts == Sorted(S)
           part == [k \in 1..c |-> Trim(SubSeq(s, starts[k], SegmentEnd(s, starts[k])))]
<1>1. Len(s) \in Nat /\ DOMAIN s = 1..Len(s) /\ S \in SUBSET (1..Len(s))
  BY WordFacts DEF SegmentStarts
<1>2. S \in SUBSET (0..Len(s))
  BY <1>1
<1>3. c \in Nat /\ \A p : Begun(s, p) \in Nat /\ Begun(s, p) <= c
  BY <1>1, <1>2, UpToFinite DEF Begun
<1>4. Begun(s, 0) = 0
  <2>1. UpTo(S, 0) = {}
    BY <1>1, UpToEnds
  <2> QED
    BY <2>1, FS_EmptySet DEF Begun
<1>5. DOMAIN starts = 1..c /\ \A k \in 1..c : starts[k] \in S
  BY <1>1, <1>2, SortedIsSeq
<1>6. Segments(s) = part
  BY <1>5 DEF Segments
<1>7. ASSUME NEW i \in 1..Len(s) PROVE Trim(SubSeq(s, i, SegmentEnd(s, i))) \in Word
  <2> DEFINE E == {j \in i..Len(s) : ~Within(s, j + 1)}
             e == SegmentEnd(s, i)
  <2>1. Len(s) + 1 \notin DOMAIN s
    BY <1>1
  <2>2. E \in SUBSET Nat /\ Len(s) \in E
    BY <1>1, <2>1 DEF Within
  <2>3. e \in E
    BY <2>2, MinExists DEF SegmentEnd
  <2>4. e \in 0..Len(s) /\ i \in Nat \ {0}
    BY <1>1, <2>3
  <2> HIDE DEF e
  <2>5. SubSeq(s, i, e) \in Word
    BY <2>4, SliceFacts DEF Word
  <2> QED
    BY <2>5, TrimType DEF e
<1>8. \A k \in 1..c : Trim(SubSeq(s, starts[k], SegmentEnd(s, starts[k]))) \in Word
  BY <1>1, <1>5, <1>7
<1>9. part \in [1..c -> Word] /\ DOMAIN part = 1..c
  <2> HIDE DEF c, starts
  <2> QED
    BY <1>8
<1>10. part \in Seq(Word) /\ Len(part) = c
  <2> HIDE DEF part, c
  <2> QED
    BY <1>3, <1>9
<1> QED
  <2> HIDE DEF part
  <2> QED
    BY <1>1, <1>2, <1>3, <1>4, <1>6, <1>9, <1>10

(* Nothing is left where only delimiters follow. *)
LEMMA NoSegmentLeft ==
    ASSUME NEW s \in Word, NEW r, NEW p, Left(s, r, p), SkipPipes(r) = <<>>
    PROVE  Begun(s, p) = Cardinality(SegmentStarts(s))
<1>1. p \in 0..Len(s) /\ r = SubSeq(s, p + 1, Len(s))
  BY DEF Left
<1>2. r \in Word /\ Len(r) = Len(s) - p /\ Len(r) \in Nat /\ DOMAIN r = 1..Len(r)
  BY <1>1, RestFacts
<1>r. \A i \in 1..Len(r) : r[i] = s[p + i]
  BY <1>1, RestFacts
<1>3. Len(s) \in Nat /\ SegmentStarts(s) \in SUBSET (1..Len(s))
  BY SegmentFacts
<1> DEFINE others == DOMAIN r \ Pipes(r)
<1>4. others = {}
  <2> SUFFICES ASSUME others # {} PROVE FALSE
    OBVIOUS
  <2> DEFINE m == Min(others)
  <2>1. others \in SUBSET Nat
    BY <1>2
  <2>2. m \in others
    BY <2>1, MinExists
  <2>3. m \in 1..Len(r)
    BY <1>2, <2>2
  <2>4. SkipPipes(r) = SubSeq(r, m, Len(r))
    BY DEF SkipPipes
  <2> HIDE DEF m
  <2>5. m \in 1..(Len(r) + 1)
    BY <1>2, <2>3
  <2>6. Len(SubSeq(r, m, Len(r))) = Len(r) + 1 - m
    BY <1>2, <2>5, Suffix
  <2>7. Len(SubSeq(r, m, Len(r))) = 0
    BY <2>4, EmptyTypes
  <2> QED
    BY <1>2, <2>3, <2>6, <2>7
<1>5. ASSUME NEW x \in SegmentStarts(s), p < x PROVE FALSE
  <2>1. x \in 1..Len(s) /\ s[x] # "|"
    BY <1>3 DEF SegmentStarts, Within
  <2>2. x - p \in 1..Len(r) /\ p + (x - p) = x
    BY <1>1, <1>2, <1>3, <1>5, <2>1
  <2>3. r[x - p] # "|"
    BY <1>r, <2>1, <2>2
  <2> QED
    BY <1>2, <1>4, <2>2, <2>3 DEF Pipes
<1>6. UpTo(SegmentStarts(s), p) = SegmentStarts(s)
  BY <1>1, <1>3, <1>5 DEF UpTo
<1> QED
  BY <1>6 DEF Begun

(* The next segment begins at the first place that is not a delimiter. *)
Following(s, p, a) == a \in SegmentStarts(s) /\ p < a /\ \A i \in (p + 1)..(a - 1) : ~Within(s, i)

(* Skipping delimiters finds the place where the next segment begins. *)
LEMMA SegmentFound ==
    ASSUME NEW s \in Word, NEW r, NEW p, Left(s, r, p), SkipPipes(r) # <<>>
    PROVE  \E a : Following(s, p, a) /\ SkipPipes(r) = SubSeq(s, a, Len(s))
<1>1. p \in 0..Len(s) /\ r = SubSeq(s, p + 1, Len(s)) /\ (p = Len(s) \/ ~Within(s, p))
  BY DEF Left
<1>2. r \in Word /\ Len(r) = Len(s) - p /\ Len(r) \in Nat /\ DOMAIN r = 1..Len(r)
  BY <1>1, RestFacts
<1>3. \A i \in 1..Len(r) : r[i] = s[p + i]
  BY <1>1, RestFacts
<1>4. \A i \in Nat \ {0} : \A j \in 0..Len(r) : SubSeq(r, i, j) = SubSeq(s, p + i, p + j)
  BY <1>1, RestFacts
<1>5. Len(s) \in Nat /\ DOMAIN s = 1..Len(s)
  BY WordFacts
<1> DEFINE others == DOMAIN r \ Pipes(r)
           m == Min(others)
           a == p + m
<1>6. others # {} /\ SkipPipes(r) = SubSeq(r, m, Len(r))
  BY DEF SkipPipes
<1>7. others \in SUBSET Nat
  BY <1>2
<1>8. m \in others /\ \A i \in others : m <= i
  BY <1>6, <1>7, MinExists
<1> HIDE DEF m
<1>a. m \in 1..Len(r) /\ r[m] # "|"
  BY <1>2, <1>8 DEF Pipes
<1>b. ASSUME NEW i \in 1..Len(r), i < m PROVE r[i] = "|"
  <2>1. i \in Nat /\ m \in Nat
    BY <1>2, <1>a
  <2>2. ~(m <= i)
    BY <1>b, <2>1
  <2>3. i \notin others
    BY <1>8, <2>2
  <2> QED
    BY <1>2, <2>3 DEF Pipes
<1>c. /\ p \in Nat /\ Len(s) \in Nat /\ Len(r) \in Nat /\ m \in Nat /\ p <= Len(s)
      /\ Len(r) = Len(s) - p /\ 1 <= m /\ m <= Len(r)
  <2>1. p \in 0..Len(s) /\ m \in 1..Len(r)
    BY <1>1, <1>a
  <2> QED
    BY <1>2, <1>5, <2>1
<1> HIDE DEF others
<1>10. a \in 1..Len(s) /\ p < a
  BY <1>c
<1>11. Within(s, a)
  BY <1>3, <1>5, <1>a, <1>10 DEF Within
<1>12. ASSUME NEW i \in (p + 1)..(a - 1) PROVE ~Within(s, i)
  <2>1. i - p \in 1..Len(r) /\ i - p < m /\ p + (i - p) = i
    BY <1>c
  <2>2. s[i] = "|"
    BY <1>3, <1>b, <2>1
  <2> QED
    BY <2>2 DEF Within
<1>13. ~Within(s, a - 1)
  <2>1. CASE m = 1
    <3>1. a - 1 = p /\ p # Len(s)
      BY <1>c, <2>1
    <3> QED
      BY <1>1, <3>1
  <2>2. CASE m # 1
    <3>1. a - 1 \in (p + 1)..(a - 1)
      BY <1>c, <2>2
    <3> QED
      BY <1>12, <3>1
  <2> QED
    BY <2>1, <2>2
<1>14. SkipPipes(r) = SubSeq(s, a, Len(s))
  <2>1. p + Len(r) = Len(s) /\ m \in Nat \ {0} /\ Len(r) \in 0..Len(r)
    BY <1>c
  <2>2. SubSeq(r, m, Len(r)) = SubSeq(s, p + m, p + Len(r))
    BY <1>4, <2>1
  <2> QED
    BY <1>6, <2>1, <2>2
<1>15. Following(s, p, a)
  <2>1. a \in SegmentStarts(s)
    BY <1>5, <1>10, <1>11, <1>13 DEF SegmentStarts
  <2> QED
    BY <1>10, <1>12, <2>1 DEF Following
<1> QED
  BY <1>14, <1>15

(* It is the one after those that have begun. *)
LEMMA SegmentRank ==
    ASSUME NEW s \in Word, NEW p \in Nat, NEW a, Following(s, p, a)
    PROVE  /\ a \in 1..Len(s) /\ Begun(s, a) = Begun(s, p) + 1
           /\ Begun(s, a) \in 1..Cardinality(SegmentStarts(s))
           /\ Segments(s)[Begun(s, a)] = Trim(SubSeq(s, a, SegmentEnd(s, a)))
<1> DEFINE S == SegmentStarts(s)
<1>1. Len(s) \in Nat /\ S \in SUBSET (1..Len(s)) /\ S \in SUBSET (0..Len(s))
  BY SegmentFacts
<1>2. /\ a \in S /\ p < a /\ a \in 1..Len(s)
      /\ \A i \in (p + 1)..(a - 1) : ~Within(s, i)
  BY <1>1 DEF Following
<1>3. ASSUME NEW y \in S, p < y, y < a PROVE FALSE
  <2>1. y \in (p + 1)..(a - 1)
    BY <1>1, <1>2, <1>3
  <2>2. Within(s, y)
    BY DEF SegmentStarts
  <2> QED
    BY <1>2, <2>1, <2>2
<1>4. DOMAIN Segments(s) = 1..Cardinality(S)
  BY SegmentFacts
<1> HIDE DEF S
<1>5. Cardinality(UpTo(S, a)) = Cardinality(UpTo(S, p)) + 1
  BY <1>1, <1>2, <1>3, UpToJump
<1>6. /\ Cardinality(UpTo(S, a)) \in 1..Cardinality(S)
      /\ Sorted(S)[Cardinality(UpTo(S, a))] = a
  BY <1>1, <1>2, SortedRank
<1>7. DOMAIN Sorted(S) = 1..Cardinality(S)
  BY <1>1, SortedIsSeq
<1>8. Segments(s) = [k \in DOMAIN Sorted(S) |->
                        Trim(SubSeq(s, Sorted(S)[k], SegmentEnd(s, Sorted(S)[k])))]
  BY DEF Segments, S
<1> DEFINE k == Cardinality(UpTo(S, a))
<1>9. Segments(s)[k] = Trim(SubSeq(s, a, SegmentEnd(s, a)))
  <2>1. k \in DOMAIN Sorted(S) /\ Sorted(S)[k] = a
    BY <1>6, <1>7
  <2> HIDE DEF k
  <2> QED
    BY <1>8, <2>1
<1> QED
  BY <1>2, <1>5, <1>6, <1>9 DEF Begun, S

(* A segment ends before the next delimiter. *)
LEMMA SegmentEndFacts ==
    ASSUME NEW s \in Word, NEW a \in 1..Len(s), Within(s, a)
    PROVE  /\ SegmentEnd(s, a) \in a..Len(s) /\ ~Within(s, SegmentEnd(s, a) + 1)
           /\ \A i \in a..SegmentEnd(s, a) : Within(s, i)
<1> DEFINE E == {j \in a..Len(s) : ~Within(s, j + 1)}
           e == SegmentEnd(s, a)
<1>1. Len(s) \in Nat /\ DOMAIN s = 1..Len(s)
  BY WordFacts
<1>2. Len(s) + 1 \notin DOMAIN s
  BY <1>1
<1>3. E \in SUBSET Nat /\ Len(s) \in E
  BY <1>1, <1>2 DEF Within
<1>4. e \in E /\ \A j \in E : e <= j
  BY <1>3, MinExists DEF SegmentEnd
<1>5. e \in a..Len(s) /\ ~Within(s, e + 1)
  BY <1>4
<1>6. ASSUME NEW i \in a..e PROVE Within(s, i)
  <2>1. CASE i = a
    BY <2>1
  <2>2. CASE i # a
    <3>1. i - 1 \in a..Len(s) /\ i - 1 < e /\ (i - 1) + 1 = i
      BY <1>1, <1>5, <2>2
    <3>2. i - 1 \notin E
      BY <1>3, <1>4, <3>1
    <3> QED
      BY <3>1, <3>2
  <2> QED
    BY <2>1, <2>2
<1> QED
  BY <1>5, <1>6

(* What strtok_r cuts off is that segment, and what it leaves begins after it. *)
LEMMA SegmentCut ==
    ASSUME NEW s \in Word, NEW a \in SegmentStarts(s), NEW t, t = SubSeq(s, a, Len(s))
    PROVE  /\ FirstSegment(t) = Trim(SubSeq(s, a, SegmentEnd(s, a)))
           /\ \E q : Left(s, AfterSegment(t), q) /\ Begun(s, q) = Begun(s, a)
<1> DEFINE e == SegmentEnd(s, a)
           b == a - 1
           k == CutAt(t)
           S == SegmentStarts(s)
           q == IF e < Len(s) THEN e + 1 ELSE Len(s)
<1>1. Len(s) \in Nat /\ DOMAIN s = 1..Len(s) /\ a \in 1..Len(s) /\ Within(s, a)
      /\ S \in SUBSET (1..Len(s))
  BY WordFacts, SegmentFacts DEF SegmentStarts
<1>2. /\ e \in a..Len(s) /\ ~Within(s, e + 1) /\ \A i \in a..e : Within(s, i)
  BY <1>1, SegmentEndFacts
<1> HIDE DEF e, S
<1>i. e \in Nat /\ Len(s) \in Nat /\ a \in Nat /\ 1 <= a /\ a <= e /\ e <= Len(s)
  BY <1>1, <1>2
<1>3. b \in 0..Len(s) /\ b + 1 = a
  BY <1>1
<1>4. t = SubSeq(s, b + 1, Len(s))
  BY <1>3
<1> HIDE DEF b
<1>5. t \in Word /\ Len(t) = Len(s) - b /\ Len(t) \in Nat /\ DOMAIN t = 1..Len(t)
  BY <1>3, <1>4, RestFacts
<1>j. b \in Nat /\ b + 1 = a /\ Len(t) = Len(s) - b /\ Len(t) \in Nat
  BY <1>3, <1>5
<1>6. \A i \in 1..Len(t) : t[i] = s[b + i]
  BY <1>3, <1>4, RestFacts
<1>7. \A i \in Nat \ {0} : \A j \in 0..Len(t) : SubSeq(t, i, j) = SubSeq(s, b + i, b + j)
  BY <1>3, <1>4, RestFacts
<1>8. \A i \in 1..Len(t) : i <= e - b => i \notin Pipes(t)
  <2> SUFFICES ASSUME NEW i \in 1..Len(t), i <= e - b PROVE t[i] # "|"
    BY DEF Pipes
  <2>1. b + i \in a..e
    BY <1>i, <1>j
  <2>2. s[b + i] # "|"
    BY <1>2, <2>1 DEF Within
  <2> QED
    BY <1>6, <2>2
<1>9. k = e - b + 1
  <2>1. CASE e = Len(s)
    <3>1. \A i \in 1..Len(t) : i <= e - b
      BY <1>1, <1>3, <1>5, <2>1
    <3>2. Pipes(t) = {}
      BY <1>5, <1>8, <3>1 DEF Pipes
    <3> QED
      BY <1>5, <2>1, <3>2 DEF CutAt
  <2>2. CASE e # Len(s)
    <3> DEFINE i == e - b + 1
    <3>1. i \in 1..Len(t) /\ b + i = e + 1 /\ e + 1 \in 1..Len(s) /\ i \in Nat
      BY <1>i, <1>j, <2>2
    <3>2. s[e + 1] = "|"
      BY <1>1, <1>2, <3>1 DEF Within
    <3>3. i \in Pipes(t)
      <4> HIDE DEF i
      <4> QED
        BY <1>5, <1>6, <3>1, <3>2 DEF Pipes
    <3>4. Pipes(t) \in SUBSET Nat /\ Pipes(t) \in SUBSET (1..Len(t))
      BY <1>5 DEF Pipes
    <3>5. Min(Pipes(t)) \in Pipes(t) /\ Min(Pipes(t)) <= i
      BY <3>3, <3>4, MinExists
    <3>6. k = Min(Pipes(t))
      BY <3>3 DEF CutAt
    <3> HIDE DEF k
    <3>7. k \in 1..Len(t) /\ k \in Pipes(t) /\ k <= i
      BY <3>4, <3>5, <3>6
    <3>8. ~(k <= e - b)
      BY <1>8, <3>7
    <3> QED
      BY <1>1, <1>2, <1>3, <3>1, <3>7, <3>8
  <2> QED
    BY <2>1, <2>2
<1>10. FirstSegment(t) = Trim(SubSeq(s, a, e))
  <2>1. 1 \in Nat \ {0} /\ e - b \in 0..Len(t) /\ b + (e - b) = e /\ (e - b + 1) - 1 = e - b
    BY <1>1, <1>2, <1>3, <1>5
  <2>2. SubSeq(t, 1, e - b) = SubSeq(s, b + 1, b + (e - b))
    BY <1>7, <2>1
  <2>3. SubSeq(t, 1, k - 1) = SubSeq(s, a, e)
    BY <1>3, <1>9, <2>1, <2>2
  <2> QED
    BY <2>3 DEF FirstSegment
<1>11. q \in 0..Len(s) /\ (q = Len(s) \/ ~Within(s, q)) /\ a <= q /\ e <= q /\ q <= e + 1
  <2>1. q \in 0..Len(s) /\ a <= q /\ e <= q /\ q <= e + 1
    BY <1>i
  <2>2. q = Len(s) \/ q = e + 1
    OBVIOUS
  <2> HIDE DEF q
  <2> QED
    BY <1>2, <2>1, <2>2
<1>12. AfterSegment(t) = SubSeq(s, q + 1, Len(s))
  <2> DEFINE x == e - b + 2
  <2>1. x \in Nat \ {0} /\ Len(t) \in 0..Len(t) /\ b + Len(t) = Len(s) /\ b + x = e + 2 /\ k + 1 = x
    BY <1>1, <1>2, <1>3, <1>5, <1>9
  <2> HIDE DEF x, k
  <2>2. SubSeq(t, x, Len(t)) = SubSeq(s, b + x, b + Len(t))
    BY <1>7, <2>1
  <2>3. AfterSegment(t) = SubSeq(s, e + 2, Len(s))
    BY <2>1, <2>2 DEF AfterSegment, k
  <2>4. CASE e < Len(s)
    <3>1. q + 1 = e + 2
      BY <1>1, <1>2, <2>4
    <3> QED
      BY <2>3, <3>1
  <2>5. CASE ~(e < Len(s))
    <3>1. e + 2 \in Int /\ q + 1 \in Int /\ Len(s) \in Int /\ Len(s) < e + 2 /\ Len(s) < q + 1
      BY <1>1, <1>2, <2>5
    <3>2. SubSeq(s, e + 2, Len(s)) = <<>>
      BY <3>1, SubSeqEmpty
    <3>3. SubSeq(s, q + 1, Len(s)) = <<>>
      BY <3>1, SubSeqEmpty
    <3> QED
      BY <2>3, <3>2, <3>3
  <2> QED
    BY <2>4, <2>5
<1> HIDE DEF q
<1>13. ASSUME NEW y \in S, a < y, y <= q PROVE FALSE
  <2>1. y \in 1..Len(s) /\ Within(s, y) /\ ~Within(s, y - 1)
    BY <1>1 DEF S, SegmentStarts
  <2>2. y = e + 1 \/ y - 1 \in a..e
    <3>1. y \in Nat /\ q \in Nat /\ q <= e + 1
      BY <1>11, <2>1
    <3> QED
      BY <1>i, <1>13, <3>1
  <2> QED
    BY <1>2, <2>1, <2>2
<1>14. UpTo(S, q) = UpTo(S, a)
  <2>1. ASSUME NEW y \in S PROVE (y <= q => y <= a) /\ (y <= a => y <= q)
    <3>1. y \in 1..Len(s) /\ q \in 0..Len(s)
      BY <1>1, <1>11
    <3>2. y \in Nat /\ q \in Nat /\ a <= q
      BY <1>11, <3>1
    <3> QED
      BY <1>i, <1>13, <3>2
  <2> QED
    BY <2>1 DEF UpTo
<1>15. Left(s, AfterSegment(t), q) /\ Begun(s, q) = Begun(s, a)
  BY <1>11, <1>12, <1>14 DEF Left, Begun, S
<1> QED
  BY <1>10, <1>15 DEF e

(* One call of strtok_r returns the next segment of the line. *)
LEMMA SegmentNext ==
    ASSUME NEW s \in Word, NEW r, NEW p, Left(s, r, p), SkipPipes(r) # <<>>
    PROVE  /\ Begun(s, p) + 1 \in 1..Cardinality(SegmentStarts(s))
           /\ FirstSegment(SkipPipes(r)) = Segments(s)[Begun(s, p) + 1]
           /\ \E q : Left(s, AfterSegment(SkipPipes(r)), q) /\ Begun(s, q) = Begun(s, p) + 1
<1>1. PICK a : Following(s, p, a) /\ SkipPipes(r) = SubSeq(s, a, Len(s))
  BY SegmentFound
<1>2. p \in Nat
  BY SegmentFacts DEF Left
<1>3. /\ Begun(s, a) = Begun(s, p) + 1 /\ Begun(s, a) \in 1..Cardinality(SegmentStarts(s))
      /\ Segments(s)[Begun(s, a)] = Trim(SubSeq(s, a, SegmentEnd(s, a)))
  BY <1>1, <1>2, SegmentRank
<1>4. a \in SegmentStarts(s)
  BY <1>1 DEF Following
<1> DEFINE t == SkipPipes(r)
<1>5. t = SubSeq(s, a, Len(s))
  BY <1>1
<1> HIDE DEF t
<1>6. /\ FirstSegment(t) = Trim(SubSeq(s, a, SegmentEnd(s, a)))
      /\ \E q : Left(s, AfterSegment(t), q) /\ Begun(s, q) = Begun(s, a)
  BY <1>4, <1>5, SegmentCut
<1> QED
  BY <1>3, <1>6 DEF t

----------------------------------------------------------------------------
(* The invariant of the loop over the segments. *)
Gathered(s, cs) ==
    \A k \in 1..Len(cs) :
        ~Misplaced(Words(Segments(s)[k])) /\ cs[k] = Command(Words(Segments(s)[k]))
ListMeant ==
    pc \in {"list", "expand", "tokens", "args"} =>
        /\ Gathered(line, clist)
        /\ \E p : Left(line, rest, p) /\ Begun(line, p) = Len(clist) + Building
        /\ Building = 1 => Len(clist) + 1 \in DOMAIN Segments(line)
                           /\ seg = Segments(line)[Len(clist) + 1]

MeantInv == Phases /\ ListMeant /\ ParsedAsMeant

(* The codes that build_cmd_list returns differ. *)
LEMMA Codes ==
    /\ OK # WARN_NO_CMDS /\ OK # ERR_TOO_MANY_COMMANDS /\ OK # ERR_CMD_OR_ARGS_TOO_BIG
    /\ OK # ERR_CMD_ARGS_BAD /\ OK # ERR_MEMORY
    /\ WARN_NO_CMDS # ERR_TOO_MANY_COMMANDS /\ WARN_NO_CMDS # ERR_CMD_OR_ARGS_TOO_BIG
    /\ WARN_NO_CMDS # ERR_CMD_ARGS_BAD /\ WARN_NO_CMDS # ERR_MEMORY
    /\ ERR_TOO_MANY_COMMANDS # ERR_CMD_OR_ARGS_TOO_BIG /\ ERR_TOO_MANY_COMMANDS # ERR_CMD_ARGS_BAD
    /\ ERR_TOO_MANY_COMMANDS # ERR_MEMORY /\ ERR_CMD_OR_ARGS_TOO_BIG # ERR_CMD_ARGS_BAD
    /\ ERR_CMD_OR_ARGS_TOO_BIG # ERR_MEMORY /\ ERR_CMD_ARGS_BAD # ERR_MEMORY
BY DEF OK, WARN_NO_CMDS, ERR_TOO_MANY_COMMANDS, ERR_CMD_OR_ARGS_TOO_BIG, ERR_CMD_ARGS_BAD,
       ERR_MEMORY

(* Once build_cmd_list has returned, only its result is left to justify. *)
LEMMA ReturnMeant ==
    ASSUME pc' = "parsed", ParsedAsMeant'
    PROVE  MeantInv'
<1>1. Phases'
  BY DEF Phases, Expanding, Tokenizing, Arguing
<1>2. ListMeant'
  BY DEF ListMeant
<1> QED
  BY <1>1, <1>2 DEF MeantInv

(* An error has its reason in the line, which it leaves as it was. *)
Excused(r) ==
    \/ r = ERR_MEMORY
    \/ r = WARN_NO_CMDS /\ MeantEmpty
    \/ r = ERR_CMD_ARGS_BAD /\ MeantMisplaced
    \/ r = ERR_CMD_OR_ARGS_TOO_BIG /\ \E k \in DOMAIN Segments(line) : MeantTooBig(k)

(* Returning an error that has its reason in the line justifies the error. *)
LEMMA ErrorMeant ==
    ASSUME NEW r, Excused(r), Built(r), line' = line
    PROVE  MeantInv'
<1>1. pc' = "parsed" /\ rc' = r
  BY DEF Built
<1>2. MeantEmpty => MeantEmpty'
  BY DEF MeantEmpty, WordsOf
<1>3. MeantMisplaced => MeantMisplaced'
  BY DEF MeantMisplaced, WordsOf
<1>4. (\E k \in DOMAIN Segments(line) : MeantTooBig(k)) =>
          \E k \in DOMAIN Segments(line') : MeantTooBig(k)'
  BY DEF MeantTooBig, WordsOf
<1>5. CASE r = ERR_MEMORY
  BY <1>1, <1>5, Codes, ReturnMeant, Zenon DEF ParsedAsMeant
<1>6. CASE r = WARN_NO_CMDS /\ MeantEmpty
  BY <1>1, <1>2, <1>6, Codes, ReturnMeant, Zenon DEF ParsedAsMeant
<1>7. CASE r = ERR_CMD_ARGS_BAD /\ MeantMisplaced
  BY <1>1, <1>3, <1>7, Codes, ReturnMeant, Zenon DEF ParsedAsMeant
<1>8. CASE r = ERR_CMD_OR_ARGS_TOO_BIG /\ \E k \in DOMAIN Segments(line) : MeantTooBig(k)
  BY <1>1, <1>4, <1>8, Codes, ReturnMeant, Zenon DEF ParsedAsMeant
<1> QED
  BY <1>5, <1>6, <1>7, <1>8 DEF Excused

(* The shell has read a line. *)
LEMMA ReadLineMeant ==
    ASSUME IInv, IInv', NEW l \in Lines, ReadLine(l)
    PROVE  MeantInv'
<1>1. line' \in Word /\ clist' = <<>> /\ Len(clist') = 0
  BY EmptyTypes DEF IInv, TypeOK, ReadLine, BuildList
<1>2. CASE line' = <<>>
  <2>1. pc' = "parsed" /\ rc' = WARN_NO_CMDS
    BY <1>2, Zenon DEF ReadLine, BuildList, Built
  <2>2. Segments(line') = <<>>
    <3>1. Len(line') = 0
      BY <1>2, EmptyTypes
    <3>2. SegmentStarts(line') \in SUBSET (1..0)
      BY <1>1, <3>1, SegmentFacts
    <3>3. SegmentStarts(line') = {}
      BY <3>2
    <3>4. Sorted(SegmentStarts(line')) = <<>>
      BY <3>3, SortedEmpty
    <3> QED
      BY <3>4 DEF Segments
  <2>3. MeantEmpty'
    BY <2>2 DEF MeantEmpty
  <2> QED
    BY <2>1, <2>3, Codes, ReturnMeant, Zenon DEF ParsedAsMeant
<1>3. CASE line' # <<>> /\ TooManyPipes(line')
  <2>1. pc' = "parsed" /\ rc' = ERR_TOO_MANY_COMMANDS
    BY <1>3, Zenon DEF ReadLine, BuildList, Built
  <2>2. Cardinality(Pipes(line')) >= CMD_MAX
    BY <1>1, <1>3, PipesFinite, SizesAssumption DEF TooManyPipes
  <2> QED
    BY <2>1, <2>2, Codes, ReturnMeant, Zenon DEF ParsedAsMeant
<1>4. CASE line' # <<>> /\ ~TooManyPipes(line')
  <2>1. pc' = "list" /\ rest' = line'
    BY <1>4, Zenon DEF ReadLine, BuildList
  <2>2. Phases' /\ ParsedAsMeant'
    BY <2>1 DEF Phases, Expanding, Tokenizing, Arguing, ParsedAsMeant
  <2>3. ListMeant'
    <3>1. Building' = 0 /\ Building' # 1
      BY <2>1 DEF Building
    <3>2. Gathered(line', clist')
      BY <1>1 DEF Gathered
    <3>3. Left(line', rest', 0)
      <4>1. SubSeq(line', 1, Len(line')) = line'
        BY <1>1, SubSeqFull DEF Word
      <4>2. Len(line') \in Nat /\ DOMAIN line' = 1..Len(line')
        BY <1>1, WordFacts
      <4>3. 0 \in 0..Len(line') /\ 0 + 1 = 1 /\ 0 \notin DOMAIN line'
        BY <4>2
      <4> QED
        BY <2>1, <4>1, <4>3 DEF Left, Within
    <3>4. Begun(line', 0) = 0
      BY <1>1, SegmentFacts
    <3>5. Begun(line', 0) = Len(clist') + Building'
      BY <1>1, <3>1, <3>4
    <3> QED
      BY <3>1, <3>2, <3>3, <3>5, Zenon DEF ListMeant
  <2> QED
    BY <2>2, <2>3 DEF MeantInv
<1> QED
  BY <1>2, <1>3, <1>4

(* The steps of the loop over the segments. *)
LEMMA ListStepMeant ==
    ASSUME IInv, IInv', MeantInv, LastSegment \/ BlankSegment \/ NextSegment \/ MallocFailsHere
    PROVE  MeantInv'
<1> DEFINE S == SegmentStarts(line)
           s == SkipPipes(rest)
           k == Len(clist) + 1
<1>1. /\ pc = "list" /\ line \in Word /\ rest \in Word /\ Len(clist) \in Nat
      /\ clist \in Seq(CommandType)
  BY LenProperties DEF IInv, TypeOK, LastSegment, BlankSegment, NextSegment, MallocFailsHere
<1>2. Gathered(line, clist) /\ \E p : Left(line, rest, p) /\ Begun(line, p) = Len(clist)
  BY <1>1 DEF MeantInv, ListMeant, Building
<1>3. PICK p : Left(line, rest, p) /\ Begun(line, p) = Len(clist)
  BY <1>2
<1>4. /\ Cardinality(S) \in Nat /\ DOMAIN Segments(line) = 1..Cardinality(S)
      /\ Len(Segments(line)) = Cardinality(S) /\ Segments(line) \in Seq(Word)
  BY <1>1, SegmentFacts
<1>5. ASSUME s # <<>>
      PROVE  /\ k \in DOMAIN Segments(line) /\ FirstSegment(s) = Segments(line)[k]
             /\ \E q : Left(line, AfterSegment(s), q) /\ Begun(line, q) = k
  BY <1>1, <1>3, <1>4, <1>5, SegmentNext
<1> HIDE DEF S, s
<1>6. CASE LastSegment
  <2>1. /\ pc' = "parsed" /\ s = <<>> /\ line' = line /\ clist' = clist
        /\ rc' = IF clist = <<>> THEN WARN_NO_CMDS ELSE OK
    BY <1>6, Zenon DEF LastSegment, Built, s
  <2>2. Len(clist) = Len(Segments(line))
    BY <1>1, <1>3, <1>4, <2>1, NoSegmentLeft DEF s, S
  <2>3. CASE clist = <<>>
    <3>1. Len(Segments(line)) = 0
      BY <2>2, <2>3, EmptyTypes
    <3>2. Segments(line) = <<>>
      BY <1>4, <3>1, EmptySeq
    <3>3. MeantEmpty'
      BY <2>1, <3>2 DEF MeantEmpty
    <3>4. rc' = WARN_NO_CMDS
      BY <2>1, <2>3
    <3> QED
      BY <2>1, <3>3, <3>4, Codes, ReturnMeant, Zenon DEF ParsedAsMeant
  <2>4. CASE clist # <<>>
    <3>1. \A i \in DOMAIN Segments(line) : i \in 1..Len(clist)
      BY <1>4, <2>2
    <3>2. MeantBuilt
      BY <1>2, <2>2, <2>4, <3>1, Zenon DEF MeantBuilt, Gathered, WordsOf
    <3>3. MeantBuilt'
      BY <2>1, <3>2, Zenon DEF MeantBuilt, WordsOf
    <3>4. rc' = OK
      BY <2>1, <2>4
    <3> QED
      BY <2>1, <3>3, <3>4, Codes, ReturnMeant, Zenon DEF ParsedAsMeant
  <2> QED
    BY <2>3, <2>4
<1>7. CASE BlankSegment
  <2>1. s # <<>> /\ FirstSegment(s) = <<>> /\ Built(WARN_NO_CMDS) /\ line' = line
    BY <1>7, Zenon DEF BlankSegment, s
  <2>2. ArgumentsAt(Words(<<>>)) = {}
    <3>1. <<>> \in Word /\ Len(<<>>) = 0
      BY EmptyTypes
    <3>2. WordStarts(<<>>) \in SUBSET (1..0)
      BY <3>1, StartsFacts
    <3>3. Sorted(WordStarts(<<>>)) = <<>>
      BY <3>2, SortedEmpty
    <3>4. DOMAIN Words(<<>>) = {}
      BY <3>3 DEF Words
    <3> QED
      BY <3>4 DEF ArgumentsAt
  <2>3. k \in DOMAIN Segments(line) /\ Segments(line)[k] = <<>>
    BY <1>5, <2>1
  <2> HIDE DEF k
  <2>4. MeantEmpty
    BY <2>2, <2>3, Zenon DEF MeantEmpty, WordsOf
  <2>5. Excused(WARN_NO_CMDS)
    BY <2>4, Zenon DEF Excused
  <2> QED
    BY <2>1, <2>5, ErrorMeant
<1>8. CASE MallocFailsHere
  <2>1. Built(ERR_MEMORY) /\ line' = line
    BY <1>8, Zenon DEF MallocFailsHere
  <2>2. Excused(ERR_MEMORY)
    BY Zenon DEF Excused
  <2> QED
    BY <2>1, <2>2, ErrorMeant
<1>9. CASE NextSegment
  <2>1. /\ s # <<>> /\ seg' = FirstSegment(s) /\ rest' = AfterSegment(s) /\ pc' = "expand"
        /\ ScanStart /\ line' = line /\ clist' = clist
    BY <1>9, Zenon DEF NextSegment, s
  <2>2. seg' \in Word /\ src' = 1 /\ src' - 1 = 0 /\ quote' = Unquoted /\ expanded' = <<>>
    BY <2>1 DEF IInv, TypeOK, ScanStart
  <2>3. ExpandedTo'
    <3> DEFINE m == seg'
               e == expanded'
    <3>1. Len(m) \in Nat /\ Len(e) = 0 /\ m \in Word
      BY <2>2, WordFacts, EmptyTypes
    <3> HIDE DEF m, e
    <3>2. ExpandsTo(m, e, 0, 0) /\ ~Second(m, 1) /\ QuoteAfter(m)[0] = Unquoted
      BY <3>1, NoTurn
    <3>3. OperatorsTo(m, 0) = 0
      BY <3>1, OperatorsFacts
    <3>4. Turned(m, e, 0)
      <4>1. 0 + 1 = 1 /\ Len(e) = 0 + 2 * OperatorsTo(m, 0)
        BY <3>1, <3>3
      <4> QED
        BY <3>1, <3>2, <4>1 DEF Turned
    <3>5. 0 <= Len(m)
      BY <3>1
    <3> QED
      BY <2>2, <3>2, <3>4, <3>5 DEF ExpandedTo, m, e
  <2>4. Phases'
    <3>1. Fresh' /\ cmd' = NoCommand
      BY <2>1 DEF Fresh, ScanStart
    <3> QED
      BY <2>1, <2>3, <3>1, Zenon DEF Phases, Expanding, Tokenizing, Arguing
  <2>5. ListMeant'
    <3>1. Building' = 1
      BY <2>1 DEF Building
    <3>2. Len(clist') + Building' = k /\ Len(clist') + 1 = k
      BY <2>1, <3>1
    <3>3. \E q : Left(line', rest', q) /\ Begun(line', q) = Len(clist') + Building'
      BY <1>5, <2>1, <3>2
    <3>4. k \in DOMAIN Segments(line') /\ seg' = Segments(line')[k]
      BY <1>5, <2>1
    <3>5. Gathered(line', clist')
      BY <1>2, <2>1
    <3> QED
      BY <3>2, <3>3, <3>4, <3>5, Zenon DEF ListMeant
  <2>6. ParsedAsMeant'
    BY <2>1 DEF ParsedAsMeant
  <2> QED
    BY <2>4, <2>5, <2>6 DEF MeantInv
<1> QED
  BY <1>6, <1>7, <1>8, <1>9

(* The steps of build_cmd_buff. *)
LEMMA SegmentStepMeant ==
    ASSUME IInv, MeantInv, Expand \/ Tokenize \/ Redirect \/ Argument \/ CommandBuilt
    PROVE  MeantInv'
<1> DEFINE k == Len(clist) + 1
<1>1. /\ pc \in {"expand", "tokens", "args"} /\ Phases /\ Len(clist) \in Nat
      /\ clist \in Seq(CommandType) /\ seg \in Word
  BY LenProperties
     DEF IInv, TypeOK, MeantInv, Expand, Tokenize, Redirect, Argument, CommandBuilt
<1>2. Building = 1
  BY <1>1 DEF Building
<1>3. /\ Gathered(line, clist) /\ \E p : Left(line, rest, p) /\ Begun(line, p) = k
      /\ k \in DOMAIN Segments(line) /\ seg = Segments(line)[k]
  BY <1>1, <1>2 DEF MeantInv, ListMeant
<1>4. GoesOn \/ Refuses \/ Finishes
  <2>1. CASE Expand
    BY <1>1, <2>1, ExpandMeant
  <2>2. CASE Tokenize
    BY <1>1, <2>2, TokenizeMeant
  <2>3. CASE Redirect
    BY <1>1, <2>3, RedirectMeant
  <2>4. CASE Argument
    BY <1>1, <2>4, ArgumentMeant
  <2>5. CASE CommandBuilt
    BY <1>1, <2>5, CommandBuiltMeant
  <2> QED
    BY <2>1, <2>2, <2>3, <2>4, <2>5
<1>5. CASE GoesOn
  <2>1. /\ pc' \in {"expand", "tokens", "args"} /\ Phases'
        /\ line' = line /\ rest' = rest /\ clist' = clist /\ seg' = seg
    BY <1>5 DEF GoesOn
  <2>2. Building' = 1
    BY <2>1 DEF Building
  <2>3. ListMeant'
    <3>1. Len(clist') + Building' = k /\ Len(clist') + 1 = k
      BY <2>1, <2>2
    <3>2. \E p : Left(line', rest', p) /\ Begun(line', p) = Len(clist') + Building'
      BY <1>3, <2>1, <3>1
    <3>3. k \in DOMAIN Segments(line') /\ seg' = Segments(line')[k] /\ Gathered(line', clist')
      BY <1>3, <2>1
    <3> QED
      BY <3>1, <3>2, <3>3, Zenon DEF ListMeant
  <2>4. ParsedAsMeant'
    BY <2>1 DEF ParsedAsMeant
  <2> QED
    BY <2>1, <2>3, <2>4 DEF MeantInv
<1>6. CASE Refuses
  <2>1. PICK r : Refuse(r) /\ Reason(r, seg)
    BY <1>6 DEF Refuses
  <2>2. Built(r) /\ line' = line
    BY <2>1 DEF Refuse
  <2>3. WordsOf(k) = Words(seg)
    BY <1>3 DEF WordsOf
  <2> HIDE DEF k
  <2>4. Excused(r)
    <3>1. CASE r = ERR_CMD_OR_ARGS_TOO_BIG /\ TooBig(seg)
      <4>1. MeantTooBig(k)
        BY <1>3, <2>3, <3>1 DEF MeantTooBig, TooBig, TooLong
      <4> QED
        BY <1>3, <3>1, <4>1, Zenon DEF Excused
    <3>2. CASE r = ERR_CMD_ARGS_BAD /\ Misplaced(Words(seg))
      BY <1>3, <2>3, <3>2, Zenon DEF Excused, MeantMisplaced
    <3>3. CASE r = WARN_NO_CMDS /\ ArgumentsAt(Words(seg)) = {}
      BY <1>3, <2>3, <3>3, Zenon DEF Excused, MeantEmpty
    <3> QED
      BY <2>1, <3>1, <3>2, <3>3 DEF Reason
  <2> QED
    BY <2>2, <2>4, ErrorMeant
<1>7. CASE Finishes
  <2> DEFINE c == Command(Words(seg))
  <2>1. /\ clist' = Append(clist, c) /\ pc' = "list" /\ ~Misplaced(Words(seg))
        /\ line' = line /\ rest' = rest
    BY <1>7 DEF Finishes
  <2> HIDE DEF c
  <2>2. Building' = 0 /\ Building' # 1
    BY <2>1 DEF Building
  <2>3. Len(clist') = k /\ \A i \in 1..k : clist'[i] = IF i = k THEN c ELSE clist[i]
    BY <1>1, <2>1
  <2>4. Gathered(line, clist')
    <3> SUFFICES ASSUME NEW i \in 1..k
                 PROVE  /\ ~Misplaced(Words(Segments(line)[i]))
                        /\ clist'[i] = Command(Words(Segments(line)[i]))
      BY <2>3 DEF Gathered
    <3>1. CASE i = k
      BY <1>3, <2>1, <2>3, <3>1 DEF c
    <3>2. CASE i # k
      <4>1. i \in 1..Len(clist)
        BY <1>1, <3>2
      <4> QED
        BY <1>3, <2>3, <3>2, <4>1 DEF Gathered
    <3> QED
      BY <3>1, <3>2
  <2>5. ListMeant'
    <3>1. Len(clist') + Building' = k
      BY <1>1, <2>2, <2>3
    <3> HIDE DEF k
    <3>2. \E p : Left(line', rest', p) /\ Begun(line', p) = Len(clist') + Building'
      BY <1>3, <2>1, <3>1
    <3>3. Gathered(line', clist')
      BY <2>1, <2>4
    <3> QED
      BY <2>2, <3>2, <3>3, Zenon DEF ListMeant
  <2>6. Phases' /\ ParsedAsMeant'
    BY <2>1 DEF Phases, Expanding, Tokenizing, Arguing, ParsedAsMeant
  <2> QED
    BY <2>5, <2>6 DEF MeantInv
<1> QED
  BY <1>4, <1>5, <1>6, <1>7

(* Between the lines there is nothing to justify. *)
LEMMA IdleMeant ==
    ASSUME pc' \in {"prompt", "ended"}
    PROVE  MeantInv'
BY DEF MeantInv, Phases, Expanding, Tokenizing, Arguing, ListMeant, ParsedAsMeant

(* A step that changes nothing keeps the invariant. *)
LEMMA StutterMeant ==
    ASSUME MeantInv, UNCHANGED vars
    PROVE  MeantInv'
<1> USE DEF vars, parserVars, listVars, scanVars
<1>1. Phases'
  BY DEF MeantInv, Phases, Expanding, Tokenizing, Arguing, ExpandedTo, Fresh, CutTo, Cut,
         SortedTo
<1>2. ListMeant'
  BY DEF MeantInv, ListMeant, Building
<1>3. ParsedAsMeant'
  BY DEF MeantInv, ParsedAsMeant, MeantBuilt, MeantEmpty, MeantMisplaced, MeantTooBig, WordsOf
<1> QED
  BY <1>1, <1>2, <1>3 DEF MeantInv

(* Every step of the shell keeps the invariant. *)
LEMMA NextMeant == IInv /\ IInv' /\ MeantInv /\ [Next]_vars => MeantInv'
<1> SUFFICES ASSUME IInv, IInv', MeantInv, [Next]_vars PROVE MeantInv'
  OBVIOUS
<1>1. CASE \E l \in Lines : ReadLine(l)
  BY <1>1, ReadLineMeant
<1>2. CASE Parse
  <2>1. CASE LastSegment \/ BlankSegment \/ NextSegment \/ MallocFailsHere
    BY <2>1, ListStepMeant
  <2>2. CASE Expand \/ Tokenize \/ Redirect \/ Argument \/ CommandBuilt
    BY <2>2, SegmentStepMeant
  <2> QED
    BY <1>2, <2>1, <2>2 DEF Parse
<1>3. CASE EndOfInput \/ Rejected \/ ExitBuiltIn \/ SilentBuiltIn \/ CdBuiltIn
           \/ DragonBuiltIn \/ Executed
  <2>1. pc' \in {"prompt", "ended"}
    BY <1>3, Zenon DEF EndOfInput, Rejected, ExitBuiltIn, SilentBuiltIn, CdBuiltIn,
                       DragonBuiltIn, Executed
  <2> QED
    BY <2>1, IdleMeant
<1>4. CASE Exited \/ UNCHANGED vars
  <2>1. UNCHANGED vars
    BY <1>4 DEF Exited
  <2> QED
    BY <2>1, StutterMeant
<1> QED
  BY <1>1, <1>2, <1>3, <1>4 DEF Next

----------------------------------------------------------------------------
(* The results. *)

(* The variables of the shell and of its parser keep their types: no index, no
   count and no code of the loop of exec_local_cmd_loop leaves its range. *)
THEOREM TypeCorrect == Spec => []TypeOK
<1>1. IInv => TypeOK
  BY DEF IInv
<1> QED BY <1>1, Invariant, PTL

(* Whatever the line and the sizes of the arrays, build_cmd_list and
   build_cmd_buff never write past the end of expanded, of tokens, of argv, of a
   command's buffer or of clist. *)
THEOREM BuffersAlwaysFit == Spec => []BuffersFit
<1>1. IInv => BuffersFit
  <2> SUFFICES ASSUME IInv PROVE BuffersFit
    OBVIOUS
  <2>1. Len(expanded) <= EXPANDED_MAX /\ Len(tokens) <= 2 * CMD_ARGV_MAX /\ Len(cmd.argv) < CMD_ARGV_MAX
    BY DEF IInv, PhaseInv
  <2>2. ASSUME pc = "tokens" PROVE dst < SH_CMD_MAX /\ src \in DOMAIN expanded
    <3>1. DOMAIN expanded = 1..Len(expanded) /\ Len(expanded) \in Nat
      BY LenProperties DEF IInv, TypeOK
    <3> QED BY <2>2, <3>1 DEF IInv, PhaseInv, TypeOK
  <2>3. Len(clist) + Building <= CMD_MAX
    <3>1. Len(clist) \in Nat /\ rest \in Word
      BY LenProperties DEF IInv, TypeOK
    <3>2. Segs(rest) \in Nat
      BY <3>1, SegsType
    <3> QED BY <3>1, <3>2, SizesAssumption DEF IInv, ListInv, Building
  <2> QED BY <2>1, <2>2, <2>3 DEF BuffersFit, Building
<1> QED BY <1>1, Invariant, PTL

(* At the prompt and at the end every command's buffer has been freed once, but
   for those of the segments that build_cmd_buff refused. *)
THEOREM BuffersAreFreed == Spec => []BuffersFreed
<1>1. IInv => BuffersFreed
  <2> SUFFICES ASSUME IInv, pc \in {"prompt", "ended"} PROVE clist = <<>> /\ live = refused
    BY DEF BuffersFreed
  <2>1. clist = <<>> /\ live = refused + Len(clist) + Building /\ refused \in Nat
    BY DEF IInv, LiveInv, TypeOK
  <2>2. Len(clist) = 0
    BY <2>1, EmptyTypes, Zenon
  <2> QED BY <2>1, <2>2 DEF Building
<1> QED BY <1>1, Invariant, PTL

(* Whatever the line and the sizes of the arrays, the commands that build_cmd_list
   returns are those that the words of the line's segments stand for: the two
   passes of build_cmd_buff, which pad the operators with blanks and cut the
   result in place, lose, add and join no word, and each refusal has its reason
   in the line. *)
THEOREM LinesAreParsedAsMeant == Spec => []ParsedAsMeant
<1>1. Init => MeantInv
  BY DEF Init, MeantInv, Phases, Expanding, Tokenizing, Arguing, ListMeant, ParsedAsMeant
<1>2. MeantInv => ParsedAsMeant
  BY DEF MeantInv
<1> QED
  BY <1>1, <1>2, Invariant, NextMeant, PTL DEF Spec
=============================================================================
