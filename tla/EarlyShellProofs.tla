-------------------------- MODULE EarlyShellProofs --------------------------
(***************************************************************************)
(* The first two shells on lines of any length and with arrays of any      *)
(* size: the parser that cuts a line in place stays inside its buffers and *)
(* yields the words the line means, the buffers are freed, the first shell *)
(* never parses part of a line, and the second one tells failures from     *)
(* successes.                                                              *)
(***************************************************************************)
EXTENDS EarlyShell, DataLemmas

Cell == Char \cup {NUL}

(* What the loop of build_cmd_buff relies on: the buffer ends in a NUL that it
   cannot pass. *)
ScanInv ==
    /\ Len(argv) < CMD_ARGV_MAX
    /\ pc = "scan" => dst <= src /\ src < SH_CMD_MAX /\ buf[SH_CMD_MAX] = NUL

Building == IF stage = "P1" /\ pc = "scan" THEN 1 ELSE 0

ListInv ==
    /\ Len(clist) + Building <= CMD_MAX /\ Len(rest) < SH_CMD_MAX
    /\ stage = "P1" => pc # "wait"
    /\ stage = "P2" => pc # "list"

(* Whose every buffer is: P1's are in the list, being filled or lost by a
   refusal; P2 has one. *)
LiveInv ==
    /\ stage = "P1" =>
          /\ live = refused + Len(clist) + Building
          /\ pc \in {"prompt", "ended"} => clist = <<>>
          /\ pc = "parsed" /\ rc # OK => clist = <<>>
    /\ stage = "P2" => clist = <<>> /\ live = IF pc = "ended" THEN 0 ELSE 1

(* P1 has read all of what was typed when it parses it. *)
WholeInv ==
    stage = "P1" =>
        /\ stdin \in {<<>>, typed, Append(typed, NEWLINE)}
        /\ pc \in {"list", "scan", "parsed"} => line = Trim(typed) /\ stdin = <<>>

(* What became of P2's child, which there is only while the shell waits. *)
RanInv ==
    /\ child # "none" => pc = "wait"
    /\ child = "running" => ran
    /\ child = "zombie" /\ ~ran => status # Exit(0)

IInv == TypeOK /\ ScanInv /\ ListInv /\ LiveInv /\ WholeInv /\ RanInv

-----------------------------------------------------------------------------
(* Strings. *)

LEMMA WordFacts ==
    ASSUME NEW s \in Word
    PROVE  /\ Len(s) \in Nat /\ DOMAIN s = 1..Len(s)
           /\ \A i \in 1..Len(s) : s[i] \in Char
BY LenProperties, ElementOfSeq DEF Word

LEMMA EmptyFacts ==
    /\ <<>> \in Word /\ Len(<<>>) = 0 /\ <<>> \in Seq(CommandType) /\ <<>> \in Seq(Nat)
    /\ <<>> \in Seq(Char \cup {NEWLINE})
BY DEF Word

(* A part of a line is a line. *)
LEMMA PartOfWord ==
    ASSUME NEW s \in Word, NEW i \in Nat \ {0}, NEW j \in 0..Len(s)
    PROVE  /\ SubSeq(s, i, j) \in Word
           /\ Len(SubSeq(s, i, j)) = IF i <= j THEN j - i + 1 ELSE 0
           /\ Len(SubSeq(s, i, j)) <= Len(s)
<1>1. Len(s) \in Nat /\ \A n_ \in i..j : s[n_] \in Char
  <2>1. Len(s) \in Nat /\ \A n_ \in 1..Len(s) : s[n_] \in Char
    BY WordFacts
  <2> QED
    BY <2>1
<1>2. CASE i <= j
  <2>1. i \in 1..Len(s) /\ j \in i..Len(s)
    BY <1>1, <1>2
  <2>2. SubSeq(s, i, j) \in Seq(Char) /\ Len(SubSeq(s, i, j)) = j - i + 1
    BY <1>1, <1>2, SubSeqProperties DEF Word
  <2> QED
    BY <1>1, <1>2, <2>1, <2>2 DEF Word
<1>3. CASE ~(i <= j)
  <2>1. SubSeq(s, i, j) \in Seq(Char) /\ Len(SubSeq(s, i, j)) = 0
    BY <1>1, <1>3, SubSeqProperties DEF Word
  <2> QED
    BY <1>1, <1>3, <2>1 DEF Word
<1> QED
  BY <1>2, <1>3

(* The first and the last character that is not blank. *)
LEMMA InkFacts ==
    ASSUME NEW s \in Word, Ink(s) # {}
    PROVE  Min(Ink(s)) \in 1..Len(s) /\ Max(Ink(s)) \in 1..Len(s)
<1>1. Len(s) \in Nat /\ Ink(s) \subseteq 1..Len(s)
  BY WordFacts DEF Ink
<1>2. Ink(s) \in SUBSET (0..Len(s)) /\ Ink(s) \in SUBSET Nat
  BY <1>1
<1> QED
  BY <1>1, <1>2, MinExists, MaxExists

LEMMA TrimFacts ==
    ASSUME NEW s \in Word
    PROVE  /\ Trim(s) \in Word /\ Len(Trim(s)) <= Len(s)
           /\ Trim(s) # <<>> => Ink(s) # {}
<1>0. Len(s) \in Nat
  BY WordFacts
<1>1. CASE Ink(s) = {}
  BY <1>0, <1>1, EmptyFacts DEF Trim
<1>2. CASE Ink(s) # {}
  <2>1. Min(Ink(s)) \in 1..Len(s) /\ Max(Ink(s)) \in 1..Len(s)
    BY <1>2, InkFacts
  <2>2. Min(Ink(s)) \in Nat \ {0} /\ Max(Ink(s)) \in 0..Len(s)
    BY <2>1
  <2> QED
    BY <1>2, <2>2, PartOfWord DEF Trim
<1> QED
  BY <1>1, <1>2

(* A trimmed line that fits is a buffer with a NUL in its last byte. *)
LEMMA BufferFacts ==
    /\ NoBuffer \in Buffers
    /\ \A s \in Word : Ink(s) # {} /\ Len(s) < SH_CMD_MAX =>
          Trimmed(s) \in Buffers /\ Trimmed(s)[SH_CMD_MAX] = NUL
<1>1. ASSUME NEW s \in Word
      PROVE  /\ Filled(s) \in Buffers
             /\ Len(s) < SH_CMD_MAX => Filled(s)[SH_CMD_MAX] = NUL
  <2>1. Len(s) \in Nat /\ \A i \in 1..Len(s) : s[i] \in Char
    BY WordFacts
  <2> QED
    BY <2>1, SizesAssumption DEF Filled, Buffers
<1>2. NoBuffer \in Buffers
  BY <1>1, EmptyFacts DEF NoBuffer
<1>3. ASSUME NEW s \in Word, Ink(s) # {}, Len(s) < SH_CMD_MAX
      PROVE  Trimmed(s) \in Buffers /\ Trimmed(s)[SH_CMD_MAX] = NUL
  <2> DEFINE b == Filled(s)
             from == Min(Ink(s))
             to == Max(Ink(s))
             m == to - from + 1
  <2>1. b \in [1..SH_CMD_MAX -> Cell] /\ b[SH_CMD_MAX] = NUL
    BY <1>1, <1>3 DEF Buffers, Cell
  <2>2. from \in 1..Len(s) /\ to \in 1..Len(s) /\ Len(s) \in Nat
    BY <1>3, InkFacts, WordFacts
  <2>3. Trimmed(s) = [i \in 1..SH_CMD_MAX |-> IF i <= m THEN b[from + i - 1]
                        ELSE IF i \in {m + 1, to + 1} THEN NUL ELSE b[i]]
    BY Zenon DEF Trimmed
  <2> HIDE DEF b, from, to
  <2>4. m \in Int /\ m < SH_CMD_MAX
    BY <2>2, <1>3, SizesAssumption
  <2>5. \A i \in 1..SH_CMD_MAX : i <= m => from + i - 1 \in 1..SH_CMD_MAX
    BY <2>2, <1>3, SizesAssumption
  <2> HIDE DEF m
  <2>6. NUL \in Cell /\ SH_CMD_MAX \in 1..SH_CMD_MAX
    BY SizesAssumption DEF Cell
  <2>7. Trimmed(s) \in [1..SH_CMD_MAX -> Cell]
    BY <2>1, <2>3, <2>5, <2>6
  <2>8. Trimmed(s)[SH_CMD_MAX] = NUL
    BY <2>1, <2>3, <2>4, <2>6, SizesAssumption
  <2> QED
    BY <2>7, <2>8 DEF Buffers, Cell
<1> QED
  BY <1>2, <1>3

-----------------------------------------------------------------------------
(* What fgets returns. *)

Typing == Seq(Char \cup {NEWLINE})

LEMMA PieceFacts ==
    ASSUME stdin \in Typing, stdin # <<>>
    PROVE  /\ PieceLength \in 1..Len(stdin) /\ PieceLength < SH_CMD_MAX
           /\ \A i \in 1..(PieceLength - 1) : stdin[i] # NEWLINE
           /\ HasNewline <=> stdin[PieceLength] = NEWLINE
           /\ Piece \in Word /\ Len(Piece) < SH_CMD_MAX
<1> DEFINE lengths == {SH_CMD_MAX - 1, Len(stdin)} \cup Newlines
<1>1. Len(stdin) \in Nat \ {0} /\ DOMAIN stdin = 1..Len(stdin)
      /\ \A i \in 1..Len(stdin) : stdin[i] \in Char \cup {NEWLINE}
  BY LenProperties, ElementOfSeq, EmptySeq DEF Typing
<1>2. Newlines \subseteq 1..Len(stdin)
  BY <1>1 DEF Newlines
<1>3. lengths \in SUBSET Nat /\ lengths # {} /\ \A i \in lengths : i # 0
  <2>1. \A i \in Newlines : i \in Nat /\ i # 0
    BY <1>1, <1>2
  <2>2. SH_CMD_MAX - 1 \in Nat /\ SH_CMD_MAX - 1 # 0
    BY SizesAssumption
  <2>3. \A i \in lengths : i \in Nat /\ i # 0
    BY <1>1, <2>1, <2>2
  <2> QED
    BY <2>3
<1>4. PieceLength \in lengths /\ \A i \in lengths : PieceLength <= i
  BY <1>3, MinExists DEF PieceLength
<1>5. PieceLength \in 1..Len(stdin) /\ PieceLength < SH_CMD_MAX
  <2>1. Len(stdin) \in lengths /\ SH_CMD_MAX - 1 \in lengths
    OBVIOUS
  <2>2. PieceLength \in Nat /\ PieceLength # 0
    BY <1>3, <1>4
  <2>3. PieceLength <= Len(stdin) /\ PieceLength <= SH_CMD_MAX - 1
    BY <1>4, <2>1
  <2> QED
    BY <1>1, <2>2, <2>3, SizesAssumption
<1>6. \A i \in 1..(PieceLength - 1) : stdin[i] # NEWLINE
  <2> SUFFICES ASSUME NEW i \in 1..(PieceLength - 1), stdin[i] = NEWLINE PROVE FALSE
    OBVIOUS
  <2>1. i \in Newlines
    BY <1>1, <1>5 DEF Newlines
  <2>2. i \in lengths
    BY <2>1
  <2>3. PieceLength <= i
    BY <1>4, <2>2
  <2> QED
    BY <1>5, <2>3
<1>7. HasNewline <=> stdin[PieceLength] = NEWLINE
  <2>1. ASSUME HasNewline PROVE stdin[PieceLength] = NEWLINE
    <3>1. PICK i \in Newlines : i <= PieceLength
      BY <2>1 DEF HasNewline
    <3>2. i = PieceLength
      BY <3>1, <1>2, <1>4, <1>5
    <3> QED
      BY <3>1, <3>2 DEF Newlines
  <2>2. ASSUME stdin[PieceLength] = NEWLINE PROVE HasNewline
    BY <2>2, <1>1, <1>5 DEF HasNewline, Newlines
  <2> QED
    BY <2>1, <2>2
<1>8. Piece \in Word /\ Len(Piece) < SH_CMD_MAX
  <2> DEFINE l == PieceLength - (IF HasNewline THEN 1 ELSE 0)
  <2>1. l \in 0..PieceLength /\ l \in 0..Len(stdin)
    BY <1>1, <1>5
  <2>2. \A i \in 1..l : stdin[i] \in Char
    BY <1>1, <1>5, <1>6, <1>7
  <2>a. l < SH_CMD_MAX
    BY <1>5, <2>1, SizesAssumption
  <2> HIDE DEF l
  <2>3. SubSeq(stdin, 1, l) \in Seq(Char) /\ Len(SubSeq(stdin, 1, l)) = l
    BY <1>1, <2>1, <2>2, SubSeqProperties DEF Typing
  <2>4. Piece = SubSeq(stdin, 1, l)
    BY DEF Piece, l
  <2> QED
    BY <2>a, <2>3, <2>4 DEF Word
<1> QED
  BY <1>5, <1>6, <1>7, <1>8

-----------------------------------------------------------------------------
(* The types, in two halves. *)

ParserTypes ==
    /\ stage \in Stages
    /\ line \in Word /\ rest \in Word /\ more \in BOOLEAN /\ clist \in Seq(CommandType)
    /\ rc \in ERR_EXEC_CMD..OK /\ buf \in Buffers /\ argv \in Seq(Nat)
    /\ src \in Nat /\ dst \in Nat /\ token_start \in Nat \cup {NULL}
    /\ quote \in Quotes \cup {Unquoted} /\ live \in Nat /\ refused \in Nat

LoopTypes ==
    /\ stdin \in Typing /\ eof \in BOOLEAN /\ n \in 0..MaxLines /\ typed \in Word
    /\ last_status \in 0..255 \cup {ERR_CMD_ARGS_BAD}
    /\ child \in {"none", "forked", "running", "zombie"} /\ ran \in BOOLEAN
    /\ status \in [exit : 0..255, signal : 0..64]
    /\ said \in {"nothing", "no commands", "too many pipes", "commands", "dragon",
                 "exiting", "status", "fork", "not found", "denied",
                 "execution failure"}

Places == {"prompt", "list", "scan", "parsed", "wait", "ended"}

LEMMA TypeParts == TypeOK <=> ParserTypes /\ LoopTypes /\ pc \in Places
BY Zenon DEF TypeOK, ParserTypes, LoopTypes, Places, Typing

LEMMA ReturnCodes ==
    /\ OK \in ERR_EXEC_CMD..OK /\ WARN_NO_CMDS \in ERR_EXEC_CMD..OK
    /\ ERR_TOO_MANY_COMMANDS \in ERR_EXEC_CMD..OK /\ ERR_MEMORY \in ERR_EXEC_CMD..OK
    /\ ERR_CMD_OR_ARGS_TOO_BIG \in ERR_EXEC_CMD..OK /\ ERR_CMD_ARGS_BAD \in ERR_EXEC_CMD..OK
    /\ ERR_EXEC_CMD \in ERR_EXEC_CMD..OK
    /\ OK \notin {WARN_NO_CMDS, ERR_TOO_MANY_COMMANDS, ERR_CMD_OR_ARGS_TOO_BIG,
                  ERR_CMD_ARGS_BAD, ERR_MEMORY, ERR_EXEC_CMD}
BY DEF OK, WARN_NO_CMDS, ERR_TOO_MANY_COMMANDS, ERR_MEMORY, ERR_CMD_OR_ARGS_TOO_BIG,
   ERR_CMD_ARGS_BAD, ERR_EXEC_CMD

(* The lengths that the invariant speaks of are numbers. *)
LEMMA LengthTypes ==
    ASSUME ParserTypes
    PROVE  Len(argv) \in Nat /\ Len(clist) \in Nat /\ Len(rest) \in Nat /\ Len(line) \in Nat
BY LenProperties DEF ParserTypes, Word

(* A step of the parser: the loop's variables stay. *)
LEMMA ParserFrame ==
    ASSUME IInv, UNCHANGED <<inputVars, childVars>>, pc' \in {"list", "scan", "parsed"},
           pc \in {"list", "scan"}, stage' = stage, line' = line,
           ParserTypes', ScanInv', ListInv', LiveInv'
    PROVE  IInv'
<1>1. /\ stdin' = stdin /\ eof' = eof /\ n' = n /\ typed' = typed
      /\ last_status' = last_status /\ child' = child /\ status' = status
      /\ ran' = ran /\ said' = said
  BY DEF inputVars, childVars
<1>2. LoopTypes'
  <2>1. LoopTypes
    BY TypeParts DEF IInv
  <2> QED
    BY <1>1, <2>1, Zenon DEF LoopTypes
<1>3. TypeOK'
  <2>1. pc' \in Places
    BY DEF Places
  <2> QED
    BY <1>2, <2>1, Zenon DEF TypeOK, ParserTypes, LoopTypes, Places, Typing
<1>4. WholeInv'
  BY <1>1, Zenon DEF IInv, WholeInv
<1>5. RanInv'
  BY <1>1, Zenon DEF IInv, RanInv
<1> QED
  BY <1>3, <1>4, <1>5, Zenon DEF IInv

-----------------------------------------------------------------------------
(* One turn of build_cmd_buff's loop. *)

(* An error return. *)
LEMMA RefuseStep ==
    ASSUME IInv, pc = "scan", NEW r \in ERR_EXEC_CMD..OK, r # OK, Refuse(r),
           UNCHANGED <<inputVars, childVars>>
    PROVE  IInv'
<1>1. ParserTypes /\ Len(clist) \in Nat
  BY TypeParts, LengthTypes DEF IInv
<1>2. /\ pc' = "parsed" /\ rc' = r /\ stage' = stage /\ line' = line /\ rest' = rest
      /\ more' = more /\ buf' = buf /\ argv' = argv /\ src' = src /\ dst' = dst
      /\ token_start' = token_start /\ quote' = quote
  BY DEF Refuse, Built, scanVars
<1>3. CASE stage = "P1"
  <2>1. live' = live - Len(clist) /\ clist' = <<>> /\ refused' = refused + 1
    BY <1>3, Zenon DEF Refuse, FreeList
  <2>2. live = refused + Len(clist) + 1 /\ refused \in Nat
    BY <1>1, <1>3 DEF IInv, LiveInv, Building, ParserTypes
  <2>3. live' = refused' /\ live' \in Nat /\ refused' \in Nat
    BY <1>1, <2>1, <2>2
  <2>4. Len(clist') = 0 /\ clist' \in Seq(CommandType)
    BY <2>1, EmptyFacts, Zenon
  <2>5. ParserTypes'
    BY <1>1, <1>2, <2>3, <2>4, Zenon DEF ParserTypes
  <2>6. ScanInv'
    BY <1>2 DEF IInv, ScanInv
  <2>7. ListInv'
    BY <1>2, <1>3, <2>4, SizesAssumption DEF IInv, ListInv, Building
  <2>8. LiveInv'
    BY <1>2, <1>3, <2>1, <2>3, <2>4 DEF LiveInv, Building
  <2> QED
    BY <1>2, <2>5, <2>6, <2>7, <2>8, ParserFrame
<1>4. CASE stage # "P1"
  <2>1. live' = live /\ clist' = clist /\ refused' = refused
    BY <1>4, Zenon DEF Refuse
  <2>2. ParserTypes'
    BY <1>1, <1>2, <2>1, Zenon DEF ParserTypes
  <2>3. ScanInv' /\ ListInv'
    BY <1>2, <1>4, <2>1 DEF IInv, ScanInv, ListInv, Building
  <2>4. LiveInv'
    BY <1>2, <1>4, <2>1 DEF IInv, LiveInv
  <2> QED
    BY <1>2, <2>2, <2>3, <2>4, ParserFrame
<1> QED
  BY <1>3, <1>4

(* A turn that does not return: what it reads, writes and where it stops. *)
LEMMA TurnFacts ==
    ASSUME IInv, pc = "scan", NEW c, c = buf[src + 1], Refusal(c) = OK, Turn(c)
    PROVE  /\ buf' \in Buffers /\ argv' \in Seq(Nat) /\ Len(argv') < CMD_ARGV_MAX
           /\ src' \in Nat /\ dst' \in Nat /\ dst' <= src'
           /\ token_start' \in Nat \cup {NULL} /\ quote' \in Quotes \cup {Unquoted}
           /\ c # NUL => src' < SH_CMD_MAX /\ buf'[SH_CMD_MAX] = NUL
<1>1. ParserTypes /\ Len(argv) \in Nat
  BY TypeParts, LengthTypes DEF IInv
<1>2. /\ src \in Nat /\ dst \in Nat /\ dst <= src /\ src < SH_CMD_MAX
      /\ buf \in [1..SH_CMD_MAX -> Cell] /\ buf[SH_CMD_MAX] = NUL
      /\ Len(argv) < CMD_ARGV_MAX /\ SH_CMD_MAX \in Nat /\ CMD_ARGV_MAX \in Nat
  BY <1>1, SizesAssumption DEF IInv, ScanInv, ParserTypes, Buffers, Cell
<1>3. src + 1 \in 1..SH_CMD_MAX /\ dst + 1 \in 1..SH_CMD_MAX /\ c \in Cell
  BY <1>2
<1>4. ~ArgvFull(c) /\ (c # NUL => Advance(c) < SH_CMD_MAX - 1)
  <2>1. ~(ArgvFull(c) \/ (c # NUL /\ Advance(c) >= SH_CMD_MAX - 1))
    <3>1. OK # ERR_CMD_ARGS_BAD /\ OK # ERR_CMD_OR_ARGS_TOO_BIG
      BY ReturnCodes
    <3> QED
      BY <3>1, Zenon DEF Refusal
  <2>2. Advance(c) \in Nat
    BY <1>2 DEF Advance
  <2> QED
    BY <1>2, <2>1, <2>2
<1>5. /\ buf' = Written(c) /\ dst' = Advance(c) /\ src' = src + 1
      /\ argv' = IF Cuts(c) THEN Append(argv, token_start) ELSE argv
  BY Zenon DEF Turn
<1>6. dst' \in Nat /\ dst' <= src' /\ src' \in Nat
  BY <1>2, <1>5 DEF Advance
<1>7. c # NUL => src + 1 # SH_CMD_MAX
  BY <1>2
<1>8. argv' \in Seq(Nat) /\ Len(argv') < CMD_ARGV_MAX
  <2>1. CASE Cuts(c)
    <3>1. token_start \in Nat /\ argv \in Seq(Nat)
      BY <1>1, <2>1 DEF Cuts, ParserTypes
    <3>2. argv' \in Seq(Nat) /\ Len(argv') = Len(argv) + 1
      BY <1>5, <2>1, <3>1, AppendProperties
    <3>3. Len(argv) < CMD_ARGV_MAX - 1
      BY <1>1, <1>2, <1>4, <2>1 DEF ArgvFull
    <3> QED
      BY <1>1, <1>2, <3>2, <3>3
  <2>2. CASE ~Cuts(c)
    BY <1>1, <1>2, <1>5, <2>2 DEF ParserTypes
  <2> QED
    BY <2>1, <2>2
<1>9. buf' \in [1..SH_CMD_MAX -> Cell]
  <2>1. NUL \in Cell
    BY DEF Cell
  <2> QED
    BY <1>2, <1>3, <1>5, <2>1 DEF Written
<1>10. ASSUME c # NUL PROVE buf'[SH_CMD_MAX] = NUL
  <2>1. CASE Cuts(c)
    BY <1>2, <1>3, <1>5, <2>1 DEF Written
  <2>2. CASE ~Cuts(c) /\ Stays(c)
    <3>1. dst + 1 # SH_CMD_MAX
      BY <1>2, <1>4, <1>10, <2>2 DEF Advance
    <3> QED
      BY <1>2, <1>3, <1>5, <2>2, <3>1 DEF Written
  <2>3. CASE ~Cuts(c) /\ ~Stays(c)
    BY <1>2, <1>5, <2>3 DEF Written
  <2> QED
    BY <2>1, <2>2, <2>3
<1>11. token_start' \in Nat \cup {NULL} /\ quote' \in Quotes \cup {Unquoted}
  BY <1>1, <1>2 DEF Turn, ParserTypes, Opens
<1> QED
  BY <1>2, <1>6, <1>7, <1>8, <1>9, <1>10, <1>11, <1>5 DEF Buffers, Cell

(* The end of the loop completes a command. *)
LEMMA CommandStep ==
    ASSUME IInv, pc = "scan", buf[src + 1] = NUL, Refusal(NUL) = OK, Turn(NUL), CommandBuilt,
           UNCHANGED <<stage, line, rest, more, live, refused>>,
           UNCHANGED <<inputVars, childVars>>
    PROVE  IInv'
<1>1. ParserTypes /\ Len(clist) \in Nat
  BY TypeParts, LengthTypes DEF IInv
<1>2. /\ buf' \in Buffers /\ argv' \in Seq(Nat) /\ Len(argv') < CMD_ARGV_MAX
      /\ src' \in Nat /\ dst' \in Nat
      /\ token_start' \in Nat \cup {NULL} /\ quote' \in Quotes \cup {Unquoted}
  BY TurnFacts
<1>3. CASE stage = "P2"
  <2>1. pc' = "parsed" /\ rc' = OK /\ clist' = clist
    BY <1>3, Zenon DEF CommandBuilt, Built
  <2>2. ParserTypes'
    BY <1>1, <1>2, <2>1, ReturnCodes, Zenon DEF ParserTypes
  <2>3. ScanInv' /\ ListInv' /\ LiveInv'
    BY <1>2, <1>3, <2>1 DEF IInv, ScanInv, ListInv, LiveInv, Building
  <2> QED
    BY <2>1, <2>2, <2>3, ParserFrame
<1>4. CASE stage # "P2"
  <2> DEFINE built == [buf |-> buf', argv |-> argv']
  <2>1. built \in CommandType
    BY <1>2 DEF CommandType
  <2>2. /\ clist' = Append(clist, built)
        /\ \/ pc' = "list" /\ rc' = rc
           \/ pc' = "parsed" /\ rc' = OK
    BY <1>4, Zenon DEF CommandBuilt, Built
  <2> HIDE DEF built
  <2>3. clist' \in Seq(CommandType) /\ Len(clist') = Len(clist) + 1
    BY <1>1, <2>1, <2>2, AppendProperties DEF ParserTypes
  <2>4. rc' \in ERR_EXEC_CMD..OK
    BY <1>1, <2>2, ReturnCodes DEF ParserTypes
  <2>5. ParserTypes'
    BY <1>1, <1>2, <2>3, <2>4, Zenon DEF ParserTypes
  <2>6. ScanInv'
    BY <1>2, <2>2 DEF ScanInv
  <2>7. stage = "P1" \/ (stage # "P1" /\ stage # "P2")
    BY <1>4
  <2>8. stage \in {"P1", "P2"}
    BY <1>1, StagesAssumption DEF ParserTypes
  <2>9. ListInv'
    BY <1>1, <1>4, <2>2, <2>3, <2>8 DEF IInv, ListInv, Building
  <2>10. LiveInv'
    <3>1. stage = "P1" /\ stage' = "P1"
      BY <1>4, <2>8
    <3>2. live = refused + Len(clist) + 1 /\ live' = live /\ refused' = refused
      BY <3>1 DEF IInv, LiveInv, Building
    <3>3. Building' = 0
      BY <2>2 DEF Building
    <3>4. live' = refused' + Len(clist') + Building'
      BY <1>1, <2>3, <3>2, <3>3 DEF ParserTypes
    <3> QED
      BY <2>2, <3>1, <3>4 DEF LiveInv
  <2> QED
    BY <2>2, <2>5, <2>6, <2>9, <2>10, ParserFrame
<1> QED
  BY <1>3, <1>4

LEMMA ScanStep == ASSUME IInv, Scan, UNCHANGED <<inputVars, childVars>> PROVE IInv'
<1> DEFINE c == buf[src + 1]
<1>1. pc = "scan"
  BY DEF Scan
<1>2. CASE Refusal(c) # OK
  <2>1. Refuse(Refusal(c))
    BY <1>2, Zenon DEF Scan
  <2>2. Refusal(c) \in ERR_EXEC_CMD..OK
    BY ReturnCodes DEF Refusal
  <2> HIDE DEF c
  <2> QED
    BY <1>1, <1>2, <2>1, <2>2, RefuseStep
<1>3. CASE Refusal(c) = OK /\ c = NUL
  <2>1. /\ Turn(NUL) /\ CommandBuilt
        /\ UNCHANGED <<stage, line, rest, more, live, refused>>
    BY <1>3, Zenon DEF Scan
  <2> QED
    BY <1>1, <1>3, <2>1, CommandStep
<1>4. CASE Refusal(c) = OK /\ c # NUL
  <2>1. /\ Turn(c) /\ pc' = pc /\ rc' = rc /\ clist' = clist
        /\ UNCHANGED <<stage, line, rest, more, live, refused>>
    BY <1>4, Zenon DEF Scan
  <2>2. /\ buf' \in Buffers /\ argv' \in Seq(Nat) /\ Len(argv') < CMD_ARGV_MAX
        /\ src' \in Nat /\ dst' \in Nat /\ dst' <= src'
        /\ token_start' \in Nat \cup {NULL} /\ quote' \in Quotes \cup {Unquoted}
        /\ src' < SH_CMD_MAX /\ buf'[SH_CMD_MAX] = NUL
    BY <1>1, <1>4, <2>1, TurnFacts
  <2>3. ParserTypes
    BY TypeParts DEF IInv
  <2>4. ParserTypes'
    BY <2>1, <2>2, <2>3, Zenon DEF ParserTypes
  <2>5. ScanInv' /\ ListInv' /\ LiveInv'
    BY <1>1, <2>1, <2>2 DEF IInv, ScanInv, ListInv, LiveInv, Building
  <2> QED
    BY <1>1, <2>1, <2>4, <2>5, ParserFrame
<1> QED
  BY <1>2, <1>3, <1>4

-----------------------------------------------------------------------------
(* The list of segments. *)

LEMMA CutFacts ==
    ASSUME NEW s \in Word
    PROVE  CutAt(s) \in 1..(Len(s) + 1)
<1>1. Len(s) \in Nat /\ Pipes(s) \subseteq 1..Len(s)
  BY WordFacts DEF Pipes
<1>2. Pipes(s) # {} => Min(Pipes(s)) \in Pipes(s)
  <2>1. Pipes(s) \in SUBSET Nat
    BY <1>1
  <2> QED
    BY <2>1, MinExists
<1> QED
  BY <1>1, <1>2 DEF CutAt

LEMMA SegmentFacts ==
    ASSUME NEW s \in Word
    PROVE  /\ FirstSegment(s) \in Word /\ Len(FirstSegment(s)) <= Len(s)
           /\ Trim(FirstSegment(s)) \in Word
           /\ SubSeq(s, CutAt(s) + 1, Len(s)) \in Word
           /\ Len(SubSeq(s, CutAt(s) + 1, Len(s))) <= Len(s)
<1>1. CutAt(s) - 1 \in 0..Len(s) /\ CutAt(s) + 1 \in Nat \ {0} /\ Len(s) \in 0..Len(s)
      /\ 1 \in Nat \ {0} /\ Len(s) \in Nat
  BY CutFacts, WordFacts
<1> DEFINE t == SubSeq(s, 1, CutAt(s) - 1)
<1>2. t \in Word /\ Len(t) <= Len(s) /\ Len(t) \in Nat
  BY <1>1, PartOfWord, WordFacts
<1>5. FirstSegment(s) = Trim(t)
  BY DEF FirstSegment
<1> HIDE DEF t
<1>3. Trim(t) \in Word /\ Len(Trim(t)) <= Len(t) /\ Len(Trim(t)) \in Nat
  BY <1>2, TrimFacts, WordFacts
<1>4. Len(Trim(t)) <= Len(s)
  BY <1>1, <1>2, <1>3
<1> QED
  BY <1>1, <1>3, <1>4, <1>5, TrimFacts, PartOfWord

(* A trimmed line begins with ink. *)
LEMMA TrimmedInk ==
    ASSUME NEW s \in Word, Trim(s) # <<>>
    PROVE  Ink(Trim(s)) # {}
<1> DEFINE i == Min(Ink(s))
           j == Max(Ink(s))
<1>1. Ink(s) # {} /\ Trim(s) = SubSeq(s, i, j)
  BY TrimFacts, Zenon DEF Trim
<1>2. /\ i \in 1..Len(s) /\ j \in 1..Len(s) /\ i \in Ink(s) /\ i <= j /\ Len(s) \in Nat
      /\ \A x \in 1..Len(s) : s[x] \in Char
  <2>1. Len(s) \in Nat /\ Ink(s) \subseteq 1..Len(s) /\ \A x \in 1..Len(s) : s[x] \in Char
    BY WordFacts DEF Ink
  <2>2. Ink(s) \in SUBSET (0..Len(s)) /\ Ink(s) \in SUBSET Nat
    BY <2>1
  <2>3. i \in Ink(s) /\ j \in Ink(s) /\ \A x \in Ink(s) : i <= x
    BY <1>1, <2>1, <2>2, MinExists, MaxExists
  <2> QED
    BY <2>1, <2>3
<1> HIDE DEF i, j
<1>3. /\ \A x \in i..j : s[x] \in Char
      /\ i \in Int /\ j \in Int
  BY <1>2
<1>4. /\ Len(SubSeq(s, i, j)) = j - i + 1
      /\ SubSeq(s, i, j) \in Seq(Char) /\ SubSeq(s, i, j)[1] = s[i + 1 - 1]
  BY <1>2, <1>3, SubSeqProperties
<1>5. s[i] # " "
  BY <1>2 DEF Ink
<1>6. 1 \in DOMAIN SubSeq(s, i, j) /\ SubSeq(s, i, j)[1] # " "
  <2> DEFINE u == SubSeq(s, i, j)
  <2>1. i + 1 - 1 = i /\ 1 \in 1..(j - i + 1)
    BY <1>2
  <2>2. u \in Seq(Char) /\ Len(u) = j - i + 1 /\ u[1] = s[i]
    BY <1>4, <2>1
  <2> HIDE DEF u
  <2>3. 1 \in DOMAIN u
    BY <2>1, <2>2, LenProperties
  <2> QED
    BY <1>5, <2>2, <2>3 DEF u
<1> QED
  BY <1>1, <1>6 DEF Ink

(* build_cmd_buff starts on a line that fits and is not blank. *)
LEMMA StartFacts ==
    ASSUME NEW s \in Word, Ink(s) # {}, Len(s) < SH_CMD_MAX, ScanStart(s)
    PROVE  /\ buf' \in Buffers /\ buf'[SH_CMD_MAX] = NUL
           /\ argv' \in Seq(Nat) /\ Len(argv') = 0 /\ src' = 0 /\ dst' = 0
           /\ token_start' \in Nat \cup {NULL} /\ quote' \in Quotes \cup {Unquoted}
<1>1. /\ buf' = Trimmed(s) /\ argv' = <<>> /\ src' = 0 /\ dst' = 0
      /\ token_start' = NULL /\ quote' = Unquoted
  BY Zenon DEF ScanStart
<1> QED
  BY <1>1, BufferFacts, EmptyFacts, Zenon

LEMMA NextSegmentStep ==
    ASSUME IInv, NextSegment, UNCHANGED <<inputVars, childVars>> PROVE IInv'
<1> DEFINE s == FirstSegment(rest)
           r == SubSeq(rest, CutAt(rest) + 1, Len(rest))
<1>1. /\ pc = "list" /\ OK \in SegmentError /\ ScanStart(s) /\ pc' = "scan"
      /\ live' = live + 1 /\ rest' = r /\ more' = (Pipes(rest) # {})
      /\ stage' = stage /\ line' = line /\ clist' = clist /\ rc' = rc /\ refused' = refused
  BY Zenon DEF NextSegment
<1>2. s # <<>> /\ ~TooMany
  BY <1>1, ReturnCodes DEF SegmentError
<1>3. ParserTypes /\ Len(clist) \in Nat /\ Len(rest) \in Nat /\ rest \in Word
  BY TypeParts, LengthTypes DEF IInv, ParserTypes
<1>4. stage = "P1"
  BY <1>1, <1>3, StagesAssumption DEF IInv, ListInv, ParserTypes
<1>5. /\ s \in Word /\ Len(s) <= Len(rest) /\ r \in Word /\ Len(r) <= Len(rest)
      /\ Len(rest) < SH_CMD_MAX
  BY <1>3, SegmentFacts DEF IInv, ListInv
<1>6. Ink(s) # {}
  <2>1. SubSeq(rest, 1, CutAt(rest) - 1) \in Word
    <3>1. CutAt(rest) - 1 \in 0..Len(rest) /\ 1 \in Nat \ {0}
      BY <1>3, CutFacts
    <3> QED
      BY <1>3, <3>1, PartOfWord
  <2> QED
    BY <1>2, <2>1, TrimmedInk DEF FirstSegment
<1> HIDE DEF s, r
<1>7. Len(s) < SH_CMD_MAX /\ Len(r) < SH_CMD_MAX
  <2>1. Len(s) \in Nat /\ Len(r) \in Nat
    BY <1>5, WordFacts
  <2> QED
    BY <1>3, <1>5, <2>1, SizesAssumption
<1>8. /\ buf' \in Buffers /\ buf'[SH_CMD_MAX] = NUL
      /\ argv' \in Seq(Nat) /\ Len(argv') = 0 /\ src' = 0 /\ dst' = 0
      /\ token_start' \in Nat \cup {NULL} /\ quote' \in Quotes \cup {Unquoted}
  BY <1>1, <1>5, <1>6, <1>7, StartFacts
<1>9. live' \in Nat /\ more' \in BOOLEAN /\ src' \in Nat /\ dst' \in Nat
  BY <1>1, <1>3, <1>8 DEF ParserTypes
<1>10. ParserTypes'
  BY <1>1, <1>3, <1>5, <1>8, <1>9, Zenon DEF ParserTypes
<1>11. ScanInv'
  BY <1>8, SizesAssumption DEF ScanInv
<1>12. ListInv'
  <2>1. Len(clist) + 1 <= CMD_MAX
    BY <1>2, <1>3, SizesAssumption DEF TooMany
  <2> QED
    BY <1>1, <1>4, <1>7, <2>1 DEF ListInv, Building
<1>13. LiveInv'
  <2>1. live = refused + Len(clist)
    BY <1>1, <1>3, <1>4 DEF IInv, LiveInv, Building, ParserTypes
  <2>2. live' = refused' + Len(clist') + 1
    BY <1>1, <1>3, <2>1 DEF ParserTypes
  <2> QED
    BY <1>1, <1>4, <2>2 DEF LiveInv, Building
<1> QED
  BY <1>1, <1>10, <1>11, <1>12, <1>13, ParserFrame

LEMMA NoSegmentStep ==
    ASSUME IInv, NoSegment, UNCHANGED <<inputVars, childVars>> PROVE IInv'
<1>1. PICK r \in SegmentError \ {OK} : Built(r)
  BY Zenon DEF NoSegment
<1>2. /\ pc = "list" /\ FreeList
      /\ stage' = stage /\ line' = line /\ rest' = rest /\ more' = more
      /\ buf' = buf /\ argv' = argv /\ src' = src /\ dst' = dst
      /\ token_start' = token_start /\ quote' = quote /\ refused' = refused
  BY DEF NoSegment, scanVars
<1>3. rc' = r /\ pc' = "parsed" /\ live' = live - Len(clist) /\ clist' = <<>>
  BY <1>1, <1>2, Zenon DEF Built, FreeList
<1>4. r \in ERR_EXEC_CMD..OK
  BY ReturnCodes DEF SegmentError
<1>5. ParserTypes /\ Len(clist) \in Nat
  BY TypeParts, LengthTypes DEF IInv
<1>6. stage = "P1"
  BY <1>2, <1>5, StagesAssumption DEF IInv, ListInv, ParserTypes
<1>7. live = refused + Len(clist)
  BY <1>2, <1>5, <1>6 DEF IInv, LiveInv, Building, ParserTypes
<1>8. live' = refused' /\ live' \in Nat /\ refused' \in Nat
  BY <1>2, <1>3, <1>5, <1>7 DEF ParserTypes
<1>9. Len(clist') = 0 /\ clist' \in Seq(CommandType)
  BY <1>3, EmptyFacts, Zenon
<1>10. ParserTypes'
  BY <1>2, <1>3, <1>4, <1>5, <1>8, <1>9, Zenon DEF ParserTypes
<1>11. ScanInv'
  BY <1>2, <1>3 DEF IInv, ScanInv
<1>12. ListInv'
  BY <1>2, <1>3, <1>6, <1>9, SizesAssumption DEF IInv, ListInv, Building
<1>13. LiveInv'
  BY <1>2, <1>3, <1>6, <1>8, <1>9 DEF LiveInv, Building
<1> QED
  BY <1>2, <1>3, <1>10, <1>11, <1>12, <1>13, ParserFrame

-----------------------------------------------------------------------------
(* The loops. *)

(* A line is over, and what was parsed of it is forgotten. *)
LEMMA ForgetStep ==
    ASSUME IInv, Forget, pc \in {"parsed", "wait"}, pc' \in {"prompt", "ended"},
           stage' = stage, stdin' = stdin, typed' = typed,
           clist' = <<>>, rc' \in ERR_EXEC_CMD..OK, live' \in Nat, refused' = refused,
           LoopTypes', LiveInv', RanInv'
    PROVE  IInv'
<1>1. /\ line' = <<>> /\ rest' = <<>> /\ more' = FALSE
      /\ buf' = NoBuffer /\ argv' = <<>> /\ src' = 0 /\ dst' = 0
      /\ token_start' = NULL /\ quote' = Unquoted
  BY Zenon DEF Forget
<1>2. /\ line' \in Word /\ rest' \in Word /\ Len(rest') = 0
      /\ clist' \in Seq(CommandType) /\ Len(clist') = 0 /\ argv' \in Seq(Nat) /\ Len(argv') = 0
  BY <1>1, EmptyFacts, Zenon
<1>3. buf' \in Buffers
  BY <1>1, BufferFacts
<1>4. src' \in Nat /\ dst' \in Nat /\ more' \in BOOLEAN
  BY <1>1
<1>5. stage' \in Stages /\ refused' \in Nat
  BY TypeParts DEF IInv, ParserTypes
<1>6. ParserTypes'
  BY <1>1, <1>2, <1>3, <1>4, <1>5, Zenon DEF ParserTypes
<1>7. TypeOK'
  BY <1>6, Zenon DEF TypeOK, ParserTypes, LoopTypes, Typing
<1>8. ScanInv' /\ ListInv'
  BY <1>2, SizesAssumption DEF ScanInv, ListInv, Building
<1>9. WholeInv'
  BY DEF IInv, WholeInv
<1> QED
  BY <1>7, <1>8, <1>9, Zenon DEF IInv

(* P2 has no list, and one buffer until it ends. *)
LEMMA OneBuffer ==
    ASSUME IInv, stage = "P2"
    PROVE  /\ clist = <<>> /\ (pc # "ended" => live = 1)
           /\ ParserTypes /\ LoopTypes
BY TypeParts DEF IInv, LiveInv

LEMMA RejectedStep == ASSUME IInv, Rejected PROVE IInv'
<1>1. /\ pc = "parsed" /\ rc # OK /\ pc' = "prompt" /\ said' = Warning /\ Forget
      /\ stage' = stage /\ clist' = clist /\ rc' = rc /\ live' = live /\ refused' = refused
      /\ stdin' = stdin /\ eof' = eof /\ n' = n /\ typed' = typed
      /\ last_status' = last_status /\ child' = child /\ status' = status /\ ran' = ran
  BY DEF Rejected, inputVars
<1>2. ParserTypes /\ LoopTypes
  BY TypeParts DEF IInv
<1>3. Warning \in {"nothing", "no commands", "too many pipes"}
  BY DEF Warning
<1>4. LoopTypes'
  BY <1>1, <1>2, <1>3 DEF LoopTypes
<1>5. clist = <<>>
  BY <1>1, <1>2, StagesAssumption DEF IInv, LiveInv, ParserTypes
<1>6. LiveInv'
  BY <1>1, <1>5 DEF IInv, LiveInv, Building
<1>7. RanInv'
  BY <1>1 DEF IInv, RanInv
<1>8. rc \in ERR_EXEC_CMD..OK /\ live \in Nat
  BY <1>2 DEF ParserTypes
<1> QED
  BY <1>1, <1>4, <1>5, <1>6, <1>7, <1>8, ForgetStep

LEMMA PrintedStep == ASSUME IInv, Printed PROVE IInv'
<1>1. /\ stage = "P1" /\ pc = "parsed" /\ pc' = "prompt" /\ FreeList /\ Forget
      /\ stage' = stage /\ rc' = rc /\ refused' = refused
      /\ stdin' = stdin /\ eof' = eof /\ n' = n /\ typed' = typed
      /\ last_status' = last_status /\ child' = child /\ status' = status /\ ran' = ran
  BY DEF Printed, inputVars
<1>2. said' \in {"dragon", "commands"}
  BY Zenon DEF Printed
<1>3. ParserTypes /\ LoopTypes /\ Len(clist) \in Nat
  BY TypeParts, LengthTypes DEF IInv
<1>4. LoopTypes'
  BY <1>1, <1>2, <1>3 DEF LoopTypes
<1>5. live' = live - Len(clist) /\ clist' = <<>>
  BY <1>1, Zenon DEF FreeList
<1>6. live = refused + Len(clist)
  BY <1>1, <1>3 DEF IInv, LiveInv, Building, ParserTypes
<1>7. live' = refused' /\ live' \in Nat
  BY <1>1, <1>3, <1>5, <1>6 DEF ParserTypes
<1>8. Len(clist') = 0
  BY <1>5, EmptyFacts, Zenon
<1>9. LiveInv'
  BY <1>1, <1>3, <1>5, <1>7, <1>8 DEF LiveInv, Building, ParserTypes
<1>10. RanInv'
  BY <1>1 DEF IInv, RanInv
<1>11. rc \in ERR_EXEC_CMD..OK
  BY <1>3 DEF ParserTypes
<1> QED
  BY <1>1, <1>4, <1>5, <1>7, <1>9, <1>10, <1>11, ForgetStep

LEMMA ExitBuiltInStep == ASSUME IInv, ExitBuiltIn PROVE IInv'
<1>1. /\ stage = "P2" /\ pc = "parsed" /\ pc' = "ended" /\ said' = "exiting" /\ live' = 0
      /\ Forget
      /\ stage' = stage /\ clist' = clist /\ rc' = rc /\ refused' = refused
      /\ stdin' = stdin /\ eof' = eof /\ n' = n /\ typed' = typed
      /\ last_status' = last_status /\ child' = child /\ status' = status /\ ran' = ran
  BY DEF ExitBuiltIn, Ready, inputVars
<1>2. ParserTypes /\ LoopTypes /\ clist = <<>>
  BY <1>1, OneBuffer
<1>3. LoopTypes'
  BY <1>1, <1>2 DEF LoopTypes
<1>4. LiveInv' /\ RanInv'
  BY <1>1, <1>2 DEF IInv, LiveInv, RanInv
<1>5. rc \in ERR_EXEC_CMD..OK /\ 0 \in Nat
  BY <1>2 DEF ParserTypes
<1> QED
  BY <1>1, <1>2, <1>3, <1>4, <1>5, ForgetStep

LEMMA BuiltInStep == ASSUME IInv, BuiltIn PROVE IInv'
<1>1. /\ stage = "P2" /\ pc = "parsed" /\ pc' = "prompt" /\ Forget
      /\ stage' = stage /\ clist' = clist /\ rc' = rc /\ live' = live /\ refused' = refused
      /\ stdin' = stdin /\ eof' = eof /\ n' = n /\ typed' = typed
      /\ child' = child /\ status' = status /\ ran' = ran
  BY DEF BuiltIn, Ready, inputVars
<1>2. ParserTypes /\ LoopTypes /\ clist = <<>> /\ live = 1
  BY <1>1, OneBuffer
<1>3. said' \in {"nothing", "status"} /\ last_status' \in 0..255 \cup {ERR_CMD_ARGS_BAD}
  <2>1. \A argc : CdStatus(argc) \subseteq 0..255 \cup {ERR_CMD_ARGS_BAD}
    BY StatusAssumption DEF CdStatus
  <2>2. \/ said' = "status" /\ last_status' = last_status
        \/ said' = "nothing" /\ last_status' \in CdStatus(Len(argv))
    BY Zenon DEF BuiltIn
  <2> QED
    BY <1>2, <2>1, <2>2 DEF LoopTypes
<1>4. LoopTypes'
  BY <1>1, <1>2, <1>3 DEF LoopTypes
<1>5. LiveInv' /\ RanInv'
  BY <1>1, <1>2 DEF IInv, LiveInv, RanInv
<1>6. rc \in ERR_EXEC_CMD..OK /\ live \in Nat
  BY <1>2 DEF ParserTypes
<1> QED
  BY <1>1, <1>2, <1>4, <1>5, <1>6, ForgetStep

LEMMA ForkFailsStep == ASSUME IInv, ForkFails PROVE IInv'
<1>1. /\ stage = "P2" /\ pc = "parsed" /\ pc' = "prompt" /\ Forget
      /\ rc' = ERR_EXEC_CMD /\ last_status' = EAGAIN /\ said' = "fork" /\ ran' = FALSE
      /\ stage' = stage /\ clist' = clist /\ live' = live /\ refused' = refused
      /\ stdin' = stdin /\ eof' = eof /\ n' = n /\ typed' = typed
      /\ child' = child /\ status' = status
  BY DEF ForkFails, Ready, inputVars
<1>2. ParserTypes /\ LoopTypes /\ clist = <<>> /\ live = 1
  BY <1>1, OneBuffer
<1>3. EAGAIN \in 0..255
  BY StatusAssumption
<1>4. LoopTypes'
  BY <1>1, <1>2, <1>3 DEF LoopTypes
<1>5. LiveInv'
  BY <1>1, <1>2 DEF IInv, LiveInv
<1>6. RanInv'
  BY <1>1 DEF IInv, RanInv
<1> QED
  BY <1>1, <1>2, <1>4, <1>5, <1>6, ReturnCodes, ForgetStep

-----------------------------------------------------------------------------
(* Reading a line. *)

LEMMA InitInv == Init => IInv
<1> SUFFICES ASSUME Init PROVE IInv
  OBVIOUS
<1>1. /\ stage \in Stages /\ pc = "prompt" /\ live = (IF stage = "P2" THEN 1 ELSE 0)
      /\ stdin = <<>> /\ eof = FALSE /\ n = 0 /\ typed = <<>>
      /\ last_status = 0 /\ child = "none" /\ status = Exit(0)
      /\ ran = FALSE /\ said = "nothing"
  BY Zenon DEF Init
<1>2. /\ line = <<>> /\ rest = <<>> /\ more = FALSE /\ clist = <<>> /\ rc = OK
      /\ buf = NoBuffer /\ argv = <<>> /\ src = 0 /\ dst = 0
      /\ token_start = NULL /\ quote = Unquoted /\ refused = 0
  BY Zenon DEF Init, ParserInit
<1>3. /\ line \in Word /\ rest \in Word /\ typed \in Word /\ stdin \in Typing
      /\ argv \in Seq(Nat) /\ clist \in Seq(CommandType)
      /\ Len(rest) = 0 /\ Len(argv) = 0 /\ Len(clist) = 0
  BY <1>1, <1>2, EmptyFacts, Zenon DEF Typing
<1>4. buf \in Buffers
  BY <1>2, BufferFacts
<1>5. live \in Nat /\ refused \in Nat /\ src \in Nat /\ dst \in Nat /\ more \in BOOLEAN
      /\ eof \in BOOLEAN /\ n \in 0..MaxLines /\ ran \in BOOLEAN /\ last_status \in 0..255
      /\ status \in [exit : 0..255, signal : 0..64]
  <2>1. MaxLines \in Nat
    BY TypedAssumption, Zenon
  <2>2. Exit(0) \in [exit : 0..255, signal : 0..64]
    BY DEF Exit
  <2>3. status \in [exit : 0..255, signal : 0..64]
    BY <1>1, <2>2, Zenon
  <2>4. live \in Nat /\ refused \in Nat /\ src \in Nat /\ dst \in Nat
    BY <1>1, <1>2
  <2>5. more \in BOOLEAN /\ eof \in BOOLEAN /\ ran \in BOOLEAN
    BY <1>1, <1>2, Zenon
  <2>6. n \in 0..MaxLines /\ last_status \in 0..255
    BY <1>1, <2>1
  <2> QED
    BY <2>3, <2>4, <2>5, <2>6
<1>6. ParserTypes
  BY <1>1, <1>2, <1>3, <1>4, <1>5, ReturnCodes, Zenon DEF ParserTypes
<1>7. LoopTypes
  BY <1>1, <1>3, <1>5 DEF LoopTypes
<1>8. ScanInv /\ ListInv
  BY <1>1, <1>3, SizesAssumption DEF ScanInv, ListInv, Building
<1>9. LiveInv
  BY <1>1, <1>2, <1>3 DEF LiveInv, Building
<1>10. WholeInv /\ RanInv
  BY <1>1 DEF WholeInv, RanInv
<1> QED
  BY <1>1, <1>6, <1>7, <1>8, <1>9, <1>10, TypeParts DEF IInv, Places

(* At the prompt the loops read, or end, and the parser's variables stay. *)
LEMMA InputStep ==
    ASSUME IInv, pc = "prompt", pc' \in {"prompt", "ended"},
           UNCHANGED <<stage, listVars, scanVars, refused>>,
           rc' \in ERR_EXEC_CMD..OK, live' \in Nat, LoopTypes', LiveInv',
           child' = child, status' = status, ran' = ran,
           stage = "P1" => stdin' \in {<<>>, typed', Append(typed', NEWLINE)}
    PROVE  IInv'
<1>1. /\ stage' = stage /\ line' = line /\ rest' = rest /\ more' = more /\ clist' = clist
      /\ buf' = buf /\ argv' = argv /\ src' = src /\ dst' = dst
      /\ token_start' = token_start /\ quote' = quote /\ refused' = refused
  BY DEF listVars, scanVars
<1>2. ParserTypes
  BY TypeParts DEF IInv
<1>3. ParserTypes'
  BY <1>1, <1>2, Zenon DEF ParserTypes
<1>4. TypeOK'
  BY <1>3, Zenon DEF TypeOK, ParserTypes, LoopTypes, Typing
<1>5. ScanInv' /\ ListInv'
  BY <1>1 DEF IInv, ScanInv, ListInv, Building
<1>6. WholeInv'
  BY <1>1 DEF WholeInv
<1>7. RanInv'
  BY DEF IInv, RanInv
<1> QED
  BY <1>4, <1>5, <1>6, <1>7, Zenon DEF IInv

(* Every buffer is accounted for at the prompt. *)
LEMMA PromptFacts ==
    ASSUME IInv, pc = "prompt"
    PROVE  /\ ParserTypes /\ LoopTypes /\ clist = <<>> /\ Len(clist) = 0
           /\ stage = "P1" => live = refused
           /\ stage = "P2" => live = 1
           /\ stage \in {"P1", "P2"}
<1>1. ParserTypes /\ LoopTypes /\ stage \in {"P1", "P2"}
  BY TypeParts, StagesAssumption DEF IInv, ParserTypes
<1>2. clist = <<>> /\ Len(clist) = 0
  <2>1. clist = <<>>
    BY <1>1 DEF IInv, LiveInv
  <2> QED
    BY <2>1, EmptyFacts, Zenon
<1>3. stage = "P1" => live = refused
  BY <1>1, <1>2 DEF IInv, LiveInv, Building, ParserTypes
<1> QED
  BY <1>1, <1>2, <1>3 DEF IInv, LiveInv

(* LiveInv where no command is being built. *)
LEMMA LiveAtRest ==
    ASSUME IInv, pc = "prompt", pc' \in {"prompt", "ended"}, stage' = stage, clist' = clist,
           refused' = refused, live' = (IF pc' = "ended" /\ stage = "P2" THEN 0 ELSE live)
    PROVE  LiveInv' /\ live' \in Nat
<1>1. /\ ParserTypes /\ clist = <<>> /\ Len(clist) = 0
      /\ stage = "P1" => live = refused
      /\ stage = "P2" => live = 1
      /\ stage \in {"P1", "P2"}
  BY PromptFacts
<1>2. live' \in Nat
  BY <1>1 DEF ParserTypes
<1>3. CASE stage = "P1"
  BY <1>1, <1>3 DEF LiveInv, Building, ParserTypes
<1>4. CASE stage = "P2"
  BY <1>1, <1>4 DEF LiveInv
<1> QED
  BY <1>1, <1>2, <1>3, <1>4

LEMMA AllocFailsStep == ASSUME IInv, AllocFails PROVE IInv'
<1>1. /\ stage = "P2" /\ pc = "prompt" /\ pc' = "ended" /\ rc' = ERR_MEMORY /\ live' = 0
      /\ UNCHANGED <<stage, listVars, scanVars, refused>>
      /\ stage' = stage /\ clist' = clist /\ refused' = refused
      /\ stdin' = stdin /\ eof' = eof /\ n' = n /\ typed' = typed
      /\ last_status' = last_status /\ child' = child /\ status' = status
      /\ ran' = ran /\ said' = said
  BY DEF AllocFails, inputVars, childVars, listVars
<1>2. LoopTypes
  BY TypeParts DEF IInv
<1>3. LoopTypes'
  BY <1>1, <1>2, Zenon DEF LoopTypes
<1>4. LiveInv' /\ live' \in Nat
  BY <1>1, LiveAtRest
<1> QED
  BY <1>1, <1>3, <1>4, ReturnCodes, InputStep

LEMMA EndInputStep == ASSUME IInv, EndInput PROVE IInv'
<1>1. /\ pc = "prompt" /\ stdin = <<>> /\ pc' = "ended" /\ eof' = TRUE
      /\ live' = (IF stage = "P2" THEN 0 ELSE live)
      /\ UNCHANGED <<stage, listVars, scanVars, refused>>
      /\ stage' = stage /\ clist' = clist /\ refused' = refused /\ rc' = rc
      /\ stdin' = stdin /\ n' = n /\ typed' = typed
      /\ last_status' = last_status /\ child' = child /\ status' = status
      /\ ran' = ran /\ said' = said
  BY DEF EndInput, childVars, listVars
<1>2. LoopTypes /\ ParserTypes
  BY TypeParts DEF IInv
<1>3. LoopTypes'
  BY <1>1, <1>2 DEF LoopTypes
<1>4. LiveInv' /\ live' \in Nat
  BY <1>1, LiveAtRest
<1>5. rc' \in ERR_EXEC_CMD..OK /\ stdin' = <<>>
  BY <1>1, <1>2 DEF ParserTypes
<1> QED
  BY <1>1, <1>3, <1>4, <1>5, InputStep

(* What a user types has a newline at its end or nowhere. *)
LEMMA TypedFacts ==
    ASSUME NEW l \in Word
    PROVE  /\ l \in Typing /\ Append(l, NEWLINE) \in Typing
           /\ Len(l) \in Nat /\ Len(Append(l, NEWLINE)) = Len(l) + 1
           /\ \A i \in 1..Len(l) : l[i] # NEWLINE /\ Append(l, NEWLINE)[i] = l[i]
           /\ Append(l, NEWLINE)[Len(l) + 1] = NEWLINE
<1>1. Len(l) \in Nat /\ \A i \in 1..Len(l) : l[i] \in Char
  BY WordFacts
<1>2. NEWLINE \notin Char
  <2>1. NEWLINE \notin Special
    BY DEF NEWLINE, Special, Quotes
  <2> QED
    BY <2>1, NewlineAssumption DEF Char
<1>3. l \in Typing
  BY SeqMonotonic DEF Word, Typing
<1> QED
  BY <1>1, <1>2, <1>3, AppendProperties DEF Typing

LEMMA TypeLineStep == ASSUME IInv, NEW l \in Typed, TypeLine(l) PROVE IInv'
<1>1. /\ pc = "prompt" /\ n < MaxLines /\ n' = n + 1 /\ typed' = l
      /\ stage' = stage /\ clist' = clist /\ refused' = refused /\ rc' = rc
      /\ live' = live /\ pc' = pc
      /\ last_status' = last_status /\ child' = child /\ status' = status
      /\ ran' = ran /\ said' = said
      /\ UNCHANGED <<stage, listVars, scanVars, refused>>
  BY DEF TypeLine, parserVars, childVars, listVars
<1>2. \/ stdin' = Append(l, NEWLINE) /\ eof' = eof
      \/ stdin' = l /\ eof' = TRUE
  BY Zenon DEF TypeLine
<1>3. l \in Word /\ l \in Typing /\ Append(l, NEWLINE) \in Typing
  <2>1. l \in Word
    BY TypedAssumption DEF Word
  <2> QED
    BY <2>1, TypedFacts
<1>4. LoopTypes /\ ParserTypes
  BY TypeParts DEF IInv
<1>5. stdin' \in Typing /\ eof' \in BOOLEAN /\ stdin' \in {<<>>, typed', Append(typed', NEWLINE)}
  BY <1>1, <1>2, <1>3, <1>4, Zenon DEF LoopTypes
<1>6. n' \in 0..MaxLines
  <2>1. MaxLines \in Nat
    BY TypedAssumption, Zenon
  <2>2. n \in 0..MaxLines
    BY <1>4, Zenon DEF LoopTypes
  <2> QED
    BY <1>1, <2>1, <2>2
<1>7. LoopTypes'
  BY <1>1, <1>3, <1>4, <1>5, <1>6, Zenon DEF LoopTypes
<1>8. LiveInv' /\ live' \in Nat
  BY <1>1, LiveAtRest
<1>9. rc' \in ERR_EXEC_CMD..OK
  BY <1>1, <1>4 DEF ParserTypes
<1> QED
  BY <1>1, <1>5, <1>7, <1>8, <1>9, InputStep

(* The first shell reads the line as it was typed, or throws it away whole. *)
LEMMA WholeFacts ==
    ASSUME IInv, stage = "P1", stdin # <<>>
    PROVE  /\ HasNewline => Piece = typed /\ Unread = <<>>
           /\ Drained = <<>>
<1> DEFINE m == Len(typed)
<1>1. /\ stdin \in {typed, Append(typed, NEWLINE)} /\ typed \in Word /\ stdin \in Typing
  BY TypeParts DEF IInv, WholeInv, LoopTypes
<1>2. /\ typed \in Typing /\ Append(typed, NEWLINE) \in Typing
      /\ m \in Nat /\ Len(Append(typed, NEWLINE)) = m + 1
      /\ \A i \in 1..m : typed[i] # NEWLINE /\ Append(typed, NEWLINE)[i] = typed[i]
      /\ Append(typed, NEWLINE)[m + 1] = NEWLINE
  BY <1>1, TypedFacts
<1>3. /\ PieceLength \in 1..Len(stdin)
      /\ HasNewline <=> stdin[PieceLength] = NEWLINE
  BY <1>1, PieceFacts
<1> HIDE DEF m
<1>4. DOMAIN stdin = 1..Len(stdin) /\ Len(stdin) \in Nat
  BY <1>1, LenProperties DEF Typing
<1>5. CASE stdin = typed
  <2>1. Len(stdin) = m
    BY <1>5 DEF m
  <2>2. Newlines = {}
    BY <1>2, <1>4, <1>5, <2>1 DEF Newlines
  <2>3. ~HasNewline
    BY <2>2 DEF HasNewline
  <2>4. Drained = SubSeq(stdin, Len(stdin) + 1, Len(stdin))
    BY <2>2 DEF Drained
  <2> QED
    BY <1>4, <2>3, <2>4, SubSeqEmpty
<1>6. CASE stdin = Append(typed, NEWLINE)
  <2>1. Len(stdin) = m + 1 /\ stdin[m + 1] = NEWLINE
        /\ \A i \in 1..m : stdin[i] = typed[i] /\ stdin[i] # NEWLINE
    BY <1>2, <1>6
  <2>2. Newlines = {m + 1}
    BY <1>2, <1>4, <2>1 DEF Newlines
  <2>3. Min(Newlines) = m + 1
    <3>1. Newlines \in SUBSET Nat /\ Newlines # {}
      BY <1>2, <2>2
    <3>2. Min(Newlines) \in Newlines
      BY <3>1, MinExists
    <3> QED
      BY <2>2, <3>2
  <2>4. Drained = SubSeq(stdin, m + 2, m + 1)
    <3>1. Newlines # {}
      BY <2>2
    <3>2. Drained = SubSeq(stdin, m + 1 + 1, m + 1)
      BY <2>1, <2>3, <3>1 DEF Drained
    <3> QED
      BY <1>2, <3>2
  <2>5. ASSUME HasNewline PROVE Piece = typed /\ Unread = <<>>
    <3>1. PieceLength = m + 1
      BY <1>2, <1>3, <2>1, <2>5
    <3>2. Piece = SubSeq(stdin, 1, m)
      BY <1>2, <2>5, <3>1 DEF Piece
    <3>3. /\ SubSeq(stdin, 1, m) \in Typing /\ Len(SubSeq(stdin, 1, m)) = m
          /\ \A i \in 1..m : SubSeq(stdin, 1, m)[i] = stdin[i]
      <4>1. \A i \in 1..m : stdin[i] \in Char \cup {NEWLINE}
        BY <1>1, <1>2, <2>1, ElementOfSeq DEF Typing
      <4>2. 1 \in Int /\ m \in Int
        BY <1>2
      <4>3. /\ SubSeq(stdin, 1, m) \in Seq(Char \cup {NEWLINE})
            /\ Len(SubSeq(stdin, 1, m)) = IF 1 <= m THEN m - 1 + 1 ELSE 0
            /\ \A i \in 1..(m - 1 + 1) : SubSeq(stdin, 1, m)[i] = stdin[1 + i - 1]
        BY <4>1, <4>2, SubSeqProperties
      <4> QED
        BY <1>2, <4>3 DEF Typing
    <3>4. Piece = typed
      <4>1. Len(Piece) = Len(typed) /\ \A i \in 1..Len(Piece) : Piece[i] = typed[i]
        BY <2>1, <3>2, <3>3 DEF m
      <4> QED
        BY <1>2, <3>2, <3>3, <4>1, SeqEqual DEF Typing
    <3>5. Unread = SubSeq(stdin, m + 2, m + 1)
      <4>1. Unread = SubSeq(stdin, m + 1 + 1, m + 1)
        BY <2>1, <3>1 DEF Unread
      <4> QED
        BY <1>2, <4>1
    <3> QED
      BY <1>2, <3>4, <3>5, SubSeqEmpty
  <2> QED
    BY <1>2, <2>4, <2>5, SubSeqEmpty
<1> QED
  BY <1>1, <1>5, <1>6

LEMMA TooLongStep == ASSUME IInv, TooLong PROVE IInv'
<1>1. /\ stage = "P1" /\ pc = "prompt" /\ stdin # <<>> /\ stdin' = Drained
      /\ rc' = ERR_CMD_OR_ARGS_TOO_BIG /\ said' = "nothing" /\ pc' = pc
      /\ UNCHANGED <<stage, listVars, scanVars, refused>>
      /\ stage' = stage /\ clist' = clist /\ refused' = refused /\ live' = live
      /\ eof' = eof /\ n' = n /\ typed' = typed
      /\ last_status' = last_status /\ child' = child /\ status' = status /\ ran' = ran
  BY DEF TooLong, listVars
<1>2. stdin' = <<>> /\ stdin' \in Typing
  BY <1>1, WholeFacts, EmptyFacts, Zenon DEF Typing
<1>3. LoopTypes
  BY TypeParts DEF IInv
<1>4. LoopTypes'
  BY <1>1, <1>2, <1>3 DEF LoopTypes
<1>5. LiveInv' /\ live' \in Nat
  BY <1>1, LiveAtRest
<1> QED
  BY <1>1, <1>2, <1>4, <1>5, ReturnCodes, InputStep

LEMMA ExitTypedStep == ASSUME IInv, ExitTyped PROVE IInv'
<1>1. /\ stage = "P1" /\ pc = "prompt" /\ HasNewline /\ stdin' = Unread
      /\ rc' = OK /\ said' = "exiting" /\ pc' = "ended"
      /\ UNCHANGED <<stage, listVars, scanVars, refused>>
      /\ stage' = stage /\ clist' = clist /\ refused' = refused /\ live' = live
      /\ eof' = eof /\ n' = n /\ typed' = typed
      /\ last_status' = last_status /\ child' = child /\ status' = status /\ ran' = ran
  BY DEF ExitTyped, listVars
<1>2. stdin # <<>>
  BY <1>1, EmptyFacts DEF HasNewline, Newlines
<1>3. stdin' = <<>> /\ stdin' \in Typing
  BY <1>1, <1>2, WholeFacts, EmptyFacts, Zenon DEF Typing
<1>4. LoopTypes
  BY TypeParts DEF IInv
<1>5. LoopTypes'
  BY <1>1, <1>3, <1>4 DEF LoopTypes
<1>6. LiveInv' /\ live' \in Nat
  BY <1>1, LiveAtRest
<1> QED
  BY <1>1, <1>3, <1>5, <1>6, ReturnCodes, InputStep

(* A line goes to the parser. *)
LEMMA ReadLineStep == ASSUME IInv, ReadLine PROVE IInv'
<1> DEFINE p == Piece
           t == Trim(Piece)
<1>1. /\ pc = "prompt" /\ stdin # <<>> /\ stdin' = Unread /\ said' = "nothing"
      /\ eof' = eof /\ n' = n /\ typed' = typed
      /\ last_status' = last_status /\ child' = child /\ status' = status /\ ran' = ran
  BY Zenon DEF ReadLine
<1>2. /\ ParserTypes /\ LoopTypes /\ clist = <<>> /\ Len(clist) = 0
      /\ stage = "P1" => live = refused
      /\ stage = "P2" => live = 1
      /\ live \in Nat /\ refused \in Nat
  BY <1>1, PromptFacts DEF ParserTypes
<1>3. p \in Word /\ Len(p) < SH_CMD_MAX /\ PieceLength \in 1..Len(stdin) /\ stdin \in Typing
  BY <1>1, <1>2, PieceFacts DEF LoopTypes
<1>4. t \in Word /\ Len(t) < SH_CMD_MAX /\ (t # <<>> => Ink(p) # {})
  <2>1. t \in Word /\ Len(t) <= Len(p) /\ (t # <<>> => Ink(p) # {})
    BY <1>3, TrimFacts
  <2>2. Len(t) \in Nat /\ Len(p) \in Nat
    BY <1>3, <2>1, WordFacts
  <2> HIDE DEF t, p
  <2> QED
    BY <1>3, <2>1, <2>2, SizesAssumption
<1>5. Unread \in Typing
  <2>1. Len(stdin) \in Nat /\ \A i \in 1..Len(stdin) : stdin[i] \in Char \cup {NEWLINE}
    BY <1>3, LenProperties, ElementOfSeq DEF Typing
  <2>2. PieceLength + 1 \in Int /\ Len(stdin) \in Int
        /\ \A i \in (PieceLength + 1)..Len(stdin) : stdin[i] \in Char \cup {NEWLINE}
    BY <1>3, <2>1
  <2> QED
    BY <2>2, SubSeqProperties DEF Unread, Typing
<1>6. LoopTypes'
  BY <1>1, <1>2, <1>5 DEF LoopTypes
<1>7. RanInv'
  BY <1>1 DEF IInv, RanInv
<1>8. CASE stage = "P1" /\ HasNewline /\ BuildList(p)
  <2>1. /\ line' = t /\ rest' = t /\ more' = TRUE /\ clist' = <<>>
        /\ UNCHANGED <<stage, scanVars, live, refused>>
        /\ \/ rc' = WARN_NO_CMDS /\ pc' = "parsed"
           \/ rc' = rc /\ pc' = "list"
    BY <1>8, Zenon DEF BuildList, Built
  <2>2. /\ stage' = stage /\ live' = live /\ refused' = refused
        /\ buf' = buf /\ argv' = argv /\ src' = src /\ dst' = dst
        /\ token_start' = token_start /\ quote' = quote
    BY <2>1 DEF scanVars
  <2>3. p = typed /\ stdin' = <<>>
    BY <1>1, <1>8, WholeFacts
  <2>4. rc' \in ERR_EXEC_CMD..OK /\ clist' \in Seq(CommandType) /\ Len(clist') = 0
    <3>1. rc' \in ERR_EXEC_CMD..OK
      BY <1>2, <2>1, ReturnCodes DEF ParserTypes
    <3>2. clist' \in Seq(CommandType) /\ Len(clist') = 0
      BY <2>1, EmptyFacts, Zenon
    <3> QED
      BY <3>1, <3>2
  <2>5. line' = Trim(typed')
    BY <1>1, <2>1, <2>3
  <2> HIDE DEF p, t
  <2>6. /\ line' \in Word /\ rest' \in Word /\ more' \in BOOLEAN /\ Len(rest') < SH_CMD_MAX
    BY <1>4, <2>1
  <2>7. ParserTypes'
    BY <1>2, <2>2, <2>4, <2>6, Zenon DEF ParserTypes
  <2>8. pc' \in {"list", "parsed"}
    BY <2>1
  <2>9. ScanInv' /\ ListInv'
    BY <1>8, <2>2, <2>4, <2>6, <2>8, SizesAssumption DEF IInv, ScanInv, ListInv, Building
  <2>10. LiveInv'
    BY <1>2, <1>8, <2>1, <2>2, <2>4, <2>8 DEF LiveInv, Building
  <2>11. WholeInv'
    BY <2>3, <2>5 DEF WholeInv
  <2>12. TypeOK'
    <3>1. pc' \in Places
      BY <2>8 DEF Places
    <3> QED
      BY <1>6, <2>7, <3>1, Zenon DEF TypeOK, ParserTypes, LoopTypes, Places, Typing
  <2> QED
    BY <1>7, <2>9, <2>10, <2>11, <2>12, Zenon DEF IInv
<1>9. CASE stage = "P2" /\ BuildBuff(p)
  <2>1. /\ line' = p
        /\ stage' = stage /\ rest' = rest /\ more' = more /\ clist' = clist
        /\ live' = live /\ refused' = refused
        /\ \/ rc' = WARN_NO_CMDS /\ pc' = "parsed" /\ UNCHANGED scanVars
           \/ t # <<>> /\ ScanStart(p) /\ pc' = "scan" /\ rc' = rc
    BY <1>9, Zenon DEF BuildBuff, Built
  <2> HIDE DEF p, t
  <2>2. rc' \in ERR_EXEC_CMD..OK
    BY <1>2, <2>1, ReturnCodes DEF ParserTypes
  <2>3. /\ buf' \in Buffers /\ argv' \in Seq(Nat) /\ Len(argv') < CMD_ARGV_MAX
        /\ src' \in Nat /\ dst' \in Nat
        /\ token_start' \in Nat \cup {NULL} /\ quote' \in Quotes \cup {Unquoted}
        /\ pc' \in {"scan", "parsed"}
        /\ pc' = "scan" => dst' <= src' /\ src' < SH_CMD_MAX /\ buf'[SH_CMD_MAX] = NUL
    <3>1. CASE pc' = "parsed" /\ UNCHANGED scanVars
      <4>1. /\ buf' = buf /\ argv' = argv /\ src' = src /\ dst' = dst
            /\ token_start' = token_start /\ quote' = quote
        BY <3>1 DEF scanVars
      <4>2. Len(argv) < CMD_ARGV_MAX
        BY DEF IInv, ScanInv
      <4> QED
        BY <1>2, <3>1, <4>1, <4>2 DEF ParserTypes
    <3>2. CASE t # <<>> /\ ScanStart(p) /\ pc' = "scan"
      <4>1. /\ buf' \in Buffers /\ buf'[SH_CMD_MAX] = NUL
            /\ argv' \in Seq(Nat) /\ Len(argv') = 0 /\ src' = 0 /\ dst' = 0
            /\ token_start' \in Nat \cup {NULL} /\ quote' \in Quotes \cup {Unquoted}
        BY <1>3, <1>4, <3>2, StartFacts
      <4> QED
        BY <3>2, <4>1, SizesAssumption
    <3> QED
      BY <2>1, <3>1, <3>2
  <2>4. ParserTypes'
    BY <1>2, <1>3, <2>1, <2>2, <2>3, Zenon DEF ParserTypes
  <2>5. ScanInv' /\ ListInv'
    BY <1>9, <2>1, <2>3 DEF IInv, ScanInv, ListInv, Building
  <2>6. LiveInv' /\ WholeInv'
    BY <1>2, <1>9, <2>1, <2>3 DEF LiveInv, WholeInv
  <2>7. TypeOK'
    <3>1. pc' \in Places
      BY <2>3 DEF Places
    <3> QED
      BY <1>6, <2>4, <3>1, Zenon DEF TypeOK, ParserTypes, LoopTypes, Places, Typing
  <2> QED
    BY <1>7, <2>5, <2>6, <2>7, Zenon DEF IInv
<1> QED
  BY <1>8, <1>9, Zenon DEF ReadLine

-----------------------------------------------------------------------------
(* The child. *)

(* A step that leaves the parser and the input alone. *)
LEMMA ChildStep ==
    ASSUME IInv, UNCHANGED <<parserVars, inputVars>>, LoopTypes', RanInv',
           \/ pc' = pc
           \/ pc = "parsed" /\ pc' = "wait" /\ stage = "P2"
    PROVE  IInv'
<1>1. /\ stage' = stage /\ line' = line /\ rest' = rest /\ more' = more /\ clist' = clist
      /\ rc' = rc /\ buf' = buf /\ argv' = argv /\ src' = src /\ dst' = dst
      /\ token_start' = token_start /\ quote' = quote
      /\ live' = live /\ refused' = refused /\ stdin' = stdin /\ typed' = typed
  BY DEF parserVars, listVars, scanVars, inputVars
<1>2. ParserTypes /\ pc \in Places
  BY TypeParts DEF IInv
<1>3. ParserTypes'
  BY <1>1, <1>2, Zenon DEF ParserTypes
<1>4. pc' \in Places
  BY <1>2 DEF Places
<1>5. TypeOK'
  BY <1>3, <1>4, Zenon DEF TypeOK, ParserTypes, LoopTypes, Places, Typing
<1>6. ScanInv' /\ ListInv'
  BY <1>1 DEF IInv, ScanInv, ListInv, Building
<1>7. LiveInv' /\ WholeInv'
  BY <1>1 DEF IInv, LiveInv, WholeInv, Building
<1> QED
  BY <1>5, <1>6, <1>7, Zenon DEF IInv

LEMMA ForkStep == ASSUME IInv, Fork PROVE IInv'
<1>1. /\ stage = "P2" /\ pc = "parsed" /\ pc' = "wait" /\ child' = "forked" /\ ran' = FALSE
      /\ UNCHANGED <<parserVars, inputVars>>
      /\ stdin' = stdin /\ eof' = eof /\ n' = n /\ typed' = typed
      /\ last_status' = last_status /\ status' = status /\ said' = said
  BY DEF Fork, Ready, inputVars
<1>2. LoopTypes
  BY TypeParts DEF IInv
<1>3. LoopTypes' /\ RanInv'
  BY <1>1, <1>2 DEF LoopTypes, RanInv
<1> QED
  BY <1>1, <1>3, ChildStep

LEMMA ExecStep == ASSUME IInv, Exec PROVE IInv'
<1>1. /\ child = "forked" /\ pc' = pc /\ UNCHANGED <<parserVars, inputVars>>
      /\ stdin' = stdin /\ eof' = eof /\ n' = n /\ typed' = typed
      /\ last_status' = last_status /\ said' = said
  BY DEF Exec, inputVars
<1>2. LoopTypes /\ pc = "wait"
  BY <1>1, TypeParts DEF IInv, RanInv
<1>3. CASE child' = "running" /\ ran' = TRUE /\ status' = status
  <2>1. LoopTypes'
    BY <1>1, <1>2, <1>3 DEF LoopTypes
  <2>2. RanInv'
    BY <1>1, <1>2, <1>3 DEF RanInv
  <2> QED
    BY <1>1, <2>1, <2>2, ChildStep
<1>4. CASE child' = "zombie" /\ ran' = ran
           /\ \E errno \in {ENOENT, EACCES} : status' = Exit(ExecStatus(errno))
  <2>1. PICK errno \in {ENOENT, EACCES} : status' = Exit(errno)
    BY <1>4, Zenon DEF ExecStatus
  <2>2. errno \in 1..124
    BY StatusAssumption
  <2>3. status' \in [exit : 0..255, signal : 0..64] /\ status' # Exit(0)
    <3>1. Exit(errno) \in [exit : 0..255, signal : 0..64]
      BY <2>2 DEF Exit
    <3>2. Exit(errno).exit = errno /\ Exit(0).exit = 0
      BY DEF Exit
    <3> QED
      BY <2>1, <2>2, <3>1, <3>2
  <2>4. LoopTypes'
    BY <1>1, <1>2, <1>4, <2>3 DEF LoopTypes
  <2>5. RanInv'
    BY <1>1, <1>2, <1>4, <2>3 DEF RanInv, Exit
  <2> QED
    BY <1>1, <2>4, <2>5, ChildStep
<1> QED
  BY <1>3, <1>4, Zenon DEF Exec

LEMMA ProgramEndsStep == ASSUME IInv, ProgramEnds PROVE IInv'
<1>1. /\ child = "running" /\ child' = "zombie" /\ pc' = pc
      /\ UNCHANGED <<parserVars, inputVars>>
      /\ stdin' = stdin /\ eof' = eof /\ n' = n /\ typed' = typed
      /\ last_status' = last_status /\ said' = said /\ ran' = ran
  BY DEF ProgramEnds, inputVars
<1>2. LoopTypes /\ pc = "wait" /\ ran
  BY <1>1, TypeParts DEF IInv, RanInv
<1>3. status' \in [exit : 0..255, signal : 0..64]
  <2>1. \/ \E s \in Statuses : status' = Exit(s)
        \/ \E s \in Signals : status' = Killed(s)
    BY Zenon DEF ProgramEnds
  <2>2. Statuses \subseteq 0..255 /\ Signals \subseteq 0..64
    BY StatusAssumption
  <2> QED
    BY <2>1, <2>2 DEF Exit, Killed
<1>4. LoopTypes'
  BY <1>1, <1>2, <1>3 DEF LoopTypes
<1>5. RanInv'
  BY <1>1, <1>2 DEF RanInv
<1> QED
  BY <1>1, <1>4, <1>5, ChildStep

(* What wait_for_child makes of the status: 0 for an exit with 0 only. *)
LEMMA StatusFacts ==
    ASSUME LoopTypes
    PROVE  /\ StatusOf(status) \in 0..255
           /\ StatusOf(status) = 0 <=> status = Exit(0)
           /\ MessageOf(StatusOf(status)) \in {"nothing", "not found", "denied",
                                              "execution failure"}
           /\ MessageOf(StatusOf(status)) = "nothing" <=> StatusOf(status) = 0
<1>1. status \in [exit : 0..255, signal : 0..64]
  BY Zenon DEF LoopTypes
<1>2. StatusOf(status) \in 0..255
  BY <1>1 DEF StatusOf
<1>3. StatusOf(status) = 0 <=> status = Exit(0)
  <2>1. StatusOf(status) = 0 <=> status.signal = 0 /\ status.exit = 0
    BY <1>1 DEF StatusOf
  <2>2. status.signal = 0 /\ status.exit = 0 <=> status = Exit(0)
    BY <1>1 DEF Exit
  <2> QED
    BY <2>1, <2>2
<1>4. \A s : /\ MessageOf(s) \in {"nothing", "not found", "denied", "execution failure"}
             /\ s = 0 => MessageOf(s) = "nothing"
  BY StatusAssumption DEF MessageOf
<1>5. \A s \in 0..255 : MessageOf(s) = "nothing" => s = 0
  BY StatusAssumption DEF MessageOf
<1> QED
  BY <1>2, <1>3, <1>4, <1>5

LEMMA WaitStep == ASSUME IInv, Wait PROVE IInv'
<1>1. /\ pc = "wait" /\ pc' = "prompt" /\ child' = "none" /\ Forget
      /\ last_status' = StatusOf(status) /\ said' = MessageOf(StatusOf(status))
      /\ stage' = stage /\ clist' = clist /\ rc' = rc /\ live' = live /\ refused' = refused
      /\ stdin' = stdin /\ eof' = eof /\ n' = n /\ typed' = typed
      /\ status' = status /\ ran' = ran
  BY DEF Wait, inputVars
<1>2. LoopTypes /\ ParserTypes /\ stage = "P2"
  BY <1>1, TypeParts, StagesAssumption DEF IInv, ListInv, ParserTypes
<1>3. clist = <<>> /\ live = 1
  BY <1>1, <1>2, OneBuffer
<1>4. LoopTypes'
  BY <1>1, <1>2, StatusFacts DEF LoopTypes
<1>5. LiveInv' /\ RanInv'
  BY <1>1, <1>2, <1>3 DEF LiveInv, RanInv
<1>6. rc' \in ERR_EXEC_CMD..OK /\ live' \in Nat
  BY <1>1, <1>2, <1>3 DEF ParserTypes
<1> QED
  BY <1>1, <1>3, <1>4, <1>5, <1>6, ForgetStep

LEMMA StutterStep == ASSUME IInv, UNCHANGED vars PROVE IInv'
<1>1. pc' = pc /\ UNCHANGED <<parserVars, inputVars>> /\ UNCHANGED childVars
  BY DEF vars
<1>2. LoopTypes /\ RanInv
  BY TypeParts DEF IInv
<1>3. LoopTypes' /\ RanInv'
  BY <1>1, <1>2 DEF LoopTypes, RanInv, inputVars, childVars
<1> QED
  BY <1>1, <1>3, ChildStep

LEMMA NextInv == IInv /\ [Next]_vars => IInv'
<1> SUFFICES ASSUME IInv, [Next]_vars PROVE IInv'
  OBVIOUS
<1>1. CASE Parse /\ UNCHANGED <<inputVars, childVars>>
  BY <1>1, ScanStep, NextSegmentStep, NoSegmentStep, Zenon DEF Parse
<1>2. CASE AllocFails \/ (\E l \in Typed : TypeLine(l)) \/ EndInput
  BY <1>2, AllocFailsStep, TypeLineStep, EndInputStep, Zenon
<1>3. CASE TooLong \/ ExitTyped \/ ReadLine
  BY <1>3, TooLongStep, ExitTypedStep, ReadLineStep, Zenon
<1>4. CASE Rejected \/ Printed \/ ExitBuiltIn \/ BuiltIn
  BY <1>4, RejectedStep, PrintedStep, ExitBuiltInStep, BuiltInStep, Zenon
<1>5. CASE Fork \/ ForkFails \/ Exec \/ ProgramEnds \/ Wait
  BY <1>5, ForkStep, ForkFailsStep, ExecStep, ProgramEndsStep, WaitStep, Zenon
<1>6. CASE Exited \/ UNCHANGED vars
  BY <1>6, StutterStep, Zenon DEF Exited
<1> QED
  BY <1>1, <1>2, <1>3, <1>4, <1>5, <1>6, Zenon DEF Next

LEMMA Inductive == Spec => []IInv
BY InitInv, NextInv, PTL DEF Spec

-----------------------------------------------------------------------------
(* Cutting in place.  While it reads a segment m up to src, the loop overwrites
   nothing that is still to be read, and each word that has ended stands before
   dst with its NUL; rest is what follows a pipe of the line, and the commands
   built so far are those of the segments before it. *)

(* The segment that is being parsed. *)
Current == Meant[Len(clist) + 1]

(* The string w stands in the buffer at offset o, with its NUL, before dst. *)
Placed(w, o) ==
    /\ o + Len(w) < dst
    /\ \A k \in 1..Len(w) : buf[o + k] = w[k]
    /\ buf[o + Len(w) + 1] = NUL

(* The k-th word of m, and how many begin up to i. *)
WordOf(m, k) ==
    LET i == Sorted(WordStarts(m))[k] IN Letters(m, i, WordEnd(m, i))
Rank(m, i) == Cardinality(UpTo(WordStarts(m), i))

(* The word that begins at i has been read up to src: its letters stand from
   token_start to dst. *)
Begun(m, i) ==
    /\ Rank(m, i) = Len(argv) + 1
    /\ \A j \in (i + 1)..src : ~Blank(m, j)
    /\ token_start + Len(Letters(m, i, src)) = dst
    /\ \A k \in 1..Len(Letters(m, i, src)) : buf[token_start + k] = Letters(m, i, src)[k]

(* Between two turns of the loop: what is still to be read of m is undamaged,
   and argv has the words that ended before src. *)
ReadTo(m) ==
    /\ m \in Word /\ Ink(m) # {} /\ Len(m) < SH_CMD_MAX /\ src <= Len(m)
    /\ \A i \in (src + 1)..Len(m) : buf[i] = m[i]
    /\ buf[Len(m) + 1] = NUL
    /\ quote = Open(m)[src]
    /\ Rank(m, src) = Len(argv) + (IF token_start = NULL THEN 0 ELSE 1)
    /\ \A k \in 1..Len(argv) : Placed(WordOf(m, k), argv[k])
    /\ token_start = NULL => src = 0 \/ Blank(m, src)
    /\ token_start # NULL => \E i \in WordStarts(m) : i <= src /\ Begun(m, i)

(* r is what follows count pipes of s. *)
CutOff(s, r, count) ==
    \E p \in {0} \cup Pipes(s) :
        Cardinality(UpTo(Pipes(s), p)) = count /\ r = SubSeq(s, p + 1, Len(s))

SegmentsInv ==
    stage = "P1" /\ pc \in {"list", "scan"} =>
        /\ Len(line) < SH_CMD_MAX - 1
        /\ \A k \in 1..Len(clist) : Strings(clist[k]) = Words(Segments(line)[k])
        /\ pc = "list" => CutOff(line, rest, Len(clist))
        /\ pc = "scan" => IF more THEN CutOff(line, rest, Len(clist) + 1)
                          ELSE Cardinality(Pipes(line)) = Len(clist)

MeantInv ==
    /\ SegmentsInv
    /\ pc = "scan" => ReadTo(Current) /\ Len(line) < SH_CMD_MAX
    /\ ParsedAsMeant
-----------------------------------------------------------------------------
(* What a line means. *)

\* The quote that is open after a place, from the one before.
OpenNext(q, c) ==
    IF q = Unquoted /\ c \in Quotes THEN c ELSE IF c = q THEN Unquoted ELSE q

LEMMA OpenFacts ==
    ASSUME NEW s \in Word
    PROVE  /\ Open(s)[0] = Unquoted
           /\ \A i \in 0..Len(s) : Open(s)[i] \in Quotes \cup {Unquoted}
           /\ \A i \in 1..Len(s) : Open(s)[i] = OpenNext(Open(s)[i - 1], s[i])
<1> DEFINE l == Len(s)
           V == Quotes \cup {Unquoted}
           step == [p \in (1..l) \X V |-> OpenNext(p[2], s[p[1]])]
           Body(q) == [i \in 0..l |->
                IF i = 0 THEN Unquoted
                ELSE IF q[i - 1] = Unquoted /\ s[i] \in Quotes THEN s[i]
                ELSE IF s[i] = q[i - 1] THEN Unquoted ELSE q[i - 1]]
           Q == CHOOSE q : q = Body(q)
<1>1. l \in Nat
  BY WordFacts
<1>2. step \in [(1..l) \X V -> V]
  <2>1. \A p \in (1..l) \X V : OpenNext(p[2], s[p[1]]) \in V
    BY DEF OpenNext
  <2> QED
    BY <2>1
<1>3. PICK f : Follows(f, l, V, Unquoted, step)
  <2>1. Unquoted \in V
    OBVIOUS
  <2> HIDE DEF step, l, V
  <2> QED
    BY <1>1, <1>2, <2>1, RecursionExists
<1>4. /\ f \in [0..l -> V] /\ f[0] = Unquoted
      /\ \A i \in 1..l : f[i] = OpenNext(f[i - 1], s[i])
  <2>1. f \in [0..l -> V] /\ f[0] = Unquoted
    BY <1>3 DEF Follows
  <2>2. ASSUME NEW i \in 1..l PROVE f[i] = OpenNext(f[i - 1], s[i])
    <3>1. i - 1 \in 0..l
      BY <1>1
    <3>2. f[i - 1] \in V
      BY <2>1, <3>1
    <3>3. step[<<i, f[i - 1]>>] = OpenNext(f[i - 1], s[i])
      BY <3>2
    <3>4. f[i] = step[<<i, f[i - 1]>>]
      BY <1>3 DEF Follows
    <3> QED
      BY <3>3, <3>4
  <2> QED
    BY <2>1, <2>2
<1> HIDE DEF step
<1>5. f = Body(f)
  <2> HIDE DEF l, V
  <2>1. ASSUME NEW i \in 0..l
        PROVE  f[i] = IF i = 0 THEN Unquoted
                      ELSE IF f[i - 1] = Unquoted /\ s[i] \in Quotes THEN s[i]
                      ELSE IF s[i] = f[i - 1] THEN Unquoted ELSE f[i - 1]
    <3>1. i = 0 \/ i \in 1..l
      BY <1>1
    <3> QED
      BY <1>4, <3>1 DEF OpenNext
  <2>2. f = [i \in 0..l |-> f[i]]
    BY <1>4
  <2> QED
    BY <2>1, <2>2
<1>6. Q = Body(Q)
  <2> HIDE DEF Body
  <2> QED
    BY <1>5
<1>7. Open(s) = Q
  BY DEF Open
<1> HIDE DEF Q, l
<1>8. Q[0] = Unquoted /\ \A i \in 1..l : Q[i] = OpenNext(Q[i - 1], s[i])
  <2>1. Q[0] = Unquoted
    BY <1>1, <1>6
  <2>2. ASSUME NEW i \in 1..l PROVE Q[i] = OpenNext(Q[i - 1], s[i])
    <3>1. i \in 0..l /\ i # 0
      BY <1>1
    <3> QED
      BY <1>6, <3>1 DEF OpenNext
  <2> QED
    BY <2>1, <2>2
<1>9. \A i \in 0..l : Q[i] \in V
  <2> DEFINE P == {i \in 0..l : Q[i] \in V}
  <2>1. 0 \in P
    BY <1>1, <1>8
  <2>2. ASSUME NEW i \in 1..l, i - 1 \in P PROVE i \in P
    <3>1. i \in 0..l /\ Q[i] = OpenNext(Q[i - 1], s[i]) /\ Q[i - 1] \in V
      BY <1>1, <1>8, <2>2
    <3> QED
      BY <3>1 DEF OpenNext
  <2> HIDE DEF P
  <2>3. \A i \in 0..l : i \in P
    BY <1>1, <2>1, <2>2, UpToInduction
  <2> QED
    BY <2>3 DEF P
<1> QED
  BY <1>7, <1>8, <1>9 DEF l

(* The places of a stretch that count, in order, are places of it. *)
Kept(s, i, j) == {p \in i..j : ~Mark(s, p)}

LEMMA KeptFacts ==
    ASSUME NEW s, NEW i \in Nat \ {0}, NEW j \in Nat
    PROVE  /\ Kept(s, i, j) \in SUBSET (0..j)
           /\ DOMAIN Sorted(Kept(s, i, j)) = 1..Cardinality(Kept(s, i, j))
           /\ Cardinality(Kept(s, i, j)) \in Nat
           /\ \A k \in 1..Cardinality(Kept(s, i, j)) : Sorted(Kept(s, i, j))[k] \in i..j
           /\ DOMAIN Letters(s, i, j) = 1..Cardinality(Kept(s, i, j))
           /\ \A k \in 1..Cardinality(Kept(s, i, j)) :
                  Letters(s, i, j)[k] = s[Sorted(Kept(s, i, j))[k]]
<1> DEFINE K == Kept(s, i, j)
<1>1. K \in SUBSET (0..j) /\ K \in SUBSET (i..j)
  BY DEF Kept
<1>2. Letters(s, i, j) = [k \in DOMAIN Sorted(K) |-> s[Sorted(K)[k]]]
  BY DEF Letters, Kept
<1> HIDE DEF K
<1>3. DOMAIN Sorted(K) = 1..Cardinality(K) /\ \A k \in 1..Cardinality(K) : Sorted(K)[k] \in K
  BY <1>1, SortedIsSeq
<1>4. Cardinality(K) \in Nat
  BY <1>1, UpToFinite
<1> QED
  BY <1>1, <1>2, <1>3, <1>4 DEF K

LEMMA LettersFacts ==
    ASSUME NEW s \in Word, NEW i \in Nat \ {0}, NEW j \in 0..Len(s)
    PROVE  /\ Letters(s, i, j) \in Word /\ Len(Letters(s, i, j)) = Cardinality(Kept(s, i, j))
           /\ j < i => Letters(s, i, j) = <<>>
<1> DEFINE K == Kept(s, i, j)
<1>1. Len(s) \in Nat /\ \A p \in 1..Len(s) : s[p] \in Char
  BY WordFacts
<1>2. /\ Cardinality(K) \in Nat
      /\ \A k \in 1..Cardinality(K) : Sorted(K)[k] \in i..j
      /\ DOMAIN Letters(s, i, j) = 1..Cardinality(K)
      /\ \A k \in 1..Cardinality(K) : Letters(s, i, j)[k] = s[Sorted(K)[k]]
  <2>1. j \in Nat
    BY <1>1
  <2> QED
    BY <2>1, KeptFacts
<1>3. ASSUME j < i PROVE K = {}
  BY <1>1, <1>3 DEF Kept
<1>4. \A k \in 1..Cardinality(K) : s[Sorted(K)[k]] \in Char
  <2>1. \A p \in i..j : p \in 1..Len(s)
    BY <1>1
  <2> HIDE DEF K
  <2> QED
    BY <1>1, <1>2, <2>1
<1>5. Letters(s, i, j) \in Seq(Char) /\ Len(Letters(s, i, j)) = Cardinality(K)
  <2> DEFINE c == Cardinality(K)
             t == Letters(s, i, j)
  <2>1. c \in Nat /\ DOMAIN t = 1..c /\ \A k \in 1..c : t[k] \in Char
    BY <1>2, <1>4
  <2>2. t = [k \in DOMAIN t |-> t[k]]
    BY DEF Letters
  <2> HIDE DEF c, t
  <2>3. t \in [1..c -> Char]
    BY <2>1, <2>2
  <2>4. t \in Seq(Char) /\ Len(t) = c
    BY <2>1, <2>3
  <2> QED
    BY <2>4 DEF c, t
<1>6. ASSUME j < i PROVE Letters(s, i, j) = <<>>
  <2>1. Cardinality(K) = 0
    BY <1>3, <1>6, FS_EmptySet
  <2> HIDE DEF K
  <2> QED
    BY <1>5, <2>1, EmptySeq
<1> QED
  BY <1>5, <1>6 DEF Word

(* One place more: a quote that opens or closes adds nothing, others themselves. *)
LEMMA LettersNext ==
    ASSUME NEW s \in Word, NEW i \in Nat \ {0}, NEW j \in Nat, i <= j + 1, j + 1 <= Len(s)
    PROVE  /\ Mark(s, j + 1) => Letters(s, i, j + 1) = Letters(s, i, j)
           /\ ~Mark(s, j + 1) =>
                 /\ Len(Letters(s, i, j + 1)) = Len(Letters(s, i, j)) + 1
                 /\ \A k \in 1..Len(Letters(s, i, j)) :
                        Letters(s, i, j + 1)[k] = Letters(s, i, j)[k]
                 /\ Letters(s, i, j + 1)[Len(Letters(s, i, j)) + 1] = s[j + 1]
<1> DEFINE K == Kept(s, i, j)
           L == Kept(s, i, j + 1)
           c == Cardinality(K)
<1>1. Len(s) \in Nat /\ j \in 0..Len(s) /\ j + 1 \in 0..Len(s) /\ j + 1 \in Nat
  <2>1. Len(s) \in Nat
    BY WordFacts
  <2> QED
    BY <2>1
<1>2. /\ \A k \in 1..Cardinality(K) : Letters(s, i, j)[k] = s[Sorted(K)[k]]
      /\ \A k \in 1..Cardinality(L) : Letters(s, i, j + 1)[k] = s[Sorted(L)[k]]
      /\ K \in SUBSET (0..j) /\ Cardinality(K) \in Nat
  <2>0. K \in SUBSET (0..j) /\ Cardinality(K) \in Nat
    BY KeptFacts
  <2>1. \A k \in 1..Cardinality(K) : Letters(s, i, j)[k] = s[Sorted(K)[k]]
    BY KeptFacts
  <2>2. \A k \in 1..Cardinality(L) : Letters(s, i, j + 1)[k] = s[Sorted(L)[k]]
    <3> DEFINE e == j + 1
    <3>1. e \in Nat
      OBVIOUS
    <3> HIDE DEF e
    <3>2. \A k \in 1..Cardinality(Kept(s, i, e)) :
              Letters(s, i, e)[k] = s[Sorted(Kept(s, i, e))[k]]
      BY <3>1, KeptFacts
    <3> QED
      BY <3>2 DEF e
  <2> QED
    BY <2>0, <2>1, <2>2
<1>3. Len(Letters(s, i, j)) = Cardinality(K) /\ Len(Letters(s, i, j + 1)) = Cardinality(L)
  BY <1>1, LettersFacts
<1>4. ASSUME Mark(s, j + 1) PROVE Letters(s, i, j + 1) = Letters(s, i, j)
  <2>1. L = K
    BY <1>1, <1>4 DEF Kept
  <2> QED
    BY <2>1 DEF Letters, Kept
<1>5. ASSUME ~Mark(s, j + 1)
      PROVE  /\ Cardinality(L) = c + 1
             /\ \A k \in 1..c : Letters(s, i, j + 1)[k] = Letters(s, i, j)[k]
             /\ Letters(s, i, j + 1)[c + 1] = s[j + 1]
  <2>1. L = K \cup {j + 1}
    BY <1>1, <1>5 DEF Kept
  <2> HIDE DEF K, L
  <2>2. K \in SUBSET (0..(j + 1)) /\ j + 1 \in 0..(j + 1) /\ \A y \in K : y < j + 1
    BY <1>2
  <2>3. Sorted(L) = Append(Sorted(K), j + 1) /\ Cardinality(L) = Cardinality(K) + 1
    BY <1>1, <2>1, <2>2, SortedAppend
  <2>4. Sorted(K) \in Seq(K) /\ Len(Sorted(K)) = Cardinality(K)
    BY <1>1, <2>2, SortedIsSeq
  <2>5. (\A k \in 1..c : Sorted(L)[k] = Sorted(K)[k]) /\ Sorted(L)[c + 1] = j + 1
    BY <1>2, <2>3, <2>4 DEF c
  <2>6. c \in Nat /\ Cardinality(L) = c + 1
    BY <1>2, <2>3 DEF c
  <2>7. /\ \A k \in 1..(c + 1) : Letters(s, i, j + 1)[k] = s[Sorted(L)[k]]
        /\ \A k \in 1..c : Letters(s, i, j)[k] = s[Sorted(K)[k]]
    BY <1>2, <2>6 DEF c
  <2> HIDE DEF c
  <2>8. \A k \in 1..c : k \in 1..(c + 1)
    BY <2>6
  <2>9. \A k \in 1..c : Letters(s, i, j + 1)[k] = Letters(s, i, j)[k]
    BY <2>5, <2>7, <2>8
  <2>10. Letters(s, i, j + 1)[c + 1] = s[j + 1]
    <3>1. c + 1 \in 1..(c + 1)
      BY <2>6
    <3> QED
      BY <2>5, <2>7, <3>1
  <2> QED
    BY <2>6, <2>9, <2>10
<1> QED
  BY <1>3, <1>4, <1>5

LEMMA NoNul == NUL \notin Char /\ Unquoted \notin Char /\ NUL # " "
<1>1. NUL \notin Special /\ Unquoted \notin Special /\ NUL # " "
  BY DEF Special, Quotes, NUL, Unquoted
<1> QED
  BY <1>1, PlainAssumption DEF Char

(* A part of a buffer. *)
LEMMA PartOfBuffer ==
    ASSUME NEW b \in Buffers, NEW i \in Nat \ {0}, NEW j \in Int, j <= SH_CMD_MAX
    PROVE  /\ SubSeq(b, i, j) \in Seq(Cell)
           /\ Len(SubSeq(b, i, j)) = IF i <= j THEN j - i + 1 ELSE 0
           /\ \A k \in 1..(j - i + 1) : SubSeq(b, i, j)[k] = b[i + k - 1]
<1>1. i \in Int /\ \A p \in i..j : b[p] \in Cell
  BY SizesAssumption DEF Buffers, Cell
<1> QED
  BY <1>1, SubSeqProperties

(* A string that has its NUL is what a pointer to it stands for. *)
LEMMA StringFacts ==
    ASSUME NEW b \in Buffers, NEW w \in Word, NEW o \in Nat, o + Len(w) < SH_CMD_MAX,
           \A k \in 1..Len(w) : b[o + k] = w[k], b[o + Len(w) + 1] = NUL
    PROVE  StringAt(b, o) = w
<1> DEFINE l == Len(w)
           ends == {i \in (o + 1)..SH_CMD_MAX : b[i] = NUL}
<1>1. l \in Nat /\ \A k \in 1..l : w[k] \in Char
  BY WordFacts
<1>2. b \in [1..SH_CMD_MAX -> Cell] /\ SH_CMD_MAX \in Nat
  BY SizesAssumption DEF Buffers, Cell
<1>3. /\ o + l < SH_CMD_MAX /\ b[o + l + 1] = NUL
      /\ \A k \in 1..l : b[o + k] = w[k]
  OBVIOUS
<1> HIDE DEF l
<1>4. Min(ends) = o + l + 1
  <2>1. o + l + 1 \in ends /\ ends \in SUBSET Nat
    BY <1>1, <1>2, <1>3
  <2>2. Min(ends) \in ends /\ Min(ends) <= o + l + 1
    BY <2>1, MinExists
  <2>3. \A i \in (o + 1)..(o + l) : b[i] # NUL
    <3> SUFFICES ASSUME NEW i \in (o + 1)..(o + l) PROVE b[i] # NUL
      OBVIOUS
    <3>1. i - o \in 1..l /\ o + (i - o) = i
      BY <1>1
    <3>2. b[i] = w[i - o]
      BY <1>3, <3>1
    <3> QED
      BY <1>1, <3>1, <3>2, NoNul
  <2>4. Min(ends) \in (o + 1)..SH_CMD_MAX /\ b[Min(ends)] = NUL
    BY <2>2
  <2> HIDE DEF ends
  <2> QED
    BY <1>1, <2>2, <2>3, <2>4
<1>5. StringAt(b, o) = SubSeq(b, o + 1, o + l)
  <2>1. StringAt(b, o) = SubSeq(b, o + 1, Min(ends) - 1)
    BY DEF StringAt
  <2>2. Min(ends) - 1 = o + l
    BY <1>1, <1>4
  <2> QED
    BY <2>1, <2>2
<1>6. /\ SubSeq(b, o + 1, o + l) \in Seq(Cell) /\ Len(SubSeq(b, o + 1, o + l)) = l
      /\ \A k \in 1..l : SubSeq(b, o + 1, o + l)[k] = b[o + k]
  <2> DEFINE i == o + 1
             j == o + l
  <2>1. /\ i \in Int /\ j \in Int /\ (i <= j <=> l # 0) /\ j - i + 1 = l
        /\ \A k \in 1..l : i + k - 1 = o + k
        /\ i \in Nat \ {0} /\ j <= SH_CMD_MAX
    BY <1>1, <1>2, <1>3
  <2> HIDE DEF i, j
  <2>2. /\ SubSeq(b, i, j) \in Seq(Cell)
        /\ Len(SubSeq(b, i, j)) = IF i <= j THEN j - i + 1 ELSE 0
        /\ \A k \in 1..(j - i + 1) : SubSeq(b, i, j)[k] = b[i + k - 1]
    BY <2>1, PartOfBuffer
  <2>3. /\ SubSeq(b, i, j) \in Seq(Cell) /\ Len(SubSeq(b, i, j)) = l
        /\ \A k \in 1..l : SubSeq(b, i, j)[k] = b[o + k]
    BY <1>1, <2>1, <2>2
  <2> QED
    BY <2>3 DEF i, j
<1>7. w \in Seq(Cell)
  <2>1. w \in Seq(Char)
    BY DEF Word
  <2> QED
    BY <2>1, SeqMonotonic DEF Cell
<1> QED
  BY <1>3, <1>5, <1>6, <1>7, SeqEqual DEF l

(* What a call of build_cmd_buff starts with: the trimmed line and a NUL. *)
LEMMA TrimShape ==
    ASSUME NEW s \in Word, Ink(s) # {}, Len(s) < SH_CMD_MAX
    PROVE  /\ Trim(s) \in Word /\ Ink(Trim(s)) # {} /\ Trim(Trim(s)) = Trim(s)
           /\ Len(Trim(s)) \in Nat \ {0} /\ Len(Trim(s)) <= Len(s)
           /\ Trim(s)[1] # " "
           /\ \A i \in 1..Len(Trim(s)) : Trimmed(s)[i] = Trim(s)[i]
           /\ Trimmed(s)[Len(Trim(s)) + 1] = NUL
<1> DEFINE from == Min(Ink(s))
           to == Max(Ink(s))
           b == Filled(s)
           l == to - from + 1
           t == Trim(s)
<1>1. /\ Len(s) \in Nat /\ Ink(s) \in SUBSET (0..Len(s)) /\ Ink(s) \in SUBSET Nat
      /\ \A i \in 1..Len(s) : s[i] \in Char
  <2>1. Len(s) \in Nat /\ DOMAIN s = 1..Len(s) /\ \A i \in 1..Len(s) : s[i] \in Char
    BY WordFacts
  <2>2. Ink(s) \in SUBSET (1..Len(s))
    BY <2>1 DEF Ink
  <2> QED
    BY <2>1, <2>2
<1>2. /\ from \in 1..Len(s) /\ to \in 1..Len(s) /\ from \in Ink(s) /\ to \in Ink(s)
      /\ from <= to
  BY <1>1, InkFacts, MinExists, MaxExists
<1>3. s[from] # " " /\ s[to] # " "
  BY <1>2 DEF Ink
<1>4. t = SubSeq(s, from, to)
  BY DEF Trim
<1>5. Trimmed(s) = [i \in 1..SH_CMD_MAX |-> IF i <= l THEN b[from + i - 1]
                        ELSE IF i \in {l + 1, to + 1} THEN NUL ELSE b[i]]
  BY Zenon DEF Trimmed
<1>6. \A i \in 1..Len(s) : b[i] = s[i]
  BY <1>1, SizesAssumption DEF Filled
<1> HIDE DEF from, to, b, t
<1>7. l \in Nat \ {0} /\ l <= Len(s) /\ from + l - 1 = to
  BY <1>1, <1>2
<1>8. t \in Seq(Char) /\ Len(t) = l /\ \A i \in 1..l : t[i] = s[from + i - 1]
  <2>1. from \in Int /\ to \in Int /\ \A i \in from..to : s[i] \in Char
    BY <1>1, <1>2
  <2>2. /\ SubSeq(s, from, to) \in Seq(Char)
        /\ Len(SubSeq(s, from, to)) = IF from <= to THEN to - from + 1 ELSE 0
        /\ \A i \in 1..(to - from + 1) : SubSeq(s, from, to)[i] = s[from + i - 1]
    BY <2>1, SubSeqProperties
  <2> QED
    BY <1>2, <1>4, <2>2
<1> HIDE DEF l
<1>9. t[1] # " " /\ t[l] # " "
  <2>1. 1 \in 1..l /\ l \in 1..l /\ from + 1 - 1 = from
    BY <1>2, <1>7
  <2> QED
    BY <1>3, <1>7, <1>8, <2>1
<1>10. t \in Word /\ DOMAIN t = 1..l /\ 1 \in Ink(t) /\ l \in Ink(t) /\ Ink(t) \in SUBSET (1..l)
  <2>1. DOMAIN t = 1..l
    BY <1>8
  <2>2. t \in Word /\ 1 \in DOMAIN t /\ l \in DOMAIN t
    BY <1>7, <1>8, <2>1 DEF Word
  <2>3. Ink(t) = {i \in DOMAIN t : t[i] # " "}
    BY DEF Ink
  <2>4. 1 \in Ink(t) /\ l \in Ink(t) /\ Ink(t) \in SUBSET (1..l)
    BY <1>9, <2>1, <2>2, <2>3
  <2> QED
    BY <2>1, <2>2, <2>4
<1>11. Trim(t) = t
  <2>1. Ink(t) \in SUBSET Nat /\ Ink(t) \in SUBSET (0..l) /\ l \in Nat /\ Ink(t) # {}
    BY <1>7, <1>10
  <2>2. /\ Min(Ink(t)) \in Ink(t) /\ Max(Ink(t)) \in Ink(t)
        /\ Min(Ink(t)) <= 1 /\ l <= Max(Ink(t))
    BY <1>10, <2>1, MinExists, MaxExists
  <2>3. Min(Ink(t)) \in 1..l /\ Max(Ink(t)) \in 1..l
    BY <1>10, <2>2
  <2>4. Min(Ink(t)) = 1 /\ Max(Ink(t)) = l
    BY <1>7, <2>2, <2>3
  <2>5. Trim(t) = SubSeq(t, 1, l)
    BY <2>1, <2>4 DEF Trim
  <2>6. SubSeq(t, 1, Len(t)) = t
    BY <1>8, SubSeqFull
  <2> QED
    BY <1>8, <2>5, <2>6
<1>12. \A i \in 1..l : Trimmed(s)[i] = t[i]
  <2> SUFFICES ASSUME NEW i \in 1..l PROVE Trimmed(s)[i] = t[i]
    OBVIOUS
  <2>1. i \in 1..SH_CMD_MAX /\ i <= l /\ from + i - 1 \in 1..Len(s)
    BY <1>1, <1>2, <1>7, SizesAssumption
  <2>2. Trimmed(s)[i] = b[from + i - 1]
    BY <1>5, <2>1 DEF l
  <2> QED
    BY <1>6, <1>8, <2>1, <2>2
<1>13. Trimmed(s)[l + 1] = NUL
  <2>1. l + 1 \in 1..SH_CMD_MAX /\ ~(l + 1 <= l)
    BY <1>1, <1>7, SizesAssumption
  <2>2. Trimmed(s)[l + 1] = IF l + 1 <= l THEN b[from + (l + 1) - 1]
                        ELSE IF l + 1 \in {l + 1, to + 1} THEN NUL ELSE b[l + 1]
    BY <1>5, <2>1 DEF l
  <2> QED
    BY <2>1, <2>2
<1> QED
  BY <1>7, <1>8, <1>9, <1>10, <1>11, <1>12, <1>13 DEF t

(* Words begin at places of the line. *)
LEMMA StartsFacts ==
    ASSUME NEW m \in Word
    PROVE  /\ WordStarts(m) \in SUBSET (1..Len(m)) /\ WordStarts(m) \in SUBSET (0..Len(m))
           /\ Len(m) \in Nat
           /\ Cardinality(WordStarts(m)) \in Nat /\ Len(Words(m)) = Cardinality(WordStarts(m))
           /\ \A i : Rank(m, i) \in Nat /\ Rank(m, i) <= Cardinality(WordStarts(m))
           /\ Rank(m, 0) = 0 /\ Rank(m, Len(m)) = Cardinality(WordStarts(m))
<1>1. Len(m) \in Nat /\ WordStarts(m) \in SUBSET (1..Len(m))
  BY WordFacts DEF WordStarts
<1>2. WordStarts(m) \in SUBSET (0..Len(m))
  BY <1>1
<1>3. /\ Cardinality(WordStarts(m)) \in Nat
      /\ \A i : Rank(m, i) \in Nat /\ Rank(m, i) <= Cardinality(WordStarts(m))
  BY <1>1, <1>2, UpToFinite DEF Rank
<1>4. UpTo(WordStarts(m), Len(m)) = WordStarts(m) /\ UpTo(WordStarts(m), 0) = {}
  BY <1>1, UpToEnds
<1>5. Rank(m, 0) = 0 /\ Rank(m, Len(m)) = Cardinality(WordStarts(m))
  BY <1>4, FS_EmptySet DEF Rank
<1>6. Len(Words(m)) = Cardinality(WordStarts(m))
  <2> DEFINE starts == Sorted(WordStarts(m))
             c == Cardinality(WordStarts(m))
  <2>1. DOMAIN starts = 1..c
    BY <1>1, <1>2, SortedIsSeq
  <2>2. DOMAIN Words(m) = DOMAIN starts
    BY DEF Words
  <2>3. Words(m) = [k \in DOMAIN Words(m) |-> Words(m)[k]]
    BY DEF Words
  <2> HIDE DEF starts, c
  <2>4. DOMAIN Words(m) = 1..c /\ c \in Nat
    BY <1>3, <2>1, <2>2 DEF c
  <2>5. Words(m) \in Seq({Words(m)[k] : k \in 1..c}) /\ Len(Words(m)) = c
    BY <2>3, <2>4
  <2> QED
    BY <2>5 DEF c
<1> QED
  BY <1>1, <1>2, <1>3, <1>5, <1>6

(* The word that begins at i ends where the first blank follows. *)
LEMMA EndFacts ==
    ASSUME NEW m \in Word, NEW i \in Nat \ {0}, NEW e \in Nat, i <= e, e <= Len(m),
           e = Len(m) \/ Blank(m, e + 1), \A j \in (i + 1)..e : ~Blank(m, j)
    PROVE  WordEnd(m, i) = e
<1> DEFINE S == {j \in i..Len(m) : j = Len(m) \/ Blank(m, j + 1)}
<1>1. Len(m) \in Nat
  BY WordFacts
<1>2. e \in S /\ S \in SUBSET Nat
  BY <1>1
<1>3. Min(S) \in S /\ Min(S) <= e
  BY <1>2, MinExists
<1>4. Min(S) \in i..Len(m) /\ (Min(S) = Len(m) \/ Blank(m, Min(S) + 1))
  BY <1>3
<1>5. WordEnd(m, i) = Min(S)
  BY DEF WordEnd
<1> HIDE DEF S
<1> QED
  BY <1>1, <1>3, <1>4, <1>5

-----------------------------------------------------------------------------
(* One turn of the loop. *)

(* Before the first turn nothing has been read. *)
LEMMA ReadStart ==
    ASSUME NEW s \in Word, Ink(s) # {}, Len(s) < SH_CMD_MAX, ScanStart(s)
    PROVE  ReadTo(Trim(s))'
<1> DEFINE m == Trim(s)
           b == Trimmed(s)
<1>1. /\ m \in Word /\ Ink(m) # {} /\ Len(m) \in Nat \ {0} /\ Len(m) <= Len(s)
      /\ \A i \in 1..Len(m) : b[i] = m[i]
      /\ b[Len(m) + 1] = NUL
  BY TrimShape
<1>2. /\ buf' = b /\ argv' = <<>> /\ src' = 0 /\ dst' = 0
      /\ token_start' = NULL /\ quote' = Unquoted
  BY Zenon DEF ScanStart
<1> HIDE DEF m, b
<1>3. Len(m) < SH_CMD_MAX
  <2>1. Len(s) \in Nat /\ Len(m) \in Nat
    BY <1>1, WordFacts
  <2> QED
    BY <1>1, <2>1, SizesAssumption
<1>4. Open(m)[0] = Unquoted /\ Rank(m, 0) = 0
  BY <1>1, OpenFacts, StartsFacts
<1>5. src' <= Len(m) /\ \A i \in (src' + 1)..Len(m) : buf'[i] = m[i]
  BY <1>1, <1>2
<1>6. Rank(m, src') = Len(argv') + (IF token_start' = NULL THEN 0 ELSE 1)
  <2>1. Len(argv') = 0
    BY <1>2, EmptyFacts, Zenon
  <2> QED
    BY <1>2, <1>4, <2>1
<1>7. \A k \in 1..Len(argv') : Placed(WordOf(m, k), argv[k])'
  <2>1. Len(argv') = 0
    BY <1>2, EmptyFacts, Zenon
  <2> QED
    BY <2>1
<1>8. ReadTo(m)'
  BY <1>1, <1>2, <1>3, <1>4, <1>5, <1>6, <1>7 DEF ReadTo
<1> QED
  BY <1>8 DEF m

(* What the loop has at hand, and the room it has. *)
LEMMA ScanFacts ==
    ASSUME IInv, pc = "scan"
    PROVE  /\ src \in Nat /\ dst \in Nat /\ dst <= src /\ src < SH_CMD_MAX
           /\ buf \in [1..SH_CMD_MAX -> Cell] /\ SH_CMD_MAX \in Nat /\ CMD_ARGV_MAX \in Nat
           /\ argv \in Seq(Nat) /\ Len(argv) \in Nat /\ Len(argv) < CMD_ARGV_MAX
           /\ token_start \in Nat \cup {NULL} /\ quote \in Quotes \cup {Unquoted}
           /\ src + 1 \in 1..SH_CMD_MAX /\ dst + 1 \in 1..SH_CMD_MAX
<1>1. ParserTypes /\ Len(argv) \in Nat
  BY TypeParts, LengthTypes DEF IInv
<1>2. /\ src \in Nat /\ dst \in Nat /\ dst <= src /\ src < SH_CMD_MAX
      /\ SH_CMD_MAX \in Nat /\ CMD_ARGV_MAX \in Nat /\ Len(argv) < CMD_ARGV_MAX
  BY <1>1, SizesAssumption DEF IInv, ScanInv, ParserTypes
<1> QED
  BY <1>1, <1>2 DEF ParserTypes, Buffers, Cell

(* The NUL of the buffer is the end of the segment, and nothing before it is. *)
LEMMA NextCharacter ==
    ASSUME IInv, pc = "scan", NEW m, ReadTo(m), NEW c, c = buf[src + 1]
    PROVE  /\ m \in Word /\ Len(m) \in Nat /\ src \in 0..Len(m)
           /\ c = NUL <=> src = Len(m)
           /\ c # NUL => /\ src + 1 \in 1..Len(m) /\ c = m[src + 1] /\ c \in Char
                         /\ Open(m)[src + 1] = OpenNext(quote, c)
                         /\ Open(m)[src] = quote
<1>1. /\ m \in Word /\ src <= Len(m) /\ buf[Len(m) + 1] = NUL
      /\ \A i \in (src + 1)..Len(m) : buf[i] = m[i]
      /\ quote = Open(m)[src]
  BY DEF ReadTo
<1>2. Len(m) \in Nat /\ \A i \in 1..Len(m) : m[i] \in Char
  BY <1>1, WordFacts
<1>3. src \in Nat /\ src \in 0..Len(m)
  BY <1>1, <1>2, ScanFacts
<1>4. ASSUME src # Len(m) PROVE src + 1 \in 1..Len(m) /\ c = m[src + 1] /\ c \in Char /\ c # NUL
  <2>1. src + 1 \in 1..Len(m) /\ src + 1 \in (src + 1)..Len(m)
    BY <1>1, <1>2, <1>3, <1>4
  <2> QED
    BY <1>1, <1>2, <2>1, NoNul
<1>5. ASSUME src + 1 \in 1..Len(m) PROVE Open(m)[src + 1] = OpenNext(Open(m)[src], m[src + 1])
  <2> DEFINE i == src + 1
  <2>1. i \in 1..Len(m) /\ i - 1 = src
    BY <1>3, <1>5
  <2> HIDE DEF i
  <2>2. Open(m)[i] = OpenNext(Open(m)[i - 1], m[i])
    BY <1>1, <2>1, OpenFacts
  <2> QED
    BY <2>1, <2>2 DEF i
<1> QED
  BY <1>1, <1>2, <1>3, <1>4, <1>5

(* The branches of the loop are what the character means. *)
LEMMA Branches ==
    ASSUME IInv, pc = "scan", NEW m, ReadTo(m), NEW c, c = buf[src + 1], c # NUL
    PROVE  /\ Blank(m, src + 1) <=> Ends(c)
           /\ Mark(m, src + 1) <=> Opens(c) \/ Closes(c)
           /\ Stays(c) <=> ~Blank(m, src + 1) /\ ~Mark(m, src + 1)
           /\ Turn(c) => quote' = Open(m)[src + 1]
<1>1. /\ src \in Nat /\ c = m[src + 1] /\ c \in Char
      /\ Open(m)[src + 1] = OpenNext(quote, c) /\ Open(m)[src] = quote
      /\ quote \in Quotes \cup {Unquoted}
  BY NextCharacter, ScanFacts
<1>2. (src + 1) - 1 = src
  BY <1>1
<1>3. Blank(m, src + 1) <=> c = " " /\ quote = Unquoted
  BY <1>1, <1>2 DEF Blank
<1>4. Mark(m, src + 1) <=> c \in Quotes /\ quote \in {Unquoted, c}
  BY <1>1, <1>2 DEF Mark
<1>5. c # Unquoted /\ Unquoted \notin Quotes
  BY <1>1, NoNul DEF Quotes, Char, Special
<1>6. Mark(m, src + 1) <=> Opens(c) \/ Closes(c)
  BY <1>1, <1>4, <1>5 DEF Opens, Closes
<1>7. Blank(m, src + 1) <=> Ends(c)
  BY <1>3 DEF Ends
<1>8. Turn(c) => quote' = OpenNext(quote, c)
  BY <1>1, <1>5 DEF Turn, Opens, Closes, OpenNext
<1> QED
  BY <1>1, <1>6, <1>7, <1>8 DEF Stays

(* A turn writes nothing but the byte at dst. *)
LEMMA WrittenFacts ==
    ASSUME IInv, pc = "scan", NEW c, Turn(c)
    PROVE  /\ src' = src + 1 /\ dst' \in {dst, dst + 1}
           /\ \A i \in 1..SH_CMD_MAX : i # dst + 1 => buf'[i] = buf[i]
           /\ Cuts(c) => buf'[dst + 1] = NUL /\ dst' = dst + 1
           /\ ~Cuts(c) /\ Stays(c) => buf'[dst + 1] = c /\ dst' = dst + 1
           /\ ~Cuts(c) /\ ~Stays(c) => dst' = dst
<1>1. buf' = Written(c) /\ dst' = Advance(c) /\ src' = src + 1
  BY Zenon DEF Turn
<1>2. buf \in [1..SH_CMD_MAX -> Cell] /\ dst + 1 \in 1..SH_CMD_MAX
  BY ScanFacts
<1>3. \A i \in 1..SH_CMD_MAX : i # dst + 1 => Written(c)[i] = buf[i]
  BY <1>2 DEF Written
<1>4. /\ Cuts(c) => Written(c)[dst + 1] = NUL
      /\ ~Cuts(c) /\ Stays(c) => Written(c)[dst + 1] = c
  BY <1>2 DEF Written
<1> QED
  BY <1>1, <1>3, <1>4 DEF Advance

(* A string that is in place stays: the loop writes behind it. *)
LEMMA PlacedStays ==
    ASSUME IInv, pc = "scan", NEW c, Turn(c), NEW w \in Word, NEW o \in Nat, Placed(w, o)
    PROVE  Placed(w, o)'
<1> DEFINE l == Len(w)
<1>1. /\ dst \in Nat /\ dst' \in {dst, dst + 1} /\ dst + 1 \in 1..SH_CMD_MAX
      /\ SH_CMD_MAX \in Nat /\ \A i \in 1..SH_CMD_MAX : i # dst + 1 => buf'[i] = buf[i]
  BY WrittenFacts, ScanFacts
<1>2. /\ l \in Nat /\ o + l < dst /\ buf[o + l + 1] = NUL
      /\ \A k \in 1..l : buf[o + k] = w[k]
  BY WordFacts DEF Placed
<1> HIDE DEF l
<1>3. o + l < dst' /\ o + l + 1 \in 1..SH_CMD_MAX /\ o + l + 1 # dst + 1
  BY <1>1, <1>2
<1>4. buf'[o + l + 1] = NUL
  BY <1>1, <1>2, <1>3
<1>5. ASSUME NEW k \in 1..l PROVE buf'[o + k] = w[k]
  <2>1. o + k \in 1..SH_CMD_MAX /\ o + k # dst + 1
    BY <1>1, <1>2
  <2> QED
    BY <1>1, <1>2, <2>1
<1> QED
  BY <1>3, <1>4, <1>5 DEF Placed, l

(* One more character of the word that has begun. *)
LEMMA LetterRead ==
    ASSUME IInv, pc = "scan", NEW m, ReadTo(m), NEW c, c = buf[src + 1], c # NUL, Turn(c),
           ~Blank(m, src + 1), NEW i \in Nat \ {0}, i <= src + 1, NEW o \in Nat,
           o + Len(Letters(m, i, src)) = dst,
           \A k \in 1..Len(Letters(m, i, src)) : buf[o + k] = Letters(m, i, src)[k]
    PROVE  /\ o + Len(Letters(m, i, src + 1)) = dst'
           /\ \A k \in 1..Len(Letters(m, i, src + 1)) :
                  buf'[o + k] = Letters(m, i, src + 1)[k]
<1> DEFINE t == Letters(m, i, src)
           u == Letters(m, i, src + 1)
           l == Len(t)
<1>1. /\ m \in Word /\ Len(m) \in Nat /\ src \in 0..Len(m) /\ src + 1 \in 1..Len(m)
      /\ c = m[src + 1]
  BY NextCharacter
<1>2. /\ Stays(c) <=> ~Mark(m, src + 1)
      /\ ~Ends(c)
  BY Branches
<1>3. /\ Mark(m, src + 1) => u = t
      /\ ~Mark(m, src + 1) => /\ Len(u) = l + 1 /\ u[l + 1] = c
                              /\ \A k \in 1..l : u[k] = t[k]
  <2>1. src \in Nat /\ i <= src + 1 /\ src + 1 <= Len(m)
    BY <1>1
  <2> QED
    BY <1>1, <2>1, LettersNext
<1>4. /\ ~Mark(m, src + 1) => buf'[dst + 1] = c /\ dst' = dst + 1
      /\ Mark(m, src + 1) => dst' = dst
      /\ \A p \in 1..SH_CMD_MAX : p # dst + 1 => buf'[p] = buf[p]
  <2>1. ~Cuts(c)
    BY <1>2 DEF Cuts
  <2> QED
    BY <1>2, <2>1, WrittenFacts
<1>5. dst \in Nat /\ SH_CMD_MAX \in Nat /\ dst + 1 \in 1..SH_CMD_MAX
  BY ScanFacts
<1>6. l \in Nat
  <2>1. t \in Word
    BY <1>1, LettersFacts
  <2> HIDE DEF t
  <2> QED
    BY <2>1, WordFacts
<1>7. o + l = dst /\ \A k \in 1..l : buf[o + k] = t[k]
  OBVIOUS
<1>8. o + Len(u) = dst' /\ \A k \in 1..Len(u) : buf'[o + k] = u[k]
  <2> HIDE DEF t, u, l
  <2>1. \A k \in 1..l : buf'[o + k] = t[k]
    <3> SUFFICES ASSUME NEW k \in 1..l PROVE buf'[o + k] = t[k]
      OBVIOUS
    <3>1. o + k \in 1..SH_CMD_MAX /\ o + k # dst + 1
      BY <1>5, <1>6, <1>7
    <3> QED
      BY <1>4, <1>7, <3>1
  <2>2. CASE Mark(m, src + 1)
    BY <1>3, <1>4, <1>7, <2>1, <2>2 DEF l
  <2>3. CASE ~Mark(m, src + 1)
    <3>1. Len(u) = l + 1 /\ o + (l + 1) = dst' /\ dst + 1 = o + (l + 1)
      BY <1>3, <1>4, <1>5, <1>6, <1>7, <2>3
    <3>2. ASSUME NEW k \in 1..(l + 1) PROVE buf'[o + k] = u[k]
      <4>1. k \in 1..l \/ k = l + 1
        BY <1>6
      <4> QED
        BY <1>3, <1>4, <2>1, <2>3, <3>1, <4>1
    <3> QED
      BY <3>1, <3>2
  <2> QED
    BY <2>2, <2>3
<1> QED
  BY <1>8

(* A word that begins in front of the loop, or does not. *)
LEMMA RankNext ==
    ASSUME NEW m \in Word, NEW j \in Nat, j < Len(m)
    PROVE  /\ j + 1 \notin WordStarts(m) => Rank(m, j + 1) = Rank(m, j)
           /\ j + 1 \in WordStarts(m) => Rank(m, j + 1) = Rank(m, j) + 1
<1>1. WordStarts(m) \in SUBSET (0..Len(m)) /\ Len(m) \in Nat
  BY StartsFacts
<1>2. /\ j + 1 \notin WordStarts(m) =>
            UpTo(WordStarts(m), j + 1) = UpTo(WordStarts(m), j)
      /\ j + 1 \in WordStarts(m) =>
            Cardinality(UpTo(WordStarts(m), j + 1)) = Cardinality(UpTo(WordStarts(m), j)) + 1
  BY <1>1, UpToNext
<1> QED
  BY <1>2 DEF Rank

(* The k-th word begins where k words have begun. *)
LEMMA RankedStart ==
    ASSUME NEW m \in Word, NEW i \in WordStarts(m)
    PROVE  Sorted(WordStarts(m))[Rank(m, i)] = i
<1>1. WordStarts(m) \in SUBSET (0..Len(m)) /\ Len(m) \in Nat
  BY StartsFacts
<1> QED
  BY <1>1, SortedRank DEF Rank

LEMMA WordOfFacts ==
    ASSUME NEW m \in Word, NEW k \in 1..Cardinality(WordStarts(m))
    PROVE  WordOf(m, k) \in Word /\ Words(m)[k] = WordOf(m, k)
<1> DEFINE i == Sorted(WordStarts(m))[k]
           S == {j \in i..Len(m) : j = Len(m) \/ Blank(m, j + 1)}
<1>1. /\ WordStarts(m) \in SUBSET (1..Len(m)) /\ WordStarts(m) \in SUBSET (0..Len(m))
      /\ Len(m) \in Nat
  BY StartsFacts
<1>2. i \in WordStarts(m) /\ DOMAIN Sorted(WordStarts(m)) = 1..Cardinality(WordStarts(m))
  BY <1>1, SortedIsSeq
<1>3. Words(m)[k] = Letters(m, i, WordEnd(m, i)) /\ WordOf(m, k) = Letters(m, i, WordEnd(m, i))
  BY <1>2 DEF Words, WordOf
<1>4. WordEnd(m, i) = Min(S)
  BY DEF WordEnd
<1> HIDE DEF i
<1>5. i \in 1..Len(m)
  BY <1>1, <1>2
<1>6. Min(S) \in S
  <2>1. S \in SUBSET Nat /\ Len(m) \in S
    BY <1>1, <1>5
  <2> QED
    BY <2>1, MinExists
<1>7. WordEnd(m, i) \in 0..Len(m) /\ i \in Nat \ {0}
  BY <1>1, <1>4, <1>5, <1>6
<1>8. Letters(m, i, WordEnd(m, i)) \in Word
  BY <1>7, LettersFacts
<1> QED
  BY <1>3, <1>8

(* The arguments so far are words of the line, and stay in place. *)
LEMMA ArgumentsStay ==
    ASSUME IInv, pc = "scan", NEW m, ReadTo(m), NEW c, Turn(c), NEW k \in 1..Len(argv)
    PROVE  Placed(WordOf(m, k), argv[k])'
<1>1. /\ m \in Word /\ Placed(WordOf(m, k), argv[k])
      /\ Rank(m, src) = Len(argv) + (IF token_start = NULL THEN 0 ELSE 1)
  BY DEF ReadTo
<1>2. argv \in Seq(Nat) /\ Len(argv) \in Nat /\ argv[k] \in Nat
  <2>1. argv \in Seq(Nat) /\ Len(argv) \in Nat
    BY ScanFacts
  <2> QED
    BY <2>1, ElementOfSeq
<1>3. k \in 1..Cardinality(WordStarts(m))
  <2>1. Rank(m, src) <= Cardinality(WordStarts(m)) /\ Cardinality(WordStarts(m)) \in Nat
    BY <1>1, StartsFacts
  <2> QED
    BY <1>1, <1>2, <2>1
<1> DEFINE w == WordOf(m, k)
           o == argv[k]
<1>4. w \in Word /\ o \in Nat /\ Placed(w, o)
  BY <1>1, <1>2, <1>3, WordOfFacts
<1>5. argv' = argv \/ argv' = Append(argv, token_start)
  BY Zenon DEF Turn
<1>6. argv'[k] = o
  BY <1>2, <1>5
<1>7. Placed(w, o)'
  <2> HIDE DEF w, o
  <2> SUFFICES ASSUME NEW oo \in Nat, oo = o PROVE Placed(w, oo)'
    BY <1>4, <1>6 DEF o, Placed
  <2> QED
    BY <1>4, PlacedStays
<1> QED
  BY <1>6, <1>7 DEF Placed

(* The word that ends here becomes an argument. *)
LEMMA ArgumentCut ==
    ASSUME IInv, pc = "scan", NEW m, ReadTo(m), NEW c, c = buf[src + 1], Turn(c), Cuts(c)
    PROVE  /\ Len(argv') = Len(argv) + 1 /\ Rank(m, src) = Len(argv) + 1
           /\ \A k \in 1..Len(argv') : Placed(WordOf(m, k), argv[k])'
<1>1. /\ m \in Word /\ Len(m) \in Nat /\ src \in 0..Len(m) /\ src \in Nat
      /\ c = NUL <=> src = Len(m)
  BY NextCharacter
<1>2. token_start # NULL /\ Ends(c)
  BY DEF Cuts
<1>3. PICK i \in WordStarts(m) : i <= src /\ Begun(m, i)
  BY <1>2 DEF ReadTo
<1>4. i \in Nat \ {0}
  BY <1>1, StartsFacts
<1>5. src = Len(m) \/ Blank(m, src + 1)
  BY <1>1, <1>2, Branches
<1>6. WordEnd(m, i) = src
  BY <1>1, <1>3, <1>4, <1>5, EndFacts DEF Begun
<1> DEFINE w == Letters(m, i, src)
           l == Len(argv)
<1>7. /\ l \in Nat /\ argv \in Seq(Nat) /\ token_start \in Nat
      /\ dst \in Nat /\ dst + 1 \in 1..SH_CMD_MAX /\ SH_CMD_MAX \in Nat
  BY <1>2, ScanFacts
<1>8. Rank(m, i) = l + 1 /\ Rank(m, src) = l + 1
  BY <1>2, <1>3 DEF ReadTo, Begun
<1>9. WordOf(m, l + 1) = w
  <2>1. Sorted(WordStarts(m))[l + 1] = i
    BY <1>1, <1>3, <1>8, RankedStart
  <2> QED
    BY <1>6, <2>1 DEF WordOf
<1>10. argv' = Append(argv, token_start) /\ Len(argv') = l + 1 /\ argv'[l + 1] = token_start
  <2>1. argv' = Append(argv, token_start)
    BY DEF Turn
  <2> QED
    BY <1>7, <2>1
<1>11. w \in Word /\ Len(w) \in Nat
  <2>1. w \in Word
    BY <1>1, <1>4, LettersFacts
  <2> HIDE DEF w
  <2> QED
    BY <2>1, WordFacts
<1>12. PICK o \in Nat : o = token_start
  BY <1>7
<1>13. o + Len(w) = dst /\ \A k \in 1..Len(w) : buf[o + k] = w[k]
  BY <1>3, <1>12 DEF Begun
<1> HIDE DEF w
<1>14. /\ dst' = dst + 1 /\ buf'[dst + 1] = NUL
       /\ \A p \in 1..SH_CMD_MAX : p # dst + 1 => buf'[p] = buf[p]
  BY WrittenFacts
<1>15. o + Len(w) < dst' /\ buf'[o + Len(w) + 1] = NUL
  BY <1>7, <1>11, <1>13, <1>14
<1>16. ASSUME NEW k \in 1..Len(w) PROVE buf'[o + k] = w[k]
  <2>1. o + k \in 1..SH_CMD_MAX /\ o + k # dst + 1
    BY <1>7, <1>11, <1>13
  <2> QED
    BY <1>13, <1>14, <2>1
<1>17. ASSUME NEW k \in 1..Len(argv') PROVE Placed(WordOf(m, k), argv[k])'
  <2>1. k \in 1..l \/ k = l + 1
    BY <1>7, <1>10
  <2>2. CASE k \in 1..l
    BY <2>2, ArgumentsStay
  <2>3. CASE k = l + 1
    BY <1>9, <1>10, <1>12, <1>15, <1>16, <2>3 DEF Placed
  <2> QED
    BY <2>1, <2>2, <2>3
<1> QED
  BY <1>8, <1>10, <1>17

(* A turn that does not end the loop. *)
LEMMA ReadTurn ==
    ASSUME IInv, pc = "scan", NEW m, ReadTo(m), NEW c, c = buf[src + 1], c # NUL, Turn(c)
    PROVE  ReadTo(m)'
<1>1. /\ m \in Word /\ Len(m) \in Nat /\ src \in 0..Len(m) /\ src \in Nat
      /\ src + 1 \in 1..Len(m) /\ c = m[src + 1] /\ src < Len(m)
  <2>1. m \in Word /\ Len(m) \in Nat /\ src \in 0..Len(m) /\ src + 1 \in 1..Len(m)
        /\ c = m[src + 1]
    BY NextCharacter
  <2> QED
    BY <2>1
<1>2. /\ dst \in Nat /\ dst <= src /\ SH_CMD_MAX \in Nat /\ argv \in Seq(Nat)
      /\ Len(argv) \in Nat /\ token_start \in Nat \cup {NULL}
      /\ quote \in Quotes \cup {Unquoted}
  BY ScanFacts
<1>3. /\ Ink(m) # {} /\ Len(m) < SH_CMD_MAX
      /\ \A i \in (src + 1)..Len(m) : buf[i] = m[i]
      /\ buf[Len(m) + 1] = NUL /\ quote = Open(m)[src]
      /\ Rank(m, src) = Len(argv) + (IF token_start = NULL THEN 0 ELSE 1)
      /\ token_start = NULL => src = 0 \/ Blank(m, src)
      /\ token_start # NULL => \E i \in WordStarts(m) : i <= src /\ Begun(m, i)
  BY DEF ReadTo
<1>4. /\ Blank(m, src + 1) <=> Ends(c)
      /\ Mark(m, src + 1) <=> Opens(c) \/ Closes(c)
      /\ quote' = Open(m)[src + 1]
  BY Branches
<1>5. /\ src' = src + 1
      /\ \A i \in 1..SH_CMD_MAX : i # dst + 1 => buf'[i] = buf[i]
  BY WrittenFacts
<1>6. /\ argv' = IF Cuts(c) THEN Append(argv, token_start) ELSE argv
      /\ token_start' = IF Ends(c) THEN NULL
                        ELSE IF ~Closes(c) /\ token_start = NULL THEN dst
                        ELSE token_start
  BY Zenon DEF Turn
<1>7. /\ src' <= Len(m) /\ buf'[Len(m) + 1] = NUL
      /\ \A i \in (src' + 1)..Len(m) : buf'[i] = m[i]
  <2>1. src + 1 <= Len(m) /\ Len(m) + 1 \in 1..SH_CMD_MAX /\ Len(m) + 1 # dst + 1
    BY <1>1, <1>2, <1>3
  <2>2. ASSUME NEW i \in (src + 1 + 1)..Len(m) PROVE buf'[i] = m[i]
    <3>1. i \in (src + 1)..Len(m) /\ i \in 1..SH_CMD_MAX /\ i # dst + 1
      BY <1>1, <1>2, <1>3
    <3> QED
      BY <1>3, <1>5, <3>1
  <2> QED
    BY <1>3, <1>5, <2>1, <2>2
<1>8. ASSUME ~Ends(c), token_start = NULL
      PROVE  quote = Unquoted /\ src + 1 \in WordStarts(m)
  <2>1. src = 0 \/ Blank(m, src)
    BY <1>3, <1>8
  <2>2. quote = Unquoted
    <3>1. CASE src = 0
      BY <1>1, <1>3, <3>1, OpenFacts
    <3>2. CASE src # 0 /\ Blank(m, src)
      <4>1. src \in 1..Len(m)
        BY <1>1, <3>2
      <4>2. Open(m)[src] = OpenNext(Open(m)[src - 1], m[src])
        BY <1>1, <4>1, OpenFacts
      <4>3. m[src] = " " /\ Open(m)[src - 1] = Unquoted /\ " " \notin Quotes /\ " " # Unquoted
        BY <3>2 DEF Blank, Quotes, Unquoted
      <4> QED
        BY <1>3, <4>2, <4>3 DEF OpenNext
    <3> QED
      BY <2>1, <3>1, <3>2
  <2>3. (src + 1) - 1 = src /\ src + 1 \in DOMAIN m
    <3>1. DOMAIN m = 1..Len(m)
      BY <1>1, WordFacts
    <3> QED
      BY <1>1, <3>1
  <2>4. src + 1 = 1 \/ Blank(m, (src + 1) - 1)
    BY <1>1, <2>1, <2>3
  <2> QED
    BY <1>4, <1>8, <2>2, <2>3, <2>4 DEF WordStarts
<1>9. CASE Ends(c)
  <2>1. src + 1 \notin WordStarts(m)
    BY <1>4, <1>9 DEF WordStarts
  <2>2. Rank(m, src + 1) = Rank(m, src)
    BY <1>1, <2>1, RankNext
  <2>3. token_start' = NULL
    BY <1>6, <1>9
  <2>4. /\ Rank(m, src + 1) = Len(argv')
        /\ \A k \in 1..Len(argv') : Placed(WordOf(m, k), argv[k])'
    <3>1. CASE token_start = NULL
      <4>1. argv' = argv
        BY <1>6, <3>1 DEF Cuts
      <4> QED
        BY <1>2, <1>3, <2>2, <3>1, <4>1, ArgumentsStay
    <3>2. CASE token_start # NULL
      <4>1. Cuts(c)
        BY <1>9, <3>2 DEF Cuts
      <4>2. /\ Len(argv') = Len(argv) + 1 /\ Rank(m, src) = Len(argv) + 1
            /\ \A k \in 1..Len(argv') : Placed(WordOf(m, k), argv[k])'
        BY <4>1, ArgumentCut
      <4> QED
        BY <2>2, <4>2
    <3> QED
      BY <3>1, <3>2
  <2>5. Rank(m, src)' = Len(argv') + (IF token_start' = NULL THEN 0 ELSE 1)
    <3>1. Rank(m, src') = Len(argv') /\ Len(argv') \in Nat
      <4>1. Rank(m, src + 1) \in Nat
        BY <1>1, StartsFacts
      <4> QED
        BY <1>5, <2>4, <4>1
    <3> QED
      BY <2>3, <3>1 DEF Rank
  <2>6. Blank(m, src')
    BY <1>4, <1>5, <1>9
  <2> QED
    BY <1>1, <1>3, <1>4, <1>5, <1>7, <2>3, <2>4, <2>5, <2>6 DEF ReadTo
<1>10. CASE ~Ends(c)
  <2>1. argv' = argv /\ ~Cuts(c) /\ ~Blank(m, src + 1)
    BY <1>4, <1>6, <1>10 DEF Cuts
  <2>2. \A k \in 1..Len(argv') : Placed(WordOf(m, k), argv[k])'
    BY <2>1, ArgumentsStay
  <2>3. PICK i \in WordStarts(m), o \in Nat :
          /\ i <= src + 1 /\ Rank(m, i) = Len(argv) + 1 /\ Rank(m, src + 1) = Len(argv) + 1
          /\ \A j \in (i + 1)..(src + 1) : ~Blank(m, j)
          /\ token_start' = o
          /\ o + Len(Letters(m, i, src)) = dst
          /\ \A k \in 1..Len(Letters(m, i, src)) : buf[o + k] = Letters(m, i, src)[k]
    <3>1. CASE token_start = NULL
      <4>1. quote = Unquoted /\ src + 1 \in WordStarts(m)
        BY <1>8, <1>10, <3>1
      <4>2. token_start' = dst
        BY <1>6, <1>10, <3>1, <4>1 DEF Closes
      <4>3. Rank(m, src + 1) = Len(argv) + 1
        <5>1. Rank(m, src + 1) = Rank(m, src) + 1
          BY <1>1, <4>1, RankNext
        <5> QED
          BY <1>2, <1>3, <3>1, <5>1
      <4>4. Letters(m, src + 1, src) = <<>>
        <5>1. src + 1 \in Nat \ {0} /\ src < src + 1
          BY <1>1
        <5> QED
          BY <1>1, <5>1, LettersFacts
      <4>5. Len(Letters(m, src + 1, src)) = 0
        BY <4>4, EmptyFacts, Zenon
      <4>6. \A j \in ((src + 1) + 1)..(src + 1) : ~Blank(m, j)
        BY <1>1
      <4>7. \A k \in 1..Len(Letters(m, src + 1, src)) :
                buf[dst + k] = Letters(m, src + 1, src)[k]
        BY <4>5
      <4> DEFINE i == src + 1
      <4>8. i <= src + 1 /\ dst + Len(Letters(m, i, src)) = dst
        BY <1>1, <1>2, <4>5
      <4> QED
        BY <1>2, <4>1, <4>2, <4>3, <4>6, <4>7, <4>8
    <3>2. CASE token_start # NULL
      <4>1. PICK i \in WordStarts(m) : i <= src /\ Begun(m, i)
        BY <1>3, <3>2
      <4>2. i \in Nat \ {0} /\ i <= src + 1
        BY <1>1, <4>1, StartsFacts
      <4>3. src + 1 \notin WordStarts(m)
        <5>1. ~Blank(m, src)
          <6>1. CASE i = src
            BY <4>1, <6>1 DEF WordStarts
          <6>2. CASE i # src
            <7>1. src \in (i + 1)..src
              BY <1>1, <4>1, <4>2, <6>2
            <7> QED
              BY <4>1, <7>1 DEF Begun
          <6> QED
            BY <6>1, <6>2
        <5>2. src + 1 # 1 /\ (src + 1) - 1 = src
          BY <1>1, <4>1, <4>2
        <5> QED
          BY <5>1, <5>2 DEF WordStarts
      <4>4. Rank(m, src + 1) = Len(argv) + 1
        <5>1. Rank(m, src + 1) = Rank(m, src)
          BY <1>1, <4>3, RankNext
        <5> QED
          BY <1>3, <3>2, <5>1
      <4>5. token_start \in Nat /\ token_start' = token_start
        BY <1>2, <1>6, <1>10, <3>2
      <4>6. ASSUME NEW j \in (i + 1)..(src + 1) PROVE ~Blank(m, j)
        <5>1. j \in (i + 1)..src \/ j = src + 1
          BY <1>1, <4>2
        <5> QED
          BY <2>1, <4>1, <5>1 DEF Begun
      <4>7. /\ Rank(m, i) = Len(argv) + 1
            /\ token_start + Len(Letters(m, i, src)) = dst
            /\ \A k \in 1..Len(Letters(m, i, src)) :
                   buf[token_start + k] = Letters(m, i, src)[k]
        BY <4>1 DEF Begun
      <4>8. PICK o \in Nat : o = token_start
        BY <4>5
      <4> QED
        BY <4>2, <4>4, <4>5, <4>6, <4>7, <4>8
    <3> QED
      BY <3>1, <3>2
  <2>4. i \in Nat \ {0}
    BY <1>1, StartsFacts
  <2>5. /\ o + Len(Letters(m, i, src + 1)) = dst'
        /\ \A k \in 1..Len(Letters(m, i, src + 1)) : buf'[o + k] = Letters(m, i, src + 1)[k]
    BY <2>1, <2>3, <2>4, LetterRead
  <2>6. Begun(m, i)'
    BY <1>5, <2>1, <2>3, <2>5 DEF Begun, Rank
  <2>7. token_start' # NULL
    BY <2>3 DEF NULL
  <2>8. Rank(m, src)' = Len(argv') + (IF token_start' = NULL THEN 0 ELSE 1)
    BY <1>5, <2>1, <2>3, <2>7 DEF Rank
  <2>9. i <= src'
    BY <1>5, <2>3
  <2> QED
    BY <1>1, <1>3, <1>4, <1>5, <1>7, <2>2, <2>3, <2>6, <2>7, <2>8, <2>9 DEF ReadTo
<1> QED
  BY <1>9, <1>10

(* The strings of a command whose arguments are in place. *)
LEMMA StringsOf ==
    ASSUME NEW m \in Word, NEW b, NEW a \in Seq(Nat), Len(a) = Cardinality(WordStarts(m)),
           \A k \in 1..Len(a) : StringAt(b, a[k]) = WordOf(m, k)
    PROVE  Strings([buf |-> b, argv |-> a]) = Words(m)
<1> DEFINE l == Len(a)
           C == [buf |-> b, argv |-> a]
<1>1. DOMAIN a = 1..l /\ C.buf = b /\ C.argv = a
  BY LenProperties
<1>2. DOMAIN Sorted(WordStarts(m)) = 1..l
  BY StartsFacts, SortedIsSeq
<1>3. DOMAIN Words(m) = 1..l /\ Words(m) = [k \in DOMAIN Words(m) |-> Words(m)[k]]
  BY <1>2 DEF Words
<1>4. \A k \in 1..l : Words(m)[k] = WordOf(m, k)
  BY WordOfFacts
<1>5. DOMAIN Strings(C) = 1..l /\ Strings(C) = [k \in DOMAIN Strings(C) |-> Strings(C)[k]]
  BY <1>1 DEF Strings
<1>6. \A k \in 1..l : Strings(C)[k] = StringAt(b, a[k])
  BY <1>1 DEF Strings
<1> HIDE DEF C, l
<1>7. \A k \in 1..l : Strings(C)[k] = Words(m)[k]
  BY <1>4, <1>6 DEF l
<1>8. Strings(C) = Words(m)
  BY <1>3, <1>5, <1>7
<1> QED
  BY <1>8 DEF C

(* When the loop meets the NUL all of the words are arguments. *)
LEMMA ReadEnd ==
    ASSUME IInv, pc = "scan", NEW m, ReadTo(m), buf[src + 1] = NUL, Turn(NUL),
           Refusal(NUL) = OK
    PROVE  Strings([buf |-> buf', argv |-> argv']) = Words(m)
<1>1. /\ m \in Word /\ Len(m) \in Nat /\ src = Len(m) /\ Len(m) < SH_CMD_MAX
      /\ Rank(m, src) = Len(argv) + (IF token_start = NULL THEN 0 ELSE 1)
  BY NextCharacter DEF ReadTo
<1>2. Rank(m, src) = Cardinality(WordStarts(m))
  BY <1>1, StartsFacts
<1>3. Len(argv) \in Nat /\ SH_CMD_MAX \in Nat
  BY ScanFacts
<1>4. Len(argv') = Rank(m, src) /\ \A k \in 1..Len(argv') : Placed(WordOf(m, k), argv[k])'
  <2>1. CASE Cuts(NUL)
    BY <2>1, ArgumentCut
  <2>2. CASE ~Cuts(NUL)
    <3>1. argv' = argv
      BY <2>2 DEF Turn
    <3>2. token_start = NULL
      BY <2>2 DEF Cuts, Ends
    <3>3. \A k \in 1..Len(argv) : Placed(WordOf(m, k), argv[k])'
      BY ArgumentsStay
    <3> QED
      BY <1>1, <1>3, <3>1, <3>2, <3>3
  <2> QED
    BY <2>1, <2>2
<1>5. buf' \in Buffers /\ argv' \in Seq(Nat) /\ dst' \in Nat /\ dst' <= src'
  BY TurnFacts
<1>6. src' = src + 1
  BY WrittenFacts
<1>7. dst' <= SH_CMD_MAX
  BY <1>1, <1>3, <1>5, <1>6
<1>8. ASSUME NEW k \in 1..Len(argv') PROVE StringAt(buf', argv'[k]) = WordOf(m, k)
  <2> DEFINE w == WordOf(m, k)
  <2>1. w \in Word
    BY <1>1, <1>2, <1>4, WordOfFacts
  <2>2. argv'[k] \in Nat
    BY <1>5, ElementOfSeq
  <2>3. /\ argv'[k] + Len(w) < dst' /\ buf'[argv'[k] + Len(w) + 1] = NUL
        /\ \A j \in 1..Len(w) : buf'[argv'[k] + j] = w[j]
    BY <1>4 DEF Placed
  <2>4. Len(w) \in Nat
    BY <2>1, WordFacts
  <2> HIDE DEF w
  <2>5. argv'[k] + Len(w) < SH_CMD_MAX
    BY <1>3, <1>5, <1>7, <2>2, <2>3, <2>4
  <2>6. PICK o \in Nat, b \in Buffers : o = argv'[k] /\ b = buf'
    BY <1>5, <2>2
  <2>7. StringAt(b, o) = w
    BY <2>1, <2>3, <2>5, <2>6, StringFacts
  <2> QED
    BY <2>6, <2>7 DEF w
<1>9. PICK a \in Seq(Nat), b \in Buffers : a = argv' /\ b = buf'
  BY <1>5
<1>10. Strings([buf |-> b, argv |-> a]) = Words(m)
  BY <1>1, <1>2, <1>4, <1>8, <1>9, StringsOf
<1> QED
  BY <1>9, <1>10

LEMMA InkPlaces ==
    ASSUME NEW m \in Word, Ink(m) # {}
    PROVE  1 \in DOMAIN m
<1>1. DOMAIN m = 1..Len(m) /\ Len(m) \in Nat
  BY WordFacts
<1>2. PICK i \in DOMAIN m : TRUE
  BY DEF Ink
<1>3. i \in 1..Len(m)
  BY <1>1, <1>2
<1>4. 1 \in 1..Len(m)
  BY <1>1, <1>3
<1> QED
  BY <1>1, <1>4

(* A segment that begins with no blank has a word that begins there. *)
LEMMA FirstWord ==
    ASSUME NEW m \in Word, Ink(m) # {}, m[1] # " "
    PROVE  1 \in WordStarts(m)
  BY InkPlaces DEF WordStarts, Blank

(* Why the loop may return an error: numbers only. *)
LEMMA FullArgv ==
    ASSUME NEW c, ArgvFull(c), Len(argv) \in Nat, CMD_ARGV_MAX \in Nat,
           NEW r \in Nat, NEW w \in Nat, r <= w,
           r = Len(argv) + (IF token_start = NULL THEN 0 ELSE 1)
    PROVE  w >= CMD_ARGV_MAX
<1>1. token_start # NULL /\ Len(argv) >= CMD_ARGV_MAX - 1
  BY DEF ArgvFull, Cuts
<1>2. r = Len(argv) + 1
  BY <1>1
<1> HIDE DEF NULL
<1> QED
  BY <1>1, <1>2

LEMMA FullBuffer ==
    ASSUME NEW c, NEW l \in Nat, src \in Nat, src < l, l < SH_CMD_MAX, SH_CMD_MAX \in Nat,
           dst \in Nat, dst <= src, Advance(c) >= SH_CMD_MAX - 1
    PROVE  l = SH_CMD_MAX - 1
<1>1. Advance(c) \in Nat /\ Advance(c) <= dst + 1
  BY DEF Advance
<1> DEFINE v == Advance(c)
<1> HIDE DEF v
<1>2. v \in Nat /\ v <= dst + 1 /\ v >= SH_CMD_MAX - 1
  BY <1>1 DEF v
<1> QED
  BY <1>2

LEMMA NoneRead ==
    ASSUME NEW m \in Word, 1 \in WordStarts(m), Rank(m, Len(m)) = 0
    PROVE  FALSE
<1>1. WordStarts(m) \in SUBSET (0..Len(m)) /\ Len(m) \in Nat
  BY StartsFacts, WordFacts
<1>2. IsFiniteSet(WordStarts(m))
  BY <1>1, UpToFinite
<1>3. Cardinality(WordStarts(m)) = 0
  BY StartsFacts
<1> QED
  BY <1>2, <1>3, FS_EmptySet

LEMMA ReadRefusal ==
    ASSUME IInv, pc = "scan", NEW m, ReadTo(m), NEW c, c = buf[src + 1], Refusal(c) # OK,
           1 \in WordStarts(m)
    PROVE  \/ Refusal(c) = ERR_CMD_ARGS_BAD /\ stage = "P1" /\ Open(m)[Len(m)] # Unquoted
           \/ /\ Refusal(c) = ERR_CMD_OR_ARGS_TOO_BIG
              /\ Len(Words(m)) >= CMD_ARGV_MAX \/ Len(m) = SH_CMD_MAX - 1
<1>1. /\ m \in Word /\ Len(m) \in Nat /\ src \in 0..Len(m)
      /\ c = NUL <=> src = Len(m)
  BY NextCharacter
<1>2. /\ Len(m) < SH_CMD_MAX /\ quote = Open(m)[src]
      /\ Rank(m, src) = Len(argv) + (IF token_start = NULL THEN 0 ELSE 1)
  BY DEF ReadTo
<1>3. /\ dst \in Nat /\ dst <= src /\ SH_CMD_MAX \in Nat /\ CMD_ARGV_MAX \in Nat
      /\ argv \in Seq(Nat) /\ Len(argv) \in Nat
  BY ScanFacts
<1>4. CASE c = NUL /\ quote # Unquoted /\ stage = "P1"
  BY <1>1, <1>2, <1>4 DEF Refusal
<1>5. ASSUME ArgvFull(c) PROVE Len(Words(m)) >= CMD_ARGV_MAX
  <2>1. /\ Rank(m, src) <= Cardinality(WordStarts(m)) /\ Cardinality(WordStarts(m)) \in Nat
        /\ Len(Words(m)) = Cardinality(WordStarts(m)) /\ Rank(m, src) \in Nat
    BY <1>1, StartsFacts
  <2> DEFINE r == Rank(m, src)
             w == Len(Words(m))
  <2>2. /\ r \in Nat /\ w \in Nat /\ r <= w
        /\ r = Len(argv) + (IF token_start = NULL THEN 0 ELSE 1)
    BY <1>2, <2>1
  <2> HIDE DEF r, w
  <2>3. w >= CMD_ARGV_MAX
    BY <1>3, <1>5, <2>2, FullArgv
  <2> QED
    BY <2>3 DEF w
<1>6. ASSUME c # NUL, Advance(c) >= SH_CMD_MAX - 1 PROVE Len(m) = SH_CMD_MAX - 1
  <2> DEFINE l == Len(m)
  <2>1. l \in Nat /\ src \in Nat /\ src < l /\ l < SH_CMD_MAX
    BY <1>1, <1>2, <1>6
  <2> HIDE DEF l
  <2>2. l = SH_CMD_MAX - 1
    BY <1>3, <1>6, <2>1, FullBuffer
  <2> QED
    BY <2>2 DEF l
<1>7. ASSUME c = NUL PROVE ~(argv = <<>> /\ token_start = NULL)
  <2> SUFFICES ASSUME argv = <<>>, token_start = NULL PROVE FALSE
    OBVIOUS
  <2>1. Len(argv) = 0
    BY EmptyFacts, Zenon
  <2>2. Rank(m, src) = 0
    BY <1>2, <2>1
  <2>3. src = Len(m)
    BY <1>1, <1>7, Zenon
  <2>4. Rank(m, Len(m)) = 0
    BY <2>2, <2>3, Zenon
  <2> QED
    BY <1>1, <2>4, NoneRead
<1>8. CASE ~(c = NUL /\ quote # Unquoted /\ stage = "P1")
  <2>1. ArgvFull(c) \/ (c # NUL /\ Advance(c) >= SH_CMD_MAX - 1)
    BY <1>7, <1>8, Zenon DEF Refusal
  <2>2. Refusal(c) = ERR_CMD_OR_ARGS_TOO_BIG
    BY <1>8, <2>1, Zenon DEF Refusal
  <2> QED
    BY <1>5, <1>6, <2>1, <2>2
<1> QED
  BY <1>4, <1>8

-----------------------------------------------------------------------------
(* The segments of a line. *)

LEMMA PipeFacts ==
    ASSUME NEW s \in Word
    PROVE  /\ Len(s) \in Nat /\ Pipes(s) \in SUBSET (1..Len(s)) /\ Pipes(s) \in SUBSET (0..Len(s))
           /\ Cardinality(Pipes(s)) \in Nat
           /\ \A p : /\ Cardinality(UpTo(Pipes(s), p)) \in Nat
                    /\ Cardinality(UpTo(Pipes(s), p)) <= Cardinality(Pipes(s))
           /\ Cardinality(UpTo(Pipes(s), 0)) = 0
           /\ Cardinality(UpTo(Pipes(s), Len(s))) = Cardinality(Pipes(s))
<1>1. Len(s) \in Nat /\ Pipes(s) \in SUBSET (1..Len(s))
  BY WordFacts DEF Pipes
<1>2. Pipes(s) \in SUBSET (0..Len(s)) /\ UpTo(Pipes(s), Len(s)) = Pipes(s)
      /\ UpTo(Pipes(s), 0) = {}
  BY <1>1, UpToEnds
<1> QED
  BY <1>1, <1>2, UpToFinite, FS_EmptySet

LEMMA BoundsFacts ==
    ASSUME NEW s \in Word, NEW c, c = Cardinality(Pipes(s))
    PROVE  /\ c \in Nat /\ Len(Bounds(s)) = c + 2 /\ Bounds(s) \in Seq(0..(Len(s) + 1))
           /\ Bounds(s)[1] = 0 /\ Bounds(s)[c + 2] = Len(s) + 1
           /\ \A k \in 1..c : Bounds(s)[k + 1] = Sorted(Pipes(s))[k]
<1> DEFINE N == 0..(Len(s) + 1)
           a == <<0>>
           b == Sorted(Pipes(s))
           d == <<Len(s) + 1>>
           ab == a \o b
<1>1. Len(s) \in Nat /\ Pipes(s) \in SUBSET (0..Len(s)) /\ Pipes(s) \subseteq N /\ c \in Nat
  BY PipeFacts
<1>2. b \in Seq(Pipes(s)) /\ Len(b) = c
  BY <1>1, SortedIsSeq
<1>3. b \in Seq(N)
  BY <1>1, <1>2, SeqMonotonic
<1>4. /\ a \in Seq(N) /\ Len(a) = 1 /\ a[1] = 0
      /\ d \in Seq(N) /\ Len(d) = 1 /\ d[1] = Len(s) + 1
  BY <1>1
<1>5. Bounds(s) = ab \o d
  BY DEF Bounds
<1> HIDE DEF a, b, d, N
<1>6. /\ ab \in Seq(N) /\ Len(ab) = c + 1
      /\ \A i \in 1..(1 + c) : ab[i] = IF i <= 1 THEN a[i] ELSE b[i - 1]
  <2>1. /\ a \o b \in Seq(N) /\ Len(a \o b) = Len(a) + Len(b)
        /\ \A i \in 1..Len(a) + Len(b) :
              (a \o b)[i] = IF i <= Len(a) THEN a[i] ELSE b[i - Len(a)]
    <3>1. a \in Seq(N) /\ b \in Seq(N)
      BY <1>3, <1>4
    <3> HIDE DEF ab
    <3> QED
      BY <3>1, ConcatProperties
  <2> QED
    BY <1>1, <1>2, <1>4, <2>1
<1> HIDE DEF ab
<1>7. /\ ab \o d \in Seq(N) /\ Len(ab \o d) = (c + 1) + 1
      /\ \A i \in 1..((c + 1) + 1) : (ab \o d)[i] = IF i <= c + 1 THEN ab[i] ELSE d[i - (c + 1)]
  <2>1. /\ ab \o d \in Seq(N) /\ Len(ab \o d) = Len(ab) + Len(d)
        /\ \A i \in 1..Len(ab) + Len(d) :
              (ab \o d)[i] = IF i <= Len(ab) THEN ab[i] ELSE d[i - Len(ab)]
    BY <1>4, <1>6, ConcatProperties
  <2> QED
    BY <1>4, <1>6, <2>1
<1> DEFINE w == ab \o d
<1> HIDE DEF w
<1>8. /\ w \in Seq(N) /\ Len(w) = c + 2
      /\ \A i \in 1..(c + 2) : w[i] = IF i <= c + 1 THEN ab[i] ELSE d[i - (c + 1)]
  BY <1>1, <1>7 DEF w
<1>9. w[1] = 0
  BY <1>1, <1>4, <1>6, <1>8
<1>10. w[c + 2] = Len(s) + 1
  <2>1. c + 2 \in 1..(c + 2) /\ ~(c + 2 <= c + 1) /\ (c + 2) - (c + 1) = 1
    BY <1>1
  <2> QED
    BY <1>4, <1>8, <2>1
<1>11. ASSUME NEW k \in 1..c PROVE w[k + 1] = b[k]
  <2>1. /\ k + 1 \in 1..(c + 2) /\ k + 1 <= c + 1 /\ k + 1 \in 1..(1 + c)
        /\ ~(k + 1 <= 1) /\ (k + 1) - 1 = k
    BY <1>1
  <2> QED
    BY <1>6, <1>8, <2>1
<1> QED
  BY <1>1, <1>5, <1>8, <1>9, <1>10, <1>11 DEF w, b, N

(* Every segment is a trimmed part of the line. *)
LEMMA SegmentsFacts ==
    ASSUME NEW s \in Word, NEW c, c = Cardinality(Pipes(s))
    PROVE  /\ DOMAIN Segments(s) = 1..(c + 1) /\ Len(Segments(s)) = c + 1 /\ c \in Nat
           /\ \A k \in 1..(c + 1) :
                /\ Bounds(s)[k] \in 0..(Len(s) + 1) /\ Bounds(s)[k + 1] \in 0..(Len(s) + 1)
                /\ Segments(s)[k] = Trim(SubSeq(s, Bounds(s)[k] + 1, Bounds(s)[k + 1] - 1))
<1>1. c \in Nat /\ Len(Bounds(s)) = c + 2 /\ Bounds(s) \in Seq(0..(Len(s) + 1))
  BY BoundsFacts
<1>2. \A k \in 1..(c + 2) : Bounds(s)[k] \in 0..(Len(s) + 1)
  BY <1>1, ElementOfSeq
<1>3. \A k \in 1..(c + 1) : k \in 1..(c + 2) /\ k + 1 \in 1..(c + 2)
  BY <1>1
<1>4. Len(Bounds(s)) - 1 = c + 1
  BY <1>1
<1>5. /\ DOMAIN Segments(s) = 1..(c + 1)
      /\ Segments(s) = [k \in DOMAIN Segments(s) |-> Segments(s)[k]]
      /\ \A k \in 1..(c + 1) :
            Segments(s)[k] = Trim(SubSeq(s, Bounds(s)[k] + 1, Bounds(s)[k + 1] - 1))
  BY <1>4 DEF Segments
<1>6. Len(Segments(s)) = c + 1
  <2> DEFINE t == Segments(s)
  <2> HIDE DEF t
  <2>1. t \in Seq({t[k] : k \in 1..(c + 1)}) /\ Len(t) = c + 1
    BY <1>1, <1>5 DEF t
  <2> QED
    BY <2>1 DEF t
<1> QED
  BY <1>1, <1>2, <1>3, <1>5, <1>6

LEMMA BoundOf ==
    ASSUME NEW s \in Word, NEW p \in {0} \cup Pipes(s),
           NEW c, c = Cardinality(UpTo(Pipes(s), p))
    PROVE  c \in Nat /\ c <= Cardinality(Pipes(s)) /\ Bounds(s)[c + 1] = p /\ p \in 0..Len(s)
<1>1. /\ c \in Nat /\ c <= Cardinality(Pipes(s)) /\ Pipes(s) \in SUBSET (0..Len(s))
      /\ Len(s) \in Nat /\ Cardinality(UpTo(Pipes(s), 0)) = 0
  BY PipeFacts
<1>2. CASE p = 0
  BY <1>1, <1>2, BoundsFacts
<1>3. CASE p \in Pipes(s)
  <2>1. c \in 1..Cardinality(Pipes(s)) /\ Sorted(Pipes(s))[c] = p
    BY <1>1, <1>3, SortedRank
  <2>2. Bounds(s)[c + 1] = Sorted(Pipes(s))[c]
    BY <2>1, BoundsFacts
  <2> QED
    BY <1>1, <1>3, <2>1, <2>2
<1> QED
  BY <1>2, <1>3

LEMMA SliceFacts ==
    ASSUME NEW s \in Word, NEW i \in Nat \ {0}, NEW j \in 0..Len(s)
    PROVE  /\ SubSeq(s, i, j) \in Seq(Char)
           /\ Len(SubSeq(s, i, j)) = (IF i <= j THEN j - i + 1 ELSE 0)
           /\ \A k \in 1..(j - i + 1) : SubSeq(s, i, j)[k] = s[i + k - 1]
<1>1. Len(s) \in Nat /\ \A k \in 1..Len(s) : s[k] \in Char
  BY WordFacts
<1>2. i \in Int /\ j \in Int /\ \A k \in i..j : k \in 1..Len(s)
  BY <1>1
<1>3. \A k \in i..j : s[k] \in Char
  BY <1>1, <1>2
<1> QED
  BY <1>2, <1>3, SubSeqProperties

(* A part of what follows place p is a part of the line. *)
LEMMA PartOfRest ==
    ASSUME NEW s \in Word, NEW p \in 0..Len(s), NEW r, r = SubSeq(s, p + 1, Len(s))
    PROVE  /\ r \in Word /\ Len(r) = Len(s) - p /\ Len(r) \in Nat
           /\ \A i \in 1..Len(r) : r[i] = s[p + i]
           /\ \A i \in Nat \ {0} : \A j \in 0..Len(r) :
                 SubSeq(r, i, j) = SubSeq(s, p + i, p + j)
<1>1. Len(s) \in Nat /\ \A i \in 1..Len(s) : s[i] \in Char
  BY WordFacts
<1>2. /\ r \in Seq(Char) /\ Len(r) = Len(s) - p
      /\ \A i \in 1..Len(r) : r[i] = s[p + i]
  <2> DEFINE f == p + 1
             l == Len(s)
  <2>1. /\ f \in Int /\ l \in Int /\ \A i \in f..l : s[i] \in Char
        /\ (IF f <= l THEN l - f + 1 ELSE 0) = l - p /\ l - f + 1 = l - p
        /\ \A i \in 1..(l - p) : f + i - 1 = p + i
    BY <1>1
  <2>2. r = SubSeq(s, f, l)
    OBVIOUS
  <2> HIDE DEF f, l
  <2>3. /\ SubSeq(s, f, l) \in Seq(Char)
        /\ Len(SubSeq(s, f, l)) = IF f <= l THEN l - f + 1 ELSE 0
        /\ \A i \in 1..(l - f + 1) : SubSeq(s, f, l)[i] = s[f + i - 1]
    BY <2>1, SubSeqProperties
  <2>4. r \in Seq(Char) /\ Len(r) = l - p /\ \A i \in 1..(l - p) : r[i] = s[p + i]
    BY <2>1, <2>2, <2>3
  <2> QED
    BY <2>4 DEF l
<1>3. r \in Word /\ Len(r) \in Nat
  BY <1>1, <1>2 DEF Word
<1>4. ASSUME NEW i \in Nat \ {0}, NEW j \in 0..Len(r)
      PROVE  SubSeq(r, i, j) = SubSeq(s, p + i, p + j)
  <2> DEFINE f == p + i
             t == p + j
             x == SubSeq(r, i, j)
             y == SubSeq(s, f, t)
             l == j - i + 1
  <2>1. /\ f \in Nat \ {0} /\ t \in 0..Len(s) /\ (f <= t <=> i <= j) /\ t - f + 1 = l
        /\ \A k \in 1..l : f + k - 1 = p + (i + k - 1) /\ i + k - 1 \in 1..Len(r)
    BY <1>1, <1>2
  <2>2. /\ x \in Seq(Char) /\ Len(x) = (IF i <= j THEN j - i + 1 ELSE 0)
        /\ \A k \in 1..(j - i + 1) : x[k] = r[i + k - 1]
    BY <1>3, SliceFacts
  <2>3. /\ x \in Seq(Char) /\ Len(x) = (IF i <= j THEN l ELSE 0)
        /\ \A k \in 1..l : x[k] = r[i + k - 1]
    BY <2>2
  <2> HIDE DEF f, t
  <2>4. /\ y \in Seq(Char) /\ Len(y) = (IF f <= t THEN t - f + 1 ELSE 0)
        /\ \A k \in 1..(t - f + 1) : y[k] = s[f + k - 1]
    BY <2>1, SliceFacts
  <2> HIDE DEF x, y
  <2>5. Len(x) = Len(y) /\ \A k \in 1..Len(x) : k \in 1..l
    BY <2>1, <2>3, <2>4
  <2>6. \A k \in 1..l : x[k] = y[k]
    BY <1>2, <2>1, <2>3, <2>4
  <2>7. x = y
    BY <2>3, <2>4, <2>5, <2>6, SeqEqual
  <2> QED
    BY <2>7 DEF x, y, f, t
<1> QED
  BY <1>2, <1>3, <1>4

(* What is left of the line after a cut begins with the next segment. *)
LEMMA NextCut ==
    ASSUME NEW s \in Word, NEW r, NEW count, CutOff(s, r, count)
    PROVE  /\ r \in Word /\ Len(r) <= Len(s)
           /\ count \in Nat /\ count <= Cardinality(Pipes(s))
           /\ FirstSegment(r) = Segments(s)[count + 1]
           /\ Pipes(r) = {} => Cardinality(Pipes(s)) = count
           /\ Pipes(r) # {} => CutOff(s, SubSeq(r, CutAt(r) + 1, Len(r)), count + 1)
<1>1. PICK p \in {0} \cup Pipes(s) :
          Cardinality(UpTo(Pipes(s), p)) = count /\ r = SubSeq(s, p + 1, Len(s))
  BY DEF CutOff
<1> DEFINE S == Pipes(s)
           c == Cardinality(S)
<1>2. /\ count \in Nat /\ count <= c /\ Bounds(s)[count + 1] = p /\ p \in 0..Len(s)
  BY <1>1, BoundOf
<1>a. r = SubSeq(s, p + 1, Len(s)) /\ p \in 0..Len(s)
  BY <1>1, <1>2
<1>3. r \in Word /\ Len(r) = Len(s) - p /\ Len(r) \in Nat
  BY <1>a, PartOfRest
<1>b. /\ \A i \in 1..Len(r) : r[i] = s[p + i]
      /\ \A i \in Nat \ {0} : \A j \in 0..Len(r) : SubSeq(r, i, j) = SubSeq(s, p + i, p + j)
  BY <1>a, PartOfRest
<1>4. /\ Len(s) \in Nat /\ S \in SUBSET (1..Len(s)) /\ S \in SUBSET (0..Len(s)) /\ c \in Nat
      /\ UpTo(S, Len(s)) = S
  BY PipeFacts, UpToEnds
<1>5. DOMAIN r = 1..Len(r) /\ DOMAIN s = 1..Len(s)
  BY <1>3, WordFacts
<1>6. ASSUME NEW y \in S, p < y PROVE y - p \in Pipes(r)
  <2>1. y - p \in 1..Len(r) /\ p + (y - p) = y
    BY <1>2, <1>3, <1>4, <1>6
  <2>2. s[y] = "|"
    BY DEF Pipes
  <2>3. r[y - p] = "|"
    BY <1>b, <2>1, <2>2
  <2> QED
    BY <1>5, <2>1, <2>3 DEF Pipes
<1>7. CutAt(r) \in 1..(Len(r) + 1)
  BY <1>3, CutFacts
<1> DEFINE k == CutAt(r)
           q == p + k
<1>8. /\ k \in Nat \ {0} /\ k - 1 \in 0..Len(r) /\ q \in Nat /\ q - 1 = p + (k - 1)
  <2>1. k \in 1..(Len(r) + 1)
    BY <1>7
  <2> HIDE DEF k
  <2> QED
    <3>1. Len(s) \in Nat /\ p \in Nat
      BY <1>2, <1>4
    <3> QED
      BY <1>3, <2>1, <3>1
<1> HIDE DEF S, c, q, k
<1>9. Bounds(s)[count + 2] = q => FirstSegment(r) = Segments(s)[count + 1]
  <2> SUFFICES ASSUME Bounds(s)[count + 2] = q PROVE FirstSegment(r) = Segments(s)[count + 1]
    OBVIOUS
  <2>1. SubSeq(r, 1, k - 1) = SubSeq(s, p + 1, p + (k - 1))
    <3>1. 1 \in Nat \ {0}
      OBVIOUS
    <3> QED
      BY <1>b, <1>8, <3>1
  <2>2. FirstSegment(r) = Trim(SubSeq(s, p + 1, q - 1))
    BY <1>8, <2>1 DEF FirstSegment, k
  <2> DEFINE a == count + 1
             z == a + 1
  <2>3. a \in 1..(c + 1) /\ z = count + 2
    BY <1>2, <1>4
  <2> HIDE DEF a, z
  <2>4. Segments(s)[a] = Trim(SubSeq(s, Bounds(s)[a] + 1, Bounds(s)[a + 1] - 1))
    BY <2>3, SegmentsFacts DEF c, S
  <2>5. Bounds(s)[a] = p /\ Bounds(s)[a + 1] = q
    BY <1>2, <2>3 DEF a, z
  <2> QED
    BY <2>2, <2>4, <2>5 DEF a
<1>10. ASSUME Pipes(r) = {}
       PROVE  c = count /\ Bounds(s)[count + 2] = q
  <2>1. \A y \in S : y <= p
    BY <1>2, <1>4, <1>6, <1>10
  <2>2. UpTo(S, p) = S
    BY <2>1 DEF UpTo
  <2>3. c = count
    BY <1>1, <2>2 DEF c, S
  <2>4. Bounds(s)[count + 2] = Len(s) + 1
    BY <2>3, BoundsFacts DEF c, S
  <2>5. q = Len(s) + 1
    <3>1. k = Len(r) + 1
      BY <1>10 DEF CutAt, k
    <3> QED
      BY <1>2, <1>3, <1>4, <3>1 DEF q
  <2> QED
    BY <2>3, <2>4, <2>5
<1>11. ASSUME Pipes(r) # {}
       PROVE  /\ q \in S /\ Cardinality(UpTo(S, q)) = count + 1
              /\ Bounds(s)[count + 2] = q
              /\ SubSeq(r, k + 1, Len(r)) = SubSeq(s, q + 1, Len(s))
  <2>1. k \in Pipes(r) /\ \A y \in Pipes(r) : k <= y
    <3>1. Pipes(r) \in SUBSET Nat
      BY <1>3, PipeFacts
    <3>2. k = Min(Pipes(r))
      BY <1>11 DEF CutAt, k
    <3> QED
      BY <1>11, <3>1, <3>2, MinExists
  <2>2. k \in 1..Len(r) /\ r[k] = "|"
    BY <1>5, <2>1 DEF Pipes
  <2>3. q \in 1..Len(s) /\ s[q] = "|" /\ p < q /\ p \in Nat
    <3>1. s[q] = "|"
      BY <1>b, <2>2 DEF q
    <3>2. p \in Nat /\ k \in Nat /\ k <= Len(r) /\ 1 <= k
      BY <1>2, <1>3, <1>4, <2>2
    <3>3. q \in 1..Len(s) /\ p < q
      BY <1>3, <1>4, <3>2 DEF q
    <3> QED
      BY <3>1, <3>2, <3>3
  <2>4. q \in S
    BY <1>5, <2>3 DEF Pipes, S
  <2>5. \A y \in S : ~(p < y /\ y < q)
    <3> SUFFICES ASSUME NEW y \in S, p < y, y < q PROVE FALSE
      OBVIOUS
    <3>1. y - p \in Pipes(r) /\ y \in Nat
      BY <1>4, <1>6
    <3>2. k <= y - p
      BY <2>1, <3>1
    <3> QED
      BY <1>2, <1>8, <3>1, <3>2 DEF q
  <2>6. Cardinality(UpTo(S, q)) = Cardinality(UpTo(S, p)) + 1
    BY <1>4, <2>3, <2>4, <2>5, UpToJump
  <2>7. Cardinality(UpTo(S, q)) = count + 1
    BY <1>1, <2>6 DEF S
  <2>8. Bounds(s)[count + 2] = q
    <3> DEFINE a == count + 1
    <3> HIDE DEF a
    <3>1. a = Cardinality(UpTo(S, q)) /\ count + 2 = a + 1
      BY <1>2, <2>7 DEF a
    <3>2. Bounds(s)[a + 1] = q
      BY <2>4, <3>1, BoundOf DEF S
    <3> QED
      BY <3>1, <3>2
  <2>9. SubSeq(r, k + 1, Len(r)) = SubSeq(s, q + 1, Len(s))
    <3> DEFINE a == k + 1
               l == Len(r)
    <3>1. a \in Nat \ {0} /\ l \in 0..Len(r) /\ p + a = q + 1 /\ p + l = Len(s)
      BY <1>2, <1>3, <1>4, <1>8 DEF q
    <3> HIDE DEF a, l
    <3>2. SubSeq(r, a, l) = SubSeq(s, p + a, p + l)
      BY <1>b, <3>1
    <3> QED
      BY <3>1, <3>2 DEF a, l
  <2> QED
    BY <2>4, <2>7, <2>8, <2>9
<1>12. Len(r) <= Len(s)
  BY <1>2, <1>3, <1>4
<1>13. Pipes(r) # {} => CutOff(s, SubSeq(r, CutAt(r) + 1, Len(r)), count + 1)
  BY <1>11 DEF CutOff, S, k
<1> QED
  BY <1>2, <1>3, <1>9, <1>10, <1>11, <1>12, <1>13 DEF c, S

-----------------------------------------------------------------------------
(* The meaning of the line, along the parser's steps. *)

(* Nothing is claimed where the parser is not at work. *)
LEMMA Elsewhere ==
    ASSUME pc' \in {"prompt", "wait", "ended"}
    PROVE  MeantInv'
BY Zenon DEF MeantInv, SegmentsInv, ParsedAsMeant

LEMMA MeantStays ==
    ASSUME MeantInv, UNCHANGED <<pc, parserVars>>
    PROVE  MeantInv'
<1>1. /\ pc' = pc /\ stage' = stage /\ line' = line /\ rest' = rest /\ more' = more
      /\ clist' = clist /\ rc' = rc /\ buf' = buf /\ argv' = argv /\ src' = src
      /\ dst' = dst /\ token_start' = token_start /\ quote' = quote
  BY DEF parserVars, listVars, scanVars
<1>2. SegmentsInv'
  BY <1>1 DEF MeantInv, SegmentsInv
<1>3. Meant' = Meant
  BY <1>1 DEF Meant
<1>4. ASSUME pc = "scan" PROVE ReadTo(Current)'
  BY <1>1, <1>3, <1>4 DEF MeantInv, Current, ReadTo, Begun, Placed, Rank
<1>5. ParsedAsMeant'
  BY <1>1, <1>3 DEF MeantInv, ParsedAsMeant, MeantBuilt, MeantUnclosed, MeantTooBig, Commands
<1> QED
  BY <1>1, <1>2, <1>4, <1>5 DEF MeantInv

LEMMA NoInk == Ink(<<>>) = {}
<1>1. DOMAIN <<>> = 1..0
  BY EmptyFacts, WordFacts
<1>2. DOMAIN <<>> = {}
  BY <1>1
<1> QED
  BY <1>2 DEF Ink

(* The segment the loop is on. *)
LEMMA CurrentFacts ==
    ASSUME IInv, MeantInv, pc = "scan"
    PROVE  /\ Len(clist) \in Nat /\ Len(clist) + 1 \in DOMAIN Meant /\ Meant[Len(clist) + 1] = Current
           /\ Current \in Word /\ 1 \in WordStarts(Current) /\ Len(line) \in Nat
           /\ stage \in {"P1", "P2"}
           /\ stage = "P1" => Len(Current) < SH_CMD_MAX - 1
           /\ stage = "P2" => /\ Len(Current) <= Len(line) /\ Len(line) < SH_CMD_MAX
                              /\ clist = <<>> /\ Len(clist) = 0
<1>1. ParserTypes /\ Len(clist) \in Nat /\ Len(line) \in Nat
  BY TypeParts, LengthTypes DEF IInv
<1>2. stage \in {"P1", "P2"} /\ line \in Word /\ SH_CMD_MAX \in Nat
  BY <1>1, StagesAssumption, SizesAssumption DEF ParserTypes
<1>3. Current \in Word /\ Ink(Current) # {} /\ Len(line) < SH_CMD_MAX
  BY DEF MeantInv, ReadTo
<1>4. Meant[Len(clist) + 1] = Current
  BY DEF Current
<1> DEFINE c == Cardinality(Pipes(line))
           j == Len(clist) + 1
<1>5. CASE stage = "P1"
  <2>1. Len(line) < SH_CMD_MAX - 1
    BY <1>5 DEF MeantInv, SegmentsInv
  <2>2. j \in 1..(c + 1)
    <3>1. c \in Nat
      BY <1>2, PipeFacts
    <3>2. CASE more
      <4>1. CutOff(line, rest, j)
        BY <1>5, <3>2 DEF MeantInv, SegmentsInv
      <4>2. j <= c
        BY <1>2, <4>1, NextCut
      <4> QED
        BY <1>1, <3>1, <4>2
    <3>3. CASE ~more
      <4>1. c = Len(clist)
        BY <1>5, <3>3 DEF MeantInv, SegmentsInv
      <4> QED
        BY <1>1, <3>1, <4>1
    <3> QED
      BY <3>2, <3>3
  <2>3. Meant = Segments(line)
    BY <1>5 DEF Meant
  <2> DEFINE f == Bounds(line)[j] + 1
             l == Bounds(line)[j + 1] - 1
  <2> HIDE DEF j, c
  <2>4. /\ Bounds(line)[j] \in 0..(Len(line) + 1) /\ Bounds(line)[j + 1] \in 0..(Len(line) + 1)
        /\ Segments(line)[j] = Trim(SubSeq(line, f, l)) /\ DOMAIN Segments(line) = 1..(c + 1)
    BY <1>2, <2>2, SegmentsFacts DEF c
  <2> DEFINE t == SubSeq(line, f, l)
  <2>5. t \in Word /\ Len(t) <= Len(line) /\ Len(t) \in Nat
    <3>1. f \in Nat \ {0} /\ l \in Int /\ l <= Len(line)
      BY <1>1, <2>4
    <3>2. CASE l >= 0
      <4>1. l \in 0..Len(line)
        BY <1>1, <3>1, <3>2
      <4> HIDE DEF f, l
      <4> QED
        BY <1>2, <3>1, <4>1, PartOfWord, WordFacts
    <3>3. CASE ~(l >= 0)
      <4>1. l < f /\ f \in Int
        BY <3>1, <3>3
      <4> HIDE DEF f, l
      <4>2. t = <<>>
        BY <3>1, <4>1, SubSeqEmpty
      <4> QED
        BY <1>1, <4>2, EmptyFacts
    <3> QED
      BY <3>2, <3>3
  <2>6. Current = Trim(t)
    BY <1>4, <2>3, <2>4 DEF j
  <2> HIDE DEF t
  <2>7. Trim(t) # <<>>
    BY <1>3, <2>6, NoInk
  <2>8. Ink(t) # {} /\ Len(t) < SH_CMD_MAX
    BY <1>1, <1>2, <1>3, <2>5, <2>7, TrimFacts
  <2>9. /\ Len(Trim(t)) \in Nat /\ Len(Trim(t)) <= Len(t) /\ Trim(t)[1] # " "
    BY <2>5, <2>8, TrimShape
  <2>10. 1 \in WordStarts(Current)
    BY <1>3, <2>6, <2>9, FirstWord
  <2>11. Len(Current) < SH_CMD_MAX - 1
    <3> DEFINE x == Len(Trim(t))
               y == Len(t)
               z == Len(line)
    <3>1. x \in Nat /\ y \in Nat /\ z \in Nat /\ x <= y /\ y <= z /\ z < SH_CMD_MAX - 1
      BY <1>1, <2>1, <2>5, <2>9
    <3> HIDE DEF x, y, z
    <3>2. x < SH_CMD_MAX - 1
      BY <1>2, <3>1
    <3> QED
      BY <2>6, <3>2 DEF x
  <2>12. Len(clist) + 1 \in DOMAIN Meant
    BY <2>2, <2>3, <2>4 DEF j
  <2> QED
    BY <1>1, <1>2, <1>3, <1>4, <1>5, <2>10, <2>11, <2>12
<1>6. CASE stage = "P2"
  <2>1. clist = <<>>
    BY <1>6 DEF IInv, LiveInv
  <2>2. Len(clist) = 0
    BY <2>1, EmptyFacts, Zenon
  <2>3. Meant = <<Trim(line)>>
    BY <1>6 DEF Meant
  <2>4. Len(clist) + 1 = 1
    BY <2>2
  <2>5. Current = Trim(line) /\ 1 \in DOMAIN Meant
    BY <1>4, <2>3, <2>4
  <2>6. Trim(line) # <<>>
    BY <1>3, <2>5, NoInk
  <2>7. Ink(line) # {}
    BY <1>2, <2>6, TrimFacts
  <2>8. Len(Trim(line)) <= Len(line) /\ Trim(line)[1] # " "
    BY <1>2, <1>3, <2>7, TrimShape
  <2>9. 1 \in WordStarts(Current)
    BY <1>3, <2>5, <2>8, FirstWord
  <2> QED
    BY <1>1, <1>2, <1>3, <1>4, <1>6, <2>1, <2>2, <2>4, <2>5, <2>8, <2>9
<1> QED
  BY <1>2, <1>5, <1>6

(* The loop returns an error that the segment deserves. *)
LEMMA MeantRefused ==
    ASSUME IInv, MeantInv, pc = "scan", NEW c, c = buf[src + 1], Refusal(c) # OK,
           Refuse(Refusal(c))
    PROVE  MeantInv'
<1> DEFINE m == Current
           j == Len(clist) + 1
<1>1. /\ j \in DOMAIN Meant /\ Meant[j] = m /\ m \in Word /\ 1 \in WordStarts(m)
      /\ stage \in {"P1", "P2"} /\ Len(line) \in Nat
      /\ stage = "P1" => Len(m) < SH_CMD_MAX - 1
      /\ stage = "P2" => Len(m) <= Len(line) /\ Len(line) < SH_CMD_MAX
  BY CurrentFacts
<1>2. ReadTo(m)
  BY DEF MeantInv
<1>3. /\ pc' = "parsed" /\ rc' = Refusal(c) /\ stage' = stage /\ line' = line
  BY DEF Refuse, Built
<1>4. PICK x \in Word : x = m
  BY <1>1
<1> HIDE DEF m, j
<1>5. \/ Refusal(c) = ERR_CMD_ARGS_BAD /\ stage = "P1" /\ Open(m)[Len(m)] # Unquoted
      \/ /\ Refusal(c) = ERR_CMD_OR_ARGS_TOO_BIG
         /\ Len(Words(m)) >= CMD_ARGV_MAX \/ Len(m) = SH_CMD_MAX - 1
  <2>1. 1 \in WordStarts(x) /\ ReadTo(x)
    BY <1>1, <1>2, <1>4
  <2>2. \/ Refusal(c) = ERR_CMD_ARGS_BAD /\ stage = "P1" /\ Open(x)[Len(x)] # Unquoted
        \/ /\ Refusal(c) = ERR_CMD_OR_ARGS_TOO_BIG
           /\ Len(Words(x)) >= CMD_ARGV_MAX \/ Len(x) = SH_CMD_MAX - 1
    BY <2>1, ReadRefusal
  <2> QED
    BY <1>4, <2>2
<1>6. Meant' = Meant
  BY <1>3 DEF Meant
<1>7. CASE Refusal(c) = ERR_CMD_ARGS_BAD /\ stage = "P1" /\ Open(m)[Len(m)] # Unquoted
  <2>1. MeantUnclosed
    BY <1>1, <1>7 DEF MeantUnclosed
  <2>2. MeantUnclosed'
    BY <1>6, <2>1 DEF MeantUnclosed
  <2>3. ParsedAsMeant'
    BY <1>3, <1>7, <2>2 DEF ParsedAsMeant, OK, WARN_NO_CMDS, ERR_TOO_MANY_COMMANDS,
       ERR_CMD_ARGS_BAD, ERR_CMD_OR_ARGS_TOO_BIG, ERR_MEMORY
  <2> QED
    BY <1>3, <2>3 DEF MeantInv, SegmentsInv
<1>8. CASE /\ Refusal(c) = ERR_CMD_OR_ARGS_TOO_BIG
           /\ Len(Words(m)) >= CMD_ARGV_MAX \/ Len(m) = SH_CMD_MAX - 1
  <2>1. MeantTooBig
    <3>1. CASE Len(Words(m)) >= CMD_ARGV_MAX
      BY <1>1, <3>1 DEF MeantTooBig
    <3>2. CASE Len(m) = SH_CMD_MAX - 1
      <4>1. SH_CMD_MAX \in Nat
        BY SizesAssumption
      <4>2. stage # "P1"
        BY <1>1, <3>2, <4>1
      <4>3. stage = "P2"
        BY <1>1, <4>2
      <4>4. Len(line) = SH_CMD_MAX - 1
        BY <1>1, <3>2, <4>1, <4>3
      <4> QED
        BY <4>3, <4>4 DEF MeantTooBig
    <3> QED
      BY <1>8, <3>1, <3>2
  <2>2. MeantTooBig'
    BY <1>3, <1>6, <2>1 DEF MeantTooBig
  <2>3. ParsedAsMeant'
    BY <1>3, <1>8, <2>2 DEF ParsedAsMeant, OK, WARN_NO_CMDS, ERR_TOO_MANY_COMMANDS,
       ERR_CMD_ARGS_BAD, ERR_CMD_OR_ARGS_TOO_BIG, ERR_MEMORY
  <2> QED
    BY <1>3, <2>3 DEF MeantInv, SegmentsInv
<1> QED
  BY <1>5, <1>7, <1>8

(* A turn that does not end the loop. *)
LEMMA MeantTurned ==
    ASSUME IInv, MeantInv, pc = "scan", NEW c, c = buf[src + 1], c # NUL, Turn(c),
           UNCHANGED <<pc, rc, clist, stage, line, rest, more>>
    PROVE  MeantInv'
<1>1. Current' = Current /\ Meant' = Meant
  BY DEF Current, Meant
<1>2. PICK m : m = Current
  OBVIOUS
<1>3. ReadTo(m)'
  <2>1. ReadTo(m)
    BY <1>2 DEF MeantInv
  <2> QED
    BY <2>1, ReadTurn
<1>4. ReadTo(Current)'
  BY <1>1, <1>2, <1>3
<1>5. SegmentsInv'
  BY DEF MeantInv, SegmentsInv
<1>6. ParsedAsMeant'
  BY DEF ParsedAsMeant
<1> QED
  BY <1>4, <1>5, <1>6 DEF MeantInv

(* The turn that completes a command. *)
LEMMA MeantBuiltStep ==
    ASSUME IInv, MeantInv, pc = "scan", buf[src + 1] = NUL, Refusal(NUL) = OK, Turn(NUL),
           CommandBuilt, UNCHANGED <<stage, line, rest, more, live, refused>>
    PROVE  MeantInv'
<1> DEFINE j == Len(clist) + 1
           done == [buf |-> buf', argv |-> argv']
<1>1. /\ Len(clist) \in Nat /\ j \in DOMAIN Meant /\ Meant[j] = Current
      /\ stage \in {"P1", "P2"}
      /\ stage = "P2" => clist = <<>> /\ Len(clist) = 0
  BY CurrentFacts
<1>2. Strings(done) = Words(Current)
  <2>1. PICK m : m = Current
    OBVIOUS
  <2>2. ReadTo(m)
    BY <2>1 DEF MeantInv
  <2>3. Strings(done) = Words(m)
    BY <2>2, ReadEnd
  <2> QED
    BY <2>1, <2>3
<1>3. Meant' = Meant
  BY DEF Meant
<1>4. ASSUME rc' = OK, MeantBuilt' PROVE ParsedAsMeant'
  BY <1>4 DEF ParsedAsMeant, OK, WARN_NO_CMDS, ERR_TOO_MANY_COMMANDS,
     ERR_CMD_ARGS_BAD, ERR_CMD_OR_ARGS_TOO_BIG, ERR_MEMORY
<1>5. CASE stage = "P2"
  <2>1. pc' = "parsed" /\ rc' = OK /\ stage' = "P2"
    BY <1>5, Zenon DEF CommandBuilt, Built
  <2>2. Commands' = <<done>>
    BY <2>1 DEF Commands
  <2>3. Meant = <<Trim(line)>>
    BY <1>5 DEF Meant
  <2>4. j = 1
    BY <1>1, <1>5
  <2> HIDE DEF done, j
  <2>5. DOMAIN Meant = {1} /\ Len(Meant) = 1 /\ Len(<<done>>) = 1 /\ <<done>>[1] = done
    BY <2>3
  <2>6. Strings(Commands[1])' = Words(Meant[1])'
    <3>1. Strings(done) = Words(Meant[1])
      BY <1>1, <1>2, <2>4
    <3>2. Commands'[1] = done
      BY <2>2, <2>5
    <3> QED
      BY <1>3, <3>1, <3>2 DEF Strings
  <2>7. MeantBuilt'
    BY <1>3, <2>2, <2>5, <2>6 DEF MeantBuilt
  <2> QED
    BY <1>4, <2>1, <2>7 DEF MeantInv, SegmentsInv
<1>6. CASE stage = "P1"
  <2>1. clist' = Append(clist, done) /\ stage' = "P1"
    BY <1>6, Zenon DEF CommandBuilt
  <2>2. clist \in Seq(CommandType) /\ line \in Word
    BY TypeParts DEF IInv, ParserTypes
  <2>3. done \in CommandType
    BY TurnFacts DEF CommandType
  <2> HIDE DEF done
  <2>4. /\ Len(clist') = j /\ j \in Nat /\ clist'[j] = done
        /\ \A k \in 1..j : k = j \/ (k \in 1..Len(clist) /\ clist'[k] = clist[k])
    <3>1. /\ Len(clist') = Len(clist) + 1 /\ clist'[Len(clist) + 1] = done
          /\ \A k \in 1..Len(clist) : clist'[k] = clist[k]
      BY <2>1, <2>2, <2>3, AppendProperties
    <3>2. \A k \in 1..j : k = j \/ k \in 1..Len(clist)
      BY <1>1
    <3> QED
      BY <1>1, <3>1, <3>2
  <2>5. Meant = Segments(line)
    BY <1>6 DEF Meant
  <2>6. \A k \in 1..Len(clist) : Strings(clist[k]) = Words(Segments(line)[k])
    BY <1>6 DEF MeantInv, SegmentsInv
  <2>7. \A k \in 1..j : Strings(clist'[k]) = Words(Segments(line)[k])
    <3> SUFFICES ASSUME NEW k \in 1..j PROVE Strings(clist'[k]) = Words(Segments(line)[k])
      OBVIOUS
    <3> HIDE DEF j
    <3>1. CASE k = j
      BY <1>1, <1>2, <2>4, <2>5, <3>1
    <3>2. CASE k # j
      <4>1. k \in 1..Len(clist) /\ clist'[k] = clist[k]
        BY <2>4, <3>2
      <4> QED
        BY <2>6, <4>1
    <3> QED
      BY <3>1, <3>2
  <2> HIDE DEF j
  <2>8. (\A k \in 1..Len(clist) : Strings(clist[k]) = Words(Segments(line)[k]))'
    BY <2>4, <2>7
  <2>9. CASE more
    <3>1. pc' = "list"
      BY <1>6, <2>9, Zenon DEF CommandBuilt
    <3>2. Len(line) < SH_CMD_MAX - 1 /\ CutOff(line, rest, j)
      BY <1>6, <2>9 DEF MeantInv, SegmentsInv, j
    <3>3. CutOff(line, rest, Len(clist))'
      BY <2>4, <3>2
    <3>4. SegmentsInv'
      BY <2>8, <3>1, <3>2, <3>3 DEF SegmentsInv
    <3> QED
      BY <3>1, <3>4 DEF MeantInv, ParsedAsMeant
  <2>10. CASE ~more
    <3>1. pc' = "parsed" /\ rc' = OK
      BY <1>6, <2>10, Zenon DEF CommandBuilt, Built
    <3>2. Cardinality(Pipes(line)) + 1 = j
      BY <1>6, <2>10 DEF MeantInv, SegmentsInv, j
    <3>3. DOMAIN Segments(line) = 1..j /\ Len(Segments(line)) = j
      BY <2>2, <3>2, SegmentsFacts
    <3>4. Commands' = clist'
      BY <2>1 DEF Commands
    <3>5. MeantBuilt'
      BY <1>3, <2>4, <2>5, <2>7, <3>3, <3>4 DEF MeantBuilt
    <3> QED
      BY <1>4, <3>1, <3>5 DEF MeantInv, SegmentsInv
  <2> QED
    BY <2>9, <2>10
<1> QED
  BY <1>1, <1>5, <1>6

LEMMA MeantScan ==
    ASSUME IInv, MeantInv, Scan
    PROVE  MeantInv'
<1> DEFINE c == buf[src + 1]
<1>1. pc = "scan"
  BY DEF Scan
<1>2. CASE Refusal(c) # OK
  <2>1. Refuse(Refusal(c))
    BY <1>2, Zenon DEF Scan
  <2> QED
    BY <1>1, <1>2, <2>1, MeantRefused
<1>3. CASE Refusal(c) = OK /\ c = NUL
  <2>1. Turn(NUL) /\ CommandBuilt /\ UNCHANGED <<stage, line, rest, more, live, refused>>
    BY <1>3, Zenon DEF Scan
  <2>2. Refusal(NUL) = OK /\ buf[src + 1] = NUL
    BY <1>3
  <2> QED
    BY <1>1, <2>1, <2>2, MeantBuiltStep
<1>4. CASE Refusal(c) = OK /\ c # NUL
  <2>1. Turn(c) /\ UNCHANGED <<pc, rc, clist, stage, line, rest, more>>
    BY <1>4, Zenon DEF Scan
  <2> QED
    BY <1>1, <1>4, <2>1, MeantTurned
<1> QED
  BY <1>2, <1>3, <1>4

(* The next segment is the one that follows the commands built so far. *)
LEMMA NextMeant ==
    ASSUME IInv, MeantInv, pc = "list"
    PROVE  /\ stage = "P1" /\ line \in Word /\ rest \in Word /\ Len(clist) \in Nat
           /\ Len(line) < SH_CMD_MAX - 1 /\ Len(line) \in Nat /\ Len(rest) <= Len(line)
           /\ Len(clist) + 1 \in DOMAIN Meant /\ Meant = Segments(line)
           /\ Meant[Len(clist) + 1] = FirstSegment(rest)
           /\ Len(clist) < Len(Meant) /\ Len(Meant) \in Nat
           /\ Pipes(rest) = {} => Cardinality(Pipes(line)) = Len(clist)
           /\ Pipes(rest) # {} =>
                 CutOff(line, SubSeq(rest, CutAt(rest) + 1, Len(rest)), Len(clist) + 1)
<1>1. ParserTypes /\ Len(clist) \in Nat /\ Len(line) \in Nat
  BY TypeParts, LengthTypes DEF IInv
<1>2. stage = "P1" /\ line \in Word
  BY <1>1, StagesAssumption DEF IInv, ListInv, ParserTypes
<1>3. Len(line) < SH_CMD_MAX - 1 /\ CutOff(line, rest, Len(clist))
  BY <1>2 DEF MeantInv, SegmentsInv
<1>4. /\ rest \in Word /\ Len(rest) <= Len(line) /\ Len(clist) <= Cardinality(Pipes(line))
      /\ FirstSegment(rest) = Segments(line)[Len(clist) + 1]
      /\ Pipes(rest) = {} => Cardinality(Pipes(line)) = Len(clist)
      /\ Pipes(rest) # {} =>
             CutOff(line, SubSeq(rest, CutAt(rest) + 1, Len(rest)), Len(clist) + 1)
  BY <1>2, <1>3, NextCut
<1> DEFINE c == Cardinality(Pipes(line))
<1>5. DOMAIN Segments(line) = 1..(c + 1) /\ Len(Segments(line)) = c + 1 /\ c \in Nat
  BY <1>2, SegmentsFacts
<1>6. Meant = Segments(line)
  BY <1>2 DEF Meant
<1>7. Len(clist) <= c
  BY <1>4
<1> HIDE DEF c
<1>8. Len(clist) + 1 \in 1..(c + 1) /\ Len(clist) < c + 1 /\ c + 1 \in Nat
  BY <1>1, <1>5, <1>7
<1> QED
  BY <1>1, <1>2, <1>3, <1>4, <1>5, <1>6, <1>8

LEMMA MeantNextSegment ==
    ASSUME IInv, MeantInv, NextSegment
    PROVE  MeantInv'
<1> DEFINE r == SubSeq(rest, CutAt(rest) + 1, Len(rest))
<1>1. /\ pc = "list" /\ OK \in SegmentError /\ ScanStart(FirstSegment(rest)) /\ pc' = "scan"
      /\ rest' = r /\ more' = (Pipes(rest) # {})
      /\ stage' = stage /\ line' = line /\ clist' = clist
  BY Zenon DEF NextSegment
<1>2. /\ stage = "P1" /\ line \in Word /\ rest \in Word /\ Len(clist) \in Nat
      /\ Len(line) < SH_CMD_MAX - 1 /\ Len(line) \in Nat /\ Len(rest) <= Len(line)
      /\ Meant[Len(clist) + 1] = FirstSegment(rest)
  BY <1>1, NextMeant
<1>3. PICK m : m = FirstSegment(rest)
  OBVIOUS
<1>4. m # <<>>
  BY <1>1, <1>3, ReturnCodes DEF SegmentError
<1>5. m \in Word /\ Len(m) <= Len(rest)
  BY <1>2, <1>3, SegmentFacts
<1>6. Len(m) < SH_CMD_MAX /\ Len(line) < SH_CMD_MAX
  <2>1. Len(m) \in Nat /\ Len(rest) \in Nat /\ SH_CMD_MAX \in Nat
    BY <1>2, <1>5, WordFacts, SizesAssumption
  <2> QED
    BY <1>2, <1>5, <2>1
<1>7. Ink(m) # {} /\ Trim(m) = m
  <2> DEFINE t == SubSeq(rest, 1, CutAt(rest) - 1)
  <2>1. t \in Word /\ Len(t) <= Len(rest)
    <3>1. CutAt(rest) - 1 \in 0..Len(rest) /\ 1 \in Nat \ {0}
      <4>1. CutAt(rest) \in 1..(Len(rest) + 1) /\ Len(rest) \in Nat
        BY <1>2, CutFacts, WordFacts
      <4> QED
        BY <4>1
    <3> QED
      BY <1>2, <3>1, PartOfWord
  <2>2. m = Trim(t)
    BY <1>3 DEF FirstSegment
  <2> HIDE DEF t
  <2>3. Ink(t) # {} /\ Ink(m) # {}
    BY <1>4, <2>1, <2>2, TrimFacts, TrimmedInk
  <2>4. Len(t) < SH_CMD_MAX
    <3>1. Len(t) \in Nat /\ Len(rest) \in Nat /\ SH_CMD_MAX \in Nat
      BY <1>2, <2>1, WordFacts, SizesAssumption
    <3> QED
      BY <1>2, <2>1, <3>1
  <2> QED
    BY <2>1, <2>2, <2>3, <2>4, TrimShape
<1>8. ReadTo(m)'
  <2>1. ScanStart(m)
    BY <1>1, <1>3
  <2>2. ReadTo(Trim(m))'
    BY <1>5, <1>6, <1>7, <2>1, ReadStart
  <2> QED
    BY <1>7, <2>2
<1>9. Current' = m
  BY <1>1, <1>2, <1>3 DEF Current, Meant
<1>10. ReadTo(Current)'
  BY <1>8, <1>9
<1>11. \A k \in 1..Len(clist) : Strings(clist[k]) = Words(Segments(line)[k])
  BY <1>1, <1>2 DEF MeantInv, SegmentsInv
<1>12. IF more' THEN CutOff(line', rest', Len(clist') + 1)
                ELSE Cardinality(Pipes(line')) = Len(clist')
  BY <1>1, NextMeant
<1> HIDE DEF r
<1>13. SegmentsInv'
  BY <1>1, <1>2, <1>11, <1>12 DEF SegmentsInv
<1> QED
  BY <1>1, <1>6, <1>10, <1>13 DEF MeantInv, ParsedAsMeant

LEMMA MeantNoSegment ==
    ASSUME IInv, MeantInv, NoSegment
    PROVE  MeantInv'
<1>1. PICK e \in SegmentError \ {OK} : Built(e)
  BY Zenon DEF NoSegment
<1>2. pc = "list" /\ stage' = stage /\ line' = line /\ rc' = e /\ pc' = "parsed"
  BY <1>1, Zenon DEF NoSegment, Built
<1>3. Meant' = Meant
  BY <1>2 DEF Meant
<1>4. /\ Len(clist) \in Nat /\ Len(clist) + 1 \in DOMAIN Meant
      /\ Meant[Len(clist) + 1] = FirstSegment(rest)
      /\ Len(clist) < Len(Meant) /\ Len(Meant) \in Nat
  BY <1>2, NextMeant
<1>5. \/ e = WARN_NO_CMDS /\ FirstSegment(rest) = <<>>
      \/ e = ERR_TOO_MANY_COMMANDS /\ TooMany
      \/ e = ERR_MEMORY
  BY <1>1 DEF SegmentError
<1>6. /\ e \in {WARN_NO_CMDS, ERR_TOO_MANY_COMMANDS, ERR_MEMORY}
      /\ e = WARN_NO_CMDS => \E k \in DOMAIN Meant : Meant[k] = <<>>
      /\ e = ERR_TOO_MANY_COMMANDS => Len(Meant) > CMD_MAX
  <2>1. TooMany => Len(Meant) > CMD_MAX
    BY <1>4, SizesAssumption DEF TooMany
  <2>2. FirstSegment(rest) = <<>> => \E k \in DOMAIN Meant : Meant[k] = <<>>
    BY <1>4
  <2> QED
    BY <1>5, <2>1, <2>2 DEF WARN_NO_CMDS, ERR_TOO_MANY_COMMANDS, ERR_MEMORY
<1>7. ParsedAsMeant'
  BY <1>2, <1>3, <1>6 DEF ParsedAsMeant, OK, WARN_NO_CMDS, ERR_TOO_MANY_COMMANDS,
     ERR_CMD_ARGS_BAD, ERR_CMD_OR_ARGS_TOO_BIG, ERR_MEMORY
<1> QED
  BY <1>2, <1>7 DEF MeantInv, SegmentsInv

(* A line that P1 parses had room for its newline. *)
LEMMA ShortPiece ==
    ASSUME stdin \in Typing, stdin # <<>>, HasNewline
    PROVE  Len(Piece) < SH_CMD_MAX - 1
<1>1. /\ PieceLength \in 1..Len(stdin) /\ PieceLength < SH_CMD_MAX
      /\ \A i \in 1..(PieceLength - 1) : stdin[i] # NEWLINE
  BY PieceFacts
<1>2. Len(stdin) \in Nat /\ \A i \in 1..Len(stdin) : stdin[i] \in Char \cup {NEWLINE}
  BY LenProperties, ElementOfSeq DEF Typing
<1> DEFINE l == PieceLength - 1
<1>3. l \in Nat /\ l < SH_CMD_MAX - 1 /\ \A i \in 1..l : stdin[i] \in Char \cup {NEWLINE}
  BY <1>1, <1>2, SizesAssumption
<1>4. Piece = SubSeq(stdin, 1, l)
  BY DEF Piece
<1> HIDE DEF l
<1>5. Len(SubSeq(stdin, 1, l)) = IF 1 <= l THEN l - 1 + 1 ELSE 0
  <2>1. 1 \in Int /\ l \in Int
    BY <1>3
  <2> QED
    BY <1>3, <2>1, SubSeqProperties
<1> QED
  BY <1>3, <1>4, <1>5

(* P1 is given a line. *)
LEMMA MeantBuildList ==
    ASSUME IInv, NEW l \in Word, Len(l) < SH_CMD_MAX - 1, BuildList(l), stage = "P1"
    PROVE  MeantInv'
<1> DEFINE t == Trim(l)
<1>1. /\ line' = t /\ rest' = t /\ more' = TRUE /\ clist' = <<>> /\ stage' = stage
      /\ IF t = <<>> THEN rc' = WARN_NO_CMDS /\ pc' = "parsed" ELSE pc' = "list"
  BY Zenon DEF BuildList, Built
<1>2. t \in Word /\ Len(t) <= Len(l) /\ Len(t) \in Nat /\ Len(l) \in Nat /\ SH_CMD_MAX \in Nat
  BY TrimFacts, WordFacts, SizesAssumption
<1> HIDE DEF t
<1>3. Len(t) < SH_CMD_MAX - 1 /\ Len(clist') = 0
  <2>1. Len(clist') = 0
    BY <1>1, EmptyFacts, Zenon
  <2> QED
    BY <1>2, <2>1
<1>4. CutOff(t, t, 0)
  <2>1. SubSeq(t, 1, Len(t)) = t
    BY <1>2, SubSeqFull DEF Word
  <2>2. Cardinality(UpTo(Pipes(t), 0)) = 0
    BY <1>2, PipeFacts
  <2>3. 0 + 1 = 1
    OBVIOUS
  <2>4. \E p \in {0} \cup Pipes(t) :
            Cardinality(UpTo(Pipes(t), p)) = 0 /\ t = SubSeq(t, p + 1, Len(t))
    BY <2>1, <2>2, <2>3
  <2> QED
    BY <2>4 DEF CutOff
<1>5. CASE t = <<>>
  <2>1. FirstSegment(t) = Segments(t)[0 + 1]
    BY <1>2, <1>4, NextCut
  <2>0. 0 + 1 = 1
    OBVIOUS
  <2>2. Segments(t)[1] = <<>>
    <3>1. FirstSegment(t) \in Word /\ Len(FirstSegment(t)) <= Len(t) /\ Len(t) = 0
      BY <1>2, <1>5, SegmentFacts, EmptyFacts
    <3>2. Len(FirstSegment(t)) \in Nat
      BY <3>1, WordFacts
    <3>3. Len(FirstSegment(t)) = 0
      BY <3>1, <3>2
    <3>4. FirstSegment(t) = <<>>
      BY <3>1, <3>3, EmptySeq DEF Word
    <3> QED
      BY <2>0, <2>1, <3>4
  <2>3. 1 \in DOMAIN Segments(t)
    BY <1>2, SegmentsFacts
  <2>4. Meant' = Segments(t)
    BY <1>1 DEF Meant
  <2>5. ParsedAsMeant'
    BY <1>1, <1>5, <2>2, <2>3, <2>4 DEF ParsedAsMeant, OK, WARN_NO_CMDS, ERR_TOO_MANY_COMMANDS,
       ERR_CMD_ARGS_BAD, ERR_CMD_OR_ARGS_TOO_BIG, ERR_MEMORY
  <2> QED
    BY <1>1, <1>5, <2>5 DEF MeantInv, SegmentsInv
<1>6. CASE t # <<>>
  <2>1. CutOff(line, rest, Len(clist))'
    BY <1>1, <1>3, <1>4
  <2>2. SegmentsInv'
    BY <1>1, <1>3, <1>6, <2>1 DEF SegmentsInv
  <2> QED
    BY <1>1, <1>6, <2>2 DEF MeantInv, ParsedAsMeant
<1> QED
  BY <1>5, <1>6

(* P2 is given a line. *)
LEMMA MeantBuildBuff ==
    ASSUME IInv, NEW l \in Word, Len(l) < SH_CMD_MAX, BuildBuff(l), stage = "P2"
    PROVE  MeantInv'
<1>1. /\ line' = l /\ clist' = clist /\ stage' = stage
      /\ IF Trim(l) = <<>> THEN rc' = WARN_NO_CMDS /\ pc' = "parsed"
                           ELSE ScanStart(l) /\ pc' = "scan"
  BY Zenon DEF BuildBuff, Built
<1>2. clist = <<>> /\ Len(clist) = 0
  <2>1. clist = <<>>
    BY DEF IInv, LiveInv
  <2> QED
    BY <2>1, EmptyFacts, Zenon
<1>3. Meant' = <<Trim(l)>>
  BY <1>1 DEF Meant
<1> DEFINE t == Trim(l)
<1> HIDE DEF t
<1>4. DOMAIN <<t>> = {1} /\ <<t>>[1] = t
  OBVIOUS
<1>5. CASE t = <<>>
  <2>1. \E k \in DOMAIN Meant' : Meant'[k] = <<>>
    BY <1>3, <1>4, <1>5 DEF t
  <2>2. pc' = "parsed" /\ rc' = WARN_NO_CMDS
    BY <1>1, <1>5 DEF t
  <2>3. ParsedAsMeant'
    BY <2>1, <2>2 DEF ParsedAsMeant, OK, WARN_NO_CMDS, ERR_TOO_MANY_COMMANDS,
       ERR_CMD_ARGS_BAD, ERR_CMD_OR_ARGS_TOO_BIG, ERR_MEMORY
  <2> QED
    BY <2>2, <2>3 DEF MeantInv, SegmentsInv
<1>6. CASE t # <<>>
  <2>1. ScanStart(l) /\ pc' = "scan"
    BY <1>1, <1>6 DEF t
  <2>2. Ink(l) # {}
    BY <1>6, TrimFacts DEF t
  <2>3. ReadTo(Trim(l))'
    BY <2>1, <2>2, ReadStart
  <2>4. Current' = Trim(l)
    <3>1. Len(clist') + 1 = 1
      BY <1>1, <1>2
    <3> QED
      BY <1>3, <1>4, <3>1 DEF Current, t
  <2>5. ReadTo(Current)'
    BY <2>3, <2>4
  <2> QED
    BY <1>1, <2>1, <2>5 DEF MeantInv, SegmentsInv, ParsedAsMeant
<1> QED
  BY <1>5, <1>6

LEMMA MeantReadLine ==
    ASSUME IInv, ReadLine
    PROVE  MeantInv'
<1>1. stdin \in Typing /\ stdin # <<>>
  BY TypeParts DEF IInv, LoopTypes, ReadLine
<1>2. Piece \in Word /\ Len(Piece) < SH_CMD_MAX
  BY <1>1, PieceFacts
<1>3. CASE stage = "P1" /\ HasNewline /\ BuildList(Piece)
  <2>1. Len(Piece) < SH_CMD_MAX - 1
    BY <1>1, <1>3, ShortPiece
  <2>2. PICK l \in Word : l = Piece
    BY <1>2
  <2> QED
    BY <1>3, <2>1, <2>2, MeantBuildList
<1>4. CASE stage = "P2" /\ BuildBuff(Piece)
  <2>1. PICK l \in Word : l = Piece
    BY <1>2
  <2> QED
    BY <1>2, <1>4, <2>1, MeantBuildBuff
<1> QED
  BY <1>3, <1>4, Zenon DEF ReadLine

LEMMA InitMeant == Init => MeantInv
BY DEF Init, MeantInv, SegmentsInv, ParsedAsMeant

LEMMA StepMeant == ASSUME IInv, MeantInv, [Next]_vars PROVE MeantInv'
<1>1. CASE AllocFails
  BY <1>1, Elsewhere DEF AllocFails
<1>2. ASSUME NEW l \in Typed, TypeLine(l) PROVE MeantInv'
  BY <1>2, MeantStays DEF TypeLine
<1>3. CASE EndInput
  BY <1>3, Elsewhere DEF EndInput
<1>4. CASE TooLong
  <2>1. pc' = "prompt"
    BY <1>4 DEF TooLong
  <2> QED
    BY <2>1, Elsewhere
<1>5. CASE ExitTyped
  BY <1>5, Elsewhere DEF ExitTyped
<1>6. CASE ReadLine
  BY <1>6, MeantReadLine
<1>7. CASE Parse
  BY <1>7, MeantScan, MeantNextSegment, MeantNoSegment DEF Parse
<1>8. CASE Rejected
  BY <1>8, Elsewhere DEF Rejected
<1>9. CASE Printed
  BY <1>9, Elsewhere DEF Printed
<1>10. CASE ExitBuiltIn
  BY <1>10, Elsewhere DEF ExitBuiltIn
<1>11. CASE BuiltIn
  BY <1>11, Elsewhere DEF BuiltIn
<1>12. CASE Fork
  BY <1>12, Elsewhere DEF Fork
<1>13. CASE ForkFails
  BY <1>13, Elsewhere DEF ForkFails
<1>14. CASE Exec
  BY <1>14, MeantStays DEF Exec
<1>15. CASE ProgramEnds
  BY <1>15, MeantStays DEF ProgramEnds
<1>16. CASE Wait
  BY <1>16, Elsewhere DEF Wait
<1>17. CASE UNCHANGED vars
  BY <1>17, MeantStays DEF vars
<1> QED
  BY <1>1, <1>2, <1>3, <1>4, <1>5, <1>6, <1>7, <1>8, <1>9, <1>10, <1>11, <1>12, <1>13,
     <1>14, <1>15, <1>16, <1>17, Zenon DEF Next, Exited

-----------------------------------------------------------------------------
(* The theorems. *)

(* Every variable of the two shells keeps its type. *)
THEOREM TypeCorrect == Spec => []TypeOK
<1>1. IInv => TypeOK
  BY DEF IInv
<1> QED
  BY <1>1, Inductive, PTL

(* build_cmd_buff, which reads and writes one buffer at two places, stays inside
   it, and neither argv nor the array of commands is overrun, for lines and
   arrays of any length. *)
THEOREM BuffersAlwaysFit == Spec => []BuffersFit
<1>1. IInv => BuffersFit
  BY DEF IInv, ScanInv, ListInv, Building, BuffersFit
<1> QED
  BY <1>1, Inductive, PTL

(* At its prompt the first shell has freed all it allocated but the buffers of
   refused segments; the second one has the one it started with. *)
THEOREM BuffersAreFreed == Spec => []BuffersFreed
<1>1. IInv => BuffersFreed
  <2> SUFFICES ASSUME IInv PROVE BuffersFreed
    OBVIOUS
  <2>1. stage = "P1" /\ pc \in {"prompt", "ended"} => clist = <<>> /\ live = refused
    <3> SUFFICES ASSUME stage = "P1", pc \in {"prompt", "ended"}
                 PROVE  clist = <<>> /\ live = refused
      OBVIOUS
    <3>1. clist = <<>> /\ live = refused + Len(clist) + Building /\ refused \in Nat
      BY TypeParts DEF IInv, LiveInv, ParserTypes
    <3>2. Len(clist) = 0 /\ Building = 0
      BY <3>1, EmptyFacts DEF Building
    <3> QED
      BY <3>1, <3>2
  <2>2. stage = "P2" => live = IF pc = "ended" THEN 0 ELSE 1
    BY DEF IInv, LiveInv
  <2> QED
    BY <2>1, <2>2 DEF BuffersFreed
<1> QED
  BY <1>1, Inductive, PTL

(* The first shell drains what does not fit: it parses a line as it was typed,
   never the rest of a longer one. *)
THEOREM LinesStayWhole == Spec => []WholeLines
<1>1. IInv => WholeLines
  BY DEF IInv, WholeInv, WholeLines
<1> QED
  BY <1>1, Inductive, PTL

(* The second shell's wait tells a failure from a success, in the status that rc
   prints and in the message: for every status and signal a program ends with. *)
THEOREM FailureIsAlwaysTold == Spec => FailureIsTold
<1> DEFINE Told ==
        pc = "wait" /\ pc' = "prompt" =>
            LET failed == ~ran \/ status # Exit(0)
            IN  failed = (last_status' # 0) /\ failed = (said' # "nothing")
<1>1. ASSUME IInv, Next PROVE Told
  <2> SUFFICES ASSUME pc = "wait", pc' = "prompt"
               PROVE  LET failed == ~ran \/ status # Exit(0)
                      IN  failed = (last_status' # 0) /\ failed = (said' # "nothing")
    OBVIOUS
  <2>1. Wait
    <3>1. ~Scan /\ ~NextSegment /\ ~NoSegment
      BY DEF Scan, NextSegment, NoSegment
    <3>2. ~AllocFails /\ ~(\E l \in Typed : TypeLine(l)) /\ ~EndInput
          /\ ~TooLong /\ ~ExitTyped /\ ~ReadLine
      BY DEF AllocFails, TypeLine, EndInput, TooLong, ExitTyped, ReadLine
    <3>3. ~Rejected /\ ~Printed /\ ~ExitBuiltIn /\ ~BuiltIn /\ ~Fork /\ ~ForkFails
      BY DEF Rejected, Printed, ExitBuiltIn, BuiltIn, Fork, ForkFails, Ready
    <3>4. ~Exec /\ ~ProgramEnds /\ ~Exited
      BY DEF Exec, ProgramEnds, Exited
    <3> QED
      BY <1>1, <3>1, <3>2, <3>3, <3>4, Zenon DEF Next, Parse
  <2>2. child = "zombie" /\ last_status' = StatusOf(status)
        /\ said' = MessageOf(StatusOf(status))
    BY <2>1 DEF Wait
  <2>3. ~ran => status # Exit(0)
    BY <1>1, <2>2 DEF IInv, RanInv
  <2>4. /\ StatusOf(status) = 0 <=> status = Exit(0)
        /\ MessageOf(StatusOf(status)) = "nothing" <=> StatusOf(status) = 0
    <3>1. LoopTypes
      BY <1>1, TypeParts DEF IInv
    <3> QED
      BY <3>1, StatusFacts
  <2> QED
    BY <2>2, <2>3, <2>4
<1>2. ASSUME IInv, [Next]_vars PROVE [Told]_vars
  BY <1>1, <1>2
<1> QED
  BY <1>2, Inductive, PTL DEF Spec, FailureIsTold

(* A line of any length is parsed as it is meant: the commands and arguments
   that the loop has cut in place are the segments and words of the line, and an
   error is returned only for a line that deserves it. *)
THEOREM LinesAreParsedAsMeant == Spec => []ParsedAsMeant
<1>1. Init => MeantInv
  BY InitMeant
<1>2. IInv /\ MeantInv /\ [Next]_vars => MeantInv'
  BY StepMeant
<1>3. MeantInv => ParsedAsMeant
  BY DEF MeantInv
<1> QED
  BY <1>1, <1>2, <1>3, Inductive, PTL DEF Spec
=============================================================================
