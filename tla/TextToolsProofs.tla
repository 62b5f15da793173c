-------------------------- MODULE TextToolsProofs --------------------------
(***************************************************************************)
(* minigrep and wordcount, on any files and any pattern, with a buffer of  *)
(* any size: what they print is what they promise to print.                *)
(***************************************************************************)
EXTENDS TextTools, DataLemmas

-----------------------------------------------------------------------------
(* Types. *)

(* The command line, and what is known of it where main is. *)
Phase ==
    /\ args.tool = "minigrep" => pc # "count"
    /\ args.tool = "wordcount" => pc \notin {"read", "match"}
    /\ args.tool = "minigrep" /\ pc \in {"open", "read", "match"} => args.pattern \in Text
    /\ pc \in {"read", "match", "count"} =>
          file \in 1..Len(args.files) /\ Content(file) \in Text

TypeInv == TypeOK /\ Phase

LEMMA ArgsTypes ==
    ASSUME args \in Args
    PROVE  /\ args.flags \in Seq(STRING) /\ Len(args.flags) \in Nat
           /\ args.files \in Seq(Text \cup {Missing}) /\ Len(args.files) \in Nat
           /\ args.tool \in {"minigrep", "wordcount"}
           /\ args.tool = "minigrep" /\ args.files # <<>> => args.pattern \in Text
           /\ \A k \in 1..Len(args.files) : Content(k) # Missing => Content(k) \in Text
<1>1. args.files \in Seq(Text \cup {Missing}) /\ args.flags \in Seq(STRING)
  BY ArgsAssumption
<1>2. \A k \in 1..Len(args.files) : Content(k) \in Text \cup {Missing}
  BY <1>1 DEF Content
<1> QED
  BY <1>1, <1>2, ArgsAssumption

\* fgets takes at least one character, and no more than fit.
LEMMA PieceBounds ==
    ASSUME NEW s \in Text, s # <<>>
    PROVE  LET S == {Fits, Len(s)} \cup Newlines(s)
           IN /\ S \in SUBSET Nat /\ Min(S) \in S /\ \A x \in S : Min(S) <= x
              /\ Min(S) \in 1..Len(s) /\ Min(S) < LINE_BUFFER_SZ
<1> DEFINE S == {Fits, Len(s)} \cup Newlines(s)
<1>1. Len(s) \in Nat /\ Len(s) # 0 /\ Fits \in Nat \ {0} /\ Fits < LINE_BUFFER_SZ
  BY SizeAssumption DEF Text, Fits
<1>2. Newlines(s) \in SUBSET (1..Len(s))
  BY DEF Newlines, Text
<1>3. S \in SUBSET Nat
  BY <1>1, <1>2
<1>4. Fits \in S /\ Len(s) \in S /\ \A x \in S : x >= 1
  BY <1>1, <1>2
<1> HIDE DEF S
<1>5. Min(S) \in S /\ \A x \in S : Min(S) <= x
  BY <1>3, <1>4, MinExists
<1>6. Min(S) \in Nat /\ Min(S) <= Fits /\ Min(S) <= Len(s) /\ Min(S) >= 1
  BY <1>3, <1>4, <1>5
<1>7. Min(S) \in 1..Len(s) /\ Min(S) < LINE_BUFFER_SZ
  BY <1>1, <1>6, SizeAssumption
<1>8. /\ S \in SUBSET Nat /\ Min(S) \in S /\ \A x \in S : Min(S) <= x
      /\ Min(S) \in 1..Len(s) /\ Min(S) < LINE_BUFFER_SZ
  BY <1>3, <1>5, <1>7
<1> QED
  BY <1>8 DEF S

\* A part of a text, by length and characters.
LEMMA PartOfText ==
    ASSUME NEW s \in Text, NEW m \in 1..(Len(s) + 1), NEW n \in (m - 1)..Len(s)
    PROVE  /\ SubSeq(s, m, n) \in Text /\ Len(SubSeq(s, m, n)) = n - m + 1
           /\ \A i \in 1..(n - m + 1) : SubSeq(s, m, n)[i] = s[m + i - 1]
<1>1. SubSeq(s, m, n) = [i \in 1..(n - m + 1) |-> s[i + m - 1]]
  BY DEF Text
<1>2. \A i \in 1..(n - m + 1) : i + m - 1 \in 1..Len(s)
  BY DEF Text
<1>3. \A i \in 1..(n - m + 1) : s[i + m - 1] \in Chars \cup Space
  BY <1>2 DEF Text
<1>4. n - m + 1 \in Nat
  BY DEF Text
<1> DEFINE t == [i \in 1..(n - m + 1) |-> s[i + m - 1]]
<1>5. t \in [1..(n - m + 1) -> Chars \cup Space]
  BY <1>3
<1>6. t \in Text /\ Len(t) = n - m + 1
  <2> HIDE DEF t
  <2> QED BY <1>4, <1>5 DEF Text
<1>7. \A i \in 1..(n - m + 1) : t[i] = s[m + i - 1]
  <2>1. \A i \in 1..(n - m + 1) : i + m - 1 = m + i - 1
    OBVIOUS
  <2> QED BY <2>1
<1> HIDE DEF t
<1> QED
  BY <1>1, <1>6, <1>7 DEF t

\* The parts of the types that a step may disturb on their own.
MainTypes ==
    /\ args \in Args /\ pc \in {"options", "open", "read", "match", "count", "exit"}
    /\ opts \subseteq {"n", "i", "c", "v", "l", "w"}
    /\ flag \in 1..(Len(args.flags) + 1) /\ file \in 1..(Len(args.files) + 1)
    /\ unread \in Text /\ code \in 0..4
MatchTypes ==
    /\ line \in Text /\ Len(line) < LINE_BUFFER_SZ
    /\ start \in 1..(Len(line) + 1) /\ cur \in start..(Len(line) + 1)
    /\ pc = "match" => pat \in 1..(Len(args.pattern) + 1)
CountTypes ==
    /\ {line_number, match_count, total_matches} \subseteq Nat
    /\ {counts, total} \subseteq [{"lines", "words", "chars"} -> Nat]
    /\ in_word \in BOOLEAN

LEMMA TypeParts == TypeOK <=> MainTypes /\ MatchTypes /\ CountTypes
BY DEF TypeOK, MainTypes, MatchTypes, CountTypes

LEMMA ZeroType == Zero \in [{"lines", "words", "chars"} -> Nat]
<1>1. Zero \in [lines : Nat, words : Nat, chars : Nat]
  BY DEF Zero
<1>2. [lines : Nat, words : Nat, chars : Nat] = [{"lines", "words", "chars"} -> Nat]
  OBVIOUS
<1> QED
  BY <1>1, <1>2

LEMMA TypeInit == Init => TypeInv
<1> SUFFICES ASSUME Init PROVE TypeInv
  OBVIOUS
<1>1. Len(args.flags) \in Nat /\ Len(args.files) \in Nat
  BY ArgsTypes DEF Init
<1>2. <<>> \in Text /\ Len(<<>>) < LINE_BUFFER_SZ
  BY SizeAssumption DEF Text
<1>4. TypeOK
  <2>1. MainTypes
    BY <1>1, <1>2 DEF Init, MainTypes
  <2>2. MatchTypes
    BY <1>1, <1>2 DEF Init, MatchTypes
  <2>3. CountTypes
    <3>1. /\ line_number = 0 /\ match_count = 0 /\ total_matches = 0
          /\ counts = Zero /\ total = Zero /\ in_word = FALSE
      BY DEF Init
    <3>2. {line_number, match_count, total_matches} \subseteq Nat
      BY <3>1
    <3>3. {counts, total} \subseteq [{"lines", "words", "chars"} -> Nat]
      BY <3>1, ZeroType
    <3> QED BY <3>1, <3>2, <3>3 DEF CountTypes
  <2> QED BY <2>1, <2>2, <2>3, TypeParts
<1>5. Phase
  BY DEF Init, Phase
<1> QED
  BY <1>4, <1>5 DEF TypeInv

LEMMA TypeStep == TypeInv /\ [Next]_vars => TypeInv'
<1> SUFFICES ASSUME TypeInv, [Next]_vars PROVE TypeInv'
  OBVIOUS
<1>1. /\ args.flags \in Seq(STRING) /\ Len(args.flags) \in Nat
      /\ args.files \in Seq(Text \cup {Missing}) /\ Len(args.files) \in Nat
      /\ args.tool \in {"minigrep", "wordcount"}
      /\ args.tool = "minigrep" /\ args.files # <<>> => args.pattern \in Text
      /\ \A k \in 1..Len(args.files) : Content(k) # Missing => Content(k) \in Text
  BY ArgsTypes DEF TypeInv, TypeOK
<1>2. MainTypes /\ MatchTypes /\ CountTypes /\ Phase
  BY TypeParts DEF TypeInv
<1> SUFFICES MainTypes' /\ MatchTypes' /\ CountTypes' /\ Phase'
  BY TypeParts, PTL DEF TypeInv
<1>3. CASE Usage
  <2>1. MainTypes'
    BY <1>1, <1>2, <1>3 DEF Usage, MainTypes, Grep, Exit, fileVars, Phase
  <2>2. MatchTypes'
    BY <1>2, <1>3 DEF Usage, MatchTypes, Exit, matchVars
  <2>3. CountTypes'
    BY <1>2, <1>3 DEF Usage, CountTypes, Exit, grepVars, wcVars
  <2>4. Phase'
    BY <1>1, <1>2, <1>3 DEF Usage, Phase, Grep, Exit, fileVars
  <2> QED BY <2>1, <2>2, <2>3, <2>4
<1>4. CASE Option
  <2>1. MainTypes'
    <3>1. /\ flag <= Len(args.flags) /\ UNCHANGED <<args, fileVars>>
          /\ \/ /\ args.flags[flag] \in {"n", "i", "c", "v"}
                /\ opts' = opts \cup {args.flags[flag]} /\ flag' = flag + 1
                /\ UNCHANGED <<pc, code>>
             \/ pc' = "exit" /\ code' \in 0..4 /\ UNCHANGED <<opts, flag>>
      BY <1>4 DEF Option, Grep, Exit
    <3>2. flag \in Nat /\ flag <= Len(args.flags) => flag + 1 \in 1..(Len(args.flags) + 1)
      BY <1>1, <1>2 DEF MainTypes
    <3>3. flag \in Nat
      BY <1>1, <1>2 DEF MainTypes
    <3> QED BY <1>2, <3>1, <3>2, <3>3 DEF MainTypes, fileVars
  <2>2. MatchTypes'
    BY <1>2, <1>4 DEF Option, MatchTypes, Exit, matchVars
  <2>3. CountTypes'
    BY <1>2, <1>4 DEF Option, CountTypes, Exit, grepVars, wcVars
  <2>4. Phase'
    BY <1>1, <1>2, <1>4 DEF Option, Phase, Grep, Exit, fileVars
  <2> QED BY <2>1, <2>2, <2>3, <2>4
<1>5. CASE OptionsRead
  <2>1. MainTypes'
    BY <1>1, <1>2, <1>5 DEF OptionsRead, MainTypes, Grep, Exit, fileVars, Phase
  <2>2. MatchTypes'
    BY <1>2, <1>5 DEF OptionsRead, MatchTypes, Exit, matchVars
  <2>3. CountTypes'
    BY <1>2, <1>5 DEF OptionsRead, CountTypes, Exit, grepVars, wcVars
  <2>4. Phase'
    BY <1>1, <1>2, <1>5 DEF OptionsRead, Phase, Grep, Exit, fileVars
  <2> QED BY <2>1, <2>2, <2>3, <2>4
<1>6. CASE OpenFile
  <2>1. MainTypes'
    BY <1>1, <1>2, <1>6 DEF OpenFile, MainTypes, Grep, Exit, Phase
  <2>2. MatchTypes'
    BY <1>2, <1>6 DEF OpenFile, MatchTypes, Exit, matchVars
  <2>3. CountTypes'
    BY <1>2, <1>6 DEF OpenFile, CountTypes, Exit, wcVars
  <2>4. Phase'
    BY <1>1, <1>2, <1>6 DEF OpenFile, Phase, Grep, Exit, Content, MainTypes
  <2> QED BY <2>1, <2>2, <2>3, <2>4
<1>7. CASE ReadLine
  <2>1. unread \in Text /\ unread # <<>>
    BY <1>2, <1>7 DEF ReadLine, MainTypes
  <2>2. PieceLength \in 1..Len(unread) /\ PieceLength < LINE_BUFFER_SZ /\ Len(unread) \in Nat
    BY <2>1, PieceBounds DEF PieceLength, Text
  <2>3. line' \in Text /\ Len(line') = PieceLength
    <3>1. 1 \in 1..(Len(unread) + 1) /\ PieceLength \in 0..Len(unread) /\ 1 - 1 = 0
      BY <2>2
    <3>2. SubSeq(unread, 1, PieceLength) \in Text
          /\ Len(SubSeq(unread, 1, PieceLength)) = PieceLength - 1 + 1
      BY <2>1, <3>1, PartOfText
    <3> QED BY <1>7, <2>2, <3>2 DEF ReadLine
  <2>4. unread' \in Text
    <3>1. PieceLength + 1 \in 1..(Len(unread) + 1)
          /\ Len(unread) \in ((PieceLength + 1) - 1)..Len(unread)
      BY <2>2
    <3>2. SubSeq(unread, PieceLength + 1, Len(unread)) \in Text
      BY <2>1, <3>1, PartOfText
    <3> QED BY <1>7, <3>2 DEF ReadLine
  <2>5. MainTypes'
    BY <1>2, <1>7, <2>4 DEF ReadLine, MainTypes, Grep
  <2>6. MatchTypes'
    <3>1. args.pattern \in Text /\ args' = args /\ start' = 1 /\ cur' = 1 /\ pat' = 1
      BY <1>2, <1>7 DEF ReadLine, Grep, Phase
    <3>2. Len(args.pattern) \in Nat
      BY <3>1 DEF Text
    <3> QED BY <2>2, <2>3, <3>1, <3>2 DEF MatchTypes
  <2>7. CountTypes'
    BY <1>2, <1>7 DEF ReadLine, CountTypes, wcVars
  <2>8. Phase'
    BY <1>2, <1>7 DEF ReadLine, Phase, Grep, Content
  <2> QED BY <2>5, <2>6, <2>7, <2>8
<1>8. CASE Compare
  <2>1. args.pattern \in Text /\ Len(args.pattern) \in Nat /\ Len(line) \in Nat /\ pc = "match"
    BY <1>2, <1>8 DEF Compare, Grep, Phase, MatchTypes, Text
  <2>2. MainTypes'
    BY <1>2, <1>8 DEF Compare, MainTypes, Judge, fileVars, grepVars
  <2>3. MatchTypes'
    <3>1. CASE pat > Len(args.pattern) \/ start > Len(line)
      <4>1. pc' = "read" /\ UNCHANGED <<line, start, cur, pat, args>>
        BY <1>8, <3>1 DEF Compare, Judge, matchVars
      <4> QED BY <1>2, <4>1 DEF MatchTypes
    <3>2. CASE ~(pat > Len(args.pattern)) /\ ~(start > Len(line))
      <4>1. /\ UNCHANGED <<pc, line, args>>
            /\ \/ /\ cur <= Len(line)
                  /\ cur' = cur + 1 /\ pat' = pat + 1 /\ UNCHANGED start
               \/ start' = start + 1 /\ cur' = start + 1 /\ pat' = 1
        BY <1>8, <3>2 DEF Compare, Restart
      <4> QED BY <1>2, <2>1, <3>2, <4>1 DEF MatchTypes
    <3> QED BY <3>1, <3>2
  <2>4. CountTypes'
    <3>1. /\ UNCHANGED <<line_number, counts, total, in_word>>
          /\ match_count' \in {match_count, match_count + 1}
          /\ total_matches' \in {total_matches, total_matches + 1}
      BY <1>8 DEF Compare, Judge, grepVars, wcVars
    <3> QED BY <1>2, <3>1 DEF CountTypes
  <2>5. Phase'
    BY <1>2, <1>8 DEF Compare, Judge, Phase, Grep, Content, fileVars
  <2> QED BY <2>2, <2>3, <2>4, <2>5
<1>9. CASE CloseFile
  <2>1. MainTypes'
    BY <1>1, <1>2, <1>9 DEF CloseFile, MainTypes, Grep, Phase
  <2>2. MatchTypes'
    BY <1>2, <1>9 DEF CloseFile, MatchTypes, matchVars
  <2>3. CountTypes'
    BY <1>2, <1>9 DEF CloseFile, CountTypes, grepVars, wcVars
  <2>4. Phase'
    BY <1>1, <1>2, <1>9 DEF CloseFile, Phase, Grep
  <2> QED BY <2>1, <2>2, <2>3, <2>4
<1>10. CASE AllSearched
  <2>1. MainTypes'
    BY <1>1, <1>2, <1>10 DEF AllSearched, MainTypes, Grep, Exit, fileVars, Phase
  <2>2. MatchTypes'
    BY <1>2, <1>10 DEF AllSearched, MatchTypes, Exit, matchVars
  <2>3. CountTypes'
    BY <1>2, <1>10 DEF AllSearched, CountTypes, Exit, grepVars, wcVars
  <2>4. Phase'
    BY <1>1, <1>2, <1>10 DEF AllSearched, Phase, Grep, Exit, fileVars
  <2> QED BY <2>1, <2>2, <2>3, <2>4
<1>11. CASE WcOption
  <2>1. MainTypes'
    <3>1. /\ flag <= Len(args.flags) /\ UNCHANGED <<args, fileVars>>
          /\ \/ /\ args.flags[flag] \in {"l", "w", "c"}
                /\ opts' = opts \cup {args.flags[flag]} /\ flag' = flag + 1
                /\ UNCHANGED <<pc, code>>
             \/ pc' = "exit" /\ code' \in 0..4 /\ UNCHANGED <<opts, flag>>
      BY <1>11 DEF WcOption, Wc, Exit
    <3>2. flag \in Nat /\ flag <= Len(args.flags) => flag + 1 \in 1..(Len(args.flags) + 1)
      BY <1>1, <1>2 DEF MainTypes
    <3>3. flag \in Nat
      BY <1>1, <1>2 DEF MainTypes
    <3> QED BY <1>2, <3>1, <3>2, <3>3 DEF MainTypes, fileVars
  <2>2. MatchTypes'
    BY <1>2, <1>11 DEF WcOption, MatchTypes, Exit, matchVars
  <2>3. CountTypes'
    BY <1>2, <1>11 DEF WcOption, CountTypes, Exit, grepVars, wcVars
  <2>4. Phase'
    BY <1>1, <1>2, <1>11 DEF WcOption, Phase, Wc, Exit, fileVars
  <2> QED BY <2>1, <2>2, <2>3, <2>4
<1>12. CASE WcOptionsRead
  <2>1. MainTypes'
    BY <1>1, <1>2, <1>12 DEF WcOptionsRead, MainTypes, Wc, fileVars, Phase
  <2>2. MatchTypes'
    BY <1>2, <1>12 DEF WcOptionsRead, MatchTypes, matchVars
  <2>3. CountTypes'
    BY <1>2, <1>12 DEF WcOptionsRead, CountTypes, grepVars, wcVars
  <2>4. Phase'
    BY <1>1, <1>2, <1>12 DEF WcOptionsRead, Phase, Wc, fileVars
  <2> QED BY <2>1, <2>2, <2>3, <2>4
<1>13. CASE WcOpen
  <2>1. MainTypes'
    BY <1>1, <1>2, <1>13 DEF WcOpen, MainTypes, Wc, Exit, Phase
  <2>2. MatchTypes'
    BY <1>2, <1>13 DEF WcOpen, MatchTypes, Exit, matchVars
  <2>3. CountTypes'
    <3>1. /\ UNCHANGED <<grepVars, total>>
          /\ UNCHANGED <<counts, in_word>> \/ (counts' = Zero /\ in_word' = FALSE)
      BY <1>13 DEF WcOpen
    <3> QED BY <1>2, <3>1, ZeroType DEF CountTypes, grepVars
  <2>4. Phase'
    BY <1>1, <1>2, <1>13 DEF WcOpen, Phase, Wc, Exit, Content, MainTypes
  <2> QED BY <2>1, <2>2, <2>3, <2>4
<1>14. CASE CountChar
  <2>1. unread \in Text /\ unread # <<>>
    BY <1>2, <1>14 DEF CountChar, MainTypes
  <2>2. unread' \in Text
    BY <1>14, <2>1 DEF CountChar, Text
  <2>3. MainTypes'
    BY <1>2, <1>14, <2>2 DEF CountChar, MainTypes
  <2>4. MatchTypes'
    BY <1>2, <1>14 DEF CountChar, MatchTypes, matchVars
  <2>5. CountTypes'
    <3>1. PICK i \in {0, 1}, j \in {0, 1} :
             counts' = [lines |-> counts.lines + i, words |-> counts.words + j,
                        chars |-> counts.chars + 1]
      BY <1>14 DEF CountChar
    <3>2. counts' \in [{"lines", "words", "chars"} -> Nat]
      BY <1>2, <3>1 DEF CountTypes
    <3>3. in_word' \in BOOLEAN /\ UNCHANGED <<grepVars, total>>
      BY <1>14 DEF CountChar
    <3> QED BY <1>2, <3>2, <3>3 DEF CountTypes, grepVars
  <2>6. Phase'
    BY <1>2, <1>14 DEF CountChar, Phase, Wc, Content
  <2> QED BY <2>3, <2>4, <2>5, <2>6
<1>15. CASE WcClose
  <2>1. MainTypes'
    BY <1>1, <1>2, <1>15 DEF WcClose, MainTypes, Wc, Phase
  <2>2. MatchTypes'
    BY <1>2, <1>15 DEF WcClose, MatchTypes, matchVars
  <2>3. CountTypes'
    <3>1. total' \in [{"lines", "words", "chars"} -> Nat]
      BY <1>2, <1>15 DEF WcClose, CountTypes
    <3> QED BY <1>2, <1>15, <3>1 DEF WcClose, CountTypes, grepVars
  <2>4. Phase'
    BY <1>2, <1>15 DEF WcClose, Phase, Wc, Content
  <2> QED BY <2>1, <2>2, <2>3, <2>4
<1>16. CASE WcEnd
  <2>1. MainTypes'
    BY <1>1, <1>2, <1>16 DEF WcEnd, MainTypes, Wc, Exit, fileVars, Phase
  <2>2. MatchTypes'
    BY <1>2, <1>16 DEF WcEnd, MatchTypes, Exit, matchVars
  <2>3. CountTypes'
    BY <1>2, <1>16 DEF WcEnd, CountTypes, Exit, grepVars, wcVars
  <2>4. Phase'
    BY <1>1, <1>2, <1>16 DEF WcEnd, Phase, Wc, Exit, fileVars
  <2> QED BY <2>1, <2>2, <2>3, <2>4
<1>17. CASE UNCHANGED vars
  BY <1>2, <1>17 DEF MainTypes, MatchTypes, CountTypes, Phase, Content, vars, fileVars,
     matchVars, grepVars, wcVars
<1> QED
  BY <1>3, <1>4, <1>5, <1>6, <1>7, <1>8, <1>9, <1>10, <1>11, <1>12, <1>13,
     <1>14, <1>15, <1>16, <1>17 DEF Next, Exited

(* The variables keep their types; line_buffer holds its line and a NUL, and
   str_match never looks past them. *)
THEOREM TypeCorrect == Spec => []TypeOK
<1>1. TypeInv => TypeOK
  BY DEF TypeInv
<1> QED
  BY <1>1, TypeInit, TypeStep, PTL DEF Spec

-----------------------------------------------------------------------------
(* Reading. *)

\* What is left of s after n characters.
Rest(s, n) == SubSeq(s, n + 1, Len(s))

LEMMA RestFacts ==
    ASSUME NEW s \in Text, NEW n \in 0..Len(s)
    PROVE  /\ Rest(s, n) \in Text /\ Len(Rest(s, n)) = Len(s) - n
           /\ \A i \in 1..(Len(s) - n) : Rest(s, n)[i] = s[n + i]
           /\ Rest(s, n) = <<>> <=> n = Len(s)
<1>1. Len(s) \in Nat /\ n + 1 \in 1..(Len(s) + 1) /\ Len(s) \in ((n + 1) - 1)..Len(s)
  BY DEF Text
<1>2. /\ Rest(s, n) \in Text /\ Len(Rest(s, n)) = Len(s) - (n + 1) + 1
      /\ \A i \in 1..(Len(s) - (n + 1) + 1) : Rest(s, n)[i] = s[(n + 1) + i - 1]
  BY <1>1, PartOfText DEF Rest
<1>3. Len(s) - (n + 1) + 1 = Len(s) - n /\ \A i \in Int : (n + 1) + i - 1 = n + i
  BY <1>1
<1>4. Rest(s, n) = <<>> <=> Len(Rest(s, n)) = 0
  BY <1>2 DEF Text
<1> QED
  BY <1>1, <1>2, <1>3, <1>4

LEMMA TextEqual ==
    ASSUME NEW s \in Text, NEW t \in Text, Len(s) = Len(t),
           \A i \in 1..Len(s) : s[i] = t[i]
    PROVE  s = t
BY SeqEqual DEF Text

\* Taking p more characters.
LEMMA RestSplits ==
    ASSUME NEW s \in Text, NEW n \in 0..Len(s), NEW p \in 0..(Len(s) - n)
    PROVE  /\ SubSeq(Rest(s, n), 1, p) = SubSeq(s, n + 1, n + p)
           /\ SubSeq(Rest(s, n), p + 1, Len(Rest(s, n))) = Rest(s, n + p)
<1> DEFINE u == Rest(s, n)  l == Len(s)
<1>1. l \in Nat /\ u \in Text /\ Len(u) = l - n /\ \A i \in 1..(l - n) : u[i] = s[n + i]
  BY RestFacts DEF Text
<1> HIDE DEF u
<1>2. SubSeq(u, 1, p) = SubSeq(s, n + 1, n + p)
  <2>1. 1 \in 1..(Len(u) + 1) /\ p \in (1 - 1)..Len(u)
    BY <1>1
  <2>2. /\ SubSeq(u, 1, p) \in Text /\ Len(SubSeq(u, 1, p)) = p - 1 + 1
        /\ \A i \in 1..(p - 1 + 1) : SubSeq(u, 1, p)[i] = u[1 + i - 1]
    BY <1>1, <2>1, PartOfText
  <2>3. n + 1 \in 1..(l + 1) /\ n + p \in ((n + 1) - 1)..l
    BY <1>1
  <2>4. /\ SubSeq(s, n + 1, n + p) \in Text /\ Len(SubSeq(s, n + 1, n + p)) = n + p - (n + 1) + 1
        /\ \A i \in 1..(n + p - (n + 1) + 1) : SubSeq(s, n + 1, n + p)[i] = s[(n + 1) + i - 1]
    BY <2>3, PartOfText
  <2>5. p - 1 + 1 = p /\ n + p - (n + 1) + 1 = p
    BY <1>1
  <2>6. \A i \in 1..p : SubSeq(u, 1, p)[i] = SubSeq(s, n + 1, n + p)[i]
    <3> TAKE i \in 1..p
    <3>1. 1 + i - 1 = i /\ (n + 1) + i - 1 = n + i /\ i \in 1..(l - n)
      BY <1>1
    <3> QED BY <1>1, <2>2, <2>4, <2>5, <3>1
  <2> QED BY <2>2, <2>4, <2>5, <2>6, TextEqual
<1>3. SubSeq(u, p + 1, Len(u)) = Rest(s, n + p)
  <2>1. p \in 0..Len(u) /\ n + p \in 0..l
    BY <1>1
  <2>2. /\ Rest(u, p) \in Text /\ Len(Rest(u, p)) = Len(u) - p
        /\ \A i \in 1..(Len(u) - p) : Rest(u, p)[i] = u[p + i]
    BY <1>1, <2>1, RestFacts
  <2>3. /\ Rest(s, n + p) \in Text /\ Len(Rest(s, n + p)) = l - (n + p)
        /\ \A i \in 1..(l - (n + p)) : Rest(s, n + p)[i] = s[n + p + i]
    BY <1>1, <2>1, RestFacts
  <2>4. Len(u) - p = l - (n + p)
    BY <1>1
  <2>5. \A i \in 1..(Len(u) - p) : Rest(u, p)[i] = Rest(s, n + p)[i]
    <3> TAKE i \in 1..(Len(u) - p)
    <3>1. p + i \in 1..(l - n) /\ n + (p + i) = n + p + i
      BY <1>1
    <3> QED BY <1>1, <2>2, <2>3, <2>4, <3>1
  <2>6. Rest(u, p) = Rest(s, n + p)
    BY <2>2, <2>3, <2>4, <2>5, TextEqual
  <2> QED BY <2>6 DEF Rest
<1> QED
  BY <1>2, <1>3 DEF u

\* The first of what is left, and what then is left.
LEMMA RestHead ==
    ASSUME NEW s \in Text, NEW n \in 0..Len(s), n # Len(s)
    PROVE  Head(Rest(s, n)) = s[n + 1] /\ Tail(Rest(s, n)) = Rest(s, n + 1)
<1> DEFINE u == Rest(s, n)
<1>1. u \in Text /\ u # <<>> /\ u[1] = s[n + 1] /\ Len(s) \in Nat /\ 1 \in 0..(Len(s) - n)
  <2>1. Len(s) \in Nat /\ 1 \in 1..(Len(s) - n) /\ 1 \in 0..(Len(s) - n)
    BY DEF Text
  <2> QED BY <2>1, RestFacts
<1>2. SubSeq(u, 1 + 1, Len(u)) = Rest(s, n + 1)
  BY <1>1, RestSplits
<1> HIDE DEF u
<1>3. Tail(u) = SubSeq(u, 2, Len(u)) /\ Head(u) = u[1]
  BY <1>1 DEF Text
<1> QED
  BY <1>1, <1>2, <1>3 DEF u

-----------------------------------------------------------------------------
(* Files are read from front to back, one after the other, and none of those
   before this one was missing. *)
Done == Len(Content(file)) - Len(unread)
ReadInv ==
    /\ pc = "options" => /\ file = 1 /\ out = <<>> /\ total_matches = 0 /\ total = Zero
    /\ pc # "options" => \A k \in 1..(file - 1) : Content(k) # Missing
    /\ pc \in {"read", "match", "count"} =>
          Done \in 0..Len(Content(file)) /\ unread = Rest(Content(file), Done)
                /\ Content(file) # Missing

LEMMA RestWhole ==
    ASSUME NEW s \in Text
    PROVE  Rest(s, 0) = s /\ Len(s) \in Nat
<1>1. Len(s) \in Nat /\ 0 \in 0..Len(s)
  BY DEF Text
<1>2. Rest(s, 0) \in Text /\ Len(Rest(s, 0)) = Len(s) - 0
      /\ \A i \in 1..(Len(s) - 0) : Rest(s, 0)[i] = s[0 + i]
  BY <1>1, RestFacts
<1>3. \A i \in 1..Len(s) : Rest(s, 0)[i] = s[i]
  BY <1>1, <1>2
<1> QED
  BY <1>1, <1>2, <1>3, TextEqual

LEMMA ReadInit == Init => ReadInv
BY DEF Init, ReadInv

\* Nothing that ReadInv speaks of changes but the place in main.
LEMMA ReadKept ==
    ASSUME ReadInv, UNCHANGED <<args, file, unread>>, pc' # "options",
           pc' \in {"read", "match", "count"} => pc \in {"read", "match", "count"},
           pc = "options" => file = 1
    PROVE  ReadInv'
<1>1. (pc # "options" => \A k \in 1..(file - 1) : Content(k) # Missing)'
  BY DEF ReadInv, Content
<1>2. (pc \in {"read", "match", "count"} =>
          Done \in 0..Len(Content(file)) /\ unread = Rest(Content(file), Done)
                /\ Content(file) # Missing)'
  BY DEF ReadInv, Done, Content, Rest
<1> QED
  BY <1>1, <1>2 DEF ReadInv

LEMMA OpenKept ==
    ASSUME TypeInv, ReadInv, UNCHANGED <<args, file>>, pc = "open",
           pc' \in {"read", "count"}, file <= Len(args.files), Content(file) # Missing,
           unread' = Content(file)
    PROVE  ReadInv'
<1>1. Len(args.files) \in Nat /\ file \in 1..Len(args.files)
  BY ArgsTypes DEF TypeInv, TypeOK
<1>2. Content(file) \in Text
  BY <1>1, ArgsTypes DEF TypeInv, TypeOK
<1>3. Len(Content(file)) \in Nat /\ Rest(Content(file), 0) = Content(file)
  BY <1>2, RestWhole
<1>4. Content(file)' = Content(file) /\ Done' = 0
  BY <1>3 DEF Content, Done
<1>5. (pc \in {"read", "match", "count"} =>
          Done \in 0..Len(Content(file)) /\ unread = Rest(Content(file), Done)
                /\ Content(file) # Missing)'
  BY <1>3, <1>4
<1>6. (\A k \in 1..(file - 1) : Content(k) # Missing)'
  BY DEF ReadInv, Content
<1> QED
  BY <1>5, <1>6 DEF ReadInv

LEMMA CloseKept ==
    ASSUME TypeInv, ReadInv, UNCHANGED args, pc \in {"read", "count"}, pc' = "open",
           file' = file + 1
    PROVE  ReadInv'
<1>1. file \in Nat /\ Content(file) # Missing /\ \A k \in 1..(file - 1) : Content(k) # Missing
  BY DEF ReadInv, TypeInv, TypeOK
<1>2. \A k \in 1..file' - 1 : k = file \/ k \in 1..(file - 1)
  BY <1>1
<1>3. (\A k \in 1..(file - 1) : Content(k) # Missing)'
  BY <1>1, <1>2 DEF Content
<1> QED
  BY <1>3 DEF ReadInv

LEMMA ReadStep == TypeInv /\ ReadInv /\ [Next]_vars => ReadInv'
<1> SUFFICES ASSUME TypeInv, ReadInv, [Next]_vars PROVE ReadInv'
  OBVIOUS
<1>1. CASE Usage
  BY <1>1, ReadKept DEF Usage, Grep, Exit, ReadInv, fileVars
<1>2. CASE Option
  BY <1>2, ReadKept DEF Option, Grep, Exit, ReadInv, fileVars, grepVars, wcVars
<1>3. CASE OptionsRead
  BY <1>3, ReadKept DEF OptionsRead, Grep, Exit, ReadInv, fileVars
<1>4. CASE OpenFile
  <2>1. CASE Content(file) = Missing
    BY <1>4, <2>1, ReadKept DEF OpenFile, Grep, Exit
  <2>2. CASE Content(file) # Missing
    BY <1>4, <2>2, OpenKept DEF OpenFile, Grep
  <2> QED BY <2>1, <2>2
<1>5. CASE ReadLine
  <2> DEFINE s == Content(file)
  <2>1. /\ pc = "read" /\ unread # <<>> /\ s \in Text /\ Done \in 0..Len(s)
        /\ unread = Rest(s, Done) /\ unread \in Text /\ Len(s) \in Nat
    BY <1>5, RestWhole DEF ReadLine, Grep, ReadInv, TypeInv, TypeOK, Phase
  <2>2. PieceLength \in 1..Len(unread)
    BY <2>1, PieceBounds DEF PieceLength
  <2>3. Len(unread) = Len(s) - Done
    BY <2>1 DEF Done, Text
  <2>4. PieceLength \in 0..(Len(s) - Done) /\ Done + PieceLength \in 0..Len(s)
    BY <2>1, <2>2, <2>3
  <2> HIDE DEF s
  <2>5. unread' = Rest(s, Done + PieceLength)
    <3>1. unread' = SubSeq(Rest(s, Done), PieceLength + 1, Len(Rest(s, Done)))
      BY <1>5, <2>1 DEF ReadLine
    <3> QED BY <2>1, <2>4, <3>1, RestSplits
  <2>6. Len(unread') = Len(s) - (Done + PieceLength)
    BY <2>1, <2>4, <2>5, RestFacts
  <2>7. s' = s /\ Done' = Done + PieceLength
    <3>1. s' = s /\ Done' = Len(s) - Len(unread')
      BY <1>5 DEF ReadLine, Done, Content, s
    <3>2. PieceLength \in Nat /\ Done \in Nat
      BY <2>1, <2>4
    <3> QED BY <2>1, <2>6, <3>1, <3>2
  <2>8. (pc \in {"read", "match", "count"} =>
            Done \in 0..Len(s) /\ unread = Rest(s, Done) /\ s # Missing)'
    <3>1. s # Missing
      BY <2>1 DEF ReadInv, s
    <3> QED BY <2>4, <2>5, <2>7, <3>1
  <2>9. (\A k \in 1..(file - 1) : Content(k) # Missing)'
    BY <1>5, <2>1 DEF ReadLine, ReadInv, Content
  <2>10. pc' = "match"
    BY <1>5 DEF ReadLine
  <2> QED BY <2>8, <2>9, <2>10 DEF ReadInv, s
<1>6. CASE Compare
  BY <1>6, ReadKept DEF Compare, Judge, Grep, fileVars
<1>7. CASE CloseFile
  BY <1>7, CloseKept DEF CloseFile, Grep
<1>8. CASE AllSearched
  BY <1>8, ReadKept DEF AllSearched, Grep, Exit, fileVars
<1>9. CASE WcOption
  BY <1>9, ReadKept DEF WcOption, Wc, Exit, ReadInv, fileVars, grepVars, wcVars
<1>10. CASE WcOptionsRead
  BY <1>10, ReadKept DEF WcOptionsRead, Wc, ReadInv, fileVars
<1>11. CASE WcOpen
  <2>1. CASE Content(file) = Missing
    BY <1>11, <2>1, ReadKept DEF WcOpen, Wc, Exit
  <2>2. CASE Content(file) # Missing
    BY <1>11, <2>2, OpenKept DEF WcOpen, Wc
  <2> QED BY <2>1, <2>2
<1>12. CASE CountChar
  <2> DEFINE s == Content(file)
  <2>1. /\ pc = "count" /\ unread # <<>> /\ s \in Text /\ Done \in 0..Len(s)
        /\ unread = Rest(s, Done) /\ unread \in Text /\ Len(s) \in Nat
    BY <1>12, RestWhole DEF CountChar, Wc, ReadInv, TypeInv, TypeOK, Phase
  <2>2. Done # Len(s)
    BY <2>1, RestFacts
  <2> HIDE DEF s
  <2>3. unread' = Rest(s, Done + 1)
    BY <1>12, <2>1, <2>2, RestHead DEF CountChar
  <2>4. Done + 1 \in 0..Len(s)
    BY <2>1, <2>2
  <2>5. Len(unread') = Len(s) - (Done + 1)
    BY <2>1, <2>3, <2>4, RestFacts
  <2>6. s' = s /\ Done' = Done + 1
    BY <1>12, <2>1, <2>4, <2>5 DEF CountChar, Done, Content, s
  <2>7. (pc \in {"read", "match", "count"} =>
            Done \in 0..Len(s) /\ unread = Rest(s, Done) /\ s # Missing)'
    <3>1. s # Missing
      BY <2>1 DEF ReadInv, s
    <3> QED BY <2>3, <2>4, <2>6, <3>1
  <2>8. (\A k \in 1..(file - 1) : Content(k) # Missing)'
    BY <1>12, <2>1 DEF CountChar, ReadInv, Content
  <2>9. pc' = "count"
    BY <1>12, <2>1 DEF CountChar
  <2> QED BY <2>7, <2>8, <2>9 DEF ReadInv, s
<1>13. CASE WcClose
  BY <1>13, CloseKept DEF WcClose, Wc
<1>14. CASE WcEnd
  BY <1>14, ReadKept DEF WcEnd, Wc, Exit, fileVars
<1>15. CASE UNCHANGED vars
  BY <1>15 DEF ReadInv, Done, Content, Rest, vars, fileVars, wcVars, grepVars
<1> QED
  BY <1>1, <1>2, <1>3, <1>4, <1>5, <1>6, <1>7, <1>8, <1>9, <1>10, <1>11, <1>12, <1>13,
     <1>14, <1>15 DEF Next, Exited

-----------------------------------------------------------------------------
(* wordcount: what is counted of the first n characters. *)
CountedTo(s, n) ==
    [lines |-> Cardinality(UpTo(Newlines(s), n)),
     words |-> Cardinality(UpTo(WordStarts(s), n)), chars |-> n]

LEMMA CountedBounds ==
    ASSUME NEW s \in Text
    PROVE  /\ Len(s) \in Nat /\ Newlines(s) \in SUBSET (1..Len(s))
           /\ WordStarts(s) \in SUBSET (1..Len(s))
BY DEF Text, Newlines, WordStarts

LEMMA CountedWhole ==
    ASSUME NEW s \in Text
    PROVE  CountedTo(s, 0) = Zero /\ CountedTo(s, Len(s)) = Counted(s)
<1>1. UpTo(Newlines(s), 0) = {} /\ UpTo(WordStarts(s), 0) = {}
      /\ UpTo(Newlines(s), Len(s)) = Newlines(s) /\ UpTo(WordStarts(s), Len(s)) = WordStarts(s)
  BY CountedBounds, UpToEnds
<1>2. Cardinality({}) = 0
  BY FS_EmptySet
<1> QED
  BY <1>1, <1>2 DEF CountedTo, Counted, Zero

LEMMA CountedNext ==
    ASSUME NEW s \in Text, NEW n \in 0..Len(s), n # Len(s), NEW c, c = s[n + 1],
           NEW w \in BOOLEAN, w <=> n > 0 /\ s[n] \notin Space
    PROVE  CountedTo(s, n + 1) =
              [lines |-> CountedTo(s, n).lines + (IF c = NEWLINE THEN 1 ELSE 0),
               words |-> CountedTo(s, n).words + (IF c \notin Space /\ ~w THEN 1 ELSE 0),
               chars |-> CountedTo(s, n).chars + 1]
<1>1. Len(s) \in Nat /\ n \in Nat /\ n + 1 \in 1..Len(s) /\ n + 1 \in DOMAIN s
  BY DEF Text
<1>2. Newlines(s) \in SUBSET (0..Len(s)) /\ WordStarts(s) \in SUBSET (0..Len(s))
  BY CountedBounds, UpToEnds
<1>3. n + 1 \in Newlines(s) <=> c = NEWLINE
  BY <1>1 DEF Newlines
<1>4. n + 1 \in WordStarts(s) <=> c \notin Space /\ ~w
  <2>1. n + 1 \in WordStarts(s) <=> c \notin Space /\ (n + 1 = 1 \/ s[(n + 1) - 1] \in Space)
    BY <1>1 DEF WordStarts
  <2>2. (n + 1) - 1 = n /\ (n + 1 = 1 <=> ~(n > 0))
    BY <1>1
  <2> QED BY <2>1, <2>2
<1>5. Cardinality(UpTo(Newlines(s), n + 1))
         = Cardinality(UpTo(Newlines(s), n)) + (IF c = NEWLINE THEN 1 ELSE 0)
  <2>1. Cardinality(UpTo(Newlines(s), n)) \in Nat
    BY <1>1, <1>2, UpToFinite
  <2>2. /\ n + 1 \notin Newlines(s) => UpTo(Newlines(s), n + 1) = UpTo(Newlines(s), n)
        /\ n + 1 \in Newlines(s) =>
              Cardinality(UpTo(Newlines(s), n + 1)) = Cardinality(UpTo(Newlines(s), n)) + 1
    BY <1>1, <1>2, UpToNext
  <2> QED BY <1>3, <2>1, <2>2
<1>6. Cardinality(UpTo(WordStarts(s), n + 1))
         = Cardinality(UpTo(WordStarts(s), n)) + (IF c \notin Space /\ ~w THEN 1 ELSE 0)
  <2>1. Cardinality(UpTo(WordStarts(s), n)) \in Nat
    BY <1>1, <1>2, UpToFinite
  <2>2. /\ n + 1 \notin WordStarts(s) => UpTo(WordStarts(s), n + 1) = UpTo(WordStarts(s), n)
        /\ n + 1 \in WordStarts(s) =>
              Cardinality(UpTo(WordStarts(s), n + 1)) = Cardinality(UpTo(WordStarts(s), n)) + 1
    BY <1>1, <1>2, UpToNext
  <2> QED BY <1>4, <2>1, <2>2
<1> QED
  BY <1>5, <1>6 DEF CountedTo

\* f[i] is the sum of the first i files.
SumsOf(f, n) ==
    /\ f[0] = Zero
    /\ \A i \in 1..n : f[i] = [x \in DOMAIN Zero |-> f[i - 1][x] + Counted(Content(i))[x]]

WcInv ==
    /\ pc = "count" =>
          /\ counts = CountedTo(Content(file), Done)
          /\ in_word <=> Done > 0 /\ Content(file)[Done] \notin Space
    /\ args.tool = "wordcount" /\ pc \in {"open", "count"} =>
          /\ out = FlattenSeq([k \in 1..(file - 1) |-> WcReport(k)])
          /\ \E f : SumsOf(f, file - 1) /\ f[file - 1] = total

LEMMA WcInit == Init => WcInv
BY DEF Init, WcInv

LEMMA SumsKept ==
    ASSUME NEW f, NEW n, args' = args, SumsOf(f, n)
    PROVE  SumsOf(f, n)'
BY DEF SumsOf, Content

LEMMA ReportsKept ==
    ASSUME UNCHANGED <<args, opts>>
    PROVE  \A k : WcReport(k)' = WcReport(k)
BY DEF WcReport, Content, Shown

\* Nothing that WcInv speaks of changes.
LEMMA WcKept ==
    ASSUME WcInv, UNCHANGED <<args, opts, file, out, total>>, pc' # "count",
           pc' = "open" => pc = "open"
    PROVE  WcInv'
<1>1. ASSUME args.tool = "wordcount", pc' = "open"
      PROVE  /\ out' = FlattenSeq([k \in 1..(file' - 1) |-> WcReport(k)'])
             /\ \E f : SumsOf(f, file - 1)' /\ f[file - 1] = total
  <2>1. /\ out = FlattenSeq([k \in 1..(file - 1) |-> WcReport(k)])
        /\ \E f : SumsOf(f, file - 1) /\ f[file - 1] = total
    BY <1>1 DEF WcInv
  <2>2. \E f : SumsOf(f, file - 1)' /\ f[file - 1] = total
    <3>1. PICK f : SumsOf(f, file - 1) /\ f[file - 1] = total
      BY <2>1
    <3>2. SumsOf(f, file - 1)'
      BY <3>1, SumsKept
    <3> QED BY <3>1, <3>2
  <2> QED BY <2>1, <2>2, ReportsKept
<1> QED
  BY <1>1 DEF WcInv

-----------------------------------------------------------------------------
(* The files that could be read are those before the one main is at. *)
LEMMA ReadableSoFar ==
    ASSUME TypeInv, ReadInv, pc # "options",
           file > Len(args.files) \/ Content(file) = Missing
    PROVE  /\ Readable = 1..(file - 1) /\ Cardinality(Readable) = file - 1 /\ file - 1 \in Nat
           /\ Readable = DOMAIN args.files <=> file > Len(args.files)
<1>1. /\ args.files \in Seq(Text \cup {Missing}) /\ Len(args.files) \in Nat
      /\ file \in 1..(Len(args.files) + 1) /\ file - 1 \in Nat
      /\ \A k \in 1..(file - 1) : Content(k) # Missing
  BY ArgsTypes DEF TypeInv, TypeOK, ReadInv
<1>2. Readable = 1..(file - 1)
  <2>1. ASSUME NEW k \in 1..(file - 1) PROVE k \in Readable
    BY <1>1, <2>1 DEF Readable
  <2>2. ASSUME NEW k \in Readable PROVE k \in 1..(file - 1)
    <3>1. k \in 1..Len(args.files) /\ \A j \in 1..k : Content(j) # Missing
      BY <1>1 DEF Readable
    <3>2. ~(file <= k)
      <4>1. file <= k => file \in 1..k /\ ~(file > Len(args.files))
        BY <1>1, <3>1
      <4> QED BY <3>1, <4>1
    <3> QED BY <1>1, <3>1, <3>2
  <2> QED BY <2>1, <2>2
<1>3. Cardinality(1..(file - 1)) = file - 1
  <2>1. Cardinality(1..(file - 1)) = IF 1 > file - 1 THEN 0 ELSE (file - 1) - 1 + 1
    BY <1>1, FS_Interval
  <2> QED BY <1>1, <2>1
<1>4. 1..(file - 1) = DOMAIN args.files <=> file > Len(args.files)
  <2>1. DOMAIN args.files = 1..Len(args.files)
    BY <1>1
  <2>2. file > Len(args.files) => file - 1 = Len(args.files)
    BY <1>1
  <2>3. ~(file > Len(args.files)) => file \in 1..Len(args.files) /\ file \notin 1..(file - 1)
    BY <1>1
  <2> QED BY <2>1, <2>2, <2>3
<1> QED
  BY <1>1, <1>2, <1>3, <1>4

\* The sums are what CountedAll adds up.
LEMMA SumsAreCounted ==
    ASSUME NEW f, Len(args.files) \in Nat, SumsOf(f, Len(args.files))
    PROVE  f[Len(args.files)] = CountedAll
<1> DEFINE n == Len(args.files)
           Add(F, k) == [x \in DOMAIN Zero |-> F[k - 1][x] + Counted(Content(k))[x]]
           Body(F) == [k \in 0..n |-> IF k = 0 THEN Zero ELSE Add(F, k)]
           S == CHOOSE F : F = Body(F)
           G == [k \in 0..n |-> f[k]]
<1>1. CountedAll = S[n]
  BY DEF CountedAll
<1>2. n \in Nat /\ f[0] = Zero /\ \A k \in 1..n : f[k] = Add(f, k)
  BY DEF SumsOf
<1>3. \A k \in 1..n : k - 1 \in 0..n /\ k \in 0..n /\ k # 0
  OBVIOUS
<1>4. \A k \in 0..n : k # 0 => k \in 1..n
  OBVIOUS
<1> HIDE DEF n
<1>5. \A k \in 1..n : Add(G, k) = Add(f, k)
  BY <1>3
<1>6. G = Body(G)
  <2>1. ASSUME NEW k \in 0..n
        PROVE  f[k] = IF k = 0 THEN Zero ELSE Add(G, k)
    <3> HIDE DEF Add, G
    <3> QED BY <1>2, <1>4, <1>5
  <2> HIDE DEF Add
  <2> QED BY <2>1
<1>7. S = Body(S)
  <2> HIDE DEF Body, G
  <2> QED BY <1>6
<1> HIDE DEF S
<1> DEFINE P == {k \in 0..n : S[k] = f[k]}
<1>8. 0 \in P
  <2>1. 0 \in 0..n
    BY <1>2
  <2>2. S[0] = Zero
    <3> HIDE DEF Add
    <3> QED BY <1>7, <2>1
  <2> QED BY <1>2, <2>1, <2>2
<1>9. ASSUME NEW k \in 1..n, k - 1 \in P PROVE k \in P
  <2>1. S[k] = Add(S, k)
    <3> HIDE DEF Add
    <3> QED BY <1>3, <1>7
  <2>2. S[k - 1] = f[k - 1]
    BY <1>9
  <2>3. Add(S, k) = Add(f, k)
    BY <2>2
  <2> HIDE DEF Add
  <2> QED BY <1>2, <1>3, <2>1, <2>3
<1>10. n \in P
  <2>1. n \in 0..n
    BY <1>2
  <2> HIDE DEF P
  <2> QED BY <1>2, <1>8, <1>9, <2>1, UpToInduction
<1> QED
  BY <1>1, <1>10 DEF n

-----------------------------------------------------------------------------
(* wordcount: each action keeps the counts. *)

LEMMA WcOpened ==
    ASSUME TypeInv, ReadInv, WcInv, args.tool = "wordcount", pc = "open",
           WcOpen, Content(file) # Missing
    PROVE  WcInv'
<1>1. /\ args' = args /\ file' = file /\ opts' = opts /\ out' = out /\ total' = total
      /\ unread' = Content(file) /\ pc' = "count" /\ counts' = Zero /\ in_word' = FALSE
      /\ file <= Len(args.files)
  BY DEF WcOpen
<1>2. Content(file) \in Text
  BY <1>1, ArgsTypes DEF TypeInv, TypeOK
<1>3. Content(file)' = Content(file) /\ Done' = 0
  BY <1>1, <1>2, RestWhole DEF Content, Done
<1>4. counts' = CountedTo(Content(file), 0)
  BY <1>1, <1>2, CountedWhole
<1>5. (counts = CountedTo(Content(file), Done)
          /\ (in_word <=> Done > 0 /\ Content(file)[Done] \notin Space))'
  BY <1>1, <1>3, <1>4 DEF CountedTo
<1>6. /\ out' = FlattenSeq([k \in 1..(file' - 1) |-> WcReport(k)'])
      /\ (\E f : SumsOf(f, file - 1) /\ f[file - 1] = total)'
  <2>1. PICK f : SumsOf(f, file - 1) /\ f[file - 1] = total
    BY DEF WcInv
  <2>2. SumsOf(f, file - 1)'
    BY <1>1, <2>1, SumsKept
  <2>3. out = FlattenSeq([k \in 1..(file - 1) |-> WcReport(k)])
    BY DEF WcInv
  <2> QED BY <1>1, <2>1, <2>2, <2>3, ReportsKept
<1> QED
  BY <1>5, <1>6 DEF WcInv

LEMMA WcCounted ==
    ASSUME TypeInv, ReadInv, WcInv, CountChar
    PROVE  WcInv'
<1> DEFINE s == Content(file)  c == Head(unread)
<1>1. /\ args' = args /\ file' = file /\ opts' = opts /\ out' = out /\ total' = total
      /\ pc = "count" /\ pc' = "count" /\ unread # <<>> /\ unread' = Tail(unread)
      /\ args.tool = "wordcount"
  BY DEF CountChar, Wc
<1>2. s \in Text /\ Done \in 0..Len(s) /\ unread = Rest(s, Done) /\ Len(s) \in Nat
  BY <1>1, RestWhole DEF ReadInv, TypeInv, Phase
<1>3. Done # Len(s)
  BY <1>1, <1>2, RestFacts
<1>4. c = s[Done + 1] /\ unread' = Rest(s, Done + 1)
  BY <1>1, <1>2, <1>3, RestHead
<1>5. s' = s /\ Done' = Done + 1
  <2>1. Done + 1 \in 0..Len(s)
    BY <1>2, <1>3
  <2>2. Len(unread') = Len(s) - (Done + 1)
    BY <1>2, <1>4, <2>1, RestFacts
  <2>3. s' = s
    BY <1>1 DEF Content
  <2> QED BY <1>2, <2>1, <2>2, <2>3 DEF Done
<1>6. /\ counts = CountedTo(s, Done)
      /\ in_word <=> Done > 0 /\ s[Done] \notin Space
  BY <1>1 DEF WcInv
<1>7. in_word \in BOOLEAN
  BY DEF TypeInv, TypeOK
<1> HIDE DEF s, c
<1>8. counts' = CountedTo(s, Done + 1)
  <2>1. CountedTo(s, Done + 1) =
            [lines |-> CountedTo(s, Done).lines + (IF c = NEWLINE THEN 1 ELSE 0),
             words |-> CountedTo(s, Done).words + (IF c \notin Space /\ ~in_word THEN 1 ELSE 0),
             chars |-> CountedTo(s, Done).chars + 1]
    BY <1>2, <1>3, <1>4, <1>6, <1>7, CountedNext
  <2>2. counts' = [lines |-> counts.lines + (IF c = NEWLINE THEN 1 ELSE 0),
                   words |-> counts.words + (IF c \notin Space /\ ~in_word THEN 1 ELSE 0),
                   chars |-> counts.chars + 1]
    BY DEF CountChar, IsSpace, c
  <2> QED BY <1>6, <2>1, <2>2
<1>9. in_word' <=> Done + 1 > 0 /\ s[Done + 1] \notin Space
  <2>1. in_word' = (c \notin Space)
    BY DEF CountChar, IsSpace, c
  <2>2. Done + 1 > 0
    BY <1>2
  <2> QED BY <1>4, <2>1, <2>2
<1>10. (counts = CountedTo(Content(file), Done)
          /\ (in_word <=> Done > 0 /\ Content(file)[Done] \notin Space))'
  BY <1>5, <1>8, <1>9 DEF CountedTo, Newlines, WordStarts, s
<1>11. /\ out' = FlattenSeq([k \in 1..(file' - 1) |-> WcReport(k)'])
       /\ (\E f : SumsOf(f, file - 1) /\ f[file - 1] = total)'
  <2>1. PICK f : SumsOf(f, file - 1) /\ f[file - 1] = total
    BY <1>1 DEF WcInv
  <2>2. SumsOf(f, file - 1)'
    BY <1>1, <2>1, SumsKept
  <2>3. out = FlattenSeq([k \in 1..(file - 1) |-> WcReport(k)])
    BY <1>1 DEF WcInv
  <2> QED BY <1>1, <2>1, <2>2, <2>3, ReportsKept
<1> QED
  BY <1>10, <1>11 DEF WcInv

LEMMA WcClosed ==
    ASSUME TypeInv, ReadInv, WcInv, WcClose
    PROVE  WcInv'
<1>1. /\ args' = args /\ file' = file + 1 /\ opts' = opts /\ out' = Append(out, Shown(counts))
      /\ pc = "count" /\ pc' = "open" /\ unread = <<>> /\ args.tool = "wordcount"
      /\ total' = [x \in DOMAIN total |-> total[x] + counts[x]]
  BY DEF WcClose, Wc
<1>2. counts = Counted(Content(file))
  <2>1. Content(file) \in Text /\ Done \in 0..Len(Content(file)) /\ unread = Rest(Content(file), Done)
    BY <1>1 DEF ReadInv, TypeInv, Phase
  <2>2. Done = Len(Content(file))
    BY <1>1, <2>1, RestFacts
  <2>3. counts = CountedTo(Content(file), Done)
    BY <1>1 DEF WcInv
  <2> QED BY <2>1, <2>2, <2>3, CountedWhole
<1>3. file \in Nat /\ file - 1 \in Nat /\ (file - 1) + 1 = file /\ (file + 1) - 1 = file
  BY DEF TypeInv, TypeOK
<1>4. out' = FlattenSeq([k \in 1..file |-> WcReport(k)])
  <2> DEFINE E == {Shown(Counted(Content(k))) : k \in 1..file}
             f == [k \in 1..file |-> WcReport(k)]
  <2>1. \A k \in 1..file : f[k] = WcReport(k) /\ f[k] \in Seq(E)
    BY DEF WcReport
  <2>2. [k \in 1..(file - 1) |-> f[k]] = [k \in 1..(file - 1) |-> WcReport(k)]
        /\ [k \in 1..file |-> f[k]] = f /\ file \in 1..file
    BY <1>3
  <2> HIDE DEF f, E
  <2>3. /\ FlattenSeq([k \in 1..(file - 1) |-> f[k]]) \in Seq(E)
        /\ FlattenSeq([k \in 1..file |-> f[k]]) = FlattenSeq([k \in 1..(file - 1) |-> f[k]]) \o f[file]
    BY <1>3, <2>1, FlattenNext
  <2>4. out = FlattenSeq([k \in 1..(file - 1) |-> WcReport(k)])
    BY <1>1 DEF WcInv
  <2>5. out \in Seq(E) /\ FlattenSeq(f) = out \o WcReport(file)
    BY <2>1, <2>2, <2>3, <2>4
  <2>6. WcReport(file) = <<Shown(counts)>> /\ Shown(counts) \in E
    BY <1>2, <2>2 DEF WcReport, E
  <2>7. out \o <<Shown(counts)>> = Append(out, Shown(counts))
    BY <2>5, <2>6
  <2> QED BY <1>1, <2>5, <2>6, <2>7 DEF f
<1>5. \E f : SumsOf(f, file) /\ f[file] = total'
  <2>1. PICK f : SumsOf(f, file - 1) /\ f[file - 1] = total
    BY <1>1 DEF WcInv
  <2> DEFINE g == [i \in 0..file |-> IF i = file THEN total' ELSE f[i]]
  <2>2. /\ \A i \in 1..(file - 1) : i \in 0..file /\ i # file /\ i - 1 \in 0..file /\ i - 1 # file
        /\ file \in 0..file /\ 0 \in 0..file /\ 0 # file /\ file - 1 \in 0..file /\ file - 1 # file
        /\ \A i \in 1..file : i = file \/ i \in 1..(file - 1)
    <3>1. file \in 1..(Len(args.files) + 1)
      BY DEF TypeInv, TypeOK
    <3> QED BY <1>3, <3>1
  <2>3. g[0] = Zero /\ g[file] = total' /\ g[file - 1] = total
        /\ \A i \in 1..(file - 1) : g[i] = f[i] /\ g[i - 1] = f[i - 1]
    BY <2>1, <2>2 DEF SumsOf
  <2>4. DOMAIN total = DOMAIN Zero
    <3>1. total \in [{"lines", "words", "chars"} -> Nat]
      BY DEF TypeInv, TypeOK
    <3> QED BY <3>1, ZeroType
  <2> HIDE DEF g
  <2>5. ASSUME NEW i \in 1..file
        PROVE  g[i] = [x \in DOMAIN Zero |-> g[i - 1][x] + Counted(Content(i))[x]]
    <3>1. CASE i = file
      BY <1>1, <1>2, <2>3, <2>4, <3>1
    <3>2. CASE i # file
      <4>1. i \in 1..(file - 1)
        BY <2>2, <3>2
      <4> QED BY <2>1, <2>3, <4>1 DEF SumsOf
    <3> QED BY <3>1, <3>2
  <2>6. SumsOf(g, file)
    BY <2>3, <2>5 DEF SumsOf
  <2> QED BY <2>3, <2>6
<1>6. out' = FlattenSeq([k \in 1..(file' - 1) |-> WcReport(k)'])
  BY <1>1, <1>3, <1>4, ReportsKept
<1>7. (\E f : SumsOf(f, file - 1) /\ f[file - 1] = total)'
  <2>1. PICK f : SumsOf(f, file) /\ f[file] = total'
    BY <1>5
  <2>2. PICK n : n = file
    OBVIOUS
  <2>3. SumsOf(f, n)'
    BY <1>1, <2>1, <2>2, SumsKept
  <2>4. n = file' - 1 /\ f[n] = total'
    BY <1>1, <1>3, <2>1, <2>2
  <2> QED BY <2>3, <2>4
<1> QED
  BY <1>1, <1>6, <1>7 DEF WcInv

LEMMA WcStarted ==
    ASSUME TypeInv, ReadInv, WcOptionsRead
    PROVE  WcInv'
<1>1. /\ file' = 1 /\ out' = <<>> /\ total' = Zero /\ pc' = "open"
  BY DEF WcOptionsRead, Wc, ReadInv, fileVars, wcVars
<1>2. [k \in 1..(file' - 1) |-> WcReport(k)'] = <<>>
  BY <1>1
<1>3. out' = FlattenSeq([k \in 1..(file' - 1) |-> WcReport(k)'])
  BY <1>1, <1>2, FlattenEmpty
<1>4. (\E f : SumsOf(f, file - 1) /\ f[file - 1] = total)'
  <2> DEFINE f == [i \in {0} |-> Zero]
  <2>1. f[0] = Zero /\ file' - 1 = 0
    BY <1>1
  <2>2. SumsOf(f, 0)'
    BY <2>1 DEF SumsOf, Zero
  <2>3. f[0] = total'
    BY <1>1, <2>1
  <2> HIDE DEF f
  <2>4. PICK n : n = 0
    OBVIOUS
  <2>5. SumsOf(f, n)' /\ f[n] = total' /\ n = file' - 1
    BY <2>1, <2>2, <2>3, <2>4
  <2> QED BY <2>5
<1> QED
  BY <1>1, <1>3, <1>4 DEF WcInv

LEMMA WcStep == TypeInv /\ ReadInv /\ WcInv /\ [Next]_vars => WcInv'
<1> SUFFICES ASSUME TypeInv, ReadInv, WcInv, [Next]_vars PROVE WcInv'
  OBVIOUS
<1>1. ASSUME args.tool = "minigrep", args' = args, pc' # "count" PROVE WcInv'
  BY <1>1 DEF WcInv
<1>2. CASE Usage
  BY <1>1, <1>2 DEF Usage, Grep, Exit
<1>3. CASE Option
  BY <1>1, <1>3 DEF Option, Grep, Exit
<1>4. CASE OptionsRead
  BY <1>1, <1>4 DEF OptionsRead, Grep, Exit
<1>5. CASE OpenFile
  BY <1>1, <1>5 DEF OpenFile, Grep, Exit
<1>6. CASE ReadLine
  BY <1>1, <1>6 DEF ReadLine, Grep
<1>7. CASE Compare
  BY <1>1, <1>7 DEF Compare, Grep, Judge
<1>8. CASE CloseFile
  BY <1>1, <1>8 DEF CloseFile, Grep
<1>9. CASE AllSearched
  BY <1>1, <1>9 DEF AllSearched, Grep, Exit
<1>10. CASE WcOption
  BY <1>10 DEF WcOption, Wc, Exit, WcInv
<1>11. CASE WcOptionsRead
  BY <1>11, WcStarted
<1>12. CASE WcOpen
  <2>1. CASE Content(file) = Missing
    BY <1>12, <2>1 DEF WcOpen, Exit, WcInv
  <2>2. CASE Content(file) # Missing
    BY <1>12, <2>2, WcOpened DEF WcOpen, Wc
  <2> QED BY <2>1, <2>2
<1>13. CASE CountChar
  BY <1>13, WcCounted
<1>14. CASE WcClose
  BY <1>14, WcClosed
<1>15. CASE WcEnd
  BY <1>15 DEF WcEnd, Exit, WcInv
<1>16. CASE UNCHANGED vars
  <2>1. /\ UNCHANGED <<args, opts, file, out, total, pc, counts, in_word, unread>>
    BY <1>16 DEF vars, fileVars, wcVars
  <2>2. CASE pc = "count"
    <3>1. Content(file)' = Content(file) /\ Done' = Done
      BY <2>1 DEF Content, Done
    <3>2. (counts = CountedTo(Content(file), Done)
            /\ (in_word <=> Done > 0 /\ Content(file)[Done] \notin Space))'
      BY <2>1, <2>2, <3>1 DEF WcInv, CountedTo, Newlines, WordStarts
    <3>3. ASSUME args.tool = "wordcount"
          PROVE  /\ out' = FlattenSeq([k \in 1..(file' - 1) |-> WcReport(k)'])
                 /\ (\E f : SumsOf(f, file - 1) /\ f[file - 1] = total)'
      <4>1. PICK f : SumsOf(f, file - 1) /\ f[file - 1] = total
        BY <2>2, <3>3 DEF WcInv
      <4>2. SumsOf(f, file - 1)'
        BY <2>1, <4>1, SumsKept
      <4>3. out = FlattenSeq([k \in 1..(file - 1) |-> WcReport(k)])
        BY <2>2, <3>3 DEF WcInv
      <4> QED BY <2>1, <4>1, <4>2, <4>3, ReportsKept
    <3> QED BY <2>1, <3>2, <3>3 DEF WcInv
  <2>3. CASE pc # "count"
    BY <2>1, <2>3, WcKept
  <2> QED BY <2>2, <2>3
<1> QED
  BY <1>2, <1>3, <1>4, <1>5, <1>6, <1>7, <1>8, <1>9, <1>10, <1>11, <1>12, <1>13, <1>14,
     <1>15, <1>16 DEF Next, Exited

\* What has been printed when a file cannot be opened, or there is none left.
LEMMA WcPrinted ==
    ASSUME TypeInv, ReadInv, WcInv, args.tool = "wordcount", pc = "open",
           file > Len(args.files) \/ Content(file) = Missing
    PROVE  /\ out = Report(WcReport)
           /\ \A x : Append(out, x) = out \o <<x>>
           /\ out \o <<>> = out
           /\ file > Len(args.files) => total = CountedAll
           /\ Readable = DOMAIN args.files <=> file > Len(args.files)
<1>1. out = FlattenSeq([k \in 1..(file - 1) |-> WcReport(k)])
  BY DEF WcInv
<1>2. Cardinality(Readable) = file - 1 /\ (Readable = DOMAIN args.files <=> file > Len(args.files))
  BY ReadableSoFar
<1>3. out = Report(WcReport)
  BY <1>1, <1>2 DEF Report
<1>4. ASSUME file > Len(args.files) PROVE total = CountedAll
  <2>1. Len(args.files) \in Nat /\ file - 1 = Len(args.files)
    <3>1. Len(args.files) \in Nat /\ file \in 1..(Len(args.files) + 1)
      BY ArgsTypes DEF TypeInv, TypeOK
    <3> QED BY <1>4, <3>1
  <2>2. PICK f : SumsOf(f, file - 1) /\ f[file - 1] = total
    BY DEF WcInv
  <2> QED BY <2>1, <2>2, SumsAreCounted
<1>5. ASSUME NEW x PROVE Append(out, x) = out \o <<x>> /\ out \o <<>> = out
  <2> DEFINE f == [k \in 1..file |-> WcReport(k)]
             E == {Shown(Counted(Content(k))) : k \in 1..file} \cup {x}
  <2>1. file - 1 \in Nat /\ (file - 1) + 1 = file /\ \A k \in 1..(file - 1) : k \in 1..file
    BY DEF TypeInv, TypeOK
  <2>2. \A k \in 1..file : f[k] = WcReport(k) /\ f[k] \in Seq(E)
    BY DEF WcReport
  <2>3. [k \in 1..(file - 1) |-> f[k]] = [k \in 1..(file - 1) |-> WcReport(k)] /\ x \in E
    BY <2>1
  <2> HIDE DEF f, E
  <2>4. FlattenSeq([k \in 1..(file - 1) |-> f[k]]) \in Seq(E)
    BY <2>1, <2>2, FlattenNext
  <2>5. out \in Seq(E)
    BY <1>1, <2>3, <2>4
  <2> QED BY <2>3, <2>5
<1> QED
  BY <1>2, <1>3, <1>4, <1>5

\* What the files are said to hold does not change.
LEMMA PromiseKept ==
    ASSUME UNCHANGED <<args, opts>>
    PROVE  /\ Report(WcReport)' = Report(WcReport) /\ Readable' = Readable
           /\ Shown(CountedAll)' = Shown(CountedAll)
<1>1. Readable' = Readable
  BY DEF Readable, Content
<1>2. Report(WcReport)' = Report(WcReport)
  BY <1>1, ReportsKept DEF Report
<1>3. CountedAll' = CountedAll
  BY DEF CountedAll, Content
<1> QED
  BY <1>1, <1>2, <1>3 DEF Shown

WcEndInv == TypeInv /\ ReadInv /\ WcInv /\ CountsAreRight

LEMMA CountsStep == WcEndInv /\ [Next]_vars => CountsAreRight'
<1> SUFFICES ASSUME TypeInv, ReadInv, WcInv, CountsAreRight, [Next]_vars,
                    (args.tool = "wordcount" /\ pc = "exit"
                      /\ (code = 0 \/ Readable # DOMAIN args.files)
                      /\ (\A k \in DOMAIN args.flags : args.flags[k] \in {"l", "w", "c"}))'
             PROVE  (out = Report(WcReport)
                      \o (IF code = 0 /\ Len(args.files) > 1
                          THEN <<Shown(CountedAll)>> ELSE <<>>))'
  BY DEF CountsAreRight, WcEndInv
<1>1. WcEnd \/ WcOpen \/ UNCHANGED vars
  <2>1. ~WcOption
    <3> SUFFICES ASSUME WcOption PROVE FALSE
      OBVIOUS
    <3>1. args' = args /\ pc = "options" /\ flag <= Len(args.flags)
          /\ (args.flags[flag] \in {"l", "w", "c"} => pc' = pc)
      BY DEF WcOption, Wc
    <3>2. args.flags \in Seq(STRING) /\ flag \in Nat /\ flag >= 1
      BY ArgsTypes DEF TypeInv, TypeOK
    <3>3. flag \in DOMAIN args.flags
      BY <3>1, <3>2
    <3> QED BY <3>1, <3>3
  <2> QED
    BY <2>1 DEF Next, Usage, Option, OptionsRead, OpenFile, ReadLine, Compare, CloseFile,
         AllSearched, WcOptionsRead, CountChar, WcClose, Exited, Grep, Wc
<1>2. UNCHANGED <<args, opts>>
  BY <1>1 DEF WcEnd, WcOpen, vars
<1>3. Report(WcReport)' = Report(WcReport) /\ Readable' = Readable
      /\ Shown(CountedAll)' = Shown(CountedAll)
  BY <1>2, PromiseKept
<1>4. CASE WcEnd
  <2>1. args.tool = "wordcount" /\ pc = "open" /\ file > Len(args.files) /\ code' = 0
        /\ out' = IF Len(args.files) > 1 THEN Append(out, Shown(total)) ELSE out
    BY <1>4 DEF WcEnd, Wc, Exit
  <2>2. out = Report(WcReport) /\ total = CountedAll
        /\ (\A x : Append(out, x) = out \o <<x>>) /\ out \o <<>> = out
    BY <2>1, WcPrinted
  <2> QED BY <1>2, <1>3, <2>1, <2>2
<1>5. CASE WcOpen
  <2>1. args.tool = "wordcount" /\ pc = "open" /\ Content(file) = Missing /\ code' = 1
        /\ out' = out
    BY <1>5 DEF WcOpen, Wc, Exit
  <2>2. out = Report(WcReport) /\ out \o <<>> = out
    BY <2>1, WcPrinted
  <2> QED BY <1>2, <1>3, <2>1, <2>2
<1>6. CASE UNCHANGED vars
  BY <1>2, <1>3, <1>6 DEF CountsAreRight, vars
<1> QED
  BY <1>1, <1>4, <1>5, <1>6

(* wordcount prints the newlines, the words and the characters of each file it
   could open and, if it could open all of several, those of the files in a row. *)
THEOREM CountsCorrect == Spec => []CountsAreRight
<1>1. Init => WcEndInv
  BY TypeInit, ReadInit, WcInit DEF WcEndInv, CountsAreRight, Init
<1>2. WcEndInv /\ [Next]_vars => WcEndInv'
  BY TypeStep, ReadStep, WcStep, CountsStep DEF WcEndInv
<1>3. WcEndInv => CountsAreRight
  BY DEF WcEndInv
<1> QED
  BY <1>1, <1>2, <1>3, PTL DEF Spec

-----------------------------------------------------------------------------
(* Lines. *)

LEMMA LineEndsBounds ==
    ASSUME NEW s \in Text
    PROVE  /\ Len(s) \in Nat /\ LineEnds(s) \in SUBSET (1..Len(s))
           /\ LineEnds(s) \in SUBSET (0..Len(s)) /\ Cardinality(LineEnds(s)) \in Nat
           /\ UpTo(LineEnds(s), Len(s)) = LineEnds(s) /\ UpTo(LineEnds(s), 0) = {}
           /\ s # <<>> => Len(s) \in LineEnds(s)
<1>1. Len(s) \in Nat /\ Newlines(s) \in SUBSET (1..Len(s))
  BY CountedBounds
<1>2. s # <<>> => Len(s) \in 1..Len(s)
  BY <1>1 DEF Text
<1>3. LineEnds(s) \in SUBSET (1..Len(s)) /\ (s # <<>> => Len(s) \in LineEnds(s))
  BY <1>1, <1>2 DEF LineEnds, Text
<1> QED
  BY <1>1, <1>3, UpToEnds, UpToFinite

LEMMA LinesAreText ==
    ASSUME NEW s \in Text
    PROVE  /\ DOMAIN Lines(s) = 1..Cardinality(LineEnds(s))
           /\ \A k \in DOMAIN Lines(s) : Lines(s)[k] \in Text
<1> DEFINE E == LineEnds(s)  end == Sorted(E)
<1>1. Len(s) \in Nat /\ E \in SUBSET (0..Len(s)) /\ Cardinality(E) \in Nat
      /\ \A x \in E : x \in 1..Len(s)
  BY LineEndsBounds
<1>2. end \in Seq(E) /\ DOMAIN end = 1..Cardinality(E)
  <2> HIDE DEF E
  <2> QED BY <1>1, SortedIsSeq
<1>3. \A k \in 1..Cardinality(E) : end[k] \in E
  <2> HIDE DEF E
  <2> QED BY <1>1, SortedIsSeq
<1>4. Lines(s) = [k \in DOMAIN end |-> SubSeq(s, IF k = 1 THEN 1 ELSE end[k - 1] + 1, end[k])]
  BY DEF Lines
<1> HIDE DEF E, end
<1>5. ASSUME NEW k \in 1..Cardinality(E) PROVE Lines(s)[k] \in Text
  <2>1. end[k] \in 1..Len(s)
    BY <1>1, <1>3
  <2>2. CASE k = 1
    <3>1. 1 \in 1..(Len(s) + 1) /\ end[k] \in (1 - 1)..Len(s)
      BY <1>1, <2>1
    <3> QED BY <1>2, <1>4, <2>2, <3>1, PartOfText
  <2>3. CASE k # 1
    <3>1. k \in 2..Cardinality(E)
      BY <1>1, <2>3
    <3>2. end[k - 1] \in E /\ end[k - 1] <= end[k]
      BY <1>1, <3>1, SortedAscends DEF end
    <3>3. end[k - 1] \in 1..Len(s)
      BY <1>1, <3>2
    <3>4. end[k - 1] + 1 \in 1..(Len(s) + 1) /\ end[k] \in ((end[k - 1] + 1) - 1)..Len(s)
      BY <1>1, <2>1, <3>2, <3>3
    <3>5. SubSeq(s, end[k - 1] + 1, end[k]) \in Text
      BY <3>4, PartOfText
    <3> QED BY <1>2, <1>4, <2>3, <3>5
  <2> QED BY <2>2, <2>3
<1> QED
  BY <1>2, <1>4, <1>5 DEF E

\* Multiples of the size of a piece.
LEMMA Multiples ==
    ASSUME NEW F \in Nat, NEW m \in Nat, NEW n \in Nat
    PROVE  /\ m * F \in Nat /\ (m + 1) * F = m * F + F
           /\ m * F > n * F => m * F >= n * F + F
<1>1. m * F \in Nat /\ n * F \in Nat /\ (m + 1) * F = m * F + F
  OBVIOUS
<1>2. CASE m <= n
  <2>1. n - m \in Nat
    BY <1>2
  <2>2. (n - m) * F >= 0 /\ n * F = (n - m) * F + m * F
    BY <2>1
  <2> QED BY <1>1, <2>2
<1>3. CASE m > n
  <2>1. m - n - 1 \in Nat
    BY <1>3
  <2>2. (m - n - 1) * F >= 0 /\ m * F = (m - n - 1) * F + n * F + F
    BY <2>1
  <2> QED BY <1>1, <2>2
<1> QED
  BY <1>2, <1>3

\* Where fgets stops after n characters of a text.
Piece(s, n) == Min({Fits, Len(Rest(s, n))} \cup Newlines(Rest(s, n)))

LEMMA FillsIf ==
    ASSUME NEW s, NEW i, NEW b, NEW m, i = b + m * (LINE_BUFFER_SZ - 1),
           b = 0 \/ s[b] = NEWLINE, \A j \in (b + 1)..(i - 1) : s[j] # NEWLINE
    PROVE  Fills(s, i, b, m)
BY DEF Fills

\* That is where the first line ends that ends after n.
LEMMA PieceIsLine ==
    ASSUME NEW s \in Text, NEW n \in {0} \cup LineEnds(s), n # Len(s),
           NEW q, q = Piece(s, n)
    PROVE  /\ q \in 1..(Len(s) - n) /\ n + q \in LineEnds(s)
           /\ \A y \in LineEnds(s) : ~(n < y /\ y < n + q)
<1> DEFINE E == LineEnds(s)  u == Rest(s, n)  l == Len(s)  F == LINE_BUFFER_SZ - 1
           S == {Fits, Len(u)} \cup Newlines(u)
<1>1. /\ l \in Nat /\ E \in SUBSET (1..l) /\ l \in Nat
      /\ F \in Nat \ {0} /\ Fits = F
  BY LineEndsBounds, SizeAssumption DEF Fits
<1>2. n \in 0..l /\ n \in Nat /\ l - n \in Nat /\ l - n # 0 /\ n < l
  BY <1>1
<1>3. /\ u \in Text /\ Len(u) = l - n /\ u # <<>>
      /\ \A i \in 1..(l - n) : u[i] = s[n + i]
  BY <1>2, RestFacts
<1>4. DOMAIN s = 1..l /\ DOMAIN u = 1..(l - n)
  BY <1>3 DEF Text
<1>5. q \in S /\ (\A x \in S : q <= x) /\ q \in 1..(l - n)
  BY <1>3, PieceBounds DEF Piece
<1>6. q \in Nat /\ q >= 1 /\ q <= F /\ q <= l - n /\ n + q \in 1..l
  BY <1>1, <1>2, <1>5
\* Up to there, no newline.
<1>7. \A j \in (n + 1)..((n + q) - 1) : s[j] # NEWLINE
  <2> SUFFICES ASSUME NEW j \in (n + 1)..((n + q) - 1), s[j] = NEWLINE PROVE FALSE
    OBVIOUS
  <2>1. j - n \in 1..(l - n) /\ n + (j - n) = j /\ j - n < q
    BY <1>2, <1>6
  <2>2. u[j - n] = NEWLINE
    BY <1>3, <2>1
  <2>3. j - n \in S
    BY <1>4, <2>1, <2>2 DEF Newlines
  <2> QED BY <1>5, <1>6, <2>1, <2>3
\* How the last line ended.
<1>8. \/ n = 0 \/ s[n] = NEWLINE
      \/ /\ n # 0 /\ s[n] # NEWLINE
         /\ \E b \in 0..(n - 1), m \in 1..n : Fills(s, n, b, m)
  BY <1>1 DEF LineEnds
<1> HIDE DEF S, u
<1>9. n + q \in E
  <2>1. CASE q = l - n
    <3>1. n + q = l
      BY <1>1, <1>2, <2>1
    <3> QED BY <1>4, <1>6, <3>1 DEF LineEnds
  <2>2. CASE q \in Newlines(u)
    <3>1. s[n + q] = NEWLINE
      BY <1>3, <1>5, <2>2 DEF Newlines
    <3> QED BY <1>4, <1>6, <3>1 DEF LineEnds
  <2>3. CASE q = F
    <3> DEFINE e == n + q
    <3>1. e \in 1..l
      BY <1>6, Zenon DEF e
    <3>2. e \in DOMAIN s /\ e \in Nat
      <4> HIDE DEF e
      <4>1. e \in DOMAIN s
        BY <1>4, <3>1
      <4>2. e \in Nat
        BY <1>1, <3>1
      <4> QED BY <4>1, <4>2
    <3>3. n < e /\ e = n + F
      <4> HIDE DEF F
      <4> QED BY <1>1, <1>2, <1>6, <2>3 DEF e
    <3>4. \A j \in (n + 1)..(e - 1) : s[j] # NEWLINE
      BY <1>7, Zenon DEF e
    <3> HIDE DEF e
    <3>5. /\ e \in DOMAIN s /\ e \in Nat /\ n < e /\ e = n + F
          /\ \A j \in (n + 1)..(e - 1) : s[j] # NEWLINE
      BY <3>2, <3>3, <3>4
    <3>6. CASE n = 0 \/ s[n] = NEWLINE
      <4>1. e = n + 1 * F /\ n \in 0..(e - 1) /\ 1 \in 1..e
        BY <1>1, <1>2, <3>5
      <4>2. Fills(s, e, n, 1)
        BY <3>5, <3>6, <4>1, FillsIf
      <4> QED BY <3>5, <4>1, <4>2 DEF LineEnds, e
    <3>7. CASE n # 0 /\ s[n] # NEWLINE
      <4>1. PICK b \in 0..(n - 1), m \in 1..n : Fills(s, n, b, m)
        BY <1>8, <3>7
      <4>2. n = b + m * F /\ (b = 0 \/ s[b] = NEWLINE)
            /\ \A j \in (b + 1)..(n - 1) : s[j] # NEWLINE
        BY <4>1 DEF Fills
      <4>3. m \in Nat /\ b \in Nat /\ F \in Nat
        BY <1>1, <1>2
      <4>4. m * F \in Nat /\ (m + 1) * F = m * F + F
        <5> HIDE DEF F
        <5> QED BY <4>3, Multiples
      <4>5. e = b + (m + 1) * F
        <5> HIDE DEF F
        <5> QED BY <3>5, <4>2, <4>3, <4>4
      <4>6. b \in 0..(e - 1) /\ m + 1 \in 1..e
        BY <1>2, <3>5
      <4>7. \A j \in (b + 1)..(e - 1) : s[j] # NEWLINE
        <5> TAKE j \in (b + 1)..(e - 1)
        <5>1. j \in (b + 1)..(n - 1) \/ j = n \/ j \in (n + 1)..(e - 1)
          BY <1>2, <3>5
        <5> QED BY <3>5, <3>7, <4>2, <5>1
      <4>8. Fills(s, e, b, m + 1)
        BY <4>2, <4>5, <4>7, FillsIf
      <4> QED BY <3>5, <4>6, <4>8 DEF LineEnds, e
    <3> QED BY <3>6, <3>7
  <2> QED BY <1>1, <1>3, <1>5, <2>1, <2>2, <2>3 DEF S
<1>10. ASSUME NEW y \in E, n < y, y < n + q PROVE FALSE
  <2>1. y \in (n + 1)..((n + q) - 1) /\ y \in Nat /\ y # l /\ s[y] # NEWLINE
    <3>1. y \in Nat
      BY <1>1
    <3>2. y \in (n + 1)..((n + q) - 1) /\ y # l
      BY <1>2, <1>6, <1>10, <3>1
    <3> QED BY <1>7, <3>1, <3>2
  <2>2. PICK b \in 0..(y - 1), m \in 1..y : Fills(s, y, b, m)
    BY <2>1 DEF LineEnds
  <2>3. y = b + m * F /\ (b = 0 \/ s[b] = NEWLINE)
        /\ \A j \in (b + 1)..(y - 1) : s[j] # NEWLINE
    BY <2>2 DEF Fills
  <2>4. b \in Nat /\ m \in Nat /\ b < y /\ b <= n
    <3>1. b \in Nat /\ m \in Nat /\ b < y
      BY <2>1
    <3>2. b # 0 => b \notin (n + 1)..((n + q) - 1)
      BY <1>7, <2>3
    <3>3. b > n => b # 0 /\ b \in (n + 1)..((n + q) - 1)
      BY <1>2, <1>6, <2>1, <3>1
    <3> QED BY <1>2, <3>1, <3>2, <3>3
  <2>5. m * F \in Nat /\ (m * F > 0 => m * F >= F)
        /\ \A c \in Nat : m * F > c * F => m * F >= c * F + F
    <3>1. F \in Nat
      BY <1>1
    <3> HIDE DEF F
    <3>2. \A c \in Nat : m * F > c * F => m * F >= c * F + F
      BY <2>4, <3>1, Multiples
    <3>3. m * F \in Nat /\ 0 * F = 0
      BY <2>4, <3>1, Multiples
    <3>4. m * F > 0 => m * F >= F
      BY <3>1, <3>2, <3>3
    <3> QED BY <3>2, <3>3, <3>4
  <2>6. CASE n = 0 \/ s[n] = NEWLINE
    <3>1. b = n
      <4>1. n \in (b + 1)..(y - 1) \/ b = n
        BY <1>2, <1>10, <2>1, <2>4
      <4>2. n = 0 => b = n
        BY <2>4
      <4> QED BY <2>3, <2>6, <4>1, <4>2
    <3> DEFINE x == m * F
    <3>2. y = n + x /\ x \in Nat /\ (x > 0 => x >= F)
      BY <2>3, <2>5, <3>1
    <3>3. F \in Nat
      BY <1>1
    <3> HIDE DEF F, x
    <3> QED BY <1>2, <1>6, <1>10, <2>1, <3>2, <3>3
  <2>7. CASE n # 0 /\ s[n] # NEWLINE
    <3>1. PICK c \in 0..(n - 1), k \in 1..n : Fills(s, n, c, k)
      BY <1>8, <2>7
    <3>2. n = c + k * F /\ (c = 0 \/ s[c] = NEWLINE)
          /\ \A j \in (c + 1)..(n - 1) : s[j] # NEWLINE
      BY <3>1 DEF Fills
    <3>3. c \in Nat /\ k \in Nat /\ c < n
      BY <1>2
    <3>4. b = c
      <4>1. ~(b < c)
        <5> SUFFICES ASSUME b < c PROVE FALSE
          OBVIOUS
        <5>1. c # 0 /\ c \in (b + 1)..(y - 1)
          BY <1>2, <1>10, <2>1, <2>4, <3>3
        <5> QED BY <2>3, <3>2, <5>1
      <4>2. ~(c < b)
        <5> SUFFICES ASSUME c < b PROVE FALSE
          OBVIOUS
        <5>1. b # 0 /\ (b = n \/ b \in (c + 1)..(n - 1))
          BY <1>2, <2>4, <3>3
        <5> QED BY <2>3, <2>7, <3>2, <5>1
      <4> QED BY <2>4, <3>3, <4>1, <4>2
    <3>5. k * F \in Nat
      <4>1. F \in Nat
        BY <1>1
      <4> HIDE DEF F
      <4> QED BY <3>3, <4>1, Multiples
    <3> DEFINE x == m * F  z == k * F
    <3>6. x > z => x >= z + F
      BY <2>5, <3>3
    <3>7. y = b + x /\ x \in Nat /\ n = b + z /\ z \in Nat /\ F \in Nat
      BY <1>1, <2>3, <2>5, <3>2, <3>4, <3>5
    <3> HIDE DEF F, x, z
    <3> QED BY <1>2, <1>6, <1>10, <2>1, <2>4, <3>6, <3>7
  <2> QED BY <2>6, <2>7
<1> QED
  BY <1>5, <1>9, <1>10

LEMMA NextLine ==
    ASSUME NEW s \in Text, NEW n \in {0} \cup LineEnds(s), n # Len(s)
    PROVE  LET k == Cardinality(UpTo(LineEnds(s), n))  p == Piece(s, n)
           IN  /\ k \in Nat /\ k + 1 \in DOMAIN Lines(s) /\ n + p \in LineEnds(s)
               /\ Cardinality(UpTo(LineEnds(s), n + p)) = k + 1
               /\ Lines(s)[k + 1] = SubSeq(Rest(s, n), 1, p)
<1> DEFINE E == LineEnds(s)  k == Cardinality(UpTo(E, n))  l == Len(s)  u == Rest(s, n)
           q == Piece(s, n)  end == Sorted(E)  e == n + q
<1>1. /\ l \in Nat /\ E \in SUBSET (1..l) /\ E \in SUBSET (0..l) /\ Cardinality(E) \in Nat
      /\ UpTo(E, 0) = {}
  BY LineEndsBounds
<1>2. n \in 0..l /\ n \in Nat /\ l - n \in Nat
  BY <1>1
<1>7. q \in 1..(l - n) /\ e \in E /\ (\A y \in E : ~(n < y /\ y < e))
  BY PieceIsLine
<1> HIDE DEF E, q, u
<1>8. n < e
  BY <1>2, <1>7
<1>9. k \in Nat /\ Cardinality(UpTo(E, e)) = k + 1
  <2>1. k \in Nat
    BY <1>1, UpToFinite
  <2>2. Cardinality(UpTo(E, e)) = Cardinality(UpTo(E, n)) + 1
    BY <1>1, <1>2, <1>7, <1>8, UpToJump
  <2> QED BY <2>1, <2>2
<1> HIDE DEF k, e
<1>10. k + 1 \in 1..Cardinality(E) /\ end[k + 1] = e
  <2>1. Cardinality(UpTo(E, e)) \in 1..Cardinality(E) /\ Sorted(E)[Cardinality(UpTo(E, e))] = e
    BY <1>1, <1>7, SortedRank
  <2> QED BY <1>9, <2>1
<1>11. (IF k + 1 = 1 THEN 1 ELSE end[(k + 1) - 1] + 1) = n + 1
  <2>1. (k + 1) - 1 = k /\ (k + 1 = 1 <=> k = 0)
    BY <1>9
  <2>2. CASE n = 0
    <3>1. k = 0
      BY <1>1, <2>2, FS_EmptySet DEF k
    <3> QED BY <2>1, <2>2, <3>1
  <2>3. CASE n # 0
    <3>1. n \in E
      BY <2>3 DEF E
    <3>2. k \in 1..Cardinality(E) /\ end[k] = n
      BY <1>1, <3>1, SortedRank DEF k
    <3> QED BY <2>1, <3>2
  <2> QED BY <2>2, <2>3
<1>12. k + 1 \in DOMAIN Lines(s) /\ Lines(s)[k + 1] = SubSeq(s, n + 1, e)
  <2>1. DOMAIN Lines(s) = 1..Cardinality(E)
    BY LinesAreText DEF E
  <2>2. DOMAIN end = 1..Cardinality(E)
    BY <1>1, SortedIsSeq
  <2>3. Lines(s) = [i \in DOMAIN end |-> SubSeq(s, IF i = 1 THEN 1 ELSE end[i - 1] + 1, end[i])]
    BY DEF Lines, E
  <2> HIDE DEF end
  <2> QED BY <1>10, <1>11, <2>1, <2>2, <2>3
<1>13. SubSeq(s, n + 1, n + q) = SubSeq(u, 1, q)
  <2>1. q \in 0..(l - n)
    BY <1>7
  <2> QED BY <1>2, <2>1, RestSplits DEF u
<1>14. /\ k \in Nat /\ k + 1 \in DOMAIN Lines(s) /\ n + q \in E
       /\ Cardinality(UpTo(E, n + q)) = k + 1 /\ Lines(s)[k + 1] = SubSeq(u, 1, q)
  BY <1>7, <1>9, <1>12, <1>13 DEF e
<1> QED
  BY <1>14 DEF k, E, u, q

-----------------------------------------------------------------------------
(* minigrep: the pattern matches up to pat at start, and nowhere before. *)
MatchInv ==
    pc = "match" =>
        /\ cur = start + pat - 1
        /\ \A j \in 1..(pat - 1) : Same(line[start - 1 + j], args.pattern[j])
        /\ \A i \in 0..(Len(line) - Len(args.pattern)) :
              i < start - 1 => \E j \in DOMAIN args.pattern : ~Same(line[i + j], args.pattern[j])

\* The lines that have been judged, those of them that were selected, and what
\* was printed of them.
Seen == IF pc = "match" THEN line_number - 1 ELSE line_number
Hits == UpTo(Selected(Content(file)), Seen)
Shows(k, chosen) ==
    IF "c" \in opts THEN <<>>
    ELSE [j \in DOMAIN chosen |-> Reported(k, chosen[j], Lines(Content(k))[chosen[j]])]
Before == FlattenSeq([k \in 1..(file - 1) |-> GrepReport(k)])
HitBefore == \E k \in 1..(file - 1) : Selected(Content(k)) # {}

\* The lines are read one by one.
LineInv ==
    pc \in {"read", "match"} =>
        LET s == Content(file)
        IN  /\ Done \in {0} \cup LineEnds(s)
            /\ line_number = Cardinality(UpTo(LineEnds(s), Done))
            /\ pc = "match" => line_number \in DOMAIN Lines(s) /\ line = Lines(s)[line_number]

\* What was found and printed of them.
FoundInv ==
    /\ pc = "open" => out = Before /\ (total_matches > 0 <=> HitBefore)
    /\ pc \in {"read", "match"} =>
          /\ match_count = Cardinality(Hits)
          /\ out = Before \o Shows(file, Sorted(Hits))
          /\ total_matches > 0 <=> HitBefore \/ Hits # {}

GrepInv == args.tool = "minigrep" => MatchInv /\ LineInv /\ FoundInv

\* str_match goes on, or has found what it should.
LEMMA MatchStep ==
    ASSUME TypeInv, MatchInv, Compare
    PROVE  \/ pc' = "match" /\ MatchInv' /\ UNCHANGED <<line, grepVars, out>>
           \/ Judge(Occurs(line, args.pattern)) /\ pc' = "read"
<1> DEFINE p == args.pattern  m == Len(args.pattern)  l == Len(line)
<1>1. /\ pc = "match" /\ p \in Text /\ m \in Nat /\ line \in Text /\ l \in Nat
      /\ start \in 1..(l + 1) /\ cur \in start..(l + 1) /\ pat \in 1..(m + 1)
      /\ args' = args /\ opts' = opts
  <2>1. pc = "match" /\ args.tool = "minigrep" /\ args' = args /\ opts' = opts
    BY DEF Compare, Grep
  <2>2. p \in Text /\ line \in Text /\ pat \in 1..(m + 1)
        /\ start \in 1..(l + 1) /\ cur \in start..(l + 1)
    BY <2>1 DEF TypeInv, TypeOK, Phase
  <2>3. m \in Nat /\ l \in Nat
    BY <2>2 DEF Text
  <2> QED BY <2>1, <2>2, <2>3
<1>2. /\ cur = start + pat - 1
      /\ \A j \in 1..(pat - 1) : Same(line[start - 1 + j], p[j])
      /\ \A i \in 0..(l - m) : i < start - 1 => \E j \in DOMAIN p : ~Same(line[i + j], p[j])
  BY <1>1 DEF MatchInv
<1>3. DOMAIN p = 1..m
  BY <1>1 DEF Text
<1> HIDE DEF p, m, l
<1>4. CASE pat > m
  <2>1. Judge(TRUE) /\ pc' = "read"
    BY <1>4 DEF Compare, Judge, m
  <2>2. start - 1 \in 0..(l - m) /\ \A j \in DOMAIN p : j \in 1..(pat - 1)
    BY <1>1, <1>2, <1>3, <1>4
  <2>3. \A j \in DOMAIN p : Same(line[start - 1 + j], p[j])
    BY <1>2, <2>2
  <2>4. Occurs(line, p)
    BY <2>2, <2>3 DEF Occurs, l, m, p
  <2>5. Occurs(line, args.pattern) = TRUE
    BY <2>4 DEF p
  <2> QED BY <2>1, <2>5
<1>5. CASE ~(pat > m) /\ start > l
  <2>1. Judge(FALSE) /\ pc' = "read"
    BY <1>5 DEF Compare, Judge, m, l
  <2>2. \A i \in 0..(l - m) : i < start - 1
    BY <1>1, <1>5
  <2>3. ~Occurs(line, p)
    BY <1>2, <2>2 DEF Occurs, l, m, p
  <2>4. Occurs(line, args.pattern) = FALSE
    BY <2>3 DEF p
  <2> QED BY <2>1, <2>4
<1>6. CASE ~(pat > m) /\ ~(start > l)
  <2>1. /\ pc' = "match" /\ UNCHANGED <<line, grepVars, out>>
        /\ IF cur <= l /\ Same(line[cur], p[pat])
           THEN cur' = cur + 1 /\ pat' = pat + 1 /\ start' = start
           ELSE start' = start + 1 /\ cur' = start + 1 /\ pat' = 1
    BY <1>1, <1>6 DEF Compare, Restart, l, m, p
  <2>2. p' = p /\ l' = l /\ m' = m /\ line' = line /\ \A c, d : Same(c, d)' = Same(c, d)
    BY <1>1, <2>1 DEF p, l, m, Same
  <2>3. CASE cur <= l /\ Same(line[cur], p[pat])
    <3>1. cur' = start' + pat' - 1
      BY <1>1, <1>2, <2>1, <2>3
    <3>2. ASSUME NEW j \in 1..(pat' - 1) PROVE Same(line[start' - 1 + j], p[j])
      <4>1. j \in 1..(pat - 1) \/ j = pat
        BY <1>1, <2>1, <2>3
      <4>2. start' - 1 + pat = cur
        BY <1>1, <1>2, <2>1, <2>3
      <4> QED BY <1>2, <2>1, <2>3, <4>1, <4>2
    <3>3. (/\ cur = start + pat - 1
           /\ \A j \in 1..(pat - 1) : Same(line[start - 1 + j], p[j])
           /\ \A i \in 0..(l - m) : i < start - 1 => \E j \in DOMAIN p : ~Same(line[i + j], p[j]))'
      BY <1>2, <2>1, <2>2, <2>3, <3>1, <3>2
    <3> QED BY <2>1, <3>3 DEF MatchInv, p, l, m
  <2>4. CASE ~(cur <= l /\ Same(line[cur], p[pat]))
    <3>1. cur' = start' + pat' - 1 /\ 1..(pat' - 1) = {}
      BY <1>1, <2>1, <2>4
    <3>2. ASSUME NEW i \in 0..(l - m), i < start' - 1
          PROVE  \E j \in DOMAIN p : ~Same(line[i + j], p[j])
      <4>1. CASE i < start - 1
        BY <1>2, <4>1
      <4>2. CASE ~(i < start - 1)
        <5>1. i = start - 1 /\ pat \in DOMAIN p /\ i + pat = cur /\ cur <= l
          BY <1>1, <1>2, <1>3, <1>6, <2>1, <2>4, <3>2, <4>2
        <5> QED BY <2>4, <5>1
      <4> QED BY <4>1, <4>2
    <3>3. (/\ cur = start + pat - 1
           /\ \A j \in 1..(pat - 1) : Same(line[start - 1 + j], p[j])
           /\ \A i \in 0..(l - m) : i < start - 1 => \E j \in DOMAIN p : ~Same(line[i + j], p[j]))'
      BY <2>1, <2>2, <2>4, <3>1, <3>2
    <3> QED BY <2>1, <3>3 DEF MatchInv, p, l, m
  <2> QED BY <2>1, <2>3, <2>4
<1> QED
  BY <1>4, <1>5, <1>6

-----------------------------------------------------------------------------
(* minigrep: each action keeps what was found. *)

\* What does not change with what is read.
LEMMA GrepKept ==
    ASSUME UNCHANGED <<args, opts>>
    PROVE  /\ \A k : Content(k)' = Content(k) /\ GrepReport(k)' = GrepReport(k)
           /\ \A s : Selected(s)' = Selected(s)
           /\ \A k, chosen : Shows(k, chosen)' = Shows(k, chosen)
           /\ Readable' = Readable
<1>1. \A k : Content(k)' = Content(k)
  BY DEF Content
<1>2. \A s, p : Occurs(s, p)' = Occurs(s, p)
  BY DEF Occurs, Same
<1>3. \A s : Selected(s)' = Selected(s)
  BY <1>2 DEF Selected
<1>4. \A k, n, t : Reported(k, n, t)' = Reported(k, n, t)
  BY DEF Reported
<1>5. \A k : GrepReport(k)' = GrepReport(k)
  BY <1>1, <1>3, <1>4 DEF GrepReport
<1>6. \A k, chosen : Shows(k, chosen)' = Shows(k, chosen)
  BY <1>1, <1>4 DEF Shows
<1>7. Readable' = Readable
  BY <1>1 DEF Readable
<1> QED
  BY <1>1, <1>3, <1>5, <1>6, <1>7

\* What is printed.
Printed == [file : Nat, number : Nat, text : Text] \cup [file : Nat, count : Nat]

LEMMA SelectedBounds ==
    ASSUME NEW s \in Text
    PROVE  /\ Cardinality(LineEnds(s)) \in Nat
           /\ Selected(s) \in SUBSET (1..Cardinality(LineEnds(s)))
           /\ Selected(s) \in SUBSET (0..Cardinality(LineEnds(s)))
           /\ \A n \in Selected(s) : n \in Nat /\ n \in DOMAIN Lines(s) /\ Lines(s)[n] \in Text
<1>1. Cardinality(LineEnds(s)) \in Nat
  BY LineEndsBounds
<1>2. Selected(s) \in SUBSET (1..Cardinality(LineEnds(s)))
      /\ \A n \in Selected(s) : n \in DOMAIN Lines(s) /\ Lines(s)[n] \in Text
  BY LinesAreText DEF Selected
<1>3. Selected(s) \in SUBSET (0..Cardinality(LineEnds(s)))
  BY <1>1, <1>2, UpToEnds
<1> QED
  BY <1>1, <1>2, <1>3

LEMMA ShowsNext ==
    ASSUME NEW k \in Nat, Content(k) \in Text, NEW C \in Seq(Selected(Content(k)))
    PROVE  /\ Shows(k, C) \in Seq(Printed)
           /\ \A n \in Selected(Content(k)) :
                 Shows(k, Append(C, n)) =
                    IF "c" \in opts THEN Shows(k, C)
                    ELSE Append(Shows(k, C), Reported(k, n, Lines(Content(k))[n]))
<1> DEFINE s == Content(k)  R(n) == Reported(k, n, Lines(s)[n])
<1>1. \A n \in Selected(s) : R(n) \in Printed
  <2> TAKE n \in Selected(s)
  <2>1. n \in Nat /\ Lines(s)[n] \in Text
    BY SelectedBounds
  <2> QED BY <2>1 DEF Reported, Printed
<1>2. Len(C) \in Nat /\ \A j \in 1..Len(C) : C[j] \in Selected(s)
  OBVIOUS
<1>3. CASE "c" \in opts
  BY <1>3 DEF Shows
<1>4. CASE "c" \notin opts
  <2>1. \A D : Shows(k, D) = [j \in DOMAIN D |-> R(D[j])]
    BY <1>4 DEF Shows
  <2> HIDE DEF R
  <2>2. ASSUME NEW D \in Seq(Selected(s))
        PROVE  Shows(k, D) \in Seq(Printed) /\ Len(Shows(k, D)) = Len(D)
               /\ \A j \in 1..Len(D) : Shows(k, D)[j] = R(D[j])
    <3>1. Shows(k, D) = [j \in 1..Len(D) |-> R(D[j])]
      BY <2>1
    <3>2. \A j \in 1..Len(D) : R(D[j]) \in Printed
      BY <1>1
    <3>3. [j \in 1..Len(D) |-> R(D[j])] \in [1..Len(D) -> Printed] /\ Len(D) \in Nat
      BY <3>2
    <3> QED BY <3>1, <3>3
  <2>3. ASSUME NEW n \in Selected(s)
        PROVE  Shows(k, Append(C, n)) = Append(Shows(k, C), R(n))
    <3>1. /\ Append(C, n) \in Seq(Selected(s)) /\ Len(Append(C, n)) = Len(C) + 1
          /\ Append(C, n)[Len(C) + 1] = n /\ \A j \in 1..Len(C) : Append(C, n)[j] = C[j]
      OBVIOUS
    <3>2. /\ Shows(k, Append(C, n)) \in Seq(Printed) /\ Len(Shows(k, Append(C, n))) = Len(C) + 1
          /\ \A j \in 1..(Len(C) + 1) : Shows(k, Append(C, n))[j] = R(Append(C, n)[j])
      BY <2>2, <3>1
    <3>3. /\ Shows(k, C) \in Seq(Printed) /\ Len(Shows(k, C)) = Len(C)
          /\ \A j \in 1..Len(C) : Shows(k, C)[j] = R(C[j])
      BY <2>2
    <3>4. R(n) \in Printed
      BY <1>1
    <3>5. /\ Append(Shows(k, C), R(n)) \in Seq(Printed)
          /\ Len(Append(Shows(k, C), R(n))) = Len(C) + 1
          /\ Append(Shows(k, C), R(n))[Len(C) + 1] = R(n)
          /\ \A j \in 1..Len(C) : Append(Shows(k, C), R(n))[j] = Shows(k, C)[j]
      BY <3>3, <3>4
    <3>6. \A j \in 1..(Len(C) + 1) : Shows(k, Append(C, n))[j] = Append(Shows(k, C), R(n))[j]
      <4> TAKE j \in 1..(Len(C) + 1)
      <4>1. j = Len(C) + 1 \/ j \in 1..Len(C)
        BY <1>2
      <4> QED BY <3>1, <3>2, <3>3, <3>5, <4>1
    <3> QED BY <3>2, <3>5, <3>6, SeqEqual
  <2> QED BY <1>4, <2>2, <2>3 DEF R
<1> QED
  BY <1>3, <1>4

LEMMA ReportParts ==
    ASSUME NEW k \in Nat, Content(k) \in Text
    PROVE  /\ GrepReport(k) \in Seq(Printed)
           /\ GrepReport(k) =
                 IF "c" \in opts
                 THEN <<[file |-> k, count |-> Cardinality(Selected(Content(k)))]>>
                 ELSE Shows(k, Sorted(Selected(Content(k))))
<1> DEFINE S == Selected(Content(k))
<1>1. Cardinality(LineEnds(Content(k))) \in Nat /\ S \in SUBSET (0..Cardinality(LineEnds(Content(k))))
  BY SelectedBounds
<1> HIDE DEF S
<1>2. Sorted(S) \in Seq(S) /\ Len(Sorted(S)) = Cardinality(S) /\ Cardinality(S) \in Nat
  BY <1>1, SortedIsSeq, UpToFinite
<1>3. GrepReport(k) =
         IF "c" \in opts THEN <<[file |-> k, count |-> Cardinality(S)]>> ELSE Shows(k, Sorted(S))
  BY <1>2 DEF GrepReport, Shows, S
<1>4. Shows(k, Sorted(S)) \in Seq(Printed)
  BY <1>2, ShowsNext DEF S
<1>5. <<[file |-> k, count |-> Cardinality(S)]>> \in Seq(Printed)
  BY <1>2 DEF Printed
<1> QED
  BY <1>3, <1>4, <1>5 DEF S

LEMMA BeforeParts ==
    ASSUME TypeInv, ReadInv, pc # "options"
    PROVE  /\ file \in Nat /\ file - 1 \in Nat /\ (file - 1) + 1 = file /\ (file + 1) - 1 = file
           /\ \A k \in 1..(file - 1) : k \in 1..Len(args.files) /\ Content(k) \in Text
           /\ Content(file) \in Text =>
                 /\ Before \in Seq(Printed)
                 /\ FlattenSeq([k \in 1..file |-> GrepReport(k)]) = Before \o GrepReport(file)
<1>1. file \in 1..(Len(args.files) + 1) /\ Len(args.files) \in Nat
      /\ \A k \in 1..Len(args.files) : Content(k) # Missing => Content(k) \in Text
  BY ArgsTypes DEF TypeInv, TypeOK
<1>2. file \in Nat /\ file - 1 \in Nat /\ (file - 1) + 1 = file /\ (file + 1) - 1 = file
      /\ \A k \in 1..(file - 1) : k \in 1..Len(args.files) /\ k \in 1..file
  BY <1>1
<1>3. \A k \in 1..(file - 1) : Content(k) \in Text
  BY <1>1, <1>2 DEF ReadInv
<1>4. ASSUME Content(file) \in Text
      PROVE  /\ Before \in Seq(Printed)
             /\ FlattenSeq([k \in 1..file |-> GrepReport(k)]) = Before \o GrepReport(file)
  <2> DEFINE f == [k \in 1..file |-> GrepReport(k)]
  <2>1. \A k \in 1..file : k \in Nat /\ Content(k) \in Text
    <3>1. \A k \in 1..file : k \in Nat /\ (k = file \/ k \in 1..(file - 1))
      BY <1>2
    <3> QED BY <1>3, <1>4, <3>1
  <2>2. \A k \in 1..file : f[k] \in Seq(Printed)
    BY <2>1, ReportParts
  <2>3. [k \in 1..(file - 1) |-> f[k]] = [k \in 1..(file - 1) |-> GrepReport(k)]
        /\ [k \in 1..file |-> f[k]] = f /\ f[file] = GrepReport(file)
    BY <1>2
  <2> HIDE DEF f
  <2>4. /\ FlattenSeq([k \in 1..(file - 1) |-> f[k]]) \in Seq(Printed)
        /\ FlattenSeq([k \in 1..file |-> f[k]])
              = FlattenSeq([k \in 1..(file - 1) |-> f[k]]) \o f[file]
    BY <1>2, <2>2, FlattenNext
  <2> QED BY <2>3, <2>4 DEF Before, f
<1> QED
  BY <1>2, <1>3, <1>4

\* The first line of a file is yet to be read.
LEMMA GrepOpened ==
    ASSUME TypeInv, ReadInv, GrepInv, OpenFile, Content(file) # Missing
    PROVE  LineInv' /\ FoundInv'
<1>1. /\ UNCHANGED <<args, opts, file, out, total_matches>>
      /\ pc = "open" /\ args.tool = "minigrep" /\ file <= Len(args.files)
      /\ line_number' = 0 /\ match_count' = 0 /\ unread' = Content(file) /\ pc' = "read"
  BY DEF OpenFile, Grep
<1>2. Content(file) \in Text
  <2>1. file \in 1..(Len(args.files) + 1) /\ Len(args.files) \in Nat
        /\ \A k \in 1..Len(args.files) : Content(k) # Missing => Content(k) \in Text
    BY ArgsTypes DEF TypeInv, TypeOK
  <2> QED BY <1>1, <2>1
<1> DEFINE s == Content(file)  S == Selected(s)
<1>3. s' = s /\ S' = S /\ Before' = Before /\ HitBefore' = HitBefore
      /\ \A k, C : Shows(k, C)' = Shows(k, C)
  BY <1>1, GrepKept DEF Before, HitBefore
<1>4. Done' = 0
  BY <1>1, <1>2, <1>3, RestWhole DEF Done
<1>5. UpTo(LineEnds(s), 0) = {} /\ Cardinality({}) = 0
  BY <1>2, LineEndsBounds, FS_EmptySet
<1>6. UpTo(S, 0) = {}
  BY <1>2, SelectedBounds, UpToEnds
<1>7. Seen' = 0 /\ Hits' = {}
  BY <1>1, <1>3, <1>6 DEF Seen, Hits
<1>8. Shows(file, Sorted({})) = <<>> /\ Before \o <<>> = Before
  <2>1. Before \in Seq(Printed)
    BY <1>1, <1>2, BeforeParts
  <2>2. Shows(file, <<>>) = <<>>
    BY DEF Shows
  <2> QED BY <2>1, <2>2, SortedEmpty
<1>9. out = Before /\ (total_matches > 0 <=> HitBefore)
  BY <1>1 DEF GrepInv, FoundInv
<1>10. LineInv'
  <2>1. (/\ Done \in {0} \cup LineEnds(s)
         /\ line_number = Cardinality(UpTo(LineEnds(s), Done)))'
    BY <1>1, <1>3, <1>4, <1>5
  <2> QED BY <1>1, <2>1 DEF LineInv
<1>11. FoundInv'
  BY <1>1, <1>3, <1>5, <1>7, <1>8, <1>9 DEF FoundInv
<1> QED
  BY <1>10, <1>11

LEMMA GrepRead ==
    ASSUME TypeInv, ReadInv, GrepInv, ReadLine
    PROVE  LineInv' /\ FoundInv'
<1> DEFINE s == Content(file)  n == Done  p == Piece(s, n)
<1>1. /\ UNCHANGED <<args, opts, file, out, match_count, total_matches>>
      /\ pc = "read" /\ args.tool = "minigrep" /\ unread # <<>>
      /\ line' = SubSeq(unread, 1, PieceLength)
      /\ line_number' = line_number + 1 /\ pc' = "match"
  BY DEF ReadLine, Grep
<1>2. /\ s \in Text /\ n \in 0..Len(s) /\ unread = Rest(s, n) /\ Len(s) \in Nat /\ unread \in Text
  BY <1>1, RestWhole DEF ReadInv, TypeInv, TypeOK, Phase
<1>3. n # Len(s) /\ PieceLength = p
  BY <1>1, <1>2, RestFacts DEF PieceLength, Piece
<1>4. n \in {0} \cup LineEnds(s) /\ line_number = Cardinality(UpTo(LineEnds(s), n))
      /\ match_count = Cardinality(Hits) /\ out = Before \o Shows(file, Sorted(Hits))
      /\ (total_matches > 0 <=> HitBefore \/ Hits # {})
  BY <1>1 DEF GrepInv, LineInv, FoundInv
<1>5. s' = s /\ Selected(s)' = Selected(s) /\ Before' = Before /\ HitBefore' = HitBefore
      /\ \A k, C : Shows(k, C)' = Shows(k, C)
  BY <1>1, GrepKept DEF Before, HitBefore
<1>6. Done' = n + p
  <2>1. p \in 1..Len(unread)
    BY <1>1, <1>2, <1>3, PieceBounds DEF PieceLength
  <2>2. Len(unread) = Len(s) - n
    BY <1>2, RestFacts
  <2>3. p \in 0..(Len(s) - n) /\ n + p \in 0..Len(s)
    BY <1>2, <2>1, <2>2
  <2> HIDE DEF n, p
  <2>4. unread' = SubSeq(Rest(s, n), p + 1, Len(Rest(s, n)))
    BY <1>2, <1>3 DEF ReadLine
  <2>5. unread' = Rest(s, n + p)
    BY <1>2, <2>3, <2>4, RestSplits
  <2>6. Len(unread') = Len(s) - (n + p)
    BY <1>2, <2>3, <2>5, RestFacts
  <2>7. Done' = Len(s) - Len(unread')
    BY <1>5 DEF Done
  <2> QED BY <1>2, <2>1, <2>6, <2>7
<1> HIDE DEF s, n, p
<1>8. /\ line_number \in Nat /\ line_number + 1 \in DOMAIN Lines(s) /\ n + p \in LineEnds(s)
      /\ Cardinality(UpTo(LineEnds(s), n + p)) = line_number + 1
      /\ Lines(s)[line_number + 1] = SubSeq(Rest(s, n), 1, p)
  BY <1>2, <1>3, <1>4, NextLine DEF p
<1>9. (/\ Done \in {0} \cup LineEnds(s)
       /\ line_number = Cardinality(UpTo(LineEnds(s), Done))
       /\ line_number \in DOMAIN Lines(s) /\ line = Lines(s)[line_number])'
  BY <1>1, <1>2, <1>3, <1>5, <1>6, <1>8
<1>10. LineInv'
  BY <1>9 DEF LineInv, s
<1>11. Seen' = Seen /\ Hits' = Hits
  <2>1. Seen' = Seen
    BY <1>1, <1>8 DEF Seen
  <2> QED BY <1>5, <2>1 DEF Hits, s
<1>12. FoundInv'
  BY <1>1, <1>4, <1>5, <1>11 DEF FoundInv
<1> QED
  BY <1>10, <1>12

\* A line is judged.
LEMMA GrepJudged ==
    ASSUME TypeInv, ReadInv, GrepInv, Compare, Judge(Occurs(line, args.pattern)),
           pc' = "read"
    PROVE  LineInv' /\ FoundInv'
<1> DEFINE s == Content(file)  S == Selected(s)  n == line_number - 1
           C == Sorted(UpTo(S, n))  R == Reported(file, line_number, line)
<1>1. /\ UNCHANGED <<args, opts, file, unread, line, line_number>>
      /\ pc = "match" /\ args.tool = "minigrep"
  BY DEF Compare, Grep, Judge, fileVars, matchVars
<1>2. /\ s \in Text /\ file \in Nat
  BY <1>1, ArgsTypes DEF TypeInv, TypeOK, Phase
<1>3. Done \in {0} \cup LineEnds(s) /\ line_number = Cardinality(UpTo(LineEnds(s), Done))
      /\ line_number \in DOMAIN Lines(s) /\ line = Lines(s)[line_number]
      /\ match_count = Cardinality(Hits) /\ out = Before \o Shows(file, Sorted(Hits))
      /\ (total_matches > 0 <=> HitBefore \/ Hits # {})
  BY <1>1 DEF GrepInv, LineInv, FoundInv
<1>4. s' = s /\ S' = S /\ Before' = Before /\ HitBefore' = HitBefore /\ Done' = Done
      /\ \A k, D : Shows(k, D)' = Shows(k, D)
  BY <1>1, GrepKept DEF Before, HitBefore, Done
<1>5. line_number \in S <=> Occurs(line, args.pattern) # ("v" \in opts)
  BY <1>3 DEF Selected
<1>6. n \in Nat /\ n + 1 = line_number
  <2>1. Cardinality(LineEnds(s)) \in Nat /\ line_number \in 1..Cardinality(LineEnds(s))
    BY <1>2, <1>3, LinesAreText, LineEndsBounds
  <2> QED BY <2>1
<1>7. Hits = UpTo(S, n) /\ Hits' = UpTo(S, line_number)
  BY <1>1, <1>4 DEF Hits, Seen
<1>8. LineInv'
  BY <1>1, <1>3, <1>4 DEF LineInv
<1>9. Cardinality(LineEnds(s)) \in Nat /\ S \in SUBSET (0..Cardinality(LineEnds(s)))
  BY <1>2, SelectedBounds
<1> HIDE DEF s, S, n
<1>10. /\ line_number \notin S => UpTo(S, line_number) = UpTo(S, n)
       /\ line_number \in S =>
             /\ UpTo(S, line_number) = UpTo(S, n) \cup {line_number}
             /\ Cardinality(UpTo(S, line_number)) = Cardinality(UpTo(S, n)) + 1
             /\ Sorted(UpTo(S, line_number)) = Append(C, line_number)
  BY <1>6, <1>9, UpToNext
<1>11. C \in Seq(S)
  <2>1. UpTo(S, n) \in SUBSET S
    BY DEF UpTo
  <2>2. C \in Seq(UpTo(S, n))
    BY <1>9, <2>1, SortedIsSeq
  <2> QED BY <2>1, <2>2
<1>12. /\ Shows(file, C) \in Seq(Printed)
       /\ line_number \in S =>
             Shows(file, Append(C, line_number)) =
                IF "c" \in opts THEN Shows(file, C) ELSE Append(Shows(file, C), R)
  BY <1>2, <1>3, <1>11, ShowsNext DEF s, S
<1>13. Before \in Seq(Printed)
  BY <1>1, <1>2, BeforeParts DEF s
<1>14. CASE line_number \in S
  <2>1. /\ match_count' = match_count + 1 /\ total_matches' = total_matches + 1
        /\ out' = IF "c" \in opts THEN out ELSE Append(out, R)
    BY <1>5, <1>14 DEF Judge
  <2>2. total_matches' > 0
    <3>1. total_matches \in Nat
      BY DEF TypeInv, TypeOK
    <3> QED BY <2>1, <3>1
  <2>3. R \in Printed
    <3>1. line \in Text
      BY DEF TypeInv, TypeOK
    <3> QED BY <1>2, <1>6, <3>1 DEF Reported, Printed
  <2>4. Append(Before \o Shows(file, C), R) = Before \o Append(Shows(file, C), R)
    <3> HIDE DEF R, C
    <3> QED BY <1>12, <1>13, <2>3
  <2>5. out' = Before' \o Shows(file, Sorted(UpTo(S, line_number)))
    BY <1>3, <1>4, <1>7, <1>10, <1>12, <1>14, <2>1, <2>4
  <2>6. UpTo(S, line_number) # {}
    BY <1>10, <1>14
  <2> QED BY <1>1, <1>3, <1>4, <1>7, <1>8, <1>10, <1>14, <2>1, <2>2, <2>5, <2>6 DEF FoundInv
<1>15. CASE line_number \notin S
  <2>1. UNCHANGED <<match_count, total_matches, out>>
    BY <1>5, <1>15 DEF Judge
  <2> QED BY <1>1, <1>3, <1>4, <1>7, <1>8, <1>10, <1>15, <2>1 DEF FoundInv
<1> QED
  BY <1>14, <1>15

\* A file is done with.
LEMMA GrepClosed ==
    ASSUME TypeInv, ReadInv, GrepInv, CloseFile
    PROVE  FoundInv'
<1> DEFINE s == Content(file)  S == Selected(s)  N == Cardinality(LineEnds(s))
<1>1. /\ UNCHANGED <<args, opts, total_matches>>
      /\ pc = "read" /\ args.tool = "minigrep" /\ unread = <<>> /\ pc' = "open"
      /\ file' = file + 1
      /\ out' = IF "c" \in opts THEN Append(out, [file |-> file, count |-> match_count]) ELSE out
  BY DEF CloseFile, Grep, grepVars
<1>2. /\ s \in Text /\ Done \in 0..Len(s) /\ unread = Rest(s, Done)
  BY <1>1 DEF ReadInv, TypeInv, Phase
<1>3. Done = Len(s)
  BY <1>1, <1>2, RestFacts
<1>4. line_number = N
  BY <1>1, <1>2, <1>3, LineEndsBounds DEF GrepInv, LineInv
<1>5. Hits = S
  <2>1. S \in SUBSET (1..N) /\ N \in Nat
    BY <1>2, SelectedBounds
  <2>2. UpTo(S, N) = S
    <3> HIDE DEF S, N
    <3> QED BY <2>1, UpToEnds
  <2> QED BY <1>1, <1>4, <2>2 DEF Hits, Seen
<1>6. match_count = Cardinality(S) /\ out = Before \o Shows(file, Sorted(S))
      /\ (total_matches > 0 <=> HitBefore \/ S # {})
  BY <1>1, <1>5 DEF GrepInv, FoundInv
<1>7. /\ file \in Nat /\ (file + 1) - 1 = file /\ Before \in Seq(Printed)
      /\ FlattenSeq([k \in 1..file |-> GrepReport(k)]) = Before \o GrepReport(file)
      /\ \A k \in 1..file : k = file \/ k \in 1..(file - 1)
      /\ file \in 1..file /\ \A k \in 1..(file - 1) : k \in 1..file
  <2>1. file \in Nat /\ file >= 1
    BY DEF TypeInv, TypeOK
  <2> QED BY <1>1, <1>2, <2>1, BeforeParts
<1>8. /\ GrepReport(file) \in Seq(Printed)
      /\ GrepReport(file) = IF "c" \in opts THEN <<[file |-> file, count |-> Cardinality(S)]>>
                            ELSE Shows(file, Sorted(S))
  BY <1>2, <1>7, ReportParts
<1> HIDE DEF S, s
<1>9. out' = Before \o GrepReport(file)
  <2>1. CASE "c" \in opts
    <3> DEFINE r == [file |-> file, count |-> Cardinality(S)]
    <3>1. Shows(file, Sorted(S)) = <<>> /\ GrepReport(file) = <<r>>
      BY <1>8, <2>1 DEF Shows
    <3> HIDE DEF r
    <3>2. Before \o <<>> = Before /\ Append(Before, r) = Before \o <<r>>
      <4>1. r \in Printed
        BY <1>8, <3>1
      <4> QED BY <1>7, <4>1
    <3>3. out' = Append(out, r)
      BY <1>1, <1>6, <2>1 DEF r
    <3> QED BY <1>6, <3>1, <3>2, <3>3
  <2>2. CASE "c" \notin opts
    BY <1>1, <1>6, <1>8, <2>2
  <2> QED BY <2>1, <2>2
<1>10. Before' = FlattenSeq([k \in 1..file |-> GrepReport(k)])
  BY <1>1, <1>7, GrepKept DEF Before
<1>11. HitBefore' <=> HitBefore \/ S # {}
  <2>1. HitBefore' <=> \E k \in 1..file : Selected(Content(k)) # {}
    BY <1>1, <1>7, GrepKept DEF HitBefore
  <2> QED BY <1>7, <2>1 DEF HitBefore, S, s
<1> QED
  BY <1>1, <1>6, <1>7, <1>9, <1>10, <1>11 DEF FoundInv

-----------------------------------------------------------------------------
(* minigrep: what is found is what is promised. *)

LEMMA GrepStep == TypeInv /\ ReadInv /\ GrepInv /\ [Next]_vars => GrepInv'
<1> SUFFICES ASSUME TypeInv, ReadInv, GrepInv, [Next]_vars PROVE GrepInv'
  OBVIOUS
<1>1. ASSUME UNCHANGED args, pc' \notin {"open", "read", "match"} PROVE GrepInv'
  BY <1>1 DEF GrepInv, MatchInv, LineInv, FoundInv
<1>2. ASSUME UNCHANGED args, args.tool = "wordcount" PROVE GrepInv'
  BY <1>2 DEF GrepInv
<1>3. CASE Usage
  BY <1>1, <1>3 DEF Usage, Exit
<1>4. CASE Option
  <2>1. UNCHANGED args /\ pc' \notin {"open", "read", "match"}
    BY <1>4 DEF Option, Exit, Grep
  <2> QED BY <1>1, <2>1
<1>5. CASE OptionsRead
  <2>1. CASE pc' = "open"
    <3>1. file' = 1 /\ out' = <<>> /\ total_matches' = 0
      BY <1>5 DEF OptionsRead, Grep, ReadInv, fileVars, grepVars
    <3>2. [k \in 1..(file' - 1) |-> GrepReport(k)'] = <<>> /\ 1..(file' - 1) = {}
      BY <3>1
    <3>3. Before' = <<>> /\ ~HitBefore'
      BY <3>2, FlattenEmpty DEF Before, HitBefore
    <3>4. (out = Before /\ (total_matches > 0 <=> HitBefore))'
      BY <3>1, <3>3
    <3> QED BY <2>1, <3>4 DEF GrepInv, MatchInv, LineInv, FoundInv
  <2>2. CASE pc' # "open"
    BY <1>1, <1>5, <2>2 DEF OptionsRead, Exit
  <2> QED BY <2>1, <2>2
<1>6. CASE OpenFile
  <2>1. CASE Content(file) = Missing
    BY <1>1, <1>6, <2>1 DEF OpenFile, Exit
  <2>2. CASE Content(file) # Missing
    <3>1. UNCHANGED <<args, opts>> /\ pc' = "read"
      BY <1>6, <2>2 DEF OpenFile
    <3>2. LineInv' /\ FoundInv'
      BY <1>6, <2>2, <3>1, GrepKept, GrepOpened
    <3> QED BY <3>1, <3>2 DEF GrepInv, MatchInv
  <2> QED BY <2>1, <2>2
<1>7. CASE ReadLine
  <2>1. UNCHANGED <<args, opts>> /\ pc' = "match" /\ start' = 1 /\ cur' = 1 /\ pat' = 1
    BY <1>7 DEF ReadLine
  <2>2. MatchInv'
    <3>1. cur' = start' + pat' - 1 /\ 1..(pat' - 1) = {}
      BY <2>1
    <3>2. \A i \in 0..(Len(line') - Len(args'.pattern)) : ~(i < start' - 1)
      BY <2>1
    <3> QED BY <3>1, <3>2 DEF MatchInv
  <2>3. LineInv' /\ FoundInv'
    BY <1>7, <2>1, GrepKept, GrepRead
  <2> QED BY <2>2, <2>3 DEF GrepInv
<1>8. CASE Compare
  <2>1. UNCHANGED <<args, opts, file, unread>> /\ pc = "match" /\ args.tool = "minigrep"
    BY <1>8 DEF Compare, Grep, fileVars
  <2>2. CASE pc' = "match" /\ MatchInv' /\ UNCHANGED <<line, grepVars, out>>
    <3>1. LineInv' /\ FoundInv'
      <4>1. LineInv /\ FoundInv
        BY <2>1 DEF GrepInv
      <4>2. /\ Content(file)' = Content(file) /\ Done' = Done /\ Seen' = Seen /\ Hits' = Hits
            /\ Before' = Before /\ HitBefore' = HitBefore
            /\ \A k, C : Shows(k, C)' = Shows(k, C)
        BY <2>1, <2>2, GrepKept DEF Done, Seen, Hits, Before, HitBefore, grepVars
      <4>3. LineInv'
        BY <2>1, <2>2, <4>1, <4>2 DEF LineInv, grepVars
      <4>4. FoundInv'
        BY <2>1, <2>2, <4>1, <4>2 DEF FoundInv, grepVars
      <4> QED BY <4>3, <4>4
    <3> QED BY <2>1, <2>2, <3>1, GrepKept DEF GrepInv
  <2>3. CASE Judge(Occurs(line, args.pattern)) /\ pc' = "read"
    <3>1. LineInv' /\ FoundInv'
      BY <1>8, <2>1, <2>3, GrepKept, GrepJudged
    <3> QED BY <2>3, <3>1 DEF GrepInv, MatchInv
  <2>4. MatchInv
    BY <2>1 DEF GrepInv
  <2> QED BY <1>8, <2>2, <2>3, <2>4, MatchStep
<1>9. CASE CloseFile
  <2>1. UNCHANGED <<args, opts>> /\ pc' = "open"
    BY <1>9 DEF CloseFile
  <2>2. FoundInv'
    BY <1>9, <2>1, GrepKept, GrepClosed
  <2> QED BY <2>1, <2>2 DEF GrepInv, MatchInv, LineInv
<1>10. CASE AllSearched
  BY <1>1, <1>10 DEF AllSearched, Exit
<1>11. CASE WcOption \/ WcOptionsRead \/ WcOpen \/ CountChar \/ WcClose \/ WcEnd
  BY <1>2, <1>11 DEF WcOption, WcOptionsRead, WcOpen, CountChar, WcClose, WcEnd, Wc
<1>12. CASE UNCHANGED vars
  <2>1. UNCHANGED <<args, opts, file, unread, pc, line, start, cur, pat, line_number,
                    match_count, total_matches, out>>
    BY <1>12 DEF vars, fileVars, matchVars, grepVars
  <2>2. /\ Content(file)' = Content(file) /\ Done' = Done /\ Seen' = Seen /\ Hits' = Hits
        /\ Before' = Before /\ HitBefore' = HitBefore
        /\ \A k, C : Shows(k, C)' = Shows(k, C)
        /\ \A c, d : Same(c, d)' = Same(c, d)
    BY <2>1, GrepKept DEF Done, Seen, Hits, Before, HitBefore, Same
  <2>3. MatchInv => MatchInv'
    BY <2>1, <2>2 DEF MatchInv
  <2>4. LineInv => LineInv'
    BY <2>1, <2>2 DEF LineInv
  <2>5. FoundInv => FoundInv'
    BY <2>1, <2>2 DEF FoundInv
  <2> QED BY <2>1, <2>2, <2>3, <2>4, <2>5 DEF GrepInv
<1> QED
  BY <1>3, <1>4, <1>5, <1>6, <1>7, <1>8, <1>9, <1>10, <1>11, <1>12 DEF Next, Exited

\* What has been found when a file cannot be opened, or there is none left.
LEMMA GrepPrinted ==
    ASSUME TypeInv, ReadInv, GrepInv, args.tool = "minigrep", pc = "open",
           file > Len(args.files) \/ Content(file) = Missing
    PROVE  /\ out = Report(GrepReport)
           /\ total_matches > 0 <=> \E k \in Readable : Selected(Content(k)) # {}
           /\ Readable = DOMAIN args.files <=> file > Len(args.files)
<1>1. out = Before /\ (total_matches > 0 <=> HitBefore)
  BY DEF GrepInv, FoundInv
<1>2. /\ Readable = 1..(file - 1) /\ Cardinality(Readable) = file - 1
      /\ Readable = DOMAIN args.files <=> file > Len(args.files)
  BY ReadableSoFar
<1> QED
  BY <1>1, <1>2 DEF Report, Before, HitBefore

GrepEndInv == TypeInv /\ ReadInv /\ GrepInv /\ GrepIsRight

LEMMA GrepRightStep == GrepEndInv /\ [Next]_vars => GrepIsRight'
<1> SUFFICES ASSUME TypeInv, ReadInv, GrepInv, GrepIsRight, [Next]_vars, Searched'
             PROVE  (/\ out = Report(GrepReport)
                     /\ code = 3 <=> Readable # DOMAIN args.files
                     /\ code = 1 => \A k \in Readable : Selected(Content(k)) = {}
                     /\ code = 0 => \E k \in Readable : Selected(Content(k)) # {})'
  BY DEF GrepIsRight, GrepEndInv
<1>1. (args.tool = "minigrep" /\ pc = "exit" /\ code \in {0, 1, 3}
       /\ (args.flags # <<>> => args.flags[1] # "h"))'
  BY DEF Searched
<1>2. OpenFile \/ AllSearched \/ UNCHANGED vars
  <2>1. ~Usage
    BY <1>1 DEF Usage, Exit
  <2>2. ~Option
    BY <1>1 DEF Option, Exit, Grep
  <2>3. ~OptionsRead
    BY <1>1 DEF OptionsRead, Exit
  <2>4. ~(ReadLine \/ Compare \/ CloseFile)
    BY <1>1 DEF ReadLine, Compare, Judge, CloseFile, Grep
  <2>5. ~(WcOption \/ WcOptionsRead \/ WcOpen \/ CountChar \/ WcClose \/ WcEnd)
    BY <1>1 DEF WcOption, WcOptionsRead, WcOpen, CountChar, WcClose, WcEnd, Wc
  <2> QED BY <2>1, <2>2, <2>3, <2>4, <2>5 DEF Next, Exited
<1>3. UNCHANGED <<args, opts>>
  BY <1>2 DEF OpenFile, AllSearched, vars
<1>4. /\ Readable' = Readable /\ Report(GrepReport)' = Report(GrepReport)
      /\ \A k : Selected(Content(k))' = Selected(Content(k))
  BY <1>3, GrepKept DEF Report
<1>5. CASE OpenFile
  <2>1. /\ args.tool = "minigrep" /\ pc = "open" /\ file <= Len(args.files)
        /\ Content(file) = Missing /\ code' = 3 /\ out' = out
    BY <1>1, <1>5 DEF OpenFile, Grep, Exit
  <2>2. ~(file > Len(args.files))
    <3>1. file \in Nat /\ Len(args.files) \in Nat
      BY ArgsTypes DEF TypeInv, TypeOK
    <3> QED BY <2>1, <3>1
  <2> QED BY <1>3, <1>4, <2>1, <2>2, GrepPrinted
<1>6. CASE AllSearched
  <2>1. /\ args.tool = "minigrep" /\ pc = "open" /\ file > Len(args.files) /\ out' = out
        /\ code' = IF total_matches > 0 THEN 0 ELSE 1
    BY <1>6 DEF AllSearched, Grep, Exit
  <2> QED BY <1>3, <1>4, <2>1, GrepPrinted
<1>7. CASE UNCHANGED vars
  <2>1. UNCHANGED <<args, opts, pc, code, out>>
    BY <1>7 DEF vars
  <2>2. Searched
    BY <1>1, <2>1 DEF Searched
  <2> QED BY <1>4, <2>1, <2>2 DEF GrepIsRight
<1> QED
  BY <1>2, <1>5, <1>6, <1>7

(* minigrep prints exactly the lines that contain the pattern, or those that do
   not, with their numbers or counts, of all files up to one that cannot be
   opened; the exit status says which of the three it was.  Of lines of any
   length and a buffer of any size: a line that does not fit counts as several. *)
THEOREM GrepCorrect == Spec => []GrepIsRight
<1>1. Init => GrepEndInv
  BY TypeInit, ReadInit DEF GrepEndInv, GrepInv, MatchInv, LineInv, FoundInv, GrepIsRight,
     Searched, Init
<1>2. GrepEndInv /\ [Next]_vars => GrepEndInv'
  BY TypeStep, ReadStep, GrepStep, GrepRightStep DEF GrepEndInv
<1>3. GrepEndInv => GrepIsRight
  BY DEF GrepEndInv
<1> QED
  BY <1>1, <1>2, <1>3, PTL DEF Spec
=============================================================================
