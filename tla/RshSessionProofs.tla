-------------------------- MODULE RshSessionProofs --------------------------
(***************************************************************************)
(* One session with any number of lines and any outputs, its streams cut   *)
(* into any pieces: types, and that client and server stay in step.        *)
(***************************************************************************)
EXTENDS RshSession, DataLemmas

(* What is on its way to the server is the last line, up to its NUL, or a part
   of it when the server has begun to receive it; nothing when it executes. *)
RequestInv ==
    /\ ~orphan
    /\ \A i \in 1..Len(up) : up[i].n = n /\ (up[i].ch = "nul" <=> i = Len(up))
    /\ Len(up) # 0 => spc = "recv" \/ (spc = "reply" /\ reply = <<>>)

(* An answer ends with 0x04 and has no other one. *)
AnswerInv ==
    spc = "reply" =>
        \A i \in 1..Len(reply) :
            reply[i].n = serving /\ (reply[i].ch = "eot" <=> i = Len(reply))

(* Each side learns that the other one has closed when it has. *)
EndsInv ==
    /\ srvEnd # "open" <=> spc = "ended"
    /\ cpc # "closed" => cliEnd = "open" /\ spc # "dead"

AnswerSent == spc \in {"recv", "ended"} \/ (spc = "reply" /\ reply = <<>>)

(* What the client has to do with it: what arrives belongs to its last line. *)
ClientInv ==
    /\ cpc = "prompt" =>
          /\ Len(up) = 0 /\ Len(down) = 0 /\ AnswerSent
          /\ spc = "ended" \/ serving = n
    /\ cpc = "recv" =>
          /\ \A i \in 1..Len(down) :
                down[i].n = n /\ (down[i].ch = "eot" => i = Len(down) /\ AnswerSent)
          /\ Len(up) # 0 => Len(down) = 0
          /\ spc = "ended" \/ Len(up) # 0 \/ serving = n

CleanInv == RequestInv /\ EndsInv /\ ClientInv
IInv == TypeOK /\ AnswerInv /\ (clean => CleanInv)

-----------------------------------------------------------------------------
(* Sequences of bytes. *)

LEMMA SeqFacts ==
    ASSUME NEW S, NEW s \in Seq(S)
    PROVE  /\ Len(s) \in Nat /\ (s = <<>> <=> Len(s) = 0)
           /\ \A i \in 1..Len(s) : s[i] \in S
BY LenProperties, EmptySeq, ElementOfSeq

LEMMA NothingLeft == ASSUME NEW S PROVE <<>> \in Seq(S) /\ Len(<<>>) = 0
BY EmptySeq

(* What a recv takes from a stream and what it leaves. *)
LEMMA CutFacts ==
    ASSUME NEW S, NEW s \in Seq(S), NEW j \in 0..Len(s)
    PROVE  /\ SubSeq(s, 1, j) \in Seq(S) /\ Len(SubSeq(s, 1, j)) = j
           /\ \A i \in 1..j : SubSeq(s, 1, j)[i] = s[i]
           /\ SubSeq(s, j + 1, Len(s)) \in Seq(S) /\ Len(SubSeq(s, j + 1, Len(s))) = Len(s) - j
           /\ \A i \in 1..(Len(s) - j) : SubSeq(s, j + 1, Len(s))[i] = s[i + j]
<1>1. Len(s) \in Nat /\ \A i \in 1..Len(s) : s[i] \in S
  BY SeqFacts
<1>2. /\ SubSeq(s, 1, j) \in Seq(S) /\ Len(SubSeq(s, 1, j)) = j
      /\ \A i \in 1..j : SubSeq(s, 1, j)[i] = s[i]
  <2>1. 1 \in Int /\ j \in Int /\ \A i \in 1..j : s[i] \in S
    BY <1>1
  <2>2. /\ SubSeq(s, 1, j) \in Seq(S)
        /\ Len(SubSeq(s, 1, j)) = IF 1 <= j THEN j - 1 + 1 ELSE 0
        /\ \A i \in 1..(j - 1 + 1) : SubSeq(s, 1, j)[i] = s[1 + i - 1]
    BY <2>1, SubSeqProperties
  <2> QED
    BY <1>1, <2>2
<1>3. /\ SubSeq(s, j + 1, Len(s)) \in Seq(S) /\ Len(SubSeq(s, j + 1, Len(s))) = Len(s) - j
      /\ \A i \in 1..(Len(s) - j) : SubSeq(s, j + 1, Len(s))[i] = s[i + j]
  <2> DEFINE a == j + 1
             b == Len(s)
  <2>1. a \in Int /\ b \in Int /\ \A i \in a..b : s[i] \in S
    BY <1>1
  <2> HIDE DEF a, b
  <2>2. /\ SubSeq(s, a, b) \in Seq(S)
        /\ Len(SubSeq(s, a, b)) = IF a <= b THEN b - a + 1 ELSE 0
        /\ \A i \in 1..(b - a + 1) : SubSeq(s, a, b)[i] = s[a + i - 1]
    BY <2>1, SubSeqProperties
  <2>3. b - a + 1 = Len(s) - j /\ (a <= b \/ b - a + 1 = 0)
    BY <1>1 DEF a, b
  <2>4. \A i \in 1..(Len(s) - j) : SubSeq(s, a, b)[i] = s[i + j]
    <3> SUFFICES ASSUME NEW i \in 1..(Len(s) - j) PROVE SubSeq(s, a, b)[i] = s[i + j]
      OBVIOUS
    <3>1. SubSeq(s, a, b)[i] = s[a + i - 1]
      BY <2>2, <2>3
    <3>2. a + i - 1 = i + j
      BY DEF a
    <3> QED
      BY <3>1, <3>2
  <2> QED
    BY <2>2, <2>3, <2>4 DEF a, b
<1> QED
  BY <1>2, <1>3

(* A request ends with its only NUL. *)
LEMMA RequestFacts ==
    ASSUME NEW j \in 1..MaxLines, NEW l \in Kinds
    PROVE  /\ Request(j, l) \in Seq(UpBytes) /\ Len(Request(j, l)) \in {1, 2}
           /\ \A i \in 1..Len(Request(j, l)) :
                 /\ Request(j, l)[i].n = j
                 /\ Request(j, l)[i].ch = "nul" <=> i = Len(Request(j, l))
<1> DEFINE text == <<Byte(j, l)>>
           nul == <<Byte(j, "nul")>>
<1>1. /\ Byte(j, l) \in UpBytes /\ Byte(j, "nul") \in UpBytes
      /\ Byte(j, l).n = j /\ Byte(j, l).ch = l
      /\ Byte(j, "nul").n = j /\ Byte(j, "nul").ch = "nul"
  BY DEF Byte, UpBytes
<1>2. l # "nul"
  BY DEF Kinds
<1>3. text \in Seq(UpBytes) /\ Len(text) = 1 /\ text[1].n = j /\ text[1].ch = l
  BY <1>1
<1>4. nul \in Seq(UpBytes) /\ Len(nul) = 1 /\ nul[1].n = j /\ nul[1].ch = "nul"
  BY <1>1
<1>5. Request(j, l) = (IF l = "empty" THEN <<>> ELSE text) \o nul
  BY DEF Request
<1> HIDE DEF text, nul
<1>6. CASE l = "empty"
  <2>1. Request(j, l) = nul
    BY <1>4, <1>5, <1>6, ConcatEmptySeq
  <2>2. \A i \in 1..Len(nul) : nul[i].n = j /\ (nul[i].ch = "nul" <=> i = Len(nul))
    BY <1>4
  <2>3. nul \in Seq(UpBytes) /\ Len(nul) \in {1, 2}
    BY <1>4
  <2> QED
    BY <2>1, <2>2, <2>3, Zenon
<1>7. CASE l # "empty"
  <2>1. Request(j, l) = text \o nul
    BY <1>5, <1>7
  <2>2. /\ text \o nul \in Seq(UpBytes) /\ Len(text \o nul) = 2
        /\ \A i \in 1..2 : (text \o nul)[i] = IF i <= 1 THEN text[i] ELSE nul[i - 1]
    BY <1>3, <1>4, ConcatProperties
  <2>3. /\ (text \o nul)[1].n = j /\ (text \o nul)[1].ch = l
        /\ (text \o nul)[2].n = j /\ (text \o nul)[2].ch = "nul"
    BY <1>3, <1>4, <2>2
  <2> QED
    BY <1>2, <2>1, <2>2, <2>3
<1> QED
  BY <1>6, <1>7

(* What the server answers. *)
AnswerBytes(bytes) ==
    /\ bytes \in Seq(DownBytes) /\ Len(bytes) # 0
    /\ \A i \in 1..Len(bytes) :
          bytes[i].n = serving /\ (bytes[i].ch = "eot" <=> i = Len(bytes))

LEMMA AnswerFacts ==
    ASSUME TypeOK PROVE AnswerBytes(Eot) /\ AnswerBytes(Message) /\ AnswerBytes(Executed)
<1> DEFINE data == <<Byte(serving, "data")>>
           eot == <<Byte(serving, "eot")>>
<1>1. /\ Byte(serving, "data") \in DownBytes /\ Byte(serving, "eot") \in DownBytes
      /\ Byte(serving, "data").n = serving /\ Byte(serving, "data").ch = "data"
      /\ Byte(serving, "eot").n = serving /\ Byte(serving, "eot").ch = "eot"
  BY DEF Byte, DownBytes, TypeOK
<1>2. data \in Seq(DownBytes) /\ Len(data) = 1 /\ data[1].n = serving /\ data[1].ch = "data"
  BY <1>1
<1>3. eot \in Seq(DownBytes) /\ Len(eot) = 1 /\ eot[1].n = serving /\ eot[1].ch = "eot"
  BY <1>1
<1>4. Eot = eot /\ Executed = eot /\ Message = data \o eot
  BY DEF Eot, Executed, Message
<1> HIDE DEF data, eot
<1>5. /\ data \o eot \in Seq(DownBytes) /\ Len(data \o eot) = 2
      /\ \A i \in 1..2 : (data \o eot)[i] = IF i <= 1 THEN data[i] ELSE eot[i - 1]
  BY <1>2, <1>3, ConcatProperties
<1>6. /\ (data \o eot)[1].n = serving /\ (data \o eot)[1].ch = "data"
      /\ (data \o eot)[2].n = serving /\ (data \o eot)[2].ch = "eot"
  BY <1>2, <1>3, <1>5
<1>7. AnswerBytes(eot)
  BY <1>3 DEF AnswerBytes
<1>8. AnswerBytes(data \o eot)
  BY <1>5, <1>6 DEF AnswerBytes
<1> QED
  BY <1>4, <1>7, <1>8

-----------------------------------------------------------------------------
(* The types of the streams and of the rest. *)

LEMMA Streams ==
    ASSUME TypeOK
    PROVE  /\ up \in Seq(UpBytes) /\ Len(up) \in Nat /\ (up = <<>> <=> Len(up) = 0)
           /\ \A i \in 1..Len(up) : up[i] \in UpBytes
           /\ down \in Seq(DownBytes) /\ Len(down) \in Nat /\ (down = <<>> <=> Len(down) = 0)
           /\ \A i \in 1..Len(down) : down[i] \in DownBytes
           /\ reply \in Seq(DownBytes) /\ Len(reply) \in Nat /\ (reply = <<>> <=> Len(reply) = 0)
           /\ \A i \in 1..Len(reply) : reply[i] \in DownBytes
<1>1. up \in Seq(UpBytes) /\ down \in Seq(DownBytes) /\ reply \in Seq(DownBytes)
  BY DEF TypeOK
<1> QED
  BY <1>1, SeqFacts

LEMMA InitInv == Init => IInv
<1> SUFFICES ASSUME Init PROVE IInv
  OBVIOUS
<1>1. /\ cpc = "prompt" /\ line = "empty" /\ n = 0
      /\ up = <<>> /\ down = <<>> /\ cliEnd = "open" /\ srvEnd = "open"
      /\ spc = "recv" /\ io = <<>> /\ serving = 0 /\ reply = <<>> /\ next = "recv"
      /\ child = <<>> /\ last_rc = 0 /\ orphan = FALSE /\ clean = TRUE
  BY Zenon DEF Init
<1>2. /\ up \in Seq(UpBytes) /\ down \in Seq(DownBytes) /\ io \in Seq(TextBytes)
      /\ reply \in Seq(DownBytes) /\ child \in Seq({"data", "eot"})
      /\ Len(up) = 0 /\ Len(down) = 0
  BY <1>1, NothingLeft, Zenon
<1>3. n \in 0..MaxLines /\ serving \in 0..MaxLines /\ line \in Kinds
  BY <1>1, MaxLinesAssumption DEF Kinds
<1>4. TypeOK
  BY <1>1, <1>2, <1>3 DEF TypeOK
<1>5. CleanInv
  BY <1>1, <1>2 DEF CleanInv, RequestInv, EndsInv, ClientInv, AnswerSent
<1> QED
  BY <1>1, <1>4, <1>5 DEF IInv, AnswerInv

-----------------------------------------------------------------------------
(* The client. *)

(* It closes its end. *)
LEMMA LeaveStep ==
    ASSUME IInv, cpc' = "closed", ClientCloses, UNCHANGED <<line, n, up, srvEnd, serverVars>>
    PROVE  IInv'
<1>1. /\ cliEnd' \in {"fin", "rst"} /\ down' = <<>>
  BY DEF ClientCloses
<1>2. /\ line' = line /\ n' = n /\ up' = up /\ srvEnd' = srvEnd
      /\ spc' = spc /\ io' = io /\ serving' = serving /\ reply' = reply /\ next' = next
      /\ child' = child /\ last_rc' = last_rc /\ orphan' = orphan /\ clean' = clean
  BY DEF serverVars
<1>3. TypeOK /\ AnswerInv /\ (clean => CleanInv)
  BY DEF IInv
<1>4. down' \in Seq(DownBytes)
  BY <1>1, NothingLeft, Zenon
<1>5. TypeOK'
  BY <1>1, <1>2, <1>3, <1>4 DEF TypeOK
<1>6. AnswerInv'
  BY <1>2, <1>3, Zenon DEF AnswerInv
<1>7. ASSUME clean' PROVE CleanInv'
  <2>1. RequestInv /\ EndsInv
    BY <1>2, <1>3, <1>7 DEF CleanInv
  <2>2. RequestInv'
    BY <1>2, <2>1 DEF RequestInv
  <2>3. EndsInv' /\ ClientInv'
    BY <1>2, <2>1 DEF EndsInv, ClientInv
  <2> QED
    BY <2>2, <2>3 DEF CleanInv
<1> QED
  BY <1>5, <1>6, <1>7 DEF IInv

LEMMA TypeLineStep == ASSUME IInv, NEW l \in Lines, TypeLine(l) PROVE IInv'
<1>1. /\ cpc = "prompt" /\ n < MaxLines /\ line' = l /\ n' = n + 1 /\ srvEnd' = srvEnd
      /\ spc' = spc /\ io' = io /\ serving' = serving /\ reply' = reply /\ next' = next
      /\ child' = child /\ last_rc' = last_rc /\ orphan' = orphan /\ clean' = clean
  BY DEF TypeLine, serverVars
<1>2. TypeOK /\ AnswerInv /\ (clean => CleanInv) /\ l \in Kinds
  BY LinesAssumption DEF IInv
<1>3. n' \in 1..MaxLines /\ n' \in 0..MaxLines /\ line' \in Kinds
  BY <1>1, <1>2, MaxLinesAssumption DEF TypeOK
<1>4. AnswerInv'
  BY <1>1, <1>2, Zenon DEF AnswerInv
<1>5. ASSUME clean
      PROVE  /\ RequestInv /\ EndsInv /\ Len(up) = 0 /\ Len(down) = 0 /\ AnswerSent
             /\ spc = "ended" \/ serving = n
             /\ srvEnd = "open" => spc # "ended"
             /\ srvEnd # "open" => spc = "ended"
  BY <1>1, <1>2, <1>5 DEF CleanInv, ClientInv, EndsInv
<1>6. CASE srvEnd = "rst"
  <2>1. cpc' = "closed" /\ ClientCloses /\ up' = up
    BY <1>6, Zenon DEF TypeLine
  <2>2. cliEnd' \in {"fin", "rst"} /\ down' = <<>>
    BY <2>1 DEF ClientCloses
  <2>3. down' \in Seq(DownBytes)
    BY <2>2, NothingLeft, Zenon
  <2>4. TypeOK'
    BY <1>1, <1>2, <1>3, <2>1, <2>2, <2>3 DEF TypeOK
  <2>5. ASSUME clean' PROVE CleanInv'
    <3>1. clean
      BY <1>1, <2>5
    <3>2. RequestInv'
      BY <1>1, <1>5, <2>1, <3>1 DEF RequestInv
    <3>3. EndsInv' /\ ClientInv'
      BY <1>1, <1>5, <2>1, <3>1 DEF EndsInv, ClientInv
    <3> QED
      BY <3>2, <3>3 DEF CleanInv
  <2> QED
    BY <1>4, <2>4, <2>5 DEF IInv
<1>7. CASE srvEnd = "open"
  <2> DEFINE r == Request(n', l)
  <2>1. cpc' = "recv" /\ up' = up \o r /\ down' = down /\ cliEnd' = cliEnd
    BY <1>7, Zenon DEF TypeLine
  <2>2. /\ r \in Seq(UpBytes) /\ Len(r) \in {1, 2}
        /\ \A i \in 1..Len(r) : r[i].n = n' /\ (r[i].ch = "nul" <=> i = Len(r))
    BY <1>2, <1>3, RequestFacts
  <2> HIDE DEF r
  <2>3. up' \in Seq(UpBytes)
    BY <1>2, <2>1, <2>2, ConcatProperties DEF TypeOK
  <2>4. TypeOK'
    BY <1>1, <1>2, <1>3, <2>1, <2>3 DEF TypeOK
  <2>5. ASSUME clean' PROVE CleanInv'
    <3>1. clean
      BY <1>1, <2>5
    <3>2. up' = r
      <4>1. up = <<>>
        BY <1>2, <1>5, <3>1, Streams
      <4> QED
        BY <2>1, <2>2, <4>1, ConcatEmptySeq
    <3>3. spc = "recv" \/ (spc = "reply" /\ reply = <<>>)
      BY <1>5, <1>7, <3>1 DEF AnswerSent
    <3>4. RequestInv'
      BY <1>1, <1>5, <2>2, <3>1, <3>2, <3>3 DEF RequestInv
    <3>5. EndsInv'
      BY <1>1, <1>5, <2>1, <3>1 DEF EndsInv
    <3>6. ClientInv'
      <4>1. cpc' = "recv" /\ Len(down') = 0 /\ Len(up') # 0
        BY <1>5, <2>1, <2>2, <3>1, <3>2
      <4> QED
        BY <4>1 DEF ClientInv
    <3> QED
      BY <3>4, <3>5, <3>6 DEF CleanInv
  <2> QED
    BY <1>4, <2>4, <2>5 DEF IInv
<1>8. CASE srvEnd \notin {"rst", "open"}
  <2>1. cpc' = "recv" /\ up' = up /\ down' = down /\ cliEnd' = cliEnd
    BY <1>8, Zenon DEF TypeLine
  <2>2. TypeOK'
    BY <1>1, <1>2, <1>3, <2>1 DEF TypeOK
  <2>3. ASSUME clean' PROVE CleanInv'
    <3>1. clean /\ spc = "ended"
      BY <1>1, <1>5, <1>8, <2>3
    <3>2. RequestInv'
      BY <1>1, <1>5, <2>1, <3>1 DEF RequestInv
    <3>3. EndsInv'
      BY <1>1, <1>5, <2>1, <3>1 DEF EndsInv
    <3>4. ClientInv'
      BY <1>1, <1>5, <2>1, <3>1 DEF ClientInv
    <3> QED
      BY <3>2, <3>3, <3>4 DEF CleanInv
  <2> QED
    BY <1>4, <2>2, <2>3 DEF IInv
<1> QED
  BY <1>6, <1>7, <1>8

(* The client takes the end of the answer for its end because 0x04 is the last
   byte that has arrived. *)
LEMMA RecvChunkStep == ASSUME IInv, RecvChunk PROVE IInv'
<1>1. /\ cpc = "recv" /\ down # <<>>
      /\ line' = line /\ n' = n /\ up' = up /\ srvEnd' = srvEnd
      /\ spc' = spc /\ io' = io /\ serving' = serving /\ reply' = reply /\ next' = next
      /\ child' = child /\ last_rc' = last_rc /\ orphan' = orphan /\ clean' = clean
  BY DEF RecvChunk, serverVars
<1>2. TypeOK /\ AnswerInv /\ (clean => CleanInv)
  BY DEF IInv
<1>3. down \in Seq(DownBytes) /\ Len(down) \in Nat \ {0}
  BY <1>1, <1>2, Streams
<1>4. PICK j \in 1..Len(down) :
          LET rest == SubSeq(down, j + 1, Len(down))
              last == IsLast(SubSeq(down, 1, j))
          IN  IF last /\ Leaves
              THEN /\ cpc' = "closed" /\ down' = <<>>
                   /\ cliEnd' = IF rest = <<>> THEN "fin" ELSE "rst"
              ELSE /\ cpc' = IF last THEN "prompt" ELSE "recv"
                   /\ down' = rest /\ UNCHANGED cliEnd
  BY Zenon DEF RecvChunk
<1> DEFINE rest == SubSeq(down, j + 1, Len(down))
           chunk == SubSeq(down, 1, j)
           last == IsLast(chunk)
<1>5. /\ chunk \in Seq(DownBytes) /\ Len(chunk) = j /\ chunk[j] = down[j]
      /\ rest \in Seq(DownBytes) /\ Len(rest) = Len(down) - j
      /\ \A i \in 1..(Len(down) - j) : rest[i] = down[i + j]
  <2>1. j \in 0..Len(down) /\ j \in 1..j
    BY <1>3
  <2> QED
    BY <1>3, <2>1, CutFacts
<1>6. \/ /\ last /\ cpc' = "closed" /\ down' = <<>> /\ cliEnd' \in {"fin", "rst"}
      \/ /\ last /\ cpc' = "prompt" /\ down' = rest /\ cliEnd' = cliEnd
      \/ /\ ~last /\ cpc' = "recv" /\ down' = rest /\ cliEnd' = cliEnd
  BY <1>4
<1>7. last <=> down[j].ch = "eot"
  <2> HIDE DEF chunk
  <2> QED
    BY <1>5 DEF IsLast, Last
<1> HIDE DEF rest, chunk, last
<1>8. down' \in Seq(DownBytes)
  BY <1>5, <1>6, NothingLeft
<1>9. TypeOK'
  BY <1>1, <1>2, <1>6, <1>8 DEF TypeOK
<1>10. AnswerInv'
  BY <1>1, <1>2, Zenon DEF AnswerInv
<1>11. ASSUME clean' PROVE CleanInv'
  <2>1. RequestInv /\ EndsInv /\ ClientInv
    BY <1>1, <1>2, <1>11 DEF CleanInv
  <2>2. /\ \A i \in 1..Len(down) :
              down[i].n = n /\ (down[i].ch = "eot" => i = Len(down) /\ AnswerSent)
        /\ Len(up) = 0 /\ Len(up) \in Nat
        /\ spc = "ended" \/ serving = n
    BY <1>1, <1>2, <1>3, <2>1, Streams DEF ClientInv
  <2>3. RequestInv'
    BY <1>1, <2>1 DEF RequestInv
  <2>4. EndsInv'
    BY <1>1, <1>6, <2>1 DEF EndsInv
  <2>5. AnswerSent' <=> AnswerSent
    BY <1>1 DEF AnswerSent
  <2>6. ClientInv'
    <3>1. CASE cpc' = "closed"
      BY <3>1 DEF ClientInv
    <3>2. CASE last /\ cpc' = "prompt" /\ down' = rest
      <4>1. j = Len(down) /\ AnswerSent
        BY <1>7, <2>2, <3>2
      <4>2. Len(down') = 0
        BY <1>3, <1>5, <3>2, <4>1
      <4> QED
        BY <1>1, <2>2, <2>5, <3>2, <4>1, <4>2 DEF ClientInv
    <3>3. CASE ~last /\ cpc' = "recv" /\ down' = rest
      <4>1. ASSUME NEW i \in 1..Len(down')
            PROVE  down'[i].n = n /\ (down'[i].ch = "eot" => i = Len(down') /\ AnswerSent)
        <5>1. i + j \in 1..Len(down) /\ down'[i] = down[i + j] /\ Len(down') = Len(down) - j
          BY <1>3, <1>5, <3>3
        <5>2. i + j = Len(down) => i = Len(down')
          BY <1>3, <5>1
        <5> QED
          BY <2>2, <5>1, <5>2
      <4> QED
        BY <1>1, <2>2, <2>5, <3>3, <4>1 DEF ClientInv
    <3> QED
      BY <1>6, <3>1, <3>2, <3>3
  <2> QED
    BY <2>3, <2>4, <2>6 DEF CleanInv
<1> QED
  BY <1>9, <1>10, <1>11 DEF IInv

-----------------------------------------------------------------------------
(* The server. *)

(* Without a child that was left behind, nothing is under way to a server that
   has closed, and the client may lose the end of what is under way to it. *)
LEMMA ServerClosesFacts ==
    ASSUME TypeOK, ServerCloses
    PROVE  /\ up' \in Seq(UpBytes) /\ down' \in Seq(DownBytes)
           /\ srvEnd' \in {"open", "fin", "rst"}
           /\ ~orphan => /\ srvEnd' # "open" /\ Len(up') = 0
                         /\ Len(down') \in 0..Len(down)
                         /\ \A i \in 1..Len(down') : down'[i] = down[i]
<1>1. up \in Seq(UpBytes) /\ down \in Seq(DownBytes) /\ srvEnd \in {"open", "fin", "rst"}
  BY DEF TypeOK
<1>2. CASE orphan
  BY <1>1, <1>2 DEF ServerCloses
<1>3. CASE ~orphan
  <2>1. srvEnd' \in {"fin", "rst"} /\ up' = <<>>
    BY <1>3 DEF ServerCloses
  <2>2. PICK j \in 0..Len(down) : down' = SubSeq(down, 1, j)
    BY <1>3, Zenon DEF ServerCloses
  <2>3. /\ down' \in Seq(DownBytes) /\ Len(down') = j /\ \A i \in 1..j : down'[i] = down[i]
    BY <1>1, <2>2, CutFacts
  <2>4. up' \in Seq(UpBytes) /\ Len(up') = 0
    BY <2>1, NothingLeft, Zenon
  <2> QED
    BY <1>3, <2>1, <2>3, <2>4
<1> QED
  BY <1>2, <1>3

(* exec_client_requests returns and handle_client closes the socket. *)
LEMMA ReturnStep ==
    ASSUME IInv, Return, UNCHANGED clientVars,
           serving' = serving, last_rc' = last_rc, clean' = clean,
           cliEnd' \in {"open", "fin", "rst", "gone"}, cpc # "closed" => cliEnd' = cliEnd,
           AnswerSent \/ cpc = "closed"
    PROVE  IInv'
<1>1. /\ spc' = "ended" /\ ServerCloses /\ io' = <<>> /\ reply' = <<>> /\ next' = "recv"
      /\ child' = child /\ orphan' = orphan /\ cpc' = cpc /\ line' = line /\ n' = n
  BY DEF Return, clientVars
<1>2. TypeOK /\ AnswerInv /\ (clean => CleanInv)
  BY DEF IInv
<1>3. /\ up' \in Seq(UpBytes) /\ down' \in Seq(DownBytes)
      /\ srvEnd' \in {"open", "fin", "rst"}
      /\ ~orphan => /\ srvEnd' # "open" /\ Len(up') = 0
                    /\ Len(down') \in 0..Len(down)
                    /\ \A i \in 1..Len(down') : down'[i] = down[i]
  BY <1>1, <1>2, ServerClosesFacts
<1>4. io' \in Seq(TextBytes) /\ reply' \in Seq(DownBytes)
  BY <1>1, NothingLeft, Zenon
<1>5. TypeOK'
  BY <1>1, <1>2, <1>3, <1>4 DEF TypeOK
<1>6. AnswerInv'
  BY <1>1 DEF AnswerInv
<1>7. ASSUME clean' PROVE CleanInv'
  <2>1. RequestInv /\ EndsInv /\ ClientInv /\ ~orphan
    BY <1>2, <1>7 DEF CleanInv, RequestInv
  <2>2. RequestInv'
    BY <1>1, <1>3, <2>1 DEF RequestInv
  <2>3. EndsInv'
    BY <1>1, <1>3, <2>1 DEF EndsInv
  <2>4. Len(down) \in Nat
    BY <1>2, Streams
  <2>5. ClientInv'
    <3>1. AnswerSent'
      BY <1>1 DEF AnswerSent
    <3>2. CASE cpc = "prompt"
      <4>1. Len(down') = 0 /\ Len(up') = 0
        BY <1>3, <2>1, <3>2 DEF ClientInv
      <4> QED
        BY <1>1, <3>1, <3>2, <4>1 DEF ClientInv
    <3>3. CASE cpc = "recv"
      <4>1. ASSUME NEW i \in 1..Len(down')
            PROVE  down'[i].n = n /\ (down'[i].ch = "eot" => i = Len(down'))
        <5>1. i \in 1..Len(down) /\ down'[i] = down[i] /\ Len(down') \in 0..Len(down)
          BY <1>3, <2>1, <2>4
        <5>2. down[i].n = n /\ (down[i].ch = "eot" => i = Len(down))
          BY <2>1, <3>3, <5>1 DEF ClientInv
        <5>3. i = Len(down) => i = Len(down')
          BY <2>4, <5>1
        <5> QED
          BY <5>1, <5>2, <5>3
      <4> QED
        BY <1>1, <1>3, <2>1, <3>1, <3>3, <4>1 DEF ClientInv
    <3>4. CASE cpc \notin {"prompt", "recv"}
      BY <1>1, <3>4 DEF ClientInv
    <3> QED
      BY <3>2, <3>3, <3>4
  <2> QED
    BY <2>2, <2>3, <2>5 DEF CleanInv
<1> QED
  BY <1>5, <1>6, <1>7 DEF IInv

LEMMA ReceiveNothingStep == ASSUME IInv, ReceiveNothing PROVE IInv'
<1>1. /\ spc = "recv" /\ Return /\ UNCHANGED clientVars /\ cliEnd' = cliEnd
      /\ serving' = serving /\ last_rc' = last_rc /\ clean' = clean
  BY DEF ReceiveNothing
<1>2. cliEnd \in {"open", "fin", "rst", "gone"} /\ AnswerSent
  BY <1>1 DEF IInv, TypeOK, AnswerSent
<1> QED
  BY <1>1, <1>2, ReturnStep

(* Where recv_until_null cuts: at the first NUL. *)
LEMMA NulFacts ==
    ASSUME NEW chunk \in Seq(UpBytes)
    PROVE  /\ NulAt(chunk) = 0 => \A i \in 1..Len(chunk) : chunk[i] \in TextBytes
           /\ NulAt(chunk) # 0 =>
                 /\ NulAt(chunk) \in 1..Len(chunk) /\ chunk[NulAt(chunk)].ch = "nul"
                 /\ \A i \in 1..(NulAt(chunk) - 1) : chunk[i] \in TextBytes
           /\ NulAt(chunk) \in 0..Len(chunk)
<1> DEFINE I == {i \in 1..Len(chunk) : chunk[i].ch = "nul"}
<1>1. Len(chunk) \in Nat /\ \A i \in 1..Len(chunk) : chunk[i] \in UpBytes
  BY SeqFacts
<1>2. NulAt(chunk) = IF I # {} THEN Min(I) ELSE 0
  BY DEF NulAt, SelectInSeq
<1>3. \A i \in 1..Len(chunk) : i \notin I => chunk[i] \in TextBytes
  BY <1>1 DEF UpBytes, TextBytes
<1>4. CASE I = {}
  BY <1>1, <1>2, <1>3, <1>4
<1>5. CASE I # {}
  <2>1. I \in SUBSET Nat
    OBVIOUS
  <2>2. Min(I) \in I /\ \A x \in I : Min(I) <= x
    <3> HIDE DEF I
    <3> QED
      BY <1>5, <2>1, MinExists
  <2>3. NulAt(chunk) = Min(I)
    BY <1>2, <1>5
  <2>4. \A i \in 1..(Min(I) - 1) : i \in 1..Len(chunk) /\ i \notin I
    <3>1. Min(I) \in 1..Len(chunk)
      BY <2>2
    <3> HIDE DEF I
    <3> QED
      BY <1>1, <2>2, <3>1
  <2>5. Min(I) \in 1..Len(chunk) /\ chunk[Min(I)].ch = "nul"
    BY <2>2
  <2> HIDE DEF I
  <2> QED
    BY <1>1, <1>3, <2>3, <2>4, <2>5
<1> QED
  BY <1>4, <1>5

LEMMA ReceiveStep == ASSUME IInv, Receive PROVE IInv'
<1>1. /\ spc = "recv" /\ up # <<>> /\ cpc' = cpc /\ line' = line /\ n' = n
      /\ down' = down /\ cliEnd' = cliEnd /\ srvEnd' = srvEnd /\ reply' = reply
      /\ next' = next /\ child' = child /\ last_rc' = last_rc /\ orphan' = orphan
      /\ clean' = clean
  BY DEF Receive, clientVars
<1>2. TypeOK /\ AnswerInv /\ (clean => CleanInv)
  BY DEF IInv
<1>3. up \in Seq(UpBytes) /\ Len(up) \in Nat \ {0} /\ Len(down) \in Nat
  BY <1>1, <1>2, Streams
<1>4. PICK j \in 1..Len(up) :
          LET chunk == SubSeq(up, 1, j)
              nul == NulAt(chunk)
          IN  /\ up' = SubSeq(up, j + 1, Len(up))
              /\ IF nul = 0
                 THEN io' = io \o chunk /\ UNCHANGED <<spc, serving>>
                 ELSE /\ io' = io \o SubSeq(chunk, 1, nul - 1)
                      /\ serving' = chunk[nul].n
                      /\ spc' = "parse"
  BY <1>1, Zenon DEF Receive
<1> DEFINE chunk == SubSeq(up, 1, j)
           nul == NulAt(chunk)
           text == SubSeq(chunk, 1, nul - 1)
<1>5. /\ chunk \in Seq(UpBytes) /\ Len(chunk) = j /\ (\A i \in 1..j : chunk[i] = up[i])
      /\ up' \in Seq(UpBytes) /\ Len(up') = Len(up) - j
      /\ \A i \in 1..(Len(up) - j) : up'[i] = up[i + j]
  <2>1. j \in 0..Len(up)
    BY <1>3
  <2> QED
    BY <1>3, <1>4, <2>1, CutFacts
<1>6. \/ nul = 0 /\ io' = io \o chunk /\ spc' = spc /\ serving' = serving
      \/ nul # 0 /\ io' = io \o text /\ serving' = chunk[nul].n /\ spc' = "parse"
  BY <1>4
<1> HIDE DEF chunk
<1>7. /\ nul = 0 => \A i \in 1..j : chunk[i] \in TextBytes
      /\ nul # 0 => /\ nul \in 1..j /\ chunk[nul].ch = "nul"
                    /\ \A i \in 1..(nul - 1) : chunk[i] \in TextBytes
  BY <1>5, NulFacts
<1> HIDE DEF nul
<1>8. io' \in Seq(TextBytes)
  <2>1. io \in Seq(TextBytes)
    BY <1>2 DEF TypeOK
  <2>2. CASE nul = 0
    <3>1. chunk \in [1..j -> TextBytes]
      <4>1. chunk \in [1..j -> UpBytes]
        BY <1>5, LenProperties
      <4> QED
        BY <1>7, <2>2, <4>1
    <3>2. chunk \in Seq(TextBytes)
      BY <1>3, <3>1, SeqDef
    <3> QED
      BY <1>6, <2>1, <2>2, <3>2, ConcatProperties
  <2>3. CASE nul # 0
    <3>1. 1 \in Int /\ nul - 1 \in Int /\ \A i \in 1..(nul - 1) : chunk[i] \in TextBytes
      BY <1>7, <2>3
    <3>2. text \in Seq(TextBytes)
      BY <3>1, SubSeqProperties
    <3> HIDE DEF text
    <3> QED
      BY <1>6, <2>1, <2>3, <3>2, ConcatProperties
  <2> QED
    BY <2>2, <2>3
<1>9. serving' \in 0..MaxLines /\ spc' \in {"recv", "parse"}
  <2>1. \A b \in UpBytes : b.n \in 0..MaxLines
    BY MaxLinesAssumption DEF UpBytes
  <2>2. \A i \in 1..j : chunk[i] \in UpBytes
    BY <1>5, SeqFacts
  <2> HIDE DEF text
  <2> QED
    BY <1>1, <1>2, <1>6, <1>7, <2>1, <2>2 DEF TypeOK
<1>10. TypeOK'
  BY <1>1, <1>2, <1>5, <1>8, <1>9 DEF TypeOK
<1>11. AnswerInv'
  BY <1>9 DEF AnswerInv
<1>12. ASSUME clean' PROVE CleanInv'
  <2>1. RequestInv /\ EndsInv /\ ClientInv
    BY <1>1, <1>2, <1>12 DEF CleanInv
  <2>2. \A i \in 1..Len(up) : up[i].n = n /\ (up[i].ch = "nul" <=> i = Len(up))
    BY <2>1 DEF RequestInv
  <2>3. \/ nul = 0 /\ Len(up') # 0 /\ spc' = "recv"
        \/ nul # 0 /\ Len(up') = 0 /\ serving' = n /\ spc' = "parse"
    <3>1. CASE nul = 0
      <4>1. j # Len(up)
        <5> SUFFICES ASSUME j = Len(up) PROVE FALSE
          OBVIOUS
        <5>1. chunk[j].ch = "nul" /\ chunk[j] \in TextBytes
          BY <1>3, <1>5, <1>7, <2>2, <3>1
        <5>2. \A b \in TextBytes : b.ch # "nul"
          BY DEF TextBytes, Kinds
        <5> QED
          BY <5>1, <5>2
      <4> QED
        BY <1>1, <1>3, <1>5, <1>6, <3>1, <4>1
    <3>2. CASE nul # 0
      <4>1. nul \in 1..Len(up) /\ nul \in 1..j /\ chunk[nul] = up[nul] /\ chunk[nul].ch = "nul"
        BY <1>3, <1>5, <1>7, <3>2
      <4>2. nul = Len(up) /\ chunk[nul].n = n
        BY <2>2, <4>1
      <4>3. j = Len(up)
        BY <1>3, <4>1, <4>2
      <4> QED
        BY <1>3, <1>5, <1>6, <3>2, <4>2, <4>3
    <3> QED
      BY <3>1, <3>2
  <2>4. RequestInv'
    <3>1. ASSUME NEW i \in 1..Len(up')
          PROVE  up'[i].n = n /\ (up'[i].ch = "nul" <=> i = Len(up'))
      <4>1. i + j \in 1..Len(up) /\ up'[i] = up[i + j] /\ (i + j = Len(up) <=> i = Len(up'))
        BY <1>3, <1>5
      <4> QED
        BY <2>2, <4>1
    <3>2. Len(up') # 0 => spc' = "recv"
      BY <2>3
    <3> QED
      BY <1>1, <2>1, <3>1, <3>2 DEF RequestInv
  <2>5. EndsInv'
    BY <1>1, <1>9, <2>1 DEF EndsInv
  <2>6. ClientInv'
    <3>1. cpc # "prompt"
      BY <1>3, <2>1 DEF ClientInv
    <3>2. CASE cpc = "recv"
      <4>1. Len(down) = 0
        BY <1>3, <2>1, <3>2 DEF ClientInv
      <4> QED
        BY <1>1, <2>3, <3>2, <4>1 DEF ClientInv
    <3> QED
      BY <1>1, <3>1, <3>2 DEF ClientInv
  <2> QED
    BY <2>4, <2>5, <2>6 DEF CleanInv
<1> QED
  BY <1>10, <1>11, <1>12 DEF IInv

-----------------------------------------------------------------------------
(* The server at work on a line. *)

Busy == spc \in {"parse", "run", "read"} \/ (spc = "reply" /\ reply # <<>>)

LEMMA BusyFacts ==
    ASSUME IInv, Busy, clean
    PROVE  /\ RequestInv /\ EndsInv /\ Len(up) = 0 /\ up = <<>> /\ cpc # "prompt"
           /\ cpc = "recv" => serving = n /\ \A i \in 1..Len(down) :
                                                down[i].n = n /\ down[i].ch # "eot"
<1>1. TypeOK /\ RequestInv /\ EndsInv /\ ClientInv
  BY DEF IInv, CleanInv
<1>2. ~AnswerSent /\ spc # "ended"
  BY DEF Busy, AnswerSent
<1>3. Len(up) = 0 /\ up = <<>>
  <2>1. Len(up) = 0
    BY <1>1 DEF RequestInv, Busy
  <2> QED
    BY <1>1, <2>1, Streams
<1>4. cpc # "prompt"
  BY <1>1, <1>2 DEF ClientInv
<1>5. cpc = "recv" => serving = n /\ \A i \in 1..Len(down) :
                                        down[i].n = n /\ down[i].ch # "eot"
  BY <1>1, <1>2, <1>3 DEF ClientInv
<1> QED
  BY <1>1, <1>3, <1>4, <1>5

(* What a step of the server at work has to keep. *)
LEMMA BusyStep ==
    ASSUME IInv, Busy, UNCHANGED clientVars, TypeOK', AnswerInv', clean' => clean,
           clean' => /\ up' = up /\ srvEnd' = srvEnd /\ serving' = serving /\ ~orphan'
                     /\ spc' # "ended" /\ (cpc # "closed" => cliEnd' = cliEnd /\ spc' # "dead"),
           clean' /\ cpc = "recv" =>
               \A i \in 1..Len(down') :
                  down'[i].n = n /\ (down'[i].ch = "eot" => i = Len(down') /\ AnswerSent')
    PROVE  IInv'
<1>1. cpc' = cpc /\ line' = line /\ n' = n
  BY DEF clientVars
<1>2. ASSUME clean' PROVE CleanInv'
  <2>1. /\ RequestInv /\ EndsInv /\ Len(up) = 0 /\ cpc # "prompt" /\ (cpc = "recv" => serving = n)
    BY <1>2, BusyFacts
  <2>2. RequestInv'
    BY <1>1, <1>2, <2>1 DEF RequestInv
  <2>3. EndsInv'
    <3>1. spc # "ended"
      BY DEF Busy
    <3> QED
      BY <1>1, <1>2, <2>1, <3>1 DEF EndsInv
  <2>4. ClientInv'
    BY <1>1, <1>2, <2>1 DEF ClientInv
  <2> QED
    BY <2>2, <2>3, <2>4 DEF CleanInv
<1> QED
  BY <1>2 DEF IInv

LEMMA DispatchStep == ASSUME IInv, Dispatch PROVE IInv'
<1>1. /\ spc = "parse" /\ io' = <<>> /\ UNCHANGED clientVars
      /\ cpc' = cpc /\ line' = line /\ n' = n /\ up' = up /\ down' = down
      /\ cliEnd' = cliEnd /\ srvEnd' = srvEnd /\ serving' = serving
      /\ clean' = (clean /\ ~orphan')
  BY DEF Dispatch, clientVars
<1>2. TypeOK /\ Busy
  BY <1>1 DEF IInv, Busy
<1>3. AnswerBytes(Eot) /\ AnswerBytes(Message) /\ AnswerBytes(Executed)
  BY <1>2, AnswerFacts
<1>4. \/ /\ spc' = "reply" /\ AnswerBytes(reply') /\ next' \in {"recv", "end"} /\ child' = child
         /\ last_rc' \in {-1, 0, 1} /\ orphan' \in BOOLEAN
      \/ /\ spc' \in {"read", "run"} /\ reply' = reply /\ next' = next /\ child' \in Outputs
         /\ last_rc' = last_rc /\ orphan' = orphan
  <2> DEFINE kind == IF io = <<>> THEN "empty" ELSE io[1].ch
  <2>1. \/ /\ kind \in {"empty", "invalid", "rc"} /\ Answer(Message, "recv")
           /\ UNCHANGED <<last_rc, orphan>>
        \/ /\ kind \in {"exit", "exit now", "stop-server"} /\ Answer(Eot, "end")
           /\ UNCHANGED <<last_rc, orphan>>
        \/ /\ kind = "cd" /\ Answer(Executed, "recv")
           /\ last_rc' = 0 /\ UNCHANGED orphan
        \/ /\ kind \in {"run", "read"}
           /\ \E out \in Outputs : child' = out
           /\ spc' = IF kind = "read" THEN "read" ELSE "run"
           /\ UNCHANGED <<reply, next, last_rc, orphan>>
        \/ /\ kind \in {"run", "read"} /\ Answer(Message, "recv")
           /\ last_rc' = -1
           /\ orphan' \in {orphan, orphan \/ kind = "read"}
    BY Zenon DEF Dispatch
  <2> HIDE DEF kind
  <2>2. \A bytes, then : Answer(bytes, then) =>
            spc' = "reply" /\ reply' = bytes /\ next' = then /\ child' = child
    BY DEF Answer
  <2>3. last_rc \in {-1, 0, 1} /\ orphan \in BOOLEAN
    BY <1>2 DEF TypeOK
  <2>4. CASE Answer(Message, "recv") /\ last_rc' \in {last_rc, -1}
             /\ orphan' \in {orphan, orphan \/ kind = "read"}
    <3>1. spc' = "reply" /\ reply' = Message /\ next' = "recv" /\ child' = child
      BY <2>2, <2>4
    <3>2. AnswerBytes(reply')
      BY <1>3, <3>1 DEF AnswerBytes
    <3>3. orphan' \in BOOLEAN
      BY <2>3, <2>4
    <3> QED
      BY <2>3, <2>4, <3>1, <3>2, <3>3
  <2>5. CASE Answer(Eot, "end") /\ UNCHANGED <<last_rc, orphan>>
    <3>1. spc' = "reply" /\ reply' = Eot /\ next' = "end" /\ child' = child
      BY <2>2, <2>5
    <3>2. AnswerBytes(reply')
      BY <1>3, <3>1 DEF AnswerBytes
    <3> QED
      BY <2>3, <2>5, <3>1, <3>2
  <2>6. CASE Answer(Executed, "recv") /\ last_rc' = 0 /\ UNCHANGED orphan
    <3>1. spc' = "reply" /\ reply' = Executed /\ next' = "recv" /\ child' = child
      BY <2>2, <2>6
    <3>2. AnswerBytes(reply')
      BY <1>3, <3>1 DEF AnswerBytes
    <3> QED
      BY <2>3, <2>6, <3>1, <3>2
  <2>7. CASE /\ \E out \in Outputs : child' = out
             /\ spc' = IF kind = "read" THEN "read" ELSE "run"
             /\ UNCHANGED <<reply, next, last_rc, orphan>>
    BY <2>7
  <2> QED
    BY <2>1, <2>4, <2>5, <2>6, <2>7
<1>5. io' \in Seq(TextBytes)
  BY <1>1, NothingLeft, Zenon
<1>6. TypeOK'
  <2>1. CASE spc' = "reply" /\ AnswerBytes(reply') /\ next' \in {"recv", "end"} /\ child' = child
             /\ last_rc' \in {-1, 0, 1} /\ orphan' \in BOOLEAN
    BY <1>1, <1>2, <1>5, <2>1 DEF TypeOK, AnswerBytes
  <2>2. CASE spc' \in {"read", "run"} /\ reply' = reply /\ next' = next /\ child' \in Outputs
             /\ last_rc' = last_rc /\ orphan' = orphan
    <3>1. child' \in Seq({"data", "eot"})
      BY <2>2, OutputsAssumption
    <3> QED
      BY <1>1, <1>2, <1>5, <2>2, <3>1 DEF TypeOK
  <2> QED
    BY <1>4, <2>1, <2>2
<1>7. AnswerInv'
  BY <1>1, <1>4 DEF AnswerInv, AnswerBytes
<1>8. clean' => clean /\ ~orphan'
  BY <1>1
<1>9. spc' \notin {"ended", "dead"}
  BY <1>4
<1>10. clean' /\ cpc = "recv" =>
          \A i \in 1..Len(down') :
             down'[i].n = n /\ (down'[i].ch = "eot" => i = Len(down') /\ AnswerSent')
  BY <1>1, <1>2, <1>8, BusyFacts
<1> QED
  BY <1>1, <1>2, <1>6, <1>7, <1>8, <1>9, <1>10, BusyStep

(* What one byte that is sent adds to what is under way. *)
LEMMA DeliverFacts ==
    ASSUME TypeOK, NEW b \in DownBytes, Deliver(b)
    PROVE  /\ down' \in Seq(DownBytes) /\ cliEnd' \in {"open", "fin", "rst", "gone"}
           /\ cliEnd = "open" => /\ cliEnd' = cliEnd /\ Len(down') = Len(down) + 1
                                 /\ down'[Len(down')] = b
                                 /\ \A i \in 1..Len(down) : down'[i] = down[i]
<1>1. down \in Seq(DownBytes) /\ Len(down) \in Nat
  BY Streams
<1>2. CASE cliEnd = "open" /\ down' = Append(down, b) /\ cliEnd' = cliEnd
  <2>1. /\ down' \in Seq(DownBytes) /\ Len(down') = Len(down) + 1
        /\ down'[Len(down) + 1] = b /\ \A i \in 1..Len(down) : down'[i] = down[i]
    BY <1>1, <1>2, AppendProperties
  <2> QED
    BY <1>2, <2>1
<1>3. CASE cliEnd = "fin" /\ cliEnd' \in {"fin", "gone"} /\ down' = down
  BY <1>1, <1>3
<1> QED
  BY <1>2, <1>3, Zenon DEF Deliver

LEMMA SendStep == ASSUME IInv, Send PROVE IInv'
<1>1. /\ spc = "reply" /\ reply # <<>> /\ UNCHANGED clientVars
      /\ cpc' = cpc /\ line' = line /\ n' = n
      /\ serving' = serving /\ last_rc' = last_rc /\ clean' = clean
  BY DEF Send, clientVars
<1>2. TypeOK /\ AnswerInv /\ Busy /\ (clean => CleanInv)
  BY <1>1 DEF IInv, Busy
<1>3. /\ reply \in Seq(DownBytes) /\ Len(reply) \in Nat \ {0} /\ Len(down) \in Nat
      /\ \A i \in 1..Len(reply) :
            reply[i].n = serving /\ (reply[i].ch = "eot" <=> i = Len(reply))
  BY <1>1, <1>2, Streams DEF AnswerInv
<1>4. ASSUME clean
      PROVE  /\ RequestInv /\ EndsInv /\ Len(up) = 0 /\ cpc # "prompt"
             /\ cpc = "recv" => serving = n /\ \A i \in 1..Len(down) :
                                                  down[i].n = n /\ down[i].ch # "eot"
  BY <1>2, <1>4, BusyFacts
<1>5. CASE /\ Deliver(Head(reply)) /\ reply' = Tail(reply)
           /\ UNCHANGED <<up, srvEnd, spc, io, next, child, orphan>>
  <2> DEFINE b == Head(reply)
  <2>1. /\ b \in DownBytes /\ b.n = serving
        /\ reply' \in Seq(DownBytes) /\ Len(reply') = Len(reply) - 1
        /\ \A i \in 1..Len(reply') : reply'[i] = reply[i + 1]
        /\ b.ch = "eot" <=> Len(reply) = 1
    <3>1. b = reply[1] /\ 1 \in 1..Len(reply)
      BY <1>3
    <3>2. /\ b \in DownBytes /\ Tail(reply) \in Seq(DownBytes)
          /\ Len(Tail(reply)) = Len(reply) - 1
          /\ \A i \in 1..Len(Tail(reply)) : Tail(reply)[i] = reply[i + 1]
      BY <1>1, <1>3, HeadTailProperties
    <3> HIDE DEF b
    <3> QED
      BY <1>3, <1>5, <3>1, <3>2
  <2> HIDE DEF b
  <2>2. /\ down' \in Seq(DownBytes) /\ cliEnd' \in {"open", "fin", "rst", "gone"}
        /\ cliEnd = "open" => /\ cliEnd' = cliEnd /\ Len(down') = Len(down) + 1
                              /\ down'[Len(down')] = b
                              /\ \A i \in 1..Len(down) : down'[i] = down[i]
    BY <1>2, <1>5, <2>1, DeliverFacts DEF b
  <2>3. TypeOK'
    BY <1>1, <1>2, <1>5, <2>1, <2>2 DEF TypeOK
  <2>4. AnswerInv'
    <3>1. ASSUME NEW i \in 1..Len(reply')
          PROVE  reply'[i].n = serving /\ (reply'[i].ch = "eot" <=> i = Len(reply'))
      <4>1. i + 1 \in 1..Len(reply) /\ (i + 1 = Len(reply) <=> i = Len(reply'))
        BY <1>3, <2>1
      <4> QED
        BY <1>3, <2>1, <4>1
    <3> QED
      BY <1>1, <3>1 DEF AnswerInv
  <2>5. b.ch = "eot" => AnswerSent'
    <3>1. ASSUME b.ch = "eot" PROVE reply' = <<>>
      <4>1. Len(reply') = 0
        BY <2>1, <3>1
      <4> QED
        BY <2>1, <4>1, SeqFacts
    <3> QED
      BY <1>1, <1>5, <3>1 DEF AnswerSent
  <2>6. ASSUME clean, cpc = "recv"
        PROVE  \A i \in 1..Len(down') :
                  down'[i].n = n /\ (down'[i].ch = "eot" => i = Len(down') /\ AnswerSent')
    <3>1. cliEnd = "open" /\ serving = n
      BY <1>4, <2>6 DEF EndsInv
    <3>2. ASSUME NEW i \in 1..Len(down')
          PROVE  down'[i].n = n /\ (down'[i].ch = "eot" => i = Len(down') /\ AnswerSent')
      <4>1. CASE i = Len(down')
        BY <2>1, <2>2, <2>5, <3>1, <4>1
      <4>2. CASE i # Len(down')
        <5>1. i \in 1..Len(down)
          BY <1>3, <2>2, <3>1, <4>2
        <5> QED
          BY <1>4, <2>2, <2>6, <3>1, <5>1
      <4> QED
        BY <4>1, <4>2
    <3> QED
      BY <3>2
  <2>7. clean => ~orphan' /\ (cpc # "closed" => cliEnd' = cliEnd)
    BY <1>4, <1>5, <2>2 DEF RequestInv, EndsInv
  <2> QED
    BY <1>1, <1>2, <1>5, <2>3, <2>4, <2>6, <2>7, BusyStep
<1>6. CASE cliEnd = "rst" /\ cliEnd' = "gone" /\ Return
  <2>1. ASSUME clean, cpc # "closed" PROVE FALSE
    BY <1>4, <1>6, <2>1 DEF EndsInv
  <2>2. CASE clean
    <3>1. cpc = "closed"
      BY <2>1, <2>2
    <3> QED
      BY <1>1, <1>6, <3>1, ReturnStep
  <2>3. CASE ~clean
    <3>1. /\ spc' = "ended" /\ ServerCloses /\ io' = <<>> /\ reply' = <<>> /\ next' = "recv"
          /\ child' = child /\ orphan' = orphan
      BY <1>6 DEF Return
    <3>2. /\ up' \in Seq(UpBytes) /\ down' \in Seq(DownBytes)
          /\ srvEnd' \in {"open", "fin", "rst"}
      BY <1>2, <3>1, ServerClosesFacts
    <3>3. io' \in Seq(TextBytes) /\ reply' \in Seq(DownBytes)
      BY <3>1, NothingLeft, Zenon
    <3>4. TypeOK'
      BY <1>1, <1>2, <1>6, <3>1, <3>2, <3>3 DEF TypeOK
    <3> QED
      BY <1>1, <2>3, <3>1, <3>4 DEF IInv, AnswerInv
  <2> QED
    BY <2>2, <2>3
<1>7. CASE /\ cliEnd = "gone" /\ spc' = "dead"
           /\ UNCHANGED <<up, down, cliEnd, srvEnd, io, reply, next, child, orphan>>
  <2>1. TypeOK' /\ AnswerInv'
    BY <1>1, <1>2, <1>7 DEF TypeOK, AnswerInv
  <2>2. clean => ~orphan' /\ cpc = "closed"
    BY <1>2, <1>4, <1>7 DEF RequestInv, EndsInv, TypeOK
  <2> QED
    BY <1>1, <1>2, <1>7, <2>1, <2>2, BusyStep
<1> QED
  BY <1>5, <1>6, <1>7, Zenon DEF Send

LEMMA RepliedStep == ASSUME IInv, Replied PROVE IInv'
<1>1. /\ spc = "reply" /\ reply = <<>> /\ UNCHANGED clientVars /\ cliEnd' = cliEnd
      /\ cpc' = cpc /\ line' = line /\ n' = n
      /\ serving' = serving /\ last_rc' = last_rc /\ clean' = clean
  BY DEF Replied, clientVars
<1>2. TypeOK /\ AnswerInv /\ AnswerSent /\ (clean => CleanInv)
  BY <1>1 DEF IInv, AnswerSent
<1>3. CASE Return
  <2>1. cliEnd \in {"open", "fin", "rst", "gone"}
    BY <1>2 DEF TypeOK
  <2> QED
    BY <1>1, <1>2, <1>3, <2>1, ReturnStep
<1>4. CASE spc' = "recv" /\ UNCHANGED <<up, down, srvEnd, io, reply, next, child, orphan>>
  <2>1. TypeOK' /\ AnswerInv'
    BY <1>1, <1>2, <1>4 DEF TypeOK, AnswerInv
  <2>2. ASSUME clean' PROVE CleanInv'
    <3>1. RequestInv /\ EndsInv /\ ClientInv
      BY <1>1, <1>2, <2>2 DEF CleanInv
    <3>2. RequestInv' /\ EndsInv'
      BY <1>1, <1>4, <3>1 DEF RequestInv, EndsInv
    <3>3. ClientInv'
      BY <1>1, <1>4, <3>1 DEF ClientInv, AnswerSent
    <3> QED
      BY <3>2, <3>3 DEF CleanInv
  <2> QED
    BY <2>1, <2>2 DEF IInv
<1> QED
  BY <1>3, <1>4, Zenon DEF Replied

-----------------------------------------------------------------------------
(* The commands. *)

LEMMA ChildWriteStep == ASSUME IInv, ChildWrite PROVE IInv'
<1>1. /\ spc = "run" /\ child # <<>> /\ UNCHANGED clientVars
      /\ cpc' = cpc /\ line' = line /\ n' = n /\ up' = up /\ srvEnd' = srvEnd
      /\ spc' = spc /\ io' = io /\ serving' = serving /\ reply' = reply /\ next' = next
      /\ last_rc' = last_rc /\ orphan' = orphan
      /\ clean' = (clean /\ Head(child) # "eot")
  BY DEF ChildWrite, clientVars
<1>2. TypeOK /\ AnswerInv /\ Busy /\ (clean => CleanInv) /\ Len(down) \in Nat
  BY <1>1, Streams DEF IInv, Busy
<1>3. ASSUME clean
      PROVE  /\ RequestInv /\ EndsInv /\ cpc # "prompt"
             /\ cpc = "recv" => serving = n /\ \A i \in 1..Len(down) :
                                                  down[i].n = n /\ down[i].ch # "eot"
  BY <1>2, <1>3, BusyFacts
<1>4. Head(child) \in {"data", "eot"} /\ Tail(child) \in Seq({"data", "eot"})
  <2>1. child \in Seq({"data", "eot"})
    BY <1>2 DEF TypeOK
  <2> QED
    BY <1>1, <2>1, HeadTailProperties
<1>5. AnswerInv'
  BY <1>1 DEF AnswerInv
<1>6. CASE Deliver(Byte(serving, Head(child))) /\ child' = Tail(child)
  <2> DEFINE b == Byte(serving, Head(child))
  <2>1. b \in DownBytes /\ b.n = serving /\ b.ch = Head(child)
    BY <1>2, <1>4 DEF Byte, DownBytes, TypeOK
  <2> HIDE DEF b
  <2>2. /\ down' \in Seq(DownBytes) /\ cliEnd' \in {"open", "fin", "rst", "gone"}
        /\ cliEnd = "open" => /\ cliEnd' = cliEnd /\ Len(down') = Len(down) + 1
                              /\ down'[Len(down')] = b
                              /\ \A i \in 1..Len(down) : down'[i] = down[i]
    BY <1>2, <1>6, <2>1, DeliverFacts DEF b
  <2>3. TypeOK'
    BY <1>1, <1>2, <1>4, <1>6, <2>2 DEF TypeOK
  <2>4. ASSUME clean', cpc = "recv"
        PROVE  \A i \in 1..Len(down') :
                  down'[i].n = n /\ (down'[i].ch = "eot" => i = Len(down') /\ AnswerSent')
    <3>1. cliEnd = "open" /\ serving = n /\ b.ch # "eot"
      BY <1>1, <1>3, <2>1, <2>4 DEF EndsInv
    <3>2. ASSUME NEW i \in 1..Len(down') PROVE down'[i].n = n /\ down'[i].ch # "eot"
      <4>1. CASE i = Len(down')
        BY <2>1, <2>2, <3>1, <4>1
      <4>2. CASE i # Len(down')
        <5>1. i \in 1..Len(down)
          BY <1>2, <2>2, <3>1, <4>2
        <5> QED
          BY <1>1, <1>3, <2>2, <2>4, <3>1, <5>1
      <4> QED
        BY <4>1, <4>2
    <3> QED
      BY <3>2
  <2>5. clean' => ~orphan' /\ (cpc # "closed" => cliEnd' = cliEnd)
    BY <1>1, <1>3, <2>2 DEF RequestInv, EndsInv
  <2> QED
    BY <1>1, <1>2, <1>5, <2>3, <2>4, <2>5, BusyStep
<1>7. CASE cliEnd \in {"rst", "gone"} /\ cliEnd' = "gone" /\ child' = <<>> /\ down' = down
  <2>1. child' \in Seq({"data", "eot"})
    BY <1>7, NothingLeft, Zenon
  <2>2. TypeOK'
    BY <1>1, <1>2, <1>7, <2>1 DEF TypeOK
  <2>3. clean' => ~orphan' /\ cpc \notin {"prompt", "recv"} /\ cpc = "closed"
    BY <1>1, <1>2, <1>3, <1>7 DEF RequestInv, EndsInv, TypeOK
  <2> QED
    BY <1>1, <1>2, <1>5, <2>2, <2>3, BusyStep
<1> QED
  BY <1>6, <1>7, Zenon DEF ChildWrite

LEMMA ChildReadStep == ASSUME IInv, ChildRead PROVE IInv'
<1>1. /\ spc = "read" /\ UNCHANGED clientVars
      /\ cpc' = cpc /\ line' = line /\ n' = n /\ down' = down /\ cliEnd' = cliEnd
      /\ srvEnd' = srvEnd /\ io' = io /\ serving' = serving /\ reply' = reply /\ next' = next
      /\ child' = child /\ last_rc' = last_rc /\ orphan' = orphan /\ clean' = clean
  BY DEF ChildRead, clientVars
<1>2. TypeOK /\ Busy /\ up \in Seq(UpBytes) /\ Len(up) \in Nat
  BY <1>1, Streams DEF IInv, Busy
<1>3. ASSUME clean
      PROVE  /\ RequestInv /\ EndsInv /\ up = <<>>
             /\ cpc = "recv" => \A i \in 1..Len(down) : down[i].n = n /\ down[i].ch # "eot"
  BY <1>2, <1>3, BusyFacts
<1>4. \/ up # <<>> /\ spc' = spc /\ \E j \in 1..Len(up) : up' = SubSeq(up, j + 1, Len(up))
      \/ up = <<>> /\ spc' = "run" /\ up' = up
  BY Zenon DEF ChildRead
<1>5. up' \in Seq(UpBytes) /\ spc' \in {"read", "run"}
  <2>1. \A j \in 1..Len(up) : SubSeq(up, j + 1, Len(up)) \in Seq(UpBytes)
    BY <1>2, CutFacts
  <2> QED
    BY <1>1, <1>2, <1>4, <2>1
<1>6. TypeOK' /\ AnswerInv'
  BY <1>1, <1>2, <1>5 DEF TypeOK, AnswerInv
<1>7. clean' => up' = up /\ ~orphan'
  BY <1>1, <1>3, <1>4 DEF RequestInv
<1>8. clean' /\ cpc = "recv" =>
          \A i \in 1..Len(down') :
             down'[i].n = n /\ (down'[i].ch = "eot" => i = Len(down') /\ AnswerSent')
  BY <1>1, <1>3
<1> QED
  BY <1>1, <1>2, <1>5, <1>6, <1>7, <1>8, BusyStep

LEMMA OrphanReadStep == ASSUME IInv, OrphanRead PROVE IInv'
<1>1. /\ orphan /\ orphan' \in BOOLEAN
      /\ cpc' = cpc /\ line' = line /\ n' = n /\ down' = down /\ cliEnd' = cliEnd
      /\ spc' = spc /\ io' = io /\ serving' = serving /\ reply' = reply /\ next' = next
      /\ child' = child /\ last_rc' = last_rc /\ clean' = clean
  BY DEF OrphanRead, clientVars
<1>2. TypeOK /\ AnswerInv /\ ~clean /\ up \in Seq(UpBytes) /\ Len(up) \in Nat
  BY <1>1, Streams DEF IInv, CleanInv, RequestInv
<1>3. up' = up \/ \E j \in 1..Len(up) : up' = SubSeq(up, j + 1, Len(up))
  BY Zenon DEF OrphanRead
<1>4. up' \in Seq(UpBytes)
  <2>1. \A j \in 1..Len(up) : SubSeq(up, j + 1, Len(up)) \in Seq(UpBytes)
    BY <1>2, CutFacts
  <2> QED
    BY <1>2, <1>3, <2>1
<1>5. srvEnd' \in {"open", "fin", "rst"}
  BY <1>2 DEF OrphanRead, TypeOK
<1>6. TypeOK'
  BY <1>1, <1>2, <1>4, <1>5 DEF TypeOK
<1>7. AnswerInv'
  BY <1>1, <1>2, Zenon DEF AnswerInv
<1> QED
  BY <1>1, <1>2, <1>6, <1>7 DEF IInv

LEMMA ChildrenExitStep == ASSUME IInv, ChildrenExit PROVE IInv'
<1>1. /\ spc = "run" /\ last_rc' \in {0, 1} /\ UNCHANGED clientVars
      /\ spc' = "reply" /\ reply' = Eot /\ next' = "recv" /\ child' = child
      /\ cpc' = cpc /\ line' = line /\ n' = n /\ up' = up /\ down' = down
      /\ cliEnd' = cliEnd /\ srvEnd' = srvEnd /\ io' = io /\ serving' = serving
      /\ orphan' = orphan /\ clean' = clean
  BY DEF ChildrenExit, Answer, clientVars
<1>2. TypeOK /\ Busy
  BY <1>1 DEF IInv, Busy
<1>3. ASSUME clean
      PROVE  /\ RequestInv
             /\ cpc = "recv" => \A i \in 1..Len(down) : down[i].n = n /\ down[i].ch # "eot"
  BY <1>2, <1>3, BusyFacts
<1>4. AnswerBytes(Eot)
  BY <1>2, AnswerFacts
<1>5. TypeOK' /\ AnswerInv'
  BY <1>1, <1>2, <1>4 DEF TypeOK, AnswerInv, AnswerBytes
<1>6. clean' => ~orphan'
  BY <1>1, <1>3 DEF RequestInv
<1>7. clean' /\ cpc = "recv" =>
          \A i \in 1..Len(down') :
             down'[i].n = n /\ (down'[i].ch = "eot" => i = Len(down') /\ AnswerSent')
  BY <1>1, <1>3
<1> QED
  BY <1>1, <1>2, <1>5, <1>6, <1>7, BusyStep

LEMMA StutterStep == ASSUME IInv, UNCHANGED vars PROVE IInv'
<1>1. /\ cpc' = cpc /\ line' = line /\ n' = n /\ up' = up /\ down' = down
      /\ cliEnd' = cliEnd /\ srvEnd' = srvEnd /\ spc' = spc /\ io' = io
      /\ serving' = serving /\ reply' = reply /\ next' = next /\ child' = child
      /\ last_rc' = last_rc /\ orphan' = orphan /\ clean' = clean
  BY DEF vars, clientVars, serverVars
<1>2. TypeOK' /\ AnswerInv'
  BY <1>1 DEF IInv, TypeOK, AnswerInv
<1>3. clean' => CleanInv'
  BY <1>1 DEF IInv, CleanInv, RequestInv, EndsInv, ClientInv, AnswerSent
<1> QED
  BY <1>2, <1>3 DEF IInv

LEMMA NextInv == IInv /\ [Next]_vars => IInv'
<1> SUFFICES ASSUME IInv, [Next]_vars PROVE IInv'
  OBVIOUS
<1>1. CASE Client
  <2>1. CASE \E l \in Lines : TypeLine(l)
    BY <2>1, TypeLineStep
  <2>2. CASE EndOfInput \/ Interrupt
    BY <2>2, LeaveStep, Zenon DEF EndOfInput, Interrupt
  <2> QED
    BY <1>1, <2>1, <2>2, Zenon DEF Client
<1>2. CASE ClientRecv
  <2>1. CASE RecvNothing
    BY <2>1, LeaveStep, Zenon DEF RecvNothing
  <2> QED
    BY <1>2, <2>1, RecvChunkStep, Zenon DEF ClientRecv
<1>3. CASE Server
  BY <1>3, ReceiveStep, ReceiveNothingStep, DispatchStep, SendStep, RepliedStep, Zenon DEF Server
<1>4. CASE Children
  BY <1>4, ChildWriteStep, ChildReadStep, OrphanReadStep, ChildrenExitStep, Zenon DEF Children
<1>5. CASE Over \/ UNCHANGED vars
  BY <1>5, StutterStep, Zenon DEF Over
<1> QED
  BY <1>1, <1>2, <1>3, <1>4, <1>5, Zenon DEF Next

LEMMA Inductive == Spec => []IInv
BY InitInv, NextInv, PTL DEF Spec

-----------------------------------------------------------------------------
(* The theorems. *)

(* Every variable of the two loops keeps its type; in particular what
   recv_until_null keeps has no NUL in it. *)
THEOREM TypeCorrect == Spec => []TypeOK
<1>1. IInv => TypeOK
  BY DEF IInv
<1> QED
  BY <1>1, Inductive, PTL

(* Client and server stay in step, for any number of lines, whatever commands
   write, into whatever pieces the streams are cut, until a command writes 0x04
   or is left behind with the socket. *)
THEOREM StaysInStep == Spec => []InStep
<1>1. IInv => InStep
  <2> SUFFICES ASSUME IInv, clean
               PROVE  /\ cpc = "recv" => \A i \in 1..Len(down) : down[i].n = n
                      /\ cpc = "prompt" => /\ up = <<>> /\ down = <<>>
                                           /\ spc \in {"ended", "dead"} \/ serving = n
    BY DEF InStep
  <2>1. TypeOK /\ ClientInv
    BY DEF IInv, CleanInv
  <2> QED
    BY <2>1, Streams DEF ClientInv
<1> QED
  BY <1>1, Inductive, PTL
=============================================================================
