--------------------------- MODULE InPlaceParser ---------------------------
(***************************************************************************)
(* The parser of the first two shells, build_cmd_buff of 3-ShellP1 and     *)
(* 4-ShellP2 and build_cmd_list of 3-ShellP1.  The arguments are cut in    *)
(* the buffer the line was copied to: one loop reads it at src and writes  *)
(* it at dst, and argv points into it.  The two versions differ in one     *)
(* place, a quotation that is not closed; stage says which of them runs.   *)
(* Any white space is " "; < and > are ordinary characters here.           *)
(***************************************************************************)
EXTENDS Integers, Sequences, FiniteSetsExt, SequencesExt, Ascending

CONSTANTS
    Plain,          \* the characters without a meaning
    CMD_MAX,        \* commands on a line (8 in C)
    CMD_ARGV_MAX,   \* length of argv, its final NULL included (9 in C)
    SH_CMD_MAX,     \* size of a line and of a command's buffer (320 in C)
    MallocFails     \* whether malloc may fail

Quotes == {"\"", "'"}
Special == Quotes \cup {" ", "|"}
NUL == "\\0"
Unquoted == "none"
Char == Plain \cup Special
NULL == -1   \* no token_start

ASSUME PlainAssumption == Plain \cap (Special \cup {NUL, Unquoted}) = {}
ASSUME SizesAssumption ==
    /\ CMD_MAX \in Nat \ {0} /\ CMD_ARGV_MAX \in Nat \ {0, 1}
    /\ SH_CMD_MAX \in Nat \ {0, 1}
ASSUME MallocAssumption == MallocFails \in BOOLEAN

OK == 0
WARN_NO_CMDS == -1
ERR_TOO_MANY_COMMANDS == -2
ERR_CMD_OR_ARGS_TOO_BIG == -3
ERR_CMD_ARGS_BAD == -4
ERR_MEMORY == -5
ERR_EXEC_CMD == -6

VARIABLES
    stage,        \* "P1" or "P2"
    pc,           \* where the shell is
    line,         \* P1: line_copy, trimmed; P2: the line given to build_cmd_buff
    rest, more,   \* what starts at segment_start, and whether a segment does
    clist,        \* P1: the commands built so far
    rc,           \* what the parser, or the loop, has returned last
    buf,          \* _cmd_buffer of the command being built
    argv,         \* its arguments, as offsets in buf
    src, dst,     \* the offsets the loop reads and writes at
    token_start,  \* the offset of the argument that has begun, or NULL
    quote,        \* the quote that is open
    live,         \* how many buffers from malloc have not been freed
    refused       \* history: how many segments were refused after their malloc

listVars == <<line, rest, more, clist>>
scanVars == <<buf, argv, src, dst, token_start, quote>>
parserVars == <<stage, listVars, rc, scanVars, live, refused>>

----------------------------------------------------------------------------
(* Strings and the buffer. *)
Ink(s) == {i \in DOMAIN s : s[i] # " "}
Trim(s) == IF Ink(s) = {} THEN <<>> ELSE SubSeq(s, Min(Ink(s)), Max(Ink(s)))
Pipes(s) == {i \in DOMAIN s : s[i] = "|"}

\* strncpy of a line shorter than the buffer: the rest is NUL.
Filled(s) == [i \in 1..SH_CMD_MAX |-> IF i <= Len(s) THEN s[i] ELSE NUL]

\* A NUL after the last character that is no blank, then memmove to the front.
Trimmed(s) ==
    LET b == Filled(s)  from == Min(Ink(s))  to == Max(Ink(s))  n == to - from + 1
    IN [i \in 1..SH_CMD_MAX |-> IF i <= n THEN b[from + i - 1]
                                ELSE IF i \in {n + 1, to + 1} THEN NUL ELSE b[i]]

\* The string that a pointer to offset o stands for.
StringAt(b, o) ==
    LET ends == {i \in (o + 1)..SH_CMD_MAX : b[i] = NUL}
    IN SubSeq(b, o + 1, Min(ends) - 1)

NoBuffer == Filled(<<>>)
ParserInit ==
    /\ line = <<>> /\ rest = <<>> /\ more = FALSE /\ clist = <<>> /\ rc = OK
    /\ buf = NoBuffer /\ argv = <<>> /\ src = 0 /\ dst = 0
    /\ token_start = NULL /\ quote = Unquoted /\ refused = 0

----------------------------------------------------------------------------
(* build_cmd_buff *)

\* It starts on s, which is not blank.
ScanStart(s) ==
    /\ buf' = Trimmed(s) /\ argv' = <<>> /\ src' = 0 /\ dst' = 0
    /\ token_start' = NULL /\ quote' = Unquoted

\* What was parsed is gone; the memory of P2's only buffer is overwritten first
\* when it is used again.
Forget ==
    /\ line' = <<>> /\ rest' = <<>> /\ more' = FALSE
    /\ buf' = NoBuffer /\ argv' = <<>> /\ src' = 0 /\ dst' = 0
    /\ token_start' = NULL /\ quote' = Unquoted

Built(r) == rc' = r /\ pc' = "parsed"

\* Mutants: one buffer more is freed, or the first one is forgotten.
FreeList_OneMore == live' = live - Len(clist) - 1 /\ clist' = <<>>
FreeList_ButLast == live' = live - Max({Len(clist) - 1, 0}) /\ clist' = <<>>
FreeList == live' = live - Len(clist) /\ clist' = <<>>

\* An error return.  In P1 the caller frees the commands counted in num, to
\* which the segment's own buffer does not belong yet.
Refuse(r) ==
    /\ Built(r)
    /\ IF stage = "P1" THEN FreeList /\ refused' = refused + 1
                       ELSE UNCHANGED <<live, clist, refused>>
    /\ UNCHANGED <<stage, line, rest, more, scanVars>>

\* The branch that a character takes.
Opens(c) == quote = Unquoted /\ c \in Quotes
Closes(c) == quote # Unquoted /\ c = quote
Ends(c) == c = NUL \/ (quote = Unquoted /\ c = " ")
Stays(c) == ~Opens(c) /\ ~Closes(c) /\ ~Ends(c)

\* An argument ends here.
Cuts(c) == Ends(c) /\ token_start # NULL

Advance(c) == IF Stays(c) \/ Cuts(c) THEN dst + 1 ELSE dst

\* Mutant: one argument more than argv has room for with its final NULL.
ArgvFull_OffByOne(c) == Cuts(c) /\ Len(argv) >= CMD_ARGV_MAX
ArgvFull(c) == Cuts(c) /\ Len(argv) >= CMD_ARGV_MAX - 1

Refusal(c) ==
    IF c = NUL /\ quote # Unquoted /\ stage = "P1" THEN ERR_CMD_ARGS_BAD
    ELSE IF ArgvFull(c) \/ (c # NUL /\ Advance(c) >= SH_CMD_MAX - 1)
    THEN ERR_CMD_OR_ARGS_TOO_BIG
    ELSE IF c = NUL /\ argv = <<>> /\ token_start = NULL THEN WARN_NO_CMDS
    ELSE OK

\* What a turn of the loop writes at dst.  Mutant: the NUL goes where the loop
\* reads next.
Written_Ahead(c) ==
    IF Cuts(c) /\ c # NUL THEN [buf EXCEPT ![src + 2] = NUL]
    ELSE IF Stays(c) THEN [buf EXCEPT ![dst + 1] = c] ELSE buf
Written(c) ==
    IF Cuts(c) THEN [buf EXCEPT ![dst + 1] = NUL]
    ELSE IF Stays(c) THEN [buf EXCEPT ![dst + 1] = c] ELSE buf

\* One turn that does not return; the NUL of the line ends the loop.
Turn(c) ==
    /\ buf' = Written(c) /\ dst' = Advance(c) /\ src' = src + 1
    /\ argv' = IF Cuts(c) THEN Append(argv, token_start) ELSE argv
    /\ token_start' = IF Ends(c) THEN NULL
                      ELSE IF ~Closes(c) /\ token_start = NULL THEN dst
                      ELSE token_start
    /\ quote' = IF Opens(c) THEN c ELSE IF Closes(c) THEN Unquoted ELSE quote

\* The loop is over: P1 goes on with the list, P2's command is complete.
CommandBuilt ==
    IF stage = "P2" THEN Built(OK) /\ UNCHANGED clist
    ELSE /\ clist' = Append(clist, [buf |-> buf', argv |-> argv'])
         /\ IF more THEN pc' = "list" /\ UNCHANGED rc ELSE Built(OK)

Scan ==
    LET c == buf[src + 1] IN
    /\ pc = "scan"
    /\ IF Refusal(c) # OK THEN Refuse(Refusal(c))
       ELSE /\ Turn(c)
            /\ IF c = NUL THEN CommandBuilt ELSE UNCHANGED <<pc, rc, clist>>
            /\ UNCHANGED <<stage, line, rest, more, live, refused>>

\* P2 calls it with the line itself, in a buffer it never frees in between.
BuildBuff(l) ==
    /\ line' = l
    /\ IF Trim(l) = <<>> THEN Built(WARN_NO_CMDS) /\ UNCHANGED scanVars
       ELSE ScanStart(l) /\ pc' = "scan" /\ UNCHANGED rc
    /\ UNCHANGED <<stage, rest, more, clist, live, refused>>

----------------------------------------------------------------------------
(* build_cmd_list of P1: segments are found with strchr, one at a time. *)

BuildList(l) ==
    /\ line' = Trim(l) /\ rest' = Trim(l) /\ more' = TRUE
    /\ IF Trim(l) = <<>> THEN Built(WARN_NO_CMDS) ELSE pc' = "list" /\ UNCHANGED rc
    /\ clist' = <<>> /\ UNCHANGED <<stage, scanVars, live, refused>>

CutAt(s) == IF Pipes(s) = {} THEN Len(s) + 1 ELSE Min(Pipes(s))
FirstSegment(s) == Trim(SubSeq(s, 1, CutAt(s) - 1))

TooMany == Len(clist) >= CMD_MAX

\* What the turn of the loop on the next segment comes to before build_cmd_buff.
SegmentError ==
    IF FirstSegment(rest) = <<>> THEN {WARN_NO_CMDS}
    ELSE IF TooMany THEN {ERR_TOO_MANY_COMMANDS}
    ELSE IF MallocFails THEN {OK, ERR_MEMORY} ELSE {OK}

NextSegment ==
    /\ pc = "list" /\ OK \in SegmentError
    /\ ScanStart(FirstSegment(rest)) /\ pc' = "scan" /\ live' = live + 1
    /\ rest' = SubSeq(rest, CutAt(rest) + 1, Len(rest)) /\ more' = (Pipes(rest) # {})
    /\ UNCHANGED <<stage, line, clist, rc, refused>>

NoSegment ==
    /\ pc = "list"
    /\ \E r \in SegmentError \ {OK} : Built(r)
    /\ FreeList /\ UNCHANGED <<stage, line, rest, more, scanVars, refused>>

Parse == Scan \/ NextSegment \/ NoSegment

----------------------------------------------------------------------------
(* What a line means, said without the buffer. *)

\* The quote that is open after each place of s.
Open(s) ==
    LET q[i \in 0..Len(s)] ==
            IF i = 0 THEN Unquoted
            ELSE IF q[i - 1] = Unquoted /\ s[i] \in Quotes THEN s[i]
            ELSE IF s[i] = q[i - 1] THEN Unquoted ELSE q[i - 1]
    IN q

\* A blank outside quotes, and a quote that opens or closes.
Blank(s, i) == s[i] = " " /\ Open(s)[i - 1] = Unquoted
Mark(s, i) == s[i] \in Quotes /\ Open(s)[i - 1] \in {Unquoted, s[i]}

\* The words of a segment: the longest runs without a blank outside quotes,
\* less the quotes that open or close.
WordStarts(s) == {i \in DOMAIN s : ~Blank(s, i) /\ (i = 1 \/ Blank(s, i - 1))}
WordEnd(s, i) == Min({j \in i..Len(s) : j = Len(s) \/ Blank(s, j + 1)})
Letters(s, i, j) ==
    LET places == Sorted({p \in i..j : ~Mark(s, p)})
    IN [k \in DOMAIN places |-> s[places[k]]]
Words(s) ==
    LET starts == Sorted(WordStarts(s))
    IN [k \in DOMAIN starts |-> Letters(s, starts[k], WordEnd(s, starts[k]))]

\* The parts of a line between its pipes, blank ones too.
Bounds(s) == <<0>> \o Sorted(Pipes(s)) \o <<Len(s) + 1>>
Segments(s) ==
    [k \in 1..(Len(Bounds(s)) - 1) |->
        Trim(SubSeq(s, Bounds(s)[k] + 1, Bounds(s)[k + 1] - 1))]

Strings(c) == [k \in DOMAIN c.argv |-> StringAt(c.buf, c.argv[k])]
Commands == IF stage = "P1" THEN clist ELSE <<[buf |-> buf, argv |-> argv]>>
Meant == IF stage = "P1" THEN Segments(line) ELSE <<Trim(line)>>

\* What each return value says of the line.
MeantBuilt ==
    /\ Len(Commands) = Len(Meant)
    /\ \A k \in DOMAIN Meant : Strings(Commands[k]) = Words(Meant[k])
MeantUnclosed == \E k \in DOMAIN Meant : Open(Meant[k])[Len(Meant[k])] # Unquoted
MeantTooBig ==
    \/ \E k \in DOMAIN Meant : Len(Words(Meant[k])) >= CMD_ARGV_MAX
    \/ stage = "P2" /\ Len(line) = SH_CMD_MAX - 1

(* The arguments that argv points to, once the whole line has been parsed, are
   the words of the line: cutting in place, dropping quotes and adding NULs has
   not damaged a byte that was still to be read, or an earlier argument. *)
ParsedAsMeant ==
    pc = "parsed" =>
        /\ rc \in {OK, WARN_NO_CMDS, ERR_TOO_MANY_COMMANDS, ERR_CMD_ARGS_BAD,
                   ERR_CMD_OR_ARGS_TOO_BIG, ERR_MEMORY}
        /\ rc = OK => MeantBuilt
        /\ rc = WARN_NO_CMDS => \E k \in DOMAIN Meant : Meant[k] = <<>>
        /\ rc = ERR_TOO_MANY_COMMANDS => Len(Meant) > CMD_MAX
        /\ rc = ERR_CMD_ARGS_BAD => stage = "P1" /\ MeantUnclosed
        /\ rc = ERR_CMD_OR_ARGS_TOO_BIG => MeantTooBig

(* The loop reads and writes the same bytes: it never writes past the byte it
   has just read, it stops at the NUL of the line, and neither argv nor
   commands[] is overrun. *)
BuffersFit ==
    /\ pc = "scan" => dst <= src /\ src < SH_CMD_MAX
    /\ Len(argv) < CMD_ARGV_MAX
    /\ Len(clist) + (IF stage = "P1" /\ pc = "scan" THEN 1 ELSE 0) <= CMD_MAX
=============================================================================
