----------------------------- MODULE CmdParser -----------------------------
(***************************************************************************)
(* build_cmd_list and build_cmd_buff of 6-RShell/dshlib.c: how the local   *)
(* shell and the server turn a line into commands.  The line is trimmed    *)
(* and cut at its pipes; each segment is copied into a buffer of its own,  *)
(* expanded character by character into an array on the stack, cut into    *)
(* tokens in the buffer and sorted into arguments and redirections.  One   *)
(* action is one turn of a loop, so that the indices of all four arrays    *)
(* can be watched.  Any white space is " ", any other character of no      *)
(* meaning to the parser a member of Plain.                                *)
(***************************************************************************)
EXTENDS Integers, Sequences, FiniteSetsExt, SequencesExt, Ascending

CONSTANTS
    Plain,          \* the characters without a meaning
    CMD_MAX,        \* commands on a line (8 in C)
    CMD_ARGV_MAX,   \* length of argv, its final NULL included (9 in C)
    SH_CMD_MAX,     \* size of a line and of a command's buffer (320 in C)
    EXPANDED_MAX,   \* size of the array expanded (SH_CMD_MAX * 2, 576 in C)
    MallocFails     \* whether malloc may fail

Quotes == {"\"", "'"}
Special == Quotes \cup {" ", "<", ">", "|"}
NUL == "\\0"
Unquoted == "none"
Char == Plain \cup Special

ASSUME PlainAssumption == Plain \cap (Special \cup {NUL, Unquoted}) = {}
ASSUME SizesAssumption ==
    /\ CMD_MAX \in Nat \ {0} /\ CMD_ARGV_MAX \in Nat \ {0, 1}
    /\ SH_CMD_MAX \in Nat \ {0, 1} /\ EXPANDED_MAX \in Nat \ {0, 1, 2, 3}
ASSUME MallocAssumption == MallocFails \in BOOLEAN

OK == 0
WARN_NO_CMDS == -1
ERR_TOO_MANY_COMMANDS == -2
ERR_CMD_OR_ARGS_TOO_BIG == -3
ERR_CMD_ARGS_BAD == -4
ERR_MEMORY == -5
ERR_EXEC_CMD == -6

VARIABLES
    pc,        \* where the shell is: "prompt", "list", "expand", "tokens", "args", ...
    line,      \* line_copy, trimmed
    rest,      \* what strtok_r has not returned of it
    clist,     \* the commands built so far
    rc,        \* what build_cmd_list returned last, or the loop's error code
    seg,       \* the segment in the buffer of the command being built
    src,       \* index of the character, or the token, that is next
    quote,     \* the quote that is open
    expanded,  \* the array expanded, with its NUL
    tokens,    \* the array tokens
    tok,       \* the token that token_start points to
    open,      \* whether token_start points to one
    dst,       \* offset in the buffer of the next byte to write
    cmd,       \* the command being built
    live,      \* how many buffers from malloc have not been freed
    refused    \* history: how many segments build_cmd_buff has refused

scanVars == <<seg, src, quote, expanded, tokens, tok, open, dst, cmd>>
listVars == <<line, rest, clist, rc>>
parserVars == <<listVars, scanVars, live, refused>>

NoCommand == [argv |-> <<>>, input |-> <<>>, output |-> <<>>, append |-> FALSE]
ParserInit ==
    /\ line = <<>> /\ rest = <<>> /\ clist = <<>> /\ rc = OK
    /\ seg = <<>> /\ src = 1 /\ quote = Unquoted /\ expanded = <<>>
    /\ tokens = <<>> /\ tok = <<>> /\ open = FALSE /\ dst = 0
    /\ cmd = NoCommand /\ live = 0 /\ refused = 0

----------------------------------------------------------------------------
(* Strings. *)
Ink(s) == {i \in DOMAIN s : s[i] # " "}
Pipes(s) == {i \in DOMAIN s : s[i] = "|"}
Copied(s) ==   \* strncpy
    SubSeq(s, 1, IF Len(s) < SH_CMD_MAX THEN Len(s) ELSE SH_CMD_MAX - 1)
Trim(s) == IF Ink(s) = {} THEN <<>> ELSE SubSeq(s, Min(Ink(s)), Max(Ink(s)))
SkipPipes(s) ==
    LET others == DOMAIN s \ Pipes(s)
    IN IF others = {} THEN <<>> ELSE SubSeq(s, Min(others), Len(s))
CutAt(s) == IF Pipes(s) = {} THEN Len(s) + 1 ELSE Min(Pipes(s))
NextQuote_Any(q, c) ==
    IF c \notin Quotes THEN q ELSE IF q = Unquoted THEN c ELSE Unquoted
NextQuote(q, c) ==
    IF q = Unquoted THEN (IF c \in Quotes THEN c ELSE q)
    ELSE IF c = q THEN Unquoted ELSE q

----------------------------------------------------------------------------
(* build_cmd_list *)

\* Return from build_cmd_list.
Built(r) == rc' = r /\ pc' = "parsed"

FreeList_OneMore == live' = live - Len(clist) - 1 /\ clist' = <<>>
FreeList_ButLast == live' = live - Max({Len(clist) - 1, 0}) /\ clist' = <<>>
FreeList == live' = live - Len(clist) /\ clist' = <<>>

\* The locals of build_cmd_buff.
ScanStart ==
    /\ src' = 1 /\ quote' = Unquoted /\ expanded' = <<>> /\ tokens' = <<>>
    /\ tok' = <<>> /\ open' = FALSE /\ dst' = 0 /\ cmd' = NoCommand

\* On return the locals of build_cmd_list and build_cmd_buff are gone.
Forget == line' = <<>> /\ rest' = <<>> /\ seg' = <<>> /\ ScanStart

TooManyPipes(s) == Cardinality(Pipes(s)) + 1 > CMD_MAX

BuildList(l) ==
    /\ line' = Trim(Copied(l)) /\ clist' = <<>>
    /\ CASE line' = <<>> -> Built(WARN_NO_CMDS) /\ rest' = <<>>
         [] line' # <<>> /\ TooManyPipes(line') ->
                Built(ERR_TOO_MANY_COMMANDS) /\ rest' = <<>>
         [] OTHER -> pc' = "list" /\ rest' = line' /\ UNCHANGED rc
    /\ UNCHANGED <<scanVars, live, refused>>

\* The segment that strtok_r returns, and what it leaves.
FirstSegment(s) == Trim(SubSeq(s, 1, CutAt(s) - 1))
AfterSegment(s) == SubSeq(s, CutAt(s) + 1, Len(s))

\* strtok_r finds no further segment.
LastSegment ==
    /\ pc = "list" /\ SkipPipes(rest) = <<>>
    /\ Built(IF clist = <<>> THEN WARN_NO_CMDS ELSE OK)
    /\ UNCHANGED <<line, rest, clist, scanVars, live, refused>>

\* It finds a blank one.
BlankSegment ==
    LET s == SkipPipes(rest) IN
    /\ pc = "list" /\ s # <<>> /\ FirstSegment(s) = <<>>
    /\ FreeList /\ Built(WARN_NO_CMDS)
    /\ rest' = AfterSegment(s)
    /\ UNCHANGED <<line, scanVars, refused>>

\* It finds one to build: the loops of build_cmd_buff start.
NextSegment ==
    LET s == SkipPipes(rest) IN
    /\ pc = "list" /\ s # <<>>
    /\ seg' = FirstSegment(s) /\ seg' # <<>>
    /\ rest' = AfterSegment(s)
    /\ live' = live + 1 /\ pc' = "expand" /\ ScanStart
    /\ UNCHANGED <<line, clist, rc, refused>>

MallocFailsHere ==
    LET s == SkipPipes(rest) IN
    /\ MallocFails /\ pc = "list" /\ s # <<>>
    /\ FirstSegment(s) # <<>>
    /\ FreeList /\ Built(ERR_MEMORY)
    /\ rest' = AfterSegment(s)
    /\ UNCHANGED <<line, scanVars, refused>>

----------------------------------------------------------------------------
(* build_cmd_buff *)

\* An error return: the list is freed, but the segment's own buffer is not in it.
Refuse(r) ==
    /\ FreeList /\ Built(r) /\ refused' = refused + 1
    /\ UNCHANGED <<line, rest>>

CharAt(s, i) == IF i > Len(s) THEN NUL ELSE s[i]

\* What the loop may add to expanded before it looks at the size again.
Margin_One(c) == 1
Margin(c) == IF quote = Unquoted /\ c \in {"<", ">"} THEN 4 ELSE 1

\* The characters of seg that one turn takes, and what it makes of them.
Taken(c, d) == IF quote = Unquoted /\ c = ">" /\ d = ">" THEN <<c, d>> ELSE <<c>>
Piece(c, d) ==
    IF quote = Unquoted /\ c \in {"<", ">"}
    THEN <<" ">> \o Taken(c, d) \o <<" ">> ELSE <<c>>

Expand ==
    LET c == CharAt(seg, src)  d == CharAt(seg, src + 1) IN
    /\ pc = "expand"
    /\ IF Len(expanded) >= EXPANDED_MAX - Margin(c)
       THEN Refuse(ERR_CMD_OR_ARGS_TOO_BIG) /\ UNCHANGED scanVars
       ELSE /\ expanded' = expanded \o Piece(c, d)
            /\ IF c = NUL
               THEN pc' = "tokens" /\ src' = 1 /\ quote' = Unquoted
               ELSE /\ pc' = pc /\ src' = src + Len(Taken(c, d))
                    /\ quote' = NextQuote(quote, c)
            /\ UNCHANGED <<listVars, seg, tokens, tok, open, dst, cmd, live, refused>>

\* Whether a character closes the token, is one of its quotes, or belongs to it.
Ends(c) == c = NUL \/ (quote = Unquoted /\ c = " ")
Delimits(c) == IF quote = Unquoted THEN c \in Quotes ELSE c = quote
Belongs(c) == ~Ends(c) /\ ~Delimits(c)

Advance(c) ==
    IF Belongs(c) \/ (Ends(c) /\ open /\ quote = Unquoted) THEN dst + 1 ELSE dst

BufferFull(c) == c # NUL /\ Advance(c) >= SH_CMD_MAX - 1

TokensFull(c) == Ends(c) /\ open /\ Len(tokens) >= 2 * CMD_ARGV_MAX

Tokenize ==
    LET c == expanded[src] IN
    /\ pc = "tokens"
    /\ IF TokensFull(c) \/ BufferFull(c)
       THEN Refuse(ERR_CMD_OR_ARGS_TOO_BIG) /\ UNCHANGED scanVars
       ELSE /\ tokens' = IF Ends(c) /\ open THEN Append(tokens, tok) ELSE tokens
            /\ tok' = CASE Ends(c) -> <<>> [] Belongs(c) -> Append(tok, c) [] OTHER -> tok
            /\ open' = ~Ends(c) /\ dst' = Advance(c)
            /\ quote' = NextQuote(quote, c)
            /\ IF c = NUL THEN pc' = "args" /\ src' = 1
                          ELSE pc' = pc /\ src' = src + 1
            /\ UNCHANGED <<listVars, seg, expanded, cmd, live, refused>>

Redirections == {<<"<">>, <<">">>, <<">", ">">>}

\* A redirection takes the token after it for its file.
Redirect ==
    /\ pc = "args" /\ src <= Len(tokens) /\ tokens[src] \in Redirections
    /\ IF src = Len(tokens) \/ tokens[src + 1] \in Redirections
       THEN Refuse(ERR_CMD_ARGS_BAD) /\ UNCHANGED scanVars
       ELSE /\ cmd' = IF tokens[src] = <<"<">>
                      THEN [cmd EXCEPT !.input = tokens[src + 1]]
                      ELSE [cmd EXCEPT !.output = tokens[src + 1],
                                       !.append = tokens[src] = <<">", ">">>]
            /\ src' = src + 2
            /\ UNCHANGED <<pc, listVars, seg, quote, expanded, tokens, tok, open,
                           dst, live, refused>>

ArgvFull == Len(cmd.argv) >= CMD_ARGV_MAX - 1

Argument ==
    /\ pc = "args" /\ src <= Len(tokens) /\ tokens[src] \notin Redirections
    /\ IF ArgvFull
       THEN Refuse(ERR_CMD_OR_ARGS_TOO_BIG) /\ UNCHANGED scanVars
       ELSE /\ cmd' = [cmd EXCEPT !.argv = Append(@, tokens[src])]
            /\ src' = src + 1
            /\ UNCHANGED <<pc, listVars, seg, quote, expanded, tokens, tok, open,
                           dst, live, refused>>

CommandBuilt ==
    /\ pc = "args" /\ src > Len(tokens)
    /\ IF cmd.argv = <<>> THEN Refuse(WARN_NO_CMDS)
       ELSE /\ clist' = Append(clist, cmd) /\ pc' = "list"
            /\ UNCHANGED <<line, rest, rc, live, refused>>
    /\ UNCHANGED scanVars

Parse ==
    \/ LastSegment \/ BlankSegment \/ NextSegment \/ MallocFailsHere
    \/ Expand \/ Tokenize \/ Redirect \/ Argument \/ CommandBuilt

----------------------------------------------------------------------------
(* What a line means, said without buffers and loops. *)

\* The longest runs of characters other than pipes.
Within(s, i) == i \in DOMAIN s /\ s[i] # "|"
SegmentStarts(s) == {i \in DOMAIN s : Within(s, i) /\ ~Within(s, i - 1)}
SegmentEnd(s, i) == Min({j \in i..Len(s) : ~Within(s, j + 1)})
Segments(s) ==
    LET starts == Sorted(SegmentStarts(s))
    IN [k \in DOMAIN starts |-> Trim(SubSeq(s, starts[k], SegmentEnd(s, starts[k])))]

\* The quote that is open after each place of s.
QuoteAfter(s) ==
    LET q[i \in 0..Len(s)] ==
            IF i = 0 THEN Unquoted
            ELSE LET before == q[i - 1] IN
                 IF before = Unquoted /\ s[i] \in Quotes THEN s[i]
                 ELSE IF s[i] = before THEN Unquoted ELSE before
    IN q

\* A place outside quotes, what may stand there, and a quote that opens or closes.
Free(s, i) == i \in DOMAIN s /\ QuoteAfter(s)[i - 1] = Unquoted
Blank(s, i) == Free(s, i) /\ s[i] = " "
More(s, i) == Free(s, i) /\ s[i] = ">"
Operator(s, i) == Free(s, i) /\ s[i] \in {"<", ">"}
Mark(s, i) == s[i] \in Quotes /\ QuoteAfter(s)[i - 1] \in {Unquoted, s[i]}

\* The second half of >>: an odd number of > stands before it.
Second(s, i) ==
    More(s, i) /\ (i - Max({j \in 0..(i - 1) : ~More(s, j)})) % 2 = 0
OperatorStarts(s) == {i \in DOMAIN s : Operator(s, i) /\ ~Second(s, i)}

\* The words of a segment: an operator outside quotes is a word, and so is
\* every longest run of other characters without a blank outside quotes, less
\* the quotes that open or close.
WordStarts(s) ==
    {i \in DOMAIN s :
        /\ ~Blank(s, i) /\ ~Second(s, i)
        /\ i = 1 \/ Blank(s, i - 1) \/ Operator(s, i) \/ Operator(s, i - 1)}
WordEnd(s, i) ==
    Min({j \in i..Len(s) : j = Len(s) \/ Blank(s, j + 1) \/ j + 1 \in WordStarts(s)})
Letters(s, i, j) == Picked(s, {p \in i..j : ~Mark(s, p)})
Words(s) ==
    LET starts == Sorted(WordStarts(s))
    IN [k \in DOMAIN starts |-> Letters(s, starts[k], WordEnd(s, starts[k]))]

\* The command that words stand for, and when they stand for none.
IsOperator(ws, i) == i \in DOMAIN ws /\ ws[i] \in Redirections
Misplaced(ws) ==
    \E i \in DOMAIN ws : IsOperator(ws, i) /\ (i = Len(ws) \/ IsOperator(ws, i + 1))
ArgumentsAt(ws) == {i \in DOMAIN ws : ~IsOperator(ws, i) /\ ~IsOperator(ws, i - 1)}
Inputs(ws) == {i \in DOMAIN ws : ws[i] = <<"<">>}
Outputs(ws) == {i \in DOMAIN ws : ws[i] \in Redirections \ {<<"<">>}}

\* The last of several redirections counts.
FileAfter(ws, at) == IF at = {} THEN <<>> ELSE ws[Max(at) + 1]
Appends(ws, at) == at # {} /\ ws[Max(at)] = <<">", ">">>
Command(ws) ==
    [argv |-> Picked(ws, ArgumentsAt(ws)), input |-> FileAfter(ws, Inputs(ws)),
     output |-> FileAfter(ws, Outputs(ws)), append |-> Appends(ws, Outputs(ws))]

\* The words of the k-th segment of the line, and what each return value says of them.
WordsOf(k) == Words(Segments(line)[k])
MeantBuilt ==
    /\ clist # <<>> /\ Len(clist) = Len(Segments(line))
    /\ \A k \in DOMAIN Segments(line) :
          ~Misplaced(WordsOf(k)) /\ clist[k] = Command(WordsOf(k))
MeantEmpty ==
    \/ Segments(line) = <<>>
    \/ \E k \in DOMAIN Segments(line) : ArgumentsAt(WordsOf(k)) = {}
MeantMisplaced == \E k \in DOMAIN Segments(line) : Misplaced(WordsOf(k))

\* The length of a segment with a blank on both sides of each operator.
Padded(s) == Len(s) + 2 * Cardinality(OperatorStarts(s))
MeantTooBig(k) ==
    \/ Cardinality(ArgumentsAt(WordsOf(k))) >= CMD_ARGV_MAX
    \/ Len(WordsOf(k)) > 2 * CMD_ARGV_MAX
    \/ Padded(Segments(line)[k]) >= Min({SH_CMD_MAX, EXPANDED_MAX}) - 1

(* The two passes over a segment, the expansion of the operators and the
   cutting in place, agree with the words of the line: what is accepted is run
   as it was meant, and each refusal has its reason in the line. *)
ParsedAsMeant ==
    pc = "parsed" =>
        /\ rc \in {OK, WARN_NO_CMDS, ERR_CMD_ARGS_BAD, ERR_CMD_OR_ARGS_TOO_BIG,
                   ERR_TOO_MANY_COMMANDS, ERR_MEMORY}
        /\ rc = OK => MeantBuilt
        /\ rc = WARN_NO_CMDS => MeantEmpty
        /\ rc = ERR_CMD_ARGS_BAD => MeantMisplaced
        /\ rc = ERR_CMD_OR_ARGS_TOO_BIG => \E k \in DOMAIN Segments(line) : MeantTooBig(k)
        /\ rc = ERR_TOO_MANY_COMMANDS => Cardinality(Pipes(line)) >= CMD_MAX

(* No array is written past its end, whatever the line: the checks before the
   writes of build_cmd_buff leave room for the longest of them, and the count
   of pipes in build_cmd_list bounds the segments that strtok_r returns. *)
BuffersFit ==
    /\ Len(expanded) <= EXPANDED_MAX
    /\ pc = "tokens" => dst < SH_CMD_MAX /\ src \in DOMAIN expanded
    /\ Len(tokens) <= 2 * CMD_ARGV_MAX
    /\ Len(cmd.argv) < CMD_ARGV_MAX
    /\ Len(clist) + (IF pc \in {"expand", "tokens", "args"} THEN 1 ELSE 0) <= CMD_MAX
=============================================================================
