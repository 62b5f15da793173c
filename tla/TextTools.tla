----------------------------- MODULE TextTools -----------------------------
(***************************************************************************)
(* The two text tools, 1-MiniGrep/minigrep.c and 0-Warmup/wordcount.c.     *)
(* Both read options and then their files one after the other; one turn of *)
(* a loop is one action.  What is printed is a sequence of records.        *)
(***************************************************************************)
EXTENDS Integers, Sequences, FiniteSetsExt, SequencesExt, Ascending

CONSTANTS
    Args,             \* the command lines: tool, flags, pattern, files
    Chars,            \* the characters of files and patterns
    LINE_BUFFER_SZ,   \* 256 in C
    MallocFails,      \* whether malloc may fail
    Missing           \* a file that cannot be opened, a pattern not given

NEWLINE == "\\n"
Space == {" ", NEWLINE}
Text == Seq(Chars \cup Space)

ASSUME ArgsAssumption ==
    \A a \in Args :
        /\ a.tool \in {"minigrep", "wordcount"} /\ a.pattern \in Text \cup {Missing}
        /\ a.flags \in Seq(STRING) /\ a.files \in Seq(Text \cup {Missing})
        /\ a.pattern = Missing /\ a.tool = "minigrep" => a.files = <<>>
        /\ a.tool = "wordcount" => a.files # <<>>
ASSUME SizeAssumption == LINE_BUFFER_SZ \in Nat \ {0, 1} /\ MallocFails \in BOOLEAN

VARIABLES
    args,          \* the command line
    pc,            \* where main is
    opts, flag,    \* the options so far, and the index of the next one
    file,          \* the index of the file
    unread,        \* what has not been read of it
    line,          \* line_buffer
    start, cur, pat,              \* the pointers of str_match
    line_number, match_count, total_matches,
    counts, in_word, total,       \* of wordcount
    out, code                     \* what was printed, the exit status

matchVars == <<line, start, cur, pat>>
grepVars == <<line_number, match_count, total_matches>>
wcVars == <<counts, in_word, total>>
fileVars == <<file, unread>>
vars == <<args, pc, opts, flag, fileVars, matchVars, grepVars, wcVars, out, code>>

Zero == [lines |-> 0, words |-> 0, chars |-> 0]

Init ==
    /\ args \in Args /\ pc = "options" /\ opts = {} /\ flag = 1
    /\ file = 1 /\ unread = <<>> /\ line = <<>> /\ start = 1 /\ cur = 1 /\ pat = 1
    /\ line_number = 0 /\ match_count = 0 /\ total_matches = 0
    /\ counts = Zero /\ in_word = FALSE /\ total = Zero
    /\ out = <<>> /\ code = 0

Exit(status) == pc' = "exit" /\ code' = status

Content(k) == args.files[k]

----------------------------------------------------------------------------
(* minigrep: main *)

Grep(label) == args.tool = "minigrep" /\ pc = label

\* -h, which counts in the first place only, or nothing at all.
Usage ==
    /\ Grep("options") /\ flag = 1
    /\ \/ args.flags = <<>> /\ args.pattern = Missing /\ Exit(2)
       \/ args.flags # <<>> /\ args.flags[1] = "h" /\ Exit(0)
    /\ UNCHANGED <<args, opts, flag, fileVars, matchVars, grepVars, wcVars, out>>

Option ==
    /\ Grep("options") /\ flag <= Len(args.flags) /\ args.flags[1] # "h"
    /\ IF args.flags[flag] \in {"n", "i", "c", "v"}
       THEN /\ opts' = opts \cup {args.flags[flag]} /\ flag' = flag + 1
            /\ UNCHANGED <<pc, code>>
       ELSE Exit(2) /\ UNCHANGED <<opts, flag>>
    /\ UNCHANGED <<args, fileVars, matchVars, grepVars, wcVars, out>>

OptionsRead ==
    /\ Grep("options") /\ flag > Len(args.flags)
    /\ args.flags # <<>> \/ args.pattern # Missing
    /\ \/ args.files = <<>> /\ Exit(2)
       \/ args.files # <<>> /\ pc' = "open" /\ UNCHANGED code
       \/ args.files # <<>> /\ MallocFails /\ Exit(4)
    /\ UNCHANGED <<args, opts, flag, fileVars, matchVars, grepVars, wcVars, out>>

OpenFile ==
    /\ Grep("open") /\ file <= Len(args.files)
    /\ line_number' = 0 /\ match_count' = 0
    /\ IF Content(file) = Missing THEN Exit(3) /\ UNCHANGED unread
       ELSE unread' = Content(file) /\ pc' = "read" /\ UNCHANGED code
    /\ UNCHANGED <<args, opts, flag, file, matchVars, total_matches, wcVars, out>>

\* fgets: up to the newline, or as much as fits with the final NUL.  Mutant:
\* the NUL is forgotten.
Fits_WithoutNul == LINE_BUFFER_SZ
Fits == LINE_BUFFER_SZ - 1

Newlines(s) == {i \in DOMAIN s : s[i] = NEWLINE}
PieceLength == Min({Fits, Len(unread)} \cup Newlines(unread))

ReadLine ==
    /\ Grep("read") /\ unread # <<>>
    /\ line' = SubSeq(unread, 1, PieceLength)
    /\ unread' = SubSeq(unread, PieceLength + 1, Len(unread))
    /\ line_number' = line_number + 1
    /\ start' = 1 /\ cur' = 1 /\ pat' = 1 /\ pc' = "match"
    /\ UNCHANGED <<args, opts, flag, file, match_count, total_matches, wcVars, out, code>>

\* What str_match returned, and what is printed of the line.
Reported(k, number, text) ==
    [file |-> k, number |-> IF "n" \in opts THEN number ELSE 0, text |-> text]

Judge(found) ==
    /\ pc' = "read"
    /\ IF found # ("v" \in opts)
       THEN /\ match_count' = match_count + 1 /\ total_matches' = total_matches + 1
            /\ out' = IF "c" \in opts THEN out
                      ELSE Append(out, Reported(file, line_number, line))
       ELSE UNCHANGED <<match_count, total_matches, out>>
    /\ UNCHANGED <<matchVars, line_number>>

CloseFile ==
    /\ Grep("read") /\ unread = <<>>
    /\ out' = IF "c" \in opts THEN Append(out, [file |-> file, count |-> match_count]) ELSE out
    /\ file' = file + 1 /\ pc' = "open"
    /\ UNCHANGED <<args, opts, flag, unread, matchVars, grepVars, wcVars, code>>

AllSearched ==
    /\ Grep("open") /\ file > Len(args.files)
    /\ Exit(IF total_matches > 0 THEN 0 ELSE 1)
    /\ UNCHANGED <<args, opts, flag, fileVars, matchVars, grepVars, wcVars, out>>

----------------------------------------------------------------------------
(* minigrep: str_match, one comparison at a time *)

Lower(c) == CASE c = "A" -> "a" [] c = "B" -> "b" [] OTHER -> c   \* tolower
Same(c, d) == IF "i" \in opts THEN Lower(c) = Lower(d) ELSE c = d

\* Where the search goes on after a mismatch.  Mutants: at the mismatch, as if
\* what matched could not begin another match; at the same place.
Restart_Ahead == IF cur > start THEN cur ELSE start + 1
Restart_Here == start
Restart == start + 1

Compare ==
    /\ Grep("match")
    /\ IF pat > Len(args.pattern) THEN Judge(TRUE)
       ELSE IF start > Len(line) THEN Judge(FALSE)
       ELSE /\ IF cur <= Len(line) /\ Same(line[cur], args.pattern[pat])
               THEN cur' = cur + 1 /\ pat' = pat + 1 /\ UNCHANGED start
               ELSE start' = Restart /\ cur' = Restart /\ pat' = 1
            /\ UNCHANGED <<pc, line, grepVars, out>>
    /\ UNCHANGED <<args, opts, flag, fileVars, wcVars, code>>

----------------------------------------------------------------------------
(* wordcount *)

Wc(label) == args.tool = "wordcount" /\ pc = label

WcOption ==
    /\ Wc("options") /\ flag <= Len(args.flags)
    /\ IF args.flags[flag] \in {"l", "w", "c"}
       THEN /\ opts' = opts \cup {args.flags[flag]} /\ flag' = flag + 1
            /\ UNCHANGED <<pc, code>>
       ELSE Exit(1) /\ UNCHANGED <<opts, flag>>
    /\ UNCHANGED <<args, fileVars, matchVars, grepVars, wcVars, out>>

WcOptionsRead ==
    /\ Wc("options") /\ flag > Len(args.flags)
    /\ opts' = IF opts = {} THEN {"l", "w", "c"} ELSE opts
    /\ pc' = "open"
    /\ UNCHANGED <<args, flag, fileVars, matchVars, grepVars, wcVars, out, code>>

\* Without names the standard input takes the place of a single file.
WcOpen ==
    /\ Wc("open") /\ file <= Len(args.files)
    /\ IF Content(file) = Missing THEN Exit(1) /\ UNCHANGED <<unread, counts, in_word>>
       ELSE /\ unread' = Content(file) /\ counts' = Zero /\ in_word' = FALSE
            /\ pc' = "count" /\ UNCHANGED code
    /\ UNCHANGED <<args, opts, flag, file, matchVars, grepVars, total, out>>

\* Mutant: only the blank is taken for white space.
IsSpace_Blank(c) == c = " "
IsSpace(c) == c \in Space

CountChar ==
    LET c == Head(unread) IN
    /\ Wc("count") /\ unread # <<>> /\ unread' = Tail(unread)
    /\ counts' = [lines |-> counts.lines + (IF c = NEWLINE THEN 1 ELSE 0),
                  words |-> counts.words + (IF ~IsSpace(c) /\ ~in_word THEN 1 ELSE 0),
                  chars |-> counts.chars + 1]
    /\ in_word' = ~IsSpace(c)
    /\ UNCHANGED <<args, pc, opts, flag, file, matchVars, grepVars, total, out, code>>

\* print_counts
Shown(c) == [o \in opts |-> CASE o = "l" -> c.lines [] o = "w" -> c.words [] o = "c" -> c.chars]

WcClose ==
    /\ Wc("count") /\ unread = <<>>
    /\ out' = Append(out, Shown(counts))
    /\ total' = [x \in DOMAIN total |-> total[x] + counts[x]]
    /\ file' = file + 1 /\ pc' = "open"
    /\ UNCHANGED <<args, opts, flag, unread, matchVars, grepVars, counts, in_word, code>>

WcEnd ==
    /\ Wc("open") /\ file > Len(args.files)
    /\ out' = IF Len(args.files) > 1 THEN Append(out, Shown(total)) ELSE out
    /\ Exit(0)
    /\ UNCHANGED <<args, opts, flag, fileVars, matchVars, grepVars, wcVars>>

----------------------------------------------------------------------------
Exited == pc = "exit" /\ UNCHANGED vars

Next ==
    \/ Usage \/ Option \/ OptionsRead \/ OpenFile \/ ReadLine \/ Compare
    \/ CloseFile \/ AllSearched
    \/ WcOption \/ WcOptionsRead \/ WcOpen \/ CountChar \/ WcClose \/ WcEnd \/ Exited

\* Nothing else runs: the program is only ever waiting for itself.
Spec == Init /\ [][Next]_vars /\ WF_vars(Next)

----------------------------------------------------------------------------
(* Types; line_buffer holds its line and a NUL. *)
TypeOK ==
    /\ args \in Args /\ pc \in {"options", "open", "read", "match", "count", "exit"}
    /\ opts \subseteq {"n", "i", "c", "v", "l", "w"}
    /\ flag \in 1..(Len(args.flags) + 1) /\ file \in 1..(Len(args.files) + 1)
    /\ unread \in Text /\ line \in Text /\ Len(line) < LINE_BUFFER_SZ
    /\ start \in 1..(Len(line) + 1) /\ cur \in start..(Len(line) + 1)
    /\ pc = "match" => pat \in 1..(Len(args.pattern) + 1)
    /\ {line_number, match_count, total_matches} \subseteq Nat
    /\ {counts, total} \subseteq [{"lines", "words", "chars"} -> Nat]
    /\ in_word \in BOOLEAN /\ code \in 0..4

----------------------------------------------------------------------------
(* What the tools are to print, said of whole files. *)

\* Place i is the m-th at which a line that begins after place b fills the
\* buffer: a line that does not fit counts as several.
Fills(s, i, b, m) ==
    /\ i = b + m * (LINE_BUFFER_SZ - 1) /\ (b = 0 \/ s[b] = NEWLINE)
    /\ \A j \in (b + 1)..(i - 1) : s[j] # NEWLINE

\* The lines of a text, with their newlines.
LineEnds(s) ==
    {i \in DOMAIN s : \/ s[i] = NEWLINE \/ i = Len(s)
                      \/ \E b \in 0..(i - 1), m \in 1..i : Fills(s, i, b, m)}
Lines(s) ==
    LET end == Sorted(LineEnds(s))
    IN [k \in DOMAIN end |-> SubSeq(s, IF k = 1 THEN 1 ELSE end[k - 1] + 1, end[k])]

Occurs(s, p) ==
    \E i \in 0..(Len(s) - Len(p)) : \A j \in DOMAIN p : Same(s[i + j], p[j])

Selected(s) == {i \in DOMAIN Lines(s) : Occurs(Lines(s)[i], args.pattern) # ("v" \in opts)}

GrepReport(k) ==
    LET s == Content(k)  chosen == Sorted(Selected(s))
    IN IF "c" \in opts THEN <<[file |-> k, count |-> Len(chosen)]>>
       ELSE [j \in DOMAIN chosen |-> Reported(k, chosen[j], Lines(s)[chosen[j]])]

\* The files before the first that cannot be opened.
Readable == {k \in DOMAIN args.files : \A j \in 1..k : Content(j) # Missing}
Report(One(_)) == FlattenSeq([k \in 1..Cardinality(Readable) |-> One(k)])

Searched ==
    /\ args.tool = "minigrep" /\ pc = "exit" /\ code \in {0, 1, 3}
    /\ args.flags # <<>> => args.flags[1] # "h"

(* minigrep prints exactly the lines that contain the pattern, or those that do
   not, with their numbers or counts, of all files up to one that cannot be
   opened; the exit status says which of the three it was.  Of a line that does
   not fit in the buffer "my program will treat each chunk like its own line for
   matching" (questions.md:33): it is cut where the buffer is full, nowhere else,
   and the next line begins after its newline. *)
GrepIsRight ==
    Searched =>
        /\ out = Report(GrepReport)
        /\ code = 3 <=> Readable # DOMAIN args.files
        /\ code = 1 => \A k \in Readable : Selected(Content(k)) = {}
        /\ code = 0 => \E k \in Readable : Selected(Content(k)) # {}

WordStarts(s) == {i \in DOMAIN s : s[i] \notin Space /\ (i = 1 \/ s[i - 1] \in Space)}
Counted(s) ==
    [lines |-> Cardinality(Newlines(s)), words |-> Cardinality(WordStarts(s)), chars |-> Len(s)]
WcReport(k) == <<Shown(Counted(Content(k)))>>

\* The counts of all files together.
CountedAll ==
    LET sum[k \in 0..Len(args.files)] ==
            IF k = 0 THEN Zero
            ELSE [x \in DOMAIN Zero |-> sum[k - 1][x] + Counted(Content(k))[x]]
    IN sum[Len(args.files)]

(* wordcount prints the newlines, the words and the characters of each file it
   could open and, if it could open all of several, those of the files in a row. *)
CountsAreRight ==
    args.tool = "wordcount" /\ pc = "exit" /\ (code = 0 \/ Readable # DOMAIN args.files)
        /\ (\A k \in DOMAIN args.flags : args.flags[k] \in {"l", "w", "c"}) =>
        out = Report(WcReport)
              \o (IF code = 0 /\ Len(args.files) > 1 THEN <<Shown(CountedAll)>> ELSE <<>>)

(* Whatever the files and the pattern, the searches and the reading come to an
   end. *)
Terminates == <>(pc = "exit")
=============================================================================
