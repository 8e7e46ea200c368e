------------------------------ MODULE LintText ------------------------------
(* .linters/cpp/cpplint.py prepares a file before it checks a line of it:   *)
(* the lines of comments that span lines are blanked (RemoveMultiLine-      *)
(* Comments), raw strings and strings are emptied and comments cut off      *)
(* (CleansedLines). All of it works line by line with regular expressions.  *)
(*                                                                         *)
(* A line is a sequence of tokens: a symbol or a blank is a token, and a   *)
(* word is one token, separated from the words next to it. Lines have the  *)
(* numbers of the program, whose marker lines 0 and Len + 1 are left out.  *)
EXTENDS Integers, Sequences, SequencesExt

Q == "\""
EscapedQ == "\\\""
Directives == {"#if", "#ifdef", "#ifndef", "#else", "#elif", "#endif", "#define", "#include", "#pragma"}
Symbols == Directives \cup
    {" ", Q, EscapedQ, "'", "(", ")", "[", "]", "{", "}", "<", ">", ";", ":", "=", "-", ".", "*", "\\",
     "/*", "*/", "//", "\t", "\r", "NUL"}
IsWord(t) == t \notin Symbols

\* Where the sequence s stands in the line, at or after a position; 0 if nowhere.
StandsAt(line, s, i) == i + Len(s) - 1 <= Len(line) /\ SubSeq(line, i, i + Len(s) - 1) = s
Find(line, s, from) ==
    LET I == {i \in from..Len(line) : StandsAt(line, s, i)}
    IN IF I = {} THEN 0 ELSE Min(I)
\* What of a sequence is not in the set.
Without(s, out) == FoldLeft(LAMBDA kept, e : IF e \in out THEN kept ELSE Append(kept, e), <<>>, s)
Count(line, t) == Len(SelectSeq(line, LAMBDA u : u = t))

IsBlank(line) == \A i \in DOMAIN line : line[i] = " "
Indent(line) == SelectInSeq(line \o <<"$">>, LAMBDA t : t # " ") - 1
Lstrip(line) == SubSeq(line, Indent(line) + 1, Len(line))
Rstrip(line) == SubSeq(line, 1, SelectLastInSeq(line, LAMBDA t : t # " "))
From(line, i) == SubSeq(line, i, Len(line))
Before(line, i) == SubSeq(line, 1, i - 1)

-----------------------------------------------------------------------------
(* Comments that span lines.                                               *)

OpensAnyComment(line) == LET l == Lstrip(line) IN l # <<>> /\ Head(l) = "/*"

OpensComment(line) ==
    LET l == Lstrip(line) IN l # <<>> /\ Head(l) = "/*" /\ Find(l, <<"*/">>, 2) = 0
ClosesComment(line) ==
    LET l == Rstrip(line) IN l # <<>> /\ Last(l) = "*/"

BlankedComment == <<"/*", "*/">>

\* Line i, when the comment of an earlier line is open (0: none is).
BlankedUpTo(acc, lines, i) ==
    LET begin == IF acc.open # 0 THEN acc.open
                 ELSE IF OpensComment(lines[i]) THEN i ELSE 0
    IN IF begin # 0 /\ ClosesComment(lines[i])
       THEN [open |-> 0, lines |-> [j \in DOMAIN lines |->
                IF j \in begin..i THEN BlankedComment ELSE acc.lines[j]]]
       ELSE [open |-> begin, lines |-> acc.lines]
\* RemoveMultiLineComments: the lines, and the line of a comment that never
\* ends (0 if there is none), from which on nothing is blanked.
RemoveMultiLineComments(lines) ==
    FoldLeftDomain(LAMBDA acc, i : BlankedUpTo(acc, lines, i), [open |-> 0, lines |-> lines], lines)

-----------------------------------------------------------------------------
(* Raw strings.                                                            *)

\* Outside of quotes when the line is read from its start.
OutsideQuotes(line) ==
    LET step(quote, t) == IF quote = t THEN ""
                          ELSE IF quote = "" /\ t \in {Q, "'"} THEN t ELSE quote
    IN FoldLeft(step, "", line) = ""
InLineComment(line) == \E i \in DOMAIN line : line[i] = "//" /\ OutsideQuotes(Before(line, i))

\* The parenthesis that opens a raw string whose R stands at i; 0 if none does.
RawOpening(line, i) ==
    IF ~StandsAt(line, <<"R", Q>>, i) THEN 0
    ELSE LET j == SelectInSubSeq(line, i + 2, Len(line), LAMBDA t : t \in {" ", "\\", "(", ")"})
         IN IF j # 0 /\ line[j] = "(" THEN j ELSE 0

\* A turn of the loop over the raw strings that begin on a line, until one of
\* them does not end there.
CutRawString(s) ==
    LET line == s.line
        I == {i \in DOMAIN line : RawOpening(line, i) # 0}
        i == Min(I)
        j == RawOpening(line, i)
        delimiter == <<")">> \o SubSeq(line, i + 2, j - 1) \o <<Q>>
        end == Find(line, delimiter, j + 1)
        head == Before(line, i) \o <<Q, Q>>
    IN IF s.delimiter # <<>> \/ I = {} \/ InLineComment(Before(line, i)) THEN s
       ELSE IF end = 0 THEN [line |-> head, delimiter |-> delimiter]
       ELSE [line |-> head \o From(line, end + Len(delimiter)), delimiter |-> <<>>]
\* No loop over a line has more turns than the line has tokens.
CutRawStrings(line) == FoldLeft(LAMBDA s, t : CutRawString(s), [line |-> line, delimiter |-> <<>>], line)

\* One line, when the raw string with this delimiter is open (<<>>: none is).
CleanseRawLine(line, delimiter) ==
    LET end == Find(line, delimiter, 1)
    IN IF delimiter = <<>> THEN CutRawStrings(line)
       ELSE IF end = 0 THEN [line |-> <<Q, Q>>, delimiter |-> delimiter]
       ELSE CutRawStrings(SubSeq(line, 1, Indent(line)) \o <<Q, Q>> \o From(line, end + Len(delimiter)))

CleansedUpTo(acc, line) ==
    LET cut == CleanseRawLine(line, acc.delimiter)
    IN [delimiter |-> cut.delimiter, lines |-> Append(acc.lines, cut.line)]
CleanseRawStrings(lines) == FoldLeft(CleansedUpTo, [delimiter |-> <<>>, lines |-> <<>>], lines).lines

-----------------------------------------------------------------------------
(* Strings and the comments of one line.                                   *)

IsCppString(line) ==
    (Count(line, Q) - Cardinality({i \in DOMAIN line : StandsAt(line, <<"'", Q, "'">>, i)})) % 2 = 1

\* The next C comment of a line, with the blanks that go with it.
CutCComment(s) ==
    LET p == Find(s.rest, <<"/*">>, 1)
        q == Find(s.rest, <<"*/">>, p + 1)
        head == Before(s.rest, p)
        left == Rstrip(head)
        rest == From(s.rest, q + 1)
    IN IF p = 0 \/ q = 0 THEN s
       ELSE IF IsBlank(rest) THEN [kept |-> s.kept \o left, rest |-> <<>>]
       ELSE IF left # head /\ ~IsWord(Head(rest)) THEN [kept |-> s.kept \o left, rest |-> rest]
       ELSE [kept |-> s.kept \o head, rest |-> Lstrip(rest)]
CutCComments(line) ==
    LET cut == FoldLeft(LAMBDA s, t : CutCComment(s), [kept |-> <<>>, rest |-> line], line)
    IN cut.kept \o cut.rest

CleanseComments(line) ==
    LET p == Find(line, <<"//">>, 1)
    IN CutCComments(IF p # 0 /\ ~IsCppString(Before(line, p)) THEN Rstrip(Before(line, p)) ELSE line)

\* #include "header" and #include <header>
IsInclude(line) ==
    LET l == Lstrip(line)
    IN Len(l) >= 4 /\ l[1] = "#include" /\ l[2] \in {Q, "<"} /\ l[4] \in {Q, ">"}

\* How far the digits and their separators reach from a separator on.
Literal(line) ==
    2 * Min({k \in 0..Len(line) : 2 * k + 2 <= Len(line) => line[2 * k + 1] # "'" \/ ~IsWord(line[2 * k + 2])})

\* A turn of the loop of _CollapseStrings.
EmptyString(s) ==
    LET line == s.elided
        p == SelectInSeq(line, LAMBDA t : t \in {Q, "'"})
        head == Before(line, p)
        tail == From(line, p + 1)
        second == Find(tail, <<line[p]>>, 1)
        digits == Literal(From(line, p))
    IN IF p = 0 THEN s
       ELSE IF line[p] = "'" /\ head # <<>> /\ Last(head) = "1"
       THEN [collapsed |-> s.collapsed \o head \o Without(SubSeq(line, p, p + digits - 1), {"'"}),
             elided |-> From(line, p + digits)]
       ELSE IF second = 0 THEN s
       ELSE [collapsed |-> s.collapsed \o head \o <<line[p], line[p]>>, elided |-> From(tail, second + 1)]
EmptyStrings(line) ==
    LET all == FoldLeft(LAMBDA s, t : EmptyString(s), [collapsed |-> <<>>, elided |-> line], line)
    IN all.collapsed \o all.elided

CollapseStrings(line) ==
    IF IsInclude(line) THEN line ELSE EmptyStrings(Without(line, {EscapedQ}))

\* CleansedLines: the copies of the lines that the checks read.
CopiesOf(lines, unraw) ==
    [raw_lines |-> lines,
     lines_without_raw_strings |-> unraw,
     lines |-> [i \in DOMAIN unraw |-> CleanseComments(unraw[i])],
     elided |-> [i \in DOMAIN unraw |-> CleanseComments(CollapseStrings(unraw[i]))]]
CleansedLines(lines) == CopiesOf(lines, CleanseRawStrings(lines))
=============================================================================
