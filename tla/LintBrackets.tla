---------------------------- MODULE LintBrackets ----------------------------
(* How .linters/cpp/cpplint.py finds the other end of a bracketed expression *)
(* in the elided lines of a file: CloseExpression forwards, Reverse-         *)
(* CloseExpression backwards. A '<' may be a bracket or an operator, which   *)
(* is decided by what is found later.                                        *)
EXTENDS LintText

Opening == {"(", "[", "{"}
Closing == {")", "]", "}"}
Pair(open, close) == <<open, close>> \in {<<"(", ")">>, <<"[", "]">>, <<"{", "}">>}

\* The stack without what was taken for a bracket on top of it.
OperatorsKept(stack, t) == stack
Operators(stack, t) == SubSeq(stack, 1, SelectLastInSeq(stack, LAMBDA u : u # t))

\* The word operator ends the tokens of the line up to i.
OperatorWord(line, i) == LET l == Rstrip(SubSeq(line, 1, i)) IN l # <<>> /\ Last(l) = "operator"

\* The search at a position: at is where the expression ends (0 if it has not
\* been found), over that the search is given up, stack what is still open.
Search(stack) == [stack |-> stack, at |-> 0, over |-> FALSE]
GiveUp == [stack |-> <<>>, at |-> 0, over |-> TRUE]
Pop(stack, at) == IF Len(stack) = 1 THEN [stack |-> <<>>, at |-> at, over |-> TRUE] ELSE Search(Front(stack))

\* A bracket that cannot be one of a template, or a ';': pending '<' (or '>',
\* backwards) were operators.
Meets(line, i, stack, pending) ==
    LET rest == Operators(stack, pending)
        match == Pair(Last(rest), line[i]) \/ Pair(line[i], Last(rest))
    IN IF rest = <<>> THEN GiveUp
       ELSE IF line[i] = ";" THEN Search(rest)
       ELSE IF match THEN Pop(rest, i) ELSE GiveUp

Shift(line, i) == i > 1 /\ line[i - 1] = "<"
TopIs(stack, t) == stack # <<>> /\ Last(stack) = t

\* One turn of the loop of FindEndOfExpressionInLine.
EndStep(line, s, i) ==
    CASE s.over -> s
      [] line[i] \in Opening -> Search(Append(s.stack, line[i]))
      [] line[i] = "<" ->
            IF Shift(line, i)
            THEN IF TopIs(s.stack, "<") THEN (IF Len(s.stack) = 1 THEN GiveUp ELSE Search(Front(s.stack))) ELSE s
            ELSE IF OperatorWord(line, i - 1) THEN s ELSE Search(Append(s.stack, "<"))
      [] line[i] \in Closing \cup {";"} -> Meets(line, i, s.stack, "<")
      [] line[i] = ">" ->
            IF \/ i > 1 /\ line[i - 1] = "-"
               \/ i > 1 /\ ~IsWord(line[i - 1]) /\ OperatorWord(line, i - 2)
               \/ ~TopIs(s.stack, "<")
            THEN s ELSE Pop(s.stack, i)
      [] OTHER -> s

NotFound == [line |-> 0, at |-> 0]

\* A line ended with nothing open.
Exhausted(before, l, linenum) == l # linenum /\ before.search.stack = <<>>

\* The lines are scanned one after the other while the stack is not empty.
CloseExpression(elided, linenum, pos) ==
    LET first == elided[linenum]
        scan[l \in linenum..Len(elided)] ==
            LET before == IF l = linenum THEN [line |-> l, search |-> Search(<<>>)] ELSE scan[l - 1]
                indices == IF l = linenum THEN [k \in 1..(Len(first) - pos + 1) |-> pos + k - 1]
                           ELSE [k \in DOMAIN elided[l] |-> k]
            IN IF before.search.over \/ Exhausted(before, l, linenum) THEN before
               ELSE [line |-> l,
                     search |-> FoldLeft(LAMBDA s, i : EndStep(elided[l], s, i), before.search, indices)]
        found == scan[Len(elided)]
    IN IF \/ first[pos] \notin Opening \cup {"<"}
          \/ first[pos] = "<" /\ pos < Len(first) /\ first[pos + 1] \in {"<", "="}
          \/ found.search.at = 0
       THEN NotFound ELSE [line |-> found.line, at |-> found.search.at]

\* One turn of the loop of FindStartOfExpressionInLine, which moves down and
\* over the position before an arrow, a shift or an operator (skip).
StartStep(line, s, i) ==
    LET c == line[i]
        operator == \/ i > 1 /\ line[i - 1] = "-"
                    \/ i > 1 /\ StandsAt(line, <<" ", ">", "=", " ">>, i - 1)
                    \/ OperatorWord(line, i - 1)
        stay == [skip |-> FALSE, search |-> s.search]
        to(search) == [skip |-> FALSE, search |-> search]
    IN CASE s.search.over -> s
         [] ~s.search.over /\ s.skip -> stay
         [] ~s.search.over /\ ~s.skip /\ c \in Closing -> to(Search(Append(s.search.stack, c)))
         [] ~s.search.over /\ ~s.skip /\ c = ">" ->
               IF i > 1 /\ operator THEN [stay EXCEPT !.skip = TRUE] ELSE to(Search(Append(s.search.stack, c)))
         [] ~s.search.over /\ ~s.skip /\ c = "<" ->
               IF Shift(line, i) THEN [stay EXCEPT !.skip = TRUE]
               ELSE IF TopIs(s.search.stack, ">") THEN to(Pop(s.search.stack, i)) ELSE stay
         [] ~s.search.over /\ ~s.skip /\ c \in Opening \cup {";"} -> to(Meets(line, i, s.search.stack, ">"))
         [] OTHER -> stay

ReverseCloseExpression(elided, linenum, pos) ==
    LET last == elided[linenum]
        scan[l \in 1..linenum] ==
            LET before == IF l = linenum THEN [line |-> l, search |-> Search(<<>>)] ELSE scan[l + 1]
                size == IF l = linenum THEN pos ELSE Len(elided[l])
            IN IF before.search.over \/ Exhausted(before, l, linenum) THEN before
               ELSE [line |-> l,
                     search |-> FoldLeft(LAMBDA s, i : StartStep(elided[l], s, i),
                                         [skip |-> FALSE, search |-> before.search],
                                         [k \in 1..size |-> size - k + 1]).search]
        found == scan[1]
    IN IF last[pos] \notin Closing \cup {">"} \/ found.search.at = 0
       THEN NotFound ELSE [line |-> found.line, at |-> found.search.at]
=============================================================================
