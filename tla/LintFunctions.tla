---------------------------- MODULE LintFunctions ----------------------------
(* CheckForFunctionLengths and _FunctionState of .linters/cpp/cpplint.py: the *)
(* lines of a function whose name starts a line, up to the next line that is *)
(* only a closing brace, are counted; blank lines and comments are not.      *)
EXTENDS LintText

CONSTANTS NormalTrigger, TestTrigger   \* lines allowed at verbosity 0
ASSUME LintFunctionsAssumption == NormalTrigger \in Nat \ {0} /\ TestTrigger \in Nat \ {0}

FnSize(n, confidence) == <<[line |-> n, category |-> "readability/fn_size", confidence |-> confidence]>>

FunctionState == [in_a_function |-> FALSE, lines_in_function |-> 0, test |-> FALSE]

Begin(test) == [in_a_function |-> TRUE, lines_in_function |-> 0, test |-> test]
Count1(f) == IF f.in_a_function THEN [f EXCEPT !.lines_in_function = @ + 1] ELSE f

\* How often the allowed length was doubled, five at most.
ErrorLevel(lines, trigger) ==
    CHOOSE e \in 0..5 : trigger * 2^e <= lines /\ (e < 5 => lines < trigger * 2^(e + 1))

CheckFrom(f, verbose, n) ==
    LET base == IF f.test THEN TestTrigger ELSE NormalTrigger
    IN IF f.in_a_function /\ f.lines_in_function >= base * 2^verbose
       THEN FnSize(n, ErrorLevel(f.lines_in_function, base)) ELSE <<>>

Check(f, verbose, n) ==
    LET base == IF f.test THEN TestTrigger ELSE NormalTrigger
    IN IF f.in_a_function /\ f.lines_in_function > base * 2^verbose
       THEN FnSize(n, ErrorLevel(f.lines_in_function, base)) ELSE <<>>

\* The name before the first parenthesis of a line that starts with a word:
\* "" if there is none, or if it looks like a macro other than TEST.
Macros == {"MACRO"}
FunctionName(line) ==
    LET p == SelectInSeq(line, LAMBDA t : t = "(")
        words == {i \in 1..p - 1 : IsWord(line[i])}
    IN IF /\ p > 1 /\ IsWord(line[1]) /\ \A i \in 1..p - 1 : IsWord(line[i]) \/ line[i] = " "
          /\ line[Max(words)] \notin Macros
       THEN line[Max(words)] ELSE ""

\* The first line from n on that has a brace or a semicolon; 0 if there is none.
BodyLine(lines, n) ==
    SelectInSubSeq(lines, n, Len(lines), LAMBDA l : \E i \in DOMAIN l : l[i] \in {";", "}", "{"})
IsDeclaration(line) == \E i \in DOMAIN line : line[i] \in {";", "}"}

CheckForFunctionLengths(f, lines, verbose, n) ==
    LET name == FunctionName(lines[n])
        body == BodyLine(lines, n)
    IN IF name # ""
       THEN IF body = 0 THEN [state |-> f, errors |-> FnSize(n, 5)]
            ELSE [state |-> IF IsDeclaration(lines[body]) THEN f ELSE Begin(name = "TEST"), errors |-> <<>>]
       ELSE IF Rstrip(lines[n]) = <<"}">>
       THEN [state |-> [f EXCEPT !.in_a_function = FALSE], errors |-> Check(f, verbose, n)]
       ELSE [state |-> IF IsBlank(lines[n]) THEN f ELSE Count1(f), errors |-> <<>>]
=============================================================================
