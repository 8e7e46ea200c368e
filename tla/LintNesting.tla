----------------------------- MODULE LintNesting -----------------------------
(* NestingState of .linters/cpp/cpplint.py: the stack of blocks at a line,  *)
(* kept from the elided lines with regular expressions instead of a parser. *)
(* Of #if, #else and #endif the part up to the first #else counts.          *)
(* previous_stack_top is an object in the program: here its place too.       *)
EXTENDS LintBrackets, LintConfig

\* A namespace needs its closing comment when it is as long as this.
CONSTANT NamespaceLines

NO_ASM == "_NO_ASM"
INSIDE_ASM == "_INSIDE_ASM"
END_ASM == "_END_ASM"
BLOCK_ASM == "_BLOCK_ASM"

BlockInfo(kind, n, seen) ==
    [kind |-> kind, starting_linenum |-> n, seen_open_brace |-> seen, open_parentheses |-> 0,
     inline_asm |-> NO_ASM, name |-> "", class_indent |-> 0]

NoTop == [depth |-> 0, block |-> BlockInfo("none", 0, TRUE)]
NestingState == [stack |-> <<>>, previous_stack_top |-> NoTop, pp_stack |-> <<>>]

SeenOpenBrace(stack) == stack = <<>> \/ Last(stack).seen_open_brace
TopKind(stack) == IF stack = <<>> THEN "none" ELSE Last(stack).kind
InAsmBlock(nesting) == nesting.stack # <<>> /\ Last(nesting.stack).inline_asm # NO_ASM

\* The top block changed in place.
SetTop(stack, block) == Append(Front(stack), block)

-----------------------------------------------------------------------------
(* Preprocessor lines.                                                     *)

Directive(line) ==
    LET l == Lstrip(line)
    IN IF l = <<>> THEN "none"
       ELSE IF Head(l) \in {"#if", "#ifdef", "#ifndef"} THEN "if"
       ELSE IF Head(l) \in {"#else", "#elif"} THEN "else"
       ELSE IF Head(l) = "#endif" THEN "endif" ELSE "none"

PreprocessorInfo(stack) == [stack_before_if |-> stack, stack_before_else |-> <<>>, seen_else |-> FALSE]

UpdatePreprocessorEachElse(s, line) ==
    LET directive == Directive(line)
        top == Last(s.pp_stack)
        taken == [top EXCEPT !.seen_else = TRUE, !.stack_before_else = s.stack]
    IN CASE directive = "if" ->
              [s EXCEPT !.pp_stack = Append(@, PreprocessorInfo(s.stack))]
         [] directive = "else" /\ s.pp_stack # <<>> ->
              [s EXCEPT !.pp_stack = SetTop(@, taken), !.stack = top.stack_before_if]
         [] directive = "endif" /\ s.pp_stack # <<>> ->
              [s EXCEPT !.pp_stack = Front(@),
                        !.stack = IF top.seen_else THEN top.stack_before_else ELSE @]
         [] OTHER -> s

UpdatePreprocessor(s, line) ==
    LET directive == Directive(line)
        top == Last(s.pp_stack)
        taken == IF top.seen_else THEN top
                 ELSE [top EXCEPT !.seen_else = TRUE, !.stack_before_else = s.stack]
    IN CASE directive = "if" ->
              [s EXCEPT !.pp_stack = Append(@, PreprocessorInfo(s.stack))]
         [] directive = "else" /\ s.pp_stack # <<>> ->
              [s EXCEPT !.pp_stack = SetTop(@, taken), !.stack = top.stack_before_if]
         [] directive = "endif" /\ s.pp_stack # <<>> ->
              [s EXCEPT !.pp_stack = Front(@),
                        !.stack = IF top.seen_else THEN top.stack_before_else ELSE @]
         [] OTHER -> s

-----------------------------------------------------------------------------
(* One line of code.                                                       *)

\* asm { or asm (
MatchAsm(line) == LET l == Lstrip(line) IN Len(l) >= 2 /\ l[1] = "asm" /\ l[2] \in {"{", "("}

CountParentheses(stack, line) ==
    IF stack = <<>> THEN stack
    ELSE LET change == Count(line, "(") - Count(line, ")")
             top == [Last(stack) EXCEPT !.open_parentheses = @ + change]
             asm == IF top.inline_asm \in {NO_ASM, END_ASM}
                    THEN IF change # 0 /\ top.open_parentheses = 1 /\ MatchAsm(line) THEN INSIDE_ASM ELSE NO_ASM
                    ELSE IF top.inline_asm = INSIDE_ASM /\ top.open_parentheses = 0 THEN END_ASM
                    ELSE top.inline_asm
         IN SetTop(stack, [top EXCEPT !.inline_asm = asm])

\* The namespaces declared at the start of a line, and the rest of the line.
NextNamespace(s) ==
    LET l == Lstrip(s.rest)
        named == Len(l) > 1 /\ IsWord(l[2])
        tail == From(l, IF named THEN 3 ELSE 2)
        brace == Find(tail, <<"{">>, 1)
    IN IF l = <<>> \/ Head(l) # "namespace" THEN s
       ELSE [opened |-> Append(s.opened, [name |-> IF named THEN l[2] ELSE "", seen |-> brace # 0]),
             rest |-> From(tail, brace + 1)]
Namespaces(line) == FoldLeft(LAMBDA s, t : NextNamespace(s), [opened |-> <<>>, rest |-> line], line)

PushNamespaces(stack, opened, n) ==
    stack \o [i \in DOMAIN opened |->
                 [BlockInfo("namespace", n, opened[i].seen) EXCEPT !.name = opened[i].name]]

\* Where the name ends in a class declaration that starts the line, with or
\* without template<...>; 0 if none does.
ClassName(line) ==
    LET is(i) == i + 1 <= Len(line) /\ line[i] \in {"class", "struct"} /\ IsWord(line[i + 1])
        start == Indent(line) + 1
        inner == {">", "<", ",", ":", "=", " "}
        ends == {j \in start + 2..Len(line) :
                    /\ StandsAt(line, <<"template", "<">>, start)
                    /\ line[j] = ">" /\ is(j + 1)
                    /\ \A k \in start + 2..j : line[k] \in inner \/ IsWord(line[k])}
    IN IF is(start) THEN start + 1 ELSE IF ends # {} THEN Max(ends) + 2 ELSE 0

\* InTemplateArgumentList
InTemplateArguments(elided, linenum, pos) ==
    LET stops == {"{", "}", ";", "=", "[", "]", ".", "<", ">"}
        scan[l \in Nat, p \in Nat] ==
            LET i == SelectInSubSeq(elided[l], p, Len(elided[l]), LAMBDA t : t \in stops)
                close == CloseExpression(elided, l, i)
            IN IF l > Len(elided) THEN FALSE
               ELSE IF i = 0 THEN scan[l + 1, 1]
               ELSE IF elided[l][i] \in {"{", "}", ";"} THEN FALSE
               ELSE IF elided[l][i] # "<" THEN TRUE
               ELSE close # NotFound /\ scan[close.line, close.at + 1]
    IN scan[linenum, pos]

\* The class declaration, if there is one that is no template argument.
PushClass(stack, line, clean, n) ==
    LET end == ClassName(line)
        free == stack = <<>> \/ Last(stack).open_parentheses = 0
    IN IF end = 0 \/ ~free \/ InTemplateArguments(clean.elided, n, end + 1)
       THEN [stack |-> stack, rest |-> line]
       ELSE [stack |-> Append(stack, [BlockInfo("class", n, FALSE) EXCEPT
                          !.name = line[end], !.class_indent = Indent(clean.raw_lines[n])]),
             rest |-> From(line, end + 1)]

\* public: with blanks only before it, not one blank right of its class.
AccessErrors(stack, line, n) ==
    LET k == Indent(line)
    IN IF /\ TopKind(stack) = "class"
          /\ k + 2 <= Len(line) /\ line[k + 1] = "public" /\ line[k + 2] = ":"
          /\ k + 3 <= Len(line) => line[k + 3] # ":"
          /\ k # Last(stack).class_indent + 1
       THEN <<Report(n, "whitespace/indent", 3)>> ELSE <<>>

-----------------------------------------------------------------------------
(* Ends of blocks.                                                         *)

\* } // namespace, } // namespace a, or the same with other words.
EndComment(line) ==
    LET l == Lstrip(line)
        slashes == SelectInSeq(l, LAMBDA t : t \in {"//", "/*"})
        at == Find(l, <<"namespace">>, slashes + 1)
        tail == SelectSeq(From(l, at + 1), LAMBDA t : t \notin {"*/", " "})
    IN IF \/ l = <<>> \/ slashes < 2
          \/ Head(l) # "}" \/ \E i \in 2..slashes - 1 : l[i] \notin {";", " "}
          \/ at = 0
       THEN [found |-> FALSE, names |-> <<>>] ELSE [found |-> TRUE, names |-> tail]

NamespaceEnd(block, clean, n) ==
    LET comment == EndComment(clean.raw_lines[n])
        right == comment.found /\ comment.names = IF block.name = "" THEN <<>> ELSE <<block.name>>
    IN IF n - block.starting_linenum < NamespaceLines /\ ~comment.found THEN <<>>
       ELSE IF right THEN <<>> ELSE <<Report(n, "readability/namespace", 5)>>

\* A DISALLOW macro before other lines of the class, and a closing brace that
\* is not below the class.
ClassEnd(block, clean, n) ==
    LET inside == block.starting_linenum + 1..n - 1
        disallow == {i \in inside : Find(clean.elided[i], <<"DISALLOW", "(", block.name, ")">>, 1) # 0}
        last == Max(disallow)
        line == clean.elided[n]
        brace == Indent(line) < Len(line) /\ line[Indent(line) + 1] = "}"
    IN (IF disallow # {} /\ \E i \in last + 1..n - 1 : ~IsBlank(clean.elided[i])
        THEN <<Report(last, "readability/constructors", 3)>> ELSE <<>>)
       \o (IF brace /\ Indent(line) # block.class_indent
           THEN <<Report(n, "whitespace/indent", 3)>> ELSE <<>>)

CheckEnd(block, clean, n) ==
    CASE block.kind = "namespace" -> NamespaceEnd(block, clean, n)
      [] block.kind = "class" -> ClassEnd(block, clean, n)
      [] OTHER -> <<>>

\* The loop over the braces, semicolons and parentheses of a line.
ConsumeBrace(acc, i, line, clean, n) ==
    LET matched == SubSeq(line, acc.from, i)
        next(s, errors) == [stack |-> s, from |-> i + 1, errors |-> acc.errors \o errors]
        asm == IF MatchAsm(From(line, acc.from)) THEN BLOCK_ASM ELSE NO_ASM
    IN CASE line[i] = "{" /\ ~SeenOpenBrace(acc.stack) ->
              next(SetTop(acc.stack, [Last(acc.stack) EXCEPT !.seen_open_brace = TRUE]), <<>>)
         [] line[i] = "{" /\ SeenOpenBrace(acc.stack) ->
              next(Append(acc.stack,
                          IF matched = <<"extern", Q, Q, "{">> THEN BlockInfo("externC", n, TRUE)
                          ELSE [BlockInfo("block", n, TRUE) EXCEPT !.inline_asm = asm]), <<>>)
         [] line[i] \in {";", ")"} ->
              next(IF SeenOpenBrace(acc.stack) THEN acc.stack ELSE Front(acc.stack), <<>>)
         [] line[i] = "}" /\ acc.stack # <<>> ->
              next(Front(acc.stack), CheckEnd(Last(acc.stack), clean, n))
         [] line[i] = "}" /\ acc.stack = <<>> -> next(acc.stack, <<>>)
         [] OTHER -> acc

ConsumeBraces(stack, line, clean, n) ==
    FoldLeftDomain(LAMBDA acc, i : ConsumeBrace(acc, i, line, clean, n),
                   [stack |-> stack, from |-> 1, errors |-> <<>>], line)

\* Update in its parts: preprocessor lines, declarations, braces.
UpdateBraces(s, class, clean, n) ==
    LET braces == ConsumeBraces(class.stack, class.rest, clean, n)
    IN [nesting |-> [s EXCEPT !.stack = braces.stack],
        errors |-> AccessErrors(class.stack, class.rest, n) \o braces.errors]

UpdateBlocks(s, line, namespaces, clean, n) ==
    UpdateBraces(s, PushClass(PushNamespaces(CountParentheses(s.stack, line), namespaces.opened, n),
                              namespaces.rest, clean, n),
                 clean, n)

Top(stack) == IF stack = <<>> THEN NoTop ELSE [depth |-> Len(stack), block |-> Last(stack)]

\* The new state and the errors.
Update(s, clean, n) ==
    LET line == clean.elided[n]
    IN UpdateBlocks(UpdatePreprocessor([s EXCEPT !.previous_stack_top = Top(s.stack)], line),
                    line, Namespaces(line), clean, n)

WithIncomplete(errors, block) ==
    CASE block.kind = "class" -> Append(errors, Report(block.starting_linenum, "build/class", 5))
      [] block.kind = "namespace" -> Append(errors, Report(block.starting_linenum, "build/namespaces", 5))
      [] OTHER -> errors
CheckCompletedBlocks(s) == FoldLeft(WithIncomplete, <<>>, s.stack)

-----------------------------------------------------------------------------
(* Indentation within a namespace.                                         *)

ChecksIndentation(block) == block.kind \in {"class", "namespace"}

IsForwardClassDeclaration(line) ==
    LET l == Rstrip(line)
        k == Len(l)
    IN k >= 3 /\ l[k] = ";" /\ IsWord(l[k - 1]) /\ l[k - 2] = "class"

IsMacroDefinition(elided, n) ==
    \/ elided[n] # <<>> /\ Head(elided[n]) = "#define"
    \/ n > 1 /\ elided[n - 1] # <<>> /\ Last(elided[n - 1]) = "\\"

\* The block on top was opened on this line, in the namespace that was on top.
\* #else and #endif put copies of the blocks in their place.
IsNamespaceIndentItem(s, line) ==
    LET depth == Len(s.stack)
        top == s.previous_stack_top
    IN /\ depth > 1 /\ ChecksIndentation(Last(s.stack))
       /\ top.block.kind = "namespace" /\ top.depth = depth - 1
       /\ top.block.starting_linenum = s.stack[depth - 1].starting_linenum
       /\ Directive(line) = "none"

IsBlockInNameSpace(s, forward) ==
    LET depth == Len(s.stack)
    IN IF forward THEN TopKind(s.stack) = "namespace"
       ELSE depth > 1 /\ ChecksIndentation(Last(s.stack)) /\ s.stack[depth - 1].kind = "namespace"

CheckForNamespaceIndentation(s, elided, n) ==
    LET forward == IsForwardClassDeclaration(elided[n])
    IN IF /\ IsNamespaceIndentItem(s, elided[n]) \/ forward
          /\ ~IsMacroDefinition(elided, n)
          /\ IsBlockInNameSpace(s, forward)
          /\ Indent(elided[n]) > 0
       THEN <<Report(n, "runtime/indentation_namespace", 4)>> ELSE <<>>
=============================================================================
