----------------------------- MODULE LintChecks -----------------------------
(* What ProcessFileData of .linters/cpp/cpplint.py does with one file:       *)
(* before its lines, with each line in turn, and after them. The checks that *)
(* match a regular expression within one line are represented by those of    *)
(* CheckStyle for tabs, blanks and length and by the one for C types.        *)
(*                                                                         *)
(* A file is the record f: lines, what it has after the line before n (clean, *)
(* judge, include, function, nesting), and info, which is about its path:     *)
(*   dir, base, ext, stem, first   as of a header in LintIncludes             *)
(*   test                          a name of a test                          *)
(*   own                           the headers of its name that exist        *)
(*   guards                        from a root to its header guard           *)
EXTENDS LintNesting, LintIncludes, LintFunctions

Words(line) == SelectSeq(line, LAMBDA t : t # " ")

-----------------------------------------------------------------------------
(* Before the lines.                                                        *)

CheckForCopyright(j, o, lines) ==
    IF \E i \in 1..10 \cap DOMAIN lines : Find(lines[i], <<"Copyright">>, 1) # 0 THEN j
    ELSE Error(j, o, Report(0, "legal/copyright", 5))

\* An unfinished comment is reported one line below its first.
CommentErrors(removed) ==
    IF removed.open = 0 THEN <<>> ELSE <<Report(removed.open + 1, "readability/multiline_comment", 5)>>

Guard(info, o) == info.guards[o.root]
Deprecated(guard) == guard \o "_"

\* The first line whose first word is the directive and which has a second; 0 if none.
FirstDirective(lines, directive) ==
    SelectInSeq(lines, LAMBDA l : Len(Words(l)) >= 2 /\ Words(l)[1] = directive)

GuardReport(n, confidence) == Report(n, "build/header_guard", confidence)

\* The comment after the last #endif.
EndifErrors(j, o, lines, guard) ==
    LET n == SelectLastInSeq(lines, LAMBDA l : l # <<>> /\ Head(l) = "#endif")
        words == IF n = 0 THEN <<>> ELSE Words(lines[n])
        says(name) ==
            \/ IsPrefix(<<"#endif", "//", name>>, words)
            \/ /\ IsPrefix(<<"#endif", "/*", name, "*/">>, words)
               /\ \A i \in DOMAIN lines : ~InLineComment(lines[i])
        nolint == IF n = 0 THEN j ELSE ParseNolintSuppressions(j, o, lines[n], n)
    IN CASE says(guard) -> nolint
         [] ~says(guard) /\ says(Deprecated(guard)) -> Error(nolint, o, GuardReport(n, 0))
         [] OTHER -> Error(nolint, o, GuardReport(n, 5))

CheckForHeaderGuard(j, o, info, lines) ==
    LET guard == Guard(info, o)
        ifndef == FirstDirective(lines, "#ifndef")
        define == FirstDirective(lines, "#define")
        name == Words(lines[ifndef])[2]
        nolint == ParseNolintSuppressions(j, o, lines[ifndef], ifndef)
    IN IF \E i \in DOMAIN lines :
              \/ Find(Words(lines[i]), <<"//", "NOLINT", "(", "build/header_guard", ")">>, 1) # 0
              \/ IsPrefix(<<"#pragma", "once">>, Words(lines[i]))
       THEN j
       ELSE IF ifndef = 0 \/ define = 0 THEN Error(j, o, GuardReport(0, 5))
       ELSE IF name # Words(lines[define])[2] THEN Error(j, o, GuardReport(0, 5))
       ELSE IF name = guard THEN EndifErrors(j, o, lines, guard)
       ELSE EndifErrors(Error(nolint, o, GuardReport(ifndef, IF name = Deprecated(guard) THEN 0 ELSE 5)),
                        o, lines, guard)

WithoutReturns(lines) ==
    [i \in DOMAIN lines |->
        IF i = Len(lines) THEN lines[i]
        ELSE SubSeq(lines[i], 1, SelectLastInSeq(lines[i], LAMBDA t : t # "\r"))]

Guarded(j, o, info, clean) ==
    IF info.ext \in GetHeaderExtensions(o) THEN CheckForHeaderGuard(j, o, info, clean.lines_without_raw_strings)
    ELSE j

FileOf(o, info, lines, judge, clean) ==
    [info |-> info, lines |-> lines, n |-> 1, clean |-> clean, judge |-> Guarded(judge, o, info, clean),
     include |-> IncludeState, function |-> FunctionState, nesting |-> NestingState]

PreparedText(o, info, lines, text, removed) ==
    FileOf(o, info, lines,
           Errors(ProcessGlobalSuppresions(CheckForCopyright(NoErrors, o, text), text), o, CommentErrors(removed)),
           CleansedLines(removed.lines))

\* The file as it is when its first line is about to be processed.
Prepared(o, info, lines) ==
    LET text == WithoutReturns(lines)
    IN PreparedText(o, info, lines, text, RemoveMultiLineComments(text))

-----------------------------------------------------------------------------
(* A line.                                                                  *)

CheckForMultilineCommentsAndStrings(line, n) ==
    (IF Count(line, "/*") > Count(line, "*/") THEN <<Report(n, "readability/multiline_comment", 5)>> ELSE <<>>)
    \o (IF Count(line, Q) % 2 = 1 THEN <<Report(n, "readability/multiline_string", 5)>> ELSE <<>>)

Label(line) == LET w == Words(line) IN Len(w) = 2 /\ IsWord(w[1]) /\ w[2] = ":"

MayBeLong(line, guard) ==
    LET w == Words(line)
    IN \/ line # <<>> /\ Head(line) = "#include"
       \/ \E directive \in {"#ifndef", "#define"} : IsPrefix(<<directive, guard>>, line)
       \/ IsPrefix(<<"#endif", " ", " ", "//", " ", guard>>, line)
       \/ w # <<>> /\ Head(w) = "//" /\ " " \notin ToSet(From(line, Find(line, <<w[Min({2, Len(w)})]>>, 1)))

CheckStyle(f, o) ==
    LET n == f.n
        raw == f.clean.lines_without_raw_strings
        line == raw[n]
        prev == IF n > 1 THEN Rstrip(raw[n - 1]) ELSE <<>>
        guard == IF f.info.ext \in GetHeaderExtensions(o) THEN Guard(f.info, o) ELSE ""
        in_raw_string == f.clean.raw_lines[n] # line /\ IsPrefix(<<Q, Q>>, Lstrip(line))
        error(condition, category, confidence) == IF condition THEN <<Report(n, category, confidence)>> ELSE <<>>
    IN error("\t" \in ToSet(line), "whitespace/tab", 1)
       \o error(/\ ~(prev # <<>> /\ Last(prev) \in {Q, "=", ">", "<"})
             /\ Indent(line) \in {1, 3} /\ ~Label(f.clean.elided[n]) /\ ~in_raw_string,
             "whitespace/indent", 3)
       \o error(line # <<>> /\ Last(line) \in {" ", "\t", "\r"}, "whitespace/end_of_line", 4)
       \o error(~MayBeLong(line, guard) /\ Len(line) > o.line_length, "whitespace/line_length", 2)

\* CheckLanguage: the new state of the includes, and the errors.
CheckLanguage(f, o) ==
    LET line == f.clean.elided[f.n]
        directive == Directive(line)
    IN IF line = <<>> THEN [state |-> f.include, errors |-> <<>>]
       ELSE IF IsInclude(line) THEN CheckIncludeLine(f.include, f.info, Extensions(o), f.clean, f.n)
       ELSE [state |-> IF directive = "none" THEN f.include ELSE ResetSection(f.include, directive),
             errors |-> IF {"short", "long"} \cap ToSet(line) = {} THEN <<>>
                        ELSE <<Report(f.n, "runtime/int", 4)>>]

FlagCxx11Features(line, n) ==
    IF IsInclude(line) THEN (IF Headers[Lstrip(line)[3]].cxx11 THEN <<Report(n, "build/c++11", 5)>> ELSE <<>>)
    ELSE <<>>

\* The checks of a line outside of an asm block.
CheckedLine(f, o, judge, function, language) ==
    [f EXCEPT !.function = function.state, !.include = language.state,
              !.judge = Errors(judge, o, function.errors
                                         \o CheckForMultilineCommentsAndStrings(f.clean.elided[f.n], f.n)
                                         \o CheckStyle(f, o) \o language.errors)]

\* After NOLINT comments and nesting have been read.
NestedLine(f, o, judge, update) ==
    LET indented == CheckForNamespaceIndentation(update.nesting, f.clean.elided, f.n)
        blocks == Errors(judge, o, update.errors \o indented)
    IN IF InAsmBlock(update.nesting) THEN [f EXCEPT !.nesting = update.nesting, !.judge = blocks]
       ELSE CheckedLine([f EXCEPT !.nesting = update.nesting], o, blocks,
                        CheckForFunctionLengths(f.function, f.clean.lines, o.verbose_level, f.n),
                        CheckLanguage(f, o))

\* ProcessLine and FlagCxx11Features, for the line n of f.
ProcessedLine(f, o) ==
    LET nolint == ParseNolintSuppressions(f.judge, o, f.clean.raw_lines[f.n], f.n)
        processed == NestedLine(f, o, nolint, Update(f.nesting, f.clean, f.n))
    IN [processed EXCEPT !.n = @ + 1,
                         !.judge = Errors(@, o, FlagCxx11Features(f.clean.elided[f.n], f.n))]

-----------------------------------------------------------------------------
(* After the lines.                                                         *)

CheckForBadCharacters(lines) ==
    LET bad == Without([i \in DOMAIN lines |-> i], {i \in DOMAIN lines : "NUL" \notin ToSet(lines[i])})
    IN [k \in DOMAIN bad |-> Report(bad[k], "readability/nul", 5)]

CheckForNewlineAtEOF(lines) ==
    IF Last(lines) = <<>> THEN <<>> ELSE <<Report(Len(lines), "whitespace/ending_newline", 5)>>

\* Carriage returns at the ends of some lines only.
MixedNewlines(lines) ==
    LET ended == [i \in 1..Len(lines) - 1 |-> i]
        crlf == Without(ended, {i \in DOMAIN lines : lines[i] = <<>> \/ Last(lines[i]) # "\r"})
    IN IF Len(crlf) = Len(ended) THEN <<>>
       ELSE [k \in DOMAIN crlf |-> Report(crlf[k], "whitespace/newline", 1)]

Finished(f, o) ==
    LET exts == Extensions(o)
        source == f.info.ext \in exts.all \ exts.header
    IN Errors(f.judge, o,
              CheckCompletedBlocks(f.nesting)
              \o CheckForIncludeWhatYouUse(f.include, f.info, exts, f.clean.elided)
              \o (IF source THEN CheckHeaderFileIncluded(f.include, f.info) ELSE <<>>)
              \o CheckForBadCharacters(f.clean.raw_lines) \o CheckForNewlineAtEOF(f.clean.raw_lines)
              \o MixedNewlines(f.lines))
=============================================================================
