---------------------------- MODULE LintProperties ----------------------------
(* What a run of the linter should do, said without its regular expressions, *)
(* line by line state and globals.                                          *)
EXTENDS LintRun

-----------------------------------------------------------------------------
(* The run.                                                                 *)

NewlyJudged == pc = "main" /\ judged # <<>> /\ Last(judged).outcome = "judged"

\* What the configurations make of a file, and its settings, if it were the
\* only one.
OwnConfig(path) ==
    ProcessConfigOverrides(BackupFilters([FoldLeft(Set, Options, command.settings) EXCEPT
                                             !.filters = DefaultFilters \o command.filters]),
                           World, path)
OwnOptions(path) == OwnConfig(path).opts

ProcessedLines(f, o, lines) == FoldLeft(LAMBDA g, line : ProcessedLine(g, o), f, lines)
AloneJudge(o, path, lines) == Finished(ProcessedLines(Prepared(o, World.info[path], lines), o, lines), o)

\* The other settings of a CPPLINT.cfg, linelength among them, are globals that
\* stay for the files after.
OnlyFilters ==
    \A w \in DOMAIN Worlds : \A dir \in DOMAIN Worlds[w].config : \A i \in DOMAIN Worlds[w].config[dir] :
        Worlds[w].config[dir][i].name \in {"set noparent", "filter", "exclude_files"}

\* What is said of a file does not depend on the files before it: no filter,
\* suppression or other state of one of them is left, however it ended, where
\* OnlyFilters holds.
JudgedAlone ==
    NewlyJudged =>
        LET f == Last(judged)
        IN f.judge = AloneJudge(OwnOptions(f.name), f.name, f.lines)

\* The files that are to be judged: named, or below a directory that is named
\* and to be searched, of a known kind, and not excluded or unreadable.
Asked ==
    {f \in DOMAIN World.text :
        \E name \in ToSet(command.files) : f = name \/ (command.recursive /\ IsPrefix(name, f))}
Fits(f) == World.info[f].ext \in (IF World.hook = "none" THEN GetAllExtensions(OwnOptions(f)) ELSE HookExtensions)
NeverJudged(f) == f \in command.exclude \/ f \in World.unreadable \/ OwnConfig(f).excluded
HasJudged(f) == \E i \in DOMAIN judged : judged[i].name = f /\ judged[i].outcome = "judged"

Shown == \E i \in DOMAIN judged : judged[i].judge.printed # <<>>
CannotBeDone == World.hook = "unstaged" \/ ArgumentsWrong \/ queue # <<>>

\* A passing run, and a commit that passes, means that no error was shown and
\* that each file was judged or is one that is never judged; a failing one that
\* an error was shown or that the run could not be done.
AcceptedIsClean ==
    /\ pc = "exit" /\ status = 0 =>
          ~Shown /\ \A f \in Asked : Fits(f) /\ ~NeverJudged(f) => HasJudged(f)
    /\ pc = "exit" /\ status = 1 => Shown \/ CannotBeDone

\* The filters in force for a file, with what makes one stronger than another:
\* the configuration nearer to the file, the earlier of its lines (they are
\* applied in reverse), the later in a line.
Configures(path, k) ==
    /\ SubSeq(path, 1, k) \in DOMAIN World.config \ World.unreadable
    /\ \A m \in k + 1..Len(path) - 1 :
          LET dir == SubSeq(path, 1, m)
          IN dir \in DOMAIN World.config =>
                /\ dir \notin World.unreadable
                /\ \A i \in DOMAIN World.config[dir] : World.config[dir][i].name # "set noparent"
InForce(path) ==
    LET own == DefaultFilters \o command.filters
        lines(k) == World.config[SubSeq(path, 1, k)]
    IN {[depth |-> -1, line |-> 1, at |-> i, filter |-> own[i]] : i \in DOMAIN own}
       \cup UNION {UNION {{[depth |-> k, line |-> i, at |-> a, filter |-> lines(k)[i].val[a]] :
                              a \in DOMAIN lines(k)[i].val} :
                          i \in {l \in DOMAIN lines(k) : lines(k)[l].name = "filter"}} :
                   k \in {d \in 0..Len(path) - 1 : Configures(path, d)}}
Stronger(x, y) == \/ x.depth > y.depth
                  \/ x.depth = y.depth /\ x.line < y.line
                  \/ x.depth = y.depth /\ x.line = y.line /\ x.at >= y.at
Hidden(path, category) ==
    LET about == {x \in InForce(path) : StartsWith(category, x.filter.category)}
    IN \E x \in about : x.filter.sign = "-" /\ \A y \in about : Stronger(x, y)

\* A comment in the file itself speaks of the error. It is not heard by the
\* checks that are made before the lines are gone through.
Silenced(lines, e) ==
    LET says(i, word) ==
          LET at == SelectInSeq(lines[i], LAMBDA t : t \in {"NOLINT", "NOLINTNEXTLINE"})
          IN /\ at # 0 /\ lines[i][at] = word
             /\ at = Len(lines[i]) \/ lines[i][at + 1] # "(" \/ lines[i][at + 2] \in {"*", e.category}
        early == e.category = "readability/multiline_comment" /\ "/*" \notin ToSet(lines[e.line])
    IN \/ e.line \in DOMAIN lines /\ says(e.line, "NOLINT") /\ ~early
       \/ /\ e.line \in 2..Len(lines) /\ says(e.line - 1, "NOLINTNEXTLINE")
          /\ ~early /\ e.category # "build/header_guard"
       \/ e.category = "whitespace/tab" /\ \E i \in DOMAIN lines : "LINT_KERNEL_FILE" \in ToSet(lines[i])

Verbosity ==
    LET said == SelectSeq(command.settings, LAMBDA s : s.name = "verbose")
    IN IF said = <<>> THEN 1 ELSE Last(said).val

\* Of the errors found in a file those are shown that its NOLINT comments, the
\* filters from the command line and of the directories above it, the nearest
\* first, and the verbosity leave.
ShownAsAsked ==
    NewlyJudged =>
        LET f == Last(judged)
        IN f.judge.printed = SelectSeq(f.judge.found, LAMBDA e :
               ~Silenced(f.lines, e) /\ ~Hidden(f.name, e.category) /\ e.confidence >= Verbosity)

-----------------------------------------------------------------------------
(* Which lines of a file are compiled together.                             *)

\* For each line the groups of #if it is in, each with the number of its branch.
Groups(elided) ==
    LET step(acc, i) ==
          LET d == Directive(elided[i])
              top == Last(acc.open)
              open == CASE d = "if" -> Append(acc.open, [start |-> i, branch |-> 1])
                        [] d = "else" /\ acc.open # <<>> -> SetTop(acc.open, [top EXCEPT !.branch = @ + 1])
                        [] d = "endif" /\ acc.open # <<>> -> Front(acc.open)
                        [] OTHER -> acc.open
          IN [open |-> open, groups |-> Append(acc.groups, ToSet(open))]
    IN FoldLeftDomain(step, [open |-> <<>>, groups |-> <<>>], elided).groups

\* Line i counts at line n: of the groups n is in, i is in none or in the branch
\* of n; of the others, in none or in the first branch.
Counts(groups, i, n) ==
    \A g \in groups[i] :
        \/ g \in groups[n]
        \/ g.branch = 1 /\ \A h \in groups[n] : h.start # g.start

\* The text up to line n that counts at n, token by token.
Text(groups, elided, n) ==
    LET kept == SelectSeq([i \in 1..n |-> i], LAMBDA i : Counts(groups, i, n) /\ Directive(elided[i]) = "none")
    IN FlattenSeq([k \in DOMAIN kept |->
          LET words == Words(elided[kept[k]])
          IN [j \in DOMAIN words |-> [t |-> words[j], line |-> kept[k]]]])

\* What is declared is defined or only declared.
Declared(text) ==
    \A i \in DOMAIN text :
        text[i].t \in {"namespace", "class", "struct"} /\ i + 2 <= Len(text) => text[i + 2].t \in {"{", ";", ":", ">"}

Number(text, t, p, q) == Cardinality({i \in p..q : text[i].t = t})

\* The braces of a text that are open at its end, and what each of them opens.
OpenBraces(text) ==
    SelectSeq([i \in DOMAIN text |-> i], LAMBDA p :
        text[p].t = "{" /\ \A q \in p..Len(text) : Number(text, "{", p, q) > Number(text, "}", p, q))
Opens1(text, p) ==
    LET stops == {i \in 1..p - 1 : text[i].t \in {"{", "}", ";", ")"}}
        words == {text[i].t : i \in (IF stops = {} THEN 1 ELSE Max(stops) + 1)..p}
    IN CASE "namespace" \in words -> "namespace"
         [] "namespace" \notin words /\ {"class", "struct"} \cap words # {} -> "class"
         [] OTHER -> "block"

AreBlocksOfBraces(blocks, text, braces) ==
    /\ Len(blocks) = Len(braces)
    /\ \A k \in DOMAIN blocks : /\ blocks[k].kind = Opens1(text, braces[k])
                                /\ blocks[k].starting_linenum <= text[braces[k]].line
AreBlocksOf(blocks, text) == Declared(text) => AreBlocksOfBraces(blocks, text, OpenBraces(text))

\* After every line the stack of blocks is that of the braces open in the text
\* that counts there, whatever the branches of #if before it closed or opened,
\* with a class or a namespace where one was declared.
NestingOfKeptText ==
    pc = "line" /\ file.n > 1 =>
        AreBlocksOf(SelectSeq(file.nesting.stack, LAMBDA b : b.seen_open_brace),
                    Text(Groups(file.clean.elided), file.clean.elided, file.n - 1))

-----------------------------------------------------------------------------
(* The order of includes.                                                   *)

IncludeLines(f) == {n \in DOMAIN f.clean.elided : IsInclude(f.clean.elided[n])}
HeaderAt(f, n) == Lstrip(f.clean.elided[n])[3]
KindAt(f, n) == ClassifyInclude(f.info, HeaderAt(f, n), Lstrip(f.clean.elided[n])[2] = "<")
\* No directive of #if between two lines.
SameRun(f, m, n) == \A i \in m..n : Directive(f.clean.elided[i]) = "none"
Mine(kind) == kind \in {"_LIKELY_MY_HEADER", "_POSSIBLE_MY_HEADER"}

\* The groups of #if that hold another one in a branch before their last:
\* ResetSection then forgets the includes of the wrong branch.
Nested(groups) ==
    \E i \in DOMAIN groups : \E g \in groups[i] : \E h \in groups[i] :
        h.start > g.start /\ \E j \in DOMAIN groups : \E k \in groups[j] : k.start = g.start /\ k.branch > g.branch

ErrorLines(errors, category) == {errors[i].line : i \in {j \in DOMAIN errors : errors[j].category = category}}

\* Among the includes between two directives of #if, exactly those are reported
\* as out of order that a header of a later section comes before: a C header
\* after one of C++ or of another project, a C++ header after one of another.
\* A header of one's own is never out of order but counts as one of another
\* project when it is not among the first. A header is reported as included
\* twice only if both includes can be compiled together, and is reported if the
\* earlier one stands at the later: no branch has begun in between that shuts it
\* out, and no #else outside of all groups. Files with a group inside a branch
\* that is not the last of its own (Nested) are left out of what is said of
\* headers included twice.
IncludeOrderExact ==
    pc = "line" /\ file.n > Len(file.lines) =>
        LET lines == IncludeLines(file)
            refused == ErrorLines(file.judge.found, "build/include")
            listed == lines \ refused
            duplicate == {n \in refused : Headers[HeaderAt(file, n)].ext # "cpp"}
            before(n) == {m \in listed : m < n /\ SameRun(file, m, n)}
            other(m) == \/ KindAt(file, m) = "_OTHER_HEADER"
                        \/ Mine(KindAt(file, m)) /\ \E l \in before(m) : ~Mine(KindAt(file, l))
            late(n) == \E m \in before(n) :
                          \/ KindAt(file, n) = "_C_SYS_HEADER" /\ (KindAt(file, m) = "_CPP_SYS_HEADER" \/ other(m))
                          \/ KindAt(file, n) = "_CPP_SYS_HEADER" /\ other(m)
            groups == Groups(file.clean.elided)
            earlier(n) == {m \in listed : m < n /\ HeaderAt(file, m) = HeaderAt(file, n)}
            stands(m, n) == \A i \in m..n :
                               /\ Directive(file.clean.elided[i]) = "else" => groups[i] # {}
                               /\ \A g \in groups[m], h \in groups[i] : h.start = g.start => h.branch = g.branch
        IN /\ ErrorLines(file.judge.found, "build/include_order") = {n \in listed : late(n)}
           /\ ~Nested(groups) =>
                 /\ \A n \in duplicate : \E m \in earlier(n) :
                       \A g \in groups[m], h \in groups[n] : g.start = h.start => g.branch = h.branch
                 /\ \A n \in lines : \A m \in earlier(n) : stands(m, n) => n \in refused

-----------------------------------------------------------------------------
(* Functions, brackets and comments.                                        *)

\* A function that no other one interrupts is shown to be too long, at the brace
\* that ends it, exactly when it has more lines of code than its limit, doubled
\* for each level of verbosity: the confidence of the report never hides it.
LongFunctionsReported ==
    LET lines == file.clean.lines
        begins(s) == /\ FunctionName(lines[s]) # "" /\ BodyLine(lines, s) # 0
                     /\ ~IsDeclaration(lines[BodyLine(lines, s)])
        code(s, e) == {i \in s + 1..e - 1 : ~IsBlank(lines[i]) /\ FunctionName(lines[i]) = ""}
        functions == {f \in (DOMAIN lines) \X (DOMAIN lines) :
                         /\ f[1] < f[2] /\ begins(f[1]) /\ Rstrip(lines[f[2]]) = <<"}">>
                         /\ \A i \in f[1] + 1..f[2] - 1 : ~begins(i) /\ Rstrip(lines[i]) # <<"}">>}
        limit(s) == IF FunctionName(lines[s]) = "TEST" THEN TestTrigger ELSE NormalTrigger
    IN pc = "line" /\ file.n > Len(file.lines) =>
          {e \in ErrorLines(file.judge.printed, "readability/fn_size") : Rstrip(lines[e]) = <<"}">>}
          = {f[2] : f \in {g \in functions : Cardinality(code(g[1], g[2])) > limit(g[1]) * 2^Verbosity}}

\* Looking for the end of a bracketed expression and back from it for its start
\* comes to the bracket one started from: to every ( [ {, whatever '<' and '>'
\* stand in between, and to every '<' that is not half of a shift, unless a word
\* operator or a " >= " is near, which the two searches read differently.
BracketsAgree ==
    pc = "line" /\ file.n = 1 =>
        LET elided == file.clean.elided
        IN \A n \in DOMAIN elided : \A p \in DOMAIN elided[n] :
              LET close == CloseExpression(elided, n, p)
                  plain(l) == \A i \in DOMAIN l : ~OperatorWord(l, i) /\ ~StandsAt(l, <<" ", ">", "=", " ">>, i)
                  angle == /\ elided[n][p] = "<" /\ ~Shift(elided[n], p)
                           /\ \A l \in n..close.line : plain(elided[l])
              IN close # NotFound /\ (elided[n][p] \in Opening \/ angle) =>
                    ReverseCloseExpression(elided, close.line, close.at) = [line |-> n, at |-> p]

\* A reader of C++ goes through the tokens of a file with one state for the
\* whole file. out is what is left, regular that nothing was met that is too
\* much for regular expressions: a quote in a comment, a comment over several
\* lines that does not begin or end its lines, a raw string that holds one.
Read(lines) ==
    LET line(acc, n) ==
          LET l == lines[n]
              put(a, ts) == [a EXCEPT !.out = @ \o ts]
              token(a, i) ==
                LET t == l[i]
                    delimiter == <<")">> \o SubSeq(l, i + 2, RawOpening(l, i) - 1) \o <<Q>>
                IN CASE i < a.from -> a
                     [] i >= a.from /\ a.mode = "code" ->
                          CASE t = "//" -> [a EXCEPT !.mode = "line"]
                            [] t = "/*" -> [a EXCEPT !.mode = "block", !.start = <<n, i>>]
                            [] t = Q -> put([a EXCEPT !.mode = "string"], <<Q, Q>>)
                            [] t = "'" /\ i > 1 /\ l[i - 1] = "1" -> a
                            [] t = "'" /\ ~(i > 1 /\ l[i - 1] = "1") ->
                                 put([a EXCEPT !.mode = "char"], <<"'", "'">>)
                            [] t = "R" /\ RawOpening(l, i) # 0 ->
                                 put([a EXCEPT !.mode = "raw", !.delimiter = delimiter, !.from = RawOpening(l, i) + 1],
                                     <<Q, Q>>)
                            [] OTHER -> put(a, <<t>>)
                     [] i >= a.from /\ a.mode = "block" ->
                          IF t = "*/"
                          THEN [a EXCEPT !.mode = "code",
                                   !.regular = @ /\ (a.start[1] # n => i = Len(Rstrip(l)))]
                          ELSE [a EXCEPT !.regular = @ /\ t # Q /\ t # "//"]
                     [] i >= a.from /\ a.mode = "string" ->
                          IF t = Q THEN [a EXCEPT !.mode = "code"] ELSE [a EXCEPT !.regular = @ /\ t # "R"]
                     [] i >= a.from /\ a.mode = "char" -> IF t = "'" THEN [a EXCEPT !.mode = "code"] ELSE a
                     [] i >= a.from /\ a.mode = "raw" ->
                          IF StandsAt(l, a.delimiter, i)
                          THEN [a EXCEPT !.mode = "code", !.from = i + Len(a.delimiter)]
                          ELSE [a EXCEPT !.regular = @ /\ t # "/*"]
                     [] OTHER -> a
              begun == [acc EXCEPT !.from = 1, !.out = IF acc.mode = "raw" THEN <<Q, Q>> ELSE <<>>]
              read == FoldLeftDomain(token, begun, l)
              fits == /\ read.mode \notin {"string", "char"}
                      /\ read.mode = "block" => read.start = <<n, Indent(l) + 1>> \/ read.start[1] < n
          IN [read EXCEPT !.mode = IF @ = "line" THEN "code" ELSE @, !.done = Append(@, read.out),
                          !.regular = @ /\ fits]
        end == FoldLeftDomain(line, [mode |-> "code", from |-> 1, start |-> <<0, 0>>, delimiter |-> <<>>,
                                     out |-> <<>>, done |-> <<>>, regular |-> TRUE], lines)
    IN [out |-> end.done, regular |-> end.regular /\ end.mode = "code"]

\* What the checks are made on, the elided lines, is the code of the file with
\* its strings but the names of headers emptied, and without its comments.
ElidedIsCode ==
    pc = "line" /\ file.n = 1 =>
        LET reading == Read(file.lines)
            text(line) == SelectSeq(line, LAMBDA t : t \notin {" ", "\r"})
        IN reading.regular =>
              \A n \in DOMAIN file.lines :
                 IsInclude(file.lines[n]) \/ text(file.clean.elided[n]) = text(reading.out[n])
=============================================================================
