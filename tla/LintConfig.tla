----------------------------- MODULE LintConfig -----------------------------
(* The settings of .linters/cpp/cpplint.py, which are globals of the program *)
(* and outlive the file they were read for, and what decides whether an      *)
(* error is printed: the filters, the verbosity, the NOLINT comments.        *)
EXTENDS LintText

CONSTANT LineLength     \* the default of _line_length, in tokens

(* A path is a sequence of names. A tree is a record:                        *)
(*   config      from a directory to the lines of its CPPLINT.cfg, records   *)
(*               [name, val]; unreadable: the paths that cannot be opened    *)
(* A filter is [sign, category]; a sign that is neither + nor - is an error. *)
Filter(sign, category) == [sign |-> sign, category |-> category]
DefaultFilters == <<Filter("-", "build/include_alpha")>>

Options == [filters |-> DefaultFilters, filters_backup |-> DefaultFilters, verbose_level |-> 1,
            line_length |-> LineLength, valid_extensions |-> {}, hpp_headers |-> {}, root |-> <<>>]

Malformed(filters) == \E i \in DOMAIN filters : filters[i].sign \notin {"+", "-"}
BackupFilters(o) == [o EXCEPT !.filters_backup = o.filters]
RestoreFilters(o) == [o EXCEPT !.filters = o.filters_backup]

HasH == {"h", "hh", "hpp", "hxx", "h++", "cuh"}
GetHeaderExtensions(o) ==
    IF o.hpp_headers # {} THEN o.hpp_headers
    ELSE IF o.valid_extensions # {} THEN o.valid_extensions \cap HasH ELSE HasH
GetAllExtensions(o) ==
    GetHeaderExtensions(o) \cup
    IF o.valid_extensions # {} THEN o.valid_extensions ELSE {"c", "cc", "cpp", "cxx", "c++", "cu"}
\* first: the one that a loop over the set of headers comes to first.
Extensions(o) == [header |-> GetHeaderExtensions(o), all |-> GetAllExtensions(o),
                  first |-> CHOOSE ext \in GetHeaderExtensions(o) : TRUE]

\* A line of a configuration, or an option of the command line, that sets a global.
Set(o, line) ==
    CASE line.name = "linelength" -> [o EXCEPT !.line_length = line.val]
      [] line.name = "extensions" -> [o EXCEPT !.valid_extensions = line.val]
      [] line.name = "headers" -> [o EXCEPT !.hpp_headers = line.val]
      [] line.name = "root" -> [o EXCEPT !.root = line.val]
      [] line.name = "verbose" -> [o EXCEPT !.verbose_level = line.val]
      [] OTHER -> o

-----------------------------------------------------------------------------
(* ProcessConfigOverrides                                                   *)

\* One line of the CPPLINT.cfg of dir, where base is what is judged below dir.
\* A root is meant from the directory of the file.
ConfigLine(acc, line, dir, base) ==
    CASE acc.excluded -> acc
      [] ~acc.excluded /\ line.name = "set noparent" -> [acc EXCEPT !.keep_looking = FALSE]
      [] ~acc.excluded /\ line.name = "filter" -> [acc EXCEPT !.cfg_filters = Append(@, line.val)]
      [] ~acc.excluded /\ line.name = "exclude_files" -> [acc EXCEPT !.excluded = base \in line.val]
      [] ~acc.excluded /\ line.name = "root" -> [acc EXCEPT !.opts = Set(@, [line EXCEPT !.val = dir \o @])]
      [] OTHER -> [acc EXCEPT !.opts = Set(@, line)]

\* The CPPLINT.cfg of dir, if it is read.
ConfigOf(acc, tree, dir, base) ==
    IF ~acc.keep_looking \/ acc.excluded \/ dir \notin DOMAIN tree.config THEN acc
    ELSE IF dir \in tree.unreadable THEN [acc EXCEPT !.keep_looking = FALSE]
    ELSE FoldLeft(LAMBDA a, line : ConfigLine(a, line, dir, base), acc, tree.config[dir])

\* The directories from the file's own up to the first.
ProcessConfigOverrides(o, tree, path) ==
    LET read == FoldLeftDomain(LAMBDA acc, i : ConfigOf(acc, tree, SubSeq(path, 1, Len(path) - i),
                                                        path[Len(path) - i + 1]),
                               [opts |-> o, keep_looking |-> TRUE, cfg_filters |-> <<>>, excluded |-> FALSE],
                               path)
        added == FlattenSeq(Reverse(read.cfg_filters))
    IN [excluded |-> read.excluded, malformed |-> ~read.excluded /\ Malformed(added),
        opts |-> IF read.excluded THEN read.opts ELSE [read.opts EXCEPT !.filters = @ \o added]]

-----------------------------------------------------------------------------
(* The errors of a file: found is every call of error(), printed what was    *)
(* shown and counted; suppressed are the pairs of a category ("*" for all)   *)
(* and a line, everywhere the categories suppressed on every line.           *)

NoErrors == [suppressed |-> {}, everywhere |-> {}, found |-> <<>>, printed |-> <<>>]

Report(n, category, confidence) == [line |-> n, category |-> category, confidence |-> confidence]

\* category.startswith(prefix)
StartsWith(category, prefix) ==
    \/ prefix \in {"", category}
    \/ prefix = "build/include" /\ category \in {"build/include_alpha", "build/include_order",
                                                 "build/include_subdir", "build/include_what_you_use"}
    \/ prefix = "whitespace" /\ category \in {"whitespace/tab", "whitespace/indent", "whitespace/end_of_line",
                                              "whitespace/line_length", "whitespace/newline",
                                              "whitespace/ending_newline"}

IsFilteredByAny(filters, category) ==
    \E i \in DOMAIN filters : filters[i].sign = "-" /\ StartsWith(category, filters[i].category)

IsFiltered(filters, category) ==
    FoldLeft(LAMBDA is, f : IF StartsWith(category, f.category) THEN f.sign = "-" ELSE is, FALSE, filters)

IsErrorSuppressedByNolint(j, e) ==
    e.category \in j.everywhere \/ {<<e.category, e.line>>, <<"*", e.line>>} \cap j.suppressed # {}

ShouldPrintError(j, o, e) ==
    /\ ~IsErrorSuppressedByNolint(j, e)
    /\ e.confidence >= o.verbose_level
    /\ ~IsFiltered(o.filters, e.category)

Error(j, o, e) ==
    [j EXCEPT !.found = Append(@, e), !.printed = IF ShouldPrintError(j, o, e) THEN Append(@, e) ELSE @]
Errors(j, o, errors) == FoldLeft(LAMBDA k, e : Error(k, o, e), j, errors)

\* ParseNolintSuppressions: NOLINT, NOLINT(*), NOLINT(category), and NOLINTNEXTLINE.
Categories == {"build/c++11", "build/class", "build/header_guard", "build/include", "build/include_alpha",
               "build/include_order", "build/include_subdir", "build/include_what_you_use",
               "build/namespaces", "legal/copyright", "readability/constructors", "readability/fn_size",
               "readability/multiline_comment", "readability/multiline_string", "readability/namespace",
               "readability/nolint", "readability/nul", "runtime/indentation_namespace", "runtime/int",
               "whitespace/end_of_line", "whitespace/ending_newline", "whitespace/indent",
               "whitespace/line_length", "whitespace/newline", "whitespace/tab"}
LegacyCategories == {"readability/streams"}

ParseNolintSuppressions(j, o, line, n) ==
    LET i == SelectInSeq(line, LAMBDA t : t \in {"NOLINT", "NOLINTNEXTLINE"})
        suppressed_line == IF line[i] = "NOLINT" THEN n ELSE n + 1
        named == i + 3 <= Len(line) /\ line[i + 1] = "(" /\ line[i + 3] = ")"
        category == IF named THEN line[i + 2] ELSE "*"
    IN IF i = 0 THEN j
       ELSE IF category \in Categories \cup {"*"}
       THEN [j EXCEPT !.suppressed = @ \cup {<<category, suppressed_line>>}]
       ELSE IF category \in LegacyCategories THEN j
       ELSE Error(j, o, Report(n, "readability/nolint", 5))

\* ProcessGlobalSuppresions; what LINT_C_FILE suppresses is a check left out here.
ProcessGlobalSuppresions(j, lines) ==
    IF \E i \in DOMAIN lines : Find(lines[i], <<"LINT_KERNEL_FILE">>, 1) # 0
    THEN [j EXCEPT !.everywhere = @ \cup {"whitespace/tab"}] ELSE j
=============================================================================
