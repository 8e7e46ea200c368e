---------------------------- MODULE LintIncludes ----------------------------
(* The includes of a file in .linters/cpp/cpplint.py: _IncludeState, the     *)
(* checks of an #include line, and the two checks of all includes at the end *)
(* of the file. A header is a token; what the program reads from its path    *)
(* or from the file it names is the table Headers. An answer is the new      *)
(* state and the errors.                                                     *)
EXTENDS LintText

(* Headers[h]:                                                              *)
(*   dir, base, ext   the path; stem: base without a common suffix           *)
(*   first            the first component of the base name                   *)
(*   standard         one of _CPP_HEADERS                                    *)
(*   third            matches _THIRD_PARTY_HEADERS_PATTERN                   *)
(*   rank             the place of its canonical path in the alphabet        *)
(*   includes         what it includes; exists: it can be opened             *)
CONSTANTS Headers,
          Required      \* from a template or type to the header it needs

NoRank == 0

INITIAL_SECTION == 0
MY_H_SECTION == 1
C_SECTION == 2
CPP_SECTION == 3
OTHER_H_SECTION == 4

IncludeState == [include_list |-> << <<>> >>, section |-> INITIAL_SECTION, last_header |-> NoRank]

IncludeReport(n, category) == <<[line |-> n, category |-> category, confidence |-> 4]>>

Listed(list) == UNION {ToSet(list[i]) : i \in DOMAIN list}
FindHeader(s, header) == \E f \in Listed(s.include_list) : f.header = header

-----------------------------------------------------------------------------
(* Preprocessor lines start the order, and the list of a branch, afresh.    *)

ResetSection(s, directive) ==
    [include_list |-> CASE directive = "if" -> Append(s.include_list, <<>>)
                        [] directive = "else" -> Append(Front(s.include_list), <<>>)
                        [] OTHER -> s.include_list,
     section |-> INITIAL_SECTION, last_header |-> NoRank]

-----------------------------------------------------------------------------
(* The kind of an include, and its place in the order.                      *)

PublicDir(dir) == Append(IF dir = <<>> THEN dir ELSE Front(dir), "public")

\* _ClassifyInclude, for an include of the file (a record like those of Headers)
ClassifyInclude(file, header, is_system) ==
    LET h == Headers[header]
    IN CASE is_system /\ h.ext \notin {"hpp", "hxx", "h++"} ->
              IF h.standard THEN "_CPP_SYS_HEADER" ELSE "_C_SYS_HEADER"
         [] ~(is_system /\ h.ext \notin {"hpp", "hxx", "h++"}) ->
              IF h.stem = file.stem /\ h.dir \in {file.dir, PublicDir(file.dir)} THEN "_LIKELY_MY_HEADER"
              ELSE IF h.first = file.first THEN "_POSSIBLE_MY_HEADER" ELSE "_OTHER_HEADER"

\* The section an include of a kind belongs to, seen from the section it is in;
\* a system header cannot go back.
NextSection(section, kind) ==
    CASE kind = "_C_SYS_HEADER" -> C_SECTION
      [] kind = "_CPP_SYS_HEADER" -> CPP_SECTION
      [] kind \in {"_LIKELY_MY_HEADER", "_POSSIBLE_MY_HEADER"} ->
           IF section <= MY_H_SECTION THEN MY_H_SECTION ELSE OTHER_H_SECTION
      [] kind = "_OTHER_HEADER" -> OTHER_H_SECTION

CheckNextIncludeOrderBack(s, kind) ==
    LET section == NextSection(s.section, kind)
    IN [ok |-> section >= s.section,
        state |-> [s EXCEPT !.section = section, !.last_header = IF section # s.section THEN NoRank ELSE @]]

CheckNextIncludeOrder(s, kind) ==
    LET section == NextSection(s.section, kind)
    IN IF section < s.section THEN [ok |-> FALSE, state |-> [s EXCEPT !.last_header = NoRank]]
       ELSE [ok |-> TRUE,
             state |-> [s EXCEPT !.section = section, !.last_header = IF section # s.section THEN NoRank ELSE @]]

\* IsInAlphabeticalOrder: only below another include
IsInAlphabeticalOrder(s, header, elided, n) ==
    ~(/\ s.last_header > Headers[header].rank
      /\ n > 1 /\ Lstrip(elided[n - 1]) # <<>> /\ Head(Lstrip(elided[n - 1])) = "#include")

-----------------------------------------------------------------------------
(* CheckIncludeLine. A header with the name of the file is kept even if it   *)
(* looks like one of a third party: the loop over the extensions of headers  *)
(* is left after the first.                                                  *)

Subdirless(line) ==
    /\ Head(line) = "#include" /\ line[2] = Q
    /\ Headers[line[3]].dir = <<>> /\ Headers[line[3]].ext = "h" /\ ~Headers[line[3]].third

\* One of the paths is the end of the other.
Within(a, b) ==
    /\ Headers[a].base = b.base
    /\ IsSuffix(Headers[a].dir, b.dir) \/ IsSuffix(b.dir, Headers[a].dir)

CheckIncludeLine(s, file, exts, clean, n) ==
    LET line == clean.lines[n]
        include == Lstrip(line)[3]
        h == Headers[include]
        subdir == IF Subdirless(line) THEN IncludeReport(n, "build/include_subdir") ELSE <<>>
        foreign == h.ext \in exts.all \ exts.header /\ h.dir # file.dir
        third == h.third /\ ~(h.ext = exts.first /\ Within(include, file))
        listed == [s EXCEPT !.include_list =
                      Append(Front(@), Append(Last(@), [header |-> include, line |-> n]))]
        order == CheckNextIncludeOrder(listed, ClassifyInclude(file, include, Lstrip(line)[2] = "<"))
        alphabetical == IsInAlphabeticalOrder(order.state, include, clean.elided, n)
    IN IF FindHeader(s, include) \/ foreign
       THEN [state |-> s, errors |-> subdir \o IncludeReport(n, "build/include")]
       ELSE IF third THEN [state |-> s, errors |-> subdir]
       ELSE [state |-> [order.state EXCEPT !.last_header = h.rank],
             errors |-> subdir \o (IF order.ok THEN <<>> ELSE IncludeReport(n, "build/include_order"))
                               \o (IF alphabetical THEN <<>> ELSE IncludeReport(n, "build/include_alpha"))]

-----------------------------------------------------------------------------
(* When all lines have been read.                                           *)

\* CheckHeaderFileIncluded: file.own are the headers that exist beside the file
\* with its name. The report is at the first include.
CheckHeaderFileIncluded(s, file) ==
    LET all == FlattenSeq(s.include_list)
        found == SelectInSeq(file.own, LAMBDA h : \E f \in ToSet(all) : Within(h, Headers[f.header])
                                                                     /\ Headers[h].ext = Headers[f.header].ext)
        missing == IF found = 0 THEN file.own ELSE SubSeq(file.own, 1, found - 1)
        first == IF all = <<>> THEN 0 ELSE Head(all).line
        report(h) == [line |-> first, category |-> "build/include", confidence |-> 5]
    IN IF file.test THEN <<>> ELSE [i \in DOMAIN missing |-> report(missing[i])]

FilesBelongToSameModule(file, header, exts) ==
    LET h == Headers[header]
    IN /\ file.ext \in exts.all \ exts.header /\ h.ext \in exts.header
       /\ h.stem = file.stem /\ IsSuffix(h.dir, file.dir)

\* The last line that uses a name of a header; a template needs its '<', and a
\* name in another namespace is another name.
Uses(elided, header) ==
    {n \in DOMAIN elided :
        /\ elided[n] # <<>> /\ Head(elided[n]) \notin Directives
        /\ \E name \in DOMAIN Required :
              LET r == Required[name]
                  i == Find(elided[n], IF r.template THEN <<name, "<">> ELSE <<name>>, 1)
              IN r.header = header /\ i # 0 /\ (i > 1 => elided[n][i - 1] # "other::")}

\* In the order of the lines; one report for all headers of a line.
CheckForIncludeWhatYouUse(s, file, exts, elided) ==
    LET included == {f.header : f \in Listed(s.include_list)}
        opened == {h \in included : FilesBelongToSameModule(file, h, exts) /\ Headers[h].exists}
        known == included \cup UNION {Headers[h].includes : h \in opened}
        needed == {Required[name].header : name \in DOMAIN Required}
        missing == {h \in needed : Uses(elided, h) # {} /\ h \notin known}
        last_uses == {Max(Uses(elided, h)) : h \in missing}
        lines == Without([n \in DOMAIN elided |-> n], DOMAIN elided \ last_uses)
    IN IF opened = {} /\ file.ext \in exts.all \ exts.header THEN <<>>
       ELSE [i \in DOMAIN lines |->
                [line |-> lines[i], category |-> "build/include_what_you_use", confidence |-> 4]]
=============================================================================
