-------------------------------- MODULE MCLint --------------------------------
(* Worlds for TLC: files of a few lines from one alphabet per world, and      *)
(* small trees of files with configurations.                                *)
EXTENDS LintProperties

H(dir, base, ext, standard, rank, includes) ==
    [dir |-> dir, base |-> base, ext |-> ext, stem |-> base, first |-> base, standard |-> standard,
     third |-> FALSE, rank |-> rank, includes |-> includes, exists |-> base = "a", cxx11 |-> base = "mutex"]
MCHeaders ==
    [a |-> H(<<>>, "a", "h", FALSE, 1, {}), b |-> H(<<"d">>, "b", "h", FALSE, 2, {}),
     bb |-> H(<<"e">>, "b", "h", FALSE, 3, {"vector"}),
     stdio |-> H(<<>>, "stdio", "h", FALSE, 4, {}), vector |-> H(<<>>, "vector", "", TRUE, 5, {}),
     mutex |-> H(<<>>, "mutex", "", TRUE, 6, {}), c |-> H(<<"d">>, "c", "cpp", FALSE, 7, {})]
MCRequired == [vector |-> [header |-> "vector", template |-> TRUE]]

Info(dir, base, ext, guard) ==
    [dir |-> dir, base |-> base, ext |-> ext, stem |-> base, first |-> base, test |-> FALSE,
     own |-> IF base = "a" /\ ext = "cpp" THEN <<"a">> ELSE <<>>,
     guards |-> (<<>> :> guard) @@ (dir :> "OTHER_H")]

\* All files of up to k lines from an alphabet, with or without a last newline.
UpTo(alphabet, k) == BoundedSeq(alphabet, k) \ {<<>>}
Newline(texts) == {Append(t, <<>>) : t \in texts}

Command(settings, filters, files) ==
    [settings |-> settings, filters |-> filters, recursive |-> FALSE, exclude |-> {}, files |-> files]
Single(path, info, settings, filters, texts) ==
    [hook |-> "none", command |-> Command(settings, filters, <<path>>), config |-> [d \in {} |-> <<>>],
     unreadable |-> {}, text |-> path :> texts, info |-> path :> info]
Source(settings, texts) == Single(<<"a.cpp">>, Info(<<>>, "a", "cpp", "A_H"), settings, <<>>, texts)
Verbose(v) == [name |-> "verbose", val |-> v]

If == <<"#if", "X">>
Else == <<"#else">>
Endif == <<"#endif">>

Blocks == {<<"namespace", "n", " ", "{">>, <<" ", "class", "A", " ", "{">>, <<"class", "A">>,
           <<"f", "(", ")", " ", "{">>, <<"{">>, <<"}">>, <<"class", "A", ";">>}
BlockTexts == UpTo(Blocks \cup {If, Else, Endif}, 4)
              \cup UpTo({If, Else, Endif, <<"namespace", "n", "{">>, <<"}">>}, 6)

Include(header) == <<"#include", Q, header, Q>>
System(header) == <<"#include", "<", header, ">">>
IncludeTexts == UpTo({Include("a"), Include("b"), System("stdio"), System("vector"), If, Else, Endif}, 4)
                \cup UpTo({Include("b"), System("stdio"), If, Else, Endif}, 5)
OtherIncludes == UpTo({Include("a"), Include("bb"), Include("c"), System("mutex"),
                       <<" ", "vector", "<", "T", ">">>, <<"other::", "vector", "<">>}, 3)

FunctionTexts == UpTo({<<"f", "(", ")", " ", "{">>, <<"TEST", "(", ")">>, <<" ", "x", ";">>, <<"}">>, <<"g", "(", ")", ";">>}, 5)
LongTexts == {<< <<name, "(", ")", " ", "{">> >> \o [i \in 1..k |-> <<" ", "x", ";">>] \o << <<"}">>, <<>> >> :
                  name \in {"f", "TEST"}, k \in 0..13}

CommentTexts ==
    UpTo({<<"x", ";", " ", "//", " ", "y">>, <<"x", " ", "/*", " ", "y", " ", "*/", " ", ";">>, <<" ", "/*", " ", "z">>,
          <<"z", " ", "*/", " ">>, <<"/*", "z", "*/", "x">>, <<Q, "'", "//", "a", Q, ";">>, <<"'", Q, "'", ";", "//", "b">>}, 3)
    \cup UpTo({<<"s", "=", "R", Q, "(", "a">>, <<"a", ")", Q, ";">>, <<"R", Q, "d", "(", ")", Q, ")", "d", Q, ";">>,
               <<"R", Q, "(", Q, ")", Q, " ", "//", "c">>, <<" ", "R", Q, "d", "(", "a", ")", Q>>, <<"a", ")", "d", Q>>,
               <<Q, EscapedQ, "//", Q, ";">>, <<"1", "'", "000">>}, 3)

BracketTexts == UpTo({<<"f", "(">>, <<"a", " ", "<", " ", "b", ";">>, <<"v", "<", "T", ">">>, <<")">>, <<"[", "i", "]">>,
                      <<"p", "-", ">", "q">>, <<"{", " ", ">", " ", "}">>, <<"a", "<", "<", "b", ")">>,
                      <<"operator", "<", "(">>, <<"u", "<", " ", ">", "=", " ", "g", "(", "x", ")">>}, 4)

Nolint(comment) == <<"\t", "x", ";", "//", comment>>
NolintIn(comment, category) == <<"\t", "x", ";", "//", comment, "(", category, ")">>
SilencedTexts ==
    UpTo({<<"\t", "y", " ">>, Nolint("NOLINT"), Nolint("NOLINTNEXTLINE"), NolintIn("NOLINT", "whitespace/tab"),
          NolintIn("NOLINTNEXTLINE", "whitespace/end_of_line"), NolintIn("NOLINT", "readability/streams"),
          NolintIn("NOLINT", "unknown"), <<"/*">>, <<"//", "LINT_KERNEL_FILE">>}, 3)
    \cup UpTo({<<"x", "\r">>, <<" ", "long", "y", ";">>, <<"NUL">>, <<"//", "Copyright">>}, 3)

GuardLines == {<<"#ifndef", "A_H">>, <<"#ifndef", "A_H_">>, <<"#define", "A_H">>, <<"#define", "A_H_">>,
               <<"#endif", " ", "//", " ", "A_H">>, <<"#endif", " ", "/*", " ", "A_H_", " ", "*/">>, <<"#endif", " ", "//", "NOLINT">>,
               <<"#pragma", "once">>}
Header(settings) == Single(<<"a.h">>, Info(<<>>, "a", "h", "A_H"), settings, <<>>, Newline(UpTo(GuardLines, 3)))

SingleWorlds ==
    <<Source(<<>>, Newline(BlockTexts)), Source(<<>>, Newline(IncludeTexts)), Source(<<>>, Newline(OtherIncludes)),
      Source(<<Verbose(1)>>, Newline(FunctionTexts)), Source(<<Verbose(0)>>, CommentTexts),
      Source(<<>>, BracketTexts), Header(<<Verbose(0)>>), Header(<<>>)>>
    \o [v \in 1..4 |-> Source(<<Verbose(v - 1)>>, LongTexts)]
    \o [i \in 1..2 |-> Source(<<Verbose(<<1, 3>>[i])>>, SilencedTexts)]

-----------------------------------------------------------------------------
(* A tree of four files, one in the root and three in directories.           *)

First == <<"a.cpp">>
Mid == <<"d", "m.h">>
Low == <<"d", "e", "l.cpp">>
Note == <<"d", "n.txt">>
TreeInfo == (First :> Info(<<>>, "t", "cpp", "T_H")) @@ (Mid :> Info(<<"d">>, "m", "h", "M_H"))
            @@ (Low :> Info(<<"d", "e">>, "l", "cpp", "L_H")) @@ (Note :> Info(<<"d">>, "n", "txt", "N_H"))
Tabbed == << <<"\t", "x", " ">>, <<>> >>
Quiet == << <<"\t", "x", " ", "//", "NOLINT">>, <<"//", "Copyright", "LINT_KERNEL_FILE">>, <<"#pragma", "once">>, <<>> >>
Clean == << <<"//", "Copyright">>, <<"#pragma", "once">>, <<>> >>
TreeText == [f \in DOMAIN TreeInfo |-> {Tabbed, Quiet, Clean}]

Plus(category) == Filter("+", category)
Minus(category) == Filter("-", category)
FilterLine(filters) == [name |-> "filter", val |-> filters]
NoParent == [name |-> "set noparent", val |-> <<>>]
ExcludeLine(names) == [name |-> "exclude_files", val |-> names]

Configs ==
    <<[d \in {} |-> <<>>],
      (<<>> :> <<FilterLine(<<Minus("whitespace")>>)>>) @@ (<<"d">> :> <<FilterLine(<<Plus("whitespace/tab")>>)>>),
      (<<>> :> <<FilterLine(<<Minus("whitespace")>>)>>) @@ (<<"d">> :> <<NoParent, ExcludeLine({"e"})>>),
      <<"d">> :> <<FilterLine(<<Minus("whitespace/tab"), Minus("legal")>>), FilterLine(<<Plus("whitespace")>>)>>,
      (<<"d">> :> <<FilterLine(<<Minus("")>>)>>) @@ (<<"d", "e">> :> <<FilterLine(<<Plus("whitespace")>>)>>),
      <<"d", "e">> :> <<FilterLine(<<Filter("?", "whitespace")>>)>> >>

Tree(hook, asked, config, unreadable) ==
    [hook |-> hook, command |-> asked, config |-> config, unreadable |-> unreadable,
     text |-> TreeText, info |-> TreeInfo]
Recursive(filters, exclude) ==
    [settings |-> <<>>, filters |-> filters, recursive |-> TRUE, exclude |-> exclude, files |-> << <<>> >>]

Under(Of(_)) == [i \in DOMAIN Configs |-> Of(Configs[i])]
TreeWorlds ==
    Under(LAMBDA c : Tree("none", Recursive(<<>>, {}), c, {}))
    \o Under(LAMBDA c : Tree("none", Recursive(<<Minus("whitespace"), Plus("whitespace/tab")>>, {Mid}), c, {<<"d">>, First}))
    \o Under(LAMBDA c : Tree("staged", Command(<<>>, <<>>, <<Low, Note, Mid>>), c, {}))
    \o Under(LAMBDA c : Tree("staged", Command(<<>>, <<>>, <<Mid, Low>>), c, {<<"d">>}))
    \o <<Tree("staged", Command(<<>>, <<>>, <<Note>>), Configs[1], {}),
         Tree("unstaged", Command(<<>>, <<>>, <<Mid>>), Configs[1], {}),
         Tree("none", Command(<<>>, <<Filter("?", "")>>, <<Mid>>), Configs[1], {}),
         Tree("none", Command(<<>>, <<>>, <<>>), Configs[1], {}),
         Tree("none", Command(<<>>, <<>>, <<Note, First>>), Configs[1], {})>>

MCWorlds == SingleWorlds \o TreeWorlds

ASSUME MCLintAssumption == OnlyFilters
=============================================================================
