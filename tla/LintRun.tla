------------------------------- MODULE LintRun -------------------------------
(* One run of the linter: .linters/cpp/hooks/pre-commit.sh, which calls      *)
(* cpplint.py and lets a commit pass or not, and main() of cpplint.py, which *)
(* judges one file after the other, one line after the other. The settings   *)
(* and the count of errors are globals of the program. What differs between  *)
(* two runs is chosen at the start (world), the text of a file when it is     *)
(* opened.                                                                  *)
EXTENDS LintChecks

(* Worlds is a sequence of records:                                                    *)
(*   hook       called by git, with the staged files; unstaged changes or not *)
(*   command    [settings, filters, recursive, exclude, files] of cpplint.py *)
(*   config, unreadable       see LintConfig                                *)
(*   text       from a file to the texts it may have                        *)
(*   info       from a file to what LintChecks reads from its path          *)
CONSTANTS Worlds, HookLineLength

Path == Seq(STRING)
IsSequence(s) == s \in Seq(ToSet(s))

\* A run finds finitely many files, each of lines of tokens. The hook is about
\* the staged files, one by one.
ASSUME LintRunAssumption ==
    \A w \in DOMAIN Worlds :
        LET it == Worlds[w]
        IN /\ DOMAIN it.text \in SUBSET Path /\ IsFiniteSet(DOMAIN it.text)
           /\ DOMAIN it.info = DOMAIN it.text
           /\ \A f \in DOMAIN it.text : it.text[f] \in SUBSET Seq(Seq(STRING)) /\ IsSequence(it.info[f].own)
           /\ \A dir \in DOMAIN it.config : IsSequence(it.config[dir])
           /\ IsSequence(it.command.settings) /\ it.command.files \in Seq(Path)
           /\ it.hook # "none" => ~it.command.recursive

VARIABLES world,         \* what the run finds: an index of Worlds
          pc,            \* the function that goes on
          command,       \* the arguments of cpplint.py
          opts,          \* the globals that hold settings
          queue,         \* filenames still to be judged
          file,          \* the file being judged
          judged,        \* what became of the files, oldest first
          error_count,   \* _cpplint_state.error_count
          status         \* the exit status of the run

vars == <<world, pc, command, opts, queue, file, judged, error_count, status>>

NoFile == [info |-> "none"]
Running == "running"

World == Worlds[world]

Init == /\ world \in DOMAIN Worlds
        /\ pc = IF World.hook = "none" THEN "arguments" ELSE "hook"
        /\ command = World.command
        /\ opts = Options
        /\ queue = <<>> /\ file = NoFile /\ judged = <<>>
        /\ error_count = 0 /\ status = Running

Exit(code) == /\ pc' = "exit" /\ status' = code
              /\ UNCHANGED <<world, command, opts, queue, file, judged, error_count>>

-----------------------------------------------------------------------------
(* The hook: only files git knows to have changed, with these extensions.   *)

HookExtensions == {"cpp", "h", "inl"}
HookFilters == [i \in 1..7 |-> Filter("-", <<"whitespace/indent", "build/include_what_you_use", "readability/todo",
                                             "build/include", "build/header_guard", "runtime/references",
                                             "build/c++11">>[i])]
Staged == Without(World.command.files, {f \in DOMAIN World.info : World.info[f].ext \notin HookExtensions})

HookRefuses == pc = "hook" /\ World.hook = "unstaged" /\ Exit(1)
HookPasses == pc = "hook" /\ World.hook = "staged" /\ Staged = <<>> /\ Exit(0)
HookCalls ==
    /\ pc = "hook" /\ World.hook = "staged" /\ Staged # <<>>
    /\ pc' = "arguments"
    /\ command' = [settings |-> <<[name |-> "extensions", val |-> HookExtensions],
                                  [name |-> "linelength", val |-> HookLineLength]>>,
                   filters |-> HookFilters, recursive |-> FALSE, exclude |-> {}, files |-> Staged]
    /\ UNCHANGED <<world, opts, queue, file, judged, error_count, status>>

-----------------------------------------------------------------------------
(* ParseArguments                                                           *)

\* _ExpandDirectories: a set, so in any order, and only the known extensions.
Expanded(o) ==
    {f \in DOMAIN World.text :
        /\ \E name \in ToSet(command.files) : IsPrefix(name, f)
        /\ World.info[f].ext \in GetAllExtensions(o)}

FileNames(o) ==
    {Without(s, command.exclude) :
        s \in IF command.recursive THEN SetToSeqs(Expanded(o)) ELSE {command.files}}

ParsedOptions == FoldLeft(Set, opts, command.settings)
ArgumentsWrong == command.files = <<>> \/ Malformed(command.filters)

ParseArgumentsFails == pc = "arguments" /\ ArgumentsWrong /\ Exit(1)
ParseArguments ==
    /\ pc = "arguments" /\ ~ArgumentsWrong
    /\ queue' \in FileNames(ParsedOptions)
    /\ opts' = [ParsedOptions EXCEPT !.filters = DefaultFilters \o command.filters]
    /\ pc' = "main" /\ error_count' = 0
    /\ UNCHANGED <<world, command, file, judged, status>>

-----------------------------------------------------------------------------
(* ProcessFile                                                              *)

Config == ProcessConfigOverrides(BackupFilters(opts), World, Head(queue))

LeftOutWithFilters(reason) ==
    /\ queue' = Tail(queue)
    /\ judged' = Append(judged, [name |-> Head(queue), outcome |-> reason, lines |-> <<>>, judge |-> NoErrors])
    /\ opts' = Config.opts
    /\ UNCHANGED <<world, pc, command, file, error_count, status>>

\* The next file is not judged, for the reason.
LeftOut(reason) ==
    /\ queue' = Tail(queue)
    /\ judged' = Append(judged, [name |-> Head(queue), outcome |-> reason, lines |-> <<>>, judge |-> NoErrors])
    /\ opts' = RestoreFilters(Config.opts)
    /\ UNCHANGED <<world, pc, command, file, error_count, status>>

Begins == pc = "main" /\ queue # <<>>

Excluded == Begins /\ Config.excluded /\ LeftOut("excluded")
Crash == Begins /\ Config.malformed /\ Exit(1)      \* ValueError is not caught
Reads == Begins /\ ~Config.excluded /\ ~Config.malformed
Readable == DOMAIN World.text \ World.unreadable      \* not a directory or a file that is not there
Unreadable == Reads /\ Head(queue) \notin Readable /\ LeftOut("unreadable")
Opens == Reads /\ Head(queue) \in Readable
IgnoredExtension ==
    /\ Opens /\ World.info[Head(queue)].ext \notin GetAllExtensions(Config.opts)
    /\ LeftOut("invalid extension")

StartFileResetting ==
    /\ Opens /\ World.info[Head(queue)].ext \in GetAllExtensions(Config.opts)
    /\ opts' = Config.opts
    /\ \E lines \in World.text[Head(queue)] :
          /\ file' = Prepared(opts', World.info[Head(queue)], lines)
          /\ error_count' = Len(file'.judge.printed)
    /\ pc' = "line"
    /\ UNCHANGED <<world, command, queue, judged, status>>

StartFile ==
    /\ Opens /\ World.info[Head(queue)].ext \in GetAllExtensions(Config.opts)
    /\ opts' = Config.opts
    /\ \E lines \in World.text[Head(queue)] :
          /\ file' = Prepared(opts', World.info[Head(queue)], lines)
          /\ error_count' = error_count + Len(file'.judge.printed)
    /\ pc' = "line"
    /\ UNCHANGED <<world, command, queue, judged, status>>

ProcessLine ==
    /\ pc = "line" /\ file.n <= Len(file.lines)
    /\ file' = ProcessedLine(file, opts)
    /\ error_count' = error_count + Len(file'.judge.printed) - Len(file.judge.printed)
    /\ UNCHANGED <<world, pc, command, opts, queue, judged, status>>

FinishFile ==
    /\ pc = "line" /\ file.n > Len(file.lines)
    /\ LET judge == Finished(file, opts)
       IN /\ judged' = Append(judged, [name |-> Head(queue), outcome |-> "judged", lines |-> file.lines,
                                       judge |-> judge])
          /\ error_count' = error_count + Len(judge.printed) - Len(file.judge.printed)
    /\ opts' = RestoreFilters(opts)
    /\ queue' = Tail(queue) /\ file' = NoFile /\ pc' = "main"
    /\ UNCHANGED <<world, command, status>>

Finish == pc = "main" /\ queue = <<>> /\ Exit(IF error_count > 0 THEN 1 ELSE 0)

Over == pc = "exit" /\ UNCHANGED vars

Next == \/ HookRefuses \/ HookPasses \/ HookCalls
        \/ ParseArgumentsFails \/ ParseArguments
        \/ Excluded \/ Crash \/ Unreadable \/ IgnoredExtension \/ StartFile
        \/ ProcessLine \/ FinishFile \/ Finish
        \/ Over

Spec == Init /\ [][Next]_vars
=============================================================================
