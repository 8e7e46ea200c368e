# Nebula Chaos in TLA+

`nebula-chaos` is a chaos-testing tool for the Nebula Graph database. It reads a
*plan* (two JSON files: the instances and the actions), runs the actions of the
plan on a thread pool in the order that their `depends` fields ask for, and
reports by mail and in its log whether the plan passed. Actions start, stop, kill
and clean database processes over ssh, disturb the network and the disks, write
data and read it back, and run further actions in a loop. The repository also holds
the C++ linter that its commit hook runs, `cpplint.py`, and a script that draws a plan.

This directory models that program: TLA+ modules for its components, TLC
configurations that check them on small instances, and TLAPS proofs of what
matters most for every instance. Paths below are relative to the repository.

## Inventory

### Components

| Component | State it keeps | Operations | Modelled in |
|---|---|---|---|
| Plan scheduler, `core/ChaosPlan` | `actions_`, `threadsPool_`, `status_`, mail fields | `addAction(s)`, `schedule`, `toString` | `ChaosPlan` |
| Action life cycle, `core/Action.h` | `status_`, `promise_`, `dependees_`, `dependers_` | `run`, `markFailed`, `reset`, `addDependency`, `addDependee` | `ChaosPlan`, `LoopAction` |
| Loop, `core/LoopAction` | sub-actions, a pool of its own, local `rc` | `doRun` | `LoopAction` |
| Disturbance, `DisturbAction` in `core/Action.h` | loop counter | `doRun`: disturb, wait, recover, n times | `Disturbers` |
| Database instance, `nebula/NebulaInstance` | `state_`, `pid_`, parsed configuration | `init`, `getPid`, `start/stop/killCommand`, `dataDirs`, `walDirs` | `Instances`, without the configuration |
| Instance control, `nebula/NebulaAction` | the instances | `CrashAction`, `StartAction`, `StopAction`, `CleanDataAction` | `Instances`, `Disturbers` |
| Random disturbers, `nebula/NebulaAction` | `picked_`, `paras_`, `stapPid_`, `count_` | `RandomRestart`, `RandomTruncateRestart`, `RandomPartition`, `RandomTrafficControl`, `FillDisk`, `SlowDisk` | `Disturbers` |
| Graph client, `nebula/client/GraphClient` | `session`, `spaceName_`, the connection | `connect`, `disconnect`, `execute` with its retries | `GraphClient` |
| Data circle, `nebula/NebulaAction` | ids written, `start_`, `jobId_` | `WriteCircle`, `WalkThrough`, `LookUp`, `CreateIndex`, `RebuildIndex`, `CheckJobStatus` | `Circle` |
| Meta and check actions, `nebula/NebulaAction` | the answer, a variable of the context | `MetaAction`, `BalanceData`, `DescSpace`, `CheckLeaders`, `UpdateConfigs`, `ExecutionExpression` | `MetaActions` |
| Assignment and conditions, `core/AssignAction`, `expression/` | `ExprContext`, shared by all actions of a plan | `eval`, `setVar`, `getVar` | `Expressions` |
| Condition parser, `parser/` | none | `parse` | its literals and operators, in `Expressions` |
| Small actions, `core/RunTaskAction`, `SendEmailAction`, `WaitAction`, `CheckProcAction` | none | `doRun` | `ChaosPlan` (the first two), `Instances` (the last) |
| Remote helpers, `utils/` | none | `SshHelper::run`, `HttpClient`, `Utils` | by their outcomes, in the actions that call them |
| Data file actions, `nebula/NebulaAction` | none; the files of the instances | `CleanWal`, `TruncateWal`, `CleanCheckpoint`, `RestoreFromCheckpoint`, `RestoreFromDataDir` | `DataFiles`, with `MetaActions` |
| `StoragePerfAction` | none | one external tool | not modelled |
| Plan loader, `nebula/NebulaChaosPlan`, `NebulaUtils` | the plan under construction | `loadFromFile`, `loadAction` | `PlanFile`, without the parameters of the actions |
| Flow chart, `tools/FlowChart.py` | the graph under construction | `parseActions` | `PlanFile` |
| Linter, `.linters/cpp/cpplint.py` | `_cpplint_state`, the settings and suppressions (globals), per file the nesting, include and function state | `main`, `ProcessFile`, `ProcessLine`, the checks | `Lint...` |
| Commit hook, `.linters/cpp/hooks/pre-commit.sh` | none | the call of the linter | `LintRun` |
| Command line tool, `tools/RunChaosPlan.cpp` | none | `run` | the calls around `schedule()`, in `ChaosPlan` |

### How they interact

The main thread (`RunChaosPlan.cpp`) loads the plan, calls `schedule()` and waits
in it for one promise, that of the sink action. Everything else is callbacks: each
action has a folly `SharedPromise`; `schedule()` attaches to each action a
continuation on the promises of its dependees, which a worker of the plan's pool
runs. A worker that fulfils a promise queues the continuations that waited for
it. The actions share, without locks, the instances (`state_`, `pid_`), the plan's
`status_` and the expression context; they share the graph client behind a mutex.
A `LoopAction` is an action that runs a graph of sub-actions on a second pool, over
and over, re-using the same `Action` objects.

The linter is a program of its own, started by the hook with the staged files. It is
sequential: what one file leaves in the globals is there for the next.

### What is hard

* *Interleaving*: the workers of a pool run what has become runnable in any order (nothing
  does before `schedule()` attaches the source's continuation, which it does last); two
  disturbers may work on the same instances.
* *Atomicity*: a promise is fulfilled first and the flag that belongs to it
  (`status_` of the plan, `rc` of a loop) is written after, by the same thread; the
  other side is woken by the promise and reads the flag.
* *Stale state*: a loop's iteration can collect the promises of the last one; a
  disturber tests `state_` long before it uses it; `getPid` reads a pid file that
  may belong to a process that is gone.
* *Partial failure*: an action throws, is skipped, or fails in the middle of a
  disturbance that is then never recovered.
* *Half-done work*: a restore removes before it copies, one shell command after the
  other, on several paths.
* *Long sequences*: the linter keeps its picture of a file (blocks, includes, brackets,
  comments) with regular expressions, line by line, across `#if` branches that are
  alternatives; and its settings across files.
* *Retries*: the graph client's ten tries and its reconnection, the 9 tries of
  `StopAction`, the 32 of the disturbers.

`PROJECT.json` lists each hazard at its line, with the properties aimed at it.

## Modules

| Module | What it is |
|---|---|
| `PlanSpec` | abstract: what a plan promises to its author |
| `ChaosPlan` | `ChaosPlan::schedule()` and the actions under it, with its properties and its refinement of `PlanSpec` |
| `ChaosPlanProofs` | the inductive invariant of `ChaosPlan` and the TLAPS proofs |
| `PlanFile` | a plan file, what the loader makes of it, what the flow chart draws |
| `MCChaosPlan` | `ChaosPlan` on plans that are loaded from a `PlanFile`; instance for TLC |
| `LoopAction` | `LoopAction::doRun()`, over several iterations and calls |
| `LoopActionProofs`, `MCLoopAction` | its proofs; instances for TLC |
| `GraphClient` | `GraphClient::connect()` and `execute()`, by several actions |
| `GraphClientProofs`, `MCGraphClient` | its proofs; instance for TLC |
| `Instances` | one database instance: state, process, pid file, commands in flight |
| `Disturbers` | the actions that start, stop, clean and disturb instances; uses `Instances` |
| `DisturbersProofs`, `MCDisturbers` | its proofs; instance for TLC |
| `Circle` | the data circle and its index |
| `CircleProofs`, `MCCircle` | its proofs; instance for TLC |
| `MetaActions` | the loops around one statement, the check of the leaders |
| `DataFiles` | the actions on files, in a plan with those of `MetaActions`, which it extends |
| `DataFilesProofs` | the proofs of both, and that the second is a plan of `MetaActions` |
| `MCMetaActions` | both in one instance for TLC |
| `Expressions` | evaluation and assignment; checked by TLC as it is |
| `ExpressionsProofs` | its proofs |
| `LintText` | the linter's text: tokens, the removal of comments and strings |
| `LintBrackets` | the two searches for the other end of a bracketed expression |
| `LintConfig` | the settings, `CPPLINT.cfg`, filters, NOLINT, what is printed |
| `LintNesting`, `LintIncludes`, `LintFunctions` | what is kept of a file from line to line |
| `LintChecks` | what is done with one file: before, at and after its lines |
| `LintRun` | the hook and `main()`: the state machine over files and lines |
| `LintProperties`, `MCLint` | what a run should do, in terms of C++ and of the files; instance for TLC |
| `LintProofs` | the inductive invariants of `LintRun` and the proofs |

The linter is one model: each module extends those above it. The modules of the tool
are composed where they share state (`Disturbers` on `Instances`, `DataFiles` with
`MetaActions`, `ChaosPlan` with `PlanFile`) and not beyond: the scheduler treats an action as a black box
that returns or throws, and the actions meet in the state that a module holds (the
client, the instances, the database, the context). `After` of `Circle` and
`MetaActions` is what `ChaosPlan`'s `DependencyOrder` provides: an action starts when
those it depends on have returned OK.

### `ChaosPlan`

An action is its index in `actions_`: the `N` actions of the author, then the sink
("Send Email") and the source ("Begin") that `schedule()` appends.

| In the module | In the code |
|---|---|
| `dependees` | `dependees_`; any DAG over the author's actions (`ChaosPlan.h:20`) |
| `status`, `promise` | `status_`, `promise_` of each action |
| `cont` | the continuation: not attached, waiting for `collectAll`, queued on the pool, in `doRun()`, about to fulfil the promise, about to set the plan's `status_`, over |
| `Link`, `Register` | `ChaosPlan.cpp:31-68`, one turn of the loop at 70-103 |
| `Run`, `Skip` | the `thenValue` callback, 80-94 |
| `BodyReturns`, `BodyThrows`, `SinkReturns`, `SinkThrows` | the end of `doRun()` inside `Action::run()`, for an author's action and for the sink's mail task |
| `Fulfil`, `FulfilFailed` | `setTry`/`setException` in `run()` and in `markFailed()`: continuations that waited for this promise are queued |
| `HandleError`, `SetFailed` | the `thenError` callback, 95-102: the status, then (another step) the plan's `status_` |
| `WakeUp`, `Rerun`, `RerunThrows` | 105-111 |
| `Report`, `Stop` | the tool's log of `toString()`, the destructor |

`status_` of an action and its promise are set in two steps, and so are the promise
and the plan's `status_`: other threads can see the state in between. A worker is
busy from the start of a callback to its end, also while it waits in `doRun()`, and
at most `Concurrency` are. The pool's queue is taken in any order: the real one is
first-in first-out, one of these orders.

`PlanSpec` has one state per action (waiting, running, succeeded, failed) and the
step that makes the plan reportable. `ImplementsPlanSpec` checks `ChaosPlan` against
all of it, fairness included; `Refinement` proves the safety part for every instance.

### `LoopAction`

The same `Action` objects are used in every iteration, so that the model gives each
promise a generation (`gen` counts `reset()`), keeps for each iteration and action
the promises its continuation collects (`futures`) and where it stands (`cont`), and
lets a continuation of one iteration live on into the next. `folly::collect`, unlike
`collectAll`, fails as soon as one dependee fails. `reset()` breaks the old promise.

Three things in the code are undefined or timing dependent, and are modelled by
what can come of them:

* `setTry()` on a promise that `reset()` replaces at the same time fulfils the
  promise that `promise_` points to when it is called;
* `rc`, held by reference, is a local of the iteration: a late write reaches the
  next iteration's `rc`, in the same place of the frame, or nothing;
* the queue of the loop's pool is taken in any order. Both counterexamples below
  are also behaviours of a first-in first-out queue.

`RunAgain` is a second `doRun()` of the same `LoopAction`, by a loop around it: it
appends a second End and Begin to `actions_` and links them to the first (`Linked`), so
that the old Begin and End are sub-actions of the second run. `MaxIterations` gives the
iterations there may have been, of all runs together, while each run is on.

### `PlanFile`

A file is a tree: items with their `depends` and, in a loop, a list of items. `Loaded` is
the relation that `addDependee()` builds from it, `Edges` the edges that the chart has,
between the nodes that `NodeOf` names. `MCChaosPlan` runs `ChaosPlan` on plans whose
`dependees` are those loaded, so that what the chart tells can be compared with what
runs. A sub plan's nodes have the prefix `str(i)` of its loop in its own list, whatever
list that is in: two loops inside loops may share nodes, and so may an item of a sub
plan with two digits. `ChartTellsApart` states for which plans this does not happen.

### `GraphClient`

One `Execute(c)` step is one statement of `execute()` that other threads can tell
apart: taking the mutex, the answer, each call to the server, each reconnection.
`session` is the session as the client sees it, `space` the space it is in at the
server, `spaceName` the saved one. The server is external: a call fails, is refused or
succeeds, and one that fails may have taken effect. `Session::retryConnect` gives a
session without a space. History variables keep what took effect during a call and
which spaces were asked for.

### `Instances` and `Disturbers`

An instance is what the program knows of it (`state_`, the pid that `getPid()` read)
and what there is: the process, the pid file, the commands in flight. The service
commands end in `&` and run at any later time, on the process that is there then; a
process may die by itself; `CheckProcAction` sees a process, no process, or nothing
because ssh failed.

An action of `Disturbers` has a program counter that names the next call of its
`disturb()`, `recover()` or `doRun()`; ten classes share the steps that the code
shares (`stop()`, `start()`, the retries). What a disturbance leaves on a host is
counted: a rule of iptables or of tc, a filled disk, a probe of SystemTap. `rules` follows
one rule of `paras_`, any one: all of them go to the host in one command line whose exit
status is that of the last, so that this one may not be set, or its deletion fail, and
the action go on (`unseen` counts such deletions). `iptables -D` deletes one of several
equal rules, `tcdel` one or more. Not modelled: that a new process may get the pid of an
old one, the parsing of the configuration; what `TruncateWal` does to the files is in
`DataFiles`, inside `RandomTruncateRestart` it is done or fails.

### `Circle`

A step is one call of `execute()` with what the action does about the answer, so that
a batch, a vertex, a try is a step. `db` maps a vertex to its value, `index` and
`indexed` are the index and what is in it, `jobs` the rebuilding jobs, one after the
other. A failing INSERT may have written any part of its batch; a failing REBUILD may
have submitted its job. `Fault` loses or damages a row: to find that is what the circle
is for. `toString()` of `CheckJobStatusAction` reads the job's id as a side effect, and
`Action::run()` calls it before `doRun()`, which tests that id: both reads are steps.

### `MetaActions`

`Create`, `Drop`, `Desc` and `UpdateConfigs` are `MetaAction::doRun()` with the effects
a statement can have: that of a plain statement, its opposite, an answer that is read,
and a command that the action builds first. The other subclasses differ in the text
they send. Each action has its own answer (`errMsg`) and finding (`spaceId`). `CheckLeaders` reads the table of hosts from a cluster whose leaders move;
`Stable` is the plan's condition that two of its results are the same string.

### `DataFiles`

A directory is that of a space under a data path of an instance: its data (a version),
the size of its newest wal and its snapshots. The storage processes write, make
snapshots, start and stop by themselves (`Turn`), and `state_` follows or not. Each shell
command is a step. It does its work and the action goes on, or it fails, with its work
done or not, and the `CHECK` on its exit status ends the tool. `ListWal` also ends when
there is no wal or its size is not an `int32_t`. `CleanWal` and `TruncateWal` first run
a `DescSpaceAction` (`DescOf`) of `MetaActions`, whose space another action may drop in
between. Two actions on files are not in progress at the same time: the plans in `conf/`
order those of one instance, and those of different ones share nothing. `FilesSpec` is the
specification of such a plan. `FilesAsAsked` compares the directories with those of the
beginning (`before`), of the instances whose process has not run since (`Asleep`).

### `Expressions`

An expression is evaluated in post-order on a stack, one node a step, left operand
first, so that a run goes through every expression whose evaluation needs at most
`MaxStack` operands. `int64_t` is `-MaxInt - 1 .. MaxInt`, a double is a multiple of
`1 / Scale` within a range, one of the two infinities, or NaN; an operation rounds towards
zero to the next multiple, beyond the range to an infinity, and gives NaN where IEEE 754
does (`Plus`, `Minus`, `Times`, `Over`, `FMod`). Signed zeros and the mode of rounding are
not modelled. `abs` in `almostEqual` is taken for the overload of its argument's type,
which is up to a header, `base/Base.h`, that is not among the sources. A string is its
length. `LOG(FATAL)` and a trap of the processor end the process.

### The linter

A line is a sequence of tokens: symbols and blanks, and words, which are one token each.
That is as much as the linter's regular expressions tell apart, and lets lengths and
positions be counted in tokens. A path is a sequence of names; what is read from a
path, a header's place in the alphabet or its guard, is a table of the instance. A
`world` is what a run finds: the hook or a command line, the `CPPLINT.cfg` files, the
texts that each file may have. One step of `LintRun` is one function of the program's main
loop: the arguments, the opening of a file with what precedes its lines, one line, the
end of a file, the end of the run. A loop inside such a function is a fold over what the
code loops over, and its body an operator of its own, named for what one turn does
(`NextNamespace`, `ConsumeBrace`, `CutRawString`, ...), so that the proofs can follow it turn by turn.

| In the modules | In the code |
|---|---|
| `opts` | `_cpplint_state`, `_line_length`, `_valid_extensions`, `_hpp_headers`, `_root` |
| `judge` (of `file`) | `_error_suppressions`, `_global_error_suppressions`, the errors of this file: found, and printed |
| `nesting`, `include`, `function` | `NestingState`, `_IncludeState`, `_FunctionState` |
| `clean` | `CleansedLines` with its four copies |
| `StartFile`, `ProcessLine`, `FinishFile` | `ProcessFile` up to the lines, `ProcessLine`, the rest of `ProcessFileData` and `ProcessFile` |

The properties do not repeat the regular expressions. `ElidedIsCode` compares the prepared
text with a tokenizer of C++ that has one state for the whole file; `NestingOfKeptText`
compares the stack of blocks with the braces that are open in the branches of `#if`
that count; `BracketsAgree` compares the search forward with the search back, from
`(`, `[`, `{` and `<` (from `<` not near the word `operator` and ` >= `, which the two
are written to read differently);
`IncludeOrderExact` and `LongFunctionsReported` say of a whole file which lines are
reported; `ShownAsAsked` derives what is shown from which filter is the nearest;
`JudgedAlone` judges each file by itself and compares; `AcceptedIsClean` is the exit status.

Of the checks that match one regular expression within a line (casts, spacing, braces,
streams, and so on) `LintChecks` has those for tabs, blanks, length, C types and C++11
headers. The others have no state: they read one line and report. The output formats,
the counting modes and the usage text are left out.

## Runs

| Run | Bounds | What it shows |
|---|---|---|
| `chaos_plan` | every DAG over 3 actions, none or two of them loops with sub plans (also nested), 2 workers, any failure, mail or not | all of `ChaosPlan`'s properties, the refinement, and that the chart shows the order and tells the actions apart |
| `rerun_mail` | 2 actions, 1 worker | violation: the second mail may say "passed" |
| `loop` | every DAG over 2 sub-actions, 2 workers, 3 iterations of one run or 2 in two runs, any failure in the first | the first iteration is safe, order inside each iteration, the loop goes on only after a complete one and never hangs |
| `loop_check` | 1 sub-action, 2 workers, 3 iterations | violation: `CHECK(INIT == status_)` aborts |
| `loop_forward` | 2 sub-actions, 2 workers, 2 iterations | violation: a forward `depends` is not kept |
| `graph_client` | 2 actions, 4 calls, 2 spaces, 2 tries instead of ten | the space in effect was asked for, SUCCEEDED is true of this call, every call is answered |
| `client_reconnect` | the same | violation: a reconnection before the first try forgets the space |
| `disturbers` | any 2 of 10 kinds of action, 2 instances, 1 turn, 2 tries | nobody leaves an instance, a rule, a disk or a probe behind that is not accounted for |
| `circle` | 3 rows in batches of 1, 2 tries, 1 fault | OK and ERR_FAILED of the circle's actions mean what they say |
| `meta_actions` | 3 hosts with 2 addresses, 3 partitions, 2 tries, 2 changes; or 1 of 5 actions on files, 2 instances, 2 paths, 2 spaces, 1 turn of the processes | OK only for what is done; equal variables only for equal distributions; files as asked, none without its data |
| `expressions` | 4-bit integers, 2 operands at a time, 1 variable | exact arithmetic, reasons for the end of the process, consistent comparisons |
| `lint` | files of up to 3 to 6 lines from one alphabet each (blocks, includes, functions, comments, brackets, NOLINT, header guards), functions of up to 13 lines; a tree of 4 files with 6 configurations | every file is prepared, judged, shown and counted as it should be, whatever was judged before |

Three actions give every shape a dependency can have (chain, fork, join, independent
actions) and, with two workers, one more ready action than workers. In the plan the
proofs take over where the bounds end. In a loop the third iteration is the first in
which a promise can be two generations old; `MayFail` and `MaxIterations` bound the
iterations in which a sub-action fails, and their number. Two disturbers on two
instances are enough for two to meet on one and for each to find the other's instance;
one turn each is what TLC can reach, and the proofs hold for any number of turns.
Three rows are the smallest circle with a vertex that is
neither the first nor the last, so that a shorter circle and a fixed point are
different faults; the proofs hold for any number of rows, batches, tries and faults.
Four bits give every combination of signs, both ends of the range,
and products that overflow in all four quadrants. With `Try` and `RetryTimes` of 3 the
loops send twice: once, and once again after a failure.

In a second run of a loop the stale promises are those of the first run's End and Begin:
two iterations are the fewest with one in each run. Two paths are the
fewest of which one is not the last; a wal is absent, shorter than `Bytes`, longer, or
too large for an `int32_t` (`MaxInt32` is 3, `Bytes` 2). One turn of the processes can
start an instance, write, or make a snapshot between any two commands.

The alphabets of `lint` hold, for each of the linter's state machines, the lines that it
reacts to: `#if`, `#else` and `#endif` with the namespaces, classes and braces, six lines
being the shortest file with two groups of `#if` that each hold one; every section of
the includes; comments, raw strings and quotes that look like each other. A function may
have 1 line, a test 2 (`NormalTrigger`, `TestTrigger`, 250 and 400 in the code), doubled for each level of
verbosity 0 to 3, a namespace of 2 lines needs its comment (10), and a line has 6 tokens
(80 characters), 7 from the hook. The tree has a file in the root and files one and two
directories down, for the filters of three levels.

Deadlock is checked in every run: an explicit stuttering step stands for the process
that has ended, or for actions that can never start. Symmetry is used where only
invariants (and, in `meta_actions`, one property of single steps) are checked.

### Fairness

Weak fairness of the main (or the loop's) thread and of the workers on each action:
the operating system runs every thread, and the `doRun()` of an action returns or
throws. Nothing is assumed of the outcome, and the queue is not assumed to be fair
beyond that no task waits for ever while workers are free, which a first-in
first-out queue gives.

In `GraphClient` the fairness is weak fairness of each call on its own: the mutex is
held for finitely many steps, and the other calls end, so that a thread that waits for
it gets it. A call to the server returns, with whatever outcome. `Disturbers`, `Circle`,
`MetaActions`, `DataFiles`, `Expressions` and the linter state no liveness and assume no fairness.

### External parts

`graphd`, the hosts of the cluster, `scripts/nebula.service`, ssh, SystemTap, the pid
file and the processes and files of the hosts are not in the repository's `src/` tree: they are modelled by
what the code expects of them, with every failure it looks at. `map` marks them.

## Findings

* `rerun_mail`: `markFailed()` fulfils the sink's promise before `status_` is set, so
  the mail sent "to ensure the email has been send out" may announce success.
* `loop_check`: a loop waits for End only. End itself and Begin may still be inside
  `run()` when the next iteration resets them; `reset()` refuses a running action,
  and two iterations later Begin is run when it is not INIT.
* `loop_forward`: `reset()` and the collection of the promises are one pass over the
  list, so that a dependency on a later action is satisfied by its old promise.
* `client_reconnect`: `execute()` reconnects in two places and restores the space in
  one: after a reconnection that failed, the next call runs in a session without a
  space, although the space was saved "to use when reconnecting".

Also met. Some limit a property and are named there:

* a loop without any failure can return `ERR_FAILED` (the promise of Begin, not
  fulfilled yet, is broken by `reset()`), and a failure can be missed (the window that
  `IterationComplete` names);
* a walk may start at vertex 0 (`start_` is one of `0 .. totalRows_ - 1`), which
  `WriteCircleAction` does not write (`1 .. totalRows_`), and fails on data that are whole
  (`NoFalseAlarm`);
* `README.md:62-67` compares two results "to see if the leaders have changed": the
  results hold the number of leaders at each address, so that two hosts may swap
  leaders unseen (`StableMeansSame`);
* the overflow check of a multiplication divides the smallest integer by -1 when the
  left operand is -1 and the right one positive, which traps (`EndsForAReason`);
  `isSubOverflow` asks `lv > 0` where it needs `lv >= 0`, and negates the right operand,
  so that a number that is not negative minus `minInt` is not seen as an overflow; the
  negation of `minInt` is not checked; both wrap (`IntegersExact`, `SilentWraps`);
* an `int` is less than every `double` and may be equal to it; an infinity is neither
  `<` nor `>` nor `==` itself, `almostEqual` taking the difference, which is NaN, but is
  `<=` and `>=`; a double is `<=` NaN and not less than it; the boolean value of a string is
  whether it is empty (`ComparisonsConsistent`, `AsBool`);
* `CleanDataAction` goes by `state_`, and a failed ssh call of `CheckProcAction` looks
  like a process that is gone: a `RandomRestartAction` that cleans may remove the data
  of a process that runs;
* of several data paths, `RestoreFromCheckpointAction` restores the last only, the answer
  for each replacing that for the one before; both restoring actions return OK for an
  instance that is RUNNING, having done nothing (`FilesAsAsked`);
* `linelength`, `extensions`, `headers` and `root` of a `CPPLINT.cfg` are never set back:
  they hold for every file that is judged after, also outside of the directory, while
  `cpplint.py:253-254` says the file "has an effect on files in the same directory and
  all sub-directories" (`JudgedAlone` is checked with configurations of filters and
  exclusions);
* `_IncludeState` forgets the includes of the wrong branch after a nested `#if`
  (`IncludeOrderExact`);
* the chart merges nodes of loops inside loops (`ChartTellsApart`), and
  `FlowChart.py:47` wants two arguments where `README.md` shows one.

## Proofs

`ChaosPlanProofs` proves, for every `N`, every DAG and every `Concurrency > 0`:
`TypeOK`, `ChecksHold`, `DependencyOrder`, `ReportComplete`, `PoolMailRight`,
`FailureIsReal`, and that every step of `ChaosPlan` is a step or a stutter of
`PlanSpec`.

None of them is inductive. The invariant `Inv` adds
* `GraphInv`: before `Link` the dependees are a DAG of the author; after it, the sink
  depends on the leaves, the roots on the source, and the ranking of the DAG is
  still there;
* `StageInv`: how far an action's continuation is fixes its `status`, its `promise`
  and what it knows of its dependees (attached only if registered; queued only when
  all dependees are fulfilled; and so on);
* `OutcomeInv`: what the plan's `status_`, the mails and the report say, in terms of
  the actions.

`ReportComplete` is where the graph matters: the sink's promise is fulfilled only
after all leaves are, and that all actions are finished follows by taking, among
the actions that are not, one of the highest rank: it has a depender that is
finished, which cannot be (`HighestRank`, `FromTheLeaves`).

`GraphClientProofs` proves, for any number of callers, spaces, calls and tries,
`TypeOK`, `SpaceIsAsked` and `AnswerIsTrue`. The invariant `Inv` says that only the
holder of the mutex is inside, and what each place in `execute()` knows: how many
tries there were, whether the session is valid, what took effect.

`DisturbersProofs` proves, for any number of actions, instances, turns and tries,
`TypeOK`, `StoppedInHand`, `PickSucceeds`, `DisturbanceUndone` and `ProbesUndone`. The
invariant is a conjunction of what each place in an action knows (`PlaceInv`), what
stays true of one that is over (`GoneInv`), of probes (`ProbeInv`) and of started
instances (`StartedInv`). Two arguments count: an instance that is stopped has a holder
and different instances have different ones, so that as many actions are busy as
instances are stopped (a surjection from actions to instances); and a rule is
set on a host at most as often as there are actions between `disturb()` and `recover()`
and deletions that failed unseen, where each step that sets or deletes it changes both
sides by at most or at least as much (`FS_AddElement`, `FS_RemoveElement`).

`CircleProofs` proves, for any plan, any number of rows, size of a batch, tries and
faults, `TypeOK`, `WriteComplete`, `WalkSound`, `IndexComplete` and `NoFalseAlarm`. The
invariant `Inv` adds
* `RowsInv`: without a fault, the rows that are there are as they were written; once a
  job has finished, every row that is there is indexed, then and ever after, since a
  later INSERT goes into the index too;
* `PlaceInv`: what each action knows where it stands, among others that those it depends
  on have returned OK;
* `WrittenInv`: the rows behind a writer are written;
* `WalkInv`: the vertices a walk has read follow each other, and none is its start;
* `CourseInv`: on a circle without a fault, the vertex where a walk is, as a function of
  its start and the number of steps, so that it is back exactly after `TotalRows`.

That no vertex is met twice needs an argument of its own (`NoVertexTwiceForth`,
`NoVertexTwiceBack`): of two equal vertices on a walk the successors are equal, too, so
that the last such pair would end at the start before the walk is over; a lookup does
the same with predecessors and the first pair.

`LoopActionProofs` proves, for any number of sub-actions, threads, runs and iterations and
any DAG, with forward dependencies and without: `TypeOK`, `FirstIterationSafe`, `OrderKept`,
`UsersChecked` and `IterationComplete`. An iteration is orderly or it is not, and then no
later one is (`Doomed`: some dependency points forward, or a sub-action has failed); only of an
orderly one does the invariant say anything of the continuations (`CurrentInv`):
* `LinkInv`, `SinkInv`: what `Linked` makes of the plan's graph, in every run of the loop;
* `FuturesInv`: the promises that an action collects are of this generation. In the first
  iteration there is no other; later it is so since those it depends on stand before it in
  the list. Begin is collected before it is reset, so nothing is said of it;
* `StageInv`, `CollectedInv`: the stage of a continuation fixes the action's status and
  promise, and one that runs has collected values only;
* `CauseInv`, `PastInv`: a failure goes back to a sub-action that failed, and nothing of an
  earlier iteration is still about.

That End waits for every sub-action is the argument of the scheduler over again: among the
unfinished, one of the highest rank has a depender that is finished.

`ExpressionsProofs` proves, for every `MaxInt`, every precision and every expression:
`TypeOK`, `ComparisonsConsistent`, `IntegersExact` and `EndsForAReason`. `TypeOK` is
inductive; the rest follows from the types of two operands, by cases and by arithmetic: the
limit divided by a factor, rounding to zero, is the largest other factor that does not
overflow (`Division`, `Unique`, `DivisionIs`). `ComparisonsAgree` speaks of all values, the
infinities and NaN among them, and names the pairs that no comparison tells anything about.
`SilentWraps` is what the checks for overflow amount to: the integer results that are
wrong and go unnoticed are exactly those of `-minInt` and of a number that is not negative
minus `minInt`. That the guard of `Push`, a result that is a value, turns away nothing the
code computes but a string longer than the bound is the lemma `ApplyIs`.

`DataFilesProofs` proves, for any plan of statements, any number of hosts, addresses,
partitions, tries and changes of the cluster: `TypeOK`, `OKMeansDone` and
`StableMeansSame`. The invariant keeps, of each look at the leaders, a set of online hosts
and an assignment of all partitions that give the text it stored. Two equal texts then have
as many rows, and the i-th of one names the address and the number of the i-th of the other.
`Row` is a bijection from positions to hosts (`Numbered`), so that the partitions at an
address, counted by rows, are the same for both, although two hosts may share it.

Of `DataFiles` it proves, for any such plan with actions on files, any number of instances,
paths and spaces, any `Count` that there are instances for and any number of turns of the
processes:
* `FilesPlanRefines`: it is a plan of statements (`FilesSpec => Spec`), so that its actions
  on files cannot disturb what is proved of `MetaActions`; `TypeOK` is taken from there;
* `NothingHalfDone` and `FilesAsAsked`, from the invariant `FilesInv`.

`FilesInv` says how far the one action that runs has come (`Alone`, `Progress`): for those that go
along the paths of an instance, how many are behind it, and what the directories there are
compared with those of the beginning (`WalsGone`, `SnapsGone`, `Replaced`); for a restore from a
checkpoint, which of the directories it found are still to do (`Restoring`); for a
`TruncateWalAction`, an order of the storages and how many of its slots, storage by storage and
path by path, are cut (`Cutting`), and that the size `ls` gave is still that of the wal when
no process has run since (`Sized`). `HalfDone` names the only directories whose data may be
missing. It needs `SnapsFull`, that a snapshot has data, since no process makes one of an instance
with a directory that has none. That the slots are different and are those of exactly
`Count` instances is division with remainder and a bijection (`SlotIs`, `SlotHas`, `AllSlots`).
A process that runs, and an action elsewhere in the plan, keeps all that (`Elsewhere`), as a
space's id that was found does not change any more (`IdsStay`).

`LintProofs` proves, for every tree of files, all texts, command lines and staged files, all
limits of the linter, and every set of `CPPLINT.cfg` files that filter and exclude:
* `JudgedAlone` (`JudgedAloneAlways`), from the invariant `RunInv`. Between two files the
  settings are those the command line made (`Base`), but for the filters in force; the copy in
  `filters_backup`, with which `StartFile` and `FinishFile` begin and end, is still that of
  the command line. Within a file they are its own, and the file has come from its preparation
  through the lines before `n` with just these settings (`OnItsWay`). Each way out of
  `ProcessFile()` is a case: excluded, not to be opened, a wrong extension, the end of the text.
* `AcceptedIsClean` (`AcceptedIsCleanAlways`), from `RunInv` and `CleanInv`. Of the files
  that are to be judged, none leaves the queue without a judgement that is kept
  (`NoneLost`). `error_count` is 0 just when nothing was shown; within a file it is ahead of
  that by what this file has shown (`CountsShown`), through every check of every line. And
  the hook's arguments are its own from its start to its exit (`CommandInv`): with other extensions
  a staged file would be left out.

The second needs types, as the first does not: a number of errors is the length of a list,
the list grows by whatever a check returns, and this is a sequence only if what the check
reads is one. So the proof types the cleansed lines, the stack of blocks, the includes, the
functions and every check in turn. `IsSequence(s)` stands for the type of a list whose
elements do not matter. Half of the lemmas of `LintProofs` are of this kind, one for each function of
`cpplint.py` that is modelled.

A loop is a fold, and what a fold computes for every sequence would be an induction over data
with an operator as its parameter, which no prover here takes. It is brought down to sets and
functions: a fold over a sequence of length `n` has a course `h[0], ..., h[n]`, where each is one
turn from the one before (`Turn`, `Iterates`, `Steps`), and a set of numbers that holds 0 and,
with each `k - 1`, also `k`, holds them all, since otherwise it would lack a smallest number
(`UpTo`, `Smallest`). The lemma about a loop then has one step, for its body.

`OnlyFilters` is a hypothesis of both theorems, as the comment at `JudgedAlone` says, and an
`ASSUME` of `MCLint`: the other
settings of a `CPPLINT.cfg` stay for the files after (see Findings), and with them a file is not judged as
if it were alone. The repository has no `CPPLINT.cfg`. `LintRunAssumption` says of a world that its files are finitely many, are made
of lines of tokens, and that lists are sequences; and that the hook does not ask for
`--recursive`, which `pre-commit.sh` does not.

Every assumption on a constant is an `ASSUME` of the module that declares it, and TLC
evaluates it in the runs. `TypeOK`, the invariants and `ChecksHold` are proved and not
repeated in a run.

Only model-checked:
* liveness (`Termination`, `FailureReachesPlan`, `EveryCallReturns`) and the fairness half of the refinement:
  out of the prover's reach;
* `ChartTellsOrder` and `ChartTellsApart`: a plan file is a tree, and its definitions are
  recursive; what they compute for every file takes an induction over data;
* `ElidedIsCode`, `NestingOfKeptText`, `BracketsAgree`, `IncludeOrderExact` and
  `LongFunctionsReported`: each compares two computations over the same text, of which one
  is the program's and the other is not organised like it (a tokenizer, a count of braces, a
  search in the other direction, a whole file at once). A proof that they agree for every text is an induction
  with an invariant between two automata for each. Besides, some hold only of texts
  like those of the worlds: `LongFunctionsReported` where no filter and no NOLINT hides the
  report;
* `ShownAsAsked`: it says of each error of each check with which comments and filters it was
  met, and which filter is the nearest, the last match in a list put together from the levels of the
  tree; it stays with the trees and the alphabet of `lint`.

## State of the project

Modelled are the scheduler with its loader and chart, the loop, also inside a loop, the graph
client, instances and disturbers, the circle, the meta actions, the actions on files,
expressions, and the linter with its hook. Proved are the safety properties of all of them but
the loader, the chart and the text of the linter, for the reasons above.

Modules that hold theorems: `ChaosPlanProofs`, `LoopActionProofs`, `GraphClientProofs`,
`DisturbersProofs`, `CircleProofs`, `DataFilesProofs`, `ExpressionsProofs`, `LintProofs`.
What comes next is outside of them: `StoragePerfAction` and the parser, if they get
state worth checking.

## Not modelled

* The tables of the condition parser: generated by flex and bison.
* `StoragePerfAction`: it starts an external tool and scans its output.
* `WaitAction`: its effect is an interleaving that every run has anyway.
* The instance file, the parameters of each action and their defaults, the command line:
  read once, before anything runs.
* A cyclic `depends`: excluded by assumption, as the comment at `ChaosPlan.h:20` has it.
* The linter's checks of one line by one regular expression, but for a few; its output.
* The cmake files.
