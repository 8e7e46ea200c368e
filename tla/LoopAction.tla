----------------------------- MODULE LoopAction -----------------------------
(***************************************************************************)
(* LoopAction::doRun() (core/LoopAction.cpp): the sub-actions of a loop    *)
(* are linked between a source ("Begin") and a sink ("End") and then run   *)
(* once per iteration, for as long as a condition holds, on a pool of the  *)
(* loop's own.  The same Action objects serve every iteration: reset()     *)
(* gives an action a new promise, so that a promise has a generation, and  *)
(* a continuation attached in one iteration may live on in the next.       *)
(*                                                                         *)
(* The loop's thread resets and registers the actions one by one, in the   *)
(* order of actions_: the sub-actions, then End, then Begin.  A loop that  *)
(* is inside another one is run again and appends one more End and Begin,  *)
(* that are linked to those of the runs before.                            *)
(***************************************************************************)
EXTENDS Integers, FiniteSets

CONSTANTS
    N,                \* the number of sub-actions
    Concurrency,      \* the number of threads of the loop's pool
    MaxRuns,          \* bound: how often doRun() is called
    MaxIterations,    \* bound: the condition is false after so many iterations
                      \* of all runs, while the first, the second, ... is on
    MayFail           \* bound: the iterations in which a sub-action may fail

ASSUME LoopAssumption ==
    /\ N \in Nat
    /\ Concurrency \in Nat \ {0}
    /\ MaxRuns \in Nat \ {0}
    /\ MaxIterations \in [1..MaxRuns -> Nat]
    /\ \A run \in 1..MaxRuns : MaxIterations[run] <= MaxIterations[1]
    /\ MayFail \subseteq 1..MaxIterations[1]

Users == 1..N

EndOf(run) == N + 2 * run - 1

BeginOf(run) == N + 2 * run

Actions == 1..BeginOf(MaxRuns)

Iterations == 1..MaxIterations[1]

Generations == 0..MaxIterations[1]

VARIABLES
    runs,             \* how often doRun() was called
    dependees,        \* dependees_ of each action, as a set
    status,           \* Action::status_
    gen,              \* which promise promise_ points to: how often it was reset
    promise,          \* the state of each promise an action has had
    futures,          \* the promises, as <<action, generation>>, that the
                      \* continuation of each iteration and action collects
    cont,             \* where that continuation stands
    rc,               \* the loop's local rc
    iteration,        \* loopTimes
    registered,       \* how many actions this iteration has registered
    loop              \* where the loop's thread stands

(* sinkAction and sourceAction of this call of doRun().                     *)
End == EndOf(runs)

Begin == BeginOf(runs)

actionVars == <<status, gen, promise, futures, cont>>
loopVars == <<rc, iteration, registered, loop>>
linkVars == <<runs, dependees>>
vars == <<linkVars, actionVars, loopVars>>

Status == {"init", "running", "succeeded", "failed"}

Terminal == {"succeeded", "failed"}

(* "queued" and "error" are tasks of the pool: the thenValue and thenError  *)
(* callbacks.  In the Busy ones a worker is inside doRun(), about to fulfil *)
(* the promise in run() or in markFailed(), or about to set rc.             *)
Busy == {"body", "fulfilValue", "fulfilException", "fulfilFailed", "setRc"}

Cont == {"none", "waiting", "queued", "error", "succeeded", "failed"} \cup Busy

Acyclic(g) ==
    \E rank \in [Users -> Users] :
        \A a \in Users : \A d \in g[a] : rank[d] < rank[a]

(* Lines 14-34 of a run, on the actions there are: the new End depends on   *)
(* those without dependers, those without dependees on the new Begin.       *)
Linked(g, run) ==
    LET there == 1..BeginOf(run - 1)
        roots == {a \in there : g[a] = {}}
        leaves == {a \in there : \A b \in there : a \notin g[b]}
    IN [a \in Actions |->
          IF a = EndOf(run) THEN leaves
          ELSE IF a \in roots THEN {BeginOf(run)} ELSE g[a]]

Init ==
    /\ \E g \in [Users -> SUBSET Users] :
          Acyclic(g) /\ dependees = Linked([a \in Actions |-> IF a \in Users THEN g[a] ELSE {}], 1)
    /\ runs = 1
    /\ status = [a \in Actions |-> "init"]
    /\ gen = [a \in Actions |-> 0]
    /\ promise = [a \in Actions |-> [g \in Generations |-> "pending"]]
    /\ futures = [i \in Iterations |-> [a \in Actions |-> {}]]
    /\ cont = [i \in Iterations |-> [a \in Actions |-> "none"]]
    /\ rc = "OK"
    /\ iteration = 0
    /\ registered = 0
    /\ loop = "eval"

-----------------------------------------------------------------------------
(* folly::collect(): it is done when all the promises have a value, or as   *)
(* soon as one has an exception.                                            *)
Collect(p, fs) ==
    IF \E f \in fs : p[f[1]][f[2]] = "exception" THEN "error"
    ELSE IF \A f \in fs : p[f[1]][f[2]] = "value" THEN "queued"
    ELSE "waiting"

(* Variants of an operator, named for what they get wrong, stand before it:  *)
(* they are what the properties below tell the code apart from.             *)
AwokenAgain(p, c) ==
    [i \in Iterations |-> [a \in Actions |->
        IF c[i][a] \in {"waiting", "succeeded"} THEN Collect(p, futures[i][a])
        ELSE c[i][a]]]

(* The continuations after some promises were fulfilled, given those before. *)
Awoken(p, c) ==
    [i \in Iterations |-> [a \in Actions |->
        IF c[i][a] = "waiting" THEN Collect(p, futures[i][a]) ELSE c[i][a]]]

-----------------------------------------------------------------------------
(* The loop's thread.  An exception or an error of the condition, at its    *)
(* parsing too, ends the loop as a failure.                                 *)
Stop ==
    /\ loop = "eval"
    /\ loop' \in {"OK", "ERR_FAILED"}
    /\ UNCHANGED <<linkVars, actionVars, rc, iteration, registered>>

(* The outer loop goes on: it resets the LoopAction and runs it again.      *)
RunAgain ==
    /\ loop = "OK"
    /\ runs < MaxRuns /\ iteration < MaxIterations[runs + 1]
    /\ runs' = runs + 1
    /\ dependees' = Linked(dependees, runs + 1)
    /\ loop' = "eval"
    /\ UNCHANGED <<actionVars, rc, iteration, registered>>

Iterate ==
    /\ loop = "eval"
    /\ iteration < MaxIterations[runs]
    /\ iteration' = iteration + 1
    /\ registered' = 0
    /\ rc' = "OK"
    /\ loop' = "register"
    /\ UNCHANGED <<linkVars, actionVars>>

ResetKeepsPromise(a) ==
    IF status[a] \in Terminal
    THEN /\ status' = [status EXCEPT ![a] = "init"]
         /\ UNCHANGED <<gen, promise>>
    ELSE UNCHANGED <<status, gen, promise>>

ResetFailedOnly(a) ==
    IF status[a] = "failed"
    THEN /\ status' = [status EXCEPT ![a] = "init"]
         /\ gen' = [gen EXCEPT ![a] = @ + 1]
         /\ promise' = [promise EXCEPT ![a][gen[a]] = IF @ = "pending" THEN "exception" ELSE @]
    ELSE UNCHANGED <<status, gen, promise>>

(* Action::reset() of action a: refused unless the action has finished.     *)
(* The old promise is destroyed: if it is not fulfilled, its futures get a  *)
(* BrokenPromise exception.                                                 *)
Reset(a) ==
    IF status[a] \in Terminal
    THEN /\ status' = [status EXCEPT ![a] = "init"]
         /\ gen' = [gen EXCEPT ![a] = @ + 1]
         /\ promise' = [promise EXCEPT ![a][gen[a]] = IF @ = "pending" THEN "exception" ELSE @]
    ELSE UNCHANGED <<status, gen, promise>>

(* One turn of the for statement over actions_: reset the action and attach *)
(* its continuation to the promises its dependees have at this moment.      *)
Register ==
    LET a == registered + 1
        fs == {<<d, gen'[d]>> : d \in dependees[a]} IN
    /\ loop = "register"
    /\ Reset(a)
    /\ futures' = [futures EXCEPT ![iteration][a] = fs]
    /\ cont' = [Awoken(promise', cont) EXCEPT ![iteration][a] = Collect(promise', fs)]
    /\ registered' = a
    /\ loop' = IF a = Begin THEN "wait" ELSE "register"
    /\ UNCHANGED <<linkVars, rc, iteration>>

IterationEndsRegardless ==
    /\ loop = "wait"
    /\ promise[End][gen[End]] # "pending"
    /\ loop' = "eval"
    /\ UNCHANGED <<linkVars, actionVars, rc, iteration, registered>>

(* The sink's promise is fulfilled: go on, unless rc says that one failed.  *)
IterationEnds ==
    /\ loop = "wait"
    /\ promise[End][gen[End]] # "pending"
    /\ loop' = IF rc = "OK" THEN "eval" ELSE "ERR_FAILED"
    /\ UNCHANGED <<linkVars, actionVars, rc, iteration, registered>>

-----------------------------------------------------------------------------
(* The workers.  A worker's step concerns the continuation that iteration i *)
(* attached to action a; none is made once a CHECK has aborted the process. *)

Working == {w \in Iterations \X Actions : cont[w[1]][w[2]] \in Busy}

WorkerFree == Cardinality(Working) < Concurrency

Step(i, a, c) ==
    /\ loop # "aborted"
    /\ cont' = [cont EXCEPT ![i][a] = c]

(* The CHECKs of Action::run(): INIT before doRun(), RUNNING after it.      *)
CheckFails(i, a) ==
    /\ \/ cont[i][a] = "queued" /\ WorkerFree /\ status[a] # "init"
       \/ cont[i][a] = "body" /\ status[a] # "running"
    /\ loop # "aborted"
    /\ loop' = "aborted"
    /\ UNCHANGED <<linkVars, actionVars, rc, iteration, registered>>

Run(i, a) ==
    /\ cont[i][a] = "queued"
    /\ WorkerFree
    /\ status[a] = "init"
    /\ status' = [status EXCEPT ![a] = "running"]
    /\ Step(i, a, "body")
    /\ UNCHANGED <<linkVars, gen, promise, futures, loopVars>>

(* doRun() returns OK or, in a sub-action, any other ResultCode, or throws. *)
BodyReturns(i, a) ==
    /\ cont[i][a] = "body"
    /\ status[a] = "running"
    /\ \E s \in Terminal :
        /\ a \notin Users \/ i \notin MayFail => s = "succeeded"
        /\ status' = [status EXCEPT ![a] = s]
        /\ Step(i, a, IF s = "succeeded" THEN "fulfilValue" ELSE "fulfilException")
    /\ UNCHANGED <<linkVars, gen, promise, futures, loopVars>>

BodyThrows(i, a) ==
    /\ cont[i][a] = "body"
    /\ a \in Users /\ i \in MayFail
    /\ Step(i, a, "error")
    /\ UNCHANGED <<linkVars, status, gen, promise, futures, loopVars>>

(* promise_->setTry() or setException(): it throws when the promise that    *)
(* promise_ points to by now is fulfilled already.                          *)
FulfilPromise(i, a, v, c, onThrow) ==
    IF promise[a][gen[a]] = "pending"
    THEN /\ promise' = [promise EXCEPT ![a][gen[a]] = v]
         /\ loop # "aborted"
         /\ cont' = [Awoken(promise', cont) EXCEPT ![i][a] = c]
    ELSE /\ Step(i, a, onThrow)
         /\ UNCHANGED promise

(* The end of Action::run().                                                *)
Fulfil(i, a) ==
    /\ \/ /\ cont[i][a] = "fulfilValue"
          /\ FulfilPromise(i, a, "value", "succeeded", "error")
       \/ /\ cont[i][a] = "fulfilException"
          /\ FulfilPromise(i, a, "exception", "failed", "error")
    /\ UNCHANGED <<linkVars, status, gen, futures, loopVars>>

(* The thenError callback: Action::markFailed(), then rc.                   *)
HandleError(i, a) ==
    /\ cont[i][a] = "error"
    /\ WorkerFree
    /\ status' = [status EXCEPT ![a] = "failed"]
    /\ Step(i, a, "fulfilFailed")
    /\ UNCHANGED <<linkVars, gen, promise, futures, loopVars>>

MarkedWithoutPromise(i, a) ==
    /\ cont[i][a] = "fulfilFailed"
    /\ Step(i, a, "setRc")
    /\ UNCHANGED <<linkVars, status, gen, promise, futures, loopVars>>

FulfilFailed(i, a) ==
    /\ cont[i][a] = "fulfilFailed"
    /\ FulfilPromise(i, a, "exception", "setRc", "failed")
    /\ UNCHANGED <<linkVars, status, gen, futures, loopVars>>

(* rc is captured by reference and is local to an iteration: a callback of  *)
(* an iteration that is over writes to a variable that is gone, whose place *)
(* the rc of the present iteration may have taken.                          *)
SetRc(i, a) ==
    /\ cont[i][a] = "setRc"
    /\ Step(i, a, "failed")
    /\ rc' \in IF i = iteration THEN {"ERR_FAILED"} ELSE {rc, "ERR_FAILED"}
    /\ UNCHANGED <<linkVars, status, gen, promise, futures, iteration, registered, loop>>

WorkerStep(i, a) ==
    \/ CheckFails(i, a) \/ Run(i, a) \/ BodyReturns(i, a) \/ BodyThrows(i, a)
    \/ Fulfil(i, a) \/ HandleError(i, a) \/ FulfilFailed(i, a) \/ SetRc(i, a)

-----------------------------------------------------------------------------
LoopStep == Stop \/ RunAgain \/ Iterate \/ Register \/ IterationEnds

Returned ==
    /\ loop \in {"OK", "ERR_FAILED", "aborted"}
    /\ UNCHANGED vars

Next ==
    \/ LoopStep
    \/ \E i \in Iterations, a \in Actions : WorkerStep(i, a)
    \/ Returned

(* Every thread is run, and the doRun() of a sub-action returns or throws.  *)
Fairness ==
    /\ WF_vars(LoopStep)
    /\ \A i \in Iterations, a \in Actions : WF_vars(WorkerStep(i, a))

Spec == Init /\ [][Next]_vars /\ Fairness

-----------------------------------------------------------------------------
(* Type correctness of the state of doRun() and of the sub-actions.         *)
TypeOK ==
    /\ runs \in 1..MaxRuns
    /\ dependees \in [Actions -> SUBSET Actions]
    /\ status \in [Actions -> Status]
    /\ gen \in [Actions -> Generations]
    /\ promise \in [Actions -> [Generations -> {"pending", "value", "exception"}]]
    /\ futures \in [Iterations -> [Actions -> SUBSET (Actions \X Generations)]]
    /\ cont \in [Iterations -> [Actions -> Cont]]
    /\ rc \in {"OK", "ERR_FAILED"}
    /\ iteration \in Iterations \cup {0}
    /\ registered \in 0..BeginOf(MaxRuns)
    /\ loop \in {"eval", "register", "wait", "OK", "ERR_FAILED", "aborted"}

Ran(i, a) == cont[i][a] \in {"body", "fulfilValue", "fulfilException", "succeeded"}

Succeeded(i, a) == cont[i][a] \in {"fulfilValue", "succeeded"}

(* No sub-action depends on one that stands after it in the plan.           *)
Backward == \A a \in Users : \A d \in dependees[a] \cap Users : d < a

(* An iteration that starts from a clean state: the first one, or one that  *)
(* only has before it iterations in which every sub-action succeeded, in a  *)
(* loop that lists each sub-action after those it depends on.               *)
Orderly(i) ==
    i > 1 =>
        /\ Backward
        /\ \A j \in 1..(i - 1), b \in Users : cont[j][b] = "succeeded"

(* In an orderly iteration a sub-action is run only after the sub-actions   *)
(* it depends on have succeeded in that same iteration, although the        *)
(* promises of the last iteration are still about when it is registered.    *)
OrderKept ==
    iteration > 0 /\ Orderly(iteration) =>
        \A a \in Users :
            Ran(iteration, a) =>
                \A d \in dependees[a] \cap Users : Succeeded(iteration, d)

(* In an orderly iteration no sub-action of the plan can fail the CHECK at  *)
(* the start of run(): only "Begin" can.                                    *)
UsersChecked ==
    iteration > 0 /\ Orderly(iteration) =>
        \A a \in Users : cont[iteration][a] = "queued" => status[a] = "init"

(* In the first iteration no CHECK of Action::run() aborts the process, and *)
(* rc reports a failure only after a sub-action of the plan has failed.     *)
FirstIterationSafe ==
    iteration = 1 =>
        /\ loop # "aborted"
        /\ rc # "OK" => \E a \in Users : cont[1][a] \in {"failed", "setRc"}

(* The loop goes on after an orderly iteration only if each sub-action has  *)
(* been run and succeeded in it, or if the handler of End's failure has     *)
(* fulfilled End's promise and not yet written rc: that window is the only  *)
(* way for a failure to go unnoticed.                                       *)
IterationComplete ==
    [][loop = "wait" /\ loop' = "eval" /\ Orderly(iteration) =>
        \/ \A a \in Users : cont[iteration][a] = "succeeded"
        \/ cont[iteration][End] = "setRc"]_vars

(* The loop's thread never waits forever, however stale the promises that   *)
(* the continuations of an iteration collect: it returns, or a CHECK fails. *)
Termination == []<>(loop \in {"OK", "ERR_FAILED", "aborted"})

(* CHECK(Status::INIT == status_) (Action.h:117) and CHECK(Status::RUNNING  *)
(* == status_) (Action.h:125) hold in every iteration of a loop.            *)
NoAbort == loop # "aborted"

(* "The dependency between actions need to be specified in `depends`        *)
(* field" (README.md): in every iteration a sub-action is run after all the *)
(* sub-actions that its depends field names.                                *)
IterationOrder ==
    \A i \in Iterations, a \in Users :
        Ran(i, a) => \A d \in dependees[a] \cap Users : Succeeded(i, d)
=============================================================================
