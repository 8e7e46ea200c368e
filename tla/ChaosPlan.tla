----------------------------- MODULE ChaosPlan ------------------------------
(***************************************************************************)
(* ChaosPlan::schedule() (core/ChaosPlan.cpp) and the life of an Action    *)
(* under it (core/Action.h): the main thread links the user's actions to a *)
(* sink that mails the outcome ("Send Email") and to a source ("Begin"),   *)
(* attaches to each action a continuation on the promises of its           *)
(* dependees, and waits for the sink's promise; the worker threads of the  *)
(* plan's pool run the continuations.                                      *)
(*                                                                         *)
(* An action has an index, its position in actions_; the sink and the      *)
(* source are appended by schedule(), in that order.  A task of the pool   *)
(* is taken in any order, which includes the first-in first-out order of   *)
(* the real queue.                                                         *)
(***************************************************************************)
EXTENDS Integers, FiniteSets

CONSTANTS
    N,               \* the number of actions in the plan that is loaded
    Concurrency      \* the number of threads of threadsPool_

ASSUME NAssumption == N \in Nat

ASSUME ConcurrencyAssumption == Concurrency \in Nat \ {0}

Users == 1..N

Sink == N + 1

Source == N + 2

Actions == 1..(N + 2)

VARIABLES
    dependees,       \* dependees_ of each action, as a set
    status,          \* Action::status_
    promise,         \* Action::promise_: not fulfilled, a value, an exception
    cont,            \* where the continuation attached to the action stands
    planStatus,      \* ChaosPlan::status_
    emailTo,         \* whether emailTo_ is not empty
    mail,            \* the subject of the mail sent by the sink's own run and
                     \* by its second run on the main thread
    registered,      \* how many actions have their continuation attached
    main,            \* where the main thread stands
    report           \* the STATUS line logged after schedule()

planVars == <<dependees, emailTo>>
actionVars == <<status, promise, cont>>
outcomeVars == <<planStatus, mail, report>>
mainVars == <<registered, main>>
vars == <<planVars, actionVars, outcomeVars, mainVars>>

Status == {"init", "running", "succeeded", "failed"}

Terminal == {"succeeded", "failed"}

Promise == {"pending", "value", "exception"}

(* "queued" and "error" are tasks of the pool that wait for a worker: the   *)
(* thenValue and the thenError callback.  In the Busy ones a worker is      *)
(* inside doRun(), about to fulfil the promise in run() or in markFailed(), *)
(* or about to set the plan's status_.                                      *)
Busy == {"body", "fulfil", "fulfilFailed", "setFailed"}

Cont == {"none", "waiting", "queued", "error", "finished"} \cup Busy

MainPC == {"link", "register", "wait", "rerun", "report", "stop", "done", "terminated"}

(* The plan is a DAG: the dependees can be ranked below their dependers.    *)
Acyclic(g) ==
    \E rank \in [Users -> Users] :
        \A a \in Users : \A d \in g[a] : rank[d] < rank[a]

Init ==
    /\ \E g \in [Users -> SUBSET Users] :
        /\ Acyclic(g)
        /\ dependees = [a \in Actions |-> IF a \in Users THEN g[a] ELSE {}]
    /\ emailTo \in BOOLEAN
    /\ status = [a \in Actions |-> "init"]
    /\ promise = [a \in Actions |-> "pending"]
    /\ cont = [a \in Actions |-> "none"]
    /\ planStatus = "SUCCEEDED"
    /\ mail = [pool |-> "none", rerun |-> "none"]
    /\ report = "none"
    /\ registered = 0
    /\ main = "link"

-----------------------------------------------------------------------------
(* The main thread, until it waits.                                         *)

Roots == {a \in Users : dependees[a] = {}}

Leaves == {a \in Users : \A b \in Users : a \notin dependees[b]}

Link ==
    /\ main = "link"
    /\ dependees' = [a \in Actions |->
                        IF a = Sink THEN Leaves
                        ELSE IF a \in Roots THEN {Source}
                        ELSE dependees[a]]
    /\ main' = "register"
    /\ UNCHANGED <<emailTo, actionVars, outcomeVars, registered>>

(* Variants of an operator, named for what they get wrong, stand before it:  *)
(* they are what the properties below tell the code apart from.             *)

CollectedAny(p, a) == dependees[a] = {} \/ \E d \in dependees[a] : p[d] # "pending"

(* folly::collect() in the place of collectAll().                           *)
CollectedFailFast(p, a) ==
    \/ \A d \in dependees[a] : p[d] # "pending"
    \/ \E d \in dependees[a] : p[d] = "exception"

(* collectAll(): every dependee's promise is fulfilled, one way or another. *)
Collected(p, a) == \A d \in dependees[a] : p[d] # "pending"

Register ==
    LET a == registered + 1 IN
    /\ main = "register"
    /\ registered' = a
    /\ cont' = [cont EXCEPT ![a] = IF Collected(promise, a) THEN "queued" ELSE "waiting"]
    /\ main' = IF a = Source THEN "wait" ELSE "register"
    /\ UNCHANGED <<planVars, status, promise, outcomeVars>>

-----------------------------------------------------------------------------
(* The workers.                                                             *)

Working == {a \in Actions : cont[a] \in Busy}

WorkerFree == Cardinality(Working) < Concurrency

(* What a worker does to a's continuation, unless the process has exited.   *)
Step(a, c) ==
    /\ main # "terminated"
    /\ cont' = [cont EXCEPT ![a] = c]

(* Fulfilling a's promise queues each continuation that waited only for it. *)
FulfilPromise(a, v, c) ==
    /\ main # "terminated"
    /\ promise' = [promise EXCEPT ![a] = v]
    /\ cont' = [b \in Actions |->
                  IF b = a THEN c
                  ELSE IF cont[b] = "waiting" /\ Collected(promise', b) THEN "queued"
                  ELSE cont[b]]

(* The thenValue callback of a, when a dependee's promise has an exception. *)
Skip(a) ==
    /\ cont[a] = "queued"
    /\ WorkerFree
    /\ \E d \in dependees[a] : promise[d] = "exception"
    /\ status' = [status EXCEPT ![a] = "failed"]
    /\ Step(a, "fulfilFailed")
    /\ UNCHANGED <<planVars, promise, outcomeVars, mainVars>>

RunRegardless(a) ==
    /\ cont[a] = "queued"
    /\ WorkerFree
    /\ status' = [status EXCEPT ![a] = "running"]
    /\ Step(a, "body")
    /\ UNCHANGED <<planVars, promise, outcomeVars, mainVars>>

(* The thenValue callback of a, when there is none: Action::run().          *)
Run(a) ==
    /\ cont[a] = "queued"
    /\ WorkerFree
    /\ \A d \in dependees[a] : promise[d] # "exception"
    /\ status' = [status EXCEPT ![a] = "running"]
    /\ Step(a, "body")
    /\ UNCHANGED <<planVars, promise, outcomeVars, mainVars>>

(* doRun() returns: OK for "Begin", any ResultCode for a user's action.     *)
BodyReturns(a) ==
    /\ cont[a] = "body"
    /\ a # Sink
    /\ \E s \in Terminal :
        /\ a = Source => s = "succeeded"
        /\ status' = [status EXCEPT ![a] = s]
    /\ Step(a, "fulfil")
    /\ UNCHANGED <<planVars, promise, outcomeVars, mainVars>>

(* doRun() throws: the exception goes to the thenError callback, another    *)
(* task of the pool; status_ stays RUNNING.                                 *)
BodyThrows(a) ==
    /\ cont[a] = "body"
    /\ a \in Users
    /\ Step(a, "error")
    /\ UNCHANGED <<planVars, status, promise, outcomeVars, mainVars>>

Subject == IF planStatus = "SUCCEEDED" THEN "passed" ELSE "failed"

(* The sink's task has no one to mail to, or the mail command succeeds.     *)
MailSent(who) ==
    mail' = IF emailTo THEN [mail EXCEPT ![who] = Subject] ELSE mail

SinkReturns(a) ==
    /\ a = Sink
    /\ cont[a] = "body"
    /\ MailSent("pool")
    /\ status' = [status EXCEPT ![a] = "succeeded"]
    /\ Step(a, "fulfil")
    /\ UNCHANGED <<planVars, promise, planStatus, report, mainVars>>

(* waitChecked() throws when the mail command exits with an error.          *)
SinkThrows(a) ==
    /\ a = Sink
    /\ cont[a] = "body"
    /\ emailTo
    /\ Step(a, "error")
    /\ UNCHANGED <<planVars, status, promise, outcomeVars, mainVars>>

(* The end of Action::run().                                                *)
Fulfil(a) ==
    /\ cont[a] = "fulfil"
    /\ FulfilPromise(a, IF status[a] = "succeeded" THEN "value" ELSE "exception", "finished")
    /\ UNCHANGED <<planVars, status, outcomeVars, mainVars>>

(* The thenError callback: Action::markFailed(), then the plan's status_.   *)
HandleError(a) ==
    /\ cont[a] = "error"
    /\ WorkerFree
    /\ status' = [status EXCEPT ![a] = "failed"]
    /\ Step(a, "fulfilFailed")
    /\ UNCHANGED <<planVars, promise, outcomeVars, mainVars>>

MarkedWithoutPromise(a) ==
    /\ cont[a] = "fulfilFailed"
    /\ Step(a, "setFailed")
    /\ UNCHANGED <<planVars, status, promise, outcomeVars, mainVars>>

FulfilFailed(a) ==
    /\ cont[a] = "fulfilFailed"
    /\ FulfilPromise(a, "exception", "setFailed")
    /\ UNCHANGED <<planVars, status, outcomeVars, mainVars>>

SetFailedForgotten(a) ==
    /\ cont[a] = "setFailed"
    /\ Step(a, "finished")
    /\ UNCHANGED <<planVars, status, promise, outcomeVars, mainVars>>

SetFailed(a) ==
    /\ cont[a] = "setFailed"
    /\ planStatus' = "FAILED"
    /\ Step(a, "finished")
    /\ UNCHANGED <<planVars, status, promise, mail, report, mainVars>>

WorkerStep(a) ==
    \/ Skip(a) \/ Run(a)
    \/ BodyReturns(a) \/ BodyThrows(a)
    \/ SinkReturns(a) \/ SinkThrows(a)
    \/ Fulfil(a) \/ HandleError(a) \/ FulfilFailed(a) \/ SetFailed(a)

-----------------------------------------------------------------------------
(* The main thread, from the wait on.                                       *)

WakeUpAlwaysReruns ==
    /\ main = "wait"
    /\ promise[Sink] # "pending"
    /\ main' = "rerun"
    /\ UNCHANGED <<planVars, actionVars, outcomeVars, registered>>

WakeUp ==
    /\ main = "wait"
    /\ promise[Sink] # "pending"
    /\ main' = IF status[Sink] = "failed" THEN "rerun" ELSE "report"
    /\ UNCHANGED <<planVars, actionVars, outcomeVars, registered>>

(* sinkAction->doRun() called by schedule() itself.                         *)
Rerun ==
    /\ main = "rerun"
    /\ MailSent("rerun")
    /\ main' = "report"
    /\ UNCHANGED <<planVars, actionVars, planStatus, report, registered>>

(* Nothing above schedule() catches what the mail command throws.           *)
RerunThrows ==
    /\ main = "rerun"
    /\ emailTo
    /\ main' = "terminated"
    /\ UNCHANGED <<planVars, actionVars, outcomeVars, registered>>

(* run() of the tool logs plan->toString() after schedule().                *)
Report ==
    /\ main = "report"
    /\ report' = planStatus
    /\ main' = "stop"
    /\ UNCHANGED <<planVars, actionVars, planStatus, mail, registered>>

(* ~ChaosPlan() stops the pool, which joins the workers.                    *)
Stop ==
    /\ main = "stop"
    /\ Working = {}
    /\ main' = "done"
    /\ UNCHANGED <<planVars, actionVars, outcomeVars, registered>>

MainStep ==
    \/ Link \/ Register \/ WakeUp \/ Rerun \/ RerunThrows \/ Report \/ Stop

Exited ==
    /\ main \in {"done", "terminated"}
    /\ UNCHANGED vars

Next == MainStep \/ (\E a \in Actions : WorkerStep(a)) \/ Exited

(* The operating system runs every thread, and the doRun() of an action     *)
(* returns or throws.                                                       *)
Fairness == WF_vars(MainStep) /\ \A a \in Actions : WF_vars(WorkerStep(a))

Spec == Init /\ [][Next]_vars /\ Fairness

-----------------------------------------------------------------------------
(* Type correctness of the variables of schedule().                         *)
TypeOK ==
    /\ dependees \in [Actions -> SUBSET Actions]
    /\ emailTo \in BOOLEAN
    /\ status \in [Actions -> Status]
    /\ promise \in [Actions -> Promise]
    /\ cont \in [Actions -> Cont]
    /\ planStatus \in {"SUCCEEDED", "FAILED"}
    /\ mail \in [{"pool", "rerun"} -> {"none", "passed", "failed"}]
    /\ report \in {"none", "SUCCEEDED", "FAILED"}
    /\ registered \in 0..(N + 2)
    /\ main \in MainPC

(* The two CHECKs of Action::run() (Action.h:117 and :125) never abort the  *)
(* process: an action is INIT when its continuation is about to run it, and *)
(* RUNNING when its doRun() comes back.                                     *)
ChecksHold ==
    \A a \in Actions :
        /\ cont[a] \in {"waiting", "queued"} => status[a] = "init"
        /\ cont[a] = "body" => status[a] = "running"

(* An action is run only after all those it depends on have succeeded, the  *)
(* source and the sink included, whatever the order in which the plan lists *)
(* them and whatever the workers do.                                        *)
DependencyOrder ==
    \A a \in Actions :
        status[a] \in {"running", "succeeded"} =>
            \A d \in dependees[a] : status[d] = "succeeded"

(* When a mail is composed or the plan is reported, every action that the   *)
(* mail lists (ChaosPlan::toString()) has its final status: schedule() does *)
(* not return over a running action, also when the plan fails.              *)
ReportComplete ==
    mail["pool"] # "none" \/ main \in {"rerun", "report", "stop", "done", "terminated"}
        => \A a \in Users : status[a] \in Terminal

(* The mail that the sink sends from the pool says that the plan passed,    *)
(* and then every action of the plan succeeded.                             *)
PoolMailRight ==
    mail["pool"] # "none" =>
        /\ mail["pool"] = "passed"
        /\ \A a \in Users : status[a] = "succeeded"

(* A plan is called failed, in status_ and in what is mailed or logged of   *)
(* it, only when an action of it failed or the mail could not be sent.      *)
FailureIsReal ==
    "FAILED" \in {planStatus, report} \/ mail["rerun"] # "none"
        => \E a \in Users \cup {Sink} : status[a] = "failed"

(* The mail sent by the second run of the sink, which schedule() makes only *)
(* when the plan failed ("The plan failed, rerun the last action to ensure  *)
(* the email has been send out!", ChaosPlan.cpp:107), says so.              *)
RerunMailSaysFailed == mail["rerun"] # "passed"

(* schedule() comes back: no plan whose dependencies are a DAG can leave    *)
(* the main thread waiting, with however few workers.                       *)
Termination == <>(main \in {"done", "terminated"})

(* Once an action has failed the plan's status_ becomes FAILED, unless an   *)
(* exception of the second mail ends the process first.                     *)
FailureReachesPlan ==
    (\E a \in Actions : status[a] = "failed")
        ~> (planStatus = "FAILED" \/ main = "terminated")

-----------------------------------------------------------------------------
(* What each of the user's actions looks like to the author of the plan.    *)
AbstractState ==
    [a \in Users |-> IF status[a] = "init" THEN "waiting" ELSE status[a]]

AbstractDependees == [a \in Users |-> dependees[a] \ {Source}]

AbstractReported == main \notin {"link", "register", "wait"}

Abstract == INSTANCE PlanSpec WITH
    dependees <- AbstractDependees,
    state <- AbstractState,
    reported <- AbstractReported

(* schedule() keeps the promise of PlanSpec: it runs an action only after   *)
(* its dependees succeeded, skips one only when all its dependees are       *)
(* finished and one of them failed, changes no outcome once there is one,   *)
(* gives every action an outcome, and only then goes on to the report.      *)
ImplementsPlanSpec == Abstract!Spec
=============================================================================
