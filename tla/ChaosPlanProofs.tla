-------------------------- MODULE ChaosPlanProofs ---------------------------
(***************************************************************************)
(* Proofs about ChaosPlan for every number of actions, every DAG over them *)
(* and every number of workers: type correctness, the two CHECKs, the      *)
(* order of dependencies, the completeness of the report, the subject of   *)
(* the sink's mail, and that every step of schedule() is a step of         *)
(* PlanSpec or leaves what PlanSpec sees as it is.                         *)
(***************************************************************************)
EXTENDS ChaosPlan, WellFoundedInduction, TLAPS

(* The shape of the graph: the user's dependencies form a DAG; the source   *)
(* depends on nothing, and once schedule() has linked it the sink depends   *)
(* on all the leaves.                                                       *)
GraphInv ==
    /\ \A a \in Users : dependees[a] \subseteq Users \cup {Source}
    /\ main = "link" => \A a \in Users : dependees[a] \subseteq Users
    /\ \E rank \in [Users -> Users] :
          \A a \in Users : \A d \in dependees[a] \cap Users : rank[d] < rank[a]
    /\ dependees[Source] = {}
    /\ dependees[Sink] \subseteq Users
    /\ main # "link" =>
          \A a \in Users : (\A b \in Users : a \notin dependees[b]) => a \in dependees[Sink]

(* What the stage of an action's continuation says of its status, of its    *)
(* promise and of the promises of its dependees.                            *)
StageInv ==
    \A a \in Actions :
        /\ cont[a] \in {"none", "waiting", "queued"} => status[a] = "init"
        /\ cont[a] \in {"body", "error"} => status[a] = "running"
        /\ cont[a] = "fulfil" => status[a] \in Terminal
        /\ cont[a] \in {"fulfilFailed", "setFailed"} => status[a] = "failed"
        /\ cont[a] = "finished" => status[a] \in Terminal
        /\ promise[a] # "pending" <=> cont[a] \in {"setFailed", "finished"}
        /\ promise[a] = "value" => status[a] = "succeeded"
        /\ promise[a] = "exception" => status[a] = "failed"
        /\ cont[a] \notin {"none", "waiting"} => Collected(promise, a)
        /\ status[a] \in {"running", "succeeded"} =>
              \A d \in dependees[a] : promise[d] = "value"

(* Where the main thread and the source stand, and what the plan's status_  *)
(* and the sink's mail go back to.                                          *)
OutcomeInv ==
    /\ main = "link" => registered = 0
    /\ \A a \in Actions : a > registered => cont[a] = "none"
    /\ main = "register" => registered < N + 2
    /\ main \in {"rerun", "report", "stop", "done", "terminated"} => promise[Sink] # "pending"
    /\ status[Source] # "failed"
    /\ cont[Source] # "error"
    /\ main = "rerun" \/ mail["rerun"] # "none" => status[Sink] = "failed"
    /\ "FAILED" \in {planStatus, report} => \E a \in Users \cup {Sink} : status[a] = "failed"
    /\ mail["pool"] # "none" => mail["pool"] = "passed" /\ status[Sink] = "succeeded"

Inv == TypeOK /\ GraphInv /\ StageInv /\ OutcomeInv

-----------------------------------------------------------------------------
(* The sink, the source and the user's actions are different actions.       *)
LEMMA ActionSets ==
    /\ N \in Nat /\ Concurrency \in Nat
    /\ Users \subseteq Actions /\ Sink \in Actions /\ Source \in Actions
    /\ Actions = Users \cup {Sink, Source}
    /\ Sink \notin Users /\ Source \notin Users /\ Sink # Source
    BY NAssumption, ConcurrencyAssumption DEF Users, Actions, Sink, Source

LEMMA InitInv == Init => Inv
<1> SUFFICES ASSUME Init PROVE Inv
    OBVIOUS
<1> USE ActionSets
<1>1. PICK g \in [Users -> SUBSET Users] :
        Acyclic(g) /\ dependees = [a \in Actions |-> IF a \in Users THEN g[a] ELSE {}]
    BY DEF Init
<1>2. TypeOK
    BY <1>1 DEF Init, TypeOK, Status, Promise, Cont, MainPC
<1>3. GraphInv
  <2>1. PICK rank \in [Users -> Users] :
            \A a \in Users : \A d \in g[a] : rank[d] < rank[a]
      BY <1>1 DEF Acyclic
  <2>2. \A a \in Users : \A d \in dependees[a] \cap Users : rank[d] < rank[a]
      BY <1>1, <2>1
  <2>3. \A a \in Users : dependees[a] \subseteq Users
      BY <1>1
  <2> QED
      BY <1>1, <2>2, <2>3 DEF Init, GraphInv
<1>4. StageInv
    BY <1>1 DEF Init, StageInv, Terminal
<1>5. OutcomeInv
    BY DEF Init, OutcomeInv
<1> QED
    BY <1>2, <1>3, <1>4, <1>5 DEF Inv

(* Every step keeps the types.                                              *)
LEMMA TypeStep == Inv /\ [Next]_vars => TypeOK'
<1> SUFFICES ASSUME Inv, [Next]_vars PROVE TypeOK'
    OBVIOUS
<1> USE ActionSets DEF TypeOK, Inv, Status, Promise, Cont, Busy, Terminal, MainPC,
        planVars, actionVars, outcomeVars, mainVars, Step
<1>1. CASE Link
    BY <1>1 DEF Link, Leaves
<1>2. CASE Register
    BY <1>2 DEF Register, OutcomeInv, Actions, Source
<1>3. CASE WakeUp \/ Report \/ Stop \/ RerunThrows
    BY <1>3 DEF WakeUp, Report, Stop, RerunThrows
<1>4. CASE Rerun
    BY <1>4 DEF Rerun, MailSent, Subject
<1>5. ASSUME NEW a \in Actions, WorkerStep(a) PROVE TypeOK'
  <2>1. CASE Skip(a) \/ Run(a) \/ BodyReturns(a) \/ BodyThrows(a)
      BY <2>1 DEF Skip, Run, BodyReturns, BodyThrows
  <2>2. CASE SinkReturns(a)
      BY <2>2 DEF SinkReturns, MailSent, Subject
  <2>3. CASE SinkThrows(a) \/ HandleError(a) \/ SetFailed(a)
      BY <2>3 DEF SinkThrows, HandleError, SetFailed
  <2>4. CASE Fulfil(a)
      BY <2>4 DEF Fulfil, FulfilPromise
  <2>5. CASE FulfilFailed(a)
      BY <2>5 DEF FulfilFailed, FulfilPromise
  <2> QED
      BY <1>5, <2>1, <2>2, <2>3, <2>4, <2>5 DEF WorkerStep
<1>6. CASE UNCHANGED vars
    BY <1>6 DEF vars
<1> QED
    BY <1>1, <1>2, <1>3, <1>4, <1>5, <1>6 DEF Next, MainStep, Exited

(* Every step keeps the shape of the graph, which only Link touches.        *)
LEMMA GraphStep == Inv /\ [Next]_vars => GraphInv'
<1> SUFFICES ASSUME Inv, [Next]_vars PROVE GraphInv'
    OBVIOUS
<1> USE ActionSets
<1>1. CASE Link
  <2>1. \A a \in Users : dependees'[a] = IF a \in Roots THEN {Source} ELSE dependees[a]
      BY <1>1 DEF Link, Inv, TypeOK
  <2>2. dependees'[Source] = {} /\ dependees'[Sink] = Leaves
      BY <1>1 DEF Link, Inv, TypeOK, GraphInv, Roots
  <2>3. \A a \in Users : dependees'[a] \cap Users = dependees[a]
      BY <1>1, <2>1 DEF Link, Inv, GraphInv, Roots
  <2>4. \A a \in Users : (\A b \in Users : a \notin dependees'[b]) => a \in Leaves
      BY <2>3 DEF Leaves
  <2>5. main' # "link"
      BY <1>1 DEF Link
  <2>6. \E rank \in [Users -> Users] :
          \A a \in Users : \A d \in dependees'[a] \cap Users : rank[d] < rank[a]
      BY <1>1, <2>3 DEF Link, Inv, GraphInv
  <2>7. \A a \in Users : dependees'[a] \subseteq Users \cup {Source}
      BY <2>1 DEF Inv, GraphInv
  <2> QED
      BY <2>2, <2>4, <2>5, <2>6, <2>7 DEF GraphInv, Leaves
<1>2. CASE dependees' = dependees /\ (main' = "link" <=> main = "link")
    BY <1>2 DEF Inv, GraphInv
<1>3. CASE ~Link
  <2>1. CASE MainStep
      BY <1>2, <1>3, <2>1 DEF MainStep, Register, WakeUp, Rerun, RerunThrows, Report, Stop, planVars
  <2>2. ASSUME NEW a \in Actions, WorkerStep(a) PROVE GraphInv'
      BY <1>2, <2>2 DEF WorkerStep, Skip, Run, BodyReturns, BodyThrows, SinkReturns, SinkThrows,
           Fulfil, HandleError, FulfilFailed, SetFailed, planVars, mainVars
  <2>3. CASE UNCHANGED vars
      BY <1>2, <2>3 DEF vars, planVars, mainVars
  <2> QED
      BY <2>1, <2>2, <2>3 DEF Next, Exited
<1> QED
    BY <1>1, <1>3

-----------------------------------------------------------------------------
(* A set of users with ranks has one of the highest rank.                   *)
LEMMA HighestRank ==
    ASSUME NEW rank \in [Users -> Users], NEW S \in SUBSET Users, S # {}
    PROVE  \E x \in S : \A y \in S : ~(rank[x] < rank[y])
<1> DEFINE Less == OpToRel(<, Nat)
           T == {N - rank[x] : x \in S}
<1>1. \A x \in S : rank[x] \in 1..N
    BY DEF Users
<1>2. T \subseteq Nat /\ T # {}
    BY <1>1, NAssumption
<1>3. PICK m \in T : \A n \in T : ~(<<n, m>> \in Less)
  <2> HIDE DEF T, Less
  <2>1. IsWellFoundedOn(Less, Nat)
      BY NatLessThanWellFounded DEF Less
  <2> QED
      BY <1>2, <2>1, WFMin
<1>4. PICK x \in S : m = N - rank[x]
    OBVIOUS
<1>5. ASSUME NEW y \in S PROVE ~(rank[x] < rank[y])
  <2>1. N - rank[y] \in Nat /\ m \in Nat
      BY <1>2
  <2>2. ~(N - rank[y] < m)
      BY <1>3, <2>1 DEF OpToRel
  <2> QED
      BY <1>1, <1>4, <2>2, NAssumption
<1> QED
    BY <1>5

(* What holds of the leaves, and of the dependees of whatever it holds of,  *)
(* holds of every action of the user.                                       *)
LEMMA FromTheLeaves ==
    ASSUME Inv, main # "link", NEW P \in SUBSET Users,
           dependees[Sink] \subseteq P,
           \A b \in P : dependees[b] \cap Users \subseteq P
    PROVE  Users \subseteq P
<1> SUFFICES ASSUME Users \ P # {} PROVE FALSE
    OBVIOUS
<1>1. PICK rank \in [Users -> Users] :
        \A a \in Users : \A d \in dependees[a] \cap Users : rank[d] < rank[a]
    BY DEF Inv, GraphInv
<1>2. PICK x \in Users \ P : \A y \in Users \ P : ~(rank[x] < rank[y])
    BY HighestRank, Users \ P \in SUBSET Users
<1>3. PICK b \in Users : x \in dependees[b]
    BY DEF Inv, GraphInv
<1>4. rank[x] < rank[b]
    BY <1>1, <1>3
<1>5. b \in P
    BY <1>2, <1>4
<1> QED
    BY <1>3, <1>5

(* When the promises of the sink's dependees are fulfilled, so are those of *)
(* all the user's actions.                                                  *)
LEMMA AllDone ==
    ASSUME Inv, main # "link", Collected(promise, Sink)
    PROVE  \A a \in Users : promise[a] # "pending"
<1> DEFINE P == {a \in Users : promise[a] # "pending"}
<1>1. dependees[Sink] \subseteq P
    BY DEF Inv, GraphInv, Collected
<1>2. \A b \in P : dependees[b] \cap Users \subseteq P
    BY ActionSets DEF Inv, StageInv, Collected
<1>3. Users \subseteq P
    BY <1>1, <1>2, FromTheLeaves
<1> QED
    BY <1>3

(* When the sink has been run, every action of the user has succeeded.      *)
LEMMA AllSucceeded ==
    ASSUME Inv, main # "link", status[Sink] \in {"running", "succeeded"}
    PROVE  \A a \in Users : status[a] = "succeeded"
<1> DEFINE P == {a \in Users : promise[a] = "value"}
<1>1. dependees[Sink] \subseteq P
    BY ActionSets DEF Inv, GraphInv, StageInv
<1>2. \A b \in P : dependees[b] \cap Users \subseteq P
    BY ActionSets DEF Inv, StageInv
<1>3. Users \subseteq P
    BY <1>1, <1>2, FromTheLeaves
<1> QED
    BY <1>3, ActionSets DEF Inv, StageInv

-----------------------------------------------------------------------------
(* Every step keeps what the stages say.                                    *)
LEMMA StageStep == Inv /\ [Next]_vars => StageInv'
<1> SUFFICES ASSUME Inv, [Next]_vars PROVE StageInv'
    OBVIOUS
<1> USE ActionSets DEF StageInv, Collected
<1>1. CASE Link
  <2>1. \A a \in Actions : cont[a] = "none" /\ status[a] = "init"
      BY <1>1 DEF Link, Inv, OutcomeInv, Actions
  <2> QED
      BY <1>1, <2>1 DEF Link, Inv, TypeOK, actionVars
<1>2. CASE Register
  <2>1. registered + 1 \in Actions /\ cont[registered + 1] = "none"
      BY <1>2 DEF Register, Inv, TypeOK, OutcomeInv, Actions
  <2> QED
      BY <1>2, <2>1 DEF Register, Inv, TypeOK, planVars
<1>3. CASE WakeUp \/ Rerun \/ RerunThrows \/ Report \/ Stop
    BY <1>3 DEF WakeUp, Rerun, RerunThrows, Report, Stop, Inv, planVars, actionVars
<1>4. ASSUME NEW a \in Actions, WorkerStep(a) PROVE StageInv'
  <2> USE DEF Inv, TypeOK, planVars, Step, Busy, Terminal
  <2>1. CASE Skip(a)
      BY <2>1 DEF Skip
  <2>2. CASE Run(a)
      BY <2>2 DEF Run, Promise
  <2>3. CASE BodyReturns(a)
      BY <2>3 DEF BodyReturns
  <2>4. CASE BodyThrows(a)
      BY <2>4 DEF BodyThrows
  <2>5. CASE SinkReturns(a)
      BY <2>5 DEF SinkReturns
  <2>6. CASE SinkThrows(a)
      BY <2>6 DEF SinkThrows
  <2>7. CASE Fulfil(a)
      BY <2>7 DEF Fulfil, FulfilPromise
  <2>8. CASE HandleError(a)
      BY <2>8 DEF HandleError
  <2>9. CASE FulfilFailed(a)
      BY <2>9 DEF FulfilFailed, FulfilPromise
  <2>10. CASE SetFailed(a)
      BY <2>10 DEF SetFailed
  <2> QED
      BY <1>4, <2>1, <2>2, <2>3, <2>4, <2>5, <2>6, <2>7, <2>8, <2>9, <2>10 DEF WorkerStep
<1>5. CASE UNCHANGED vars
    BY <1>5 DEF vars, Inv, planVars, actionVars
<1> QED
    BY <1>1, <1>2, <1>3, <1>4, <1>5 DEF Next, MainStep, Exited

(* Every step keeps what is known of the main thread, the plan's status_    *)
(* and the sink's mail.                                                     *)
LEMMA OutcomeStep == Inv /\ [Next]_vars => OutcomeInv'
<1> SUFFICES ASSUME Inv, [Next]_vars PROVE OutcomeInv'
    OBVIOUS
<1> USE ActionSets DEF OutcomeInv, outcomeVars, actionVars, mainVars
<1>1. CASE Link
    BY <1>1 DEF Link, Inv
<1>2. CASE Register
    BY <1>2 DEF Register, Inv, TypeOK, Source, Actions
<1>3. CASE WakeUp \/ Rerun \/ RerunThrows \/ Report \/ Stop
    BY <1>3 DEF WakeUp, Rerun, MailSent, RerunThrows, Report, Stop, Inv, TypeOK
<1>4. ASSUME NEW a \in Actions, WorkerStep(a) PROVE OutcomeInv'
  <2> USE DEF Inv, TypeOK, Step
  <2>0. main # "link"
      BY <1>4 DEF WorkerStep, Skip, Run, BodyReturns, BodyThrows, SinkReturns, SinkThrows,
           Fulfil, HandleError, FulfilFailed, SetFailed, Actions
  <2>1. CASE Skip(a)
      BY <2>0, <2>1 DEF Skip, GraphInv, StageInv
  <2>2. CASE Run(a)
      BY <2>0, <2>2 DEF Run, StageInv
  <2>3. CASE BodyReturns(a)
      BY <2>0, <2>3 DEF BodyReturns, StageInv
  <2>4. CASE BodyThrows(a)
      BY <2>0, <2>4 DEF BodyThrows
  <2>5. CASE SinkReturns(a)
    <3>1. \A b \in Users : status[b] = "succeeded"
        BY <2>0, <2>5, AllSucceeded DEF SinkReturns, StageInv
    <3>2. planStatus = "SUCCEEDED"
        BY <2>5, <3>1 DEF SinkReturns, StageInv
    <3> QED
        BY <2>0, <2>5, <3>1, <3>2 DEF SinkReturns, MailSent, Subject, StageInv
  <2>6. CASE SinkThrows(a)
      BY <2>0, <2>6 DEF SinkThrows
  <2>7. CASE Fulfil(a)
      BY <2>0, <2>7 DEF Fulfil, FulfilPromise
  <2>8. CASE HandleError(a)
      BY <2>0, <2>8 DEF HandleError, StageInv
  <2>9. CASE FulfilFailed(a)
      BY <2>0, <2>9 DEF FulfilFailed, FulfilPromise
  <2>10. CASE SetFailed(a)
      BY <2>0, <2>10 DEF SetFailed, StageInv
  <2> QED
      BY <1>4, <2>1, <2>2, <2>3, <2>4, <2>5, <2>6, <2>7, <2>8, <2>9, <2>10 DEF WorkerStep
<1>5. CASE UNCHANGED vars
    BY <1>5 DEF vars, Inv
<1> QED
    BY <1>1, <1>2, <1>3, <1>4, <1>5 DEF Next, MainStep, Exited

-----------------------------------------------------------------------------
(* The inductive invariant.                                                 *)
THEOREM Invariance == Spec => []Inv
<1>1. Inv /\ [Next]_vars => Inv'
    BY TypeStep, GraphStep, StageStep, OutcomeStep DEF Inv
<1> QED
    BY InitInv, <1>1, PTL DEF Spec

(* The variables of schedule() keep their types.                            *)
THEOREM TypeCorrect == Spec => []TypeOK
<1>1. Inv => TypeOK
    BY DEF Inv
<1> QED
    BY Invariance, <1>1, PTL

(* CHECK(Status::INIT == status_) and CHECK(Status::RUNNING == status_) in  *)
(* Action::run() never abort a plan.                                        *)
THEOREM ChecksNeverFail == Spec => []ChecksHold
<1>1. Inv => ChecksHold
    BY DEF Inv, StageInv, ChecksHold
<1> QED
    BY Invariance, <1>1, PTL

(* An action runs only after all those it depends on have succeeded.        *)
THEOREM DependenciesKept == Spec => []DependencyOrder
<1>1. Inv => DependencyOrder
    BY DEF Inv, TypeOK, StageInv, DependencyOrder
<1> QED
    BY Invariance, <1>1, PTL

(* No mail is composed, and schedule() does not go on to the report, while  *)
(* an action of the plan has no final status.                               *)
THEOREM ReportIsComplete == Spec => []ReportComplete
<1>1. ASSUME Inv PROVE ReportComplete
  <2> USE <1>1, ActionSets DEF Inv, StageInv, OutcomeInv, Terminal
  <2>1. SUFFICES ASSUME \/ mail["pool"] # "none"
                        \/ main \in {"rerun", "report", "stop", "done", "terminated"}
                 PROVE  \A a \in Users : status[a] \in Terminal
      BY DEF ReportComplete
  <2>2. promise[Sink] # "pending" \/ status[Sink] = "succeeded"
      BY <2>1
  <2>3. cont[Sink] \notin {"none", "waiting"}
      BY <2>2
  <2>4. main # "link"
      BY <2>3 DEF Actions
  <2>5. \A a \in Users : promise[a] # "pending"
      BY <2>3, <2>4, AllDone
  <2> QED
      BY <2>5
<1> QED
    BY Invariance, <1>1, PTL

(* The mail that the sink sends says "passed", and then the plan did pass.  *)
THEOREM PoolMailIsRight == Spec => []PoolMailRight
<1>1. ASSUME Inv PROVE PoolMailRight
  <2>1. SUFFICES ASSUME mail["pool"] # "none"
                 PROVE  mail["pool"] = "passed" /\ \A a \in Users : status[a] = "succeeded"
      BY DEF PoolMailRight
  <2>2. mail["pool"] = "passed" /\ status[Sink] = "succeeded"
      BY <1>1, <2>1 DEF Inv, OutcomeInv
  <2>3. main # "link"
      BY <1>1, <2>2, ActionSets DEF Inv, OutcomeInv, StageInv, Actions
  <2> QED
      BY <1>1, <2>2, <2>3, AllSucceeded
<1> QED
    BY Invariance, <1>1, PTL

(* A plan that is called failed has an action, or a mail, that failed.      *)
THEOREM FailuresAreReal == Spec => []FailureIsReal
<1>1. Inv => FailureIsReal
    BY DEF Inv, OutcomeInv, FailureIsReal
<1> QED
    BY Invariance, <1>1, PTL

-----------------------------------------------------------------------------
(* The safety part of the refinement: a plan starts as PlanSpec allows, and *)
(* each of its steps is one of PlanSpec or changes nothing that it sees.    *)
LEMMA InitRefines == Init => Abstract!Init
<1> SUFFICES ASSUME Init PROVE Abstract!Init
    OBVIOUS
<1> USE ActionSets
<1>1. PICK g \in [Users -> SUBSET Users] :
        Acyclic(g) /\ dependees = [a \in Actions |-> IF a \in Users THEN g[a] ELSE {}]
    BY DEF Init
<1> QED
    BY <1>1 DEF Init, Abstract!Init, AbstractDependees, AbstractState, AbstractReported

LEMMA StepRefines == Inv /\ Inv' /\ [Next]_vars => [Abstract!Next]_(Abstract!vars)
<1> SUFFICES ASSUME Inv, Inv', [Next]_vars PROVE [Abstract!Next]_(Abstract!vars)
    OBVIOUS
<1> USE ActionSets DEF AbstractDependees, AbstractState, AbstractReported, Inv, TypeOK
<1>1. CASE Link
  <2>1. \A a \in Users : dependees'[a] \ {Source} = dependees[a] \ {Source}
      BY <1>1 DEF Link, Roots
  <2>2. AbstractDependees' = AbstractDependees
      BY <2>1
  <2> QED
      BY <1>1, <2>2 DEF Link, actionVars, Abstract!vars
<1>2. CASE Register \/ Rerun \/ RerunThrows \/ Report \/ Stop
    BY <1>2 DEF Register, Rerun, RerunThrows, Report, Stop, planVars, actionVars, Abstract!vars
<1>3. CASE WakeUp
  <2>1. \A a \in Users : status[a] \in Terminal
    <3>1. Collected(promise, Sink)
        BY <1>3 DEF WakeUp, StageInv
    <3>2. \A a \in Users : promise[a] # "pending"
        BY <1>3, <3>1, AllDone DEF WakeUp
    <3> QED
        BY <3>2 DEF StageInv, Terminal
  <2>2. Abstract!Report
      BY <1>3, <2>1 DEF WakeUp, planVars, actionVars, Terminal, Abstract!Report, Abstract!Finished
  <2> QED
      BY <2>2 DEF Abstract!Next
<1>4. ASSUME NEW a \in Actions, WorkerStep(a) PROVE [Abstract!Next]_(Abstract!vars)
  <2>0. /\ UNCHANGED <<dependees, main>>
        /\ AbstractDependees' = AbstractDependees
        /\ AbstractReported' = AbstractReported
      BY <1>4 DEF WorkerStep, Skip, Run, BodyReturns, BodyThrows, SinkReturns, SinkThrows,
           Fulfil, HandleError, FulfilFailed, SetFailed, planVars, mainVars
  <2>1. CASE UNCHANGED status
      BY <2>0, <2>1 DEF Abstract!vars
  <2>2. CASE a \notin Users
    <3>1. \A b \in Users : status'[b] = status[b]
        BY <1>4, <2>2 DEF WorkerStep, Skip, Run, BodyReturns, BodyThrows, SinkReturns,
             SinkThrows, Fulfil, HandleError, FulfilFailed, SetFailed
    <3> QED
        BY <2>0, <3>1 DEF Abstract!vars
  <2>3. CASE a \in Users /\ Run(a)
    <3>1. \A d \in AbstractDependees[a] : AbstractState[d] = "succeeded"
        BY <2>3 DEF Run, GraphInv, StageInv, Collected, Promise
    <3>2. AbstractState[a] = "waiting"
        BY <2>3 DEF Run, StageInv
    <3>3. AbstractState' = [AbstractState EXCEPT ![a] = "running"]
        BY <2>3 DEF Run
    <3> QED
        BY <2>0, <2>3, <3>1, <3>2, <3>3 DEF Abstract!Next, Abstract!Start, Abstract!Become
  <2>4. CASE a \in Users /\ Skip(a)
    <3>1. AbstractState[a] = "waiting"
        BY <2>4 DEF Skip, StageInv
    <3>4. AbstractState' = [AbstractState EXCEPT ![a] = "failed"]
        BY <2>4 DEF Skip
    <3>2. \E d \in AbstractDependees[a] : AbstractState[d] = "failed"
        BY <2>4 DEF Skip, GraphInv, StageInv, OutcomeInv
    <3>3. \A d \in AbstractDependees[a] : AbstractState[d] \in {"succeeded", "failed"}
        BY <2>4 DEF Skip, GraphInv, StageInv, Collected, Promise
    <3> QED
        BY <2>0, <2>4, <3>1, <3>2, <3>3, <3>4
        DEF Abstract!Next, Abstract!Skip, Abstract!Become, Abstract!Finished
  <2>5. CASE a \in Users /\ (BodyReturns(a) \/ HandleError(a))
    <3>0. PICK s \in Terminal : status' = [status EXCEPT ![a] = s]
        BY <2>5 DEF BodyReturns, HandleError, Terminal
    <3>1. AbstractState' = [AbstractState EXCEPT ![a] = s]
        BY <2>5, <3>0 DEF Terminal
    <3>2. AbstractState[a] = "running"
        BY <2>5 DEF BodyReturns, HandleError, StageInv
    <3> QED
        BY <2>0, <2>5, <3>1, <3>2
        DEF Terminal, Abstract!Next, Abstract!Finish, Abstract!Become, Abstract!Finished
  <2> QED
      BY <1>4, <2>1, <2>2, <2>3, <2>4, <2>5
      DEF WorkerStep, BodyThrows, SinkReturns, SinkThrows, Fulfil, FulfilFailed, SetFailed
<1>5. CASE UNCHANGED vars
    BY <1>5 DEF vars, planVars, actionVars, mainVars, Abstract!vars
<1> QED
    BY <1>1, <1>2, <1>3, <1>4, <1>5 DEF Next, MainStep, Exited

(* schedule() implements PlanSpec, but for its fairness.                    *)
THEOREM Refinement == Spec => Abstract!Init /\ [][Abstract!Next]_(Abstract!vars)
    BY Invariance, InitRefines, StepRefines, PTL DEF Spec
=============================================================================
