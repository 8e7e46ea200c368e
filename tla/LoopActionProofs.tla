-------------------------- MODULE LoopActionProofs --------------------------
(***************************************************************************)
(* Proofs about LoopAction for every number of sub-actions, every DAG over *)
(* them, every number of threads, of runs and of iterations: type          *)
(* correctness, the order of dependencies, the CHECK at the start of run() *)
(* and the completeness of an iteration.                                   *)
(*                                                                         *)
(* What keeps an iteration in order differs between the first one, where   *)
(* nothing is stale, and a later one, where it is the order of actions_:   *)
(* an action is registered after those it depends on, so that it collects  *)
(* the promises of this iteration.  Only Begin is collected before it is   *)
(* reset, so that nothing is said of it after the first iteration.         *)
(***************************************************************************)
EXTENDS LoopAction, WellFoundedInduction, TLAPS

Ends == {EndOf(run) : run \in 1..MaxRuns}

(* The actions that a sub-action of the plan or a sink should wait for.     *)
Chain == Users \cup Ends

(* The actions that doRun() adds and of which something is known.           *)
Own == IF iteration = 1 THEN Actions ELSE IF N > 0 THEN Ends ELSE {}

Tracked == Users \cup Own

(* The continuation and the promise that an action has by now.              *)
Now(a) == cont[iteration][a]

Outcome(a) == promise[a][gen[a]]

UserFailed == \E u \in Users : Now(u) \in {"setRc", "failed"}

(* No later iteration will be orderly.                                      *)
Doomed(i) ==
    /\ i > 1
    /\ ~Backward \/ \E j \in 1..(i - 1), u \in Users : cont[j][u] \in {"setRc", "failed"}

(* The graph, whatever the number of sub-actions.                           *)
LinkInv ==
    /\ \E rank \in [Users -> Users] :
          \A a \in Users : \A d \in dependees[a] \cap Users : rank[d] < rank[a]
    /\ \A a \in Users : dependees[a] \cap Ends = {}
    /\ \A a \in Actions : dependees[a] \subseteq 1..Begin
    /\ \A a \in Actions : a >= Begin => dependees[a] = {}
    /\ \A a \in Actions : End \notin dependees[a]
    /\ \A a \in Users : (\A b \in Users : a \notin dependees[b]) => a \in dependees[EndOf(1)]
    /\ \A run \in 2..runs : EndOf(run - 1) \in dependees[EndOf(run)]

(* Each sink comes after what it depends on, and every Begin has dependers. *)
SinkInv ==
    N > 0 =>
        /\ \A run \in 1..runs :
              /\ dependees[EndOf(run)] # {}
              /\ \A d \in dependees[EndOf(run)] : d \in Chain /\ d < EndOf(run)
        /\ \A run \in 1..runs : \E b \in 1..Begin : BeginOf(run) \in dependees[b]

(* How far the loop's thread has come.                                      *)
LoopInv ==
    /\ \A a \in Actions :
          /\ gen[a] <= iteration
          /\ loop = "register" /\ a > registered => gen[a] < iteration
          /\ \A g \in Generations : g > gen[a] => promise[a][g] = "pending"
          /\ \A j \in Iterations : j > iteration => cont[j][a] = "none"
          /\ iteration > 0 => (Now(a) = "none" <=> a > registered)
          /\ iteration = 0 => status[a] = "init" /\ promise[a][0] = "pending"
    /\ registered <= Begin
    /\ iteration = 0 => registered = 0 /\ loop \in {"eval", "OK", "ERR_FAILED"}
    /\ loop = "register" => registered < Begin
    /\ loop = "wait" => registered = Begin
    /\ loop \in {"eval", "OK", "ERR_FAILED"} /\ iteration > 0 =>
          \E run \in 1..runs : registered = BeginOf(run) /\ Outcome(EndOf(run)) # "pending"

(* What the stage of an action's continuation says of its status and of its *)
(* promise.                                                                 *)
StageInv ==
    \A a \in Tracked :
        /\ Now(a) = "none" =>
              \/ status[a] = "init" /\ Outcome(a) = "pending"
              \/ status[a] = "succeeded" /\ Outcome(a) = "value" /\ iteration > 1
        /\ iteration = 1 => gen[a] = 0
        /\ Now(a) \in {"waiting", "queued"} => status[a] = "init"
        /\ Now(a) = "body" => status[a] = "running"
        /\ Now(a) \in {"fulfilValue", "succeeded"} => status[a] = "succeeded"
        /\ Now(a) \in {"fulfilException", "fulfilFailed", "setRc", "failed"} => status[a] = "failed"
        /\ Now(a) = "fulfilException" => a \in Users
        /\ Now(a) = "succeeded" => Outcome(a) = "value"
        /\ Now(a) \in {"setRc", "failed"} => Outcome(a) = "exception"
        /\ Now(a) \notin {"none", "succeeded", "setRc", "failed"} => Outcome(a) = "pending"

(* An action that was let run has collected values only.                    *)
CollectedInv ==
    \A a \in Tracked :
        Now(a) \in {"queued", "body", "fulfilValue", "fulfilException", "succeeded"} =>
            \A f \in futures[iteration][a] : promise[f[1]][f[2]] = "value"

(* The promises that an action collects are those of this iteration.        *)
FuturesInv ==
    /\ \A a \in Tracked \cap Chain : Now(a) # "none" =>
          \A d \in dependees[a] \cap Chain \cap Tracked : <<d, gen[d]>> \in futures[iteration][a]
    /\ \A a \in Own : Now(a) # "none" =>
          \A f \in futures[iteration][a] :
              /\ f[1] \in Tracked /\ f[2] = gen[f[1]]
              /\ iteration > 1 => f[1] < a

(* An action of the loop's own fails only when a sub-action has failed, and *)
(* rc knows of it when its handler is through.                              *)
CauseInv ==
    /\ \A a \in Own \ Users :
          /\ Now(a) \in {"error", "fulfilException", "fulfilFailed", "setRc", "failed"} => UserFailed
          /\ Now(a) = "failed" => rc # "OK"
    /\ iteration = 1 => loop # "aborted" /\ (rc # "OK" => UserFailed)

(* Nothing of an earlier iteration is still about.                          *)
PastInv ==
    \A j \in Iterations, a \in Own : j < iteration => cont[j][a] \in {"none", "succeeded"}

CurrentInv == StageInv /\ CollectedInv /\ FuturesInv /\ CauseInv /\ PastInv

OrderlyInv ==
    iteration > 0 =>
        /\ Orderly(iteration) \/ Doomed(iteration)
        /\ Orderly(iteration) => CurrentInv

Inv == TypeOK /\ LinkInv /\ SinkInv /\ LoopInv /\ OrderlyInv

-----------------------------------------------------------------------------
(* What the assumptions say of the constants.                               *)
LEMMA Bounds ==
    /\ N \in Nat /\ Concurrency \in Nat /\ MaxRuns \in Nat /\ MaxRuns > 0
    /\ MaxIterations[1] \in Nat
    /\ \A run \in 1..MaxRuns : MaxIterations[run] \in Nat /\ MaxIterations[run] <= MaxIterations[1]
    /\ 0 \in Generations
    BY LoopAssumption DEF Generations

(* The actions are the sub-actions, the sinks and the sources.              *)
LEMMA Sorts ==
    ASSUME NEW k \in Nat, NEW a \in 1..BeginOf(k)
    PROVE  a \in Users \/ \E run \in 1..k : a = EndOf(run) \/ a = BeginOf(run)
<1> DEFINE run == (a - N + 1) \div 2
<1>1. a \in Int /\ a - N + 1 \in Int /\ a - N + 1 <= 2 * k + 1
    BY Bounds DEF BeginOf
<1>2. CASE a > N
  <2>1. run \in Int /\ 2 * run <= a - N + 1 /\ a - N + 1 <= 2 * run + 1
      BY <1>1, SMT
  <2> HIDE DEF run
  <2>2. run \in 1..k /\ (a = N + 2 * run - 1 \/ a = N + 2 * run)
      BY <1>1, <1>2, <2>1, Bounds
  <2> QED
      BY <2>2 DEF EndOf, BeginOf
<1> QED
    BY <1>2, Bounds DEF Users

LEMMA Places ==
    /\ Users \subseteq Actions /\ Ends \subseteq Actions /\ Chain \subseteq Actions
    /\ Users \subseteq Nat /\ Ends \subseteq Nat /\ Actions \subseteq Nat
    /\ \A run \in 1..MaxRuns :
          /\ EndOf(run) \in Ends /\ EndOf(run) \notin Users
          /\ BeginOf(run) \in Actions /\ BeginOf(run) \notin Chain
          /\ EndOf(run) < BeginOf(run) /\ BeginOf(run - 1) < EndOf(run) /\ BeginOf(run - 1) \in Nat
          /\ BeginOf(run) <= BeginOf(MaxRuns)
    BY Bounds DEF Users, Ends, Chain, Actions, EndOf, BeginOf

(* A set of sub-actions has one of the lowest rank, and one of the highest. *)
LEMMA LowestRank ==
    ASSUME NEW rank \in [Users -> Users], NEW S \in SUBSET Users, S # {}
    PROVE  \E x \in S : \A y \in S : rank[x] <= rank[y]
<1> DEFINE Less == OpToRel(<, Nat)
           T == {rank[x] : x \in S}
<1>1. T \subseteq Nat /\ T # {}
    BY Places
<1>2. PICK m \in T : \A n \in T : ~(<<n, m>> \in Less)
  <2> HIDE DEF T, Less
  <2>1. IsWellFoundedOn(Less, Nat)
      BY NatLessThanWellFounded DEF Less
  <2> QED
      BY <1>1, <2>1, WFMin
<1>3. PICK x \in S : m = rank[x]
    OBVIOUS
<1>4. ASSUME NEW y \in S PROVE rank[x] <= rank[y]
  <2>1. rank[y] \in Nat /\ m \in Nat
      BY <1>1
  <2>2. ~(rank[y] < m)
      BY <1>2, <2>1 DEF OpToRel
  <2> QED
      BY <1>3, <2>1, <2>2
<1> QED
    BY <1>4

LEMMA HighestRank ==
    ASSUME NEW rank \in [Users -> Users], NEW S \in SUBSET Users, S # {}
    PROVE  \E x \in S : \A y \in S : rank[y] <= rank[x]
<1> DEFINE reversed == [u \in Users |-> N + 1 - rank[u]]
<1>1. \A u \in Users : rank[u] \in 1..N /\ reversed[u] = N + 1 - rank[u]
    BY DEF Users
<1>2. reversed \in [Users -> Users]
    BY <1>1, Bounds DEF Users
<1> HIDE DEF reversed
<1>3. PICK x \in S : \A y \in S : reversed[x] <= reversed[y]
    BY <1>2, LowestRank
<1>4. ASSUME NEW y \in S PROVE rank[y] <= rank[x]
    BY <1>1, <1>3, Bounds
<1> QED
    BY <1>4

(* What linking does to each action.                                        *)
LEMMA Linking ==
    ASSUME NEW g, NEW run \in 1..MaxRuns, NEW a \in Actions
    PROVE  Linked(g, run)[a] =
             IF a = EndOf(run)
             THEN {x \in 1..BeginOf(run - 1) : \A b \in 1..BeginOf(run - 1) : x \notin g[b]}
             ELSE IF a \in 1..BeginOf(run - 1) /\ g[a] = {} THEN {BeginOf(run)} ELSE g[a]
    BY Places DEF Linked

LEMMA LinkedDomain ==
    ASSUME NEW g, NEW run
    PROVE  Linked(g, run) = [a \in Actions |-> Linked(g, run)[a]]
    BY DEF Linked

LEMMA InitGraph ==
    ASSUME Init
    PROVE  LinkInv /\ SinkInv /\ dependees \in [Actions -> SUBSET Actions]
<1>1. PICK g \in [Users -> SUBSET Users] :
        /\ Acyclic(g)
        /\ dependees = Linked([a \in Actions |-> IF a \in Users THEN g[a] ELSE {}], 1)
    BY DEF Init
<1> DEFINE h == [a \in Actions |-> IF a \in Users THEN g[a] ELSE {}]
<1>2. PICK rank \in [Users -> Users] : \A a \in Users : \A d \in g[a] : rank[d] < rank[a]
    BY <1>1 DEF Acyclic
<1>3. 1 \in 1..MaxRuns /\ 1..BeginOf(1 - 1) = Users
    BY Bounds DEF BeginOf, Users
<1>4. runs = 1 /\ End = EndOf(1) /\ Begin = BeginOf(1)
    BY DEF Init, End, Begin
<1>5. \A a \in Actions : dependees[a] =
        IF a = End THEN {x \in Users : \A b \in Users : x \notin g[b]}
        ELSE IF a \in Users /\ g[a] = {} THEN {Begin} ELSE IF a \in Users THEN g[a] ELSE {}
  <2>1. \A a \in Actions : h[a] = IF a \in Users THEN g[a] ELSE {}
      OBVIOUS
  <2>2. {x \in Users : \A b \in Users : x \notin h[b]} = {x \in Users : \A b \in Users : x \notin g[b]}
      BY <2>1, Places
  <2> HIDE DEF h
  <2>3. \A a \in Actions : Linked(h, 1)[a] =
          IF a = EndOf(1)
          THEN {x \in 1..BeginOf(1 - 1) : \A b \in 1..BeginOf(1 - 1) : x \notin h[b]}
          ELSE IF a \in 1..BeginOf(1 - 1) /\ h[a] = {} THEN {BeginOf(1)} ELSE h[a]
      BY <1>3, Linking
  <2>4. dependees = Linked(h, 1)
      BY <1>1 DEF h
  <2> QED
      BY <1>3, <1>4, <2>1, <2>2, <2>3, <2>4
<1>6. /\ End \in Ends /\ End \notin Users /\ Begin \in Actions /\ Begin \notin Chain /\ End < Begin
      /\ \A u \in Users : u < End
    BY <1>3, <1>4, Places, Bounds DEF Users, EndOf
<1>7. LinkInv
  <2>1. \A a \in Users : dependees[a] \cap Users = g[a] /\ dependees[a] \cap Ends = {}
    <3> SUFFICES ASSUME NEW a \in Users
                 PROVE dependees[a] \cap Users = g[a] /\ dependees[a] \cap Ends = {}
        OBVIOUS
    <3>1. dependees[a] = IF g[a] = {} THEN {Begin} ELSE g[a]
        BY <1>5, <1>6, Places
    <3>2. g[a] \subseteq Users /\ Begin \notin Users /\ Begin \notin Ends
        BY <1>6 DEF Chain
    <3>3. Users \cap Ends = {}
        BY Bounds DEF Users, Ends, EndOf
    <3> QED
        BY <3>1, <3>2, <3>3
  <2>2. \A a \in Actions : dependees[a] \subseteq Users \cup {Begin}
      BY <1>5
  <2>3. Users \cup {Begin} \subseteq 1..Begin
      BY <1>4, Bounds DEF Users, BeginOf
  <2>4. \A a \in Actions : a >= Begin => dependees[a] = {}
    <3>1. \A a \in Actions : a >= Begin => a # End /\ a \notin Users
        BY <1>4, Bounds DEF Users, EndOf, BeginOf, Actions
    <3> QED
        BY <1>5, <3>1
  <2>5. \A a \in Users : (\A b \in Users : a \notin dependees[b]) => a \in dependees[EndOf(1)]
    <3>1. \A a \in Users : (\A b \in Users : a \notin dependees[b]) => \A b \in Users : a \notin g[b]
        BY <2>1
    <3> QED
        BY <1>4, <1>5, <1>6, <3>1, Places
  <2>6. End # Begin
      BY <1>6, Places DEF Chain
  <2>7. \A run \in 2..runs : EndOf(run - 1) \in dependees[EndOf(run)]
      BY <1>4
  <2> QED
      BY <1>2, <1>6, <2>1, <2>2, <2>3, <2>4, <2>5, <2>6, <2>7 DEF LinkInv
<1>8. SinkInv
  <2> SUFFICES ASSUME N > 0
               PROVE  /\ dependees[End] # {} /\ \A d \in dependees[End] : d \in Chain /\ d < End
                      /\ \E b \in 1..Begin : Begin \in dependees[b]
      BY <1>4 DEF SinkInv
  <2>1. Users # {}
      BY Bounds DEF Users
  <2>2. PICK x \in Users : \A y \in Users : rank[y] <= rank[x]
      BY <2>1, HighestRank
  <2>3. PICK z \in Users : \A y \in Users : rank[z] <= rank[y]
      BY <2>1, LowestRank
  <2>4. \A u \in Users : rank[u] \in Int
      BY DEF Users
  <2>5. \A b \in Users : x \notin g[b]
      BY <1>2, <2>2, <2>4
  <2>6. g[z] = {}
      BY <1>2, <2>3, <2>4
  <2>7. x \in dependees[End] /\ \A d \in dependees[End] : d \in Users
      BY <1>5, <1>6, <2>5, Places
  <2>8. Begin \in dependees[z] /\ z \in 1..Begin
    <3>1. z \in Actions /\ z # End
        BY <1>6, Places
    <3>2. z \in 1..Begin
        BY <1>4, Bounds DEF Users, BeginOf
    <3> QED
        BY <1>5, <2>6, <3>1, <3>2
  <2> QED
      BY <1>6, <2>7, <2>8 DEF Chain
<1>9. dependees \in [Actions -> SUBSET Actions]
  <2>1. \A a \in Actions : dependees[a] \subseteq Actions
    <3>1. \A a \in Actions : dependees[a] \subseteq Users \cup {Begin}
        BY <1>5
    <3> QED
        BY <1>6, <3>1, Places
  <2>2. dependees = [a \in Actions |-> dependees[a]]
      BY <1>1 DEF Linked
  <2> QED
      BY <2>1, <2>2
<1> QED
    BY <1>7, <1>8, <1>9

LEMMA InitInv == Init => Inv
<1> SUFFICES ASSUME Init PROVE Inv
    OBVIOUS
<1>1. TypeOK
  <2>1. /\ runs \in 1..MaxRuns /\ iteration \in Iterations \cup {0}
        /\ registered \in 0..BeginOf(MaxRuns)
      BY Bounds DEF Init, BeginOf
  <2>2. /\ futures \in [Iterations -> [Actions -> SUBSET (Actions \X Generations)]]
        /\ cont \in [Iterations -> [Actions -> Cont]]
        /\ promise \in [Actions -> [Generations -> {"pending", "value", "exception"}]]
      BY DEF Init, Cont
  <2> QED
      BY <2>1, <2>2, InitGraph, Bounds DEF Init, TypeOK, Status
<1>2. LoopInv
    BY Bounds DEF Init, LoopInv, Begin, BeginOf, Actions, Iterations, Generations
<1>3. OrderlyInv
    BY DEF Init, OrderlyInv
<1> QED
    BY <1>1, <1>2, <1>3, InitGraph DEF Inv

-----------------------------------------------------------------------------
(* Another run links its End and Begin to what there is, and changes        *)
(* nothing of the dependencies in the chain of the runs before.             *)
LEMMA RunAgainLinks ==
    ASSUME TypeOK, LinkInv, SinkInv, RunAgain
    PROVE  /\ dependees' \in [Actions -> SUBSET Actions]
           /\ LinkInv' /\ SinkInv'
           /\ \A a \in Actions : a <= Begin => dependees'[a] \cap Chain = dependees[a] \cap Chain
<1> DEFINE there == 1..Begin
           leaves == {x \in there : \A b \in there : x \notin dependees[b]}
           end == EndOf(runs + 1)
           begin == BeginOf(runs + 1)
<1>1. /\ runs \in 1..MaxRuns /\ runs + 1 \in 1..MaxRuns /\ runs' = runs + 1
      /\ End' = end /\ Begin' = begin /\ BeginOf(runs + 1 - 1) = Begin
    BY Bounds DEF RunAgain, TypeOK, End, Begin, EndOf, BeginOf
<1>2. \A a \in Actions : dependees'[a] =
        IF a = end THEN leaves
        ELSE IF a \in there /\ dependees[a] = {} THEN {begin} ELSE dependees[a]
  <2>1. PICK k \in 1..MaxRuns : k = runs + 1
      BY <1>1
  <2>2. dependees' = Linked(dependees, k)
      BY <2>1 DEF RunAgain
  <2>3. \A a \in Actions : Linked(dependees, k)[a] =
          IF a = EndOf(k)
          THEN {x \in 1..BeginOf(k - 1) : \A b \in 1..BeginOf(k - 1) : x \notin dependees[b]}
          ELSE IF a \in 1..BeginOf(k - 1) /\ dependees[a] = {} THEN {BeginOf(k)} ELSE dependees[a]
      BY Linking, Zenon
  <2>4. BeginOf(k - 1) = Begin /\ EndOf(k) = end /\ BeginOf(k) = begin
      BY <1>1, <2>1, Bounds
  <2> HIDE DEF end, begin
  <2> QED
      BY <2>2, <2>3, <2>4
<1>3. /\ end \in Actions /\ begin \in Actions /\ begin \notin Chain /\ end \in Ends /\ end \notin Users
      /\ Begin < end /\ end < begin /\ Begin \in Nat /\ end \in Nat /\ begin \in Nat
      /\ there \subseteq Actions /\ Begin \in Actions /\ Begin \notin Chain
      /\ \A u \in Users : u \in there
      /\ end \notin there /\ begin \notin there
  <2>1. end \in Ends /\ end \notin Users /\ begin \in Actions /\ begin \notin Chain /\ end < begin
      BY <1>1, Places
  <2>2. Begin \in Actions /\ Begin \notin Chain
      BY <1>1, Places DEF Begin
  <2>3. Begin < end /\ Begin \in Nat /\ end \in Nat /\ begin \in Nat
      BY <1>1, Bounds DEF Begin, BeginOf, EndOf
  <2>4. \A x \in there : x \in Actions /\ x # end /\ x # begin
      BY <1>1, <2>1, <2>3, Bounds DEF Begin, BeginOf, Actions
  <2>5. \A u \in Users : u \in there
      BY <1>1, Bounds DEF Users, Begin, BeginOf
  <2> QED
      BY <2>1, <2>2, <2>3, <2>4, <2>5, Places
<1> HIDE DEF end, begin, there
<1>4. leaves \subseteq there
    OBVIOUS
<1>5. \A a \in Actions : dependees'[a] \subseteq 1..begin
  <2>1. there \subseteq 1..begin /\ begin \in 1..begin
      BY <1>3 DEF there
  <2>2. \A a \in Actions : dependees[a] \subseteq there
      BY DEF LinkInv, there
  <2> HIDE DEF leaves
  <2> QED
      BY <1>2, <1>4, <2>1, <2>2
<1>6. dependees' \in [Actions -> SUBSET Actions]
  <2>1. 1..begin \subseteq Actions
      BY <1>1, Bounds DEF begin, Actions, BeginOf
  <2>2. dependees' = [a \in Actions |-> dependees'[a]]
      BY LinkedDomain DEF RunAgain
  <2> QED
      BY <1>5, <2>1, <2>2
<1>7. \A a \in Users : dependees'[a] \cap Chain = dependees[a] \cap Chain
  <2> SUFFICES ASSUME NEW a \in Users PROVE dependees'[a] \cap Chain = dependees[a] \cap Chain
      OBVIOUS
  <2>1. a \in Actions /\ a # end
      BY <1>3, Places
  <2> QED
      BY <1>2, <1>3, <2>1
<1>8. \A a \in Actions : a <= Begin => dependees'[a] \cap Chain = dependees[a] \cap Chain
  <2> SUFFICES ASSUME NEW a \in Actions, a <= Begin
               PROVE  dependees'[a] \cap Chain = dependees[a] \cap Chain
      OBVIOUS
  <2>1. a # end
      BY <1>3, Places
  <2> QED
      BY <1>2, <1>3, <2>1
<1>9. LinkInv'
  <2>1. \A a \in Users : /\ dependees'[a] \cap Users = dependees[a] \cap Users
                         /\ dependees'[a] \cap Ends = dependees[a] \cap Ends
      BY <1>7 DEF Chain
  <2>2. \E rank \in [Users -> Users] :
          \A a \in Users : \A d \in dependees'[a] \cap Users : rank[d] < rank[a]
      BY <2>1 DEF LinkInv
  <2>3. \A a \in Users : dependees'[a] \cap Ends = {}
      BY <2>1 DEF LinkInv
  <2>4. \A a \in Actions : a >= begin => dependees'[a] = {}
    <3> SUFFICES ASSUME NEW a \in Actions, a >= begin PROVE dependees'[a] = {}
        OBVIOUS
    <3>1. a # end /\ a \notin there /\ a >= Begin
        BY <1>3, Places DEF there
    <3> QED
        BY <1>2, <3>1 DEF LinkInv
  <2>5. \A a \in Actions : end \notin dependees'[a]
    <3>1. \A a \in Actions : end \notin dependees[a]
        BY <1>3 DEF LinkInv, there
    <3>2. end \notin leaves /\ end # begin
        BY <1>3, <1>4
    <3> HIDE DEF leaves
    <3> QED
        BY <1>2, <3>1, <3>2
  <2>6. \A a \in Users : (\A b \in Users : a \notin dependees'[b]) => a \in dependees'[EndOf(1)]
    <3> SUFFICES ASSUME NEW a \in Users, \A b \in Users : a \notin dependees'[b]
                 PROVE  a \in dependees'[EndOf(1)]
        OBVIOUS
    <3>1. a \in dependees[EndOf(1)]
        BY <2>1 DEF LinkInv
    <3>2. EndOf(1) \in Actions /\ EndOf(1) # end
        BY <1>1, Bounds, Places DEF end, EndOf, Ends
    <3> QED
        BY <1>2, <3>1, <3>2
  <2>7. \A run \in 2..runs' : EndOf(run - 1) \in dependees'[EndOf(run)]
    <3> SUFFICES ASSUME NEW run \in 2..(runs + 1) PROVE EndOf(run - 1) \in dependees'[EndOf(run)]
        BY <1>1
    <3>1. CASE run = runs + 1
      <4>1. EndOf(run - 1) = End /\ EndOf(run) = end
          BY <1>1, <3>1 DEF End, end
      <4>2. End \in there /\ \A b \in there : End \notin dependees[b]
        <5>1. End \in there
            BY <1>1, Bounds DEF End, Begin, EndOf, BeginOf, there
        <5> QED
            BY <1>3, <5>1 DEF LinkInv
      <4> QED
          BY <1>2, <1>3, <4>1, <4>2
    <3>2. CASE run # runs + 1
      <4>1. run \in 2..runs
          BY <1>1, <3>2
      <4>2. EndOf(run) \in Actions /\ EndOf(run) # end
          BY <1>1, <4>1, Bounds, Places DEF end, EndOf, Ends
      <4>3. EndOf(run - 1) \in dependees[EndOf(run)]
          BY <4>1 DEF LinkInv
      <4> QED
          BY <1>2, <4>2, <4>3
    <3> QED
        BY <3>1, <3>2
  <2> QED
      BY <1>1, <1>5, <2>2, <2>3, <2>4, <2>5, <2>6, <2>7 DEF LinkInv
<1>10. SinkInv'
  <2> SUFFICES ASSUME N > 0, NEW run \in 1..(runs + 1)
               PROVE  /\ dependees'[EndOf(run)] # {}
                      /\ \A d \in dependees'[EndOf(run)] : d \in Chain /\ d < EndOf(run)
                      /\ \E b \in 1..begin : BeginOf(run) \in dependees'[b]
      BY <1>1 DEF SinkInv
  <2>1. CASE run = runs + 1
    <3>1. EndOf(run) = end /\ BeginOf(run) = begin
        BY <2>1 DEF end, begin
    <3>2. dependees'[end] = leaves /\ dependees'[Begin] = {begin} /\ Begin \in 1..begin
      <4>1. Begin # end /\ Begin \in there /\ Begin \in 1..begin
          BY <1>1, <1>3, Bounds DEF there, Begin, BeginOf
      <4>2. dependees[Begin] = {}
          BY <1>3 DEF LinkInv
      <4> QED
          BY <1>2, <1>3, <4>1, <4>2
    <3>3. End \in leaves
      <4>1. End \in there
          BY <1>1, Bounds DEF End, Begin, EndOf, BeginOf, there
      <4> QED
          BY <1>3, <4>1 DEF LinkInv
    <3>4. ASSUME NEW d \in leaves PROVE d \in Chain /\ d < end
      <4>1. d \in 1..BeginOf(runs) /\ \A b \in 1..Begin : d \notin dependees[b]
          BY DEF there, Begin
      <4>2. \A r \in 1..runs : d # BeginOf(r)
          BY <4>1 DEF SinkInv
      <4>3. d \in Users \/ \E r \in 1..runs : d = EndOf(r)
          BY <1>1, <4>1, <4>2, Sorts
      <4>4. d \in Chain
        <5>1. \A r \in 1..runs : r \in 1..MaxRuns
            BY <1>1, Bounds
        <5>2. \A r \in 1..runs : EndOf(r) \in Ends
            BY <5>1, Places
        <5> QED
            BY <4>3, <5>2 DEF Chain
      <4>5. d < end
          BY <1>3, <4>1 DEF Begin
      <4> QED
          BY <4>4, <4>5
    <3> QED
        BY <3>1, <3>2, <3>3, <3>4
  <2>2. CASE run # runs + 1
    <3>1. run \in 1..runs
        BY <1>1, <2>2
    <3>2. EndOf(run) \in Actions /\ EndOf(run) # end
        BY <1>1, <3>1, Bounds, Places DEF end, EndOf, Ends
    <3>3. /\ dependees[EndOf(run)] # {}
          /\ \A d \in dependees[EndOf(run)] : d \in Chain /\ d < EndOf(run)
        BY <3>1 DEF SinkInv
    <3>4. dependees'[EndOf(run)] = dependees[EndOf(run)]
        BY <1>2, <3>2, <3>3
    <3>5. PICK b \in there : BeginOf(run) \in dependees[b]
        BY <3>1 DEF SinkInv, there
    <3>6. b \in Actions /\ b # end /\ b \in 1..begin
        BY <1>3 DEF there
    <3>7. BeginOf(run) \in dependees'[b]
        BY <1>2, <3>5, <3>6
    <3> QED
        BY <3>3, <3>4, <3>6, <3>7
  <2> QED
      BY <2>1, <2>2
<1> QED
    BY <1>6, <1>8, <1>9, <1>10

-----------------------------------------------------------------------------
(* What a step of a worker does: it changes the status and the present      *)
(* promise of one action and moves one continuation; others are only woken. *)
WorkerFrame(j, b) ==
    /\ UNCHANGED <<linkVars, gen, futures, iteration, registered>>
    /\ rc' \in {rc, "ERR_FAILED"}
    /\ \A a \in Actions : a # b => status'[a] = status[a]
    /\ \A a \in Actions, g \in Generations :
          \/ promise'[a][g] = promise[a][g]
          \/ a = b /\ g = gen[b] /\ promise[a][g] = "pending"
    /\ \A i \in Iterations, a \in Actions : i # j \/ a # b =>
          \/ cont'[i][a] = cont[i][a]
          \/ cont[i][a] = "waiting" /\ cont'[i][a] = Collect(promise', futures[i][a])

From(j, b, before, after) == cont[j][b] = before /\ cont'[j][b] = after

WorkerMove(j, b) ==
    \/ /\ \/ cont[j][b] = "queued" /\ status[b] # "init"
          \/ cont[j][b] = "body" /\ status[b] # "running"
       /\ cont'[j][b] = cont[j][b] /\ status'[b] = status[b]
       /\ promise' = promise /\ rc' = rc /\ loop' = "aborted"
    \/ /\ From(j, b, "queued", "body") /\ status'[b] = "running"
       /\ promise' = promise /\ rc' = rc /\ loop' = loop
    \/ /\ From(j, b, "body", "fulfilValue") /\ status'[b] = "succeeded"
       /\ promise' = promise /\ rc' = rc /\ loop' = loop
    \/ /\ From(j, b, "body", "fulfilException") /\ status'[b] = "failed" /\ b \in Users
       /\ promise' = promise /\ rc' = rc /\ loop' = loop
    \/ /\ From(j, b, "body", "error") /\ b \in Users
       /\ promise' = promise /\ rc' = rc /\ loop' = loop
    \/ /\ From(j, b, "fulfilValue", "succeeded") /\ status'[b] = status[b]
       /\ promise'[b][gen[b]] = "value" /\ rc' = rc /\ loop' = loop
    \/ /\ From(j, b, "fulfilException", "failed") /\ status'[b] = status[b]
       /\ promise'[b][gen[b]] = "exception" /\ rc' = rc /\ loop' = loop
    \/ /\ From(j, b, "fulfilFailed", "setRc") /\ status'[b] = status[b]
       /\ promise'[b][gen[b]] = "exception" /\ rc' = rc /\ loop' = loop
    \/ /\ cont[j][b] \in {"fulfilValue", "fulfilException", "fulfilFailed"}
       /\ cont'[j][b] \in {"error", "failed"} /\ promise[b][gen[b]] # "pending"
       /\ promise' = promise /\ rc' = rc /\ loop' = loop
    \/ /\ From(j, b, "error", "fulfilFailed") /\ status'[b] = "failed"
       /\ promise' = promise /\ rc' = rc /\ loop' = loop
    \/ /\ From(j, b, "setRc", "failed") /\ status'[b] = status[b] /\ promise' = promise
       /\ j = iteration => rc' = "ERR_FAILED"
       /\ loop' = loop

(* One entry of a function of functions is changed.                         *)
LEMMA Entry ==
    ASSUME NEW S, NEW T, NEW U, NEW f \in [S -> [T -> U]], NEW x \in S, NEW y \in T, NEW v \in U
    PROVE  /\ [f EXCEPT ![x][y] = v] \in [S -> [T -> U]]
           /\ [f EXCEPT ![x][y] = v][x][y] = v
           /\ \A s \in S, t \in T : s # x \/ t # y => [f EXCEPT ![x][y] = v][s][t] = f[s][t]
    OBVIOUS

LEMMA Awakening ==
    ASSUME TypeOK, NEW p
    PROVE  /\ Awoken(p, cont) \in [Iterations -> [Actions -> Cont]]
           /\ \A i \in Iterations, a \in Actions :
                 Awoken(p, cont)[i][a] =
                    IF cont[i][a] = "waiting" THEN Collect(p, futures[i][a]) ELSE cont[i][a]
    BY DEF TypeOK, Awoken, Collect, Cont

(* What the end of run() and markFailed() do to the promise.                *)
LEMMA Fulfilment ==
    ASSUME TypeOK, NEW j \in Iterations, NEW b \in Actions,
           NEW v \in {"value", "exception"}, NEW c \in Cont, NEW onThrow \in Cont,
           FulfilPromise(j, b, v, c, onThrow)
    PROVE  /\ promise' \in [Actions -> [Generations -> {"pending", "value", "exception"}]]
           /\ cont' \in [Iterations -> [Actions -> Cont]]
           /\ \A a \in Actions, g \in Generations :
                 \/ promise'[a][g] = promise[a][g]
                 \/ a = b /\ g = gen[b] /\ promise[a][g] = "pending"
           /\ \A i \in Iterations, a \in Actions : i # j \/ a # b =>
                 \/ cont'[i][a] = cont[i][a]
                 \/ cont[i][a] = "waiting" /\ cont'[i][a] = Collect(promise', futures[i][a])
           /\ \/ promise'[b][gen[b]] = v /\ cont'[j][b] = c
              \/ promise' = promise /\ promise[b][gen[b]] # "pending" /\ cont'[j][b] = onThrow
<1> DEFINE Values == {"pending", "value", "exception"}
<1>1. /\ gen[b] \in Generations /\ promise \in [Actions -> [Generations -> Values]]
      /\ cont \in [Iterations -> [Actions -> Cont]]
    BY DEF TypeOK
<1>2. CASE promise[b][gen[b]] = "pending"
  <2>1. promise' = [promise EXCEPT ![b][gen[b]] = v]
      BY <1>2 DEF FulfilPromise
  <2>2. /\ promise' \in [Actions -> [Generations -> Values]] /\ promise'[b][gen[b]] = v
        /\ \A a \in Actions, g \in Generations :
              a # b \/ g # gen[b] => promise'[a][g] = promise[a][g]
      BY <1>1, <2>1, Entry
  <2>3. cont' = [Awoken(promise', cont) EXCEPT ![j][b] = c]
      BY <1>2 DEF FulfilPromise
  <2>4. Awoken(promise', cont) \in [Iterations -> [Actions -> Cont]]
      BY Awakening
  <2>5. /\ cont' \in [Iterations -> [Actions -> Cont]] /\ cont'[j][b] = c
        /\ \A i \in Iterations, a \in Actions :
              i # j \/ a # b => cont'[i][a] = Awoken(promise', cont)[i][a]
      BY <2>3, <2>4, Entry
  <2>6. \A i \in Iterations, a \in Actions : i # j \/ a # b =>
          \/ cont'[i][a] = cont[i][a]
          \/ cont[i][a] = "waiting" /\ cont'[i][a] = Collect(promise', futures[i][a])
      BY <2>5, Awakening
  <2> QED
      BY <1>2, <2>2, <2>5, <2>6
<1>3. CASE promise[b][gen[b]] # "pending"
  <2>1. promise' = promise /\ cont' = [cont EXCEPT ![j][b] = onThrow]
      BY <1>3 DEF FulfilPromise, Step
  <2>2. /\ cont' \in [Iterations -> [Actions -> Cont]] /\ cont'[j][b] = onThrow
        /\ \A i \in Iterations, a \in Actions : i # j \/ a # b => cont'[i][a] = cont[i][a]
      BY <1>1, <2>1, Entry
  <2> QED
      BY <1>1, <1>3, <2>1, <2>2
<1> QED
    BY <1>2, <1>3

LEMMA Stepping ==
    ASSUME TypeOK, NEW j \in Iterations, NEW b \in Actions, NEW c \in Cont, Step(j, b, c)
    PROVE  /\ cont' \in [Iterations -> [Actions -> Cont]]
           /\ cont'[j][b] = c
           /\ \A i \in Iterations, a \in Actions : i # j \/ a # b => cont'[i][a] = cont[i][a]
<1>1. cont' = [cont EXCEPT ![j][b] = c] /\ cont \in [Iterations -> [Actions -> Cont]]
    BY DEF Step, TypeOK
<1> QED
    BY <1>1, Entry

LEMMA WorkerEffect ==
    ASSUME TypeOK, NEW j \in Iterations, NEW b \in Actions, WorkerStep(j, b)
    PROVE  WorkerFrame(j, b) /\ WorkerMove(j, b) /\ TypeOK'
<1> DEFINE Types ==
        /\ status' \in [Actions -> Status]
        /\ promise' \in [Actions -> [Generations -> {"pending", "value", "exception"}]]
        /\ cont' \in [Iterations -> [Actions -> Cont]]
        /\ rc' \in {"OK", "ERR_FAILED"}
        /\ loop' \in {"eval", "register", "wait", "OK", "ERR_FAILED", "aborted"}
<1>1. /\ status \in [Actions -> Status]
      /\ promise \in [Actions -> [Generations -> {"pending", "value", "exception"}]]
      /\ cont \in [Iterations -> [Actions -> Cont]]
      /\ rc \in {"OK", "ERR_FAILED"}
      /\ loop \in {"eval", "register", "wait", "OK", "ERR_FAILED", "aborted"}
    BY DEF TypeOK
<1>2. \A c \in {"body", "fulfilValue", "fulfilException", "fulfilFailed", "setRc", "error",
               "succeeded", "failed"} : c \in Cont
    BY DEF Cont, Busy
<1>3. CASE CheckFails(j, b)
  <2>1. /\ UNCHANGED <<linkVars, status, gen, promise, futures, cont, rc, iteration, registered>>
        /\ loop' = "aborted"
      BY <1>3 DEF CheckFails, actionVars
  <2>2. WorkerFrame(j, b)
      BY <2>1 DEF WorkerFrame
  <2>3. WorkerMove(j, b)
    <3>1. \/ cont[j][b] = "queued" /\ status[b] # "init"
          \/ cont[j][b] = "body" /\ status[b] # "running"
        BY <1>3 DEF CheckFails
    <3>2. cont' = cont /\ status' = status /\ promise' = promise /\ rc' = rc /\ loop' = "aborted"
        BY <2>1
    <3> QED
        BY <3>1, <3>2 DEF WorkerMove
  <2>4. TypeOK'
      BY <2>1 DEF TypeOK, linkVars
  <2> QED
      BY <2>2, <2>3, <2>4
<1>4. CASE Run(j, b)
  <2>1. /\ status' \in [Actions -> Status] /\ status'[b] = "running"
        /\ \A a \in Actions : a # b => status'[a] = status[a]
      BY <1>1, <1>4 DEF Run, Status
  <2> QED
      BY <1>1, <1>2, <1>4, <2>1, Stepping DEF Run, WorkerFrame, WorkerMove, From, TypeOK, linkVars, loopVars
<1>5. CASE BodyReturns(j, b)
  <2>1. PICK s \in Terminal :
          /\ b \notin Users \/ j \notin MayFail => s = "succeeded"
          /\ status' = [status EXCEPT ![b] = s]
          /\ Step(j, b, IF s = "succeeded" THEN "fulfilValue" ELSE "fulfilException")
      BY <1>5 DEF BodyReturns
  <2>2. /\ status' \in [Actions -> Status] /\ status'[b] = s
        /\ \A a \in Actions : a # b => status'[a] = status[a]
      BY <1>1, <2>1 DEF Terminal, Status
  <2>3. CASE s = "succeeded"
      BY <1>1, <1>2, <1>5, <2>1, <2>2, <2>3, Stepping
      DEF BodyReturns, WorkerFrame, WorkerMove, From, TypeOK, linkVars, loopVars
  <2>4. CASE s = "failed"
      BY <1>1, <1>2, <1>5, <2>1, <2>2, <2>4, Stepping
      DEF BodyReturns, WorkerFrame, WorkerMove, From, TypeOK, linkVars, loopVars
  <2> QED
      BY <2>1, <2>3, <2>4 DEF Terminal
<1>6. CASE BodyThrows(j, b)
    BY <1>1, <1>2, <1>6, Stepping
    DEF BodyThrows, WorkerFrame, WorkerMove, From, TypeOK, linkVars, loopVars
<1>7. CASE Fulfil(j, b)
    BY <1>1, <1>2, <1>7, Fulfilment
    DEF Fulfil, WorkerFrame, WorkerMove, From, TypeOK, linkVars, loopVars
<1>8. CASE HandleError(j, b)
  <2>1. /\ status' \in [Actions -> Status] /\ status'[b] = "failed"
        /\ \A a \in Actions : a # b => status'[a] = status[a]
      BY <1>1, <1>8 DEF HandleError, Status
  <2> QED
      BY <1>1, <1>2, <1>8, <2>1, Stepping
      DEF HandleError, WorkerFrame, WorkerMove, From, TypeOK, linkVars, loopVars
<1>9. CASE FulfilFailed(j, b)
    BY <1>1, <1>2, <1>9, Fulfilment
    DEF FulfilFailed, WorkerFrame, WorkerMove, From, TypeOK, linkVars, loopVars
<1>10. CASE SetRc(j, b)
    BY <1>1, <1>2, <1>10, Stepping DEF SetRc, WorkerFrame, WorkerMove, From, TypeOK, linkVars
<1> QED
    BY <1>3, <1>4, <1>5, <1>6, <1>7, <1>8, <1>9, <1>10 DEF WorkerStep

-----------------------------------------------------------------------------
(* What follows from Inv in an iteration: where the steps of workers are.   *)
LEMMA Moved ==
    ASSUME NEW j, NEW b, WorkerMove(j, b)
    PROVE  cont[j][b] \notin {"none", "waiting", "succeeded", "failed"}
    BY DEF WorkerMove, From

LEMMA Tracking ==
    ASSUME TypeOK, iteration > 0
    PROVE  /\ iteration \in Iterations /\ iteration \in Nat
           /\ Own \subseteq Actions /\ Tracked \subseteq Actions /\ Tracked \subseteq Nat
           /\ Users \subseteq Tracked /\ Own \subseteq Tracked
           /\ N > 0 => Ends \subseteq Own /\ Chain \subseteq Tracked
           /\ iteration = 1 => Own = Actions /\ Tracked = Actions
           /\ \A a \in Tracked : gen[a] \in Generations
<1>1. iteration \in Iterations /\ iteration \in Nat
    BY Bounds DEF TypeOK, Iterations
<1>2. \A a \in Actions : gen[a] \in Generations
    BY DEF TypeOK
<1> QED
    BY <1>1, <1>2, Places DEF Own, Tracked, Chain

(* A worker moves a continuation of an iteration that has begun, and one of *)
(* a tracked action only in the present iteration.                          *)
LEMMA Present ==
    ASSUME Inv, NEW j \in Iterations, NEW b \in Actions, WorkerMove(j, b)
    PROVE  /\ j <= iteration /\ iteration > 0
           /\ Orderly(iteration) /\ b \in Tracked => j = iteration
<1>1. cont[j][b] \notin {"none", "waiting", "succeeded", "failed"}
    BY Moved
<1>2. iteration \in Nat /\ j \in Nat /\ j > 0
    BY Bounds DEF Inv, TypeOK, Iterations
<1>3. j <= iteration
    BY <1>1, <1>2 DEF Inv, LoopInv
<1>4. ASSUME Orderly(iteration), b \in Tracked, j < iteration PROVE FALSE
  <2>1. CASE b \in Users
    <3>1. iteration > 1 /\ j \in 1..(iteration - 1)
        BY <1>2, <1>4
    <3> QED
        BY <1>1, <1>4, <2>1, <3>1 DEF Orderly
  <2>2. CASE b \in Own
    <3>1. PastInv
        BY <1>2, <1>3, <1>4 DEF Inv, OrderlyInv, CurrentInv
    <3> QED
        BY <1>1, <1>4, <2>2, <3>1 DEF PastInv
  <2> QED
      BY <1>4, <2>1, <2>2 DEF Tracked
<1> QED
    BY <1>2, <1>3, <1>4

-----------------------------------------------------------------------------
(* The workers keep what is said of the loop's thread.                      *)
LEMMA WorkerLoop ==
    ASSUME Inv, NEW j \in Iterations, NEW b \in Actions, WorkerFrame(j, b), WorkerMove(j, b)
    PROVE  LoopInv'
<1>1. /\ UNCHANGED <<runs, dependees, gen, futures, iteration, registered>>
      /\ iteration' = iteration /\ registered' = registered /\ gen' = gen /\ runs' = runs
    BY DEF WorkerFrame, linkVars
<1>2. j <= iteration /\ iteration > 0 /\ iteration \in Iterations /\ iteration \in Nat
    BY Present, Tracking DEF Inv
<1>3. \A i \in Iterations, a \in Actions : cont'[i][a] = "none" <=> cont[i][a] = "none"
  <2>1. \A i \in Iterations, a \in Actions : i # j \/ a # b =>
          (cont'[i][a] = "none" <=> cont[i][a] = "none")
      BY DEF WorkerFrame, Collect
  <2>2. cont[j][b] # "none" /\ cont'[j][b] # "none"
      BY DEF WorkerMove, From
  <2> QED
      BY <2>1, <2>2
<1>4. \A a \in Actions, g \in Generations : g > gen[a] => promise'[a][g] = promise[a][g]
  <2>1. \A a \in Actions : gen[a] \in Int
      BY Bounds DEF Inv, TypeOK, Generations
  <2> QED
      BY <2>1 DEF WorkerFrame
<1>5. \A a \in Actions : Outcome(a) # "pending" => Outcome(a)' # "pending"
    BY <1>1 DEF WorkerFrame, Outcome, Inv, TypeOK
<1>6. loop' \in {loop, "aborted"}
    BY DEF WorkerMove
<1>7. ASSUME NEW a \in Actions
      PROVE  /\ gen'[a] <= iteration'
             /\ loop' = "register" /\ a > registered' => gen'[a] < iteration'
             /\ \A g \in Generations : g > gen'[a] => promise'[a][g] = "pending"
             /\ \A i \in Iterations : i > iteration' => cont'[i][a] = "none"
             /\ iteration' > 0 => (Now(a)' = "none" <=> a > registered')
             /\ iteration' > 0
  <2>1. Now(a)' = "none" <=> Now(a) = "none"
      BY <1>1, <1>2, <1>3 DEF Now
  <2>2. /\ gen[a] <= iteration
        /\ loop = "register" /\ a > registered => gen[a] < iteration
        /\ \A g \in Generations : g > gen[a] => promise[a][g] = "pending"
        /\ \A i \in Iterations : i > iteration => cont[i][a] = "none"
        /\ iteration > 0 => (Now(a) = "none" <=> a > registered)
      BY DEF Inv, LoopInv
  <2>3. \A i \in Iterations : i > iteration' => cont'[i][a] = "none"
      BY <1>1, <1>3, <2>2
  <2>4. loop' = "register" => loop = "register"
      BY <1>6
  <2> QED
      BY <1>1, <1>2, <1>4, <2>1, <2>2, <2>3, <2>4
<1>8. /\ registered' <= Begin'
      /\ loop' = "register" => registered' < Begin'
      /\ loop' = "wait" => registered' = Begin'
    BY <1>1, <1>6 DEF Inv, LoopInv, Begin
<1>9. loop' \in {"eval", "OK", "ERR_FAILED"} =>
        \E run \in 1..runs' : registered' = BeginOf(run) /\ Outcome(EndOf(run))' # "pending"
  <2> SUFFICES ASSUME loop' \in {"eval", "OK", "ERR_FAILED"}
               PROVE  \E run \in 1..runs : registered = BeginOf(run) /\ Outcome(EndOf(run))' # "pending"
      BY <1>1
  <2>1. PICK run \in 1..runs : registered = BeginOf(run) /\ Outcome(EndOf(run)) # "pending"
      BY <1>2, <1>6 DEF Inv, LoopInv
  <2>2. run \in 1..MaxRuns
      BY Bounds DEF Inv, TypeOK
  <2>3. EndOf(run) \in Actions
      BY <2>2, Places
  <2> QED
      BY <1>5, <2>1, <2>3
<1> QED
    BY <1>1, <1>2, <1>7, <1>8, <1>9 DEF LoopInv

-----------------------------------------------------------------------------
(* Continuations that have succeeded or whose action has failed stay so.    *)
Settled ==
    \A i \in Iterations, u \in Users :
        /\ cont[i][u] = "succeeded" => cont'[i][u] = "succeeded"
        /\ cont[i][u] \in {"setRc", "failed"} => cont'[i][u] \in {"setRc", "failed"}

(* Whether an iteration is orderly is known when it begins.                 *)
LEMMA OrderlyKept ==
    ASSUME Inv, iteration > 0, iteration' = iteration, Settled,
           \A a \in Users : dependees'[a] \cap Users = dependees[a] \cap Users
    PROVE  /\ Orderly(iteration)' \/ Doomed(iteration)'
           /\ Orderly(iteration)' => Orderly(iteration)
<1>1. iteration \in Iterations /\ iteration \in Nat
    BY Tracking DEF Inv
<1>2. \A i \in 1..(iteration - 1) : i \in Iterations
    BY <1>1, Bounds DEF Iterations
<1>3. Backward' <=> Backward
    BY DEF Backward
<1>4. Orderly(iteration) => Orderly(iteration)'
    BY <1>2, <1>3 DEF Orderly, Settled
<1>5. Doomed(iteration) => Doomed(iteration)'
    BY <1>2, <1>3 DEF Doomed, Settled
<1>6. Doomed(iteration)' => ~Orderly(iteration)'
    BY DEF Doomed, Orderly
<1>7. Orderly(iteration) \/ Doomed(iteration)
    BY DEF Inv, OrderlyInv
<1> QED
    BY <1>4, <1>5, <1>6, <1>7

LEMMA WorkerSettles ==
    ASSUME TypeOK, NEW j \in Iterations, NEW b \in Actions, WorkerFrame(j, b), WorkerMove(j, b)
    PROVE  Settled
<1> SUFFICES ASSUME NEW i \in Iterations, NEW u \in Users
             PROVE  /\ cont[i][u] = "succeeded" => cont'[i][u] = "succeeded"
                    /\ cont[i][u] \in {"setRc", "failed"} => cont'[i][u] \in {"setRc", "failed"}
    BY DEF Settled
<1>1. CASE i = j /\ u = b
    BY <1>1 DEF WorkerMove, From
<1>2. CASE i # j \/ u # b
    BY <1>2, Places DEF WorkerFrame
<1> QED
    BY <1>1, <1>2

(* An orderly iteration that a worker makes a step in.                      *)
OrderlyWork(j, b) ==
    Inv /\ Orderly(iteration) /\ WorkerFrame(j, b) /\ WorkerMove(j, b)

(* What a worker's step means for a tracked action: it is the one that      *)
(* makes the step, or it is at most woken.                                  *)
LEMMA WorkerTracked ==
    ASSUME NEW j \in Iterations, NEW b \in Actions, OrderlyWork(j, b), NEW a \in Tracked
    PROVE  /\ a \in Actions /\ iteration \in Iterations /\ iteration > 0
           /\ iteration' = iteration /\ gen' = gen /\ futures' = futures /\ dependees' = dependees
           /\ Own' = Own /\ Tracked' = Tracked
           /\ gen[a] \in Generations
           /\ \A g \in Generations :
                 promise[a][g] # "pending" => promise'[a][g] = promise[a][g]
           /\ \/ a = b /\ j = iteration
              \/ /\ a # b /\ status'[a] = status[a] /\ Outcome(a)' = Outcome(a)
                 /\ \/ Now(a)' = Now(a)
                    \/ /\ Now(a) = "waiting" /\ Now(a)' = Collect(promise', futures[iteration][a])
                       /\ Now(a)' \in {"waiting", "queued", "error"}
<1>1. /\ iteration' = iteration /\ gen' = gen /\ futures' = futures /\ dependees' = dependees
      /\ registered' = registered
    BY DEF OrderlyWork, WorkerFrame, linkVars
<1>2. iteration \in Iterations /\ iteration > 0 /\ a \in Actions /\ gen[a] \in Generations
    BY Present, Tracking DEF OrderlyWork, Inv
<1>3. Own' = Own /\ Tracked' = Tracked
    BY <1>1 DEF Own, Tracked
<1>4. \A g \in Generations : promise[a][g] # "pending" => promise'[a][g] = promise[a][g]
    BY <1>2 DEF OrderlyWork, WorkerFrame
<1>5. a = b => j = iteration
    BY Present DEF OrderlyWork
<1>6. ASSUME a # b
      PROVE  /\ status'[a] = status[a] /\ Outcome(a)' = Outcome(a)
             /\ \/ Now(a)' = Now(a)
                \/ /\ Now(a) = "waiting" /\ Now(a)' = Collect(promise', futures[iteration][a])
                   /\ Now(a)' \in {"waiting", "queued", "error"}
  <2>1. status'[a] = status[a]
      BY <1>2, <1>6 DEF OrderlyWork, WorkerFrame
  <2>2. Outcome(a)' = Outcome(a)
      BY <1>1, <1>2, <1>6 DEF OrderlyWork, WorkerFrame, Outcome
  <2>3. \/ Now(a)' = Now(a)
        \/ Now(a) = "waiting" /\ Now(a)' = Collect(promise', futures[iteration][a])
      BY <1>1, <1>2, <1>6 DEF OrderlyWork, WorkerFrame, Now
  <2>4. Collect(promise', futures[iteration][a]) \in {"waiting", "queued", "error"}
      BY DEF Collect
  <2> QED
      BY <2>1, <2>2, <2>3, <2>4
<1> QED
    BY <1>1, <1>2, <1>3, <1>4, <1>5, <1>6

LEMMA InOrder ==
    ASSUME NEW j \in Iterations, NEW b \in Actions, OrderlyWork(j, b)
    PROVE  TypeOK /\ CurrentInv
    BY Present DEF OrderlyWork, Inv, OrderlyInv

LEMMA WorkerStage ==
    ASSUME NEW j \in Iterations, NEW b \in Actions, OrderlyWork(j, b)
    PROVE  StageInv'
<1> DEFINE Stage(a, c, s, p) ==
        /\ c \in {"waiting", "queued"} => s = "init"
        /\ c = "body" => s = "running"
        /\ c \in {"fulfilValue", "succeeded"} => s = "succeeded"
        /\ c \in {"fulfilException", "fulfilFailed", "setRc", "failed"} => s = "failed"
        /\ c = "fulfilException" => a \in Users
        /\ c = "succeeded" => p = "value"
        /\ c \in {"setRc", "failed"} => p = "exception"
        /\ c \notin {"none", "succeeded", "setRc", "failed"} => p = "pending"
<1> SUFFICES ASSUME NEW a \in Tracked'
             PROVE  /\ Now(a)' = "none" =>
                          \/ status'[a] = "init" /\ Outcome(a)' = "pending"
                          \/ status'[a] = "succeeded" /\ Outcome(a)' = "value" /\ iteration' > 1
                    /\ iteration' = 1 => gen'[a] = 0
                    /\ Stage(a, Now(a)', status'[a], Outcome(a)')
    BY DEF StageInv
<1>1. a \in Tracked
    BY WorkerTracked, Tracking DEF OrderlyWork, WorkerFrame, Own, Tracked
<1>2. /\ Now(a) = "none" =>
            \/ status[a] = "init" /\ Outcome(a) = "pending"
            \/ status[a] = "succeeded" /\ Outcome(a) = "value" /\ iteration > 1
      /\ iteration = 1 => gen[a] = 0
      /\ Stage(a, Now(a), status[a], Outcome(a))
    BY <1>1, InOrder DEF CurrentInv, StageInv
<1>3. CASE a # b
  <2>1. \/ Now(a)' = Now(a)
        \/ Now(a) = "waiting" /\ Now(a)' \in {"waiting", "queued", "error"}
      BY <1>1, <1>3, WorkerTracked
  <2>2. /\ status'[a] = status[a] /\ Outcome(a)' = Outcome(a)
        /\ iteration' = iteration /\ gen' = gen
      BY <1>1, <1>3, WorkerTracked
  <2> QED
      BY <1>2, <2>1, <2>2
<1>4. CASE a = b
  <2>1. j = iteration /\ iteration' = iteration /\ gen' = gen
      BY <1>1, <1>4, WorkerTracked
  <2>2. /\ Now(a) = cont[j][b] /\ Now(a)' = cont'[j][b]
        /\ Outcome(a) = promise[b][gen[b]] /\ Outcome(a)' = promise'[b][gen[b]]
      BY <1>4, <2>1 DEF Now, Outcome
  <2>3. WorkerMove(j, b)
      BY DEF OrderlyWork
  <2> QED
      BY <1>2, <1>4, <2>1, <2>2, <2>3 DEF WorkerMove, From
<1> QED
    BY <1>3, <1>4

LEMMA WorkerCollected ==
    ASSUME NEW j \in Iterations, NEW b \in Actions, OrderlyWork(j, b)
    PROVE  CollectedInv'
<1> DEFINE LetRun == {"queued", "body", "fulfilValue", "fulfilException", "succeeded"}
<1> SUFFICES ASSUME NEW a \in Tracked', Now(a)' \in LetRun, NEW f \in futures'[iteration'][a]
             PROVE  promise'[f[1]][f[2]] = "value"
    BY DEF CollectedInv
<1>1. a \in Tracked
    BY Present, Tracking DEF OrderlyWork, WorkerFrame, Own, Tracked
<1>2. f \in futures[iteration][a] /\ f[1] \in Actions /\ f[2] \in Generations
    BY <1>1, WorkerTracked, InOrder DEF TypeOK
<1>3. CASE Now(a) \in LetRun
  <2>1. promise[f[1]][f[2]] = "value"
      BY <1>1, <1>2, <1>3, InOrder DEF CurrentInv, CollectedInv
  <2> QED
      BY <1>2, <2>1 DEF OrderlyWork, WorkerFrame
<1>4. CASE Now(a) \notin LetRun
  <2>1. a # b
    <3> SUFFICES ASSUME a = b PROVE FALSE
        OBVIOUS
    <3>1. Now(a) = cont[j][b] /\ Now(a)' = cont'[j][b]
        BY <1>1, WorkerTracked DEF Now
    <3>2. WorkerMove(j, b)
        BY DEF OrderlyWork
    <3> QED
        BY <1>4, <3>1, <3>2 DEF WorkerMove, From
  <2>2. Collect(promise', futures[iteration][a]) = "queued"
      BY <1>1, <1>4, <2>1, WorkerTracked
  <2> QED
      BY <1>2, <2>2 DEF Collect
<1> QED
    BY <1>3, <1>4

LEMMA WorkerFutures ==
    ASSUME NEW j \in Iterations, NEW b \in Actions, OrderlyWork(j, b)
    PROVE  FuturesInv'
<1>1. /\ iteration' = iteration /\ gen' = gen /\ futures' = futures /\ dependees' = dependees
      /\ Own' = Own /\ Tracked' = Tracked /\ Own \subseteq Tracked
    BY Present, Tracking DEF OrderlyWork, Inv, WorkerFrame, Own, Tracked, linkVars
<1>2. \A a \in Tracked : Now(a)' # "none" => Now(a) # "none"
  <2> SUFFICES ASSUME NEW a \in Tracked, Now(a) = "none" PROVE Now(a)' = "none"
      OBVIOUS
  <2>1. a # b
    <3> SUFFICES ASSUME a = b PROVE FALSE
        OBVIOUS
    <3>1. Now(a) = cont[j][b] /\ WorkerMove(j, b)
        BY WorkerTracked DEF Now, OrderlyWork
    <3> QED
        BY <3>1, Moved
  <2> QED
      BY <2>1, WorkerTracked
<1>3. FuturesInv
    BY InOrder DEF CurrentInv
<1> QED
    BY <1>1, <1>2, <1>3 DEF FuturesInv

LEMMA WorkerCause ==
    ASSUME NEW j \in Iterations, NEW b \in Actions, OrderlyWork(j, b)
    PROVE  CauseInv'
<1> DEFINE Failing == {"error", "fulfilException", "fulfilFailed", "setRc", "failed"}
<1>1. /\ iteration' = iteration /\ gen' = gen /\ futures' = futures
      /\ Own' = Own /\ Tracked' = Tracked /\ Own \subseteq Tracked
      /\ iteration \in Iterations /\ rc' \in {rc, "ERR_FAILED"} /\ WorkerMove(j, b)
      /\ iteration = 1 => Own = Actions
    BY Present, Tracking DEF OrderlyWork, Inv, WorkerFrame, Own, Tracked, linkVars
<1>2. CauseInv /\ StageInv /\ FuturesInv
    BY InOrder DEF CurrentInv
<1>3. UserFailed => UserFailed'
  <2>1. Settled
      BY WorkerSettles, InOrder DEF OrderlyWork
  <2> QED
      BY <1>1, <2>1 DEF Settled, UserFailed, Now
<1>4. b \in Own => /\ j = iteration /\ Now(b) = cont[j][b] /\ Now(b)' = cont'[j][b]
                   /\ Now(b) \notin {"none", "waiting", "succeeded", "failed"}
                   /\ Now(b) # "setRc" => Outcome(b) = "pending"
                   /\ Now(b) = "queued" => status[b] = "init"
                   /\ Now(b) = "body" => status[b] = "running"
                   /\ Now(b) = "fulfilException" => b \in Users
                   /\ Outcome(b) = promise[b][gen[b]]
  <2> SUFFICES ASSUME b \in Own
               PROVE  /\ j = iteration /\ Now(b) = cont[j][b] /\ Now(b)' = cont'[j][b]
                      /\ Now(b) \notin {"none", "waiting", "succeeded", "failed"}
                      /\ Now(b) # "setRc" => Outcome(b) = "pending"
                      /\ Now(b) = "queued" => status[b] = "init"
                      /\ Now(b) = "body" => status[b] = "running"
                      /\ Now(b) = "fulfilException" => b \in Users
                      /\ Outcome(b) = promise[b][gen[b]]
      OBVIOUS
  <2>1. j = iteration /\ Now(b) = cont[j][b] /\ Now(b)' = cont'[j][b]
      BY <1>1, WorkerTracked DEF Now
  <2>2. Now(b) \notin {"none", "waiting", "succeeded", "failed"}
      BY <1>1, <2>1, Moved
  <2> QED
      BY <1>1, <1>2, <2>1, <2>2 DEF StageInv, Outcome
(* An action of the loop's own that makes the step was failing before it.   *)
<1>5. b \in Own \ Users /\ Now(b)' \in Failing => UserFailed
  <2> SUFFICES ASSUME b \in Own \ Users, Now(b)' \in Failing PROVE Now(b) \in Failing
      BY <1>2 DEF CauseInv
  <2> QED
      BY <1>1, <1>4 DEF WorkerMove, From
<1>6. b \in Own \ Users /\ Now(b)' = "failed" => rc' # "OK"
    BY <1>1, <1>4 DEF WorkerMove, From
<1>7. \A a \in Own \ Users : Now(a)' \in Failing \ {"error"} => UserFailed
  <2> SUFFICES ASSUME NEW a \in Own \ Users, Now(a)' \in Failing \ {"error"} PROVE UserFailed
      OBVIOUS
  <2>1. CASE a = b
      BY <1>5, <2>1
  <2>2. CASE a # b
    <3>1. Now(a)' = Now(a)
        BY <1>1, <2>2, WorkerTracked
    <3> QED
        BY <1>2, <3>1 DEF CauseInv
  <2> QED
      BY <2>1, <2>2
<1>8. ASSUME NEW a \in Own \ Users, Now(a)' = "error" PROVE UserFailed'
  <2>1. CASE a = b
      BY <1>3, <1>5, <2>1, <1>8
  <2>2. CASE a # b /\ Now(a)' = Now(a)
      BY <1>2, <1>3, <1>8, <2>2 DEF CauseInv
  <2>3. CASE a # b /\ Now(a)' # Now(a)
    <3>1. Now(a) = "waiting" /\ Collect(promise', futures[iteration][a]) = "error"
        BY <1>1, <1>8, <2>3, WorkerTracked
    <3>2. PICK f \in futures[iteration][a] : promise'[f[1]][f[2]] = "exception"
        BY <3>1 DEF Collect
    <3>3. f[1] \in Tracked /\ f[2] = gen[f[1]]
        BY <1>2, <3>1 DEF FuturesInv
    <3> DEFINE d == f[1]
    <3>4. Outcome(d)' = "exception"
        BY <1>1, <3>2, <3>3 DEF Outcome
    <3> HIDE DEF d
    <3>5. Now(d)' \in {"setRc", "failed"}
        BY <1>1, <3>3, <3>4, WorkerStage DEF StageInv, d
    <3>6. CASE d \in Users
        BY <3>5, <3>6 DEF UserFailed
    <3>7. CASE d \in Own \ Users
        BY <1>3, <1>7, <3>5, <3>7
    <3> QED
        BY <3>3, <3>6, <3>7 DEF Tracked, d
  <2> QED
      BY <2>1, <2>2, <2>3
<1>9. \A a \in Own \ Users : Now(a)' = "failed" => rc' # "OK"
  <2> SUFFICES ASSUME NEW a \in Own \ Users, Now(a)' = "failed" PROVE rc' # "OK"
      OBVIOUS
  <2>1. CASE a = b
      BY <1>6, <2>1
  <2>2. CASE a # b
    <3>1. Now(a) = "failed"
        BY <1>1, <2>2, WorkerTracked
    <3>2. rc # "OK"
        BY <1>2, <3>1 DEF CauseInv
    <3> QED
        BY <1>1, <3>2
  <2> QED
      BY <2>1, <2>2
<1>10. ASSUME iteration = 1 PROVE loop' # "aborted" /\ (rc' # "OK" => UserFailed')
  <2>1. b \in Own /\ loop # "aborted" /\ (rc # "OK" => UserFailed)
      BY <1>1, <1>2, <1>10 DEF CauseInv
  <2>2. loop' # "aborted"
      BY <1>1, <1>4, <2>1 DEF WorkerMove, From
  <2>3. CASE rc' = rc
      BY <1>3, <2>1, <2>2, <2>3
  <2>4. CASE rc' # rc
    <3>1. Now(b) = "setRc" /\ Now(b)' = "failed"
        BY <1>1, <1>4, <2>1, <2>4 DEF WorkerMove, From
    <3>2. CASE b \in Users
        BY <2>2, <3>1, <3>2 DEF UserFailed
    <3>3. CASE b \notin Users
        BY <1>3, <1>5, <2>1, <2>2, <3>1, <3>3
    <3> QED
        BY <3>2, <3>3
  <2> QED
      BY <2>2, <2>3, <2>4
<1>11. ASSUME NEW a \in Own' \ Users
       PROVE  /\ Now(a)' \in Failing => UserFailed'
              /\ Now(a)' = "failed" => rc' # "OK"
    BY <1>1, <1>3, <1>7, <1>8, <1>9
<1> QED
    BY <1>1, <1>10, <1>11 DEF CauseInv

LEMMA WorkerPast ==
    ASSUME NEW j \in Iterations, NEW b \in Actions, OrderlyWork(j, b)
    PROVE  PastInv'
<1>1. /\ iteration' = iteration /\ Own' = Own /\ Own \subseteq Tracked /\ Own \subseteq Actions
      /\ iteration \in Nat
    BY Present, Tracking DEF OrderlyWork, Inv, WorkerFrame, Own
<1> SUFFICES ASSUME NEW i \in Iterations, NEW a \in Own, i < iteration
             PROVE  cont'[i][a] \in {"none", "succeeded"}
    BY <1>1 DEF PastInv
<1>2. cont[i][a] \in {"none", "succeeded"}
    BY InOrder DEF CurrentInv, PastInv
<1>3. i # j \/ a # b
    BY <1>1, Present DEF OrderlyWork, Iterations
<1> QED
    BY <1>1, <1>2, <1>3 DEF OrderlyWork, WorkerFrame

(* Every step of a worker keeps the invariant.                              *)
LEMMA WorkerInv ==
    ASSUME Inv, NEW j \in Iterations, NEW b \in Actions, WorkerStep(j, b)
    PROVE  Inv'
<1>1. WorkerFrame(j, b) /\ WorkerMove(j, b) /\ TypeOK'
    BY WorkerEffect DEF Inv
<1>2. LoopInv' /\ Settled /\ iteration > 0 /\ iteration' = iteration
    BY <1>1, WorkerLoop, WorkerSettles, Present DEF Inv, WorkerFrame
<1>3. LinkInv' /\ SinkInv'
    BY <1>1 DEF Inv, LinkInv, SinkInv, WorkerFrame, linkVars, Begin, End
<1>4. OrderlyInv'
  <2>1. Orderly(iteration)' \/ Doomed(iteration)'
      BY <1>1, <1>2, OrderlyKept DEF WorkerFrame, linkVars
  <2>2. ASSUME Orderly(iteration)' PROVE CurrentInv'
    <3>1. OrderlyWork(j, b)
        BY <1>1, <1>2, <2>2, OrderlyKept DEF OrderlyWork, WorkerFrame, linkVars
    <3> QED
        BY <3>1, WorkerStage, WorkerCollected, WorkerFutures, WorkerCause, WorkerPast DEF CurrentInv
  <2> QED
      BY <2>1, <2>2 DEF OrderlyInv
<1> QED
    BY <1>1, <1>2, <1>3, <1>4 DEF Inv

-----------------------------------------------------------------------------
(* In an orderly iteration an action in the chain is registered after those *)
(* it depends on, but in the first one, where no action is reset.           *)
LEMMA ChainBack ==
    ASSUME Inv, Orderly(iteration), iteration > 1,
           NEW x \in Tracked \cap Chain, x <= Begin, NEW d \in dependees[x] \cap Chain
    PROVE  d < x
<1>1. CASE x \in Users
  <2>1. d \in Users
      BY <1>1 DEF Inv, LinkInv, Chain
  <2> QED
      BY <1>1, <2>1 DEF Orderly, Backward
<1>2. CASE x \notin Users
  <2>1. N > 0
      BY <1>2, Bounds DEF Tracked, Own
  <2>2. PICK run \in 1..MaxRuns : x = EndOf(run)
      BY <1>2 DEF Chain, Ends
  <2>3. run \in 1..runs
      BY <2>2, Bounds DEF Inv, TypeOK, EndOf, Begin, BeginOf
  <2> QED
      BY <2>1, <2>2, <2>3 DEF Inv, SinkInv
<1> QED
    BY <1>1, <1>2

(* An action in the chain that was let run waited for those before it.      *)
LEMMA Passed ==
    ASSUME Inv, iteration > 0, Orderly(iteration), NEW x \in Tracked \cap Chain,
           Now(x) \in {"queued", "body", "fulfilValue", "fulfilException", "succeeded"},
           NEW d \in dependees[x] \cap Chain \cap Tracked
    PROVE  Now(d) = "succeeded"
<1>1. StageInv /\ CollectedInv /\ FuturesInv
    BY DEF Inv, OrderlyInv, CurrentInv
<1>2. <<d, gen[d]>> \in futures[iteration][x]
    BY <1>1 DEF FuturesInv
<1>3. Outcome(d) = "value"
    BY <1>1, <1>2 DEF CollectedInv, Outcome
<1>4. Now(d) = "none" \/ Now(d) = "succeeded"
    BY <1>1, <1>3 DEF StageInv
<1>5. ASSUME Now(d) = "none" PROVE FALSE
  <2>1. iteration > 1
      BY <1>1, <1>3, <1>5 DEF StageInv
  <2>2. x \in Actions /\ d \in Actions /\ x \in Nat /\ d \in Nat
      BY Places
  <2>3. x <= registered /\ d > registered
      BY <1>5, <2>2 DEF Inv, LoopInv, TypeOK
  <2>4. registered <= Begin /\ registered \in Nat /\ Begin \in Nat
      BY Bounds DEF Inv, LoopInv, TypeOK, Begin, BeginOf
  <2>5. x <= Begin
      BY <2>2, <2>3, <2>4
  <2>6. d < x
      BY <2>1, <2>5, ChainBack
  <2> QED
      BY <2>2, <2>3, <2>4, <2>6
<1> QED
    BY <1>4, <1>5

(* What holds of the last run, and of the run before one it holds of, holds *)
(* of every run.                                                            *)
LEMMA FromTheLast ==
    ASSUME NEW last \in Nat, NEW P, last \in P, \A run \in 2..last : run \in P => run - 1 \in P
    PROVE  \A run \in 1..last : run \in P
<1> SUFFICES ASSUME NEW wrong \in 1..last, wrong \notin P PROVE FALSE
    OBVIOUS
<1> DEFINE Less == OpToRel(<, Nat)
           T == {last - run : run \in (1..last) \ P}
<1>1. T \subseteq Nat /\ T # {}
    OBVIOUS
<1>2. PICK m \in T : \A n \in T : ~(<<n, m>> \in Less)
  <2> HIDE DEF T, Less
  <2>1. IsWellFoundedOn(Less, Nat)
      BY NatLessThanWellFounded DEF Less
  <2> QED
      BY <1>1, <2>1, WFMin
<1>3. PICK run \in (1..last) \ P : m = last - run
    OBVIOUS
<1>4. run + 1 \in 2..last
    BY <1>3
<1>5. CASE run + 1 \in P
    BY <1>3, <1>4, <1>5
<1>6. CASE run + 1 \notin P
  <2>1. last - (run + 1) \in T
      BY <1>4, <1>6
  <2>2. last - (run + 1) \in Nat /\ m \in Nat /\ last - (run + 1) < m
      BY <1>1, <1>3, <1>4
  <2> QED
      BY <1>2, <2>1, <2>2 DEF OpToRel
<1> QED
    BY <1>5, <1>6

(* When a sink was let run, all the sub-actions and the sinks before it     *)
(* have succeeded.                                                          *)
LEMMA AllSucceeded ==
    ASSUME Inv, iteration > 0, Orderly(iteration), N > 0, NEW last \in 1..runs,
           Now(EndOf(last)) \in {"queued", "body", "fulfilValue", "succeeded"}
    PROVE  /\ \A u \in Users : Now(u) = "succeeded"
           /\ \A run \in 1..(last - 1) : Now(EndOf(run)) = "succeeded"
<1> DEFINE LetRun == {"queued", "body", "fulfilValue", "fulfilException", "succeeded"}
           P == {run \in 1..last : Now(EndOf(run)) \in LetRun}
<1>1. runs \in 1..MaxRuns /\ last \in Nat /\ Chain \subseteq Tracked
    BY Bounds, Tracking DEF Inv, TypeOK
<1>2. \A run \in 1..runs : EndOf(run) \in Tracked \cap Chain
  <2>1. \A run \in 1..runs : run \in 1..MaxRuns
      BY <1>1, Bounds
  <2> QED
      BY <1>1, <2>1, Places DEF Chain
<1>3. ASSUME NEW run \in 2..last, run \in P PROVE Now(EndOf(run - 1)) = "succeeded"
  <2>1. run \in 1..runs /\ run - 1 \in 1..runs /\ run \in 2..runs
      BY <1>1
  <2>2. EndOf(run - 1) \in dependees[EndOf(run)]
      BY <2>1 DEF Inv, LinkInv
  <2> QED
      BY <1>2, <1>3, <2>1, <2>2, Passed
<1>4. \A run \in 1..last : run \in P
  <2>1. last \in P
      BY <1>1
  <2>2. \A run \in 2..last : run \in P => run - 1 \in P
      BY <1>1, <1>3
  <2> HIDE DEF P
  <2> QED
      BY <1>1, <2>1, <2>2, FromTheLast
<1>5. ASSUME NEW run \in 1..(last - 1) PROVE Now(EndOf(run)) = "succeeded"
  <2>1. run + 1 \in 2..last /\ run + 1 \in 1..last /\ run + 1 - 1 = run
      BY <1>1
  <2> QED
      BY <1>3, <1>4, <2>1
<1>6. ASSUME NEW u \in Users, Now(u) # "succeeded" PROVE FALSE
  <2> DEFINE S == {x \in Users : Now(x) # "succeeded"}
  <2>1. PICK rank \in [Users -> Users] :
          \A a \in Users : \A d \in dependees[a] \cap Users : rank[d] < rank[a]
      BY DEF Inv, LinkInv
  <2>2. S \in SUBSET Users /\ S # {}
      BY <1>6
  <2>3. PICK x \in S : \A y \in S : rank[y] <= rank[x]
    <3> HIDE DEF S
    <3> QED
        BY <2>2, HighestRank
  <2>4. x \in Chain \cap Tracked /\ Now(x) # "succeeded"
      BY <1>1 DEF Chain
  <2>5. CASE \E b \in Users : x \in dependees[b]
    <3>1. PICK b \in Users : x \in dependees[b]
        BY <2>5
    <3>2. rank[x] < rank[b] /\ rank[x] \in Nat /\ rank[b] \in Nat
        BY <2>1, <3>1, Places
    <3>3. Now(b) = "succeeded"
        BY <2>3, <3>2
    <3>4. b \in Tracked \cap Chain
        BY <1>1 DEF Chain
    <3> QED
        BY <2>4, <3>1, <3>3, <3>4, Passed
  <2>6. CASE ~ \E b \in Users : x \in dependees[b]
    <3>1. x \in dependees[EndOf(1)]
        BY <2>6 DEF Inv, LinkInv
    <3>2. Now(EndOf(1)) \in LetRun /\ EndOf(1) \in Tracked \cap Chain
        BY <1>1, <1>2, <1>4
    <3> QED
        BY <2>4, <3>1, <3>2, Passed
  <2> QED
      BY <2>5, <2>6
<1> QED
    BY <1>5, <1>6

(* When the loop's thread is between two iterations, either a sub-action    *)
(* has failed or everything has succeeded.                                  *)
LEMMA IterationOver ==
    ASSUME Inv, iteration > 0, Orderly(iteration), loop = "eval", N > 0
    PROVE  \/ UserFailed
           \/ /\ \A u \in Users : Now(u) = "succeeded"
              /\ \A a \in Ends : Now(a) \in {"none", "succeeded"}
<1>1. PICK run \in 1..runs : registered = BeginOf(run) /\ Outcome(EndOf(run)) # "pending"
    BY DEF Inv, LoopInv
<1>2. runs \in 1..MaxRuns /\ run \in 1..MaxRuns /\ run \in Nat
    BY Bounds DEF Inv, TypeOK
<1> DEFINE end == EndOf(run)
<1>3. end \in Actions /\ end \in Own /\ end \notin Users /\ end \in Tracked /\ end <= registered
  <2>1. end \in Ends /\ end \notin Users /\ end < BeginOf(run) /\ Ends \subseteq Actions /\ Ends \subseteq Nat
      BY <1>2, Places
  <2>2. end <= registered
      BY <1>1, <1>2, Bounds DEF EndOf, BeginOf
  <2> QED
      BY <2>1, <2>2, Tracking DEF Inv
<1>4. Now(end) # "none"
  <2>1. end \in Nat /\ registered \in Nat
    <3>1. end \in Nat
      <4> HIDE DEF end
      <4> QED
          BY <1>3, Places
    <3>2. registered \in Nat
        BY Bounds DEF Inv, TypeOK, BeginOf
    <3> QED
        BY <3>1, <3>2
  <2>2. Now(end) = "none" <=> end > registered
      BY <1>3 DEF Inv, LoopInv
  <2> QED
      BY <1>3, <2>1, <2>2
<1>5. Now(end) \in {"succeeded", "setRc", "failed"}
    BY <1>1, <1>3, <1>4 DEF Inv, OrderlyInv, CurrentInv, StageInv
<1>6. CASE Now(end) \in {"setRc", "failed"}
    BY <1>3, <1>6 DEF Inv, OrderlyInv, CurrentInv, CauseInv
<1>7. CASE Now(end) = "succeeded"
  <2>1. /\ \A u \in Users : Now(u) = "succeeded"
        /\ \A r \in 1..(run - 1) : Now(EndOf(r)) = "succeeded"
      BY <1>7, AllSucceeded
  <2>2. ASSUME NEW a \in Ends PROVE Now(a) \in {"none", "succeeded"}
    <3>1. PICK r \in 1..MaxRuns : a = EndOf(r)
        BY DEF Ends
    <3>2. CASE r = run
        BY <1>7, <3>1, <3>2
    <3>3. CASE r < run
      <4>1. r \in 1..(run - 1)
          BY <1>2, <3>3
      <4> QED
          BY <2>1, <3>1, <4>1
    <3>4. CASE r > run
      <4>1. a > registered /\ a \in Actions
          BY <1>1, <1>2, <3>1, <3>4, Bounds, Places DEF EndOf, BeginOf
      <4> QED
          BY <4>1 DEF Inv, LoopInv
    <3> QED
        BY <1>2, <3>2, <3>3, <3>4
  <2> QED
      BY <2>1, <2>2
<1> QED
    BY <1>5, <1>6, <1>7

-----------------------------------------------------------------------------
(* The loop's thread.  Two of its steps change nothing but where it stands. *)
LEMMA QuietStep ==
    ASSUME Inv, UNCHANGED <<linkVars, actionVars, rc, iteration, registered>>, TypeOK', LoopInv',
           loop' = loop \/ loop' # "aborted"
    PROVE  Inv'
<1>1. /\ UNCHANGED <<runs, dependees, status, gen, promise, futures, cont>>
      /\ UNCHANGED <<rc, iteration, registered>>
    BY DEF linkVars, actionVars
<1>2. LinkInv' /\ SinkInv'
    BY <1>1 DEF Inv, LinkInv, SinkInv, Begin, End
<1>3. OrderlyInv'
  <2>1. Orderly(iteration)' <=> Orderly(iteration)
      BY <1>1 DEF Orderly, Backward
  <2>2. Doomed(iteration)' <=> Doomed(iteration)
      BY <1>1 DEF Doomed, Backward
  <2>3. StageInv' <=> StageInv
      BY <1>1 DEF StageInv, Tracked, Own, Now, Outcome
  <2>4. CollectedInv' <=> CollectedInv
      BY <1>1 DEF CollectedInv, Tracked, Own, Now
  <2>5. FuturesInv' <=> FuturesInv
      BY <1>1 DEF FuturesInv, Tracked, Own, Now
  <2>6. CauseInv => CauseInv'
      BY <1>1 DEF CauseInv, Tracked, Own, Now, UserFailed
  <2>7. PastInv' <=> PastInv
      BY <1>1 DEF PastInv, Own
  <2>8. iteration' = iteration
      BY <1>1
  <2> QED
      BY <2>1, <2>2, <2>3, <2>4, <2>5, <2>6, <2>7, <2>8 DEF Inv, OrderlyInv, CurrentInv
<1> QED
    BY <1>2, <1>3 DEF Inv

LEMMA StopInv == ASSUME Inv, Stop PROVE Inv'
<1>1. UNCHANGED <<linkVars, actionVars, rc, iteration, registered>> /\ loop' \in {"OK", "ERR_FAILED"}
    BY DEF Stop
<1>2. loop = "eval"
    BY DEF Stop
<1>3. TypeOK'
    BY <1>1 DEF Inv, TypeOK, linkVars, actionVars
<1>4. LoopInv'
  <2>1. UNCHANGED <<runs, dependees, status, gen, promise, futures, cont, iteration, registered>>
      BY <1>1 DEF linkVars, actionVars
  <2> QED
      BY <1>1, <1>2, <2>1 DEF Inv, LoopInv, Now, Outcome, Begin
<1> QED
    BY <1>1, <1>3, <1>4, QuietStep

LEMMA IterationEndsInv == ASSUME Inv, IterationEnds PROVE Inv'
<1>1. /\ UNCHANGED <<linkVars, actionVars, rc, iteration, registered>>
      /\ loop' \in {"eval", "ERR_FAILED"} /\ loop = "wait" /\ Outcome(End) # "pending"
    BY DEF IterationEnds, Outcome
<1>2. UNCHANGED <<runs, dependees, status, gen, promise, futures, cont, iteration, registered>>
    BY <1>1 DEF linkVars, actionVars
<1>3. TypeOK'
    BY <1>1, <1>2 DEF Inv, TypeOK
<1>4. LoopInv'
  <2>1. registered = BeginOf(runs) /\ iteration # 0 /\ runs \in 1..runs
      BY <1>1, Bounds DEF Inv, LoopInv, TypeOK, Begin
  <2>2. \E run \in 1..runs' : registered' = BeginOf(run) /\ Outcome(EndOf(run))' # "pending"
      BY <1>1, <1>2, <2>1 DEF Outcome, End
  <2> QED
      BY <1>1, <1>2, <2>1, <2>2 DEF Inv, LoopInv, Now, Outcome, Begin
<1> QED
    BY <1>1, <1>3, <1>4, QuietStep

LEMMA RunAgainInv == ASSUME Inv, RunAgain PROVE Inv'
<1>1. /\ UNCHANGED <<status, gen, promise, futures, cont, rc, iteration, registered>>
      /\ runs' = runs + 1 /\ loop = "OK" /\ loop' = "eval" /\ runs < MaxRuns
    BY DEF RunAgain, actionVars
<1>2. /\ dependees' \in [Actions -> SUBSET Actions] /\ LinkInv' /\ SinkInv'
      /\ \A a \in Actions : a <= Begin => dependees'[a] \cap Chain = dependees[a] \cap Chain
    BY RunAgainLinks DEF Inv
<1>3. TypeOK'
    BY <1>1, <1>2, Bounds DEF Inv, TypeOK
<1>4. LoopInv'
  <2>1. Begin' >= Begin /\ Begin \in Nat /\ Begin' \in Nat /\ registered \in Nat
      BY <1>1, Bounds DEF Inv, TypeOK, Begin, BeginOf
  <2>2. \A run \in 1..runs : run \in 1..runs'
      BY <1>1, Bounds DEF Inv, TypeOK
  <2>3. iteration' > 0 =>
          \E run \in 1..runs' : registered' = BeginOf(run) /\ Outcome(EndOf(run))' # "pending"
      BY <1>1, <2>2 DEF Inv, LoopInv, Outcome
  <2>4. registered' <= Begin'
      BY <1>1, <2>1 DEF Inv, LoopInv
  <2> QED
      BY <1>1, <2>3, <2>4 DEF Inv, LoopInv, Now, Outcome
<1>5. OrderlyInv'
  <2> SUFFICES ASSUME iteration > 0
               PROVE  /\ Orderly(iteration)' \/ Doomed(iteration)'
                      /\ Orderly(iteration)' => CurrentInv'
      BY <1>1 DEF OrderlyInv
  <2>1. \A a \in Users : dependees'[a] \cap Users = dependees[a] \cap Users
    <3> SUFFICES ASSUME NEW a \in Users PROVE dependees'[a] \cap Users = dependees[a] \cap Users
        OBVIOUS
    <3>1. a \in Actions /\ a <= Begin
        BY Places, Bounds DEF Inv, TypeOK, Users, Begin, BeginOf
    <3>2. dependees'[a] \cap Chain = dependees[a] \cap Chain
        BY <1>2, <3>1
    <3> QED
        BY <3>2 DEF Chain
  <2>2. Settled /\ iteration' = iteration
      BY <1>1 DEF Settled
  <2>3. /\ Orderly(iteration)' \/ Doomed(iteration)'
        /\ Orderly(iteration)' => Orderly(iteration)
      BY <2>1, <2>2, OrderlyKept
  <2>4. ASSUME Orderly(iteration) PROVE CurrentInv'
    <3>1. CurrentInv
        BY <2>4 DEF Inv, OrderlyInv
    <3>2. Own' = Own /\ Tracked' = Tracked /\ \A a \in Actions : Now(a)' = Now(a)
        BY <1>1 DEF Own, Tracked, Now
    <3>3. Own \subseteq Actions /\ Tracked \subseteq Actions
        BY Tracking DEF Inv
    <3>4. StageInv' /\ CollectedInv'
        BY <1>1, <3>1, <3>2, <3>3 DEF CurrentInv, StageInv, CollectedInv, Outcome
    <3>5. CauseInv' /\ PastInv'
        BY <1>1, <3>1, <3>2, <3>3, Places DEF CurrentInv, CauseInv, UserFailed, PastInv
    <3>6. FuturesInv'
      <4>1. ASSUME NEW a \in Tracked \cap Chain, Now(a) # "none",
                   NEW d \in dependees'[a] \cap Chain \cap Tracked
            PROVE  <<d, gen[d]>> \in futures[iteration][a]
        <5>1. a \in Actions /\ a \in Nat
            BY <3>3, Places
        <5>2. a <= Begin
          <6>1. Now(a) = "none" <=> a > registered
              BY <5>1 DEF Inv, LoopInv
          <6>2. registered <= Begin /\ registered \in Nat /\ Begin \in Nat
              BY Bounds DEF Inv, LoopInv, TypeOK, Begin, BeginOf
          <6> QED
              BY <4>1, <5>1, <6>1, <6>2
        <5>3. d \in dependees[a] \cap Chain \cap Tracked
            BY <1>2, <5>1, <5>2
        <5> QED
            BY <3>1, <4>1, <5>3 DEF CurrentInv, FuturesInv
      <4> QED
          BY <1>1, <3>1, <3>2, <3>3, <4>1 DEF CurrentInv, FuturesInv
    <3> QED
        BY <3>4, <3>5, <3>6 DEF CurrentInv
  <2> QED
      BY <2>3, <2>4
<1> QED
    BY <1>2, <1>3, <1>4, <1>5 DEF Inv

-----------------------------------------------------------------------------
(* The next iteration begins.                                               *)
LEMMA IterateLoop ==
    ASSUME Inv, Iterate
    PROVE  /\ TypeOK' /\ LoopInv'
           /\ UNCHANGED <<runs, dependees, status, gen, promise, futures, cont>>
           /\ iteration' = iteration + 1 /\ iteration' \in Iterations /\ iteration \in Nat
           /\ \A a \in Actions : Now(a)' = "none"
<1>1. /\ UNCHANGED <<runs, dependees, status, gen, promise, futures, cont>>
      /\ iteration' = iteration + 1 /\ registered' = 0 /\ rc' = "OK" /\ loop' = "register"
    BY DEF Iterate, linkVars, actionVars
<1>2. iteration' \in Iterations /\ iteration \in Nat /\ runs \in 1..MaxRuns
  <2>1. /\ runs \in 1..MaxRuns /\ iteration \in Nat /\ iteration < MaxIterations[runs]
      BY Bounds DEF Iterate, Inv, TypeOK, Iterations
  <2>2. MaxIterations[runs] \in Nat /\ MaxIterations[runs] <= MaxIterations[1] /\ MaxIterations[1] \in Nat
      BY <2>1, Bounds
  <2> QED
      BY <1>1, <2>1, <2>2 DEF Iterations
<1>3. TypeOK'
  <2>1. registered' \in 0..BeginOf(MaxRuns)
      BY <1>1, Bounds DEF BeginOf
  <2> QED
      BY <1>1, <1>2, <2>1 DEF Inv, TypeOK
<1>4. \A a \in Actions : Now(a)' = "none"
    BY <1>1, <1>2 DEF Inv, LoopInv, Now, Iterations
<1>5. LoopInv'
  <2>1. ASSUME NEW a \in Actions
        PROVE  /\ gen'[a] < iteration' /\ gen'[a] <= iteration'
               /\ \A g \in Generations : g > gen'[a] => promise'[a][g] = "pending"
               /\ \A j \in Iterations : j > iteration' => cont'[j][a] = "none"
               /\ a > registered'
    <3>1. gen[a] <= iteration /\ gen[a] \in Int /\ a > 0
        BY Bounds DEF Inv, LoopInv, TypeOK, Generations, Actions
    <3>2. \A j \in Iterations : j > iteration' => j > iteration
        BY <1>1, <1>2 DEF Iterations
    <3> QED
        BY <1>1, <1>2, <3>1, <3>2 DEF Inv, LoopInv
  <2>2. registered' < Begin' /\ registered' <= Begin'
      BY <1>1, <1>2, Bounds DEF Begin, BeginOf
  <2>3. iteration' > 0 /\ loop' = "register"
      BY <1>1, <1>2
  <2> QED
      BY <1>4, <2>1, <2>2, <2>3 DEF LoopInv
<1> QED
    BY <1>1, <1>2, <1>3, <1>4, <1>5

(* The next iteration is orderly, or none will be.                          *)
LEMMA IterateOrderly ==
    ASSUME Inv, Iterate
    PROVE  Orderly(iteration)' \/ Doomed(iteration)'
<1>1. /\ dependees' = dependees /\ cont' = cont /\ iteration' = iteration + 1 /\ iteration \in Nat
    BY IterateLoop
<1>2. Backward' <=> Backward
    BY <1>1 DEF Backward
<1>3. CASE iteration = 0
    BY <1>1, <1>3 DEF Orderly
<1>4. CASE N = 0 /\ iteration # 0
    BY <1>1, <1>4 DEF Orderly, Backward, Users
<1>5. CASE N # 0 /\ iteration # 0 /\ Doomed(iteration)
    BY <1>1, <1>2, <1>5 DEF Doomed
<1>6. CASE N # 0 /\ iteration # 0 /\ ~Doomed(iteration) /\ Backward
  <2>1. Orderly(iteration) /\ loop = "eval" /\ N > 0 /\ iteration > 0
      BY <1>1, <1>6, Bounds DEF Inv, OrderlyInv, Iterate
  <2>2. CASE UserFailed
    <3>1. PICK u \in Users : cont[iteration][u] \in {"setRc", "failed"}
        BY <2>2 DEF UserFailed, Now
    <3>2. iteration' > 1 /\ iteration \in 1..(iteration' - 1)
        BY <1>1, <1>6
    <3> QED
        BY <1>1, <3>1, <3>2 DEF Doomed
  <2>3. CASE ~UserFailed
    <3>1. \A u \in Users : cont[iteration][u] = "succeeded"
        BY <2>1, <2>3, IterationOver DEF Now
    <3>2. \A j \in 1..(iteration' - 1) : j = iteration \/ (j \in 1..(iteration - 1) /\ iteration > 1)
        BY <1>1
    <3> QED
        BY <1>1, <1>2, <1>6, <2>1, <3>1, <3>2 DEF Orderly
  <2> QED
      BY <2>2, <2>3
<1>7. CASE N # 0 /\ iteration # 0 /\ ~Backward
    BY <1>1, <1>2, <1>7 DEF Doomed
<1> QED
    BY <1>3, <1>4, <1>5, <1>6, <1>7

LEMMA IterateCurrent ==
    ASSUME Inv, Iterate, Orderly(iteration)'
    PROVE  CurrentInv'
<1>1. /\ UNCHANGED <<status, gen, promise, futures, cont>> /\ iteration' = iteration + 1
      /\ iteration' \in Iterations /\ iteration \in Nat
      /\ \A a \in Actions : Now(a)' = "none"
    BY IterateLoop
<1>2. Own' \subseteq Actions /\ Tracked' \subseteq Actions /\ Own' \subseteq Tracked'
    BY Places DEF Own, Tracked
<1>3. rc' = "OK" /\ loop' = "register"
    BY DEF Iterate
<1>4. CollectedInv' /\ FuturesInv' /\ CauseInv'
    BY <1>1, <1>2, <1>3 DEF CollectedInv, FuturesInv, CauseInv
<1>5. CASE iteration = 0
  <2>1. \A a \in Actions : gen[a] = 0 /\ status[a] = "init" /\ promise[a][0] = "pending"
      BY <1>5, Bounds DEF Inv, LoopInv, TypeOK, Generations
  <2>2. StageInv'
      BY <1>1, <1>2, <2>1 DEF StageInv, Outcome
  <2>3. PastInv'
      BY <1>1, <1>2, <1>5 DEF PastInv, Iterations
  <2> QED
      BY <1>4, <2>2, <2>3 DEF CurrentInv
<1>6. CASE iteration # 0
  <2>1. iteration > 0 /\ iteration' > 1
      BY <1>1, <1>6
  <2>2. Orderly(iteration) /\ \A u \in Users : cont[iteration][u] = "succeeded"
    <3>1. Backward' <=> Backward
        BY IterateLoop DEF Backward
    <3>2. \A j \in 1..(iteration - 1) : j \in 1..(iteration' - 1)
        BY <1>1
    <3>3. iteration \in 1..(iteration' - 1)
        BY <1>1, <1>6
    <3> QED
        BY <1>1, <2>1, <3>1, <3>2, <3>3 DEF Orderly
  <2>3. StageInv /\ PastInv
      BY <2>1, <2>2 DEF Inv, OrderlyInv, CurrentInv
  <2>4. Own' = (IF N > 0 THEN Ends ELSE {}) /\ Own' \subseteq Own
      BY <1>1, <2>1, Places DEF Own
  <2>5. \A a \in Own' : Now(a) \in {"none", "succeeded"}
    <3> SUFFICES ASSUME N > 0, NEW a \in Ends PROVE Now(a) \in {"none", "succeeded"}
        BY <2>4
    <3>1. ~UserFailed
        BY <2>2 DEF UserFailed, Now
    <3>2. loop = "eval"
        BY DEF Iterate
    <3> QED
        BY <2>1, <2>2, <3>1, <3>2, IterationOver
  <2>6. \A a \in Users : Now(a) = "succeeded"
      BY <2>2 DEF Now
  <2>7. StageInv'
    <3> SUFFICES ASSUME NEW a \in Tracked'
                 PROVE  \/ status[a] = "init" /\ Outcome(a) = "pending"
                        \/ status[a] = "succeeded" /\ Outcome(a) = "value"
        BY <1>1, <1>2, <2>1 DEF StageInv, Outcome
    <3>1. a \in Tracked /\ Now(a) \in {"none", "succeeded"}
        BY <2>4, <2>5, <2>6 DEF Tracked
    <3> QED
        BY <2>3, <3>1 DEF StageInv
  <2>8. PastInv'
    <3> SUFFICES ASSUME NEW j \in Iterations, NEW a \in Own', j < iteration + 1
                 PROVE  cont[j][a] \in {"none", "succeeded"}
        BY <1>1 DEF PastInv
    <3>1. CASE j = iteration
        BY <2>5, <3>1 DEF Now
    <3>2. CASE j < iteration
        BY <2>3, <2>4, <3>2 DEF PastInv
    <3> QED
        BY <1>1, <3>1, <3>2 DEF Iterations
  <2> QED
      BY <1>4, <2>7, <2>8 DEF CurrentInv
<1> QED
    BY <1>5, <1>6

LEMMA IterateInv == ASSUME Inv, Iterate PROVE Inv'
<1>1. LinkInv' /\ SinkInv'
    BY IterateLoop DEF Inv, LinkInv, SinkInv, Begin, End
<1>2. OrderlyInv'
    BY IterateOrderly, IterateCurrent DEF OrderlyInv
<1> QED
    BY <1>1, <1>2, IterateLoop DEF Inv

-----------------------------------------------------------------------------
(* What registering an action does.                                         *)
LEMMA RegisterEffect ==
    ASSUME Inv, Register, NEW a, a = registered + 1
    PROVE  /\ TypeOK' /\ a \in Actions /\ a \in Nat /\ registered \in Nat /\ a <= Begin
           /\ iteration \in Iterations /\ iteration \in Nat /\ iteration > 0
           /\ UNCHANGED <<runs, dependees, rc, iteration>>
           /\ registered' = a /\ loop' = (IF a = Begin THEN "wait" ELSE "register")
           /\ \A x \in Actions : x # a => /\ status'[x] = status[x] /\ gen'[x] = gen[x]
                                          /\ \A g \in Generations : promise'[x][g] = promise[x][g]
           /\ \A g \in Generations : promise[a][g] # "pending" \/ g # gen[a] => promise'[a][g] = promise[a][g]
           /\ IF status[a] \in Terminal
              THEN status'[a] = "init" /\ gen'[a] = gen[a] + 1
              ELSE status'[a] = status[a] /\ gen'[a] = gen[a] /\ promise' = promise
           /\ futures'[iteration][a] = {<<d, gen'[d]>> : d \in dependees[a]}
           /\ cont'[iteration][a] = Collect(promise', futures'[iteration][a])
           /\ \A i \in Iterations, x \in Actions : i # iteration \/ x # a =>
                 /\ futures'[i][x] = futures[i][x]
                 /\ \/ cont'[i][x] = cont[i][x]
                    \/ cont[i][x] = "waiting" /\ cont'[i][x] = Collect(promise', futures[i][x])
<1> DEFINE fs == {<<d, gen'[d]>> : d \in dependees[a]}
           Values == {"pending", "value", "exception"}
<1>1. /\ loop = "register" /\ Reset(a)
      /\ futures' = [futures EXCEPT ![iteration][a] = fs]
      /\ cont' = [Awoken(promise', cont) EXCEPT ![iteration][a] = Collect(promise', fs)]
      /\ registered' = a /\ loop' = (IF a = Begin THEN "wait" ELSE "register")
      /\ UNCHANGED <<runs, dependees, rc, iteration>>
    BY DEF Register, linkVars
<1> HIDE DEF fs
<1>2. iteration \in Iterations /\ iteration \in Nat /\ iteration > 0
    BY <1>1, Bounds DEF Inv, LoopInv, TypeOK, Iterations
<1>3. /\ registered \in Nat /\ registered < Begin /\ Begin \in Actions /\ Begin \in Nat
      /\ Begin <= BeginOf(MaxRuns) /\ BeginOf(MaxRuns) \in Nat
  <2>1. registered \in Nat /\ BeginOf(MaxRuns) \in Nat
      BY Bounds DEF Inv, TypeOK, BeginOf
  <2>2. Begin \in Actions /\ Begin \in Nat /\ Begin <= BeginOf(MaxRuns)
      BY Places DEF Inv, TypeOK, Begin
  <2> QED
      BY <1>1, <2>1, <2>2 DEF Inv, LoopInv
<1>4. a \in Actions /\ a \in Nat /\ a <= Begin /\ a \in 0..BeginOf(MaxRuns)
    BY <1>3 DEF Actions
<1>5. /\ gen \in [Actions -> Generations] /\ status \in [Actions -> Status]
      /\ promise \in [Actions -> [Generations -> Values]]
      /\ futures \in [Iterations -> [Actions -> SUBSET (Actions \X Generations)]]
      /\ dependees \in [Actions -> SUBSET Actions]
    BY DEF Inv, TypeOK
<1>6. gen[a] \in Generations /\ gen[a] + 1 \in Generations
  <2>1. gen[a] < iteration /\ gen[a] \in Generations
      BY <1>1, <1>3, <1>4, <1>5 DEF Inv, LoopInv
  <2> QED
      BY <1>2, <2>1, Bounds DEF Generations, Iterations
<1>7. /\ status' \in [Actions -> Status] /\ gen' \in [Actions -> Generations]
      /\ promise' \in [Actions -> [Generations -> Values]]
      /\ \A x \in Actions : x # a => /\ status'[x] = status[x] /\ gen'[x] = gen[x]
                                     /\ \A g \in Generations : promise'[x][g] = promise[x][g]
      /\ \A g \in Generations : promise[a][g] # "pending" \/ g # gen[a] => promise'[a][g] = promise[a][g]
      /\ IF status[a] \in Terminal
         THEN status'[a] = "init" /\ gen'[a] = gen[a] + 1
         ELSE status'[a] = status[a] /\ gen'[a] = gen[a] /\ promise' = promise
  <2>1. CASE status[a] \in Terminal
    <3> DEFINE broken == IF promise[a][gen[a]] = "pending" THEN "exception" ELSE promise[a][gen[a]]
    <3>1. /\ status' = [status EXCEPT ![a] = "init"] /\ gen' = [gen EXCEPT ![a] = gen[a] + 1]
          /\ promise' = [promise EXCEPT ![a][gen[a]] = broken]
        BY <1>1, <2>1 DEF Reset
    <3>2. broken \in Values
        BY <1>4, <1>5, <1>6
    <3> HIDE DEF broken, Values
    <3>3. /\ promise' \in [Actions -> [Generations -> Values]] /\ promise'[a][gen[a]] = broken
          /\ \A x \in Actions, g \in Generations :
                x # a \/ g # gen[a] => promise'[x][g] = promise[x][g]
        BY <1>4, <1>5, <1>6, <3>1, <3>2, Entry
    <3>4. status' \in [Actions -> Status] /\ gen' \in [Actions -> Generations]
        BY <1>4, <1>5, <1>6, <3>1 DEF Status
    <3>5. promise[a][gen[a]] # "pending" => promise'[a][gen[a]] = promise[a][gen[a]]
        BY <3>3 DEF broken
    <3> QED
        BY <1>4, <1>5, <2>1, <3>1, <3>3, <3>4, <3>5
  <2>2. CASE status[a] \notin Terminal
      BY <1>1, <1>4, <1>5, <2>2 DEF Reset
  <2> QED
      BY <2>1, <2>2
<1>8. fs \in SUBSET (Actions \X Generations)
    BY <1>4, <1>5, <1>7 DEF fs
<1>9. /\ futures' \in [Iterations -> [Actions -> SUBSET (Actions \X Generations)]]
      /\ futures'[iteration][a] = fs
      /\ \A i \in Iterations, x \in Actions : i # iteration \/ x # a => futures'[i][x] = futures[i][x]
    BY <1>1, <1>2, <1>4, <1>5, <1>8, Entry
<1>10. /\ cont' \in [Iterations -> [Actions -> Cont]] /\ cont'[iteration][a] = Collect(promise', fs)
       /\ \A i \in Iterations, x \in Actions : i # iteration \/ x # a =>
             cont'[i][x] = Awoken(promise', cont)[i][x]
  <2>1. Collect(promise', fs) \in Cont
      BY DEF Collect, Cont
  <2>2. Awoken(promise', cont) \in [Iterations -> [Actions -> Cont]]
      BY Awakening DEF Inv
  <2> QED
      BY <1>1, <1>2, <1>4, <2>1, <2>2, Entry
<1>11. \A i \in Iterations, x \in Actions : i # iteration \/ x # a =>
          \/ cont'[i][x] = cont[i][x]
          \/ cont[i][x] = "waiting" /\ cont'[i][x] = Collect(promise', futures[i][x])
    BY <1>10, Awakening DEF Inv
<1>12. TypeOK'
    BY <1>1, <1>4, <1>7, <1>9, <1>10 DEF Inv, TypeOK
<1>13. futures'[iteration][a] = {<<d, gen'[d]>> : d \in dependees[a]}
    BY <1>9 DEF fs
<1> QED
    BY <1>1, <1>2, <1>3, <1>4, <1>7, <1>9, <1>10, <1>11, <1>12, <1>13

(* What registering an action means for another one.                        *)
LEMMA RegisterOthers ==
    ASSUME Inv, Register, NEW x \in Actions, x # registered + 1
    PROVE  /\ status'[x] = status[x] /\ gen'[x] = gen[x] /\ Outcome(x)' = Outcome(x)
           /\ \A i \in Iterations : cont'[i][x] = "none" <=> cont[i][x] = "none"
           /\ futures'[iteration][x] = futures[iteration][x]
           /\ \/ Now(x)' = Now(x)
              \/ /\ Now(x) = "waiting" /\ Now(x)' = Collect(promise', futures'[iteration][x])
                 /\ Now(x)' \in {"waiting", "queued", "error"}
<1>1. /\ iteration \in Iterations /\ iteration' = iteration
      /\ status'[x] = status[x] /\ gen'[x] = gen[x]
      /\ \A g \in Generations : promise'[x][g] = promise[x][g]
      /\ \A i \in Iterations :
            /\ futures'[i][x] = futures[i][x]
            /\ \/ cont'[i][x] = cont[i][x]
               \/ cont[i][x] = "waiting" /\ cont'[i][x] = Collect(promise', futures[i][x])
    BY RegisterEffect
<1>2. gen[x] \in Generations
    BY DEF Inv, TypeOK
<1>3. Outcome(x)' = Outcome(x)
    BY <1>1, <1>2 DEF Outcome
<1>4. \A fs : Collect(promise', fs) \in {"waiting", "queued", "error"}
    BY DEF Collect
<1> QED
    BY <1>1, <1>3, <1>4 DEF Now

LEMMA RegisterLoop == ASSUME Inv, Register PROVE LoopInv'
<1>0. PICK a \in Nat : a = registered + 1
    BY Bounds DEF Inv, TypeOK, BeginOf
<1>1. /\ a \in Actions /\ a \in Nat /\ registered \in Nat /\ a <= Begin /\ iteration \in Nat
      /\ iteration \in Iterations /\ iteration > 0
      /\ UNCHANGED <<runs, dependees, rc, iteration>> /\ registered' = a
      /\ loop' = (IF a = Begin THEN "wait" ELSE "register")
      /\ cont'[iteration][a] = Collect(promise', futures'[iteration][a])
      /\ gen'[a] \in {gen[a], gen[a] + 1} /\ gen[a] \in Int
      /\ \A g \in Generations : g # gen[a] => promise'[a][g] = promise[a][g]
  <2>1. \A x \in Actions : gen[x] \in Int
      BY Bounds DEF Inv, TypeOK, Generations
  <2> QED
      BY <1>0, <2>1, RegisterEffect
<1>2. loop = "register" /\ Begin' = Begin
    BY <1>1 DEF Register, Begin
<1>3. /\ gen[a] < iteration /\ \A g \in Generations : g > gen[a] => promise[a][g] = "pending"
      /\ \A j \in Iterations : j > iteration => cont[j][a] = "none"
    BY <1>0, <1>1, <1>2 DEF Inv, LoopInv
<1>4. /\ gen'[a] <= iteration /\ \A g \in Generations : g > gen'[a] => promise'[a][g] = "pending"
    BY <1>1, <1>3, Bounds DEF Generations
<1>5. \A j \in Iterations : j > iteration => cont'[j][a] = "none"
  <2>1. \A j \in Iterations : j # iteration =>
          \/ cont'[j][a] = cont[j][a]
          \/ cont[j][a] = "waiting"
      BY <1>0, <1>1, RegisterEffect
  <2> QED
      BY <1>1, <1>3, <2>1 DEF Iterations
<1>6. Now(a)' # "none"
  <2>1. Now(a)' = Collect(promise', futures'[iteration][a])
      BY <1>1 DEF Now
  <2> QED
      BY <2>1 DEF Collect
<1>7. ASSUME NEW x \in Actions, x # a
      PROVE  /\ gen'[x] <= iteration
             /\ x > a => gen'[x] < iteration
             /\ \A g \in Generations : g > gen'[x] => promise'[x][g] = "pending"
             /\ \A j \in Iterations : j > iteration => cont'[j][x] = "none"
             /\ Now(x)' = "none" <=> x > a
  <2>1. /\ gen[x] <= iteration
        /\ x > registered => gen[x] < iteration
        /\ \A g \in Generations : g > gen[x] => promise[x][g] = "pending"
        /\ \A j \in Iterations : j > iteration => cont[j][x] = "none"
        /\ Now(x) = "none" <=> x > registered
      BY <1>1, <1>2 DEF Inv, LoopInv
  <2>2. /\ gen'[x] = gen[x]
        /\ \A j \in Iterations : cont'[j][x] = "none" <=> cont[j][x] = "none"
      BY <1>0, <1>7, RegisterOthers
  <2>3. \A g \in Generations : promise'[x][g] = promise[x][g]
      BY <1>0, <1>7, RegisterEffect
  <2>4. x > registered <=> x > a
      BY <1>0, <1>1, <1>7, Places
  <2>5. Now(x)' = "none" <=> Now(x) = "none"
      BY <1>1, <2>2 DEF Now
  <2>6. x > a => gen'[x] < iteration
      BY <2>1, <2>2, <2>4
  <2>7. \A g \in Generations : g > gen'[x] => promise'[x][g] = "pending"
      BY <2>1, <2>2, <2>3
  <2> QED
      BY <2>1, <2>2, <2>4, <2>5, <2>6, <2>7
<1>8. /\ registered' <= Begin' /\ iteration' = iteration /\ registered' = a
      /\ loop' = "register" => registered' < Begin'
      /\ loop' = "wait" => registered' = Begin'
      /\ loop' \in {"wait", "register"}
  <2>1. Begin \in Nat
      BY Bounds DEF Inv, TypeOK, Begin, BeginOf
  <2> QED
      BY <1>1, <1>2, <2>1
<1>9. ASSUME NEW x \in Actions
      PROVE  /\ gen'[x] <= iteration'
             /\ loop' = "register" /\ x > registered' => gen'[x] < iteration'
             /\ \A g \in Generations : g > gen'[x] => promise'[x][g] = "pending"
             /\ \A j \in Iterations : j > iteration' => cont'[j][x] = "none"
             /\ Now(x)' = "none" <=> x > registered'
  <2>1. CASE x = a
    <3>1. ~(a > a)
        BY <1>1
    <3> QED
        BY <1>4, <1>5, <1>6, <1>8, <2>1, <3>1
  <2>2. CASE x # a
      BY <1>7, <1>8, <2>2
  <2> QED
      BY <2>1, <2>2
<1> QED
    BY <1>1, <1>8, <1>9 DEF LoopInv

LEMMA RegisterSettles ==
    ASSUME Inv, Register
    PROVE  /\ Settled /\ iteration > 0 /\ iteration' = iteration /\ dependees' = dependees
           /\ Own' = Own /\ Tracked' = Tracked
<1>0. PICK a \in Nat : a = registered + 1
    BY Bounds DEF Inv, TypeOK, BeginOf
<1>1. /\ a \in Actions /\ a \in Nat /\ registered \in Nat /\ iteration \in Iterations /\ iteration > 0
      /\ iteration' = iteration /\ dependees' = dependees
    BY <1>0, RegisterEffect
<1>2. cont[iteration][a] = "none"
    BY <1>0, <1>1 DEF Inv, LoopInv, Now
<1>3. Settled
  <2> SUFFICES ASSUME NEW i \in Iterations, NEW u \in Users
               PROVE  /\ cont[i][u] = "succeeded" => cont'[i][u] = "succeeded"
                      /\ cont[i][u] \in {"setRc", "failed"} => cont'[i][u] \in {"setRc", "failed"}
      BY DEF Settled
  <2>1. CASE i = iteration /\ u = a
      BY <1>2, <2>1
  <2>2. CASE i # iteration \/ u # a
    <3>1. cont'[i][u] = cont[i][u] \/ cont[i][u] = "waiting"
        BY <1>0, <2>2, Places, RegisterEffect
    <3> QED
        BY <3>1
  <2> QED
      BY <2>1, <2>2
<1> QED
    BY <1>1, <1>3 DEF Own, Tracked

(* In an orderly iteration, an action that is tracked is registered with a  *)
(* new promise, or with its first one.                                      *)
LEMMA RegisterTracked ==
    ASSUME Inv, Register, Orderly(iteration), NEW a \in Tracked, a = registered + 1
    PROVE  /\ status'[a] = "init" /\ Outcome(a)' = "pending" /\ Now(a) = "none"
           /\ iteration = 1 => gen'[a] = gen[a]
           /\ Now(a)' = Collect(promise', futures'[iteration][a])
           /\ Now(a)' \in {"waiting", "queued", "error"}
<1>1. /\ a \in Actions /\ a \in Nat /\ registered \in Nat /\ iteration \in Iterations /\ iteration > 0
      /\ iteration' = iteration
      /\ \A g \in Generations : promise[a][g] # "pending" \/ g # gen[a] => promise'[a][g] = promise[a][g]
      /\ IF status[a] \in Terminal
         THEN status'[a] = "init" /\ gen'[a] = gen[a] + 1
         ELSE status'[a] = status[a] /\ gen'[a] = gen[a] /\ promise' = promise
      /\ cont'[iteration][a] = Collect(promise', futures'[iteration][a])
      /\ TypeOK'
    BY RegisterEffect
<1>2. Now(a) = "none"
    BY <1>1 DEF Inv, LoopInv
<1>3. \/ status[a] = "init" /\ Outcome(a) = "pending"
      \/ status[a] = "succeeded" /\ Outcome(a) = "value" /\ iteration > 1
    BY <1>1, <1>2 DEF Inv, OrderlyInv, CurrentInv, StageInv
<1>4. Now(a)' = Collect(promise', futures'[iteration][a])
    BY <1>1 DEF Now
<1>5. Now(a)' \in {"waiting", "queued", "error"}
    BY <1>4 DEF Collect
<1>6. iteration = 1 => gen'[a] = gen[a]
    BY <1>1, <1>3 DEF Terminal
<1>7. CASE status[a] = "init"
  <2>1. status'[a] = "init" /\ gen'[a] = gen[a] /\ promise' = promise
      BY <1>1, <1>7 DEF Terminal
  <2>2. Outcome(a)' = "pending"
      BY <1>3, <1>7, <2>1 DEF Outcome
  <2> QED
      BY <1>2, <1>4, <1>5, <1>6, <2>1, <2>2
<1>8. CASE status[a] = "succeeded"
  <2>1. status'[a] = "init" /\ gen'[a] = gen[a] + 1
      BY <1>1, <1>8 DEF Terminal
  <2>2. gen'[a] \in Generations /\ gen[a] \in Int /\ gen'[a] > gen[a]
      BY <1>1, <2>1, Bounds DEF Inv, TypeOK, Generations
  <2>3. promise[a][gen'[a]] = "pending"
      BY <1>1, <2>2 DEF Inv, LoopInv
  <2>4. promise'[a][gen'[a]] = "pending"
      BY <1>1, <2>2, <2>3
  <2> QED
      BY <1>2, <1>4, <1>5, <1>6, <2>1, <2>4 DEF Outcome
<1> QED
    BY <1>3, <1>7, <1>8

LEMMA RegisterStage ==
    ASSUME Inv, Register, Orderly(iteration)
    PROVE  StageInv'
<1>1. Tracked' = Tracked /\ iteration' = iteration /\ Tracked \subseteq Actions
    BY RegisterSettles, Tracking DEF Inv
<1>2. StageInv
    BY RegisterSettles DEF Inv, OrderlyInv, CurrentInv
<1> DEFINE Stage(a, c, s, p) ==
        /\ c \in {"waiting", "queued"} => s = "init"
        /\ c = "body" => s = "running"
        /\ c \in {"fulfilValue", "succeeded"} => s = "succeeded"
        /\ c \in {"fulfilException", "fulfilFailed", "setRc", "failed"} => s = "failed"
        /\ c = "fulfilException" => a \in Users
        /\ c = "succeeded" => p = "value"
        /\ c \in {"setRc", "failed"} => p = "exception"
        /\ c \notin {"none", "succeeded", "setRc", "failed"} => p = "pending"
<1> SUFFICES ASSUME NEW a \in Tracked
             PROVE  /\ Now(a)' = "none" =>
                          \/ status'[a] = "init" /\ Outcome(a)' = "pending"
                          \/ status'[a] = "succeeded" /\ Outcome(a)' = "value" /\ iteration' > 1
                    /\ iteration' = 1 => gen'[a] = 0
                    /\ Stage(a, Now(a)', status'[a], Outcome(a)')
    BY <1>1 DEF StageInv
<1>3. /\ Now(a) = "none" =>
            \/ status[a] = "init" /\ Outcome(a) = "pending"
            \/ status[a] = "succeeded" /\ Outcome(a) = "value" /\ iteration > 1
      /\ iteration = 1 => gen[a] = 0
      /\ Stage(a, Now(a), status[a], Outcome(a))
    BY <1>2 DEF StageInv
<1>4. CASE a = registered + 1
  <2>1. /\ status'[a] = "init" /\ Outcome(a)' = "pending" /\ Now(a)' \in {"waiting", "queued", "error"}
        /\ iteration = 1 => gen'[a] = gen[a]
      BY <1>4, RegisterTracked
  <2> QED
      BY <1>1, <1>3, <2>1
<1>5. CASE a # registered + 1
  <2>1. /\ status'[a] = status[a] /\ gen'[a] = gen[a] /\ Outcome(a)' = Outcome(a)
        /\ \/ Now(a)' = Now(a)
           \/ Now(a) = "waiting" /\ Now(a)' \in {"waiting", "queued", "error"}
      BY <1>1, <1>5, RegisterOthers
  <2> QED
      BY <1>1, <1>3, <2>1
<1> QED
    BY <1>4, <1>5

LEMMA RegisterCollected ==
    ASSUME Inv, Register, Orderly(iteration)
    PROVE  CollectedInv'
<1> DEFINE LetRun == {"queued", "body", "fulfilValue", "fulfilException", "succeeded"}
<1>1. Tracked' = Tracked /\ iteration' = iteration /\ Tracked \subseteq Actions /\ iteration \in Iterations
    BY RegisterSettles, Tracking DEF Inv
<1> SUFFICES ASSUME NEW a \in Tracked, Now(a)' \in LetRun, NEW f \in futures'[iteration][a]
             PROVE  promise'[f[1]][f[2]] = "value"
    BY <1>1 DEF CollectedInv
<1>2. CASE Now(a)' = Collect(promise', futures'[iteration][a])
    BY <1>2 DEF Collect
<1>3. CASE Now(a)' # Collect(promise', futures'[iteration][a])
  <2>1. a # registered + 1
      BY <1>3, RegisterTracked
  <2>2. Now(a) \in LetRun /\ f \in futures[iteration][a]
      BY <1>1, <1>3, <2>1, RegisterOthers
  <2>3. promise[f[1]][f[2]] = "value"
      BY <2>2, RegisterSettles DEF Inv, OrderlyInv, CurrentInv, CollectedInv
  <2>4. f[1] \in Actions /\ f[2] \in Generations
      BY <1>1, <2>2 DEF Inv, TypeOK
  <2>5. \A x \in Actions, g \in Generations : promise[x][g] # "pending" => promise'[x][g] = promise[x][g]
    <3>1. PICK b \in Nat : b = registered + 1
        BY Bounds DEF Inv, TypeOK, BeginOf
    <3>2. /\ \A x \in Actions : x # b => \A g \in Generations : promise'[x][g] = promise[x][g]
          /\ \A g \in Generations : promise[b][g] # "pending" => promise'[b][g] = promise[b][g]
        BY <3>1, RegisterEffect
    <3> QED
        BY <3>2
  <2> QED
      BY <2>3, <2>4, <2>5
<1> QED
    BY <1>2, <1>3

(* The promises collected before are not replaced in this iteration.        *)
LEMMA RegisterFutures ==
    ASSUME Inv, Register, Orderly(iteration)
    PROVE  FuturesInv'
<1>0. PICK b \in Nat : b = registered + 1
    BY Bounds DEF Inv, TypeOK, BeginOf
<1>1. /\ Tracked' = Tracked /\ Own' = Own /\ iteration' = iteration /\ dependees' = dependees
      /\ Tracked \subseteq Actions /\ Own \subseteq Tracked /\ Tracked \subseteq Nat
      /\ iteration \in Iterations /\ iteration \in Nat /\ iteration > 0
      /\ iteration = 1 => Own = Actions /\ Tracked = Actions
      /\ registered \in Nat /\ b \in Actions /\ b <= Begin /\ Begin \in Nat
      /\ futures'[iteration][b] = {<<d, gen'[d]>> : d \in dependees[b]}
  <2>1. registered \in Nat /\ Begin \in Nat
      BY Bounds DEF Inv, TypeOK, Begin, BeginOf
  <2>2. b \in Actions /\ b <= Begin /\ futures'[iteration][b] = {<<d, gen'[d]>> : d \in dependees[b]}
      BY <1>0, RegisterEffect
  <2> QED
      BY <2>1, <2>2, RegisterSettles, Tracking DEF Inv
<1>2. FuturesInv
    BY <1>1 DEF Inv, OrderlyInv, CurrentInv
<1>3. \A x \in Actions : x # b => gen'[x] = gen[x] /\ futures'[iteration][x] = futures[iteration][x]
    BY <1>0, RegisterOthers
<1>4. iteration = 1 => \A x \in Actions : gen'[x] = gen[x]
    BY <1>0, <1>1, <1>3, RegisterTracked
<1>5. \A x \in Tracked : x # b /\ Now(x)' # "none" => Now(x) # "none" /\ x < b
  <2> SUFFICES ASSUME NEW x \in Tracked, x # b, Now(x)' # "none" PROVE Now(x) # "none" /\ x < b
      OBVIOUS
  <2>1. Now(x) # "none"
      BY <1>0, <1>1, RegisterOthers DEF Now
  <2>2. ~(x > registered)
      BY <1>1, <2>1 DEF Inv, LoopInv
  <2> QED
      BY <1>0, <1>1, <2>1, <2>2
<1>6. ASSUME NEW x \in Tracked \cap Chain, Now(x)' # "none",
             NEW d \in dependees[x] \cap Chain \cap Tracked
      PROVE  <<d, gen'[d]>> \in futures'[iteration][x]
  <2>1. CASE x = b
      BY <1>1, <2>1
  <2>2. CASE x # b
    <3>1. <<d, gen[d]>> \in futures[iteration][x]
        BY <1>2, <1>5, <1>6, <2>2 DEF FuturesInv
    <3>2. gen'[d] = gen[d]
      <4>1. CASE iteration = 1
          BY <1>1, <1>4, <4>1
      <4>2. CASE iteration # 1
        <5>1. x < b /\ x <= Begin /\ iteration > 1
            BY <1>1, <1>5, <1>6, <2>2, <4>2
        <5>2. d < x
            BY <5>1, ChainBack
        <5>3. d # b
            BY <1>1, <5>1, <5>2
        <5> QED
            BY <1>1, <1>3, <5>3
      <4> QED
          BY <4>1, <4>2
    <3> QED
        BY <1>1, <1>3, <2>2, <3>1, <3>2
  <2> QED
      BY <2>1, <2>2
<1>7. ASSUME NEW x \in Own, Now(x)' # "none", NEW f \in futures'[iteration][x]
      PROVE  /\ f[1] \in Tracked /\ f[2] = gen'[f[1]]
             /\ iteration > 1 => f[1] < x
  <2>1. CASE x = b
    <3>1. PICK d \in dependees[x] : f = <<d, gen'[d]>>
        BY <1>1, <2>1
    <3>2. d \in Actions
        BY <1>1, <2>1 DEF Inv, TypeOK
    <3>3. CASE iteration = 1
        BY <1>1, <3>1, <3>2, <3>3
    <3>4. CASE iteration # 1
      <4>1. N > 0 /\ x \in Ends /\ Chain \subseteq Tracked /\ iteration > 1
          BY <1>1, <3>4, Tracking DEF Own, Inv
      <4>2. PICK run \in 1..MaxRuns : x = EndOf(run)
          BY <4>1 DEF Ends
      <4>3. run \in 1..runs
          BY <1>1, <2>1, <4>2, Bounds DEF Inv, TypeOK, EndOf, Begin, BeginOf
      <4>4. d \in Chain /\ d < x
          BY <3>1, <4>1, <4>2, <4>3 DEF Inv, SinkInv
      <4> QED
          BY <3>1, <4>1, <4>4
    <3> QED
        BY <3>3, <3>4
  <2>2. CASE x # b
    <3>1. Now(x) # "none" /\ x < b /\ f \in futures[iteration][x]
        BY <1>1, <1>3, <1>5, <1>7, <2>2
    <3>2. /\ f[1] \in Tracked /\ f[2] = gen[f[1]]
          /\ iteration > 1 => f[1] < x
        BY <1>2, <3>1 DEF FuturesInv
    <3>3. gen'[f[1]] = gen[f[1]]
      <4>1. CASE iteration = 1
          BY <1>1, <1>4, <3>2, <4>1
      <4>2. CASE iteration # 1
        <5>1. iteration > 1
            BY <1>1, <4>2
        <5>2. f[1] < x
            BY <3>2, <5>1
        <5>3. f[1] \in Nat /\ x \in Nat
            BY <1>1, <3>2
        <5>4. f[1] # b
            BY <3>1, <5>2, <5>3
        <5> QED
            BY <1>1, <1>3, <3>2, <5>4
      <4> QED
          BY <4>1, <4>2
    <3> QED
        BY <3>2, <3>3
  <2> QED
      BY <2>1, <2>2
<1> QED
    BY <1>1, <1>6, <1>7 DEF FuturesInv

LEMMA RegisterCause ==
    ASSUME Inv, Register, Orderly(iteration)
    PROVE  CauseInv'
<1> DEFINE Failing == {"error", "fulfilException", "fulfilFailed", "setRc", "failed"}
<1>1. /\ Tracked' = Tracked /\ Own' = Own /\ iteration' = iteration
      /\ Tracked \subseteq Actions /\ Own \subseteq Tracked
    BY RegisterSettles, Tracking DEF Inv
<1>2. CauseInv /\ StageInv' /\ FuturesInv'
    BY RegisterSettles, RegisterStage, RegisterFutures DEF Inv, OrderlyInv, CurrentInv
<1>3. UserFailed => UserFailed'
    BY <1>1, RegisterSettles, Tracking DEF Inv, Settled, UserFailed, Now
<1>4. rc' = rc /\ loop' \in {"wait", "register"}
    BY Bounds DEF Register
<1>5. \A a \in Tracked :
        \/ Now(a)' = Now(a)
        \/ /\ Now(a)' = Collect(promise', futures'[iteration][a])
           /\ Now(a)' \in {"waiting", "queued", "error"}
    BY <1>1, RegisterTracked, RegisterOthers
<1>6. \A a \in Own \ Users : Now(a)' \in Failing \ {"error"} => UserFailed
    BY <1>1, <1>2, <1>5 DEF CauseInv
<1>7. ASSUME NEW a \in Own \ Users, Now(a)' = "error" PROVE UserFailed'
  <2>1. CASE Now(a) = "error"
      BY <1>2, <1>3, <2>1 DEF CauseInv
  <2>2. CASE Now(a) # "error"
    <3>1. Collect(promise', futures'[iteration][a]) = "error"
        BY <1>1, <1>5, <1>7, <2>2
    <3>2. PICK f \in futures'[iteration][a] : promise'[f[1]][f[2]] = "exception"
        BY <3>1 DEF Collect
    <3>3. f[1] \in Tracked /\ f[2] = gen'[f[1]]
        BY <1>1, <1>2, <1>7, <3>2 DEF FuturesInv
    <3>4. PICK d \in Tracked : d = f[1]
        BY <3>3
    <3>5. Outcome(d)' = "exception"
        BY <3>2, <3>3, <3>4 DEF Outcome
    <3>6. Now(d)' \in {"setRc", "failed"}
        BY <1>1, <1>2, <3>5 DEF StageInv
    <3>7. CASE d \in Users
        BY <3>6, <3>7 DEF UserFailed
    <3>8. CASE d \in Own \ Users
        BY <1>3, <1>6, <3>6, <3>8
    <3> QED
        BY <3>7, <3>8 DEF Tracked
  <2> QED
      BY <2>1, <2>2
<1>8. \A a \in Own \ Users : Now(a)' = "failed" => rc' # "OK"
    BY <1>1, <1>2, <1>4, <1>5 DEF CauseInv
<1>9. iteration = 1 => (rc' # "OK" => UserFailed')
    BY <1>2, <1>3, <1>4 DEF CauseInv
<1>10. ASSUME NEW a \in Own' \ Users
       PROVE  /\ Now(a)' \in Failing => UserFailed'
              /\ Now(a)' = "failed" => rc' # "OK"
    BY <1>1, <1>3, <1>6, <1>7, <1>8
<1> QED
    BY <1>1, <1>4, <1>9, <1>10 DEF CauseInv

LEMMA RegisterPast ==
    ASSUME Inv, Register, Orderly(iteration)
    PROVE  PastInv'
<1>1. /\ Own' = Own /\ iteration' = iteration /\ Own \subseteq Actions /\ PastInv /\ iteration \in Nat
    BY RegisterSettles, Tracking DEF Inv, OrderlyInv, CurrentInv
<1> SUFFICES ASSUME NEW i \in Iterations, NEW a \in Own, i < iteration
             PROVE  cont'[i][a] \in {"none", "succeeded"}
    BY <1>1 DEF PastInv
<1>2. cont[i][a] \in {"none", "succeeded"}
    BY <1>1 DEF PastInv
<1>3. i # iteration
    BY <1>1 DEF Iterations
<1>4. PICK b \in Nat : b = registered + 1
    BY Bounds DEF Inv, TypeOK, BeginOf
<1>5. cont'[i][a] = cont[i][a] \/ cont[i][a] = "waiting"
    BY <1>1, <1>3, <1>4, RegisterEffect
<1> QED
    BY <1>2, <1>5

LEMMA RegisterInv == ASSUME Inv, Register PROVE Inv'
<1>1. PICK b \in Nat : b = registered + 1
    BY Bounds DEF Inv, TypeOK, BeginOf
<1>2. TypeOK' /\ UNCHANGED <<runs, dependees, iteration>>
    BY <1>1, RegisterEffect
<1>3. LinkInv' /\ SinkInv'
    BY <1>2 DEF Inv, LinkInv, SinkInv, Begin, End
<1>4. OrderlyInv'
  <2>1. /\ Orderly(iteration)' \/ Doomed(iteration)'
        /\ Orderly(iteration)' => Orderly(iteration)
      BY <1>2, RegisterSettles, OrderlyKept
  <2>2. Orderly(iteration) => CurrentInv'
      BY RegisterStage, RegisterCollected, RegisterFutures, RegisterCause, RegisterPast DEF CurrentInv
  <2> QED
      BY <2>1, <2>2 DEF OrderlyInv
<1> QED
    BY <1>2, <1>3, <1>4, RegisterLoop DEF Inv

-----------------------------------------------------------------------------
LEMMA NextInv == Inv /\ [Next]_vars => Inv'
<1> SUFFICES ASSUME Inv, [Next]_vars PROVE Inv'
    OBVIOUS
<1>1. CASE LoopStep
    BY <1>1, StopInv, RunAgainInv, IterateInv, RegisterInv, IterationEndsInv DEF LoopStep
<1>2. CASE \E i \in Iterations, a \in Actions : WorkerStep(i, a)
    BY <1>2, WorkerInv
<1>3. CASE UNCHANGED vars
  <2>1. UNCHANGED <<linkVars, actionVars, rc, iteration, registered>> /\ loop' = loop
      BY <1>3 DEF vars, loopVars
  <2>2. UNCHANGED <<runs, dependees, status, gen, promise, futures, cont, rc, iteration, registered>>
      BY <2>1 DEF linkVars, actionVars
  <2>3. TypeOK'
      BY <2>1, <2>2 DEF Inv, TypeOK
  <2>4. LoopInv'
      BY <2>1, <2>2 DEF Inv, LoopInv, Now, Outcome, Begin
  <2> QED
      BY <2>1, <2>3, <2>4, QuietStep
<1> QED
    BY <1>1, <1>2, <1>3 DEF Next, Returned

(* The inductive invariant holds in every state that doRun() reaches.       *)
THEOREM AlwaysInv == Spec => []Inv
<1>1. Init => Inv
    BY InitInv
<1>2. Inv /\ [Next]_vars => Inv'
    BY NextInv
<1> QED
    BY <1>1, <1>2, PTL DEF Spec

(* Type correctness: no promise has a generation beyond the iterations, and *)
(* reset() never runs past it.                                              *)
THEOREM TypeCorrect == Spec => []TypeOK
<1>1. Inv => TypeOK
    BY DEF Inv
<1> QED
    BY <1>1, AlwaysInv, PTL

(* In the first iteration no CHECK of Action::run() fails, whatever fails   *)
(* and in whatever order, and rc only ever reports a failed sub-action.     *)
THEOREM FirstIterationIsSafe == Spec => []FirstIterationSafe
<1>1. Inv => FirstIterationSafe
  <2> SUFFICES ASSUME Inv, iteration = 1 PROVE FirstIterationSafe
      BY DEF FirstIterationSafe
  <2>1. Orderly(iteration)
      BY DEF Orderly
  <2>2. CauseInv
      BY <2>1 DEF Inv, OrderlyInv, CurrentInv
  <2> QED
      BY <2>2 DEF CauseInv, FirstIterationSafe, UserFailed, Now
<1> QED
    BY <1>1, AlwaysInv, PTL

(* In an orderly iteration a sub-action is run only after those it depends  *)
(* on have succeeded in that iteration, although it may collect promises of *)
(* Begin that an iteration before has fulfilled.                            *)
THEOREM OrderIsKept == Spec => []OrderKept
<1>1. Inv => OrderKept
  <2> SUFFICES ASSUME Inv, iteration > 0, Orderly(iteration),
                      NEW a \in Users, Ran(iteration, a), NEW d \in dependees[a] \cap Users
               PROVE  Succeeded(iteration, d)
      BY DEF OrderKept
  <2>1. a \in Tracked \cap Chain /\ d \in dependees[a] \cap Chain \cap Tracked
      BY DEF Tracked, Chain
  <2>2. Now(a) \in {"queued", "body", "fulfilValue", "fulfilException", "succeeded"}
      BY DEF Ran, Now
  <2>3. Now(d) = "succeeded"
      BY <2>1, <2>2, Passed
  <2> QED
      BY <2>3 DEF Succeeded, Now
<1> QED
    BY <1>1, AlwaysInv, PTL

(* In an orderly iteration the CHECK at the start of run() holds for every  *)
(* sub-action that a worker takes up.                                       *)
THEOREM UsersAreChecked == Spec => []UsersChecked
<1>1. Inv => UsersChecked
  <2> SUFFICES ASSUME Inv, iteration > 0, Orderly(iteration),
                      NEW a \in Users, cont[iteration][a] = "queued"
               PROVE  status[a] = "init"
      BY DEF UsersChecked
  <2>1. StageInv /\ a \in Tracked /\ Now(a) = "queued"
      BY DEF Inv, OrderlyInv, CurrentInv, Tracked, Now
  <2> QED
      BY <2>1 DEF StageInv
<1> QED
    BY <1>1, AlwaysInv, PTL

(* The loop goes on after an orderly iteration only if every sub-action has *)
(* succeeded in it, but for the window between markFailed() of End and the  *)
(* line that sets rc.                                                       *)
THEOREM IterationIsComplete == Spec => IterationComplete
<1>1. ASSUME Inv, Next, loop = "wait", loop' = "eval", Orderly(iteration)
      PROVE  \/ \A a \in Users : cont[iteration][a] = "succeeded"
             \/ cont[iteration][End] = "setRc"
  <2>1. IterationEnds
    <3>1. ASSUME NEW i \in Iterations, NEW a \in Actions, WorkerStep(i, a) PROVE FALSE
        BY <1>1, <3>1, WorkerEffect DEF Inv, WorkerMove
    <3>2. ~UNCHANGED vars
        BY <1>1 DEF vars, loopVars
    <3> QED
        BY <1>1, <3>1, <3>2 DEF Next, LoopStep, Stop, RunAgain, Iterate, Register, Returned
  <2>2. Outcome(End) # "pending" /\ rc = "OK"
      BY <1>1, <2>1 DEF IterationEnds, Outcome
  <2>3. CASE N = 0
      BY <2>3 DEF Users
  <2>4. CASE N # 0
    <3>1. iteration > 0 /\ N > 0 /\ registered = Begin /\ runs \in 1..MaxRuns /\ runs \in 1..runs
        BY <1>1, <2>4, Bounds DEF Inv, LoopInv, TypeOK, Iterations
    <3>2. End \in Own \ Users /\ End \in Tracked /\ End \in Actions /\ End \in Nat
        BY <1>1, <3>1, Tracking, Places DEF End, Inv
    <3>3. ~(End > registered)
        BY <3>1, Bounds DEF End, Begin, EndOf, BeginOf
    <3>4. StageInv /\ CauseInv
        BY <1>1, <3>1 DEF Inv, OrderlyInv, CurrentInv
    <3>5. Now(End) # "none"
        BY <1>1, <3>1, <3>2, <3>3 DEF Inv, LoopInv
    <3>6. Now(End) \in {"succeeded", "setRc"}
        BY <2>2, <3>2, <3>4, <3>5 DEF StageInv, CauseInv
    <3>7. CASE Now(End) = "succeeded"
        BY <1>1, <3>1, <3>7, AllSucceeded DEF Now, End
    <3>8. CASE Now(End) = "setRc"
        BY <3>8 DEF Now
    <3> QED
        BY <3>6, <3>7, <3>8
  <2> QED
      BY <2>3, <2>4
<1>2. Inv /\ [Next]_vars =>
        [loop = "wait" /\ loop' = "eval" /\ Orderly(iteration) =>
            \/ \A a \in Users : cont[iteration][a] = "succeeded"
            \/ cont[iteration][End] = "setRc"]_vars
    BY <1>1
<1> QED
    BY <1>2, AlwaysInv, PTL DEF Spec, IterationComplete
=============================================================================
