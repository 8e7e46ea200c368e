-------------------------- MODULE DisturbersProofs --------------------------
(***************************************************************************)
(* The invariants of Disturbers, proved for any number of actions and      *)
(* instances, and any number of turns and tries.                           *)
(***************************************************************************)
EXTENDS Disturbers, FiniteSetTheorems, TLAPS

Gone == {"aborted", "nopick"}

(* The program is aborted for all actions at once.                          *)
GoneInv == (\E d \in Disturbers : pc[d] \in Gone) => \A d \in Disturbers : pc[d] \in Gone

(* Where an action can stand, by its type.                                  *)
OnInstance == {"send", "pid", "ps", "set", "clean", "truncate", "recover", "partition", "stap", "unstap"}

PlacesOf(k) ==
    CASE k \in {"StartAction", "StopAction", "CrashAction"} -> {"send", "pid", "ps", "set"}
      [] k = "CleanDataAction" -> {"clean"}
      [] k = "RandomRestartAction" -> {"send", "pid", "ps", "set", "clean", "recover"}
      [] k = "RandomTruncateRestartAction" -> {"send", "pid", "ps", "set", "truncate", "recover"}
      [] k \in Cutters -> {"partition", "recover"}
      [] k = "FillDiskAction" -> {"fill", "unfill", "reboot", "send", "pid", "ps", "set"}
      [] k = "SlowDiskAction" -> {"pid", "stap", "recover", "unstap"}

PlaceAt(d) ==
    /\ pc[d] \in PlacesOf(kind[d]) \cup {"begin"} \cup Ended
    /\ pc[d] \in OnInstance => target[d] \in Instances
    /\ kind[d] \in {"StartAction", "FillDiskAction"} => job[d] = "start"
    /\ pc[d] \notin Ended => turn[d] < LoopTimes
    /\ pc[d] = "fill" => todo[d] \subseteq filled[d]

PlaceInv == \A d \in Disturbers : PlaceAt(d)

(* The probes of an action: one too many only while it is going to kill it. *)
ProbeAt(d) ==
    /\ kind[d] # "SlowDiskAction" => probes[d] = 0
    /\ pc[d] \in {"recover", "unstap"} /\ kind[d] = "SlowDiskAction" =>
          probes[d] > 0 /\ probes[d] <= missed[d] + 1
    /\ pc[d] \in {"begin", "pid", "stap", "done"} => probes[d] <= missed[d]

ProbeInv == \A d \in Disturbers : ProbeAt(d)

(* What was running at first has been written to since.                     *)
StartedInv == \A i \in started : state[i] # "UNUSED"

Inv ==
    /\ TypeOK /\ GoneInv /\ PlaceInv /\ ProbeInv /\ StartedInv
    /\ StoppedInHand /\ PickSucceeds /\ DisturbanceUndone

-----------------------------------------------------------------------------
(* What an action does to the others: nothing, or it aborts them too.       *)
OtherKept(d, e) ==
    /\ kind' = kind
    /\ started' = started
    /\ \/ pc'[e] = pc[e] /\ pc'[d] \notin Gone
       \/ pc'[e] = "aborted" /\ pc'[d] \in Gone
    /\ job'[e] = job[e] /\ target'[e] = target[e] /\ turn'[e] = turn[e]
    /\ todo'[e] = todo[e] /\ filled'[e] = filled[e]
    /\ probes'[e] = probes[e] /\ missed'[e] = missed[e]

Others(d) == \A e \in Disturbers \ {d} : OtherKept(d, e)

LEMMA OthersKept == ASSUME TypeOK, NEW d \in Disturbers, DoRun(d) PROVE Others(d)
<1> SUFFICES ASSUME NEW e \in Disturbers \ {d} PROVE OtherKept(d, e)
    BY DEF Others
<1> USE DEF TypeOK, ActionsTypeOK, DisturbancesTypeOK, OtherKept, Gone, Ended, instanceVars, fillVars, slowVars
<1>1. CASE BeginSingle(d)
    BY <1>1 DEF BeginSingle, Begin, Aim
<1>2. CASE Pick(d)
    BY <1>2 DEF Pick, Begin, Aim, Abort
<1>3. CASE Send(d)
    BY <1>3 DEF Send, Goto, Abort, Give
<1>4. CASE ReadPid(d)
    BY <1>4 DEF ReadPid, StartFails, Retry, Move
<1>5. CASE Ps(d)
    BY <1>5 DEF Ps, StartFails, Retry, Move
<1>6. CASE SetTheState(d)
    BY <1>6 DEF SetTheState, Goto, EndTurn, SetState
<1>7. CASE Clean(d)
    BY <1>7 DEF Clean, Goto, Abort
<1>8. CASE Truncate(d)
    BY <1>8 DEF Truncate, Goto, Abort
<1>9. CASE Restart(d)
    BY <1>9 DEF Restart, Begin
<1>10. CASE Partition(d)
    BY <1>10 DEF Partition, Goto, Abort
<1>11. CASE Reconnect(d)
    BY <1>11 DEF Reconnect, EndTurn, Abort
<1>12. CASE Shuffle(d)
    BY <1>12 DEF Shuffle, Goto
<1>13. CASE Fill(d)
    BY <1>13 DEF Fill, NextOf, Goto, Abort
<1>14. CASE Unfill(d)
    BY <1>14 DEF Unfill, NextOf, Goto, Abort
<1>15. CASE Reboot(d)
    BY <1>15 DEF Reboot, Begin
<1>16. CASE Slow(d)
    BY <1>16 DEF Slow, Goto, Abort
<1>17. CASE FindProbe(d)
    BY <1>17 DEF FindProbe, Goto, EndTurn
<1>18. CASE KillProbe(d)
    BY <1>18 DEF KillProbe, EndTurn
<1> QED
    BY <1>1, <1>2, <1>3, <1>4, <1>5, <1>6, <1>7, <1>8, <1>9, <1>10, <1>11, <1>12, <1>13, <1>14, <1>15, <1>16, <1>17, <1>18 DEF DoRun

LEMMA PlaceAtStep == ASSUME TypeOK, NEW d \in Disturbers, PlaceAt(d), DoRun(d) PROVE PlaceAt(d)'
<1> USE DisturbersAssumption DEF TypeOK, ActionsTypeOK, DisturbancesTypeOK, PlaceAt, PlacesOf, OnInstance, Ended, AllKinds, Stoppers,
    Restarts, Cutters, Singles, instanceVars, fillVars, slowVars
<1>1. CASE BeginSingle(d)
    BY <1>1 DEF BeginSingle, Begin, Aim
<1>2. CASE Pick(d)
    BY <1>2 DEF Pick, Begin, Aim, Abort
<1>3. CASE Send(d)
    BY <1>3 DEF Send, Goto, Abort, Give
<1>4. CASE ReadPid(d)
    BY <1>4 DEF ReadPid, StartFails, Retry, Move
<1>5. CASE Ps(d)
    BY <1>5 DEF Ps, StartFails, Retry, Move
<1>6. CASE SetTheState(d)
    BY <1>6 DEF SetTheState, Goto, EndTurn, SetState
<1>7. CASE Clean(d)
    BY <1>7 DEF Clean, Goto, Abort
<1>8. CASE Truncate(d)
    BY <1>8 DEF Truncate, Goto, Abort
<1>9. CASE Restart(d)
    BY <1>9 DEF Restart, Begin
<1>10. CASE Partition(d)
    BY <1>10 DEF Partition, Goto, Abort
<1>11. CASE Reconnect(d)
    BY <1>11 DEF Reconnect, EndTurn, Abort
<1>12. CASE Shuffle(d)
    BY <1>12 DEF Shuffle, Goto
<1>13. CASE Fill(d)
    BY <1>13 DEF Fill, NextOf, Goto, Abort
<1>14. CASE Unfill(d)
    BY <1>14 DEF Unfill, NextOf, Goto, Abort
<1>15. CASE Reboot(d)
    BY <1>15 DEF Reboot, Begin
<1>16. CASE Slow(d)
    BY <1>16 DEF Slow, Goto, Abort
<1>17. CASE FindProbe(d)
    BY <1>17 DEF FindProbe, Goto, EndTurn
<1>18. CASE KillProbe(d)
    BY <1>18 DEF KillProbe, EndTurn
<1> QED
    BY <1>1, <1>2, <1>3, <1>4, <1>5, <1>6, <1>7, <1>8, <1>9, <1>10, <1>11, <1>12, <1>13, <1>14, <1>15, <1>16, <1>17, <1>18 DEF DoRun

(* Read the other way: the type of an action from where it stands.          *)
LEMMA KindsAt ==
    ASSUME TypeOK, NEW d \in Disturbers, PlaceAt(d)
    PROVE  /\ pc[d] = "clean" => kind[d] \in {"CleanDataAction", "RandomRestartAction"}
           /\ pc[d] = "truncate" => kind[d] = "RandomTruncateRestartAction"
           /\ pc[d] \in {"partition", "recover"} => kind[d] \notin Singles \cup {"FillDiskAction"}
           /\ pc[d] = "partition" => kind[d] \in Cutters
           /\ pc[d] \in {"stap", "unstap"} => kind[d] = "SlowDiskAction"
           /\ pc[d] \in {"fill", "unfill", "reboot"} => kind[d] = "FillDiskAction"
           /\ pc[d] = "set" => kind[d] \in Stoppers \cup {"StartAction", "FillDiskAction"}
<1>1. kind[d] \in AllKinds
    BY DisturbersAssumption DEF TypeOK, ActionsTypeOK
<1> QED BY <1>1 DEF PlaceAt, PlacesOf, Ended, AllKinds, Singles, Restarts, Stoppers, Cutters

(* The helpers of the actions, on type-correct arguments.                   *)
LEMMA HelperTypes ==
    ASSUME ActionsTypeOK, NEW d \in Disturbers
    PROVE  /\ \A l \in PCs : Goto(d, l) => ActionsTypeOK'
           /\ \A l \in {"aborted", "nopick"} : Abort(d, l) => ActionsTypeOK'
           /\ \A i \in Instances, l \in PCs : Aim(d, i, l) => ActionsTypeOK'
           /\ \A i \in Instances, c \in Commands : Begin(d, i, c) => ActionsTypeOK'
           /\ turn[d] < LoopTimes /\ EndTurn(d) => ActionsTypeOK'
           /\ pid' \in [Disturbers -> {"none", "live", "dead"}] =>
                /\ \A l \in PCs : Move(d, l) => ActionsTypeOK'
                /\ \A n \in Nat : Retry(d, n) => ActionsTypeOK'
<1> USE DisturbersAssumption DEF ActionsTypeOK
<1>1. \A l \in PCs : Goto(d, l) => ActionsTypeOK'
    BY DEF Goto
<1>2. \A l \in {"aborted", "nopick"} : Abort(d, l) => ActionsTypeOK'
    BY DEF Abort, PCs, Ended
<1>3. \A i \in Instances, l \in PCs : Aim(d, i, l) => ActionsTypeOK'
    BY DEF Aim
<1>4. \A i \in Instances, c \in Commands : Begin(d, i, c) => ActionsTypeOK'
    BY DEF Begin, PCs
<1>5. turn[d] < LoopTimes /\ EndTurn(d) => ActionsTypeOK'
    BY DEF EndTurn, PCs, Ended
<1>6. ASSUME pid' \in [Disturbers -> {"none", "live", "dead"}]
      PROVE  /\ \A l \in PCs : Move(d, l) => ActionsTypeOK'
             /\ \A n \in Nat : Retry(d, n) => ActionsTypeOK'
    BY <1>6 DEF Move, Retry, PCs, Ended
<1> QED BY <1>1, <1>2, <1>3, <1>4, <1>5, <1>6

LEMMA ActionsTypeStep ==
    ASSUME TypeOK, NEW d \in Disturbers, PlaceAt(d), DoRun(d)
    PROVE  ActionsTypeOK'
<1>a. pc[d] \in OnInstance => target[d] \in Instances
    BY DEF PlaceAt
<1>b. pc[d] \notin Ended => turn[d] < LoopTimes
    BY DEF PlaceAt
<1>c. todo[d] \subseteq Instances /\ pc[d] \in PCs /\ ActionsTypeOK
    BY DEF TypeOK, ActionsTypeOK, DisturbancesTypeOK
<1>d. {"send", "pid", "ps", "set", "clean", "truncate", "recover", "partition", "fill", "unfill",
       "reboot", "stap", "unstap", "begin", "done", "failed", "aborted", "nopick"} \subseteq PCs
    BY DEF PCs, Ended
<1>e. {"start", "stop", "kill"} \subseteq Commands
    BY DEF Commands
<1>h. /\ \A l \in PCs : Goto(d, l) => ActionsTypeOK'
      /\ \A l \in {"aborted", "nopick"} : Abort(d, l) => ActionsTypeOK'
      /\ \A i \in Instances, l \in PCs : Aim(d, i, l) => ActionsTypeOK'
      /\ \A i \in Instances, c \in Commands : Begin(d, i, c) => ActionsTypeOK'
      /\ turn[d] < LoopTimes /\ EndTurn(d) => ActionsTypeOK'
      /\ pid' \in [Disturbers -> {"none", "live", "dead"}] =>
           /\ \A l \in PCs : Move(d, l) => ActionsTypeOK'
           /\ \A n \in Nat : Retry(d, n) => ActionsTypeOK'
    BY <1>c, HelperTypes
<1>p. ASSUME NEW p \in {"none", "live", "dead"}, pid' = [pid EXCEPT ![d] = p]
      PROVE  pid' \in [Disturbers -> {"none", "live", "dead"}]
    BY <1>c, <1>p DEF ActionsTypeOK
<1> USE DEF Ended, OnInstance
<1>1. CASE BeginSingle(d)
    BY <1>1, <1>h, <1>d, <1>e DEF BeginSingle
<1>2. CASE Pick(d)
    BY <1>2, <1>h, <1>d, <1>e DEF Pick
<1>3. CASE Send(d)
    BY <1>3, <1>h, <1>d DEF Send
<1>4. CASE ReadPid(d)
    <2>1. PICK p \in PidRead(target[d]) :
            /\ pid' = [pid EXCEPT ![d] = p]
            /\ \/ \E n \in Nat : Retry(d, n)
               \/ \E l \in PCs : Move(d, l)
        BY <1>4, <1>d, DisturbersAssumption DEF ReadPid, StartFails
    <2>2. p \in {"none", "live", "dead"}
        <3>1. proc[target[d]] \in Procs
            BY <1>4, <1>a DEF ReadPid, TypeOK, InstancesTypeOK
        <3> QED BY <2>1, <3>1 DEF PidRead, Procs
    <2> QED BY <2>1, <2>2, <1>h, <1>p
<1>5. CASE Ps(d)
    BY <1>5, <1>h, <1>d, <1>p, DisturbersAssumption DEF Ps, StartFails
<1>6. CASE SetTheState(d)
    BY <1>6, <1>h, <1>d, <1>b DEF SetTheState
<1>7. CASE Clean(d)
    BY <1>7, <1>h, <1>d DEF Clean
<1>8. CASE Truncate(d)
    BY <1>8, <1>h, <1>d DEF Truncate
<1>9. CASE Restart(d)
    BY <1>9, <1>h, <1>a, <1>e DEF Restart
<1>10. CASE Partition(d)
    BY <1>10, <1>h, <1>d DEF Partition
<1>11. CASE Reconnect(d)
    BY <1>11, <1>h, <1>d, <1>b DEF Reconnect
<1>12. CASE Shuffle(d)
    BY <1>12, <1>h, <1>d DEF Shuffle
<1>13. CASE Fill(d)
    BY <1>13, <1>h, <1>d, <1>c DEF Fill, NextOf
<1>14. CASE Unfill(d)
    BY <1>14, <1>h, <1>d, <1>c DEF Unfill, NextOf
<1>15. CASE Reboot(d)
    BY <1>15, <1>h, <1>c, <1>e DEF Reboot
<1>16. CASE Slow(d)
    BY <1>16, <1>h, <1>d DEF Slow
<1>17. CASE FindProbe(d)
    BY <1>17, <1>h, <1>d, <1>b DEF FindProbe
<1>18. CASE KillProbe(d)
    BY <1>18, <1>h, <1>b DEF KillProbe
<1> QED
    BY <1>1, <1>2, <1>3, <1>4, <1>5, <1>6, <1>7, <1>8, <1>9,
       <1>10, <1>11, <1>12, <1>13, <1>14, <1>15, <1>16, <1>17, <1>18 DEF DoRun

(* A counter of an array is set to a number.                                *)
LEMMA Updated ==
    ASSUME NEW S, NEW f \in [S -> Nat], NEW r \in S, NEW n \in Nat
    PROVE  [f EXCEPT ![r] = n] \in [S -> Nat]
OBVIOUS

LEMMA TypeStep ==
    ASSUME TypeOK, GoneInv, DisturbanceUndone, ProbeInv, NEW d \in Disturbers, PlaceAt(d), DoRun(d)
    PROVE  TypeOK'
<1>a. pc[d] \in OnInstance => target[d] \in Instances
    BY DEF PlaceAt
<1>b. pc[d] = "recover" => target[d] \in Instances
    BY <1>a DEF OnInstance
<1>p. pc[d] = "partition" => kind[d] \in Cutters /\ target[d] \in Instances
    BY <1>a, KindsAt DEF OnInstance
<1>c. pc[d] \in {"recover", "unstap"} /\ kind[d] = "SlowDiskAction" => probes[d] > 0
    BY DEF ProbeInv, ProbeAt
<1>d. pc[d] = "unstap" => kind[d] = "SlowDiskAction"
    BY KindsAt
<1>e. ActionsTypeOK'
    BY ActionsTypeStep
<1>f. SUFFICES InstancesTypeOK' /\ DisturbancesTypeOK'
    BY <1>e DEF TypeOK
<1>g. InstancesTypeOK /\ DisturbancesTypeOK /\ job[d] \in Commands
    BY DEF TypeOK, ActionsTypeOK
<1> HIDE DEF TypeOK
<1> USE <1>g DEF InstancesTypeOK, DisturbancesTypeOK, instanceVars, fillVars, netVars, slowVars
<1>1. CASE BeginSingle(d)
    BY <1>1 DEF BeginSingle
<1>2. CASE Pick(d)
    BY <1>2 DEF Pick
<1>3. CASE Send(d)
    <2>1. pending' \in [Instances -> [Commands -> Nat]]
        <3>1. CASE Give(target[d], job[d])
            <4>1. pending[target[d]] \in [Commands -> Nat]
                BY <1>3, <1>a DEF Send, OnInstance
            <4>2. [pending[target[d]] EXCEPT ![job[d]] = @ + 1] \in [Commands -> Nat]
                BY <4>1
            <4> QED BY <3>1, <4>2 DEF Give
        <3> QED BY <1>3, <3>1 DEF Send
    <2> QED BY <1>3, <2>1 DEF Send
<1>4. CASE ReadPid(d)
    BY <1>4 DEF ReadPid
<1>5. CASE Ps(d)
    BY <1>5 DEF Ps
<1>6. CASE SetTheState(d)
    BY <1>6, <1>a DEF SetTheState, SetState, OnInstance, States
<1>7. CASE Clean(d)
    BY <1>7 DEF Clean
<1>8. CASE Truncate(d)
    BY <1>8 DEF Truncate
<1>9. CASE Restart(d)
    BY <1>9 DEF Restart
<1>10. CASE Partition(d)
    <2> DEFINE r == <<kind[d], target[d]>>
    <2>1. r \in Cutters \X Instances
        BY <1>10, <1>p DEF Partition
    <2>2. rules' \in {rules, [rules EXCEPT ![r] = rules[r] + 1]} /\ unseen' = unseen
        BY <1>10 DEF Partition
    <2>3. rules' \in [Cutters \X Instances -> Nat]
        <3> HIDE DEF r
        <3>1. rules[r] + 1 \in Nat
            BY <2>1
        <3>2. [rules EXCEPT ![r] = rules[r] + 1] \in [Cutters \X Instances -> Nat]
            BY <2>1, <3>1, Updated
        <3> QED BY <2>2, <3>2
    <2> QED BY <1>10, <2>2, <2>3 DEF Partition
<1>11. CASE Reconnect(d)
    <2> DEFINE r == <<kind[d], target[d]>>
    <2>1. r \in Cutters \X Instances
        BY <1>11, <1>b DEF Reconnect
    <2>2. \/ unseen' = unseen /\ \E n \in Deleted(kind[d], rules[r]) : rules' = [rules EXCEPT ![r] = n]
          \/ rules' = rules /\ unseen' \in {unseen, [unseen EXCEPT ![r] = unseen[r] + 1]}
        BY <1>11 DEF Reconnect
    <2>3. rules' \in [Cutters \X Instances -> Nat] /\ unseen' \in [Cutters \X Instances -> Nat]
        <3> HIDE DEF r
        <3>1. /\ unseen[r] + 1 \in Nat
              /\ \A n \in Deleted(kind[d], rules[r]) : n \in Nat
            BY <2>1 DEF Deleted
        <3>2. /\ [unseen EXCEPT ![r] = unseen[r] + 1] \in [Cutters \X Instances -> Nat]
              /\ \A n \in Deleted(kind[d], rules[r]) : [rules EXCEPT ![r] = n] \in [Cutters \X Instances -> Nat]
            BY <2>1, <3>1, Updated
        <3> QED BY <2>2, <3>2
    <2> QED BY <1>11, <2>3 DEF Reconnect
<1>12. CASE Shuffle(d)
    BY <1>12 DEF Shuffle
<1>13. CASE Fill(d)
    <2>1. full' \in [Instances -> BOOLEAN]
        BY <1>13 DEF Fill
    <2>2. todo' \in [Disturbers -> SUBSET Instances]
        <3>1. \/ todo' = todo
              \/ \E i \in todo[d] : todo' = [todo EXCEPT ![d] = @ \ {i}]
              \/ todo' = [todo EXCEPT ![d] = filled[d]]
            BY <1>13 DEF Fill, NextOf
        <3> QED BY ONLY <1>g, <3>1 DEF DisturbancesTypeOK
    <2> QED BY <1>13, <2>1, <2>2 DEF Fill
<1>14. CASE Unfill(d)
    <2>1. full' \in [Instances -> BOOLEAN]
        BY <1>14 DEF Unfill
    <2>2. todo' \in [Disturbers -> SUBSET Instances]
        <3>1. \/ todo' = todo
              \/ \E i \in todo[d] : todo' = [todo EXCEPT ![d] = @ \ {i}]
              \/ todo' = [todo EXCEPT ![d] = Instances]
            BY <1>14 DEF Unfill, NextOf
        <3> QED BY ONLY <1>g, <3>1 DEF DisturbancesTypeOK
    <2> QED BY <1>14, <2>1, <2>2 DEF Unfill
<1>15. CASE Reboot(d)
    BY <1>15 DEF Reboot
<1>16. CASE Slow(d)
    <2>1. probes' \in [Disturbers -> Nat]
        BY ONLY <1>g, <1>16 DEF Slow, DisturbancesTypeOK
    <2> QED BY <1>16, <2>1 DEF Slow
<1>17. CASE FindProbe(d)
    <2>1. probes' \in [Disturbers -> Nat] /\ missed' \in [Disturbers -> Nat]
        <3>1. probes[d] > 0 /\ probes[d] \in Nat /\ missed[d] \in Nat
            BY <1>17, <1>c DEF FindProbe
        <3>2. CASE UNCHANGED slowVars
            BY <3>2
        <3>3. CASE probes' = [probes EXCEPT ![d] = @ - 1] /\ UNCHANGED missed
            BY <3>1, <3>3
        <3>4. CASE missed' = [missed EXCEPT ![d] = @ + 1] /\ UNCHANGED probes
            BY <3>1, <3>4
        <3> QED BY <1>17, <3>2, <3>3, <3>4 DEF FindProbe
    <2> QED BY <1>17, <2>1 DEF FindProbe
<1>18. CASE KillProbe(d)
    <2>1. probes' \in [Disturbers -> Nat] /\ missed' \in [Disturbers -> Nat]
        <3>1. probes[d] > 0 /\ probes[d] \in Nat /\ missed[d] \in Nat
            BY <1>18, <1>c, <1>d DEF KillProbe
        <3>2. CASE probes' = [probes EXCEPT ![d] = @ - 1] /\ UNCHANGED missed
            BY <3>1, <3>2
        <3>3. CASE missed' = [missed EXCEPT ![d] = @ + 1] /\ UNCHANGED probes
            BY <3>1, <3>3
        <3> QED BY <1>18, <3>2, <3>3 DEF KillProbe
    <2> QED BY <1>18, <2>1 DEF KillProbe
<1> QED
    BY <1>1, <1>2, <1>3, <1>4, <1>5, <1>6, <1>7, <1>8, <1>9,
       <1>10, <1>11, <1>12, <1>13, <1>14, <1>15, <1>16, <1>17, <1>18 DEF DoRun

-----------------------------------------------------------------------------
LEMMA Acting == ASSUME NEW d \in Disturbers, DoRun(d) PROVE pc[d] \notin Ended
BY DEF DoRun, BeginSingle, Pick, Send, ReadPid, Ps, SetTheState, Clean, Truncate, Restart, Partition,
    Reconnect, Shuffle, Fill, Unfill, Reboot, Slow, FindProbe, KillProbe, Ended

LEMMA GoneStep == ASSUME TypeOK, GoneInv, NEW d \in Disturbers, DoRun(d) PROVE GoneInv'
<1>1. \A e \in Disturbers : pc[e] \notin Gone
    BY Acting DEF GoneInv, Gone, Ended
<1>2. \A e \in Disturbers \ {d} : OtherKept(d, e)
    BY OthersKept DEF Others
<1> QED BY <1>1, <1>2 DEF GoneInv, OtherKept, Gone

LEMMA PlaceStep == ASSUME TypeOK, PlaceInv, NEW d \in Disturbers, DoRun(d) PROVE PlaceInv'
<1>1. PlaceAt(d)'
    BY PlaceAtStep DEF PlaceInv
<1>2. ASSUME NEW e \in Disturbers \ {d} PROVE PlaceAt(e)'
    <2>1. OtherKept(d, e) /\ PlaceAt(e)
        BY OthersKept DEF Others, PlaceInv
    <2> QED BY <2>1 DEF OtherKept, PlaceAt, OnInstance, Ended
<1> QED BY <1>1, <1>2 DEF PlaceInv

(* state_ is written by setState() alone.                                   *)
LEMMA StateKept == ASSUME NEW d \in Disturbers, DoRun(d) PROVE state' = state \/ SetTheState(d)
BY DEF DoRun, BeginSingle, Pick, Send, ReadPid, Ps, Clean, Truncate, Restart, Partition,
    Reconnect, Shuffle, Fill, Unfill, Reboot, Slow, FindProbe, KillProbe, instanceVars

LEMMA StartedStep ==
    ASSUME TypeOK, StartedInv, NEW d \in Disturbers, PlaceAt(d), DoRun(d) PROVE StartedInv'
<1>1. started' = started /\ started \subseteq Instances
    BY DEF TypeOK, DisturbancesTypeOK, DoRun, BeginSingle, Pick, Send, ReadPid, Ps, SetTheState, Clean,
        Truncate, Restart, Partition, Reconnect, Shuffle, Fill, Unfill, Reboot, Slow, FindProbe, KillProbe
<1>2. CASE state' = state
    BY <1>1, <1>2 DEF StartedInv
<1>3. CASE SetTheState(d)
    BY <1>1, <1>3 DEF StartedInv, SetTheState, SetState, TypeOK, InstancesTypeOK
<1> QED BY <1>2, <1>3, StateKept

(* An action that has an instance in hand keeps it until it has found it    *)
(* started.                                                                 *)
LEMMA HandKept ==
    ASSUME TypeOK, NEW d \in Disturbers, PlaceAt(d), InHand(d), DoRun(d)
    PROVE  \/ InHand(d)' /\ target'[d] = target[d]
           \/ SetTheState(d) /\ job[d] = "start"
<1>k. kind[d] \in Stoppers /\ pc[d] \in PCs /\ ActionsTypeOK
    BY DEF InHand, TypeOK, ActionsTypeOK
<1>p. \/ pc[d] \in {"clean", "truncate", "recover"}
      \/ pc[d] \in {"send", "pid", "ps", "set"} /\ job[d] = "start"
    BY Acting DEF InHand, Ended
<1>s. Cutters \cap Stoppers = {} /\ "SlowDiskAction" \notin Stoppers /\ "CleanDataAction" \notin Stoppers
    BY DEF Stoppers, Restarts, Cutters
<1> USE <1>k, <1>p, <1>s DEF ActionsTypeOK
<1>1. CASE BeginSingle(d)
    BY <1>1 DEF BeginSingle
<1>2. CASE Pick(d)
    BY <1>2 DEF Pick
<1>3. CASE Send(d)
    BY <1>3 DEF Send, Goto, Abort, InHand
<1>4. CASE ReadPid(d)
    BY <1>4 DEF ReadPid, StartFails, Retry, Move, InHand
<1>5. CASE Ps(d)
    BY <1>5 DEF Ps, StartFails, Retry, Move, InHand
<1>6. CASE SetTheState(d)
    BY <1>6 DEF SetTheState
<1>7. CASE Clean(d)
    BY <1>7 DEF Clean, Goto, Abort, InHand
<1>8. CASE Truncate(d)
    BY <1>8 DEF Truncate, Goto, Abort, InHand
<1>9. CASE Restart(d)
    BY <1>9 DEF Restart, Begin, InHand
<1>10. CASE Partition(d)
    BY <1>10 DEF Partition
<1>11. CASE Reconnect(d)
    BY <1>11 DEF Reconnect
<1>12. CASE Shuffle(d)
    BY <1>12 DEF Shuffle
<1>13. CASE Fill(d)
    BY <1>13 DEF Fill
<1>14. CASE Unfill(d)
    BY <1>14 DEF Unfill
<1>15. CASE Reboot(d)
    BY <1>15 DEF Reboot
<1>16. CASE Slow(d)
    BY <1>16 DEF Slow
<1>17. CASE FindProbe(d)
    BY <1>17 DEF FindProbe
<1>18. CASE KillProbe(d)
    BY <1>18 DEF KillProbe
<1> QED
    BY <1>1, <1>2, <1>3, <1>4, <1>5, <1>6, <1>7, <1>8, <1>9,
       <1>10, <1>11, <1>12, <1>13, <1>14, <1>15, <1>16, <1>17, <1>18 DEF DoRun

LEMMA StoppedStep ==
    ASSUME TypeOK, PlaceInv, StoppedInHand, NEW d \in Disturbers, DoRun(d) PROVE StoppedInHand'
<1> SUFFICES ASSUME NEW i \in Instances, state'[i] = "STOPPED"
             PROVE  \E e \in Disturbers : target'[e] = i /\ InHand(e)'
    BY DEF StoppedInHand
<1>p. PlaceAt(d)
    BY DEF PlaceInv
<1>1. CASE state[i] = "STOPPED" /\ ~(SetTheState(d) /\ job[d] = "start" /\ target[d] = i)
    <2>1. PICK e \in Disturbers : target[e] = i /\ InHand(e)
        BY <1>1 DEF StoppedInHand
    <2>2. CASE e = d
        BY <1>p, <1>1, <2>1, <2>2, HandKept
    <2>3. CASE e # d
        <3>1. OtherKept(d, e)
            BY <2>3, OthersKept DEF Others
        <3>2. target'[e] = i /\ InHand(e)'
            BY <2>1, <3>1 DEF OtherKept, InHand
        <3> QED BY <3>2
    <2> QED BY <2>2, <2>3
<1>2. CASE SetTheState(d) /\ target[d] = i
    <2>1. state'[i] = IF job[d] = "start" THEN "RUNNING" ELSE "STOPPED"
        BY <1>2 DEF SetTheState, SetState, TypeOK, InstancesTypeOK
    <2>2. job[d] # "start" /\ kind[d] \in Stoppers
        <3>1. kind[d] \in Stoppers \cup {"StartAction", "FillDiskAction"}
            BY <1>p, <1>2, KindsAt DEF SetTheState
        <3> QED BY <1>p, <2>1, <3>1 DEF PlaceAt
    <2>3. target'[d] = i /\ InHand(d)'
        BY <1>2, <2>2 DEF SetTheState, Goto, EndTurn, InHand, TypeOK, ActionsTypeOK, Stoppers, Restarts, Singles
    <2> QED BY <2>3
<1>3. CASE state[i] # "STOPPED" /\ ~(SetTheState(d) /\ target[d] = i)
    BY <1>3, StateKept DEF SetTheState, SetState, TypeOK, InstancesTypeOK
<1> QED BY <1>1, <1>2, <1>3

LEMMA ProbeAtStep == ASSUME TypeOK, NEW d \in Disturbers, PlaceAt(d), ProbeAt(d), DoRun(d) PROVE ProbeAt(d)'
<1>t. ActionsTypeOK /\ DisturbancesTypeOK /\ probes[d] \in Nat /\ missed[d] \in Nat
    BY DEF TypeOK, DisturbancesTypeOK
<1>k. /\ pc[d] = "clean" => kind[d] \in {"CleanDataAction", "RandomRestartAction"}
      /\ pc[d] = "truncate" => kind[d] = "RandomTruncateRestartAction"
      /\ pc[d] = "partition" => kind[d] \in Cutters
      /\ pc[d] \in {"stap", "unstap"} => kind[d] = "SlowDiskAction"
      /\ pc[d] \in {"fill", "unfill", "reboot"} => kind[d] = "FillDiskAction"
    BY KindsAt
<1>s. /\ kind[d] = "SlowDiskAction" => pc[d] \notin {"send", "ps", "set"}
      /\ "SlowDiskAction" \notin Singles \cup Restarts \cup Cutters
    BY DEF PlaceAt, PlacesOf, Ended, Singles, Restarts, Cutters
<1> HIDE DEF TypeOK
<1> USE <1>t, <1>k, <1>s DEF ActionsTypeOK, DisturbancesTypeOK, ProbeAt, slowVars
<1>1. CASE BeginSingle(d)
    BY <1>1 DEF BeginSingle, Begin, Aim
<1>2. CASE Pick(d)
    BY <1>2 DEF Pick, Begin, Aim, Abort
<1>3. CASE Send(d)
    BY <1>3 DEF Send, Goto, Abort
<1>4. CASE ReadPid(d)
    BY <1>4 DEF ReadPid, StartFails, Retry, Move
<1>5. CASE Ps(d)
    BY <1>5 DEF Ps, StartFails, Retry, Move
<1>6. CASE SetTheState(d)
    BY <1>6 DEF SetTheState, Goto, EndTurn
<1>7. CASE Clean(d)
    BY <1>7 DEF Clean, Goto, Abort
<1>8. CASE Truncate(d)
    BY <1>8 DEF Truncate, Goto, Abort
<1>9. CASE Restart(d)
    BY <1>9 DEF Restart, Begin
<1>10. CASE Partition(d)
    BY <1>10 DEF Partition, Goto, Abort
<1>11. CASE Reconnect(d)
    BY <1>11 DEF Reconnect, EndTurn, Abort
<1>12. CASE Shuffle(d)
    BY <1>12 DEF Shuffle, Goto
<1>13. CASE Fill(d)
    BY <1>13 DEF Fill, NextOf, Goto, Abort
<1>14. CASE Unfill(d)
    BY <1>14 DEF Unfill, NextOf, Goto, Abort
<1>15. CASE Reboot(d)
    BY <1>15 DEF Reboot, Begin
<1>16. CASE Slow(d)
    BY <1>16 DEF Slow, Goto, Abort
<1>17. CASE FindProbe(d)
    BY <1>17 DEF FindProbe, Goto, EndTurn
<1>18. CASE KillProbe(d)
    BY <1>18 DEF KillProbe, EndTurn
<1> QED
    BY <1>1, <1>2, <1>3, <1>4, <1>5, <1>6, <1>7, <1>8, <1>9,
       <1>10, <1>11, <1>12, <1>13, <1>14, <1>15, <1>16, <1>17, <1>18 DEF DoRun

LEMMA ProbeStep == ASSUME TypeOK, PlaceInv, ProbeInv, NEW d \in Disturbers, DoRun(d) PROVE ProbeInv'
<1>1. ProbeAt(d)'
    BY ProbeAtStep DEF PlaceInv, ProbeInv
<1>2. ASSUME NEW e \in Disturbers \ {d} PROVE ProbeAt(e)'
    <2>1. OtherKept(d, e) /\ ProbeAt(e)
        BY OthersKept DEF Others, ProbeInv
    <2> QED BY <2>1 DEF OtherKept, ProbeAt
<1> QED BY <1>1, <1>2 DEF ProbeInv

(* When every instance that was running is STOPPED, as many others hold it. *)
LEMMA Holders ==
    ASSUME TypeOK, StartedInv, StoppedInHand,
           NEW d \in Disturbers, pc[d] = "begin",
           {i \in Instances : state[i] = "RUNNING"} = {}
    PROVE  Cardinality(started) <= Cardinality({e \in Disturbers \ {d} : kind[e] \in Stoppers})
<1> DEFINE stoppers == {e \in Disturbers \ {d} : kind[e] \in Stoppers}
           holders == {e \in stoppers : target[e] \in started}
           held == [e \in holders |-> target[e]]
<1>1. ASSUME NEW i \in started PROVE \E e \in holders : target[e] = i
    <2>1. state[i] = "STOPPED" /\ i \in Instances
        BY DEF StartedInv, TypeOK, InstancesTypeOK, DisturbancesTypeOK, States
    <2>2. PICK e \in Disturbers : target[e] = i /\ InHand(e)
        BY <2>1 DEF StoppedInHand
    <2>3. e # d /\ kind[e] \in Stoppers
        BY <2>2 DEF InHand
    <2> QED BY <2>2, <2>3
<1>2. held \in Surjection(holders, started)
    BY <1>1 DEF Surjection
<1>3. IsFiniteSet(stoppers) /\ IsFiniteSet(holders)
    BY DisturbersAssumption, FS_Subset
<1>4. /\ Cardinality(started) <= Cardinality(holders)
      /\ IsFiniteSet(started)
    BY <1>2, <1>3, FS_Surjection
<1>5. Cardinality(holders) <= Cardinality(stoppers)
    BY <1>3, FS_Subset
<1>6. Cardinality(started) \in Nat /\ Cardinality(holders) \in Nat /\ Cardinality(stoppers) \in Nat
    BY <1>3, <1>4, FS_CardinalityType
<1> QED BY <1>4, <1>5, <1>6

LEMMA NoPick ==
    ASSUME TypeOK, NEW d \in Disturbers, DoRun(d), pc'[d] = "nopick"
    PROVE  pc[d] = "begin" /\ {i \in Instances : state[i] = "RUNNING"} = {}
<1>t. pc \in [Disturbers -> PCs]
    BY DEF TypeOK, ActionsTypeOK
<1> HIDE DEF TypeOK
<1>1. CASE Pick(d)
    BY <1>t, <1>1 DEF Pick, Begin, Aim
<1>2. ~(BeginSingle(d) \/ Send(d) \/ ReadPid(d) \/ Ps(d) \/ SetTheState(d))
    BY <1>t DEF BeginSingle, Begin, Aim, Send, ReadPid, Ps, SetTheState, Goto, Abort, StartFails, Retry, Move, EndTurn
<1>3. ~(Clean(d) \/ Truncate(d) \/ Restart(d) \/ Partition(d) \/ Reconnect(d))
    BY <1>t DEF Clean, Truncate, Restart, Begin, Partition, Reconnect, Goto, Abort, EndTurn
<1>4. ~(Shuffle(d) \/ Fill(d) \/ Unfill(d) \/ Reboot(d))
    BY <1>t DEF Shuffle, Fill, Unfill, Reboot, Begin, NextOf, Goto, Abort
<1>5. ~(Slow(d) \/ FindProbe(d) \/ KillProbe(d))
    BY <1>t DEF Slow, FindProbe, KillProbe, Goto, Abort, EndTurn
<1> QED BY <1>1, <1>2, <1>3, <1>4, <1>5 DEF DoRun

LEMMA PickStep ==
    ASSUME TypeOK, GoneInv, StartedInv, StoppedInHand, NEW d \in Disturbers, DoRun(d)
    PROVE  PickSucceeds'
<1> SUFFICES ASSUME NEW e \in Disturbers, pc'[e] = "nopick"
             PROVE  Cardinality(started') <= Cardinality({f \in Disturbers \ {e} : kind'[f] \in Stoppers})
    BY DEF PickSucceeds
<1>1. e = d
    <2>1. pc[e] \notin Gone
        BY Acting DEF GoneInv, Gone, Ended
    <2> QED BY <2>1, OthersKept DEF Others, OtherKept, Gone
<1>2. kind' = kind /\ started' = started
    BY <1>1 DEF TypeOK, DoRun, BeginSingle, Pick, Send, ReadPid, Ps, SetTheState, Clean, Truncate, Restart,
        Partition, Reconnect, Shuffle, Fill, Unfill, Reboot, Slow, FindProbe, KillProbe,
        Begin, Aim, Goto, Abort, EndTurn, Retry, StartFails, Move, NextOf
<1>3. Cardinality(started) <= Cardinality({f \in Disturbers \ {d} : kind[f] \in Stoppers})
    BY <1>1, NoPick, Holders
<1> QED BY <1>1, <1>2, <1>3

(* Only the actions that set rules touch them, and only FillDiskAction the  *)
(* files.                                                                   *)
LEMMA RulesKept ==
    ASSUME TypeOK, NEW d \in Disturbers, PlaceAt(d), DoRun(d), pc'[d] \notin Gone
    PROVE  \/ Partition(d) \/ Reconnect(d)
           \/ /\ rules' = rules /\ unseen' = unseen
              /\ kind[d] \in Cutters => pc[d] # "recover" /\ pc'[d] # "recover"
<1>t. pc \in [Disturbers -> PCs]
    BY DEF TypeOK, ActionsTypeOK
<1>k. /\ pc[d] = "clean" => kind[d] \in {"CleanDataAction", "RandomRestartAction"}
      /\ pc[d] = "truncate" => kind[d] = "RandomTruncateRestartAction"
      /\ pc[d] \in {"stap", "unstap"} => kind[d] = "SlowDiskAction"
    BY KindsAt
<1>s. Cutters \cap (Singles \cup Restarts \cup {"SlowDiskAction", "FillDiskAction"}) = {}
    BY DEF Singles, Restarts, Cutters
<1> HIDE DEF TypeOK
<1> USE <1>t, <1>k, <1>s DEF netVars
<1>1. CASE BeginSingle(d) \/ Pick(d)
    BY <1>1 DEF BeginSingle, Pick, Begin, Aim, Abort
<1>2. CASE Send(d) \/ ReadPid(d) \/ Ps(d)
    BY <1>2 DEF Send, ReadPid, Ps, Goto, Abort, StartFails, Retry, Move
<1>3. CASE SetTheState(d)
    <2>1. kind[d] \notin Cutters
        BY <1>3 DEF SetTheState, Singles, Restarts
    <2> QED BY <1>3, <2>1 DEF SetTheState
<1>4. CASE Clean(d) \/ Truncate(d)
    BY <1>4 DEF Clean, Truncate, Goto, Abort, Gone, Singles, Restarts, Cutters
<1>7. CASE Restart(d)
    BY <1>7 DEF Restart, Begin
<1>5. CASE Shuffle(d) \/ Fill(d) \/ Unfill(d) \/ Reboot(d)
    BY <1>5 DEF Shuffle, Fill, Unfill, Reboot, Begin, NextOf, Goto, Abort, Gone
<1>6. CASE Slow(d) \/ FindProbe(d) \/ KillProbe(d)
    BY <1>6 DEF Slow, FindProbe, KillProbe, Goto, Abort, EndTurn, Gone
<1> QED BY <1>1, <1>2, <1>3, <1>4, <1>5, <1>6, <1>7 DEF DoRun

LEMMA FullKept ==
    ASSUME NEW d \in Disturbers, DoRun(d)
    PROVE  \/ Fill(d) \/ Unfill(d)
           \/ full' = full /\ pc[d] \notin {"fill", "unfill"}
BY DEF DoRun, BeginSingle, Pick, Send, ReadPid, Ps, SetTheState, Clean, Truncate, Restart, Partition,
    Reconnect, Shuffle, Reboot, Slow, FindProbe, KillProbe, fillVars

LEMMA RulesStep ==
    ASSUME TypeOK, GoneInv, PlaceInv, DisturbanceUndone,
           NEW d \in Disturbers, DoRun(d), pc'[d] \notin Gone, NEW k \in Cutters, NEW i \in Instances
    PROVE  rules'[<<k, i>>] <= Cardinality(Cuts(k, i)') + unseen'[<<k, i>>]
<1> DEFINE r == <<k, i>>
           own == <<kind[d], target[d]>>
<1>1. rules[r] <= Cardinality(Cuts(k, i)) + unseen[r]
    BY Acting DEF GoneInv, Gone, Ended, DisturbanceUndone
<1>2. \A e \in Disturbers \ {d} : e \in Cuts(k, i)' <=> e \in Cuts(k, i)
    BY OthersKept DEF Others, OtherKept, Cuts
<1>3. Cuts(k, i) \subseteq Disturbers /\ Cuts(k, i)' \subseteq Disturbers
    BY DEF Cuts
<1>4. IsFiniteSet(Cuts(k, i)) /\ Cardinality(Cuts(k, i)) \in Nat
    BY <1>3, DisturbersAssumption, FS_Subset, FS_CardinalityType
<1>5. PlaceAt(d)
    BY DEF PlaceInv
<1>t. /\ TypeOK /\ pc \in [Disturbers -> PCs]
      /\ rules \in [Cutters \X Instances -> Nat] /\ unseen \in [Cutters \X Instances -> Nat]
      /\ r \in Cutters \X Instances
    BY DEF TypeOK, ActionsTypeOK, DisturbancesTypeOK
<1>n. rules[r] \in Nat /\ unseen[r] \in Nat
    BY <1>t
<1>o. own = r <=> kind[d] = k /\ target[d] = i
    OBVIOUS
<1>6. CASE Partition(d)
    <2>1. kind[d] \in Cutters /\ target[d] \in Instances /\ pc[d] = "partition"
        BY <1>5, <1>6, <1>t, KindsAt DEF Partition, PlaceAt, OnInstance
    <2>2. /\ target' = target /\ kind' = kind /\ unseen' = unseen
          /\ \/ rules' \in {rules, [rules EXCEPT ![own] = @ + 1]} /\ pc'[d] = "recover"
             \/ rules' = rules /\ pc'[d] = "failed"
        BY <1>6, <1>t DEF Partition, Goto, Abort, Gone
    <2>3. CASE own = r /\ pc'[d] = "recover"
        <3>1. d \notin Cuts(k, i) /\ Cuts(k, i)' = Cuts(k, i) \cup {d}
            BY <2>1, <2>2, <2>3, <1>2, <1>3, <1>o DEF Cuts
        <3>2. Cardinality(Cuts(k, i)') = Cardinality(Cuts(k, i)) + 1
            BY <3>1, <1>4, FS_AddElement
        <3>3. rules'[r] \in {rules[r], rules[r] + 1}
            BY <1>t, <2>2, <2>3
        <3> SUFFICES rules'[r] <= Cardinality(Cuts(k, i)') + unseen'[r]
            OBVIOUS
        <3> HIDE DEF r
        <3> QED BY <1>1, <1>4, <1>n, <2>2, <3>2, <3>3
    <2>4. CASE own # r \/ pc'[d] = "failed"
        <3>1. Cuts(k, i)' = Cuts(k, i)
            BY <2>1, <2>2, <2>4, <1>2, <1>3, <1>o DEF Cuts
        <3>2. rules'[r] = rules[r]
            BY <1>t, <2>2, <2>4
        <3> QED BY <1>1, <2>2, <3>1, <3>2
    <2> QED BY <2>2, <2>3, <2>4
<1>7. CASE Reconnect(d)
    <2>1. kind[d] \in Cutters /\ target[d] \in Instances /\ pc[d] = "recover"
        BY <1>5, <1>7 DEF Reconnect, PlaceAt, OnInstance
    <2>2. pc'[d] # "recover" /\ target' = target /\ kind' = kind
        BY <1>7, <1>t DEF Reconnect, EndTurn, Abort, Gone
    <2>3. \/ /\ \E n \in Deleted(kind[d], rules[own]) : rules' = [rules EXCEPT ![own] = n]
             /\ unseen' = unseen
          \/ rules' = rules /\ unseen' = [unseen EXCEPT ![own] = @ + 1]
        BY <1>7, <1>t DEF Reconnect, Abort, Gone
    <2>4. CASE own = r
        <3>1. d \in Cuts(k, i) /\ Cuts(k, i)' = Cuts(k, i) \ {d}
            BY <2>1, <2>2, <2>4, <1>2, <1>3, <1>o DEF Cuts
        <3>2. Cardinality(Cuts(k, i)') = Cardinality(Cuts(k, i)) - 1 /\ Cardinality(Cuts(k, i)') \in Nat
            BY <3>1, <1>4, FS_RemoveElement, FS_CardinalityType
        <3>3. \/ /\ rules'[r] \in 0..rules[r] /\ (rules[r] > 0 => rules'[r] < rules[r])
                 /\ unseen'[r] = unseen[r]
              \/ rules'[r] = rules[r] /\ unseen'[r] = unseen[r] + 1
            BY <1>t, <2>3, <2>4 DEF Deleted
        <3> SUFFICES rules'[r] <= Cardinality(Cuts(k, i)') + unseen'[r]
            OBVIOUS
        <3> HIDE DEF r
        <3> QED BY <1>1, <1>4, <1>n, <3>2, <3>3
    <2>5. CASE own # r
        <3>1. Cuts(k, i)' = Cuts(k, i)
            BY <2>2, <2>5, <1>2, <1>3, <1>o DEF Cuts
        <3>2. rules'[r] = rules[r] /\ unseen'[r] = unseen[r]
            BY <1>t, <2>3, <2>5
        <3> QED BY <1>1, <3>1, <3>2
    <2> QED BY <2>4, <2>5
<1>8. CASE ~Partition(d) /\ ~Reconnect(d)
    <2>1. /\ rules' = rules /\ unseen' = unseen
          /\ kind[d] \in Cutters => pc[d] # "recover" /\ pc'[d] # "recover"
        BY <1>5, <1>8, <1>t, RulesKept
    <2>2. kind'[d] = kind[d]
        BY <1>8 DEF DoRun, BeginSingle, Pick, Send, ReadPid, Ps, SetTheState, Clean, Truncate, Restart,
            Shuffle, Fill, Unfill, Reboot, Slow, FindProbe, KillProbe,
            Begin, Aim, Goto, Abort, EndTurn, Retry, StartFails, Move, NextOf
    <2>3. Cuts(k, i)' = Cuts(k, i)
        BY <2>1, <2>2, <1>2, <1>3 DEF Cuts
    <2> QED BY <1>1, <2>1, <2>3
<1> QED BY <1>6, <1>7, <1>8

(* d is going to remove the file of i, or has failed before it could.       *)
Unfills(d, i) ==
    /\ i \in filled[d]
    /\ \/ pc[d] = "fill" /\ i \notin todo[d]
       \/ pc[d] = "unfill" /\ i \in todo[d]
       \/ pc[d] = "failed" /\ i \notin todo[d]

LEMMA FullStep ==
    ASSUME TypeOK, GoneInv, PlaceInv, DisturbanceUndone,
           NEW d \in Disturbers, DoRun(d), pc'[d] \notin Gone, NEW i \in Instances, full'[i]
    PROVE  \E e \in Disturbers : Unfills(e, i)'
<1>1. full[i] => \E e \in Disturbers : Unfills(e, i)
    BY Acting DEF GoneInv, Gone, Ended, DisturbanceUndone, Unfills
<1>2. ASSUME NEW e \in Disturbers \ {d}, Unfills(e, i) PROVE Unfills(e, i)'
    BY <1>2, OthersKept DEF Others, OtherKept, Unfills
<1>3. full[i] /\ Unfills(d, i) => \/ Fill(d) \/ Unfill(d)
    BY FullKept, Acting DEF Unfills, Ended
<1>t. /\ pc \in [Disturbers -> PCs] /\ full \in [Instances -> BOOLEAN]
      /\ todo \in [Disturbers -> SUBSET Instances] /\ filled \in [Disturbers -> SUBSET Instances]
    BY DEF TypeOK, ActionsTypeOK, DisturbancesTypeOK
<1>4. CASE Fill(d)
    <2>1. filled' = filled /\ todo[d] \subseteq filled[d] /\ pc[d] = "fill"
        BY <1>4 DEF Fill, PlaceInv, PlaceAt
    <2>2. ASSUME NEW j \in todo[d], full' = [full EXCEPT ![j] = TRUE], NextOf(d, j, "unfill", filled[d])
          PROVE  \E e \in Disturbers : Unfills(e, i)'
        <3>1. \A k \in filled[d] : k \notin todo[d] \/ k = j => Unfills(d, k)'
            BY <1>t, <2>1, <2>2 DEF NextOf, Goto, Unfills
        <3>2. full[i] \/ i = j
            BY <2>2, <1>t
        <3> QED BY <1>1, <1>2, <2>1, <3>1, <3>2 DEF Unfills
    <2>3. ASSUME UNCHANGED <<full, todo>>, Goto(d, "failed")
          PROVE  \E e \in Disturbers : Unfills(e, i)'
        <3>1. \A k \in filled[d] : k \notin todo[d] => Unfills(d, k)'
            BY <1>t, <2>1, <2>3 DEF Goto, Unfills
        <3> QED BY <1>1, <1>2, <2>1, <2>3, <3>1 DEF Unfills
    <2> QED BY <1>4, <1>t, <2>2, <2>3 DEF Fill, Abort, Gone
<1>5. CASE Unfill(d)
    <2>1. PICK j \in todo[d] :
            /\ full' = [full EXCEPT ![j] = FALSE]
            /\ NextOf(d, j, "reboot", Instances)
        BY <1>5, <1>t DEF Unfill, Abort, Gone
    <2>2. filled' = filled /\ pc[d] = "unfill"
        BY <1>5 DEF Unfill
    <2>3. full[i] /\ i # j
        BY <2>1, <1>t
    <2>4. Unfills(d, i) => Unfills(d, i)'
        BY <1>t, <2>1, <2>2, <2>3 DEF NextOf, Goto, Unfills
    <2> QED BY <1>1, <1>2, <2>3, <2>4
<1>6. CASE ~Fill(d) /\ ~Unfill(d)
    BY <1>1, <1>2, <1>3, <1>6, FullKept
<1> QED BY <1>4, <1>5, <1>6

LEMMA UndoneStep ==
    ASSUME TypeOK, GoneInv, PlaceInv, DisturbanceUndone, NEW d \in Disturbers, DoRun(d)
    PROVE  DisturbanceUndone'
<1>1. CASE pc'[d] \in Gone
    BY <1>1 DEF Gone, DisturbanceUndone
<1>2. CASE pc'[d] \notin Gone
    <2>1. \A i \in Instances : \A k \in Cutters :
              rules'[<<k, i>>] <= Cardinality(Cuts(k, i)') + unseen'[<<k, i>>]
        BY <1>2, RulesStep
    <2>2. \A i \in Instances : full'[i] => \E e \in Disturbers : Unfills(e, i)'
        BY <1>2, FullStep
    <2> QED BY <2>1, <2>2 DEF DisturbanceUndone, Unfills
<1> QED BY <1>1, <1>2

-----------------------------------------------------------------------------
LEMMA InitInv == ASSUME Init PROVE Inv
<1>1. IsFiniteSet({}) /\ Cardinality({}) = 0
    BY FS_EmptySet
<1>2. \A i \in Instances : \A k \in Cutters : Cuts(k, i) = {}
    BY DEF Init, Cuts
<1>3. TypeOK
    <2>1. InstancesTypeOK
        BY DEF Init, Started, InstancesTypeOK, States
    <2>2. ActionsTypeOK
        BY DisturbersAssumption DEF Init, ActionsTypeOK, PCs, Commands
    <2>3. DisturbancesTypeOK
        BY DEF Init, DisturbancesTypeOK
    <2> QED BY <2>1, <2>2, <2>3 DEF TypeOK
<1>4. GoneInv
    BY DEF Init, GoneInv, Gone
<1>5. PlaceInv
    BY DisturbersAssumption DEF Init, PlaceInv, PlaceAt, OnInstance, Ended
<1>6. ProbeInv
    BY DEF Init, ProbeInv, ProbeAt
<1>7. StartedInv /\ StoppedInHand
    BY DEF Init, Started, StartedInv, StoppedInHand
<1>8. PickSucceeds
    BY DEF Init, PickSucceeds
<1>9. DisturbanceUndone
    <2>1. ASSUME NEW i \in Instances, NEW k \in Cutters
          PROVE  rules[<<k, i>>] = 0 /\ unseen[<<k, i>>] = 0 /\ Cardinality(Cuts(k, i)) = 0
        BY <1>1, <1>2 DEF Init
    <2>2. ASSUME NEW i \in Instances PROVE ~full[i]
        BY DEF Init
    <2> QED BY <2>1, <2>2 DEF DisturbanceUndone
<1> QED BY <1>3, <1>4, <1>5, <1>6, <1>7, <1>8, <1>9 DEF Inv

LEMMA DoRunInv == ASSUME Inv, NEW d \in Disturbers, DoRun(d) PROVE Inv'
<1>1. TypeOK /\ GoneInv /\ PlaceInv /\ ProbeInv /\ StartedInv /\ StoppedInHand /\ DisturbanceUndone
    BY DEF Inv
<1>2. PlaceAt(d)
    BY <1>1 DEF PlaceInv
<1>3. TypeOK' /\ GoneInv' /\ PlaceInv' /\ ProbeInv'
    BY <1>1, <1>2, TypeStep, GoneStep, PlaceStep, ProbeStep
<1>4. StartedInv' /\ StoppedInHand' /\ PickSucceeds' /\ DisturbanceUndone'
    BY <1>1, <1>2, StartedStep, StoppedStep, PickStep, UndoneStep
<1> QED BY <1>3, <1>4 DEF Inv

(* A step of a process is seen by none of the actions: it changes proc,     *)
(* pending, and what a pid that was read is worth.                          *)
LEMMA ProcessInv == ASSUME Inv, NEW i \in Instances, ProcessStep(i) PROVE Inv'
<1>1. /\ UNCHANGED <<state, kind, pc, job, target, tries, turn, todo, filled, full, rules, unseen, probes, missed, started>>
      /\ pid' = [d \in Disturbers |->
                   IF pid[d] = "live" /\ target[d] = i /\ Ends(i) THEN "dead" ELSE pid[d]]
    BY DEF ProcessStep, CarryOut, fillVars, netVars, slowVars
<1>2. TypeOK'
    <2>1. TypeOK
        BY DEF Inv
    <2>2. proc' \in [Instances -> Procs] /\ pending' \in [Instances -> [Commands -> Nat]]
        <3>1. proc \in [Instances -> Procs] /\ pending \in [Instances -> [Commands -> Nat]]
            BY <2>1 DEF TypeOK, InstancesTypeOK
        <3>2. ASSUME NEW c \in Commands, CarryOut(i, c)
              PROVE  proc' \in [Instances -> Procs] /\ pending' \in [Instances -> [Commands -> Nat]]
            <4>1. PICK p \in Outcomes(proc[i], c) : proc' = [proc EXCEPT ![i] = p]
                BY <3>2 DEF CarryOut
            <4>2. p \in Procs
                <5>1. proc[i] \in Procs
                    BY <3>1
                <5> QED BY <4>1, <5>1 DEF Outcomes, Procs, Commands
            <4>3. pending[i] \in [Commands -> Nat] /\ pending[i][c] - 1 \in Nat
                BY <3>1, <3>2 DEF CarryOut
            <4>4. [pending[i] EXCEPT ![c] = @ - 1] \in [Commands -> Nat]
                BY <4>3
            <4>5. pending' = [pending EXCEPT ![i] = [pending[i] EXCEPT ![c] = @ - 1]]
                BY <3>2 DEF CarryOut
            <4> QED BY <3>1, <4>1, <4>2, <4>4, <4>5
        <3>3. ASSUME proc' = [proc EXCEPT ![i] = "down"], pending' = pending
              PROVE  proc' \in [Instances -> Procs] /\ pending' \in [Instances -> [Commands -> Nat]]
            BY <3>1, <3>3 DEF Procs
        <3> QED BY <3>2, <3>3 DEF ProcessStep
    <2>3. pid' \in [Disturbers -> {"none", "live", "dead"}]
        BY <1>1, <2>1 DEF TypeOK, ActionsTypeOK
    <2>4. InstancesTypeOK'
        BY <1>1, <2>1, <2>2 DEF TypeOK, InstancesTypeOK
    <2>5. ActionsTypeOK'
        BY <1>1, <2>1, <2>3 DEF TypeOK, ActionsTypeOK
    <2>6. DisturbancesTypeOK'
        BY <1>1, <2>1 DEF TypeOK, DisturbancesTypeOK
    <2> QED BY <2>4, <2>5, <2>6 DEF TypeOK
<1>3. GoneInv' /\ PlaceInv' /\ ProbeInv' /\ StartedInv'
    BY <1>1 DEF Inv, GoneInv, PlaceInv, PlaceAt, ProbeInv, ProbeAt, StartedInv
<1>4. StoppedInHand' /\ PickSucceeds'
    BY <1>1 DEF Inv, StoppedInHand, InHand, PickSucceeds
<1>5. DisturbanceUndone'
    BY <1>1 DEF Inv, DisturbanceUndone, Cuts
<1> QED BY <1>2, <1>3, <1>4, <1>5 DEF Inv

LEMMA StutterInv == ASSUME Inv, UNCHANGED vars PROVE Inv'
<1>1. UNCHANGED vars
    OBVIOUS
<1> USE <1>1 DEF vars, instanceVars, actionVars, fillVars, netVars, slowVars
<1>2. TypeOK'
    <2>1. InstancesTypeOK'
        BY DEF Inv, TypeOK, InstancesTypeOK
    <2>2. ActionsTypeOK'
        BY DEF Inv, TypeOK, ActionsTypeOK
    <2>3. DisturbancesTypeOK'
        BY DEF Inv, TypeOK, DisturbancesTypeOK
    <2> QED BY <2>1, <2>2, <2>3 DEF TypeOK
<1>3. GoneInv' /\ PlaceInv' /\ ProbeInv' /\ StartedInv'
    BY DEF Inv, GoneInv, PlaceInv, PlaceAt, ProbeInv, ProbeAt, StartedInv
<1>4. StoppedInHand' /\ PickSucceeds'
    BY DEF Inv, StoppedInHand, InHand, PickSucceeds
<1>5. DisturbanceUndone'
    BY DEF Inv, DisturbanceUndone, Cuts
<1> QED BY <1>2, <1>3, <1>4, <1>5 DEF Inv

(* What is noted of instances, rules, files and probes agrees with where    *)
(* the actions stand, in every state of every run.                          *)
THEOREM Invariance == Spec => []Inv
<1>1. Init => Inv
    BY InitInv
<1>2. Inv /\ [Next]_vars => Inv'
    <2> SUFFICES ASSUME Inv, [Next]_vars PROVE Inv'
        OBVIOUS
    <2>1. CASE \E d \in Disturbers : DoRun(d)
        BY <2>1, DoRunInv
    <2>2. CASE \E i \in Instances : ProcessStep(i)
        BY <2>2, ProcessInv
    <2>3. CASE AllEnded
        BY <2>3, StutterInv DEF AllEnded
    <2>4. CASE UNCHANGED vars
        BY <2>4, StutterInv
    <2> QED BY <2>1, <2>2, <2>3, <2>4 DEF Next
<1> QED BY <1>1, <1>2, PTL DEF Spec

(* The variables have their types: no probe is killed that is not there     *)
(* (SlowDiskAction).                                                        *)
THEOREM TypeCorrect == Spec => []TypeOK
<1>1. Inv => TypeOK
    BY DEF Inv
<1> QED BY <1>1, Invariance, PTL

(* An instance is noted as STOPPED only as long as an action that stopped   *)
(* it has it in hand, whatever the other actions do (StopAction,            *)
(* CrashAction, RandomRestartAction).                                       *)
THEOREM StoppedAreInHand == Spec => []StoppedInHand
<1>1. Inv => StoppedInHand
    BY DEF Inv
<1> QED BY <1>1, Invariance, PTL

(* disturb() finds an instance to pick unless as many other actions stop    *)
(* instances as were running (CHECK_NOTNULL(picked_)).                      *)
THEOREM PicksSucceed == Spec => []PickSucceeds
<1>1. Inv => PickSucceeds
    BY DEF Inv
<1> QED BY <1>1, Invariance, PTL

(* recover() takes back what disturb() did to the network and the disks     *)
(* (RandomPartitionAction, RandomTrafficControlAction, FillDiskAction).      *)
THEOREM DisturbancesUndone == Spec => []DisturbanceUndone
<1>1. Inv => DisturbanceUndone
    BY DEF Inv
<1> QED BY <1>1, Invariance, PTL

(* SlowDiskAction leaves no more probes than recover() missed ssh failures. *)
THEOREM ProbesAreUndone == Spec => []ProbesUndone
<1>1. Inv => ProbesUndone
    BY DEF Inv, ProbeInv, ProbeAt, ProbesUndone
<1> QED BY <1>1, Invariance, PTL
=============================================================================
