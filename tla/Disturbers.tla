----------------------------- MODULE Disturbers -----------------------------
(***************************************************************************)
(* The actions that start, stop, kill and clean the instances, and those   *)
(* that disturb them in turns of disturb() and recover() (DisturbAction in *)
(* core/Action.h, nebula/NebulaAction.cpp), run concurrently on shared     *)
(* instances.                                                              *)
(*                                                                         *)
(* An ssh call whose exit status a CHECK guards either is done or aborts   *)
(* the program.  graceful_, cleanData_ and the inst_index of an action are *)
(* the plan author's choice, made here when they are used.  A data path or *)
(* a port that the configuration does not have fails an action.            *)
(***************************************************************************)
EXTENDS Instances

CONSTANTS
    Disturbers,      \* the actions that run at the same time
    Kinds,           \* what they may be
    NoInstance,
    LoopTimes,       \* loopTimes_
    FillCount,       \* count_ of FillDiskAction
    StopTries,       \* how often StopAction tries (9 in the code)
    StartTries       \* how often recover() tries to start (32 in the code)

(* An action that works on one instance that the plan names, once.          *)
Singles == {"StartAction", "StopAction", "CrashAction", "CleanDataAction"}

(* RandomRestartAction and the class that extends it.                       *)
Restarts == {"RandomRestartAction", "RandomTruncateRestartAction"}

(* The actions that stop an instance.                                       *)
Stoppers == Restarts \cup {"StopAction", "CrashAction"}

(* The actions that set rules on a host: those of iptables and those of tc. *)
Cutters == {"RandomPartitionAction", "RandomTrafficControlAction"}

AllKinds == Singles \cup Restarts \cup Cutters \cup {"FillDiskAction", "SlowDiskAction"}

ASSUME DisturbersAssumption ==
    /\ IsFiniteSet(Disturbers)
    /\ Kinds \subseteq AllKinds
    /\ NoInstance \notin Instances
    /\ LoopTimes \in Nat \ {0}
    /\ FillCount \in 1..Cardinality(Instances)
    /\ StopTries \in Nat \ {0}
    /\ StartTries \in Nat \ {0}

VARIABLES
    kind,            \* the type of each action
    pc,              \* where it stands
    job,             \* the command of the Start-, Stop- or CrashAction it is in
    target,          \* inst_, picked_
    pid,             \* the pid it has read
    tries, turn,     \* the counters of its loops
    todo,            \* FillDiskAction: the instances still to come in its loop
    filled,          \* FillDiskAction: the first count_ of storages_
    rules,           \* how many times a rule of paras_ is set, by type and host
    full,            \* the hosts with the file "full"
    probes,          \* how many probes of each action slow a disk down
    unseen,          \* history: how many deletions of that rule failed unseen
    missed,          \* history: how many failed ssh calls recover() took for success
    started          \* history: the instances that were RUNNING at first

actionVars == <<kind, pc, job, target, pid, tries, turn>>
fillVars == <<todo, filled, full>>
netVars == <<rules, unseen>>
slowVars == <<probes, missed>>
vars == <<instanceVars, actionVars, fillVars, netVars, slowVars, started>>

Ended == {"done", "failed", "aborted", "nopick"}

PCs == Ended \cup {"begin", "send", "pid", "ps", "set", "clean", "truncate",
    "recover", "partition", "fill", "unfill", "reboot", "stap", "unstap"}

Init ==
    /\ started \in SUBSET Instances
    /\ Started(started)
    /\ kind \in [Disturbers -> Kinds]
    /\ pc = [d \in Disturbers |-> "begin"]
    /\ job = [d \in Disturbers |-> "start"]
    /\ target = [d \in Disturbers |-> NoInstance]
    /\ pid = [d \in Disturbers |-> "none"]
    /\ tries = [d \in Disturbers |-> 0]
    /\ turn = [d \in Disturbers |-> 0]
    /\ todo = [d \in Disturbers |-> {}]
    /\ filled = [d \in Disturbers |-> {}]
    /\ rules = [r \in Cutters \X Instances |-> 0]
    /\ unseen = [r \in Cutters \X Instances |-> 0]
    /\ full = [i \in Instances |-> FALSE]
    /\ probes = [d \in Disturbers |-> 0]
    /\ missed = [d \in Disturbers |-> 0]

-----------------------------------------------------------------------------
Goto(d, l) ==
    /\ pc' = [pc EXCEPT ![d] = l]
    /\ UNCHANGED <<kind, job, target, pid, tries, turn>>

(* recover() has returned OK: the next turn of DisturbAction::doRun().      *)
EndTurn(d) ==
    /\ turn' = [turn EXCEPT ![d] = @ + 1]
    /\ pc' = [pc EXCEPT ![d] = IF turn'[d] < LoopTimes THEN "begin" ELSE "done"]
    /\ UNCHANGED <<kind, job, target, pid, tries>>

(* A CHECK fails: the process of the plan is gone, with all its threads.    *)
Abort(d, how) ==
    /\ pc' = [e \in Disturbers |-> IF e = d THEN how ELSE "aborted"]
    /\ UNCHANGED <<kind, job, target, pid, tries, turn>>

(* doRun() of the Start-, Stop- or CrashAction c on instance i is called.   *)
Begin(d, i, c) ==
    /\ pc' = [pc EXCEPT ![d] = "send"]
    /\ job' = [job EXCEPT ![d] = c]
    /\ target' = [target EXCEPT ![d] = i]
    /\ tries' = [tries EXCEPT ![d] = 0]
    /\ UNCHANGED <<kind, pid, turn>>

Aim(d, i, l) ==
    /\ pc' = [pc EXCEPT ![d] = l]
    /\ target' = [target EXCEPT ![d] = i]
    /\ UNCHANGED <<kind, job, pid, tries, turn>>

-----------------------------------------------------------------------------
(* An action of the plan on the instance it names.                          *)
BeginSingle(d) ==
    /\ pc[d] = "begin"
    /\ \E i \in Instances :
        \/ kind[d] = "StartAction" /\ Begin(d, i, "start")
        \/ kind[d] = "StopAction" /\ Begin(d, i, "stop")
        \/ kind[d] = "CrashAction" /\ Begin(d, i, "kill")
        \/ kind[d] = "CleanDataAction" /\ Aim(d, i, "clean")
    /\ UNCHANGED <<instanceVars, fillVars, netVars, slowVars, started>>

PickStopped(d) ==
    /\ pc[d] = "begin"
    /\ kind[d] \notin Singles \cup {"FillDiskAction"}
    /\ LET candidate == {i \in Instances : state[i] = "STOPPED"} IN
        \/ candidate = {} /\ Abort(d, "nopick")
        \/ \E i \in candidate :
            \/ kind[d] \in Restarts /\ \E c \in {"stop", "kill"} : Begin(d, i, c)
            \/ kind[d] \in Cutters /\ Aim(d, i, "partition")
            \/ kind[d] = "SlowDiskAction" /\ Aim(d, i, "pid")
    /\ UNCHANGED <<instanceVars, fillVars, netVars, slowVars, started>>

(* disturb(): randomInstance() among the RUNNING ones, CHECK_NOTNULL.       *)
Pick(d) ==
    /\ pc[d] = "begin"
    /\ kind[d] \notin Singles \cup {"FillDiskAction"}
    /\ LET candidate == {i \in Instances : state[i] = "RUNNING"} IN
        \/ candidate = {} /\ Abort(d, "nopick")
        \/ \E i \in candidate :
            \/ kind[d] \in Restarts /\ \E c \in {"stop", "kill"} : Begin(d, i, c)
            \/ kind[d] \in Cutters /\ Aim(d, i, "partition")
            \/ kind[d] = "SlowDiskAction" /\ Aim(d, i, "pid")
    /\ UNCHANGED <<instanceVars, fillVars, netVars, slowVars, started>>

Send(d) ==
    /\ pc[d] = "send"
    /\ \/ Give(target[d], job[d]) /\ Goto(d, "pid")
       \/ UNCHANGED pending /\ Abort(d, "aborted")
    /\ UNCHANGED <<state, proc, fillVars, netVars, slowVars, started>>

(* Variants of an operator, named for what they get wrong, stand before it. *)
RetryGivesUpAsDone(d, limit) ==
    /\ tries' = [tries EXCEPT ![d] = @ + 1]
    /\ pc' = [pc EXCEPT ![d] = IF tries'[d] < limit THEN "send" ELSE "done"]
    /\ UNCHANGED <<kind, job, target, turn>>

(* Once more, if that is less than limit times.                             *)
Retry(d, limit) ==
    /\ tries' = [tries EXCEPT ![d] = @ + 1]
    /\ pc' = [pc EXCEPT ![d] = IF tries'[d] < limit THEN "send" ELSE "failed"]
    /\ UNCHANGED <<kind, job, target, turn>>

(* StartAction has not found the process: the plan's own action fails, that *)
(* of a disturber is called again.                                          *)
StartFails(d) == Retry(d, IF kind[d] \in Singles THEN 1 ELSE StartTries)

Move(d, l) ==
    /\ pc' = [pc EXCEPT ![d] = l]
    /\ UNCHANGED <<kind, job, target, tries, turn>>

ReadPid(d) ==
    /\ pc[d] = "pid"
    /\ \E p \in PidRead(target[d]) :
        /\ pid' = [pid EXCEPT ![d] = p]
        /\ \/ p = "none" /\ IF kind[d] # "SlowDiskAction" /\ job[d] = "start"
                            THEN StartFails(d) ELSE Move(d, "failed")
           \/ p # "none" /\ Move(d, IF kind[d] = "SlowDiskAction" THEN "stap" ELSE "ps")
    /\ UNCHANGED <<instanceVars, fillVars, netVars, slowVars, started>>

(* CheckProcAction, and what each of the three makes of it.                 *)
Ps(d) ==
    /\ pc[d] = "ps"
    /\ pid' = [pid EXCEPT ![d] = "none"]
    /\ \E found \in ProcFound(pid[d]) :
        \/ found = (job[d] = "start") /\ Move(d, "set")
        \/ ~found /\ job[d] = "start" /\ StartFails(d)
        \/ found /\ job[d] = "stop" /\ Retry(d, StopTries)
        \/ found /\ job[d] = "kill" /\ Move(d, "failed")
    /\ UNCHANGED <<instanceVars, fillVars, netVars, slowVars, started>>

(* setState(), and the action goes on: a disturber that has stopped its     *)
(* instance may clean its data (cleanData_) or truncates its wal.           *)
SetTheState(d) ==
    /\ pc[d] = "set"
    /\ SetState(target[d], IF job[d] = "start" THEN "RUNNING" ELSE "STOPPED")
    /\ \/ kind[d] \in Singles /\ Goto(d, "done")
       \/ kind[d] \in Restarts /\ job[d] = "start" /\ EndTurn(d)
       \/ kind[d] = "RandomRestartAction" /\ job[d] # "start" /\ \E l \in {"clean", "recover"} : Goto(d, l)
       \/ kind[d] = "RandomTruncateRestartAction" /\ job[d] # "start" /\ Goto(d, "truncate")
       \/ kind[d] = "FillDiskAction" /\ IF todo[d] = {} THEN EndTurn(d) ELSE Goto(d, "reboot")
    /\ UNCHANGED <<proc, pending, fillVars, netVars, slowVars, started>>

(* CleanDataAction leaves the data of a RUNNING instance alone, and says OK. *)
Removes(d) == pc[d] = "clean" /\ state[target[d]] # "RUNNING"

Clean(d) ==
    /\ pc[d] = "clean"
    /\ \/ Goto(d, IF kind[d] = "CleanDataAction" THEN "done" ELSE "recover")
       \/ Removes(d) /\ Goto(d, "failed")
       \/ Removes(d) /\ Abort(d, "aborted")
    /\ UNCHANGED <<instanceVars, fillVars, netVars, slowVars, started>>

Truncate(d) ==
    /\ pc[d] = "truncate"
    /\ Goto(d, "recover") \/ Goto(d, "failed") \/ Abort(d, "aborted")
    /\ UNCHANGED <<instanceVars, fillVars, netVars, slowVars, started>>

Restart(d) ==
    /\ pc[d] = "recover"
    /\ kind[d] \in Restarts
    /\ Begin(d, target[d], "start")
    /\ UNCHANGED <<instanceVars, fillVars, netVars, slowVars, started>>

-----------------------------------------------------------------------------
(* disturb() sets the rules of paras_ with one command line, whose exit     *)
(* status is that of its last command: of any other rule it is not seen     *)
(* whether it was set.  The port of an instance may be missing.             *)
Partition(d) ==
    LET r == <<kind[d], target[d]>> IN
    /\ pc[d] = "partition"
    /\ \/ /\ rules' \in {rules, [rules EXCEPT ![r] = @ + 1]}
          /\ Goto(d, "recover")
       \/ UNCHANGED rules /\ Goto(d, "failed")
       \/ UNCHANGED rules /\ Abort(d, "aborted")
    /\ UNCHANGED <<instanceVars, fillVars, unseen, slowVars, started>>

(* iptables -D deletes one of several equal rules, tcdel one or more.       *)
Deleted(k, n) ==
    {m \in 0..n : /\ n > 0 => m < n
                  /\ k = "RandomPartitionAction" => m >= n - 1}

(* recover() deletes the rules with one command line.                       *)
Reconnect(d) ==
    LET r == <<kind[d], target[d]>> IN
    /\ pc[d] = "recover"
    /\ kind[d] \in Cutters
    /\ \/ /\ \E n \in Deleted(kind[d], rules[r]) : rules' = [rules EXCEPT ![r] = n]
          /\ UNCHANGED unseen
          /\ EndTurn(d)
       \/ /\ rules[r] > 0
          /\ unseen' = [unseen EXCEPT ![r] = @ + 1]
          /\ UNCHANGED rules
          /\ EndTurn(d)
       \/ UNCHANGED netVars /\ Abort(d, "aborted")
    /\ UNCHANGED <<instanceVars, fillVars, slowVars, started>>

(* FillDiskAction shuffles the instances and takes the first count_.        *)
Shuffle(d) ==
    /\ pc[d] = "begin"
    /\ kind[d] = "FillDiskAction"
    /\ \E S \in SUBSET Instances :
        /\ Cardinality(S) = FillCount
        /\ filled' = [filled EXCEPT ![d] = S]
        /\ todo' = [todo EXCEPT ![d] = S]
    /\ Goto(d, "fill")
    /\ UNCHANGED <<instanceVars, full, netVars, slowVars, started>>

(* i is done: the next one, or the next loop, at l, over S.                 *)
NextOf(d, i, l, S) ==
    IF todo[d] = {i}
    THEN todo' = [todo EXCEPT ![d] = S] /\ Goto(d, l)
    ELSE todo' = [todo EXCEPT ![d] = @ \ {i}] /\ Goto(d, pc[d])

Fill(d) ==
    /\ pc[d] = "fill"
    /\ \E i \in todo[d] :
        \/ /\ full' = [full EXCEPT ![i] = TRUE]
           /\ NextOf(d, i, "unfill", filled[d])
        \/ UNCHANGED <<full, todo>> /\ Goto(d, "failed")
        \/ /\ full' \in {full, [full EXCEPT ![i] = TRUE]}
           /\ Abort(d, "aborted")
           /\ UNCHANGED todo
    /\ UNCHANGED <<instanceVars, filled, netVars, slowVars, started>>

UnfillReshuffled(d) ==
    /\ pc[d] = "unfill"
    /\ \E i \in Instances :
        \/ /\ full' = [full EXCEPT ![i] = FALSE]
           /\ todo' = [todo EXCEPT ![d] = Instances]
           /\ Goto(d, "reboot")
        \/ UNCHANGED <<full, todo>> /\ Abort(d, "aborted")
    /\ UNCHANGED <<instanceVars, filled, netVars, slowVars, started>>

Unfill(d) ==
    /\ pc[d] = "unfill"
    /\ \E i \in todo[d] :
        \/ /\ full' = [full EXCEPT ![i] = FALSE]
           /\ NextOf(d, i, "reboot", Instances)
        \/ UNCHANGED <<full, todo>> /\ Abort(d, "aborted")
    /\ UNCHANGED <<instanceVars, filled, netVars, slowVars, started>>

(* All of storages_ are started, whatever had become of them.               *)
Reboot(d) ==
    /\ pc[d] = "reboot"
    /\ \E i \in todo[d] :
        /\ Begin(d, i, "start")
        /\ todo' = [todo EXCEPT ![d] = @ \ {i}]
    /\ UNCHANGED <<instanceVars, filled, full, netVars, slowVars, started>>

(* SlowDiskAction: the probe is a daemon, and its pid may not be readable.  *)
Slow(d) ==
    /\ pc[d] = "stap"
    /\ \/ /\ probes' = [probes EXCEPT ![d] = @ + 1]
          /\ Goto(d, "recover") \/ Goto(d, "failed")
       \/ UNCHANGED probes /\ Abort(d, "aborted")
    /\ UNCHANGED <<instanceVars, fillVars, netVars, missed, started>>

(* recover() looks for the probe, and kills it if it is there: neither call *)
(* has its exit status checked.                                             *)
FindProbe(d) ==
    /\ pc[d] = "recover"
    /\ kind[d] = "SlowDiskAction"
    /\ \/ /\ Goto(d, "unstap")
          /\ UNCHANGED slowVars
       \/ /\ EndTurn(d)
          /\ probes' = [probes EXCEPT ![d] = @ - 1]
          /\ UNCHANGED missed
       \/ /\ EndTurn(d)
          /\ missed' = [missed EXCEPT ![d] = @ + 1]
          /\ UNCHANGED probes
    /\ UNCHANGED <<instanceVars, fillVars, netVars, started>>

KillProbeForgotten(d) ==
    /\ pc[d] = "unstap"
    /\ EndTurn(d)
    /\ UNCHANGED <<instanceVars, fillVars, netVars, slowVars, started>>

KillProbe(d) ==
    /\ pc[d] = "unstap"
    /\ EndTurn(d)
    /\ \/ /\ probes' = [probes EXCEPT ![d] = @ - 1]
          /\ UNCHANGED missed
       \/ /\ missed' = [missed EXCEPT ![d] = @ + 1]
          /\ UNCHANGED probes
    /\ UNCHANGED <<instanceVars, fillVars, netVars, started>>

-----------------------------------------------------------------------------
(* A command is carried out, or a process crashes because a disk is full;   *)
(* nobody looks any more when all actions have ended.                       *)
ProcessStep(i) ==
    /\ \E d \in Disturbers : pc[d] \notin Ended
    /\ \/ \E c \in Commands : CarryOut(i, c)
       \/ /\ \E j \in Instances : full[j]
          /\ proc[i] = "up"
          /\ proc' = [proc EXCEPT ![i] = "down"]
          /\ UNCHANGED <<state, pending>>
    /\ pid' = [d \in Disturbers |->
                 IF pid[d] = "live" /\ target[d] = i /\ Ends(i) THEN "dead" ELSE pid[d]]
    /\ UNCHANGED <<kind, pc, job, target, tries, turn, fillVars, netVars, slowVars, started>>

DoRun(d) ==
    \/ BeginSingle(d) \/ Pick(d) \/ Send(d) \/ ReadPid(d) \/ Ps(d) \/ SetTheState(d)
    \/ Clean(d) \/ Truncate(d) \/ Restart(d) \/ Partition(d) \/ Reconnect(d)
    \/ Shuffle(d) \/ Fill(d) \/ Unfill(d) \/ Reboot(d)
    \/ Slow(d) \/ FindProbe(d) \/ KillProbe(d)

AllEnded ==
    /\ \A d \in Disturbers : pc[d] \in Ended
    /\ UNCHANGED vars

Next ==
    \/ \E d \in Disturbers : DoRun(d)
    \/ \E i \in Instances : ProcessStep(i)
    \/ AllEnded

Spec == Init /\ [][Next]_vars

-----------------------------------------------------------------------------
ActionsTypeOK ==
    /\ kind \in [Disturbers -> Kinds]
    /\ pc \in [Disturbers -> PCs]
    /\ job \in [Disturbers -> Commands]
    /\ target \in [Disturbers -> Instances \cup {NoInstance}]
    /\ pid \in [Disturbers -> {"none", "live", "dead"}]
    /\ tries \in [Disturbers -> Nat]
    /\ turn \in [Disturbers -> 0..LoopTimes]

DisturbancesTypeOK ==
    /\ todo \in [Disturbers -> SUBSET Instances]
    /\ filled \in [Disturbers -> SUBSET Instances]
    /\ rules \in [Cutters \X Instances -> Nat]
    /\ unseen \in [Cutters \X Instances -> Nat]
    /\ full \in [Instances -> BOOLEAN]
    /\ probes \in [Disturbers -> Nat]
    /\ missed \in [Disturbers -> Nat]
    /\ started \in SUBSET Instances

(* Type correctness of the instances and of the actions that work on them.  *)
TypeOK == InstancesTypeOK /\ ActionsTypeOK /\ DisturbancesTypeOK

(* d has found its instance stopped, and has not found it started again; or *)
(* it has not come to a good end; or stopping it was all it was asked for.  *)
InHand(d) ==
    /\ kind[d] \in Stoppers
    /\ \/ pc[d] \in {"clean", "truncate", "recover", "failed", "aborted"}
       \/ pc[d] \in {"send", "pid", "ps", "set"} /\ job[d] = "start"
       \/ pc[d] = "done" /\ kind[d] \in Singles

(* Whatever the disturbers do to each other's instances and whatever calls  *)
(* fail, an instance is noted as STOPPED only while the action that noted   *)
(* it last is still to start it, has failed, or was to stop it: a plan that *)
(* passes has no instance STOPPED by a disturber (NebulaAction.cpp:740-804). *)
StoppedInHand ==
    \A i \in Instances :
        state[i] = "STOPPED" => \E d \in Disturbers : target[d] = i /\ InHand(d)

(* The CHECK that there is a RUNNING instance to pick (NebulaAction.cpp:770, *)
(* 840, 1088) fails only when the other actions that stop instances are as  *)
(* many as the instances that were running.                                 *)
PickSucceeds ==
    \A d \in Disturbers :
        pc[d] = "nopick" =>
            Cardinality(started) <= Cardinality({e \in Disturbers \ {d} : kind[e] \in Stoppers})

Cuts(k, i) == {d \in Disturbers : kind[d] = k /\ target[d] = i /\ pc[d] = "recover"}

(* A rule is not set on a host more often than there are actions that are   *)
(* going to delete it, but for deletions that failed before the last command *)
(* of their line; and a disk is full only while an action is going to remove *)
(* the file, or after it has failed; unless the program was aborted         *)
(* (NebulaAction.cpp:838-982, 984-1040).                                    *)
DisturbanceUndone ==
    \/ \E d \in Disturbers : pc[d] \in {"aborted", "nopick"}
    \/ \A i \in Instances :
        /\ \A k \in Cutters : rules[<<k, i>>] <= Cardinality(Cuts(k, i)) + unseen[<<k, i>>]
        /\ full[i] => \E d \in Disturbers :
                        /\ i \in filled[d]
                        /\ \/ pc[d] = "fill" /\ i \notin todo[d]
                           \/ pc[d] = "unfill" /\ i \in todo[d]
                           \/ pc[d] = "failed" /\ i \notin todo[d]

(* A probe outlives the turn that put it there only if a call of recover()  *)
(* failed whose exit status it does not look at (NebulaAction.cpp:1121-1142). *)
ProbesUndone ==
    \A d \in Disturbers : pc[d] \in {"begin", "pid", "stap", "done"} => probes[d] <= missed[d]
=============================================================================
