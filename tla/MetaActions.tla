---------------------------- MODULE MetaActions ----------------------------
(***************************************************************************)
(* MetaAction and the actions that override its doRun() or its checkResp() *)
(* (nebula/NebulaAction.cpp): a statement is sent until the answer passes  *)
(* the action's check.  With them the check that a plan makes of two of    *)
(* the answers, the condition "$leaderDis1 == $leaderDis2".                *)
(*                                                                         *)
(* The cluster is external: the leaders of the space's partitions change,  *)
(* hosts go and come back, data is balanced in the background, spaces are  *)
(* made and dropped, and a call that fails may have taken effect.  Actions *)
(* of one class do not differ in what they do: "create" and "drop" stand   *)
(* for the statements that are no error when sent twice (IF NOT EXISTS)    *)
(* and for those that are (DROP, ADD ... INTO, CREATE INDEX).              *)
(***************************************************************************)
EXTENDS Integers, Sequences, FiniteSets

CONSTANTS
    Actions,         \* the actions of a plan
    Kind,            \* their classes
    After,           \* for each action those it depends on
    HostNum,         \* the number of hosts
    Ip,              \* the address of each host, which hosts may share
    Parts,           \* the partitions of the space: expectedNum_ is their number
    NoHost,          \* the leader of a partition that has none
    RetryTimes,      \* retryTimes_
    MaxChanges       \* bound: how often the cluster changes by itself

Kinds == {"create", "drop", "desc", "leaders", "stable", "balance", "config"}

ASSUME MetaAssumption ==
    /\ IsFiniteSet(Actions)
    /\ Kind \in [Actions -> Kinds]
    /\ After \in [Actions -> SUBSET Actions]
    /\ HostNum \in Nat
    /\ DOMAIN Ip = 1 .. HostNum
    /\ IsFiniteSet(Parts)
    /\ NoHost \notin 1 .. HostNum
    /\ RetryTimes \in Nat
    /\ MaxChanges \in Nat

VARIABLES
    pc, rc, retry,   \* where each action stands, what it returned, how often it sent
    legal,           \* whether its parameters make a statement, and one graphd accepts
    errMsg,          \* errMsg of each BalanceDataAction::doRun
    spaceId,         \* spaceId_ of each DescSpaceAction
    result,          \* the variable named by resultVarName_ of each CheckLeadersAction:
                     \* <<>>, or <<its value>>
    leader,          \* cluster: the leader of each partition
    online,          \* cluster: the hosts that are not OFFLINE
    balanced,        \* cluster: nothing to balance
    space,           \* cluster: the id of the space, 0 if there is none
    lastId,          \* cluster: the last id given
    config,          \* cluster: whether the configuration is the one asked for
    changes,
    shot             \* history: the leaders as each CheckLeadersAction saw them

actionVars == <<pc, rc, retry, legal>>
resultVars == <<errMsg, spaceId, result, shot>>
clusterVars == <<leader, online, balanced, space, lastId, config, changes>>
vars == <<actionVars, resultVars, clusterVars>>

(* The hosts, in the order of SHOW HOSTS.                                  *)
Hosts == 1 .. HostNum

Of(kind) == {a \in Actions : Kind[a] = kind}

Unset == <<>>

Init ==
    /\ pc = [a \in Actions |-> "idle"]
    /\ rc = [a \in Actions |-> "none"]
    /\ retry = [a \in Actions |-> 0]
    /\ legal \in [Actions -> {"yes", "refused", "no"}]
    /\ \A a \in Actions : Kind[a] \notin {"create", "config"} => legal[a] = "yes"
    /\ errMsg = [a \in Actions |-> ""]
    /\ spaceId = [a \in Actions |-> -1]
    /\ result = [a \in Actions |-> Unset]
    /\ shot = [a \in Actions |-> <<>>]
    /\ leader \in [Parts -> Hosts \cup {NoHost}]
    /\ online = Hosts
    /\ balanced \in BOOLEAN
    /\ space = 0
    /\ lastId = 0
    /\ config = FALSE
    /\ changes = 0

(***************************************************************************)
(* The cluster.                                                            *)
(***************************************************************************)

(* A partition elects a leader, or loses it.                               *)
Elect ==
    /\ \E p \in Parts, h \in online \cup {NoHost} :
          leader[p] # h /\ leader' = [leader EXCEPT ![p] = h]
    /\ UNCHANGED <<online, balanced>>

(* A host that is gone leads nothing; what it held is to be balanced.      *)
HostGone ==
    /\ \E h \in online :
          /\ online' = online \ {h}
          /\ leader' = [p \in Parts |-> IF leader[p] = h THEN NoHost ELSE leader[p]]
    /\ balanced' = FALSE

HostBack ==
    /\ \E h \in Hosts \ online : online' = online \cup {h}
    /\ balanced' = FALSE
    /\ UNCHANGED leader

Balanced ==
    /\ ~balanced
    /\ balanced' = TRUE
    /\ UNCHANGED <<leader, online>>

Change ==
    /\ changes < MaxChanges
    /\ changes' = changes + 1
    /\ Elect \/ HostGone \/ HostBack \/ Balanced
    /\ UNCHANGED <<actionVars, resultVars, space, lastId, config>>

(* A row of SHOW HOSTS: a host and how many partitions of the space it     *)
(* leads.                                                                  *)
Leads(h) == Cardinality({p \in Parts : leader[p] = h})

Total == Cardinality({p \in Parts : leader[p] # NoHost})

(* The hosts that are online and lead some partition; the i-th of them.    *)
Rows == {h \in online : Leads(h) > 0}

Row(i) == CHOOSE h \in Rows : Cardinality({g \in Rows : g <= h}) = i

(* The numbers are left out.                                               *)
DistributionOfHosts == [i \in 1 .. Cardinality(Rows) |-> <<Ip[Row(i)], 1>>]

(* checkLeaderDis(): for each of those hosts its address and how many.     *)
Distribution == [i \in 1 .. Cardinality(Rows) |-> <<Ip[Row(i)], Leads(Row(i))>>]

(***************************************************************************)
(* The loops around execute().                                             *)
(***************************************************************************)

Return(a, ret) ==
    /\ pc' = [pc EXCEPT ![a] = "done"]
    /\ rc' = [rc EXCEPT ![a] = ret]
    /\ UNCHANGED <<retry, legal>>

(* command() is empty, or buildCmd() fails: nothing is sent.               *)
Start(a) ==
    /\ pc[a] = "idle"
    /\ \A b \in After[a] : rc[b] = "OK"
    /\ IF legal[a] = "no" THEN Return(a, "ERR_FAILED")
                          ELSE pc' = [pc EXCEPT ![a] = "send"] /\ UNCHANGED <<rc, retry, legal>>
    /\ UNCHANGED <<resultVars, clusterVars>>

(* One more turn of `while (++retry < retryTimes_)`.                       *)
Sends(a, kind) == Kind[a] = kind /\ pc[a] = "send" /\ retry[a] + 1 < RetryTimes

(* The call failed, or its answer did not pass the check.                  *)
Retry(a) == retry' = [retry EXCEPT ![a] = @ + 1] /\ UNCHANGED <<pc, rc, legal>>

GiveUp(a) ==
    /\ pc[a] = "send"
    /\ Kind[a] # "stable"
    /\ retry[a] + 1 >= RetryTimes
    /\ Return(a, "ERR_FAILED")
    /\ UNCHANGED <<resultVars, clusterVars>>

(* The effect of CREATE ... IF NOT EXISTS.                                 *)
Created ==
    IF space = 0 THEN space' = lastId + 1 /\ lastId' = lastId + 1
                 ELSE UNCHANGED <<space, lastId>>

Create(a) ==
    /\ Sends(a, "create")
    /\ \/ legal[a] = "yes" /\ Created /\ Return(a, "OK")
       \/ legal[a] = "yes" /\ Created /\ Retry(a)
       \/ UNCHANGED <<space, lastId>> /\ Retry(a)
    /\ UNCHANGED <<resultVars, leader, online, balanced, config, changes>>

Drop(a) ==
    /\ Sends(a, "drop")
    /\ \/ space # 0 /\ space' = 0 /\ Return(a, "OK")
       \/ space' \in {0, space} /\ Retry(a)
    /\ UNCHANGED <<resultVars, leader, online, balanced, lastId, config, changes>>

(* DescSpaceAction::checkResp.                                             *)
Desc(a) ==
    /\ Sends(a, "desc")
    /\ \/ space # 0 /\ spaceId' = [spaceId EXCEPT ![a] = space] /\ Return(a, "OK")
       \/ UNCHANGED spaceId /\ Retry(a)
    /\ UNCHANGED <<errMsg, result, shot, clusterVars>>

(* UpdateConfigsAction: a name that buildCmd() does not know is sent as an *)
(* empty one, which graphd refuses.                                        *)
UpdateConfigs(a) ==
    /\ Sends(a, "config")
    /\ \/ legal[a] = "yes" /\ config' = TRUE /\ Return(a, "OK")
       \/ config' \in {config, legal[a] = "yes" \/ config} /\ Retry(a)
    /\ UNCHANGED <<resultVars, leader, online, balanced, space, lastId, changes>>

(* CheckLeadersAction: the number of leaders in the row "Total" is the     *)
(* expected one, then the rows are put into the variable.  An answer in    *)
(* another format fails like a call.                                       *)
CheckLeaders(a) ==
    /\ Sends(a, "leaders")
    /\ \/ /\ Total = Cardinality(Parts)
          /\ Total > 0
          /\ result' = [result EXCEPT ![a] = <<Distribution>>]
          /\ shot' = [shot EXCEPT ![a] = leader]
          /\ Return(a, "OK")
       \/ UNCHANGED <<result, shot>> /\ Retry(a)
    /\ UNCHANGED <<errMsg, spaceId, clusterVars>>

(* ExecutionExpressionAction: the condition compares the variables of all  *)
(* CheckLeadersActions; one that is not set is an error.                   *)
Stable(a) ==
    /\ Kind[a] = "stable"
    /\ pc[a] = "send"
    /\ LET values == {result[b] : b \in Of("leaders")}
       IN Return(a, IF Unset \notin values /\ Cardinality(values) = 1 THEN "OK" ELSE "ERR_FAILED")
    /\ UNCHANGED <<resultVars, clusterVars>>

(* An answer that is no error is taken for the end of balancing.           *)
BalanceDataByCode(a) ==
    /\ Sends(a, "balance")
    /\ \/ balanced /\ errMsg' = [errMsg EXCEPT ![a] = "The cluster is balanced!"]
       \/ errMsg' = [errMsg EXCEPT ![a] = "other"]
       \/ UNCHANGED errMsg
    /\ IF errMsg'[a] # "other" THEN Return(a, "OK") ELSE Retry(a)
    /\ UNCHANGED <<spaceId, result, shot, clusterVars>>

(* BalanceDataAction: what counts is the message, and execute() writes one *)
(* only for an error that graphd answered; a plan to balance is an answer  *)
(* without a message.                                                      *)
BalanceData(a) ==
    /\ Sends(a, "balance")
    /\ \/ balanced /\ errMsg' = [errMsg EXCEPT ![a] = "The cluster is balanced!"]
       \/ errMsg' = [errMsg EXCEPT ![a] = "other"]
       \/ UNCHANGED errMsg
    /\ IF errMsg'[a] = "The cluster is balanced!" THEN Return(a, "OK") ELSE Retry(a)
    /\ UNCHANGED <<spaceId, result, shot, clusterVars>>

DoRun(a) ==
    \/ Start(a) \/ GiveUp(a)
    \/ Create(a) \/ Drop(a) \/ Desc(a) \/ UpdateConfigs(a)
    \/ CheckLeaders(a) \/ Stable(a) \/ BalanceData(a)

(* What is left can never start.                                           *)
AllEnded ==
    /\ \A a \in Actions : pc[a] = "done" \/ (pc[a] = "idle" /\ \E b \in After[a] : rc[b] # "OK")
    /\ UNCHANGED vars

Next ==
    \/ \E a \in Actions : DoRun(a)
    \/ Change
    \/ AllEnded

Spec == Init /\ [][Next]_vars

-----------------------------------------------------------------------------
(***************************************************************************)
(* Properties.                                                             *)
(***************************************************************************)

(* Every variable has its type.                                            *)
TypeOK ==
    /\ pc \in [Actions -> {"idle", "send", "done"}]
    /\ rc \in [Actions -> {"none", "OK", "ERR_FAILED"}]
    /\ retry \in [Actions -> 0 .. RetryTimes]
    /\ legal \in [Actions -> {"yes", "refused", "no"}]
    /\ errMsg \in [Actions -> {"", "other", "The cluster is balanced!"}]
    /\ spaceId \in [Actions -> {-1} \cup 1 .. lastId]
    /\ leader \in [Parts -> online \cup {NoHost}]
    /\ online \in SUBSET Hosts
    /\ balanced \in BOOLEAN
    /\ lastId \in Nat
    /\ space \in 0 .. lastId
    /\ config \in BOOLEAN
    /\ changes \in 0 .. MaxChanges

LeadsAt(s, ip) == Cardinality({p \in Parts : Ip[s[p]] = ip})

(* When the condition "$leaderDis1 == $leaderDis2" holds, every address    *)
(* had as many leaders at the second check as at the first, all partitions *)
(* having one: no host that was gone or came back in between, and no row   *)
(* left out, makes two different distributions look the same.  (Which      *)
(* partitions it leads, or which of the hosts of one address, it does not  *)
(* say.)                                                                   *)
StableMeansSame ==
    \A a \in Of("stable") : rc[a] = "OK" =>
        \A b, c \in Of("leaders"), ip \in {Ip[h] : h \in Hosts} :
            /\ NoHost \notin {shot[b][p] : p \in Parts}
            /\ LeadsAt(shot[b], ip) = LeadsAt(shot[c], ip)

(* An action returns OK only when what it was to do is done, or what it    *)
(* was to find holds, at that moment: no earlier try, stale message or     *)
(* half-taken effect is taken for it.                                      *)
OKMeansDone ==
    [][\A a \in Actions : pc[a] = "send" /\ rc'[a] = "OK" =>
        CASE Kind[a] = "create" -> space' # 0
          [] Kind[a] = "drop" -> space' = 0
          [] Kind[a] = "desc" -> spaceId'[a] = space /\ space # 0
          [] Kind[a] = "config" -> config'
          [] Kind[a] = "balance" -> balanced
          [] Kind[a] = "leaders" -> \A p \in Parts : leader[p] \in online
          [] OTHER -> TRUE]_vars
=============================================================================
