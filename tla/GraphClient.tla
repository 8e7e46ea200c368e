---------------------------- MODULE GraphClient -----------------------------
(***************************************************************************)
(* GraphClient (nebula/client/GraphClient.cpp): the actions of a plan      *)
(* share one session with graphd behind the mutex sessionLk_.  execute()   *)
(* sends a statement again when the call fails, reconnects when it failed  *)
(* too often, and then goes back to the space that was last in use.        *)
(*                                                                         *)
(* graphd and its client library are external: a session has a current     *)
(* space, which only "USE" sets; a new session has none; a call that fails *)
(* may or may not have taken effect.                                       *)
(***************************************************************************)
EXTENDS Integers, FiniteSets

CONSTANTS
    Callers,         \* the actions that share the client
    Spaces,          \* the names of the spaces
    NoSpace,         \* the empty name
    NoCaller,
    RetryTimes,      \* kRetryTimes
    MaxCalls         \* bound: how many calls are made in a behaviour

ASSUME ClientAssumption ==
    /\ NoSpace \notin Spaces \cup {"write", "show", "connect"}
    /\ Spaces \cap {"write", "show", "connect"} = {}
    /\ NoCaller \notin Callers
    /\ RetryTimes \in Nat \ {0}
    /\ MaxCalls \in Nat

(* "USE s" is written s; "write" needs a current space, "show" does not.    *)
(* The call of connect() is taken with them.                                *)
Statements == Spaces \cup {"write", "show", "connect"}

VARIABLES
    session,         \* session_: null, or whether it is valid()
    spaceName,       \* spaceName_
    lock,            \* who holds sessionLk_
    pc,              \* where each caller stands
    stmt,            \* the argument of its call
    retry,           \* how often execute() has sent it
    answer,          \* what its last call returned
    space,           \* graphd: the current space of the session
    effects,         \* graphd: the spaces in which the call's "write" took effect
    asked,           \* the spaces that may be current, as the callers know it
    calls

clientVars == <<session, spaceName, lock>>
callVars == <<pc, stmt, retry, answer>>
graphdVars == <<space, effects>>
historyVars == <<asked, calls>>
vars == <<clientVars, callVars, graphdVars, historyVars>>

PCs == {"idle", "waiting", "connect", "check", "send", "reconnect", "restore", "return"}

Answers == {"none", "SUCCEEDED", "E_RPC_FAILURE", "E_DISCONNECTED", "other"}

Init ==
    /\ session = "null"
    /\ spaceName = NoSpace
    /\ lock = NoCaller
    /\ pc = [c \in Callers |-> "idle"]
    /\ stmt = [c \in Callers |-> "show"]
    /\ retry = [c \in Callers |-> 0]
    /\ answer = [c \in Callers |-> "none"]
    /\ space = NoSpace
    /\ effects = [c \in Callers |-> {}]
    /\ asked = {}
    /\ calls = 0

-----------------------------------------------------------------------------
(* An action of the plan makes a call; all but ClientConnectAction depend   *)
(* on a connect() that succeeded.                                           *)
Call(c, s) ==
    /\ pc[c] = "idle"
    /\ calls < MaxCalls
    /\ s = "connect" \/ session # "null"
    /\ calls' = calls + 1
    /\ pc' = [pc EXCEPT ![c] = "waiting"]
    /\ stmt' = [stmt EXCEPT ![c] = s]
    /\ retry' = [retry EXCEPT ![c] = 0]
    /\ answer' = [answer EXCEPT ![c] = "none"]
    /\ effects' = [effects EXCEPT ![c] = {}]
    /\ UNCHANGED <<clientVars, space, asked>>

Lock(c) ==
    /\ pc[c] = "waiting"
    /\ lock = NoCaller
    /\ lock' = c
    /\ pc' = [pc EXCEPT ![c] = IF stmt[c] = "connect" THEN "connect" ELSE "check"]
    /\ UNCHANGED <<session, spaceName, stmt, retry, answer, graphdVars, historyVars>>

Goto(c, l) ==
    /\ pc' = [pc EXCEPT ![c] = l]
    /\ UNCHANGED answer

Answer(c, r) ==
    /\ pc' = [pc EXCEPT ![c] = "return"]
    /\ answer' = [answer EXCEPT ![c] = r]

(* connect(): a session that cannot be had leaves the old one in place.     *)
Connect(c) ==
    /\ pc[c] = "connect"
    /\ \/ /\ session' = "valid"
          /\ space' = NoSpace
          /\ Answer(c, "SUCCEEDED")
       \/ /\ Answer(c, "E_RPC_FAILURE")
          /\ UNCHANGED <<session, space>>
    /\ UNCHANGED <<spaceName, lock, stmt, retry, effects, historyVars>>

(* session_->retryConnect(): a new session, or a failure that may leave the *)
(* old one valid.                                                           *)
RetryConnectSucceeds ==
    /\ session' = "valid"
    /\ space' = NoSpace

RetryConnectFails ==
    \/ UNCHANGED <<session, space>>
    \/ /\ session' = "invalid"
       /\ space' = NoSpace

Check(c) ==
    /\ pc[c] = "check"
    /\ \/ /\ session = "valid"
          /\ Goto(c, "send")
          /\ UNCHANGED <<session, space>>
       \/ /\ session = "invalid"
          /\ \/ RetryConnectSucceeds /\ Goto(c, "send")
             \/ RetryConnectFails /\ Answer(c, "E_DISCONNECTED")
    /\ UNCHANGED <<spaceName, lock, stmt, retry, effects, historyVars>>

(* graphd executes the statement.                                           *)
TakesEffect(c) ==
    /\ stmt[c] = "write" => space # NoSpace
    /\ space' = IF stmt[c] \in Spaces THEN stmt[c] ELSE space
    /\ effects' = IF stmt[c] = "write"
                  THEN [effects EXCEPT ![c] = @ \cup {space}] ELSE effects

(* Variants of an operator, named for what they get wrong, stand before it. *)

SendSucceedsSavedOnce(c) ==
    /\ pc[c] = "send"
    /\ TakesEffect(c)
    /\ spaceName' = IF spaceName = NoSpace THEN space' ELSE spaceName
    /\ asked' = IF stmt[c] \in Spaces THEN {stmt[c]} ELSE asked
    /\ Answer(c, "SUCCEEDED")
    /\ UNCHANGED <<session, lock, stmt, retry, calls>>

(* The response names the session's current space, and need not if there is *)
(* none.                                                                    *)
SendSucceeds(c) ==
    /\ pc[c] = "send"
    /\ TakesEffect(c)
    /\ spaceName' \in IF space' # NoSpace THEN {space'} ELSE {spaceName, NoSpace}
    /\ asked' = IF stmt[c] \in Spaces THEN {stmt[c]} ELSE asked
    /\ Answer(c, "SUCCEEDED")
    /\ UNCHANGED <<session, lock, stmt, retry, calls>>

(* graphd refuses the statement.                                            *)
SendRefused(c) ==
    /\ pc[c] = "send"
    /\ Answer(c, "other")
    /\ UNCHANGED <<clientVars, stmt, retry, graphdVars, historyVars>>

(* E_RPC_FAILURE, whether or not graphd has executed the statement.         *)
SendFails(c) ==
    /\ pc[c] = "send"
    /\ \/ TakesEffect(c)
       \/ UNCHANGED graphdVars
    /\ asked' = IF stmt[c] \in Spaces THEN asked \cup {stmt[c]} ELSE asked
    /\ retry' = [retry EXCEPT ![c] = @ + 1]
    /\ Goto(c, IF retry'[c] < RetryTimes THEN "send" ELSE "reconnect")
    /\ UNCHANGED <<clientVars, stmt, calls>>

Reconnect(c) ==
    /\ pc[c] = "reconnect"
    /\ \/ /\ RetryConnectSucceeds
          /\ IF spaceName # NoSpace THEN Goto(c, "restore") ELSE Answer(c, "E_RPC_FAILURE")
       \/ /\ RetryConnectFails
          /\ Answer(c, "E_DISCONNECTED")
    /\ UNCHANGED <<spaceName, lock, stmt, retry, effects, historyVars>>

RestoreAsSuccess(c) ==
    /\ pc[c] = "restore"
    /\ space' \in {space, spaceName}
    /\ Answer(c, "SUCCEEDED")
    /\ UNCHANGED <<clientVars, stmt, retry, effects, historyVars>>

(* "USE spaceName_": when it fails that is only logged.                     *)
Restore(c) ==
    /\ pc[c] = "restore"
    /\ space' \in {space, spaceName}
    /\ Answer(c, "E_RPC_FAILURE")
    /\ UNCHANGED <<clientVars, stmt, retry, effects, historyVars>>

ReturnWithoutUnlock(c) ==
    /\ pc[c] = "return"
    /\ pc' = [pc EXCEPT ![c] = "idle"]
    /\ UNCHANGED <<clientVars, stmt, retry, answer, graphdVars, historyVars>>

Return(c) ==
    /\ pc[c] = "return"
    /\ lock' = NoCaller
    /\ pc' = [pc EXCEPT ![c] = "idle"]
    /\ UNCHANGED <<session, spaceName, stmt, retry, answer, graphdVars, historyVars>>

-----------------------------------------------------------------------------
Execute(c) ==
    \/ Lock(c) \/ Connect(c) \/ Check(c)
    \/ SendSucceeds(c) \/ SendRefused(c) \/ SendFails(c)
    \/ Reconnect(c) \/ Restore(c) \/ Return(c)

(* All the calls of this behaviour have been made and answered.             *)
AllAnswered ==
    /\ calls = MaxCalls
    /\ \A c \in Callers : pc[c] = "idle"
    /\ UNCHANGED vars

Next ==
    \/ \E c \in Callers : Execute(c) \/ \E s \in Statements : Call(c, s)
    \/ AllAnswered

(* Every thread is run, and a call of the library returns.                  *)
Fairness == \A c \in Callers : WF_vars(Execute(c))

Spec == Init /\ [][Next]_vars /\ Fairness

-----------------------------------------------------------------------------
(* Type correctness of the client's state.                                  *)
TypeOK ==
    /\ session \in {"null", "valid", "invalid"}
    /\ spaceName \in Spaces \cup {NoSpace}
    /\ lock \in Callers \cup {NoCaller}
    /\ pc \in [Callers -> PCs]
    /\ stmt \in [Callers -> Statements]
    /\ retry \in [Callers -> 0..RetryTimes]
    /\ answer \in [Callers -> Answers]
    /\ space \in Spaces \cup {NoSpace}
    /\ effects \in [Callers -> SUBSET Spaces]
    /\ asked \in SUBSET Spaces
    /\ calls \in 0..MaxCalls

(* A statement can only meet a space that was asked for: the one that the   *)
(* last acknowledged "USE" named, or that of a later "USE" whose answer was *)
(* lost.  So it is after any number of failed calls and reconnections, and  *)
(* for what a reconnection is going to restore.                             *)
SpaceIsAsked == {space, spaceName} \subseteq asked \cup {NoSpace}

(* execute() answers SUCCEEDED only for a statement that took effect in     *)
(* this very call, a "write" in one of the spaces asked for, and not for    *)
(* one that it had to give up before it reconnected.                        *)
AnswerIsTrue ==
    \A c \in Callers :
        pc[c] = "return" /\ answer[c] = "SUCCEEDED" =>
            /\ stmt[c] \in Spaces => space = stmt[c] /\ spaceName = stmt[c]
            /\ stmt[c] = "write" => effects[c] # {}

(* Each call is answered, however often graphd fails it and whoever else    *)
(* waits for the mutex.                                                     *)
EveryCallReturns == \A c \in Callers : pc[c] = "waiting" ~> pc[c] = "idle"

(* "Save the current space name to use when reconnecting"                   *)
(* (GraphClient.h:50): a "write" that is sent right after execute() has     *)
(* reconnected is sent in that space.                                       *)
SpaceUsedWhenReconnecting ==
    [][\A c \in Callers :
        stmt[c] = "write" /\ pc[c] = "check" /\ session = "invalid" /\ pc'[c] = "send"
            => space' = spaceName]_vars
=============================================================================
