------------------------- MODULE GraphClientProofs --------------------------
(***************************************************************************)
(* The invariants of GraphClient, proved for any number of callers, spaces *)
(* and tries.                                                              *)
(***************************************************************************)
EXTENDS GraphClient, TLAPS

(* Whoever is inside connect() or execute() holds the mutex.                *)
LockInv ==
    \A c \in Callers :
        /\ pc[c] \notin {"idle", "waiting"} => lock = c
        /\ pc[c] = "connect" => stmt[c] = "connect"

(* A statement is sent again only while the tries are not used up.          *)
TriesInv ==
    \A c \in Callers :
        /\ pc[c] \in {"waiting", "check"} => retry[c] = 0
        /\ pc[c] = "send" => retry[c] < RetryTimes

Inv == TypeOK /\ LockInv /\ TriesInv /\ SpaceIsAsked /\ AnswerIsTrue

LEMMA InitInv == Init => Inv
BY ClientAssumption DEF Init, Inv, TypeOK, LockInv, TriesInv, SpaceIsAsked, AnswerIsTrue,
    PCs, Answers, Statements

LEMMA TypeStep == TypeOK /\ TriesInv /\ [Next]_vars => TypeOK'
<1> SUFFICES ASSUME TypeOK, TriesInv, [Next]_vars PROVE TypeOK'
    OBVIOUS
<1> USE ClientAssumption DEF TypeOK, PCs, Answers, Statements
<1>1. CASE UNCHANGED vars
    BY <1>1 DEF vars, clientVars, callVars, graphdVars, historyVars
<1>2. ASSUME NEW c \in Callers, NEW s \in Statements, Call(c, s) PROVE TypeOK'
    BY <1>2 DEF Call, clientVars
<1>3. ASSUME NEW c \in Callers, Execute(c) PROVE TypeOK'
    <2>1. CASE Lock(c)
        BY <2>1 DEF Lock, graphdVars, historyVars
    <2>2. CASE Connect(c)
        BY <2>2 DEF Connect, Answer, historyVars
    <2>3. CASE Check(c)
        BY <2>3 DEF Check, Goto, Answer, RetryConnectSucceeds, RetryConnectFails, historyVars
    <2>4. CASE SendSucceeds(c)
        BY <2>4 DEF SendSucceeds, TakesEffect, Answer
    <2>5. CASE SendRefused(c)
        BY <2>5 DEF SendRefused, Answer, clientVars, graphdVars, historyVars
    <2>6. CASE SendFails(c)
        <3>1. retry'[c] = retry[c] + 1 /\ retry'[c] \in 0..RetryTimes
            BY <2>6 DEF SendFails, TriesInv
        <3>2. retry' \in [Callers -> 0..RetryTimes]
            BY <2>6, <3>1 DEF SendFails
        <3>3. space' \in Spaces \cup {NoSpace} /\ effects' \in [Callers -> SUBSET Spaces]
            BY <2>6 DEF SendFails, TakesEffect, graphdVars
        <3>4. asked' \in SUBSET Spaces
            BY <2>6 DEF SendFails
        <3> QED BY <2>6, <3>2, <3>3, <3>4 DEF SendFails, Goto, clientVars
    <2>7. CASE Reconnect(c)
        BY <2>7 DEF Reconnect, Goto, Answer, RetryConnectSucceeds, RetryConnectFails, historyVars
    <2>8. CASE Restore(c)
        BY <2>8 DEF Restore, Answer, clientVars, historyVars
    <2>9. CASE Return(c)
        BY <2>9 DEF Return, graphdVars, historyVars
    <2> QED BY <1>3, <2>1, <2>2, <2>3, <2>4, <2>5, <2>6, <2>7, <2>8, <2>9 DEF Execute
<1> QED BY <1>1, <1>2, <1>3 DEF Next, AllAnswered

LEMMA LockStep == TypeOK /\ LockInv /\ TriesInv /\ [Next]_vars => LockInv' /\ TriesInv'
<1> SUFFICES ASSUME TypeOK, LockInv, TriesInv, [Next]_vars PROVE LockInv' /\ TriesInv'
    OBVIOUS
<1> USE ClientAssumption DEF TypeOK, LockInv, TriesInv
<1>1. CASE UNCHANGED vars
    BY <1>1 DEF vars, clientVars, callVars, graphdVars, historyVars
<1>2. ASSUME NEW c \in Callers, NEW s \in Statements, Call(c, s) PROVE LockInv' /\ TriesInv'
    BY <1>2 DEF Call, clientVars
<1>3. ASSUME NEW c \in Callers, Execute(c) PROVE LockInv' /\ TriesInv'
    <2>1. CASE Lock(c)
        BY <2>1 DEF Lock, graphdVars, historyVars
    <2>2. CASE Connect(c)
        BY <2>2 DEF Connect, Answer, historyVars
    <2>3. CASE Check(c)
        BY <2>3 DEF Check, Goto, Answer, historyVars
    <2>4. CASE SendSucceeds(c)
        BY <2>4 DEF SendSucceeds, Answer
    <2>5. CASE SendRefused(c)
        BY <2>5 DEF SendRefused, Answer, clientVars, graphdVars, historyVars
    <2>6. CASE SendFails(c)
        <3>1. retry'[c] < RetryTimes => pc'[c] = "send"
            BY <2>6 DEF SendFails, Goto
        <3>2. pc'[c] \in {"send", "reconnect"} /\ (pc'[c] = "send" => retry'[c] < RetryTimes)
            BY <2>6 DEF SendFails, Goto
        <3>3. \A d \in Callers \ {c} : pc'[d] = pc[d] /\ retry'[d] = retry[d]
            BY <2>6 DEF SendFails, Goto
        <3>4. lock' = lock /\ lock = c
            BY <2>6 DEF SendFails, clientVars
        <3> QED BY <3>2, <3>3, <3>4
    <2>7. CASE Reconnect(c)
        BY <2>7 DEF Reconnect, Goto, Answer, historyVars
    <2>8. CASE Restore(c)
        BY <2>8 DEF Restore, Answer, clientVars, historyVars
    <2>9. CASE Return(c)
        BY <2>9 DEF Return, graphdVars, historyVars
    <2> QED BY <1>3, <2>1, <2>2, <2>3, <2>4, <2>5, <2>6, <2>7, <2>8, <2>9 DEF Execute
<1> QED BY <1>1, <1>2, <1>3 DEF Next, AllAnswered

(* The space of the session comes from a "USE" that was sent, or from       *)
(* spaceName_, which comes from an answer that named the session's space.   *)
LEMMA SpaceStep == Inv /\ [Next]_vars => SpaceIsAsked'
<1> SUFFICES ASSUME Inv, [Next]_vars PROVE SpaceIsAsked'
    OBVIOUS
<1> USE ClientAssumption DEF Inv, TypeOK, SpaceIsAsked, Statements
<1>1. CASE UNCHANGED vars
    BY <1>1 DEF vars, clientVars, callVars, graphdVars, historyVars
<1>2. ASSUME NEW c \in Callers, NEW s \in Statements, Call(c, s) PROVE SpaceIsAsked'
    BY <1>2 DEF Call, clientVars
<1>3. ASSUME NEW c \in Callers, Execute(c) PROVE SpaceIsAsked'
    <2>1. CASE Lock(c) \/ Return(c)
        BY <2>1 DEF Lock, Return, graphdVars, historyVars
    <2>2. CASE Connect(c) \/ Check(c) \/ Reconnect(c)
        BY <2>2 DEF Connect, Check, Reconnect, RetryConnectSucceeds, RetryConnectFails,
            historyVars
    <2>3. CASE SendSucceeds(c)
        BY <2>3 DEF SendSucceeds, TakesEffect
    <2>4. CASE SendRefused(c)
        BY <2>4 DEF SendRefused, clientVars, graphdVars, historyVars
    <2>5. CASE SendFails(c)
        BY <2>5 DEF SendFails, TakesEffect, clientVars, graphdVars
    <2>6. CASE Restore(c)
        BY <2>6 DEF Restore, clientVars, historyVars
    <2> QED BY <1>3, <2>1, <2>2, <2>3, <2>4, <2>5, <2>6 DEF Execute
<1> QED BY <1>1, <1>2, <1>3 DEF Next, AllAnswered

(* While a caller returns it holds the mutex: no one else can touch the     *)
(* session, the space or what its call has done.                            *)
LEMMA AnswerStep == Inv /\ [Next]_vars => AnswerIsTrue'
<1> SUFFICES ASSUME Inv, [Next]_vars PROVE AnswerIsTrue'
    OBVIOUS
<1> USE ClientAssumption DEF Inv, TypeOK, AnswerIsTrue, Statements
<1>1. CASE UNCHANGED vars
    BY <1>1 DEF vars, clientVars, callVars, graphdVars, historyVars
<1>2. ASSUME NEW c \in Callers, NEW s \in Statements, Call(c, s) PROVE AnswerIsTrue'
    BY <1>2 DEF Call, clientVars
<1>3. ASSUME NEW c \in Callers, Execute(c) PROVE AnswerIsTrue'
    <2>1. CASE Lock(c)
        BY <2>1 DEF Lock, graphdVars, historyVars
    <2>2. ASSUME ~Lock(c)
          PROVE  \A d \in Callers \ {c} : pc'[d] = pc[d] /\ pc[d] # "return"
        BY <1>3, <2>2 DEF LockInv, Execute, Connect, Check, SendSucceeds, SendRefused,
            SendFails, Reconnect, Restore, Return, Goto, Answer
    <2>3. CASE Connect(c)
        <3>1. stmt' = stmt /\ \A d \in Callers \ {c} : pc'[d] = pc[d] /\ pc[d] # "return"
            BY <2>2, <2>3 DEF Connect, Lock
        <3>2. stmt[c] \notin Spaces /\ stmt[c] # "write"
            BY <2>3 DEF Connect, LockInv
        <3> QED BY <3>1, <3>2
    <2>4. CASE Check(c) \/ Reconnect(c) \/ Restore(c)
        BY <2>2, <2>4 DEF Check, Reconnect, Restore, Lock, Goto, Answer
    <2>5. CASE SendSucceeds(c)
        <3>1. stmt' = stmt /\ pc[c] = "send" /\ \A d \in Callers \ {c} : pc'[d] = pc[d]
            BY <2>5 DEF SendSucceeds, Answer
        <3>2. \A d \in Callers \ {c} : pc[d] # "return"
            BY <3>1 DEF LockInv
        <3>3. stmt[c] \in Spaces => space' = stmt[c] /\ spaceName' = stmt[c]
            BY <2>5 DEF SendSucceeds, TakesEffect
        <3>4. stmt[c] = "write" => effects'[c] # {}
            BY <2>5 DEF SendSucceeds, TakesEffect
        <3> QED BY <3>1, <3>2, <3>3, <3>4
    <2>6. CASE SendRefused(c) \/ SendFails(c)
        BY <2>2, <2>6 DEF SendRefused, SendFails, Lock, Goto, Answer
    <2>7. CASE Return(c)
        BY <2>2, <2>7 DEF Return, Lock
    <2> QED BY <1>3, <2>1, <2>3, <2>4, <2>5, <2>6, <2>7 DEF Execute
<1> QED BY <1>1, <1>2, <1>3 DEF Next, AllAnswered

(* The inductive invariant holds in every state.                            *)
THEOREM Invariance == Spec => []Inv
<1>1. Inv /\ [Next]_vars => Inv'
    BY TypeStep, LockStep, SpaceStep, AnswerStep DEF Inv
<1> QED BY InitInv, <1>1, PTL DEF Spec

(* Type correctness, with the bound on the number of tries.                 *)
THEOREM TypeCorrect == Spec => []TypeOK
BY Invariance, PTL DEF Inv

(* No statement ever meets a space that nobody asked for, however the calls *)
(* and reconnections of the callers fail.                                   *)
THEOREM SpacesAreAsked == Spec => []SpaceIsAsked
BY Invariance, PTL DEF Inv

(* SUCCEEDED is never an answer to a statement that did not take effect.    *)
THEOREM AnswersAreTrue == Spec => []AnswerIsTrue
BY Invariance, PTL DEF Inv
=============================================================================
