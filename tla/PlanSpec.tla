------------------------------ MODULE PlanSpec ------------------------------
(***************************************************************************)
(* What a chaos plan promises to whoever writes one, without threads,      *)
(* promises or queues: every action of the plan is either run, after all   *)
(* the actions it depends on have succeeded, or skipped, after one of them *)
(* has failed; and the plan is reported once every action has an outcome.  *)
(***************************************************************************)
CONSTANT Users           \* the actions the author of the plan wrote

VARIABLES
    dependees,           \* dependees[a]: the actions that a depends on
    state,               \* what has become of each action
    reported             \* whether the plan's outcome may be reported

vars == <<dependees, state, reported>>

Finished == {"succeeded", "failed"}

Init ==
    /\ dependees \in [Users -> SUBSET Users]
    /\ state = [a \in Users |-> "waiting"]
    /\ reported = FALSE

Become(a, s) ==
    /\ state' = [state EXCEPT ![a] = s]
    /\ UNCHANGED <<dependees, reported>>

Start(a) ==
    /\ state[a] = "waiting"
    /\ \A d \in dependees[a] : state[d] = "succeeded"
    /\ Become(a, "running")

Finish(a) ==
    /\ state[a] = "running"
    /\ \E s \in Finished : Become(a, s)

Skip(a) ==
    /\ state[a] = "waiting"
    /\ \E d \in dependees[a] : state[d] = "failed"
    /\ \A d \in dependees[a] : state[d] \in Finished
    /\ Become(a, "failed")

Report ==
    /\ ~reported
    /\ \A a \in Users : state[a] \in Finished
    /\ reported' = TRUE
    /\ UNCHANGED <<dependees, state>>

Next ==
    \/ \E a \in Users : Start(a) \/ Finish(a) \/ Skip(a)
    \/ Report

Fairness ==
    /\ \A a \in Users : WF_vars(Start(a) \/ Finish(a) \/ Skip(a))
    /\ WF_vars(Report)

Spec == Init /\ [][Next]_vars /\ Fairness
=============================================================================
