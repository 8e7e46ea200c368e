---------------------------- MODULE MCChaosPlan -----------------------------
(* ChaosPlan on the instances that MCChaosPlan.cfg and MCRerunMail.cfg give, *)
(* with the inductive invariant of the proofs, each plan loaded from a file. *)
(* The first two items may be loops, of two actions or of an action and      *)
(* another loop; what a loop does is not seen by the plan.                   *)
EXTENDS ChaosPlanProofs, PlanFile, SequencesExt

VARIABLE file

SubPlans ==
    {<<Item(<<1>>), Item(<<>>)>>, <<Item(<<>>), Loop(<<0>>, <<Item(<<>>), Item(<<0>>)>>)>>}

Plain(g) == [a \in Users |-> Item(SetToSortSeq({d - 1 : d \in g[a]}, <))]

Files ==
    {[a \in Users |-> IF a \in loops THEN Loop(Plain(g)[a].depends, sub) ELSE Plain(g)[a]] :
        g \in {h \in [Users -> SUBSET Users] : Acyclic(h)}, sub \in SubPlans, loops \in {{}, {1, 2}}}

MCInit ==
    /\ Init
    /\ file \in Files
    /\ \A a \in Users : dependees[a] = {d \in Users : <<<<d>>, <<a>>>> \in Loaded(file, <<>>)}

MCSpec == MCInit /\ [][Next /\ UNCHANGED file]_<<vars, file>> /\ Fairness

(* "A utils to draw a flow chart of the plan is included" (README.md:10):   *)
(* when an action of the plan runs or has run, so has, to its end, every    *)
(* action from which the chart draws an edge to it.                         *)
ChartTellsOrder ==
    \A a, d \in Users :
        <<NodeOf(file, Main, <<d>>), NodeOf(file, Main, <<a>>)>> \in Edges(file, Main) =>
            (status[a] # "init" => status[d] \in Terminal)

(* The chart draws two actions as one node only when one of them is in a    *)
(* loop inside a loop, in a plan whose lists have at most ten items.        *)
ChartTellsApart ==
    \A p, q \in Places(file, <<>>) :
        p # q /\ NodeOf(file, Main, p) = NodeOf(file, Main, q) => Len(p) > 2 \/ Len(q) > 2
=============================================================================
