------------------------------ MODULE PlanFile ------------------------------
(***************************************************************************)
(* A plan file, what NebulaChaosPlan::loadActionFromFile() makes of it     *)
(* (nebula/NebulaChaosPlan.cpp, nebula/NebulaUtils.h), and the flow chart  *)
(* that tools/FlowChart.py draws of it.                                    *)
(*                                                                         *)
(* A file is a sequence of items [loop, depends, sub_plan]: whether it is  *)
(* a LoopAction, the items of its own list it depends on, as numbers from  *)
(* 0, and the items inside it.  Names, parameters and labels are left out; *)
(* an index outside the list is the undefined actions[i] of the loader.    *)
(***************************************************************************)
EXTENDS Integers, Sequences

Item(depends) == [loop |-> FALSE, depends |-> depends, sub_plan |-> <<>>]

Loop(depends, sub) == [loop |-> TRUE, depends |-> depends, sub_plan |-> sub]

SeqRange(s) == {s[n] : n \in DOMAIN s}

(* An action of the plan is named by its place: the positions, from 1, of   *)
(* the loops around it and its own.  All actions of a list of items:        *)
RECURSIVE Places(_, _)
Places(items, place) ==
    UNION {{Append(place, n)} \cup Places(items[n].sub_plan, Append(place, n)) : n \in DOMAIN items}

AddDependency(index, i, place) == <<Append(place, index), Append(place, i + 1)>>

(* actions[index]->addDependee(actions[i]): the pair of a dependee and its  *)
(* depender, from the index-th item and a number in its depends.            *)
AddDependee(index, i, place) == <<Append(place, i + 1), Append(place, index)>>

(* loadAction() loads the items of a sub plan in the same way.              *)
RECURSIVE Loaded(_, _)
Loaded(items, place) ==
    UNION {{AddDependee(n, i, place) : i \in SeqRange(items[n].depends)}
           \cup Loaded(items[n].sub_plan, Append(place, n)) : n \in DOMAIN items}

-----------------------------------------------------------------------------
(* FlowChart.py.                                                            *)

(* str(i), as a sequence of digits.                                         *)
RECURSIVE Str(_)
Str(i) == IF i < 10 THEN <<i>> ELSE Append(Str(i \div 10), i % 10)

SubPrefixSame(prefix, n) == prefix

(* parseActions(sub, ..., str(i)): the prefix of the list is not kept.      *)
SubPrefix(prefix, n) == Str(n - 1)

(* The node of each action: graph.node(prefix + str(i), label).             *)
RECURSIVE NodeOf(_, _, _)
NodeOf(items, prefix, place) ==
    IF Len(place) = 1 THEN prefix \o Str(place[1] - 1)
    ELSE NodeOf(items[place[1]].sub_plan, SubPrefix(prefix, place[1]), Tail(place))

(* graph.edge(prefix + str(depend), prefix + str(i)).                       *)
RECURSIVE Edges(_, _)
Edges(items, prefix) ==
    UNION {{<<prefix \o Str(i), prefix \o Str(n - 1)>> : i \in SeqRange(items[n].depends)}
           \cup Edges(items[n].sub_plan, SubPrefix(prefix, n)) : n \in DOMAIN items}

(* The prefix "main", as a digit that is none.                              *)
Main == <<-1>>
=============================================================================
