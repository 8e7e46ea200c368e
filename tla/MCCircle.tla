------------------------------ MODULE MCCircle ------------------------------
(* Circle for TLC: a plan that writes the circle while it creates and      *)
(* rebuilds the index, then walks and looks up.                            *)
EXTENDS Circle

MCActions == Kinds
MCKind == [a \in Kinds |-> a]
MCAfter == [write |-> {}, create |-> {}, rebuild |-> {"create"}, check |-> {"rebuild"},
            walk |-> {"write", "check"}, lookup |-> {"write", "walk", "check"}]
=============================================================================
