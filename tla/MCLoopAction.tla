---------------------------- MODULE MCLoopAction ----------------------------
(* LoopAction on the instances of MCLoop.cfg, MCLoopCheck.cfg and           *)
(* MCLoopForward.cfg: how many iterations there are in one run, or in two.  *)
EXTENDS LoopAction, Sequences

MCThree == <<3>>
MCTwo == <<2>>
MCThreeThenTwo == <<3, 2>>
=============================================================================
