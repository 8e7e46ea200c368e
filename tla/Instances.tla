----------------------------- MODULE Instances ------------------------------
(***************************************************************************)
(* NebulaInstance (nebula/NebulaInstance.cpp): the database processes that *)
(* a plan works on.  The plan knows of an instance what it last wrote into *)
(* state_, and what it reads from the pid file and from "ps".  The commands *)
(* it gives end in "&" (command()): they return at once and take effect at *)
(* any time later.                                                          *)
(*                                                                          *)
(* The process, the service script and the pid file are external: the file *)
(* is written by a process that starts, and stays when it ends.             *)
(***************************************************************************)
EXTENDS Naturals, FiniteSets

CONSTANT Instances

ASSUME InstancesAssumption == IsFiniteSet(Instances)

VARIABLES
    state,        \* state_ of each instance
    proc,         \* its process: never started, down, or up
    pending       \* the commands given and not yet carried out

instanceVars == <<state, proc, pending>>

States == {"UNUSED", "RUNNING", "STOPPED"}

Procs == {"none", "down", "up"}

Commands == {"start", "stop", "kill"}

(* The instances of S have been started by the plan and are up; of the      *)
(* others the plan knows nothing.                                           *)
Started(S) ==
    /\ state = [i \in Instances |-> IF i \in S THEN "RUNNING" ELSE "UNUSED"]
    /\ proc \in [Instances -> Procs]
    /\ \A i \in S : proc[i] = "up"
    /\ pending = [i \in Instances |-> [c \in Commands |-> 0]]

(* A command is given to instance i.                                        *)
Give(i, c) == pending' = [pending EXCEPT ![i][c] = @ + 1]

(* setState(); another action may have decided on something else since the  *)
(* test that led to it.                                                     *)
SetState(i, s) == state' = [state EXCEPT ![i] = s]

(* What the service script makes of the process.  A start may fail, with or *)
(* without a pid file, and does nothing to a running process; a stop asks   *)
(* and may be ignored.                                                      *)
Outcomes(p, c) ==
    CASE c = "start" -> IF p = "up" THEN {p} ELSE {p, "down", "up"}
      [] c = "stop" -> IF p = "up" THEN {p, "down"} ELSE {p}
      [] c = "kill" -> IF p = "up" THEN {"down"} ELSE {p}

CarryOut(i, c) ==
    /\ pending[i][c] > 0
    /\ pending' = [pending EXCEPT ![i][c] = @ - 1]
    /\ \E p \in Outcomes(proc[i], c) : proc' = [proc EXCEPT ![i] = p]
    /\ UNCHANGED state

(* getPid(): the pid in the file, of the process that is up or of one that  *)
(* is gone; none if there is no file or it cannot be read.                  *)
PidRead(i) ==
    CASE proc[i] = "none" -> {"none"}
      [] proc[i] = "down" -> {"none", "dead"}
      [] proc[i] = "up" -> {"none", "live"}

(* The process of i has ended: a pid that was read is now a dead one.       *)
Ends(i) == proc[i] = "up" /\ proc'[i] = "down"

(* CheckProcAction: "ps -p" prints a line for a process that is there.  The *)
(* exit status of ssh is not looked at: a host that cannot be reached looks *)
(* like one without the process.                                            *)
ProcFound(pid) == IF pid = "live" THEN {TRUE, FALSE} ELSE {FALSE}

InstancesTypeOK ==
    /\ state \in [Instances -> States]
    /\ proc \in [Instances -> Procs]
    /\ pending \in [Instances -> [Commands -> Nat]]
=============================================================================
