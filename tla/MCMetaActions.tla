--------------------------- MODULE MCMetaActions ---------------------------
(* MetaActions and DataFiles for TLC, one of two plans: the repository's    *)
(* check_leader_stability_in_compaction with its space, two checks of the   *)
(* leaders and their comparison, and balance data before them, on three     *)
(* hosts two of which share an address; or two actions on files, in any     *)
(* order, on two instances, while the space may be dropped.                 *)
EXTENDS DataFiles, TLC

MCActions == {"create", "desc", "config", "leaders1", "leaders2", "stable", "balance", "drop",
              "createForFiles", "descCut", "descClean", "dropEarly"}
MCKind == [create |-> "create", desc |-> "desc", config |-> "config", leaders1 |-> "leaders",
           leaders2 |-> "leaders", stable |-> "stable", balance |-> "balance", drop |-> "drop",
           createForFiles |-> "create", descCut |-> "desc", descClean |-> "desc", dropEarly |-> "drop"]
MCAfter == [create |-> {}, desc |-> {"create"}, balance |-> {"desc"}, config |-> {"balance"},
            leaders1 |-> {"config"}, leaders2 |-> {"leaders1"},
            stable |-> {"leaders2"}, drop |-> {"stable"},
            createForFiles |-> {}, descCut |-> {"createForFiles"}, descClean |-> {"createForFiles"},
            dropEarly |-> {"createForFiles"}]
MCSymmetry == Permutations(Parts)
MCIp == <<"a", "a", "b">>

MCFileActions == {"cut", "cleanWal", "cleanCheckpoint", "restore", "copy"}
MCClass == [cut |-> "TruncateWal", cleanWal |-> "CleanWal", cleanCheckpoint |-> "CleanCheckpoint",
            restore |-> "RestoreFromCheckpoint", copy |-> "RestoreFromDataDir"]
MCDescOf == [cut |-> "descCut", cleanWal |-> "descClean"]
MCFilesAfter == {"createForFiles"}

(* Of one of the plans the first statement is refused, and it is at rest.   *)
LeaderPlan ==
    /\ legal["createForFiles"] = "no"
    /\ \A i \in Insts : state[i] = "STOPPED" /\ ~up[i]
    /\ \A d \in Dirs : dir[d].wal = Gone /\ dir[d].snaps = NoDir

FilePlan ==
    /\ legal["createForFiles"] = "yes" /\ legal["create"] = "no" /\ legal["config"] = "no"
    /\ balanced
    /\ \A p \in Parts : leader[p] = NoHost
    /\ \/ \E p \in Paths : \A d \in Dirs : dir[d].snaps = NoDir /\ (d[2] # p => dir[d].wal = MaxInt32)
       \/ \A d \in Dirs : dir[d].wal = 1

MCInit == Init /\ FilesInit /\ (LeaderPlan \/ FilePlan)

(* The refused statements come first; in the plan with files the cluster    *)
(* does nothing by itself, and only a DescSpaceAction sends twice.          *)
MCNext ==
    /\ PlanNext
    /\ LET refused == {a \in {"create", "createForFiles"} : legal[a] = "no" /\ pc[a] = "idle"}
       IN refused # {} => \E a \in refused : pc'[a] = "done"
    /\ IF legal["createForFiles"] = "no" THEN UNCHANGED fileVars
       ELSE changes' = changes /\ \A a \in {"createForFiles", "dropEarly"} : retry'[a] = 0

MCSpec == MCInit /\ [][MCNext]_allVars
=============================================================================
