----------------------------- MODULE DataFiles ------------------------------
(***************************************************************************)
(* The actions that work on the files of the storage hosts                 *)
(* (nebula/NebulaAction.cpp): CleanWal, TruncateWal, CleanCheckpoint,      *)
(* RestoreFromCheckpoint and RestoreFromDataDir.  Each gives one shell     *)
(* command after another over ssh; a command that fails, having done its   *)
(* work or not, is a CHECK that ends the tool.  CleanWal and TruncateWal   *)
(* first run a DescSpaceAction of their own, which is one of MetaActions:  *)
(* the two modules together are a plan of both kinds of actions.           *)
(*                                                                         *)
(* A directory of an instance is that of a space under a data path: its    *)
(* data, as a version number, the size of its newest wal, and its          *)
(* snapshots under "checkpoints", oldest first.  The database is external: *)
(* its processes write and make snapshots, and other actions start and     *)
(* stop them at any time.  Two actions on the files of one instance are    *)
(* ordered by the plan, as in all plans of conf/, and two on different     *)
(* ones have nothing in common: one of them runs at a time.                *)
(***************************************************************************)
EXTENDS MetaActions

CONSTANTS
    FileActions,     \* the actions on files
    Class,           \* their classes
    DescOf,          \* the DescSpaceAction of those that make one
    FilesAfter,      \* the other actions that all of them depend on
    Insts,           \* the instances, storages_ of TruncateWalAction
    Inst,            \* inst_ of the other actions
    PathNum,         \* the number of paths in the instances' data_path
    Spaces,          \* the ids of the spaces that have directories
    Count, Bytes,    \* count_ and bytes_ of TruncateWalAction
    MaxInt32,        \* the largest int32_t
    MaxFileActions,  \* bound: how many of the actions a plan has
    MaxTurns         \* bound: how often the processes do something

Classes == {"CleanWal", "TruncateWal", "CleanCheckpoint", "RestoreFromCheckpoint", "RestoreFromDataDir"}

(* What a TruncateWalAction with a larger count_ does is undefined.         *)
ASSUME FilesAssumption ==
    /\ Class \in [FileActions -> Classes]
    /\ \A f \in DOMAIN DescOf : DescOf[f] \in Of("desc")
    /\ FilesAfter \subseteq Actions
    /\ {f \in FileActions : Class[f] \in {"CleanWal", "TruncateWal"}} \subseteq DOMAIN DescOf
    /\ IsFiniteSet(Insts) /\ Inst \in Insts
    /\ PathNum \in Nat \ {0}
    /\ IsFiniteSet(Spaces) /\ Spaces \subseteq Nat
    /\ Count \in 0 .. Cardinality(Insts)
    /\ Bytes \in Nat /\ MaxInt32 \in Nat
    /\ MaxFileActions \in Nat /\ MaxTurns \in Nat

VARIABLES
    state, up,       \* state_ of each instance, and whether its process runs
    dir,             \* the directories
    fpc, frc,        \* where each action on files stands, what it returned
    todo,            \* the directories it has still to treat
    size,            \* TruncateWalAction: what ls said
    aborted,         \* whether a CHECK has ended the tool
    turns,
    before, awake    \* history: the directories when the last action began,
                     \* and the instances whose process ran since

fileVars == <<state, up, dir, fpc, frc, todo, size, aborted, turns, before, awake>>
allVars == <<vars, fileVars>>

Paths == 1 .. PathNum

Dirs == Insts \X Paths \X Spaces

Gone == -1

(* No directory of the name "checkpoints", which is not an empty one.       *)
NoDir == <<[data |-> Gone, wal |-> Gone]>>

(* What a RestoreFromDataDirAction copies.                                  *)
Source == [data |-> 9, wal |-> 0]

InitialWals == {Gone, 1, MaxInt32, MaxInt32 + 1}

InitialSnaps == {NoDir, <<>>, <<[data |-> 1, wal |-> 0], [data |-> 2, wal |-> 1]>>}

FilesInit ==
    /\ \E s \in {"RUNNING", "STOPPED"}, u \in BOOLEAN :
          state = [i \in Insts |-> s] /\ up = [i \in Insts |-> u]
    /\ \E wal \in [Paths -> InitialWals], snaps \in [Paths -> InitialSnaps] :
          dir = [d \in Dirs |-> [data |-> 3, wal |-> wal[d[2]], snaps |-> snaps[d[2]]]]
    /\ fpc = [f \in FileActions |-> "idle"]
    /\ frc = [f \in FileActions |-> "none"]
    /\ todo = <<>>
    /\ size = 0
    /\ aborted = FALSE
    /\ turns = 0
    /\ before = dir
    /\ awake = {}

-----------------------------------------------------------------------------
(* The database.                                                            *)

(* The directories, with another content of one but for its snapshots.      *)
Holding(d, data, wal) == [dir EXCEPT ![d] = [data |-> data, wal |-> wal, snaps |-> @.snaps]]

Write(i) ==
    /\ up[i]
    /\ \E p \in Paths, s \in Spaces : LET d == <<i, p, s>> IN
          /\ dir[d].data # Gone
          /\ dir' = Holding(d, 4, IF dir[d].wal = Gone THEN 1 ELSE dir[d].wal + 1)
    /\ UNCHANGED <<state, up>>

Snapshot(i) ==
    /\ up[i]
    /\ \A d \in Dirs : d[1] = i => dir[d].data # Gone
    /\ dir' = [d \in Dirs |->
          IF d[1] # i THEN dir[d]
          ELSE [dir[d] EXCEPT !.snaps =
                  Append(IF @ = NoDir THEN <<>> ELSE @, [data |-> dir[d].data, wal |-> dir[d].wal])]]
    /\ UNCHANGED <<state, up>>

StartedOrStopped(i) ==
    /\ up' = [up EXCEPT ![i] = ~@]
    /\ \E s \in {state[i], IF up[i] THEN "STOPPED" ELSE "RUNNING"} : state' = [state EXCEPT ![i] = s]
    /\ UNCHANGED dir

Turn ==
    /\ turns < MaxTurns
    /\ turns' = turns + 1
    /\ \E i \in Insts : Write(i) \/ Snapshot(i) \/ StartedOrStopped(i)
    /\ awake' = awake \cup {i \in Insts : up'[i]}
    /\ UNCHANGED <<fpc, frc, todo, size, aborted, before>>

-----------------------------------------------------------------------------
(* Commands.                                                                *)

Goto(f, step, dirs) ==
    /\ fpc' = [fpc EXCEPT ![f] = step]
    /\ todo' = dirs
    /\ UNCHANGED frc

FileReturn(f, ret) ==
    /\ fpc' = [fpc EXCEPT ![f] = "done"]
    /\ frc' = [frc EXCEPT ![f] = ret]
    /\ todo' = <<>>

Abort(f) ==
    /\ aborted' = TRUE
    /\ FileReturn(f, "none")

(* On to the next directory, or the end.                                    *)
NextDir(f, step) ==
    IF Len(todo) = 1 THEN FileReturn(f, "OK") ELSE Goto(f, step, Tail(todo))

(* Variants of an operator, named for what they get wrong, stand before it: *)
(* they are what the properties below tell the code apart from.             *)
GivesUnchecked(f, new, then) ==
    /\ dir' \in {dir, new}
    /\ then /\ UNCHANGED aborted
    /\ UNCHANGED size

(* A command that makes the directories `new`; then CHECK_EQ(0, ...).       *)
Gives(f, new, then) ==
    /\ \/ dir' = new /\ then /\ UNCHANGED aborted
       \/ dir' \in {dir, new} /\ Abort(f)
    /\ UNCHANGED size

(* A command that changes no file.                                          *)
Asks(f, then) ==
    /\ (then /\ UNCHANGED aborted) \/ (Abort(f) /\ UNCHANGED size)
    /\ UNCHANGED dir

At(f, class, step) == ~aborted /\ Class[f] = class /\ fpc[f] = step

OnePath(p) == {d \in Dirs : d[1] = Inst /\ d[2] = p}

PathsOf(i) == [p \in Paths |-> <<i, p>>]

(* NebulaInstance::walDirs of the space that the DescSpaceAction has found. *)
WalDir(f, d) == <<d[1], d[2], spaceId[DescOf[f]]>>

-----------------------------------------------------------------------------
(* The actions.                                                             *)

Ready(f) ==
    /\ ~aborted
    /\ fpc[f] = "idle"
    /\ \A a \in FilesAfter : rc[a] = "OK"
    /\ \A g \in FileActions : fpc[g] \in {"idle", "done"}
    /\ Cardinality({g \in FileActions : fpc[g] = "done"}) < MaxFileActions

(* The first lines of each doRun(): for the two restoring actions a RUNNING *)
(* instance is a reason to return OK; any configuration may lack data_path. *)
BeginFiles(f) ==
    /\ Ready(f)
    /\ CASE Class[f] \in {"CleanWal", "TruncateWal"} -> Goto(f, "desc", <<>>)
         [] Class[f] = "CleanCheckpoint" ->
               Goto(f, "remove", PathsOf(Inst)) \/ FileReturn(f, "ERR_FAILED")
         [] Class[f] = "RestoreFromCheckpoint" ->
               IF state[Inst] = "RUNNING" THEN FileReturn(f, "OK")
               ELSE Goto(f, "find", PathsOf(Inst)) \/ FileReturn(f, "ERR_FAILED")
         [] Class[f] = "RestoreFromDataDir" ->
               IF state[Inst] = "RUNNING" THEN FileReturn(f, "OK")
               ELSE \E sources \in 0 .. PathNum + 1 :
                      IF sources = PathNum THEN Goto(f, "remove", PathsOf(Inst))
                                           ELSE FileReturn(f, "ERR_FAILED")
    /\ before' = dir
    /\ awake' = {i \in Insts : up[i]}
    /\ UNCHANGED <<state, up, dir, size, aborted, turns>>

CleanWal(f) ==
    LET d == Head(todo) IN
    /\ At(f, "CleanWal", "remove")
    /\ Gives(f, [e \in Dirs |-> IF e = WalDir(f, d) THEN [dir[e] EXCEPT !.wal = Gone] ELSE dir[e]],
             NextDir(f, "remove"))

(* The exit status is that of xargs, so of rm, also when find fails.        *)
CleanCheckpoint(f) ==
    /\ At(f, "CleanCheckpoint", "remove")
    /\ Gives(f, [e \in Dirs |-> IF e \in OnePath(Head(todo)[2]) THEN [dir[e] EXCEPT !.snaps = NoDir] ELSE dir[e]],
             NextDir(f, "remove"))

(* RestoreFromCheckpointAction: find under every path, whose output         *)
(* replaces that of the path before.                                        *)
FindCheckpoints(f) ==
    LET found == {d \in OnePath(PathNum) : dir[d].snaps # NoDir} IN
    /\ At(f, "RestoreFromCheckpoint", "find")
    /\ Asks(f, /\ IF Len(todo) > 1 THEN Goto(f, "find", Tail(todo))
                  ELSE IF found = {} THEN FileReturn(f, "OK")
                  ELSE \E dirs \in [1 .. Cardinality(found) -> found] :
                          /\ {dirs[n] : n \in DOMAIN dirs} = found
                          /\ Goto(f, "remove", dirs)
               /\ UNCHANGED size)

RemoveLive(f) ==
    LET d == Head(todo) IN
    /\ At(f, "RestoreFromCheckpoint", "remove")
    /\ Gives(f, Holding(d, Gone, Gone), Goto(f, "copy", todo))

CopyOldest(f) ==
    LET d == Head(todo)
        snaps == dir[d].snaps IN
    /\ At(f, "RestoreFromCheckpoint", "copy")
    /\ IF snaps = <<>> THEN Abort(f) /\ UNCHANGED <<dir, size>>
       ELSE Gives(f, Holding(d, Head(snaps).data, Head(snaps).wal), NextDir(f, "remove"))

(* cp of what `ls -t | head -n 1` names; of nothing if there is no snapshot. *)
CopySnapshot(f) ==
    LET d == Head(todo)
        snaps == dir[d].snaps
        newest == snaps[Len(snaps)] IN
    /\ At(f, "RestoreFromCheckpoint", "copy")
    /\ IF snaps = <<>> THEN Abort(f) /\ UNCHANGED <<dir, size>>
       ELSE Gives(f, Holding(d, newest.data, newest.wal), NextDir(f, "remove"))

RemovePath(f) ==
    /\ At(f, "RestoreFromDataDir", "remove")
    /\ Gives(f, [e \in Dirs |-> IF e \in OnePath(Head(todo)[2]) THEN [data |-> Gone, wal |-> Gone, snaps |-> NoDir]
                                                                ELSE dir[e]],
             Goto(f, "copy", todo))

CopyPath(f) ==
    /\ At(f, "RestoreFromDataDir", "copy")
    /\ Gives(f, [e \in Dirs |-> IF e \in OnePath(Head(todo)[2]) THEN [data |-> Source.data, wal |-> Source.wal, snaps |-> NoDir]
                                                                ELSE dir[e]],
             NextDir(f, "remove"))

(* Back from DescSpaceAction::doRun(): the paths of the instance, or of the *)
(* first count_ storages of a shuffled list.                                *)
Described(f) ==
    LET a == DescOf[f] IN
    /\ ~aborted /\ fpc[f] = "desc" /\ pc[a] = "done"
    /\ IF rc[a] # "OK" THEN FileReturn(f, rc[a])
       ELSE IF Class[f] = "CleanWal" THEN Goto(f, "remove", PathsOf(Inst)) \/ FileReturn(f, "ERR_FAILED")
       ELSE IF Count = 0 THEN FileReturn(f, "OK")
       ELSE \E order \in [1 .. Count -> Insts] :
              /\ \A m, n \in 1 .. Count : order[m] = order[n] => m = n
              /\ Goto(f, "ls", [n \in 1 .. Count * PathNum |->
                                   <<order[((n - 1) \div PathNum) + 1], ((n - 1) % PathNum) + 1>>])
    /\ UNCHANGED <<state, up, dir, size, aborted, turns, before, awake>>

(* The size of the newest wal, if there is one and its size is an int32_t.  *)
ListWal(f) ==
    LET d == WalDir(f, Head(todo)) IN
    /\ At(f, "TruncateWal", "ls")
    /\ Asks(f, IF d \in Dirs /\ dir[d].wal \in 0 .. MaxInt32
               THEN size' = dir[d].wal /\ Goto(f, "truncate", todo)
               ELSE FileReturn(f, "ERR_FAILED") /\ UNCHANGED size)

(* truncate -s of a negative number takes that many bytes off.              *)
Truncated(wal) ==
    IF size >= Bytes THEN size - Bytes
    ELSE IF wal >= Bytes - size THEN wal - (Bytes - size) ELSE 0

TruncateWal(f) ==
    LET d == WalDir(f, Head(todo)) IN
    /\ At(f, "TruncateWal", "truncate")
    /\ Gives(f, Holding(d, dir[d].data, Truncated(dir[d].wal)), NextDir(f, "ls"))

FileStep(f) ==
    /\ \/ CleanWal(f) \/ CleanCheckpoint(f)
       \/ FindCheckpoints(f) \/ RemoveLive(f) \/ CopySnapshot(f)
       \/ RemovePath(f) \/ CopyPath(f)
       \/ ListWal(f) \/ TruncateWal(f)
    /\ UNCHANGED <<state, up, turns, before, awake>>

DoRunOnFiles(f) == BeginFiles(f) \/ Described(f) \/ FileStep(f)

-----------------------------------------------------------------------------
(* A plan of both kinds of actions.  A DescSpaceAction that an action on    *)
(* files makes is run when that calls it.                                   *)
Called(a) == \A f \in DOMAIN DescOf : DescOf[f] = a => fpc[f] = "desc"

CanStart(a) == pc[a] = "idle" /\ Called(a) /\ \A b \in After[a] : rc[b] = "OK"

PlanEnded ==
    /\ aborted \/ ((\A f \in FileActions : fpc[f] \in {"idle", "done"} /\ ~Ready(f))
                   /\ \A a \in Actions : pc[a] # "send" /\ ~CanStart(a))
    /\ UNCHANGED allVars

PlanNext ==
    \/ ~aborted /\ (\E a \in Actions : Called(a) /\ DoRun(a)) /\ UNCHANGED fileVars
    \/ Change /\ UNCHANGED fileVars
    \/ (\E f \in FileActions : DoRunOnFiles(f)) /\ UNCHANGED vars
    \/ Turn /\ UNCHANGED vars
    \/ PlanEnded

FilesSpec == Init /\ FilesInit /\ [][PlanNext]_allVars

-----------------------------------------------------------------------------
(***************************************************************************)
(* Properties.                                                             *)
(***************************************************************************)

(* What a wal of `bytes` must be when TruncateWalAction is over: shorter by *)
(* bytes_ if it has as many, and never by more.                             *)
RightlyCut(old, new) ==
    IF old >= Bytes THEN new = old - Bytes ELSE new \in 0 .. old

(* The directories of the instances whose process did not run since the     *)
(* last action on files began; nothing has happened to them.                *)
Asleep == {d \in Dirs : d[1] \notin awake}

Same(d) == dir[d] = before[d]

Untouched == \A d \in Asleep : Same(d)

(* What each class of actions is to do to those directories.                *)
AsAsked(f) ==
    CASE Class[f] = "CleanWal" ->
            \A d \in Asleep : IF d[1] = Inst /\ d[3] = spaceId[DescOf[f]]
                              THEN dir[d] = [before[d] EXCEPT !.wal = Gone] ELSE Same(d)
      [] Class[f] = "CleanCheckpoint" ->
            \A d \in Asleep : IF d[1] = Inst THEN dir[d] = [before[d] EXCEPT !.snaps = NoDir] ELSE Same(d)
      [] Class[f] = "RestoreFromCheckpoint" ->
            \A d \in Asleep :
                LET snaps == before[d].snaps
                    newest == snaps[Len(snaps)]
                IN IF d[1] = Inst /\ d[2] = PathNum /\ snaps # NoDir
                   THEN dir[d] = [before[d] EXCEPT !.data = newest.data, !.wal = newest.wal] ELSE Same(d)
      [] Class[f] = "RestoreFromDataDir" ->
            \A d \in Asleep : IF d[1] = Inst THEN dir[d].data = Source.data /\ dir[d].wal = Source.wal
                                             ELSE Same(d)
      [] Class[f] = "TruncateWal" ->
            \E cut \in SUBSET Insts :
                /\ Cardinality(cut) = Count
                /\ \A d \in Asleep : IF d[1] \in cut /\ d[3] = spaceId[DescOf[f]]
                                     THEN /\ RightlyCut(before[d].wal, dir[d].wal)
                                          /\ dir[d] = [before[d] EXCEPT !.wal = dir[d].wal]
                                     ELSE Same(d)

(* When an action on files returns OK, the directories of every instance    *)
(* whose process did not run since the action began are as they were, but   *)
(* that                                                                     *)
(*   - a CleanWalAction has left no wal of its space under any path of its  *)
(*     instance,                                                            *)
(*   - a CleanCheckpointAction has left no snapshot of any space there,     *)
(*   - a RestoreFromCheckpointAction of an instance that was not RUNNING    *)
(*     has put its newest snapshot in the place of every directory under    *)
(*     the last path: those under other paths are as they were,             *)
(*   - a RestoreFromDataDirAction of such an instance has replaced all,     *)
(*   - a TruncateWalAction has cut the newest wal of its space under every  *)
(*     path of count_ storages, and of no more.                             *)
(* Whatever the other actions of the plan, the space's end, and the         *)
(* processes of other instances do.                                         *)
FilesAsAsked ==
    [][\A f \in FileActions : frc[f] = "none" /\ frc'[f] = "OK" =>
          IF fpc[f] = "idle" THEN Untouched' ELSE AsAsked(f)']_allVars

(* Between two actions on files, as long as the tool is there to report, no *)
(* directory is without its data: what was removed has been put back.       *)
NothingHalfDone ==
    ~aborted /\ (\A f \in FileActions : fpc[f] \in {"idle", "done"}) =>
        \A d \in Dirs : dir[d].data # Gone
=============================================================================
