------------------------------- MODULE Circle -------------------------------
(***************************************************************************)
(* The data circle (nebula/NebulaAction.cpp): WriteCircleAction writes the *)
(* vertices 1..totalRows_, each with the id of the next one, the last with *)
(* the first; WalkThroughAction follows the ids from a vertex of its own   *)
(* choice, LookUpAction follows them backwards through an index that       *)
(* CreateIndexAction creates, RebuildIndexAction fills and                 *)
(* CheckJobStatusAction waits for.  A step of an action is one call of     *)
(* GraphClient::execute() and what the action does with the answer.        *)
(*                                                                         *)
(* The database is external: a call that fails may have taken effect, an   *)
(* INSERT also in part; rebuilding is a job that runs on its own.  Faults  *)
(* lose or damage rows: to find them is what the circle is for.            *)
(***************************************************************************)
EXTENDS Integers, Sequences, FiniteSets

CONSTANTS
    Actions,         \* the actions of a plan
    Kind,            \* their classes
    After,           \* for each action those it depends on
    TotalRows,       \* totalRows_
    BatchNum,        \* batchNum_
    Try,             \* try_ and retryTimes_
    NoRow,           \* what is read of a vertex that is not there
    MaxFaults        \* bound: how many rows are lost or damaged

Kinds == {"write", "walk", "lookup", "create", "rebuild", "check"}

ASSUME CircleAssumption ==
    /\ IsFiniteSet(Actions)
    /\ Kind \in [Actions -> Kinds]
    /\ After \in [Actions -> SUBSET Actions]
    /\ TotalRows \in Nat \ {0}
    /\ BatchNum \in Nat \ {0}
    /\ Try \in Nat
    /\ NoRow \notin Int
    /\ MaxFaults \in Nat

VARIABLES
    pc,              \* where each action stands
    rc,              \* what its doRun() returned
    tries,           \* how often it has sent its statement
    row,             \* WriteCircleAction::doRun: the first row of the next batch
    start,           \* start_, drawn when the plan is loaded
    id, count,       \* locals of WalkThroughAction::doRun and LookUpAction::doRun
    jobId,           \* jobId_ of CheckJobStatusAction
    jobVar,          \* the variable both index actions name, 0 if not set
    db,              \* the database: the value of each vertex
    index,           \* whether there is an index
    indexed,         \* the vertices it has
    jobs,            \* the rebuilding jobs, a job's id is its place
    faults,          \* how many faults there were
    path, quiet      \* history: the ids an action read, in a database at rest

actionVars == <<pc, rc, tries, row, start, id, count, jobId>>
dbVars == <<db, index, indexed, jobs, faults>>
historyVars == <<path, quiet>>
vars == <<actionVars, jobVar, dbVars, historyVars>>

Ids == 0 .. TotalRows

Succ(i) == IF i = TotalRows THEN 1 ELSE i + 1

Of(kinds) == {a \in Actions : Kind[a] \in kinds}

Walks == Of({"walk", "lookup"})

Init ==
    /\ pc = [a \in Actions |-> "idle"]
    /\ rc = [a \in Actions |-> "none"]
    /\ tries = [a \in Actions |-> 0]
    /\ row = [a \in Actions |-> 1]
    /\ start \in {f \in [Actions -> 0 .. TotalRows - 1] : \A a \in Actions \ Walks : f[a] = 0}
    /\ id = start
    /\ count = [a \in Actions |-> 0]
    /\ jobId = [a \in Actions |-> 0]
    /\ jobVar = 0
    /\ db = [i \in Ids |-> NoRow]
    /\ index = FALSE
    /\ indexed = {}
    /\ jobs = <<>>
    /\ faults = 0
    /\ path = [a \in Actions |-> <<>>]
    /\ quiet = [a \in Actions |-> TRUE]

(***************************************************************************)
(* The database.                                                           *)
(***************************************************************************)

Start(a) ==
    /\ pc[a] = "idle"
    /\ \A b \in After[a] : rc[b] = "OK"
    /\ pc' = [pc EXCEPT ![a] = IF Kind[a] = "check" THEN "test" ELSE "send"]
    /\ id' = [id EXCEPT ![a] = start[a]]
    /\ count' = [count EXCEPT ![a] = 1]
    /\ UNCHANGED <<rc, tries, row, start, jobId, jobVar, dbVars, historyVars>>

(* The rows of S are written, into the index too if there is one.          *)
Insert(S) ==
    /\ db' = [i \in Ids |-> IF i \in S THEN Succ(i) ELSE db[i]]
    /\ indexed' = IF index THEN indexed \cup S ELSE indexed
    /\ quiet' = IF db' = db THEN quiet ELSE [a \in Actions |-> pc[a] = "idle"]
    /\ UNCHANGED <<index, jobs, faults>>

(* A job runs when those before it are over, and puts every row there is   *)
(* into the index, or fails.                                               *)
JobStep ==
    \E j \in 1 .. Len(jobs) :
        /\ jobs[j] = "RUNNING"
        /\ \A k \in 1 .. j - 1 : jobs[k] # "RUNNING"
        /\ \/ /\ jobs' = [jobs EXCEPT ![j] = "FINISHED"]
              /\ indexed' = {i \in Ids : db[i] # NoRow}
           \/ /\ jobs' = [jobs EXCEPT ![j] = "FAILED"]
              /\ UNCHANGED indexed
        /\ UNCHANGED <<actionVars, jobVar, db, index, faults, historyVars>>

(* A row is lost, or its value is another id.                              *)
Fault ==
    /\ faults < MaxFaults
    /\ faults' = faults + 1
    /\ \E i \in Ids, v \in Ids \cup {NoRow} :
          /\ db[i] \notin {NoRow, v}
          /\ db' = [db EXCEPT ![i] = v]
    /\ quiet' = [a \in Actions |-> pc[a] = "idle"]
    /\ UNCHANGED <<actionVars, jobVar, index, indexed, jobs, path>>

(***************************************************************************)
(* The loops around execute().                                             *)
(***************************************************************************)

Return(a, result) ==
    /\ pc' = [pc EXCEPT ![a] = "done"]
    /\ rc' = [rc EXCEPT ![a] = result]

(* One more turn of `while (++tries < try_)`.                              *)
Sends(a, kind) == Kind[a] = kind /\ pc[a] = "send" /\ tries[a] + 1 < Try

SendFails(a) == tries' = [tries EXCEPT ![a] = @ + 1] /\ UNCHANGED <<pc, rc, row, id, count>>

(* What the last try gave is dropped.                                      *)
GiveUpUnnoticed(a) ==
    /\ pc[a] = "send"
    /\ tries[a] + 1 >= Try
    /\ Return(a, "OK")
    /\ UNCHANGED <<tries, row, start, id, count, jobId, jobVar, dbVars, historyVars>>

GiveUp(a) ==
    /\ pc[a] = "send"
    /\ tries[a] + 1 >= Try
    /\ Return(a, "ERR_FAILED")
    /\ UNCHANGED <<tries, row, start, id, count, jobId, jobVar, dbVars, historyVars>>

(* The last row of the batch: the row before the last one does not send a  *)
(* full batch any more, the last row goes with it.                         *)
BatchEnd(from) == IF from + BatchNum < TotalRows THEN from + BatchNum - 1 ELSE TotalRows

WriteBatch(a) ==
    /\ Sends(a, "write")
    /\ LET batch == row[a] .. BatchEnd(row[a])
       IN \/ /\ Insert(batch)
             /\ IF TotalRows \in batch
                THEN Return(a, "OK") /\ UNCHANGED <<tries, row>>
                ELSE /\ row' = [row EXCEPT ![a] = BatchEnd(row[a]) + 1]
                     /\ tries' = [tries EXCEPT ![a] = 0]
                     /\ UNCHANGED <<pc, rc>>
             /\ UNCHANGED <<id, count>>
          \/ /\ \E S \in SUBSET batch : Insert(S)
             /\ SendFails(a)
    /\ UNCHANGED <<start, jobId, jobVar, path>>

(* Any circle will do.                                                     *)
FollowAnyLength(a, next) ==
    /\ id' = [id EXCEPT ![a] = next]
    /\ path' = [path EXCEPT ![a] = Append(@, next)]
    /\ IF next = start[a] \/ count[a] + 1 > TotalRows
       THEN /\ Return(a, IF next = start[a] THEN "OK" ELSE "ERR_FAILED")
            /\ UNCHANGED <<tries, count>>
       ELSE /\ count' = [count EXCEPT ![a] = @ + 1]
            /\ tries' = [tries EXCEPT ![a] = 0]
            /\ UNCHANGED <<pc, rc>>
    /\ UNCHANGED row

(* The loop ends one vertex too early.                                     *)
FollowOneShort(a, next) ==
    /\ id' = [id EXCEPT ![a] = next]
    /\ path' = [path EXCEPT ![a] = Append(@, next)]
    /\ IF next = start[a] \/ count[a] + 1 >= TotalRows
       THEN /\ Return(a, IF next = start[a] /\ count[a] = TotalRows THEN "OK" ELSE "ERR_FAILED")
            /\ UNCHANGED <<tries, count>>
       ELSE /\ count' = [count EXCEPT ![a] = @ + 1]
            /\ tries' = [tries EXCEPT ![a] = 0]
            /\ UNCHANGED <<pc, rc>>
    /\ UNCHANGED row

(* The walk reads `next`: it is over when it is back at its start, or when *)
(* it has read as many vertices as there should be.                        *)
Follow(a, next) ==
    /\ id' = [id EXCEPT ![a] = next]
    /\ path' = [path EXCEPT ![a] = Append(@, next)]
    /\ IF next = start[a] \/ count[a] + 1 > TotalRows
       THEN /\ Return(a, IF next = start[a] /\ count[a] = TotalRows THEN "OK" ELSE "ERR_FAILED")
            /\ UNCHANGED <<tries, count>>
       ELSE /\ count' = [count EXCEPT ![a] = @ + 1]
            /\ tries' = [tries EXCEPT ![a] = 0]
            /\ UNCHANGED <<pc, rc>>
    /\ UNCHANGED row

(* An answer with no row breaks the loop: there is no further try.         *)
NothingFound(a) == Return(a, "ERR_FAILED") /\ UNCHANGED <<tries, row, id, count, path>>

Fetch(a) ==
    /\ Sends(a, "walk")
    /\ \/ IF db[id[a]] = NoRow THEN NothingFound(a) ELSE Follow(a, db[id[a]])
       \/ SendFails(a) /\ UNCHANGED path
    /\ UNCHANGED <<start, jobId, jobVar, dbVars, quiet>>

(* The first of the vertices with the value; without an index LOOKUP is    *)
(* an error.                                                               *)
LookUp(a) ==
    /\ Sends(a, "lookup")
    /\ LET found == {i \in indexed : db[i] = id[a]}
       IN \/ /\ index
             /\ \/ found = {} /\ NothingFound(a)
                \/ \E i \in found : Follow(a, i)
          \/ SendFails(a) /\ UNCHANGED path
    /\ UNCHANGED <<start, jobId, jobVar, dbVars, quiet>>

(* MetaAction::doRun with CREATE INDEX, which is an error the second time. *)
CreateIndex(a) ==
    /\ Sends(a, "create")
    /\ \/ /\ ~index
          /\ index' = TRUE
          /\ Return(a, "OK")
          /\ UNCHANGED <<tries, row, id, count>>
       \/ index' \in {index, TRUE} /\ SendFails(a)
    /\ UNCHANGED <<start, jobId, jobVar, db, indexed, jobs, faults, historyVars>>

(* RebuildIndexAction::doRun: an answer without the id of a job is another *)
(* way to fail with a job submitted.                                       *)
RebuildIndex(a) ==
    /\ Sends(a, "rebuild")
    /\ \/ /\ index
          /\ jobs' = Append(jobs, "RUNNING")
          /\ jobVar' = Len(jobs) + 1
          /\ Return(a, "OK")
          /\ UNCHANGED <<tries, row, id, count>>
       \/ /\ jobs' \in IF index THEN {jobs, Append(jobs, "RUNNING")} ELSE {jobs}
          /\ SendFails(a)
          /\ UNCHANGED jobVar
    /\ UNCHANGED <<start, jobId, db, index, indexed, faults, historyVars>>

(* CheckJobStatusAction::doRun: jobId_ is what toString(), called by       *)
(* Action::run(), has read, and command() reads the variable once more.    *)
TestJob(a) ==
    /\ pc[a] = "test"
    /\ jobId' = [jobId EXCEPT ![a] = jobVar]
    /\ IF jobVar = 0 THEN Return(a, "ERR_FAILED")
                     ELSE pc' = [pc EXCEPT ![a] = "command"] /\ UNCHANGED rc
    /\ UNCHANGED <<tries, row, start, id, count, jobVar, dbVars, historyVars>>

Command(a) ==
    /\ pc[a] = "command"
    /\ jobId' = [jobId EXCEPT ![a] = jobVar]
    /\ pc' = [pc EXCEPT ![a] = "send"]
    /\ UNCHANGED <<rc, tries, row, start, id, count, jobVar, dbVars, historyVars>>

(* A job that failed is over, too.                                         *)
CheckJobOver(a) ==
    /\ Sends(a, "check")
    /\ \/ /\ jobs[jobId[a]] # "RUNNING"
          /\ Return(a, "OK")
          /\ UNCHANGED <<tries, row, id, count>>
       \/ SendFails(a)
    /\ UNCHANGED <<start, jobId, jobVar, dbVars, historyVars>>

CheckJob(a) ==
    /\ Sends(a, "check")
    /\ \/ /\ jobs[jobId[a]] = "FINISHED"
          /\ Return(a, "OK")
          /\ UNCHANGED <<tries, row, id, count>>
       \/ SendFails(a)
    /\ UNCHANGED <<start, jobId, jobVar, dbVars, historyVars>>

DoRun(a) ==
    \/ Start(a) \/ GiveUp(a)
    \/ WriteBatch(a) \/ Fetch(a) \/ LookUp(a)
    \/ CreateIndex(a) \/ RebuildIndex(a)
    \/ TestJob(a) \/ Command(a) \/ CheckJob(a)

(* What is left can never start.                                           *)
AllEnded ==
    /\ \A a \in Actions : pc[a] = "done" \/ (pc[a] = "idle" /\ \E b \in After[a] : rc[b] # "OK")
    /\ UNCHANGED vars

Next ==
    \/ \E a \in Actions : DoRun(a)
    \/ JobStep
    \/ Fault
    \/ AllEnded

Spec == Init /\ [][Next]_vars

-----------------------------------------------------------------------------
(***************************************************************************)
(* Properties.                                                             *)
(***************************************************************************)

TypeOK ==
    /\ pc \in [Actions -> {"idle", "test", "command", "send", "done"}]
    /\ rc \in [Actions -> {"none", "OK", "ERR_FAILED"}]
    /\ tries \in [Actions -> 0 .. Try]
    /\ row \in [Actions -> 1 .. TotalRows]
    /\ start \in [Actions -> 0 .. TotalRows - 1]
    /\ id \in [Actions -> Ids]
    /\ count \in [Actions -> 0 .. TotalRows]
    /\ jobId \in [Actions -> 0 .. Len(jobs)]
    /\ jobVar \in 0 .. Len(jobs)
    /\ db \in [Ids -> Ids \cup {NoRow}]
    /\ index \in BOOLEAN
    /\ indexed \in SUBSET Ids
    /\ jobs \in Seq({"RUNNING", "FINISHED", "FAILED"})
    /\ faults \in 0 .. MaxFaults
    /\ path \in [Actions -> Seq(Ids)]
    /\ quiet \in [Actions -> BOOLEAN]

(* A WriteCircleAction that returns OK has written the whole circle,       *)
(* whatever batches it was cut into and however often they were sent.      *)
WriteComplete ==
    \A a \in Of({"write"}) :
        rc[a] = "OK" /\ faults = 0 => \A i \in 1 .. TotalRows : db[i] = Succ(i)

(* A walk or a lookup that returns OK in a database at rest has gone once  *)
(* around a circle of totalRows_ different vertices: a row that is lost or *)
(* damaged, or a shorter circle, cannot pass.                              *)
WalkSound ==
    \A a \in Walks :
        rc[a] = "OK" /\ quiet[a] =>
            /\ Len(path[a]) = TotalRows
            /\ \A i, j \in 1 .. TotalRows : path[a][i] = path[a][j] => i = j
            /\ \A i \in 1 .. TotalRows :
                  LET before == IF i = 1 THEN start[a] ELSE path[a][i - 1]
                  IN IF Kind[a] = "walk" THEN db[before] = path[a][i]
                                         ELSE db[path[a][i]] = before

(* Whoever waits for a write and for the check of a rebuilt index finds    *)
(* every row in the index: those written before the index was there, those *)
(* written while the job ran, and those of a job submitted twice.          *)
IndexComplete ==
    (/\ \E a \in Of({"write"}) : rc[a] = "OK"
     /\ \E a \in Of({"check"}) : rc[a] = "OK"
     /\ faults = 0) => 1 .. TotalRows \subseteq indexed

(* There is no false alarm: on a circle that was written, and indexed for  *)
(* a lookup, without a fault, the action fails only when one statement     *)
(* failed as often as it was sent, or when it started from vertex 0, which *)
(* random choice includes and WriteCircleAction does not write.            *)
NoFalseAlarm ==
    \A a \in Walks :
        (/\ rc[a] = "ERR_FAILED"
         /\ faults = 0
         /\ After[a] \cap Of({"write"}) # {}
         /\ Kind[a] = "lookup" => After[a] \cap Of({"check"}) # {})
        => start[a] = 0 \/ tries[a] + 1 >= Try
=============================================================================
