---------------------------- MODULE CircleProofs ----------------------------
(***************************************************************************)
(* The properties of Circle hold for any plan, any number of rows, batch   *)
(* size, tries and faults.                                                 *)
(***************************************************************************)
EXTENDS Circle, TLAPS, SequenceTheorems, NaturalsInduction, WellFoundedInduction

(* What an action knows where it stands.                                   *)
PlaceAt(a) ==
    /\ rc[a] = "none" <=> pc[a] # "done"
    /\ pc[a] # "idle" => \A b \in After[a] : rc[b] = "OK"
    /\ pc[a] \in {"test", "command"} => Kind[a] = "check"
    /\ pc[a] = "command" => jobVar # 0
    /\ Kind[a] = "check" /\ pc[a] = "send" => jobId[a] # 0
    /\ Kind[a] = "check" /\ rc[a] = "OK" => \E j \in 1 .. Len(jobs) : jobs[j] = "FINISHED"

(* The rows a writer has behind it are as it wrote them.                   *)
WrittenAt(a) ==
    /\ pc[a] = "idle" => row[a] = 1
    /\ Kind[a] = "write" /\ faults = 0 =>
          /\ pc[a] = "send" => \A i \in 1 .. row[a] - 1 : db[i] = Succ(i)
          /\ rc[a] = "OK" => \A i \in 1 .. TotalRows : db[i] = Succ(i)

(* The rows that are there and what a job that is over has made of them.   *)
RowsInv ==
    /\ faults = 0 => \A i \in Ids : db[i] # NoRow => i # 0 /\ db[i] = Succ(i)
    /\ jobs # <<>> => index
    /\ (\E j \in 1 .. Len(jobs) : jobs[j] = "FINISHED") =>
          \A i \in Ids : db[i] # NoRow => i \in indexed

(* The id a walk has come to after n vertices.                             *)
Come(a, n) == IF n = 0 THEN start[a] ELSE path[a][n]

(* Two vertices that follow each other on the way.                         *)
Linked(a, i) ==
    IF Kind[a] = "walk" THEN db[Come(a, i - 1)] = path[a][i]
                        ELSE db[path[a][i]] = Come(a, i - 1)

WalkAt(a) ==
    /\ pc[a] = "idle" => path[a] = <<>>
    /\ pc[a] = "send" =>
          /\ count[a] = Len(path[a]) + 1
          /\ id[a] = Come(a, Len(path[a]))
          /\ \A i \in 1 .. Len(path[a]) : path[a][i] # start[a]
    /\ rc[a] = "OK" =>
          /\ Len(path[a]) = TotalRows
          /\ path[a][TotalRows] = start[a]
          /\ \A i \in 1 .. TotalRows - 1 : path[a][i] # start[a]
    /\ quiet[a] /\ (pc[a] = "send" \/ rc[a] = "OK") =>
          \A i \in 1 .. Len(path[a]) : Linked(a, i)

(* Where a walk along the whole circle is when it reads vertex n.          *)
Forth(s, n) == IF s + n - 1 > TotalRows THEN s + n - 1 - TotalRows ELSE s + n - 1
Back(s, n) == IF s - n + 1 < 1 THEN s - n + 1 + TotalRows ELSE s - n + 1

GoodStart(a) ==
    /\ faults = 0
    /\ start[a] # 0
    /\ After[a] \cap Of({"write"}) # {}
    /\ Kind[a] = "lookup" => After[a] \cap Of({"check"}) # {}

OnCourse(a) ==
    GoodStart(a) =>
        /\ pc[a] = "send" => id[a] = IF Kind[a] = "walk" THEN Forth(start[a], count[a])
                                                         ELSE Back(start[a], count[a])
        /\ rc[a] = "ERR_FAILED" => tries[a] + 1 >= Try

PlaceInv == \A a \in Actions : PlaceAt(a)
WrittenInv == \A a \in Actions : WrittenAt(a)
WalkInv == \A a \in Walks : WalkAt(a)
CourseInv == \A a \in Walks : OnCourse(a)

Inv == TypeOK /\ RowsInv /\ PlaceInv /\ WrittenInv /\ WalkInv /\ CourseInv

-----------------------------------------------------------------------------
LEMMA Smallest ==
    ASSUME NEW T \in SUBSET Nat, T # {}
    PROVE  \E m \in T : \A n \in T : m <= n
<1> DEFINE Less == OpToRel(<, Nat)
<1>1. PICK m \in T : \A n \in T : ~(<<n, m>> \in Less)
  <2> HIDE DEF Less
  <2>1. IsWellFoundedOn(Less, Nat)
      BY NatLessThanWellFounded DEF Less
  <2> QED
      BY <2>1, WFMin
<1>2. ASSUME NEW n \in T PROVE m <= n
  <2>1. n \in Nat /\ m \in Nat
      OBVIOUS
  <2>2. ~(n < m)
      BY <1>1, <2>1 DEF OpToRel
  <2> QED
      BY <2>1, <2>2
<1> QED
    BY <1>2

(* A way p of n vertices that is back at s at its end only, on which equal *)
(* vertices have equal successors, or equal predecessors.                  *)
OneNext(n, p, s) ==
    /\ p[n] = s
    /\ \A i \in 1 .. n - 1 : p[i] # s
    /\ \A i, j \in 1 .. n - 1 : p[i] = p[j] => p[i + 1] = p[j + 1]

OneBack(n, p, s) ==
    /\ \A i \in 1 .. n - 1 : p[i] # s
    /\ \A i, j \in 1 .. n : p[i] = p[j] =>
          (IF i - 1 = 0 THEN s ELSE p[i - 1]) = (IF j - 1 = 0 THEN s ELSE p[j - 1])

NoneTwice(n, p) == \A i, j \in 1 .. n : p[i] = p[j] => i = j

(* It has no vertex twice: the last two that are equal would have equal    *)
(* successors.                                                             *)
LEMMA NoVertexTwiceForth ==
    ASSUME NEW n \in Nat, NEW p, NEW s, OneNext(n, p, s)
    PROVE  NoneTwice(n, p)
<1> USE DEF OneNext, NoneTwice
<1> DEFINE T == {n - j : j \in {k \in 1 .. n : \E i \in 1 .. k - 1 : p[i] = p[k]}}
<1>1. SUFFICES ASSUME T # {} PROVE FALSE
  <2>1. \A j \in 1 .. n : \A i \in 1 .. j - 1 : p[i] # p[j]
      BY <1>1
  <2> QED
      BY <2>1
<1>2. PICK m \in T : \A k \in T : m <= k
  <2>1. T \in SUBSET Nat
      OBVIOUS
  <2> HIDE DEF T
  <2> QED
      BY <1>1, <2>1, Smallest
<1>3. PICK j \in 1 .. n : m = n - j /\ \E i \in 1 .. j - 1 : p[i] = p[j]
    BY <1>2
<1>i. PICK i \in 1 .. j - 1 : p[i] = p[j]
    BY <1>3
<1>4. j # n
    BY <1>i
<1>5. i + 1 \in 1 .. (j + 1) - 1 /\ j + 1 \in 1 .. n /\ p[i + 1] = p[j + 1]
    BY <1>i, <1>4
<1>6. n - (j + 1) \in T
    BY <1>5
<1>7. m <= n - (j + 1)
  <2> HIDE DEF T
  <2> QED
      BY <1>2, <1>6
<1> QED
    BY <1>3, <1>7

(* The same for equal predecessors.                                        *)
LEMMA NoVertexTwiceBack ==
    ASSUME NEW n \in Nat, NEW p, NEW s, OneBack(n, p, s)
    PROVE  NoneTwice(n, p)
<1> USE DEF OneBack, NoneTwice
<1> DEFINE T == {i \in 1 .. n : \E j \in i + 1 .. n : p[i] = p[j]}
<1>1. SUFFICES ASSUME T # {} PROVE FALSE
  <2>1. \A i \in 1 .. n : \A j \in i + 1 .. n : p[i] # p[j]
      BY <1>1
  <2> QED
      BY <2>1
<1>2. PICK i \in T : \A k \in T : i <= k
  <2>1. T \in SUBSET Nat
      OBVIOUS
  <2> HIDE DEF T
  <2> QED
      BY <1>1, <2>1, Smallest
<1>3. PICK j \in i + 1 .. n : p[i] = p[j]
    BY <1>2
<1>4. i # 1
    BY <1>2, <1>3
<1>5. i - 1 \in 1 .. n /\ j - 1 \in (i - 1) + 1 .. n /\ p[i - 1] = p[j - 1]
    BY <1>2, <1>3, <1>4
<1>6. i - 1 \in T
    BY <1>5
<1>7. i <= i - 1
  <2> HIDE DEF T
  <2> QED
      BY <1>2, <1>6
<1> QED
    BY <1>2, <1>7

-----------------------------------------------------------------------------
(* What a step of anybody may do to the database.                          *)
DatabaseStep ==
    \/ UNCHANGED <<dbVars, quiet>>
    \/ \E S \in SUBSET (1 .. TotalRows) : Insert(S)
    \/ index' \in {index, TRUE} /\ UNCHANGED <<db, indexed, jobs, faults, quiet>>
    \/ index /\ jobs' = Append(jobs, "RUNNING") /\ UNCHANGED <<db, index, indexed, faults, quiet>>
    \/ JobStep
    \/ Fault

LEMMA Batches ==
    ASSUME TypeOK, NEW a \in Actions
    PROVE  /\ BatchEnd(row[a]) \in 1 .. TotalRows
           /\ row[a] .. BatchEnd(row[a]) \subseteq 1 .. TotalRows
           /\ BatchEnd(row[a]) = TotalRows \/ BatchEnd(row[a]) >= row[a]
<1>1. row[a] \in 1 .. TotalRows
    BY DEF TypeOK
<1> QED
    BY <1>1, CircleAssumption DEF BatchEnd

LEMMA DatabaseSteps ==
    ASSUME TypeOK, [Next]_vars
    PROVE  DatabaseStep
<1> USE DEF DatabaseStep, dbVars, historyVars, vars
<1>1. ASSUME NEW a \in Actions, DoRun(a) PROVE DatabaseStep
  <2>1. CASE Start(a) \/ GiveUp(a) \/ Fetch(a) \/ LookUp(a) \/ TestJob(a) \/ Command(a) \/ CheckJob(a)
      BY <2>1 DEF Start, GiveUp, Fetch, LookUp, TestJob, Command, CheckJob
  <2>2. CASE WriteBatch(a)
      BY <2>2, Batches DEF WriteBatch
  <2>3. CASE CreateIndex(a)
      BY <2>3 DEF CreateIndex
  <2>4. CASE RebuildIndex(a)
      BY <2>4 DEF RebuildIndex
  <2> QED
      BY <1>1, <2>1, <2>2, <2>3, <2>4 DEF DoRun
<1> QED
    BY <1>1 DEF Next, AllEnded

LEMMA RowsKept ==
    ASSUME TypeOK, DatabaseStep
    PROVE  /\ faults' \in Nat
           /\ faults' = 0 => faults = 0 /\ \A i \in 1 .. TotalRows : db[i] = Succ(i) => db'[i] = Succ(i)
           /\ index => index'
           /\ \A j \in 1 .. Len(jobs) :
                 jobs[j] = "FINISHED" => j \in 1 .. Len(jobs') /\ jobs'[j] = "FINISHED"
           /\ quiet' = IF db' = db THEN quiet ELSE [a \in Actions |-> pc[a] = "idle"]
<1>t. /\ db \in [Ids -> Ids \cup {NoRow}] /\ faults \in Nat /\ jobs \in Seq({"RUNNING", "FINISHED", "FAILED"})
      /\ 1 .. TotalRows \subseteq Ids /\ index \in BOOLEAN
    BY CircleAssumption DEF TypeOK, Ids
<1>1. CASE UNCHANGED <<dbVars, quiet>>
    BY <1>1, <1>t DEF dbVars
<1>2. CASE \E S \in SUBSET (1 .. TotalRows) : Insert(S)
    BY <1>2, <1>t DEF Insert
<1>3. CASE index' \in {index, TRUE} /\ UNCHANGED <<db, indexed, jobs, faults, quiet>>
    BY <1>3, <1>t
<1>4. CASE index /\ jobs' = Append(jobs, "RUNNING") /\ UNCHANGED <<db, index, indexed, faults, quiet>>
  <2>1. Len(jobs') = Len(jobs) + 1 /\ \A j \in 1 .. Len(jobs) : jobs'[j] = jobs[j]
      BY <1>4, <1>t, AppendProperties
  <2> QED
      BY <1>4, <1>t, <2>1
<1>5. CASE JobStep
  <2>1. /\ \E j \in 1 .. Len(jobs), x \in {"FINISHED", "FAILED"} :
              jobs[j] = "RUNNING" /\ jobs' = [jobs EXCEPT ![j] = x]
        /\ UNCHANGED <<db, index, faults, quiet>>
      BY <1>5 DEF JobStep, historyVars
  <2>2. PICK j \in 1 .. Len(jobs), x \in {"FINISHED", "FAILED"} :
              jobs[j] = "RUNNING" /\ jobs' = [jobs EXCEPT ![j] = x]
      BY <2>1
  <2>3. Len(jobs') = Len(jobs) /\ \A k \in 1 .. Len(jobs) : jobs'[k] = IF k = j THEN x ELSE jobs[k]
      BY <2>2, <1>t, ExceptSeq, x \in {"RUNNING", "FINISHED", "FAILED"}
  <2> QED
      BY <2>1, <2>2, <2>3, <1>t
<1>6. CASE Fault
  <2>1. faults' = faults + 1 /\ UNCHANGED <<index, jobs>>
      BY <1>6 DEF Fault
  <2>2. db' # db
      BY <1>6, <1>t DEF Fault
  <2>3. quiet' = [a \in Actions |-> pc[a] = "idle"]
      BY <1>6 DEF Fault
  <2> QED
      BY <2>1, <2>2, <2>3, <1>t
<1> QED
    BY <1>1, <1>2, <1>3, <1>4, <1>5, <1>6 DEF DatabaseStep

LEMMA RowsStep ==
    ASSUME TypeOK, RowsInv, DatabaseStep
    PROVE  RowsInv'
<1>t. /\ db \in [Ids -> Ids \cup {NoRow}] /\ faults \in Nat /\ jobs \in Seq({"RUNNING", "FINISHED", "FAILED"})
      /\ 1 .. TotalRows \subseteq Ids /\ index \in BOOLEAN /\ indexed \in SUBSET Ids
    BY CircleAssumption DEF TypeOK, Ids
<1>n. \A i \in 1 .. TotalRows : i # 0 /\ Succ(i) # NoRow
    BY CircleAssumption DEF Succ
<1>1. CASE UNCHANGED <<dbVars, quiet>>
    BY <1>1 DEF dbVars, RowsInv
<1>2. CASE \E S \in SUBSET (1 .. TotalRows) : Insert(S)
    BY <1>2, <1>t, <1>n DEF Insert, RowsInv
<1>3. CASE index' \in {index, TRUE} /\ UNCHANGED <<db, indexed, jobs, faults, quiet>>
    BY <1>3 DEF RowsInv
<1>4. CASE index /\ jobs' = Append(jobs, "RUNNING") /\ UNCHANGED <<db, index, indexed, faults, quiet>>
  <2>1. Len(jobs') = Len(jobs) + 1 /\ jobs'[Len(jobs) + 1] = "RUNNING" /\ Len(jobs) \in Nat
        /\ \A j \in 1 .. Len(jobs) : jobs'[j] = jobs[j]
      BY <1>4, <1>t, AppendProperties, LenProperties
  <2> QED
      BY <1>4, <2>1 DEF RowsInv
<1>5. CASE JobStep
  <2>1. PICK j \in 1 .. Len(jobs) :
          /\ jobs[j] = "RUNNING"
          /\ \/ jobs' = [jobs EXCEPT ![j] = "FINISHED"] /\ indexed' = {i \in Ids : db[i] # NoRow}
             \/ jobs' = [jobs EXCEPT ![j] = "FAILED"] /\ UNCHANGED indexed
          /\ UNCHANGED <<db, index, faults>>
      BY <1>5 DEF JobStep
  <2>2. PICK x \in {"FINISHED", "FAILED"} :
          jobs' = [jobs EXCEPT ![j] = x] /\ (x = "FAILED" => UNCHANGED indexed)
                                         /\ (x = "FINISHED" => indexed' = {i \in Ids : db[i] # NoRow})
      BY <2>1
  <2>3. Len(jobs') = Len(jobs) /\ \A k \in 1 .. Len(jobs) : jobs'[k] = IF k = j THEN x ELSE jobs[k]
      BY <2>2, <1>t, ExceptSeq, x \in {"RUNNING", "FINISHED", "FAILED"}
  <2>4. jobs # <<>>
      BY <2>1, <1>t, EmptySeq
  <2> QED
      BY <2>1, <2>2, <2>3, <2>4 DEF RowsInv
<1>6. CASE Fault
  <2>1. faults' # 0 /\ UNCHANGED <<index, indexed, jobs>>
      BY <1>6, <1>t DEF Fault
  <2>2. \A i \in Ids : db'[i] # NoRow => db[i] # NoRow
      BY <1>6, <1>t DEF Fault
  <2> QED
      BY <2>1, <2>2 DEF RowsInv
<1> QED
    BY <1>1, <1>2, <1>3, <1>4, <1>5, <1>6 DEF DatabaseStep

-----------------------------------------------------------------------------
(* An action leaves the others alone, and none changes start_.             *)
LEMMA OthersKept ==
    ASSUME TypeOK, NEW a \in Actions, DoRun(a), NEW b \in Actions, b # a
    PROVE  /\ pc'[b] = pc[b] /\ rc'[b] = rc[b] /\ tries'[b] = tries[b] /\ row'[b] = row[b]
           /\ id'[b] = id[b] /\ count'[b] = count[b] /\ path'[b] = path[b] /\ jobId'[b] = jobId[b]
<1> USE DEF TypeOK, historyVars, Return, SendFails, NothingFound, Follow
<1>1. CASE Start(a) \/ GiveUp(a)
    BY <1>1 DEF Start, GiveUp
<1>2. CASE WriteBatch(a)
    BY <1>2 DEF WriteBatch
<1>3. CASE Fetch(a)
    BY <1>3 DEF Fetch
<1>4. CASE LookUp(a)
    BY <1>4 DEF LookUp
<1>5. CASE CreateIndex(a) \/ RebuildIndex(a)
    BY <1>5 DEF CreateIndex, RebuildIndex
<1>6. CASE TestJob(a) \/ Command(a) \/ CheckJob(a)
    BY <1>6 DEF TestJob, Command, CheckJob
<1> QED
    BY <1>1, <1>2, <1>3, <1>4, <1>5, <1>6 DEF DoRun

LEMMA StartKept ==
    ASSUME [Next]_vars
    PROVE  start' = start
<1> USE DEF vars, actionVars
<1>1. ASSUME NEW a \in Actions, DoRun(a) PROVE start' = start
    BY <1>1 DEF DoRun, Start, GiveUp, WriteBatch, Fetch, LookUp, CreateIndex, RebuildIndex,
                TestJob, Command, CheckJob
<1> QED
    BY <1>1 DEF Next, AllEnded, JobStep, Fault

-----------------------------------------------------------------------------
(* Types.                                                                  *)
ActionsTypeOK ==
    /\ pc \in [Actions -> {"idle", "test", "command", "send", "done"}]
    /\ rc \in [Actions -> {"none", "OK", "ERR_FAILED"}]
    /\ tries \in [Actions -> 0 .. Try]
    /\ row \in [Actions -> 1 .. TotalRows]
    /\ id \in [Actions -> Ids]
    /\ count \in [Actions -> 0 .. TotalRows]
    /\ path \in [Actions -> Seq(Ids)]

DatabaseTypeOK ==
    /\ db \in [Ids -> Ids \cup {NoRow}]
    /\ index \in BOOLEAN
    /\ indexed \in SUBSET Ids
    /\ jobs \in Seq({"RUNNING", "FINISHED", "FAILED"})
    /\ faults \in 0 .. MaxFaults
    /\ quiet \in [Actions -> BOOLEAN]

JobsTypeOK ==
    /\ jobId \in [Actions -> 0 .. Len(jobs)]
    /\ jobVar \in 0 .. Len(jobs)

LEMMA TypeParts ==
    /\ TypeOK <=> ActionsTypeOK /\ DatabaseTypeOK /\ JobsTypeOK /\ start \in [Actions -> 0 .. TotalRows - 1]
    /\ TypeOK' <=> ActionsTypeOK' /\ DatabaseTypeOK' /\ JobsTypeOK' /\ start' \in [Actions -> 0 .. TotalRows - 1]
    BY DEF TypeOK, ActionsTypeOK, DatabaseTypeOK, JobsTypeOK

LEMMA DatabaseTypeStep ==
    ASSUME TypeOK, DatabaseStep
    PROVE  DatabaseTypeOK'
<1>t. DatabaseTypeOK /\ 1 .. TotalRows \subseteq Ids /\ pc \in [Actions -> {"idle", "test", "command", "send", "done"}]
    BY CircleAssumption, TypeParts DEF Ids, ActionsTypeOK
<1> USE <1>t DEF DatabaseTypeOK
<1>1. CASE UNCHANGED <<dbVars, quiet>>
    BY <1>1 DEF dbVars
<1>2. CASE \E S \in SUBSET (1 .. TotalRows) : Insert(S)
  <2>1. PICK S \in SUBSET (1 .. TotalRows) : Insert(S)
      BY <1>2
  <2>2. \A i \in S : i \in Ids /\ Succ(i) \in Ids
      BY CircleAssumption DEF Succ, Ids
  <2>3. db' \in [Ids -> Ids \cup {NoRow}]
      BY <2>1, <2>2 DEF Insert
  <2>4. UNCHANGED <<index, jobs, faults>> /\ indexed' \in SUBSET Ids
      BY <2>1, <2>2 DEF Insert
  <2>5. quiet' \in [Actions -> BOOLEAN]
      BY <2>1 DEF Insert
  <2> QED
      BY <2>3, <2>4, <2>5
<1>3. CASE index' \in {index, TRUE} /\ UNCHANGED <<db, indexed, jobs, faults, quiet>>
    BY <1>3
<1>4. CASE index /\ jobs' = Append(jobs, "RUNNING") /\ UNCHANGED <<db, index, indexed, faults, quiet>>
    BY <1>4
<1>5. CASE JobStep
  <2>1. indexed' \in SUBSET Ids /\ UNCHANGED <<db, index, faults, quiet>>
      BY <1>5 DEF JobStep, historyVars
  <2>2. PICK j \in 1 .. Len(jobs), x \in {"FINISHED", "FAILED"} : jobs' = [jobs EXCEPT ![j] = x]
      BY <1>5 DEF JobStep
  <2>3. jobs' \in Seq({"RUNNING", "FINISHED", "FAILED"})
      BY <2>2, ExceptSeq, x \in {"RUNNING", "FINISHED", "FAILED"}
  <2> QED
      BY <2>1, <2>3
<1>6. CASE Fault
  <2>1. db' \in [Ids -> Ids \cup {NoRow}] /\ quiet' \in [Actions -> BOOLEAN]
      BY <1>6 DEF Fault
  <2>2. faults' \in 0 .. MaxFaults
      BY <1>6, CircleAssumption DEF Fault
  <2> QED
      BY <1>6, <2>1, <2>2 DEF Fault
<1> QED
    BY <1>1, <1>2, <1>3, <1>4, <1>5, <1>6 DEF DatabaseStep

LEMMA FollowType ==
    ASSUME TypeOK, NEW a \in Actions, NEW next \in Ids, Follow(a, next), pc[a] = "send"
    PROVE  ActionsTypeOK'
<1>1. ActionsTypeOK /\ Ids \subseteq Nat
    BY TypeParts, CircleAssumption DEF Ids
<1>2. path' \in [Actions -> Seq(Ids)]
    BY <1>1 DEF Follow, ActionsTypeOK
<1>3. count' \in [Actions -> 0 .. TotalRows]
  <2>1. count \in [Actions -> 0 .. TotalRows] /\ count[a] \in 0 .. TotalRows /\ TotalRows \in Nat
      BY <1>1, CircleAssumption DEF ActionsTypeOK
  <2>2. count' = count \/ (count[a] + 1 <= TotalRows /\ count' = [count EXCEPT ![a] = count[a] + 1])
      BY <2>1 DEF Follow
  <2> QED
      BY <2>1, <2>2
<1>4. tries' \in [Actions -> 0 .. Try]
  <2>1. tries' = tries \/ tries' = [tries EXCEPT ![a] = 0]
      BY DEF Follow
  <2>2. tries \in [Actions -> 0 .. Try] /\ 0 \in 0 .. Try
      BY <1>1, CircleAssumption DEF ActionsTypeOK
  <2> QED
      BY <2>1, <2>2
<1> QED
    BY <1>1, <1>2, <1>3, <1>4 DEF Follow, ActionsTypeOK, Return

LEMMA ActionsTypeStep ==
    ASSUME TypeOK, NEW a \in Actions, DoRun(a)
    PROVE  ActionsTypeOK'
<1>t. ActionsTypeOK /\ DatabaseTypeOK /\ start \in [Actions -> 0 .. TotalRows - 1]
    BY TypeParts
<1>u. 0 .. TotalRows - 1 \subseteq Ids /\ 1 \in 0 .. TotalRows /\ 0 \in 0 .. Try
    BY CircleAssumption DEF Ids
<1>f. ASSUME SendFails(a), tries[a] + 1 < Try, UNCHANGED path PROVE ActionsTypeOK'
    BY <1>t, <1>f, CircleAssumption DEF SendFails, ActionsTypeOK
<1>r. ASSUME NEW x \in {"OK", "ERR_FAILED"}, Return(a, x), UNCHANGED <<tries, row, id, count, path>> PROVE ActionsTypeOK'
    BY <1>t, <1>r DEF Return, ActionsTypeOK
<1>1. CASE Start(a)
    BY <1>1, <1>t, <1>u DEF Start, ActionsTypeOK, historyVars
<1>2. CASE GiveUp(a)
    BY <1>2, <1>r DEF GiveUp, historyVars
<1>3. CASE WriteBatch(a)
  <2>1. CASE SendFails(a)
      BY <1>3, <2>1, <1>f DEF WriteBatch, Sends
  <2>2. CASE Return(a, "OK") /\ UNCHANGED <<tries, row, id, count>>
      BY <1>3, <2>2, <1>r DEF WriteBatch
  <2>3. CASE /\ TotalRows \notin row[a] .. BatchEnd(row[a])
             /\ row' = [row EXCEPT ![a] = BatchEnd(row[a]) + 1]
             /\ tries' = [tries EXCEPT ![a] = 0]
             /\ UNCHANGED <<pc, rc, id, count>>
    <3>1. row[a] \in 1 .. TotalRows
        BY <1>t DEF ActionsTypeOK
    <3>2. BatchEnd(row[a]) + 1 \in 1 .. TotalRows
        BY <2>3, <3>1, Batches, CircleAssumption DEF BatchEnd
    <3> QED
        BY <1>3, <2>3, <3>2, <1>t, <1>u DEF WriteBatch, ActionsTypeOK
  <2> QED
      BY <1>3, <2>1, <2>2, <2>3 DEF WriteBatch
<1>4. CASE Fetch(a)
  <2>1. db[id[a]] \in Ids \cup {NoRow}
      BY <1>t DEF ActionsTypeOK, DatabaseTypeOK
  <2>2. CASE SendFails(a) /\ UNCHANGED path
      BY <1>4, <2>2, <1>f DEF Fetch, Sends
  <2>3. CASE NothingFound(a)
      BY <2>3, <1>r DEF NothingFound
  <2>4. CASE db[id[a]] \in Ids /\ Follow(a, db[id[a]])
      BY <1>4, <2>4, FollowType DEF Fetch, Sends
  <2> QED
      BY <1>4, <2>1, <2>2, <2>3, <2>4 DEF Fetch
<1>5. CASE LookUp(a)
  <2>2. CASE SendFails(a) /\ UNCHANGED path
      BY <1>5, <2>2, <1>f DEF LookUp, Sends
  <2>3. CASE NothingFound(a)
      BY <2>3, <1>r DEF NothingFound
  <2>4. CASE \E i \in indexed : Follow(a, i)
      BY <1>5, <2>4, <1>t, FollowType DEF LookUp, Sends, DatabaseTypeOK
  <2> QED
      BY <1>5, <2>2, <2>3, <2>4 DEF LookUp
<1>6. CASE CreateIndex(a)
    BY <1>6, <1>f, <1>r DEF CreateIndex, Sends, historyVars
<1>7. CASE RebuildIndex(a)
    BY <1>7, <1>f, <1>r DEF RebuildIndex, Sends, historyVars
<1>8. CASE TestJob(a) \/ Command(a)
    BY <1>8, <1>t DEF TestJob, Command, Return, ActionsTypeOK, historyVars
<1>9. CASE CheckJob(a)
    BY <1>9, <1>f, <1>r DEF CheckJob, Sends, historyVars
<1> QED
    BY <1>1, <1>2, <1>3, <1>4, <1>5, <1>6, <1>7, <1>8, <1>9 DEF DoRun

LEMMA TypeStep ==
    ASSUME TypeOK, [Next]_vars
    PROVE  TypeOK'
<1>t. ActionsTypeOK /\ DatabaseTypeOK /\ JobsTypeOK /\ start' \in [Actions -> 0 .. TotalRows - 1]
    BY TypeParts, StartKept
<1>1. DatabaseStep /\ DatabaseTypeOK'
    BY DatabaseSteps, DatabaseTypeStep
<1>2. ActionsTypeOK'
    BY <1>t, ActionsTypeStep DEF Next, AllEnded, JobStep, Fault, vars, actionVars, ActionsTypeOK, historyVars
<1>3. Len(jobs) \in Nat /\ Len(jobs') \in Nat
    BY <1>t, <1>1 DEF DatabaseTypeOK
<1>4. ASSUME NEW a \in Actions, DoRun(a) PROVE JobsTypeOK'
  <2>1. CASE RebuildIndex(a)
    <3>1. jobs' = jobs \/ (jobs' = Append(jobs, "RUNNING") /\ Len(jobs') = Len(jobs) + 1)
        BY <2>1, <1>t, AppendProperties DEF RebuildIndex, DatabaseTypeOK
    <3>2. Len(jobs') >= Len(jobs) /\ jobId' = jobId /\ (jobVar' = jobVar \/ (jobVar' = Len(jobs) + 1 /\ Len(jobs') = Len(jobs) + 1))
        BY <2>1, <3>1, <1>3, <1>t, AppendProperties DEF RebuildIndex, DatabaseTypeOK
    <3> QED
        BY <3>2, <1>3, <1>t DEF JobsTypeOK
  <2>2. CASE TestJob(a) \/ Command(a)
      BY <2>2, <1>t DEF TestJob, Command, JobsTypeOK, dbVars
  <2>3. CASE ~RebuildIndex(a) /\ ~TestJob(a) /\ ~Command(a)
    <3>1. UNCHANGED <<jobs, jobId, jobVar>>
        BY <1>4, <2>3 DEF DoRun, Start, GiveUp, WriteBatch, Insert, Fetch, LookUp, CreateIndex, CheckJob, dbVars
    <3> QED
        BY <3>1, <1>t DEF JobsTypeOK
  <2> QED
      BY <2>1, <2>2, <2>3
<1>5. ASSUME JobStep PROVE JobsTypeOK'
  <2>1. PICK j \in 1 .. Len(jobs), x \in {"FINISHED", "FAILED"} : jobs' = [jobs EXCEPT ![j] = x]
      BY <1>5 DEF JobStep
  <2>2. Len(jobs') = Len(jobs)
      BY <2>1, <1>t, ExceptSeq, x \in {"RUNNING", "FINISHED", "FAILED"} DEF DatabaseTypeOK
  <2>3. jobId' = jobId /\ jobVar' = jobVar
      BY <1>5 DEF JobStep, actionVars
  <2> QED
      BY <2>2, <2>3, <1>t DEF JobsTypeOK
<1>6. ASSUME Fault \/ UNCHANGED vars PROVE JobsTypeOK'
  <2>1. jobId' = jobId /\ jobVar' = jobVar /\ jobs' = jobs
      BY <1>6 DEF Fault, vars, actionVars, dbVars
  <2> QED
      BY <2>1, <1>t DEF JobsTypeOK
<1>7. JobsTypeOK'
  <2>1. (\E a \in Actions : DoRun(a)) \/ JobStep \/ Fault \/ UNCHANGED vars
      BY DEF Next, AllEnded
  <2> QED
      BY <2>1, <1>4, <1>5, <1>6
<1> QED
    BY <1>t, <1>1, <1>2, <1>7, TypeParts

-----------------------------------------------------------------------------
(* How an action gets on.                                                  *)
LEMMA Moves ==
    ASSUME TypeOK, NEW a \in Actions, DoRun(a)
    PROVE  /\ pc[a] # "done" /\ pc'[a] # "idle"
           /\ pc[a] = "idle" => \A b \in After[a] : rc[b] = "OK"
           /\ IF pc'[a] = "done" THEN rc'[a] \in {"OK", "ERR_FAILED"} ELSE rc'[a] = rc[a]
           /\ pc'[a] \in {"test", "command"} => Kind[a] = "check" \/ pc[a] = "test"
           /\ pc'[a] = "command" => jobVar # 0
           /\ Kind[a] = "check" /\ pc'[a] = "send" =>
                \/ jobId'[a] = jobVar /\ pc[a] = "command"
                \/ jobId'[a] = jobId[a] /\ pc[a] = "send"
           /\ Kind[a] = "check" /\ rc'[a] = "OK" /\ pc'[a] = "done" => pc[a] = "send" /\ jobs[jobId[a]] = "FINISHED"
<1>t. a \in DOMAIN pc /\ a \in DOMAIN rc /\ a \in DOMAIN jobId
    BY DEF TypeOK
<1> USE <1>t DEF Return
<1>1. CASE Start(a)
    BY <1>1 DEF Start
<1>2. CASE GiveUp(a)
    BY <1>2 DEF GiveUp
<1>3. CASE WriteBatch(a)
    BY <1>3 DEF WriteBatch, Sends, SendFails
<1>4. CASE Fetch(a)
    BY <1>4 DEF Fetch, Sends, SendFails, NothingFound, Follow
<1>5. CASE LookUp(a)
    BY <1>5 DEF LookUp, Sends, SendFails, NothingFound, Follow
<1>6. CASE CreateIndex(a)
    BY <1>6 DEF CreateIndex, Sends, SendFails
<1>7. CASE RebuildIndex(a)
    BY <1>7 DEF RebuildIndex, Sends, SendFails
<1>8. CASE TestJob(a)
    BY <1>8 DEF TestJob
<1>9. CASE Command(a)
    BY <1>9 DEF Command
<1>10. CASE CheckJob(a)
    BY <1>10 DEF CheckJob, Sends, SendFails
<1> QED
    BY <1>1, <1>2, <1>3, <1>4, <1>5, <1>6, <1>7, <1>8, <1>9, <1>10 DEF DoRun

(* A step is one of an action, or changes no action's variables.           *)
LEMMA Steps ==
    ASSUME [Next]_vars
    PROVE  (\E a \in Actions : DoRun(a)) \/ UNCHANGED <<actionVars, jobVar, path>>
BY DEF Next, AllEnded, JobStep, Fault, vars, historyVars

LEMMA ResultKept ==
    ASSUME TypeOK, PlaceInv, [Next]_vars, NEW a \in Actions, rc[a] # "none"
    PROVE  rc'[a] = rc[a] /\ pc'[a] = pc[a] /\ pc[a] = "done"
<1>1. pc[a] = "done"
    BY DEF PlaceInv, PlaceAt
<1> QED
    BY <1>1, Steps, OthersKept, Moves DEF actionVars

LEMMA PlaceStep ==
    ASSUME TypeOK, PlaceInv, [Next]_vars
    PROVE  PlaceInv'
<1>1. \A j \in 1 .. Len(jobs) : jobs[j] = "FINISHED" => j \in 1 .. Len(jobs') /\ jobs'[j] = "FINISHED"
    BY DatabaseSteps, RowsKept
<1>2. jobVar # 0 => jobVar' # 0
  <2>1. Len(jobs) \in Nat
      BY DEF TypeOK
  <2>2. ASSUME NEW a \in Actions, DoRun(a) PROVE jobVar' \in {jobVar, Len(jobs) + 1}
      BY <2>2 DEF DoRun, Start, GiveUp, WriteBatch, Fetch, LookUp, CreateIndex, RebuildIndex,
                  TestJob, Command, CheckJob
  <2> QED
      BY <2>1, <2>2, Steps
<1>3. ASSUME NEW b \in Actions, NEW c \in After[b], rc[c] = "OK" PROVE rc'[c] = "OK"
    BY <1>3, ResultKept, CircleAssumption
<1> SUFFICES ASSUME NEW b \in Actions PROVE PlaceAt(b)'
    BY DEF PlaceInv
<1>p. PlaceAt(b)
    BY DEF PlaceInv
<1>4. CASE UNCHANGED <<pc, rc, jobId>> \/ \E a \in Actions \ {b} : DoRun(a)
  <2>1. pc'[b] = pc[b] /\ rc'[b] = rc[b] /\ jobId'[b] = jobId[b]
      BY <1>4, OthersKept
  <2> QED
      BY <2>1, <1>1, <1>2, <1>3, <1>p DEF PlaceAt
<1>5. CASE DoRun(b)
  <2>1. rc[b] = "none"
      BY <1>5, <1>p, Moves DEF PlaceAt
  <2>2. rc'[b] = "none" <=> pc'[b] # "done"
      BY <1>5, <2>1, Moves
  <2>3. \A c \in After[b] : rc'[c] = "OK"
      BY <1>5, <1>p, <1>3, Moves DEF PlaceAt
  <2>4. (pc'[b] = "command" => jobVar' # 0) /\ (Kind[b] = "check" /\ pc'[b] = "send" => jobId'[b] # 0)
      BY <1>5, <1>p, <1>2, Moves DEF PlaceAt
  <2>5. ASSUME Kind[b] = "check", rc'[b] = "OK" PROVE \E j \in 1 .. Len(jobs') : jobs'[j] = "FINISHED"
    <3>1. jobId[b] \in 1 .. Len(jobs) /\ jobs[jobId[b]] = "FINISHED"
      <4>1. jobId[b] \in 0 .. Len(jobs) /\ Len(jobs) \in Nat
          BY DEF TypeOK
      <4>2. pc[b] = "send" /\ jobs[jobId[b]] = "FINISHED"
          BY <1>5, <2>5, <2>2, Moves
      <4> QED
          BY <4>1, <4>2, <2>5, <1>p DEF PlaceAt
    <3> QED
        BY <3>1, <1>1
  <2>6. pc'[b] \in {"test", "command"} => Kind[b] = "check"
      BY <1>5, <1>p, Moves DEF PlaceAt
  <2> QED
      BY <2>2, <2>3, <2>4, <2>5, <2>6 DEF PlaceAt
<1> QED
    BY <1>4, <1>5, Steps DEF actionVars

-----------------------------------------------------------------------------
LEMMA WrittenStep ==
    ASSUME TypeOK, PlaceInv, WrittenInv, [Next]_vars
    PROVE  WrittenInv'
<1>1. /\ faults' \in Nat
      /\ faults' = 0 => faults = 0 /\ \A i \in 1 .. TotalRows : db[i] = Succ(i) => db'[i] = Succ(i)
    BY DatabaseSteps, RowsKept
<1> SUFFICES ASSUME NEW b \in Actions PROVE WrittenAt(b)'
    BY DEF WrittenInv
<1>2. WrittenAt(b) /\ row[b] \in 1 .. TotalRows /\ TotalRows \in Nat
    BY CircleAssumption DEF TypeOK, WrittenInv
<1>3. CASE UNCHANGED <<pc, rc, row>> \/ \E a \in Actions \ {b} : DoRun(a)
  <2>1. pc'[b] = pc[b] /\ rc'[b] = rc[b] /\ row'[b] = row[b]
      BY <1>3, OthersKept
  <2> QED
      BY <2>1, <1>1, <1>2 DEF WrittenAt
<1>4. CASE DoRun(b)
  <2>1. rc[b] = "none" /\ rc[b] # "OK" /\ pc'[b] # "idle" /\ b \in DOMAIN pc /\ b \in DOMAIN rc /\ b \in DOMAIN row
      BY <1>4, Moves DEF PlaceInv, PlaceAt, TypeOK
  <2>2. CASE Start(b)
    <3>1. row'[b] = 1 /\ rc'[b] = rc[b]
        BY <2>2, <1>2 DEF Start, WrittenAt
    <3> QED
        BY <3>1, <2>1 DEF WrittenAt
  <2>3. CASE GiveUp(b)
      BY <2>1, <2>3 DEF GiveUp, Return, WrittenAt
  <2>4. CASE WriteBatch(b)
    <3> SUFFICES ASSUME faults' = 0
                 PROVE  /\ pc'[b] = "send" => \A i \in 1 .. row'[b] - 1 : db'[i] = Succ(i)
                        /\ rc'[b] = "OK" => \A i \in 1 .. TotalRows : db'[i] = Succ(i)
        BY <2>1 DEF WrittenAt
    <3>1. \A i \in 1 .. row[b] - 1 : db'[i] = Succ(i)
        BY <2>4, <1>1, <1>2 DEF WriteBatch, Sends, WrittenAt
    <3>2. CASE SendFails(b)
        BY <3>1, <3>2, <2>1 DEF SendFails
    <3>3. CASE /\ Insert(row[b] .. BatchEnd(row[b]))
               /\ IF TotalRows \in row[b] .. BatchEnd(row[b])
                  THEN Return(b, "OK") /\ UNCHANGED <<tries, row>>
                  ELSE /\ row' = [row EXCEPT ![b] = BatchEnd(row[b]) + 1]
                       /\ tries' = [tries EXCEPT ![b] = 0]
                       /\ UNCHANGED <<pc, rc>>
      <4>1. \A i \in row[b] .. BatchEnd(row[b]) : db'[i] = Succ(i)
        <5>1. row[b] .. BatchEnd(row[b]) \subseteq Ids
            BY Batches, CircleAssumption DEF Ids
        <5> QED
            BY <3>3, <5>1 DEF Insert
      <4>2. \A i \in 1 .. BatchEnd(row[b]) : db'[i] = Succ(i)
          BY <3>1, <4>1, <1>2, Batches
      <4>3. CASE TotalRows \in row[b] .. BatchEnd(row[b])
        <5>1. pc'[b] = "done" /\ BatchEnd(row[b]) = TotalRows
            BY <3>3, <4>3, <2>1, Batches DEF Return
        <5> QED
            BY <4>2, <5>1
      <4>4. CASE TotalRows \notin row[b] .. BatchEnd(row[b])
        <5>1. row'[b] - 1 = BatchEnd(row[b]) /\ rc'[b] = rc[b]
            BY <3>3, <4>4, <2>1, Batches
        <5> QED
            BY <4>2, <5>1, <2>1
      <4> QED
          BY <4>3, <4>4
    <3> QED
        BY <2>4, <3>2, <3>3 DEF WriteBatch
  <2>5. CASE Kind[b] # "write" /\ ~Start(b)
      BY <2>1, <2>5 DEF WrittenAt
  <2>6. pc[b] \in {"test", "command"} => Kind[b] = "check"
      BY DEF PlaceInv, PlaceAt
  <2>7. Start(b) \/ GiveUp(b) \/ WriteBatch(b) \/ (Kind[b] # "write" /\ ~Start(b))
      BY <1>4, <2>6 DEF DoRun, Fetch, LookUp, CreateIndex, RebuildIndex, TestJob, Command, CheckJob, Sends
  <2> QED
      BY <2>2, <2>3, <2>4, <2>5, <2>7
<1> QED
    BY <1>3, <1>4, Steps DEF actionVars

-----------------------------------------------------------------------------
(* What a walk or a lookup may do.                                         *)
LEMMA WalkMoves ==
    ASSUME TypeOK, PlaceInv, NEW b \in Walks, DoRun(b)
    PROVE  /\ db' = db /\ quiet' = quiet /\ faults' = faults
           /\ Kind[b] \in {"walk", "lookup"} /\ b \in Actions
           /\ Start(b) \/ GiveUp(b) \/ Fetch(b) \/ LookUp(b)
<1>1. Kind[b] \in {"walk", "lookup"} /\ b \in Actions
    BY DEF Walks, Of
<1>2. pc[b] \notin {"test", "command"}
    BY <1>1 DEF PlaceInv, PlaceAt
<1>3. Start(b) \/ GiveUp(b) \/ Fetch(b) \/ LookUp(b)
    BY <1>1, <1>2 DEF DoRun, WriteBatch, CreateIndex, RebuildIndex, TestJob, Command, CheckJob, Sends
<1> QED
    BY <1>1, <1>3 DEF Start, GiveUp, Fetch, LookUp, dbVars, historyVars

LEMMA FollowStep ==
    ASSUME TypeOK, NEW b \in Walks, WalkAt(b), pc[b] = "send", rc[b] = "none",
           NEW next \in Ids, Follow(b, next),
           IF Kind[b] = "walk" THEN db[id[b]] = next ELSE db[next] = id[b],
           start' = start, db' = db, quiet' = quiet
    PROVE  WalkAt(b)'
<1>1. b \in Actions /\ path[b] \in Seq(Ids) /\ TotalRows \in Nat \ {0}
    BY CircleAssumption DEF TypeOK, Walks, Of
<1>n. PICK n \in Nat : n = Len(path[b])
    BY <1>1
<1>2. path'[b] = Append(path[b], next)
    BY <1>1 DEF Follow, TypeOK
<1>3. Len(path'[b]) = n + 1 /\ path'[b][n + 1] = next /\ \A i \in 1 .. n : path'[b][i] = path[b][i]
    BY <1>1, <1>2, <1>n, AppendProperties
<1>4. count[b] = n + 1 /\ id[b] = Come(b, n) /\ \A i \in 1 .. n : path[b][i] # start[b]
    BY <1>n DEF WalkAt
<1>5. \A i \in 0 .. n : Come(b, i)' = Come(b, i)
    BY <1>1, <1>3 DEF Come
<1>6. ASSUME quiet'[b] PROVE \A i \in 1 .. n + 1 : Linked(b, i)'
  <2>1. \A i \in 1 .. n : Linked(b, i)
      BY <1>6, <1>n DEF WalkAt
  <2>2. \A i \in 1 .. n : Linked(b, i)'
      BY <1>1, <1>3, <1>5, <2>1 DEF Linked
  <2>3. Linked(b, n + 1)'
    <3>1. (n + 1) - 1 = n /\ Come(b, n)' = id[b]
        BY <1>1, <1>4, <1>5
    <3>2. Come(b, (n + 1) - 1)' = id[b]
        BY <3>1
    <3> QED
        BY <3>2, <1>3 DEF Linked
  <2>4. \A i \in 1 .. n + 1 : i \in 1 .. n \/ i = n + 1
      BY <1>1
  <2> QED
      BY <2>2, <2>3, <2>4
<1>7. CASE next = start[b] \/ count[b] + 1 > TotalRows
  <2>1. pc'[b] = "done" /\ rc'[b] = IF next = start[b] /\ count[b] = TotalRows THEN "OK" ELSE "ERR_FAILED"
      BY <1>1, <1>7 DEF Follow, Return, TypeOK
  <2>2. ASSUME rc'[b] = "OK"
        PROVE  /\ Len(path'[b]) = TotalRows
               /\ path'[b][TotalRows] = start[b]
               /\ \A i \in 1 .. TotalRows - 1 : path'[b][i] # start[b]
    <3>1. next = start[b] /\ n + 1 = TotalRows
        BY <2>1, <2>2, <1>4
    <3> QED
        BY <3>1, <1>1, <1>3, <1>4
  <2> QED
      BY <2>1, <2>2, <1>3, <1>6 DEF WalkAt
<1>8. CASE ~(next = start[b] \/ count[b] + 1 > TotalRows)
  <2>1. pc'[b] = "send" /\ rc'[b] = "none" /\ id'[b] = next /\ count'[b] = n + 2
    <3>1. id \in [Actions -> Ids] /\ count \in [Actions -> 0 .. TotalRows]
        BY DEF TypeOK
    <3>2. /\ id' = [id EXCEPT ![b] = next]
          /\ count' = [count EXCEPT ![b] = count[b] + 1]
          /\ pc' = pc /\ rc' = rc
        BY <1>8 DEF Follow
    <3> QED
        BY <3>1, <3>2, <1>1, <1>4
  <2>2. id'[b] = Come(b, n + 1)'
      BY <2>1, <1>1, <1>3 DEF Come
  <2>3. \A i \in 1 .. n + 1 : path'[b][i] # start[b]
      BY <1>1, <1>3, <1>4, <1>8
  <2>4. count'[b] = Len(path'[b]) + 1 /\ id'[b] = Come(b, Len(path[b]))'
      BY <2>1, <2>2, <1>1, <1>3 DEF Come
  <2> QED
      BY <2>1, <2>3, <2>4, <1>3, <1>6 DEF WalkAt
<1> QED
    BY <1>7, <1>8

LEMMA WalkStep ==
    ASSUME TypeOK, PlaceInv, WalkInv, [Next]_vars
    PROVE  WalkInv'
<1>s. start' = start /\ start \in [Actions -> 0 .. TotalRows - 1]
    BY StartKept DEF TypeOK
<1> SUFFICES ASSUME NEW b \in Walks PROVE WalkAt(b)'
    BY DEF WalkInv, Walks, Of
<1>t. b \in Actions /\ WalkAt(b) /\ PlaceAt(b)
    BY DEF WalkInv, PlaceInv, Walks, Of
<1>1. CASE UNCHANGED <<pc, rc, id, count, path>> \/ \E a \in Actions \ {b} : DoRun(a)
  <2>1. pc'[b] = pc[b] /\ rc'[b] = rc[b] /\ id'[b] = id[b] /\ count'[b] = count[b] /\ path'[b] = path[b]
      BY <1>1, <1>t, OthersKept
  <2>2. quiet' = IF db' = db THEN quiet ELSE [a \in Actions |-> pc[a] = "idle"]
      BY DatabaseSteps, RowsKept
  <2>3. \A i : Come(b, i)' = Come(b, i)
      BY <2>1, <1>s DEF Come
  <2>4. ASSUME quiet'[b], pc[b] = "send" \/ rc[b] = "OK" PROVE \A i \in 1 .. Len(path[b]) : Linked(b, i)'
    <3>1. db' = db /\ quiet[b]
        BY <2>2, <2>4, <1>t DEF PlaceAt
    <3>2. \A i \in 1 .. Len(path[b]) : Linked(b, i)
        BY <3>1, <2>4, <1>t DEF WalkAt
    <3> QED
        BY <3>1, <3>2, <2>1, <2>3 DEF Linked
  <2> QED
      BY <2>1, <2>3, <2>4, <1>s, <1>t DEF WalkAt
<1>2. CASE DoRun(b)
  <2>1. db' = db /\ quiet' = quiet /\ (Start(b) \/ GiveUp(b) \/ Fetch(b) \/ LookUp(b)) /\ rc[b] = "none"
      BY <1>2, <1>t, WalkMoves, Moves DEF PlaceAt
  <2>2. b \in DOMAIN pc /\ b \in DOMAIN rc /\ b \in DOMAIN id /\ b \in DOMAIN count
      BY <1>t DEF TypeOK
  <2>3. CASE Start(b)
    <3>1. pc'[b] # "idle" /\ path'[b] = <<>> /\ rc'[b] = "none" /\ id'[b] = start[b] /\ count'[b] = 1
        BY <2>1, <2>2, <2>3, <1>t DEF Start, WalkAt, historyVars
    <3>2. Len(path'[b]) = 0
        BY <3>1, EmptySeq
    <3> QED
        BY <3>1, <3>2, <1>s DEF WalkAt, Come
  <2>4. ASSUME Return(b, "ERR_FAILED"), path' = path PROVE WalkAt(b)'
    <3>1. pc'[b] = "done" /\ rc'[b] = "ERR_FAILED"
        BY <2>2, <2>4 DEF Return
    <3> QED
        BY <3>1 DEF WalkAt
  <2>5. ASSUME SendFails(b), path' = path PROVE WalkAt(b)'
    <3>1. pc' = pc /\ rc' = rc /\ id' = id /\ count' = count
        BY <2>5 DEF SendFails
    <3> QED
        BY <2>1, <2>5, <3>1, <1>s, <1>t DEF WalkAt, Come, Linked
  <2>6. CASE GiveUp(b)
      BY <2>4, <2>6 DEF GiveUp, historyVars
  <2>7. CASE Fetch(b)
    <3>1. db[id[b]] \in Ids \cup {NoRow}
        BY <1>t DEF TypeOK
    <3>2. pc[b] = "send" /\ Kind[b] = "walk"
        BY <2>7 DEF Fetch, Sends
    <3>3. CASE db[id[b]] # NoRow /\ Follow(b, db[id[b]])
        BY <3>1, <3>2, <3>3, <2>1, <1>s, <1>t, FollowStep
    <3> QED
        BY <2>7, <2>4, <2>5, <3>3 DEF Fetch, NothingFound
  <2>8. CASE LookUp(b)
    <3>1. pc[b] = "send" /\ Kind[b] = "lookup" /\ indexed \subseteq Ids
        BY <2>8 DEF LookUp, Sends, TypeOK
    <3>2. ASSUME NEW i \in indexed, db[i] = id[b], Follow(b, i) PROVE WalkAt(b)'
        BY <3>1, <3>2, <2>1, <1>s, <1>t, FollowStep
    <3> QED
        BY <2>8, <2>4, <2>5, <3>2 DEF LookUp, NothingFound
  <2> QED
      BY <2>1, <2>3, <2>6, <2>7, <2>8
<1> QED
    BY <1>1, <1>2, Steps DEF actionVars

-----------------------------------------------------------------------------
(* The arithmetic of the circle.                                           *)
LEMMA Around ==
    ASSUME NEW s \in 1 .. TotalRows - 1, NEW n \in 1 .. TotalRows
    PROVE  /\ Forth(s, n) \in 1 .. TotalRows /\ Back(s, n) \in 1 .. TotalRows
           /\ Forth(s, 1) = s /\ Back(s, 1) = s
           /\ Succ(Forth(s, n)) = Forth(s, n + 1) /\ Succ(Back(s, n + 1)) = Back(s, n)
           /\ (Forth(s, n + 1) = s) <=> (n = TotalRows)
           /\ (Back(s, n + 1) = s) <=> (n = TotalRows)
<1>1. TotalRows \in Nat \ {0}
    BY CircleAssumption
<1> QED
    BY <1>1 DEF Forth, Back, Succ

LEMMA OneBefore ==
    ASSUME NEW i \in 1 .. TotalRows, NEW j \in 1 .. TotalRows, Succ(i) = Succ(j)
    PROVE  i = j
BY CircleAssumption DEF Succ

(* On a good start a walk finds the circle complete, a lookup its index.   *)
LEMMA GoodRows ==
    ASSUME TypeOK, RowsInv, PlaceInv, WrittenInv, NEW b \in Walks, GoodStart(b), pc[b] # "idle"
    PROVE  /\ start[b] \in 1 .. TotalRows - 1
           /\ \A i \in 1 .. TotalRows : db[i] = Succ(i) /\ Succ(i) \in 1 .. TotalRows
           /\ Kind[b] = "lookup" =>
                index /\ \A n \in 1 .. TotalRows : n \in indexed
           /\ \A i \in Ids : db[i] # NoRow => i \in 1 .. TotalRows
<1>1. b \in Actions /\ TotalRows \in Nat \ {0} /\ 1 .. TotalRows \subseteq Ids /\ faults = 0
    BY CircleAssumption DEF Walks, Of, Ids, GoodStart
<1>2. start[b] \in 1 .. TotalRows - 1
    BY <1>1 DEF TypeOK, GoodStart
<1>3. \A c \in After[b] : c \in Actions /\ rc[c] = "OK"
    BY <1>1, CircleAssumption DEF PlaceInv, PlaceAt
<1>4. \A i \in 1 .. TotalRows : db[i] = Succ(i)
  <2>1. PICK c \in Actions : Kind[c] = "write" /\ rc[c] = "OK"
      BY <1>3 DEF GoodStart, Of
  <2> QED
      BY <2>1, <1>1 DEF WrittenInv, WrittenAt
<1>5. \A i \in 1 .. TotalRows : Succ(i) \in 1 .. TotalRows /\ Succ(i) # NoRow
    BY <1>1, CircleAssumption DEF Succ
<1>6. ASSUME Kind[b] = "lookup" PROVE index /\ \A n \in 1 .. TotalRows : n \in indexed
  <2>1. PICK c \in Actions : Kind[c] = "check" /\ rc[c] = "OK"
      BY <1>3, <1>6 DEF GoodStart, Of
  <2>2. PICK j \in 1 .. Len(jobs) : jobs[j] = "FINISHED"
      BY <2>1 DEF PlaceInv, PlaceAt
  <2>3. jobs # <<>>
      BY <2>2, EmptySeq
  <2> QED
      BY <2>2, <2>3, <1>1, <1>4, <1>5 DEF RowsInv
<1>7. ASSUME NEW i \in Ids, db[i] # NoRow PROVE i \in 1 .. TotalRows
    BY <1>1, <1>7 DEF RowsInv, Ids
<1> QED
    BY <1>2, <1>4, <1>5, <1>6, <1>7

(* The place a walk is to be at when it reads vertex n.                    *)
Due(a, n) == IF Kind[a] = "walk" THEN Forth(start[a], n) ELSE Back(start[a], n)

LEMMA FollowOnCourse ==
    ASSUME TypeOK, NEW b \in Walks, pc[b] = "send", rc[b] = "none", NEW next, Follow(b, next),
           start[b] \in 1 .. TotalRows - 1, count[b] \in 1 .. TotalRows, next = Due(b, count[b] + 1)
    PROVE  /\ pc'[b] = "send" => id'[b] = next /\ count'[b] = count[b] + 1
           /\ rc'[b] # "ERR_FAILED"
<1>1. b \in Actions
    BY DEF Walks, Of
<1>2. next = start[b] <=> count[b] = TotalRows
    BY Around DEF Due
<1>3. count[b] \in Int /\ TotalRows \in Int
    BY CircleAssumption
<1>4. pc \in [Actions -> {"idle", "test", "command", "send", "done"}]
      /\ rc \in [Actions -> {"none", "OK", "ERR_FAILED"}]
      /\ id \in [Actions -> Ids] /\ count \in [Actions -> 0 .. TotalRows]
    BY DEF TypeOK
<1>5. CASE next = start[b] \/ count[b] + 1 > TotalRows
  <2>1. Return(b, "OK")
      BY <1>2, <1>3, <1>5 DEF Follow
  <2> QED
      BY <2>1, <1>1, <1>4 DEF Return
<1>6. CASE ~(next = start[b] \/ count[b] + 1 > TotalRows)
  <2>1. id' = [id EXCEPT ![b] = next] /\ count' = [count EXCEPT ![b] = count[b] + 1] /\ rc' = rc
      BY <1>6 DEF Follow
  <2> QED
      BY <2>1, <1>1, <1>4
<1> QED
    BY <1>5, <1>6

LEMMA CourseStep ==
    ASSUME TypeOK, RowsInv, PlaceInv, WrittenInv, WalkInv, CourseInv, [Next]_vars
    PROVE  CourseInv'
<1>s. start' = start /\ (faults' = 0 => faults = 0)
    BY StartKept, DatabaseSteps, RowsKept
<1> SUFFICES ASSUME NEW b \in Walks, GoodStart(b)'
             PROVE  /\ pc'[b] = "send" => id'[b] = Due(b, count[b])'
                    /\ rc'[b] = "ERR_FAILED" => tries'[b] + 1 >= Try
    BY DEF CourseInv, OnCourse, Walks, Of, Due
<1>g. GoodStart(b)
    BY <1>s DEF GoodStart
<1>t. /\ b \in Actions /\ PlaceAt(b) /\ WalkAt(b)
      /\ pc[b] = "send" => id[b] = Due(b, count[b])
      /\ rc[b] = "ERR_FAILED" => tries[b] + 1 >= Try
    BY <1>g DEF PlaceInv, WalkInv, CourseInv, OnCourse, Walks, Of, Due
<1>d. \A n : Due(b, n)' = Due(b, n)
    BY <1>s DEF Due, Forth, Back
<1>1. CASE UNCHANGED <<pc, rc, id, count, tries>> \/ \E a \in Actions \ {b} : DoRun(a)
  <2>1. pc'[b] = pc[b] /\ rc'[b] = rc[b] /\ id'[b] = id[b] /\ count'[b] = count[b] /\ tries'[b] = tries[b]
      BY <1>1, <1>t, OthersKept
  <2> QED
      BY <2>1, <1>s, <1>t DEF Due, Forth, Back
<1>2. CASE DoRun(b)
  <2>1. (Start(b) \/ GiveUp(b) \/ Fetch(b) \/ LookUp(b)) /\ rc[b] = "none"
      BY <1>2, <1>t, WalkMoves, Moves DEF PlaceAt
  <2>2. b \in DOMAIN pc /\ b \in DOMAIN rc /\ b \in DOMAIN id /\ b \in DOMAIN count /\ b \in DOMAIN tries
      BY <1>t DEF TypeOK
  <2>3. CASE Start(b)
    <3>1. start[b] \in 1 .. TotalRows - 1 /\ 1 \in 1 .. TotalRows
        BY <1>g, <1>t, CircleAssumption DEF GoodStart, TypeOK
    <3>2. id'[b] = start[b] /\ count'[b] = 1 /\ rc'[b] = "none"
        BY <2>1, <2>2, <2>3 DEF Start
    <3>3. Due(b, 1) = start[b]
        BY <3>1, Around DEF Due
    <3> QED
        BY <3>2, <3>3, <1>s DEF Due, Forth, Back
  <2>4. CASE GiveUp(b)
      BY <2>2, <2>4 DEF GiveUp, Return
  <2>5. CASE Fetch(b) \/ LookUp(b)
    <3>1. pc[b] = "send" /\ Kind[b] \in {"walk", "lookup"} /\ (Fetch(b) => Kind[b] = "walk") /\ (LookUp(b) => Kind[b] = "lookup")
        BY <2>5 DEF Fetch, LookUp, Sends
    <3>2. /\ start[b] \in 1 .. TotalRows - 1
          /\ \A i \in 1 .. TotalRows : db[i] = Succ(i) /\ Succ(i) \in 1 .. TotalRows
          /\ Kind[b] = "lookup" => index /\ \A n \in 1 .. TotalRows : n \in indexed
          /\ \A i \in Ids : db[i] # NoRow => i \in 1 .. TotalRows
        BY <1>g, <3>1, GoodRows
    <3>3. count[b] \in 1 .. TotalRows /\ TotalRows \in Nat \ {0}
      <4>1. count[b] \in 0 .. TotalRows /\ Len(path[b]) \in Nat /\ TotalRows \in Nat \ {0}
          BY <1>t, CircleAssumption DEF TypeOK
      <4> QED
          BY <4>1, <3>1, <1>t DEF WalkAt
    <3>4. id[b] = Due(b, count[b]) /\ id[b] \in 1 .. TotalRows
      <4>1. id[b] = Due(b, count[b])
          BY <3>1, <1>t
      <4>2. Due(b, count[b]) \in 1 .. TotalRows
          BY <3>2, <3>3, Around DEF Due
      <4> QED
          BY <4>1, <4>2
    <3>5. ASSUME NEW next, Follow(b, next), next = Due(b, count[b] + 1)
          PROVE  /\ pc'[b] = "send" => id'[b] = Due(b, count[b])'
                 /\ rc'[b] = "ERR_FAILED" => tries'[b] + 1 >= Try
      <4>1. (pc'[b] = "send" => id'[b] = next /\ count'[b] = count[b] + 1) /\ rc'[b] # "ERR_FAILED"
          BY <3>5, <3>1, <3>2, <3>3, <2>1, FollowOnCourse
      <4> QED
          BY <4>1, <3>5, <1>s DEF Due, Forth, Back
    <3>6. CASE SendFails(b)
      <4>1. pc' = pc /\ rc' = rc /\ id' = id /\ count' = count
          BY <3>6 DEF SendFails
      <4> QED
          BY <4>1, <2>1, <3>1, <3>4, <1>s DEF Due, Forth, Back
    <3>7. CASE Fetch(b) /\ ~SendFails(b)
      <4>1. db[id[b]] = Succ(id[b]) /\ db[id[b]] # NoRow
          BY <3>2, <3>4, CircleAssumption
      <4>2. Succ(id[b]) = Due(b, count[b] + 1)
          BY <3>1, <3>2, <3>3, <3>4, <3>7, Around DEF Due
      <4> QED
          BY <3>5, <3>7, <4>1, <4>2 DEF Fetch
    <3>8. CASE LookUp(b) /\ ~SendFails(b)
      <4>1. Due(b, count[b] + 1) \in 1 .. TotalRows /\ Succ(Due(b, count[b] + 1)) = id[b]
        <5>1. Kind[b] # "walk"
            BY <3>1, <3>8
        <5>2. Back(start[b], count[b] + 1) \in 1 .. TotalRows
            BY <3>2, <3>3 DEF Back
        <5> QED
            BY <5>1, <5>2, <3>2, <3>3, <3>4, Around DEF Due
      <4>2. Due(b, count[b] + 1) \in {i \in indexed : db[i] = id[b]}
          BY <4>1, <3>1, <3>2, <3>8
      <4>3. ASSUME NEW i \in indexed, db[i] = id[b] PROVE i = Due(b, count[b] + 1)
        <5>1. i \in Ids /\ db[i] # NoRow
            BY <4>3, <3>4, CircleAssumption DEF TypeOK
        <5>2. i \in 1 .. TotalRows /\ Succ(i) = id[b]
            BY <5>1, <4>3, <3>2
        <5> QED
            BY <5>2, <4>1, OneBefore
      <4>4. \E i \in indexed : db[i] = id[b] /\ Follow(b, i)
          BY <4>2, <3>8 DEF LookUp
      <4> QED
          BY <4>3, <4>4, <3>5
    <3> QED
        BY <2>5, <3>6, <3>7, <3>8
  <2> QED
      BY <2>1, <2>3, <2>4, <2>5
<1> QED
    BY <1>1, <1>2, Steps DEF actionVars

-----------------------------------------------------------------------------
(* The theorems.                                                           *)
LEMMA Initial == Init => Inv
<1> SUFFICES ASSUME Init PROVE Inv
    OBVIOUS
<1>1. TypeOK
  <2>1. start \in [Actions -> 0 .. TotalRows - 1] /\ 0 .. TotalRows - 1 \subseteq Ids /\ 0 \in 0 .. Try
        /\ 1 \in 1 .. TotalRows /\ 0 \in 0 .. MaxFaults /\ 0 \in 0 .. TotalRows
      BY CircleAssumption DEF Init, Ids
  <2>2. Len(<<>>) = 0 /\ <<>> \in Seq({"RUNNING", "FINISHED", "FAILED"}) /\ <<>> \in Seq(Ids)
      BY EmptySeq
  <2>3. ActionsTypeOK
      BY <2>1, <2>2 DEF Init, ActionsTypeOK
  <2>4. DatabaseTypeOK
      BY <2>1, <2>2 DEF Init, DatabaseTypeOK
  <2>5. JobsTypeOK
      BY <2>2 DEF Init, JobsTypeOK
  <2> QED
      BY <2>1, <2>3, <2>4, <2>5, TypeParts
<1>2. RowsInv
  <2>1. Len(jobs) = 0
      BY EmptySeq DEF Init
  <2> QED
      BY <2>1 DEF Init, RowsInv
<1>3. PlaceInv /\ WrittenInv
    BY DEF Init, PlaceInv, PlaceAt, WrittenInv, WrittenAt
<1>4. WalkInv /\ CourseInv
    BY DEF Init, WalkInv, WalkAt, CourseInv, OnCourse, Walks, Of
<1> QED
    BY <1>1, <1>2, <1>3, <1>4 DEF Inv

(* The inductive invariant of the circle.                                  *)
THEOREM Invariance == Spec => []Inv
<1>1. Init => Inv
    BY Initial
<1>2. Inv /\ [Next]_vars => Inv'
  <2> SUFFICES ASSUME Inv, [Next]_vars PROVE Inv'
      OBVIOUS
  <2>1. TypeOK /\ RowsInv /\ PlaceInv /\ WrittenInv /\ WalkInv /\ CourseInv
      BY DEF Inv
  <2>2. TypeOK' /\ RowsInv' /\ PlaceInv' /\ WrittenInv'
      BY <2>1, TypeStep, DatabaseSteps, RowsStep, PlaceStep, WrittenStep
  <2>3. WalkInv' /\ CourseInv'
      BY <2>1, WalkStep, CourseStep
  <2> QED
      BY <2>2, <2>3 DEF Inv
<1> QED
    BY <1>1, <1>2, PTL DEF Spec

(* Type correctness: no row number, count or job number leaves its range.  *)
THEOREM TypeCorrect == Spec => []TypeOK
<1>1. Inv => TypeOK
    BY DEF Inv
<1> QED
    BY <1>1, Invariance, PTL

(* A WriteCircleAction that returned OK has written every row, for any     *)
(* number of rows and any size of the batches.                             *)
THEOREM WritesAreComplete == Spec => []WriteComplete
<1>1. Inv => WriteComplete
    BY DEF Inv, WrittenInv, WrittenAt, WriteComplete, Of
<1> QED
    BY <1>1, Invariance, PTL

(* A walk that returned OK in a database at rest went once around a circle *)
(* of totalRows_ different vertices.                                       *)
THEOREM WalksAreSound == Spec => []WalkSound
<1>1. ASSUME Inv PROVE WalkSound
  <2> SUFFICES ASSUME NEW a \in Walks, rc[a] = "OK", quiet[a]
               PROVE  /\ Len(path[a]) = TotalRows
                      /\ \A i, j \in 1 .. TotalRows : path[a][i] = path[a][j] => i = j
                      /\ \A i \in 1 .. TotalRows :
                            LET before == IF i = 1 THEN start[a] ELSE path[a][i - 1]
                            IN IF Kind[a] = "walk" THEN db[before] = path[a][i]
                                                   ELSE db[path[a][i]] = before
      BY DEF WalkSound
  <2>1. /\ Len(path[a]) = TotalRows
        /\ path[a][TotalRows] = start[a]
        /\ \A i \in 1 .. TotalRows - 1 : path[a][i] # start[a]
        /\ \A i \in 1 .. TotalRows : Linked(a, i)
      BY <1>1 DEF Inv, WalkInv, WalkAt
  <2>2. TotalRows \in Nat \ {0}
      BY CircleAssumption
  <2>3. \A i \in 1 .. TotalRows : Come(a, i - 1) = IF i = 1 THEN start[a] ELSE path[a][i - 1]
      BY <2>2 DEF Come
  <2>4. \A i, j \in 1 .. TotalRows : path[a][i] = path[a][j] => i = j
    <3>1. CASE Kind[a] = "walk"
      <4>1. ASSUME NEW i \in 1 .. TotalRows - 1, NEW j \in 1 .. TotalRows - 1, path[a][i] = path[a][j]
            PROVE  path[a][i + 1] = path[a][j + 1]
        <5>1. i + 1 \in 1 .. TotalRows /\ j + 1 \in 1 .. TotalRows /\ i + 1 # 1 /\ j + 1 # 1
              /\ (i + 1) - 1 = i /\ (j + 1) - 1 = j
            BY <2>2
        <5>2. db[path[a][i]] = path[a][i + 1] /\ db[path[a][j]] = path[a][j + 1]
            BY <5>1, <2>1, <2>3, <3>1 DEF Linked
        <5> QED
            BY <4>1, <5>2
      <4>2. \A i, j \in 1 .. TotalRows - 1 : path[a][i] = path[a][j] => path[a][i + 1] = path[a][j + 1]
          BY <4>1
      <4>3. OneNext(TotalRows, path[a], start[a])
          BY <2>1, <4>2 DEF OneNext
      <4>4. NoneTwice(TotalRows, path[a])
          BY <2>2, <4>3, NoVertexTwiceForth
      <4> QED
          BY <4>4 DEF NoneTwice
    <3>2. CASE Kind[a] # "walk"
      <4>1. ASSUME NEW i \in 1 .. TotalRows, NEW j \in 1 .. TotalRows, path[a][i] = path[a][j]
            PROVE  (IF i - 1 = 0 THEN start[a] ELSE path[a][i - 1]) = (IF j - 1 = 0 THEN start[a] ELSE path[a][j - 1])
        <5>1. Come(a, i - 1) = db[path[a][i]] /\ Come(a, j - 1) = db[path[a][j]]
            BY <2>1, <3>2 DEF Linked
        <5> QED
            BY <4>1, <5>1 DEF Come
      <4>2. \A i, j \in 1 .. TotalRows : path[a][i] = path[a][j] =>
                (IF i - 1 = 0 THEN start[a] ELSE path[a][i - 1]) = (IF j - 1 = 0 THEN start[a] ELSE path[a][j - 1])
          BY <4>1
      <4>3. OneBack(TotalRows, path[a], start[a])
          BY <2>1, <4>2 DEF OneBack
      <4>4. NoneTwice(TotalRows, path[a])
          BY <2>2, <4>3, NoVertexTwiceBack
      <4> QED
          BY <4>4 DEF NoneTwice
    <3> QED
        BY <3>1, <3>2
  <2> QED
      BY <2>1, <2>3, <2>4 DEF Linked
<1> QED
    BY <1>1, Invariance, PTL

(* Whoever waits for a write and for the check of a rebuilt index finds    *)
(* every row in the index.                                                 *)
THEOREM IndexesAreComplete == Spec => []IndexComplete
<1>1. ASSUME Inv, NEW w \in Actions, NEW c \in Actions, Kind[w] = "write", rc[w] = "OK",
             Kind[c] = "check", rc[c] = "OK", faults = 0, NEW i \in 1 .. TotalRows
      PROVE  i \in indexed
  <2>1. PICK j \in 1 .. Len(jobs) : jobs[j] = "FINISHED"
      BY <1>1 DEF Inv, PlaceInv, PlaceAt
  <2>2. db[i] = Succ(i)
      BY <1>1 DEF Inv, WrittenInv, WrittenAt
  <2>3. Succ(i) # NoRow /\ i \in Ids
      BY CircleAssumption DEF Succ, Ids
  <2> QED
      BY <1>1, <2>1, <2>2, <2>3 DEF Inv, RowsInv
<1>2. Inv => IndexComplete
    BY <1>1 DEF IndexComplete, Of
<1> QED
    BY <1>2, Invariance, PTL

(* On a circle that was written without a fault, and indexed for a lookup, *)
(* only the tries or a start at vertex 0 make an action fail.              *)
THEOREM NoFalseAlarms == Spec => []NoFalseAlarm
<1>1. Inv => NoFalseAlarm
    BY DEF Inv, CourseInv, OnCourse, GoodStart, NoFalseAlarm
<1> QED
    BY <1>1, Invariance, PTL
=============================================================================
