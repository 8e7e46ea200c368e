-------------------------- MODULE DataFilesProofs --------------------------
(***************************************************************************)
(* Proofs about MetaActions, for every plan of such actions, every number  *)
(* of hosts, addresses and partitions, every number of tries and of        *)
(* changes of the cluster: type correctness, what an action that returned  *)
(* OK has achieved, and what the comparison of two looks at the leaders    *)
(* tells.  The last is an argument about counting: a look gives a list     *)
(* with one row for each host that leads something, two hosts may give     *)
(* equal rows, and it is to be shown that equal lists mean the same number *)
(* of partitions for every address.                                        *)
(*                                                                         *)
(* Then proofs about DataFiles, a plan of statements and of actions on     *)
(* files, for every plan, every number of instances, paths and spaces, and *)
(* any number of turns of the database.  Such a plan is one of             *)
(* MetaActions, so that what was said of these holds of it.  What the      *)
(* actions on files do is an invariant of how far the one that runs has    *)
(* come: the directories of the instances whose process has not run since  *)
(* it began are as they were, except those it has treated, which are as    *)
(* they should be.                                                         *)
(***************************************************************************)
EXTENDS DataFiles, FiniteSetTheorems, SequenceTheorems, TLAPS


-----------------------------------------------------------------------------
(***************************************************************************)
(* Counting.                                                               *)
(***************************************************************************)

LEMMA BijectionIs ==
    ASSUME NEW S, NEW T, NEW f \in [S -> T],
           \A x, y \in S : f[x] = f[y] => x = y,
           \A t \in T : \E x \in S : f[x] = t
    PROVE  f \in Bijection(S, T)
  BY DEF Bijection, Injection, Surjection, IsInjective

LEMMA BijectionHas ==
    ASSUME NEW S, NEW T, NEW f \in Bijection(S, T)
    PROVE  /\ f \in [S -> T]
           /\ \A x, y \in S : f[x] = f[y] => x = y
           /\ \A t \in T : \E x \in S : f[x] = t
  BY DEF Bijection, Injection, Surjection, IsInjective

(* Counting the smaller ones numbers the members of a finite set of        *)
(* integers.                                                               *)
LEMMA Numbered ==
    ASSUME NEW S, S \subseteq Int, IsFiniteSet(S), NEW n, n = Cardinality(S)
    PROVE  [i \in 1 .. n |-> CHOOSE h \in S : Cardinality({g \in S : g <= h}) = i]
             \in Bijection(1 .. n, S)
<1>. DEFINE Below(h) == {g \in S : g <= h}
            rank == [h \in S |-> Cardinality(Below(h))]
            e == [i \in 1 .. n |-> CHOOSE h \in S : Cardinality(Below(h)) = i]
<1>1. n \in Nat
  BY FS_CardinalityType
<1>2. ASSUME NEW h \in S
      PROVE  IsFiniteSet(Below(h)) /\ Cardinality(Below(h)) \in 1 .. n
  <2>1. Below(h) \in SUBSET S
    OBVIOUS
  <2>2. IsFiniteSet(Below(h)) /\ Cardinality(Below(h)) <= n
    BY <2>1, FS_Subset
  <2>3. Cardinality(Below(h)) \in Nat
    BY <2>2, FS_CardinalityType
  <2>4. h \in Below(h)
    OBVIOUS
  <2>5. Cardinality(Below(h)) # 0
    BY <2>2, <2>4, FS_EmptySet
  <2>. QED BY <1>1, <2>2, <2>3, <2>5
<1>3. ASSUME NEW g \in S, NEW h \in S, g < h
      PROVE  Cardinality(Below(g)) # Cardinality(Below(h))
  <2>1. Below(g) \in SUBSET Below(h)
    <3>1. \A x \in S : x <= g => x <= h
      <4>1. \A x \in S : x \in Int
        OBVIOUS
      <4>. QED BY <1>3, <4>1
    <3>. QED BY <3>1
  <2>2. h \in Below(h) /\ h \notin Below(g)
    BY <1>3
  <2>. HIDE DEF Below
  <2>. QED BY <1>2, <2>1, <2>2, FS_Subset
<1>. HIDE DEF Below
<1>4. rank \in Injection(S, 1 .. n)
  <2>1. rank \in [S -> 1 .. n]
    BY <1>2
  <2>2. \A g, h \in S : rank[g] = rank[h] => g = h
    <3>1. TAKE g, h \in S
    <3>2. g \in Int /\ h \in Int
      OBVIOUS
    <3>3. rank[g] = Cardinality(Below(g)) /\ rank[h] = Cardinality(Below(h))
      OBVIOUS
    <3>. QED BY <1>3, <3>2, <3>3
  <2>. QED BY <2>1, <2>2 DEF Injection, IsInjective
<1>5. rank \in Surjection(S, 1 .. n)
  <2>1. IsFiniteSet(1 .. n) /\ Cardinality(1 .. n) = n
    BY <1>1, FS_Interval
  <2>. HIDE DEF rank
  <2>. QED BY <1>4, <2>1, FS_Injection
<1>6. ASSUME NEW i \in 1 .. n
      PROVE  e[i] \in S /\ rank[e[i]] = i
  <2>1. PICK h \in S : rank[h] = i
    BY <1>5 DEF Surjection
  <2>2. \E x \in S : Cardinality(Below(x)) = i
    BY <2>1
  <2>3. e[i] = CHOOSE x \in S : Cardinality(Below(x)) = i
    OBVIOUS
  <2>. HIDE DEF e
  <2>4. e[i] \in S /\ Cardinality(Below(e[i])) = i
    BY <2>2, <2>3
  <2>. QED BY <2>4
<1>7. e \in [1 .. n -> S]
  BY <1>6
<1>8. \A i, j \in 1 .. n : e[i] = e[j] => i = j
  <2>. HIDE DEF e, rank
  <2>. QED BY <1>6
<1>9. \A h \in S : \E i \in 1 .. n : e[i] = h
  <2>. HIDE DEF e, rank
  <2>1. TAKE h \in S
  <2>2. rank[h] \in 1 .. n
    BY <1>4 DEF Injection
  <2>3. e[rank[h]] \in S /\ rank[e[rank[h]]] = rank[h]
    BY <1>6, <2>2
  <2>4. e[rank[h]] = h
    BY <1>4, <2>3 DEF Injection, IsInjective
  <2>. QED BY <2>2, <2>4
<1>10. e \in Bijection(1 .. n, S)
  <2>. HIDE DEF e
  <2>. QED BY <1>7, <1>8, <1>9, BijectionIs
<1>. QED BY <1>10 DEF Below

(* The partitions a host leads, by a function from partitions to leaders.  *)
LedBy(s, h) == {p \in Parts : s[p] = h}

LedAt(s, ip) == {p \in Parts : Ip[s[p]] = ip}

Leaders(s) == {s[p] : p \in Parts}

RowOf(s, h) == <<Ip[h], Cardinality(LedBy(s, h))>>

LEMMA Finite ==
    ASSUME NEW s
    PROVE  /\ \A h : IsFiniteSet(LedBy(s, h))
           /\ \A ip : IsFiniteSet(LedAt(s, ip))
<1>1. \A h : LedBy(s, h) \in SUBSET Parts
  BY DEF LedBy
<1>2. \A ip : LedAt(s, ip) \in SUBSET Parts
  BY DEF LedAt
<1>. QED BY <1>1, <1>2, FS_Subset, MetaAssumption

(* Two lists of rows that agree row by row, each naming every leader once, *)
(* count the same number of partitions for each address.                   *)
LEMMA SameRowsSameCounts ==
    ASSUME NEW s, NEW t, NEW I,
           NEW e \in Bijection(I, Leaders(s)), NEW f \in Bijection(I, Leaders(t)),
           \A i \in I : RowOf(s, e[i]) = RowOf(t, f[i]),
           NEW ip
    PROVE  Cardinality(LedAt(s, ip)) = Cardinality(LedAt(t, ip))
<1>1. /\ e \in [I -> Leaders(s)]
      /\ \A x, y \in I : e[x] = e[y] => x = y
      /\ \A h \in Leaders(s) : \E x \in I : e[x] = h
  BY BijectionHas
<1>2. /\ f \in [I -> Leaders(t)]
      /\ \A x, y \in I : f[x] = f[y] => x = y
      /\ \A h \in Leaders(t) : \E x \in I : f[x] = h
  BY BijectionHas
<1>3. \A i \in I : /\ Ip[e[i]] = Ip[f[i]]
                   /\ Cardinality(LedBy(s, e[i])) = Cardinality(LedBy(t, f[i]))
  BY DEF RowOf
<1>. DEFINE B(i) == Bijection(LedBy(s, e[i]), LedBy(t, f[i]))
            G == [i \in I |-> CHOOSE g \in B(i) : TRUE]
            at(p) == CHOOSE i \in I : e[i] = s[p]
            k == [p \in LedAt(s, ip) |-> G[at(p)][p]]
<1>4. ASSUME NEW i \in I PROVE G[i] \in B(i)
  <2>1. ExistsBijection(LedBy(s, e[i]), LedBy(t, f[i]))
    BY <1>3, Finite, FS_SameCardinalityBij
  <2>2. B(i) # {}
    BY <2>1 DEF ExistsBijection
  <2>. HIDE DEF B
  <2>. QED BY <2>2
<1>5. ASSUME NEW p \in Parts PROVE at(p) \in I /\ e[at(p)] = s[p]
  <2>1. s[p] \in Leaders(s)
    BY DEF Leaders
  <2>2. \E i \in I : e[i] = s[p]
    BY <1>1, <2>1
  <2>. QED BY <2>2
<1>. HIDE DEF G, at
<1>6. ASSUME NEW i \in I
      PROVE  /\ G[i] \in [LedBy(s, e[i]) -> LedBy(t, f[i])]
             /\ \A x, y \in LedBy(s, e[i]) : G[i][x] = G[i][y] => x = y
             /\ \A z \in LedBy(t, f[i]) : \E x \in LedBy(s, e[i]) : G[i][x] = z
  BY <1>4, BijectionHas
<1>7. ASSUME NEW p \in LedAt(s, ip)
      PROVE  /\ p \in Parts
             /\ at(p) \in I
             /\ p \in LedBy(s, e[at(p)])
             /\ k[p] = G[at(p)][p]
             /\ k[p] \in LedBy(t, f[at(p)])
             /\ k[p] \in LedAt(t, ip)
  <2>1. p \in Parts /\ Ip[s[p]] = ip
    BY DEF LedAt
  <2>2. at(p) \in I /\ e[at(p)] = s[p]
    BY <1>5, <2>1
  <2>3. p \in LedBy(s, e[at(p)])
    BY <2>1, <2>2 DEF LedBy
  <2>4. k[p] = G[at(p)][p]
    OBVIOUS
  <2>5. k[p] \in LedBy(t, f[at(p)])
    BY <1>6, <2>2, <2>3, <2>4
  <2>6. k[p] \in LedAt(t, ip)
    BY <1>3, <2>1, <2>2, <2>5 DEF LedBy, LedAt
  <2>. QED BY <2>1, <2>2, <2>3, <2>4, <2>5, <2>6
<1>8. k \in [LedAt(s, ip) -> LedAt(t, ip)]
  BY <1>7
<1>9. ASSUME NEW p \in LedAt(s, ip), NEW q \in LedAt(s, ip), k[p] = k[q] PROVE p = q
  <2>1. f[at(p)] = f[at(q)]
    BY <1>7, <1>9 DEF LedBy
  <2>2. at(p) = at(q)
    BY <1>2, <1>7, <2>1
  <2>. HIDE DEF k
  <2>. QED BY <1>6, <1>7, <1>9, <2>2
<1>10. ASSUME NEW z \in LedAt(t, ip) PROVE \E p \in LedAt(s, ip) : k[p] = z
  <2>1. z \in Parts /\ Ip[t[z]] = ip /\ t[z] \in Leaders(t)
    BY DEF LedAt, Leaders
  <2>2. PICK i \in I : f[i] = t[z]
    BY <1>2, <2>1
  <2>3. z \in LedBy(t, f[i])
    BY <2>1, <2>2 DEF LedBy
  <2>4. PICK p \in LedBy(s, e[i]) : G[i][p] = z
    BY <1>6, <2>3
  <2>5. p \in Parts /\ s[p] = e[i]
    BY DEF LedBy
  <2>6. p \in LedAt(s, ip)
    BY <1>3, <2>1, <2>2, <2>5 DEF LedAt
  <2>7. at(p) = i
    BY <1>1, <1>5, <2>5
  <2>8. k[p] = z
    BY <1>7, <2>4, <2>6, <2>7
  <2>. QED BY <2>6, <2>8
<1>11. k \in Bijection(LedAt(s, ip), LedAt(t, ip))
  <2>. HIDE DEF k
  <2>. QED BY <1>8, <1>9, <1>10, BijectionIs
<1>12. ExistsBijection(LedAt(s, ip), LedAt(t, ip))
  <2>. HIDE DEF k
  <2>. QED BY <1>11 DEF ExistsBijection
<1>. QED BY <1>12, Finite, FS_Bijection

-----------------------------------------------------------------------------
(***************************************************************************)
(* Types.                                                                  *)
(***************************************************************************)

LEMMA InitTyped == Init => TypeOK
<1>1. 0 \in 0 .. RetryTimes /\ 0 \in 0 .. MaxChanges
  BY MetaAssumption
<1>2. SUFFICES ASSUME Init PROVE TypeOK
  OBVIOUS
<1>3. lastId \in Nat /\ space \in 0 .. lastId
  <2>1. lastId = 0 /\ space = 0
    BY <1>2 DEF Init
  <2>. QED BY <2>1
<1>4. /\ pc \in [Actions -> {"idle", "send", "done"}]
      /\ rc \in [Actions -> {"none", "OK", "ERR_FAILED"}]
      /\ retry \in [Actions -> 0 .. RetryTimes]
      /\ legal \in [Actions -> {"yes", "refused", "no"}]
      /\ errMsg \in [Actions -> {"", "other", "The cluster is balanced!"}]
      /\ spaceId \in [Actions -> {-1} \cup 1 .. lastId]
      /\ changes \in 0 .. MaxChanges
  BY <1>1, <1>2 DEF Init
<1>5. /\ leader \in [Parts -> online \cup {NoHost}]
      /\ online \in SUBSET Hosts
      /\ balanced \in BOOLEAN
      /\ config \in BOOLEAN
  BY <1>2 DEF Init
<1>. QED BY <1>3, <1>4, <1>5 DEF TypeOK

LEMMA ChangeTyped == TypeOK /\ Change => TypeOK'
<1>1. SUFFICES ASSUME TypeOK, Change PROVE TypeOK'
  OBVIOUS
<1>2. UNCHANGED <<pc, rc, retry, legal, errMsg, spaceId, space, lastId, config>>
  BY <1>1 DEF Change, actionVars, resultVars
<1>3. changes' \in 0 .. MaxChanges
  <2>1. changes \in 0 .. MaxChanges /\ changes < MaxChanges /\ changes' = changes + 1
    BY <1>1 DEF Change, TypeOK
  <2>. QED BY <2>1, MetaAssumption
<1>4. /\ leader' \in [Parts -> online' \cup {NoHost}]
      /\ online' \in SUBSET Hosts
      /\ balanced' \in BOOLEAN
  <2>1. CASE Elect
    BY <1>1, <2>1 DEF Elect, TypeOK
  <2>2. CASE HostGone
    BY <1>1, <2>2 DEF HostGone, TypeOK
  <2>3. CASE HostBack
    BY <1>1, <2>3 DEF HostBack, TypeOK
  <2>4. CASE Balanced
    BY <1>1, <2>4 DEF Balanced, TypeOK
  <2>. QED BY <1>1, <2>1, <2>2, <2>3, <2>4 DEF Change
<1>. QED BY <1>1, <1>2, <1>3, <1>4 DEF TypeOK

(* Return and Retry, as far as the types go.                               *)
LEMMA ReturnTyped ==
    ASSUME TypeOK, NEW a \in Actions, NEW ret \in {"OK", "ERR_FAILED"}, Return(a, ret)
    PROVE  /\ pc' \in [Actions -> {"idle", "send", "done"}]
           /\ rc' \in [Actions -> {"none", "OK", "ERR_FAILED"}]
           /\ retry' \in [Actions -> 0 .. RetryTimes]
           /\ legal' \in [Actions -> {"yes", "refused", "no"}]
  BY DEF Return, TypeOK

LEMMA RetryTyped ==
    ASSUME TypeOK, NEW a \in Actions, NEW kind, Sends(a, kind), Retry(a)
    PROVE  /\ pc' \in [Actions -> {"idle", "send", "done"}]
           /\ rc' \in [Actions -> {"none", "OK", "ERR_FAILED"}]
           /\ retry' \in [Actions -> 0 .. RetryTimes]
           /\ legal' \in [Actions -> {"yes", "refused", "no"}]
<1>1. retry \in [Actions -> 0 .. RetryTimes] /\ retry[a] + 1 < RetryTimes
  BY DEF Sends, TypeOK
<1>2. retry[a] + 1 \in 0 .. RetryTimes
  BY <1>1, MetaAssumption
<1>3. retry' = [retry EXCEPT ![a] = retry[a] + 1] /\ UNCHANGED <<pc, rc, legal>>
  BY DEF Retry
<1>. QED BY <1>1, <1>2, <1>3 DEF TypeOK

LEMMA CreatedTyped ==
    ASSUME TypeOK, Created
    PROVE  lastId' \in Nat /\ space' \in 0 .. lastId' /\ 1 .. lastId \subseteq 1 .. lastId'
<1>1. lastId \in Nat /\ space \in 0 .. lastId
  BY DEF TypeOK
<1>2. \/ space' = lastId + 1 /\ lastId' = lastId + 1
      \/ space' = space /\ lastId' = lastId
  BY DEF Created
<1>. QED BY <1>1, <1>2

LEMMA NextTyped == TypeOK /\ [Next]_vars => TypeOK'
<1>1. SUFFICES ASSUME TypeOK, [Next]_vars PROVE TypeOK'
  OBVIOUS
<1>2. ASSUME NEW a \in Actions, Start(a) PROVE TypeOK'
  <2>1. UNCHANGED <<resultVars, clusterVars>>
    BY <1>2 DEF Start
  <2>2. CASE Return(a, "ERR_FAILED")
    BY <1>1, <2>1, <2>2, ReturnTyped DEF TypeOK, resultVars, clusterVars
  <2>3. CASE pc' = [pc EXCEPT ![a] = "send"] /\ UNCHANGED <<rc, retry, legal>>
    BY <1>1, <2>1, <2>3 DEF TypeOK, resultVars, clusterVars
  <2>. QED BY <1>2, <2>2, <2>3 DEF Start
<1>3. ASSUME NEW a \in Actions, GiveUp(a) PROVE TypeOK'
  BY <1>1, <1>3, ReturnTyped DEF GiveUp, TypeOK, resultVars, clusterVars
<1>4. ASSUME NEW a \in Actions, Create(a) PROVE TypeOK'
  <2>1. lastId' \in Nat /\ space' \in 0 .. lastId' /\ 1 .. lastId \subseteq 1 .. lastId'
    BY <1>1, <1>4, CreatedTyped DEF Create, TypeOK
  <2>2. UNCHANGED <<resultVars, leader, online, balanced, config, changes>>
    BY <1>4 DEF Create
  <2>3. Return(a, "OK") \/ (Sends(a, "create") /\ Retry(a))
    BY <1>4 DEF Create
  <2>. QED BY <1>1, <2>1, <2>2, <2>3, ReturnTyped, RetryTyped DEF TypeOK, resultVars
<1>5. ASSUME NEW a \in Actions, Drop(a) PROVE TypeOK'
  <2>1. space' \in 0 .. lastId
    <3>1. lastId \in Nat /\ space \in 0 .. lastId /\ space' \in {0, space}
      BY <1>1, <1>5 DEF Drop, TypeOK
    <3>. QED BY <3>1
  <2>2. UNCHANGED <<resultVars, leader, online, balanced, lastId, config, changes>>
    BY <1>5 DEF Drop
  <2>3. Return(a, "OK") \/ (Sends(a, "drop") /\ Retry(a))
    BY <1>5 DEF Drop
  <2>. QED BY <1>1, <2>1, <2>2, <2>3, ReturnTyped, RetryTyped DEF TypeOK, resultVars
<1>6. ASSUME NEW a \in Actions, Desc(a) PROVE TypeOK'
  <2>1. spaceId' \in [Actions -> {-1} \cup 1 .. lastId]
    <3>1. lastId \in Nat /\ space \in 0 .. lastId /\ spaceId \in [Actions -> {-1} \cup 1 .. lastId]
      BY <1>1 DEF TypeOK
    <3>2. space # 0 => space \in {-1} \cup 1 .. lastId
      BY <3>1
    <3>3. (space # 0 /\ spaceId' = [spaceId EXCEPT ![a] = space]) \/ spaceId' = spaceId
      BY <1>6 DEF Desc
    <3>. QED BY <3>1, <3>2, <3>3
  <2>2. UNCHANGED <<errMsg, clusterVars>>
    BY <1>6 DEF Desc
  <2>3. Return(a, "OK") \/ (Sends(a, "desc") /\ Retry(a))
    BY <1>6 DEF Desc
  <2>. QED BY <1>1, <2>1, <2>2, <2>3, ReturnTyped, RetryTyped DEF TypeOK, clusterVars
<1>7. ASSUME NEW a \in Actions, UpdateConfigs(a) PROVE TypeOK'
  <2>1. config' \in BOOLEAN
    BY <1>1, <1>7 DEF UpdateConfigs, TypeOK
  <2>2. UNCHANGED <<resultVars, leader, online, balanced, space, lastId, changes>>
    BY <1>7 DEF UpdateConfigs
  <2>3. Return(a, "OK") \/ (Sends(a, "config") /\ Retry(a))
    BY <1>7 DEF UpdateConfigs
  <2>. QED BY <1>1, <2>1, <2>2, <2>3, ReturnTyped, RetryTyped DEF TypeOK, resultVars
<1>8. ASSUME NEW a \in Actions, CheckLeaders(a) PROVE TypeOK'
  <2>1. UNCHANGED <<errMsg, spaceId, clusterVars>>
    BY <1>8 DEF CheckLeaders
  <2>2. Return(a, "OK") \/ (Sends(a, "leaders") /\ Retry(a))
    BY <1>8 DEF CheckLeaders
  <2>. QED BY <1>1, <2>1, <2>2, ReturnTyped, RetryTyped DEF TypeOK, clusterVars
<1>9. ASSUME NEW a \in Actions, Stable(a) PROVE TypeOK'
  <2>1. UNCHANGED <<resultVars, clusterVars>>
    BY <1>9 DEF Stable
  <2>2. Return(a, "OK") \/ Return(a, "ERR_FAILED")
    BY <1>9 DEF Stable
  <2>. QED BY <1>1, <2>1, <2>2, ReturnTyped DEF TypeOK, resultVars, clusterVars
<1>10. ASSUME NEW a \in Actions, BalanceData(a) PROVE TypeOK'
  <2>1. errMsg' \in [Actions -> {"", "other", "The cluster is balanced!"}]
    BY <1>1, <1>10 DEF BalanceData, TypeOK
  <2>2. UNCHANGED <<spaceId, clusterVars>>
    BY <1>10 DEF BalanceData
  <2>3. Return(a, "OK") \/ (Sends(a, "balance") /\ Retry(a))
    BY <1>10 DEF BalanceData
  <2>. QED BY <1>1, <2>1, <2>2, <2>3, ReturnTyped, RetryTyped DEF TypeOK, clusterVars
<1>11. ASSUME AllEnded \/ UNCHANGED vars PROVE TypeOK'
  BY <1>1, <1>11 DEF AllEnded, vars, actionVars, resultVars, clusterVars, TypeOK
<1>12. CASE Change
  BY <1>1, <1>12, ChangeTyped
<1>. QED BY <1>1, <1>2, <1>3, <1>4, <1>5, <1>6, <1>7, <1>8, <1>9, <1>10, <1>11, <1>12
         DEF Next, DoRun

(* Every variable has its type.                                            *)
THEOREM TypeCorrect == Spec => []TypeOK
  BY InitTyped, NextTyped, PTL DEF Spec

-----------------------------------------------------------------------------
(***************************************************************************)
(* What a result stands for.                                               *)
(***************************************************************************)

(* The list names every leader of the look it comes from once, with the    *)
(* number of its partitions.                                               *)
Listed(list, s) ==
    \E n \in Nat : \E e \in Bijection(1 .. n, Leaders(s)) :
        list = [i \in 1 .. n |-> RowOf(s, e[i])]

HistoryType ==
    /\ result = [a \in Actions |-> result[a]]
    /\ shot = [a \in Actions |-> shot[a]]

ResultInv ==
    \A b \in Of("leaders") : result[b] # Unset =>
        /\ pc[b] = "done"
        /\ NoHost \notin Leaders(shot[b])
        /\ \E list : result[b] = <<list>> /\ Listed(list, shot[b])

StableInv ==
    \A a \in Of("stable") : rc[a] = "OK" =>
        \A b, c \in Of("leaders") : result[b] # Unset /\ result[b] = result[c]

(* The message that ends a BalanceDataAction is there only at its end.     *)
BalanceInv == \A a \in Actions : pc[a] # "done" => errMsg[a] # "The cluster is balanced!"

ReturnInv == \A a \in Actions : pc[a] # "done" => rc[a] = "none"

Inv == TypeOK /\ HistoryType /\ ResultInv /\ StableInv /\ BalanceInv /\ ReturnInv

LEMMA AllLed ==
    ASSUME TypeOK, Total = Cardinality(Parts)
    PROVE  \A p \in Parts : leader[p] \in online
<1>. DEFINE led == {p \in Parts : leader[p] # NoHost}
<1>1. led \in SUBSET Parts /\ Cardinality(led) = Cardinality(Parts)
  BY DEF Total
<1>2. led = Parts
  <2>. HIDE DEF led
  <2>. QED BY <1>1, FS_Subset, MetaAssumption
<1>3. \A p \in Parts : leader[p] # NoHost
  BY <1>2
<1>. QED BY <1>3 DEF TypeOK

LEMMA DistributionListed ==
    ASSUME TypeOK, Total = Cardinality(Parts)
    PROVE  Listed(Distribution, leader)
<1>. DEFINE n == Cardinality(Rows)
            e == [i \in 1 .. n |-> Row(i)]
<1>1. \A h : Leads(h) = Cardinality(LedBy(leader, h))
  BY DEF Leads, LedBy
<1>2. online \subseteq 1 .. HostNum /\ HostNum \in Nat
  BY MetaAssumption DEF TypeOK, Hosts
<1>3. Rows \subseteq Int /\ IsFiniteSet(Rows)
  <2>1. Rows \in SUBSET (1 .. HostNum)
    BY <1>2 DEF Rows
  <2>2. IsFiniteSet(1 .. HostNum)
    BY <1>2, FS_Interval
  <2>3. IsFiniteSet(Rows)
    BY <2>1, <2>2, FS_Subset
  <2>. QED BY <1>2, <2>1, <2>3
<1>4. Rows = Leaders(leader)
  <2>1. ASSUME NEW h \in Rows PROVE h \in Leaders(leader)
    <3>1. Cardinality(LedBy(leader, h)) > 0
      BY <1>1, <2>1 DEF Rows
    <3>2. LedBy(leader, h) # {}
      BY <3>1, FS_EmptySet
    <3>. QED BY <3>2 DEF LedBy, Leaders
  <2>2. ASSUME NEW p \in Parts PROVE leader[p] \in Rows
    <3>1. leader[p] \in online
      BY AllLed
    <3>2. p \in LedBy(leader, leader[p])
      BY DEF LedBy
    <3>3. Cardinality(LedBy(leader, leader[p])) \in Nat \ {0}
      BY <3>2, Finite, FS_EmptySet, FS_CardinalityType
    <3>4. Leads(leader[p]) > 0
      BY <1>1, <3>3
    <3>. QED BY <3>1, <3>4 DEF Rows
  <2>. QED BY <2>1, <2>2 DEF Leaders
<1>5. n \in Nat
  BY <1>3, FS_CardinalityType
<1>6. e \in Bijection(1 .. n, Rows)
  BY <1>3, Numbered DEF Row
<1>7. Distribution = [i \in 1 .. n |-> RowOf(leader, e[i])]
  BY <1>1 DEF Distribution, RowOf
<1>. HIDE DEF e, n
<1>. QED BY <1>4, <1>5, <1>6, <1>7 DEF Listed

-----------------------------------------------------------------------------
(***************************************************************************)
(* Steps.                                                                  *)
(***************************************************************************)

(* An action that has returned does nothing more, and no action returns    *)
(* for another.                                                            *)
LEMMA DoRunShape ==
    ASSUME TypeOK, NEW a \in Actions, DoRun(a)
    PROVE  /\ pc[a] # "done"
           /\ \A b \in Actions \ {a} : pc'[b] = pc[b] /\ rc'[b] = rc[b]
<1>1. ASSUME NEW ret, Return(a, ret)
      PROVE  \A b \in Actions \ {a} : pc'[b] = pc[b] /\ rc'[b] = rc[b]
  BY <1>1 DEF Return, TypeOK
<1>2. ASSUME Retry(a)
      PROVE  \A b \in Actions \ {a} : pc'[b] = pc[b] /\ rc'[b] = rc[b]
  BY <1>2 DEF Retry
<1>3. CASE Start(a)
  BY <1>1, <1>3 DEF Start, TypeOK
<1>4. CASE GiveUp(a)
  BY <1>1, <1>4 DEF GiveUp
<1>5. CASE Create(a)
  BY <1>1, <1>2, <1>5 DEF Create, Sends
<1>6. CASE Drop(a)
  BY <1>1, <1>2, <1>6 DEF Drop, Sends
<1>7. CASE Desc(a)
  BY <1>1, <1>2, <1>7 DEF Desc, Sends
<1>8. CASE UpdateConfigs(a)
  BY <1>1, <1>2, <1>8 DEF UpdateConfigs, Sends
<1>9. CASE CheckLeaders(a)
  BY <1>1, <1>2, <1>9 DEF CheckLeaders, Sends
<1>10. CASE Stable(a)
  <2>1. \E ret : Return(a, ret)
    BY <1>10 DEF Stable
  <2>. QED BY <1>1, <1>10, <2>1 DEF Stable
<1>11. CASE BalanceData(a)
  BY <1>1, <1>2, <1>11 DEF BalanceData, Sends
<1>. QED BY <1>3, <1>4, <1>5, <1>6, <1>7, <1>8, <1>9, <1>10, <1>11 DEF DoRun

LEMMA DoneStays ==
    ASSUME TypeOK, [Next]_vars, NEW b \in Actions, pc[b] = "done"
    PROVE  pc'[b] = "done" /\ rc'[b] = rc[b]
<1>1. CASE \E a \in Actions : DoRun(a)
  BY <1>1, DoRunShape
<1>2. CASE Change \/ AllEnded \/ UNCHANGED vars
  BY <1>2 DEF Change, AllEnded, vars, actionVars
<1>. QED BY <1>1, <1>2 DEF Next

LEMMA ResultsStay ==
    ASSUME [Next]_vars
    PROVE  UNCHANGED <<result, shot>> \/ \E a \in Actions : CheckLeaders(a)
<1>1. ASSUME NEW a \in Actions, DoRun(a), ~CheckLeaders(a) PROVE UNCHANGED <<result, shot>>
  BY <1>1 DEF DoRun, Start, GiveUp, Create, Drop, Desc, UpdateConfigs, Stable, BalanceData, resultVars
<1>2. CASE Change \/ AllEnded \/ UNCHANGED vars
  BY <1>2 DEF Change, AllEnded, vars, resultVars
<1>. QED BY <1>1, <1>2 DEF Next

LEMMA MessagesStay ==
    ASSUME [Next]_vars
    PROVE  UNCHANGED errMsg \/ \E a \in Actions : BalanceData(a)
<1>1. ASSUME NEW a \in Actions, DoRun(a), ~BalanceData(a) PROVE UNCHANGED errMsg
  BY <1>1 DEF DoRun, Start, GiveUp, Create, Drop, Desc, UpdateConfigs, Stable, CheckLeaders, resultVars
<1>2. CASE Change \/ AllEnded \/ UNCHANGED vars
  BY <1>2 DEF Change, AllEnded, vars, resultVars
<1>. QED BY <1>1, <1>2 DEF Next

LEMMA NextHistory == HistoryType /\ [Next]_vars => HistoryType'
<1>1. SUFFICES ASSUME HistoryType, [Next]_vars PROVE HistoryType'
  OBVIOUS
<1>2. CASE UNCHANGED <<result, shot>>
  BY <1>1, <1>2 DEF HistoryType
<1>3. ASSUME NEW a \in Actions, CheckLeaders(a) PROVE HistoryType'
  BY <1>1, <1>3 DEF HistoryType, CheckLeaders
<1>. QED BY <1>1, <1>2, <1>3, ResultsStay

LEMMA NextResult == Inv /\ [Next]_vars => ResultInv'
<1>1. SUFFICES ASSUME Inv, [Next]_vars, NEW b \in Of("leaders"), result'[b] # Unset
               PROVE  /\ pc'[b] = "done"
                      /\ NoHost \notin Leaders(shot'[b])
                      /\ \E list : result'[b] = <<list>> /\ Listed(list, shot'[b])
  BY DEF ResultInv, Leaders, Listed, RowOf, LedBy, Unset
<1>2. b \in Of("leaders") /\ b \in Actions
  BY DEF Of
<1>3. CASE result'[b] = result[b] /\ shot'[b] = shot[b]
  <2>1. /\ pc[b] = "done"
        /\ NoHost \notin Leaders(shot[b])
        /\ \E list : result[b] = <<list>> /\ Listed(list, shot[b])
    BY <1>1, <1>2, <1>3 DEF Inv, ResultInv
  <2>2. pc'[b] = "done"
    BY <1>1, <1>2, <2>1, DoneStays DEF Inv
  <2>. QED BY <1>3, <2>1, <2>2
<1>4. ASSUME NEW a \in Actions, CheckLeaders(a), ~(result'[b] = result[b] /\ shot'[b] = shot[b])
      PROVE  /\ pc'[b] = "done"
             /\ NoHost \notin Leaders(shot'[b])
             /\ \E list : result'[b] = <<list>> /\ Listed(list, shot'[b])
  <2>1. /\ Total = Cardinality(Parts)
        /\ result' = [result EXCEPT ![a] = <<Distribution>>]
        /\ shot' = [shot EXCEPT ![a] = leader]
        /\ Return(a, "OK")
    BY <1>4 DEF CheckLeaders
  <2>2. a = b
    BY <1>1, <1>2, <1>4, <2>1 DEF Inv, HistoryType
  <2>3. result'[b] = <<Distribution>> /\ shot'[b] = leader
    BY <1>1, <1>2, <2>1, <2>2 DEF Inv, HistoryType
  <2>4. pc'[b] = "done"
    BY <1>1, <1>2, <2>1, <2>2 DEF Inv, TypeOK, Return
  <2>5. Listed(Distribution, leader)
    BY <1>1, <2>1, DistributionListed DEF Inv
  <2>6. \A p \in Parts : leader[p] \in online
    BY <1>1, <2>1, AllLed DEF Inv
  <2>7. NoHost \notin Leaders(leader)
    <3>1. online \subseteq 1 .. HostNum
      BY <1>1 DEF Inv, TypeOK, Hosts
    <3>2. NoHost \notin 1 .. HostNum
      BY MetaAssumption
    <3>. QED BY <2>6, <3>1, <3>2 DEF Leaders
  <2>. QED BY <2>3, <2>4, <2>5, <2>7
<1>. QED BY <1>1, <1>3, <1>4, ResultsStay

LEMMA StableReturns ==
    ASSUME TypeOK, [Next]_vars, NEW a \in Of("stable"), rc'[a] = "OK"
    PROVE  rc[a] = "OK" \/ Stable(a)
<1>1. a \in Actions /\ Kind[a] = "stable"
  BY DEF Of
<1>2. CASE UNCHANGED rc
  BY <1>2
<1>3. ASSUME NEW b \in Actions, DoRun(b), b # a PROVE rc'[a] = rc[a]
  BY <1>1, <1>3, DoRunShape
<1>4. ASSUME DoRun(a), ~Stable(a) PROVE rc[a] = "OK"
  <2>1. Start(a)
    BY <1>1, <1>4 DEF DoRun, GiveUp, Create, Drop, Desc, UpdateConfigs, CheckLeaders, BalanceData, Sends
  <2>2. rc'[a] = rc[a] \/ rc'[a] = "ERR_FAILED"
    BY <1>1, <2>1 DEF Start, Return, TypeOK
  <2>. QED BY <2>2
<1>5. CASE Change \/ AllEnded \/ UNCHANGED vars
  BY <1>2, <1>5 DEF Change, AllEnded, vars, actionVars
<1>. QED BY <1>2, <1>3, <1>4, <1>5 DEF Next

(* The values that a condition compares are one value.                     *)
LEMMA OneValue ==
    ASSUME LET values == {result[b] : b \in Of("leaders")}
           IN Unset \notin values /\ Cardinality(values) = 1
    PROVE  \A b, c \in Of("leaders") : result[b] # Unset /\ result[b] = result[c]
<1>. DEFINE S == Of("leaders")
            values == {result[b] : b \in S}
            f == [b \in S |-> result[b]]
<1>1. Unset \notin values /\ Cardinality(values) = 1
  OBVIOUS
<1>2. IsFiniteSet(S)
  <2>1. S \in SUBSET Actions
    BY DEF Of
  <2>. HIDE DEF S
  <2>. QED BY <2>1, FS_Subset, MetaAssumption
<1>. HIDE DEF S
<1>3. f \in Surjection(S, values)
  BY DEF Surjection
<1>4. IsFiniteSet(values)
  <2>. HIDE DEF f, values
  <2>. QED BY <1>2, <1>3, FS_Surjection
<1>5. PICK x : values = {x}
  <2>. HIDE DEF values
  <2>. QED BY <1>1, <1>4, FS_Singleton
<1>6. \A b \in S : result[b] = x /\ result[b] # Unset
  <2>1. \A b \in S : result[b] \in values
    OBVIOUS
  <2>. HIDE DEF values
  <2>. QED BY <1>1, <1>5, <2>1
<1>. QED BY <1>6 DEF S

LEMMA NextStable == Inv /\ [Next]_vars => StableInv'
<1>1. SUFFICES ASSUME Inv, [Next]_vars, NEW a \in Of("stable"), rc'[a] = "OK"
               PROVE  \A b, c \in Of("leaders") : result'[b] # Unset /\ result'[b] = result'[c]
  BY DEF StableInv, Unset
<1>2. CASE rc[a] = "OK"
  <2>1. \A b, c \in Of("leaders") : result[b] # Unset /\ result[b] = result[c]
    BY <1>1, <1>2 DEF Inv, StableInv
  <2>2. \A b \in Of("leaders") : pc[b] = "done"
    BY <1>1, <2>1 DEF Inv, ResultInv
  <2>3. UNCHANGED result
    <3>1. ASSUME NEW b \in Actions, CheckLeaders(b) PROVE FALSE
      BY <2>2, <3>1 DEF CheckLeaders, Sends, Of
    <3>. QED BY <1>1, <3>1, ResultsStay
  <2>. QED BY <2>1, <2>3
<1>3. CASE Stable(a) /\ rc[a] # "OK"
  <2>. DEFINE values == {result[b] : b \in Of("leaders")}
              same == Unset \notin values /\ Cardinality(values) = 1
  <2>1. Return(a, IF same THEN "OK" ELSE "ERR_FAILED") /\ UNCHANGED resultVars
    BY <1>3 DEF Stable
  <2>2. a \in Actions
    BY DEF Of
  <2>3. same
    <3>. HIDE DEF same
    <3>. QED BY <1>1, <2>1, <2>2 DEF Return, Inv, TypeOK
  <2>4. \A b, c \in Of("leaders") : result[b] # Unset /\ result[b] = result[c]
    BY <2>3, OneValue
  <2>. QED BY <2>1, <2>4 DEF resultVars
<1>. QED BY <1>1, <1>2, <1>3, StableReturns DEF Inv

LEMMA NextBalance == Inv /\ [Next]_vars => BalanceInv'
<1>1. SUFFICES ASSUME Inv, [Next]_vars, NEW a \in Actions, pc'[a] # "done"
               PROVE  errMsg'[a] # "The cluster is balanced!"
  BY DEF BalanceInv
<1>2. pc[a] # "done" /\ errMsg[a] # "The cluster is balanced!"
  BY <1>1, DoneStays DEF Inv, BalanceInv
<1>3. CASE UNCHANGED errMsg
  BY <1>2, <1>3
<1>4. ASSUME NEW b \in Actions, BalanceData(b), b # a PROVE errMsg'[a] # "The cluster is balanced!"
  <2>1. errMsg'[a] = errMsg[a]
    BY <1>1, <1>4 DEF BalanceData, Inv, TypeOK
  <2>. QED BY <1>2, <2>1
<1>5. ASSUME BalanceData(a) PROVE errMsg'[a] # "The cluster is balanced!"
  <2>1. ASSUME errMsg'[a] = "The cluster is balanced!" PROVE FALSE
    <3>1. Return(a, "OK")
      BY <1>5, <2>1 DEF BalanceData
    <3>2. pc'[a] = "done"
      BY <1>1, <3>1 DEF Return, Inv, TypeOK
    <3>. QED BY <1>1, <3>2
  <2>. QED BY <2>1
<1>. QED BY <1>1, <1>3, <1>4, <1>5, MessagesStay

LEMMA NextReturn == Inv /\ [Next]_vars => ReturnInv'
<1>1. SUFFICES ASSUME Inv, [Next]_vars, NEW a \in Actions, pc'[a] # "done"
               PROVE  rc'[a] = "none"
  BY DEF ReturnInv
<1>2. rc[a] = "none"
  BY <1>1, DoneStays DEF Inv, ReturnInv
<1>3. ASSUME NEW b \in Actions, DoRun(b), b # a PROVE rc'[a] = rc[a]
  BY <1>1, <1>3, DoRunShape DEF Inv
<1>4. ASSUME DoRun(a) PROVE UNCHANGED rc
  <2>1. ASSUME NEW ret, Return(a, ret) PROVE FALSE
    BY <1>1, <2>1 DEF Return, Inv, TypeOK
  <2>2. ~Stable(a)
    BY <2>1 DEF Stable
  <2>. QED BY <1>4, <2>1, <2>2 DEF DoRun, Start, GiveUp, Create, Drop, Desc, UpdateConfigs,
                                   CheckLeaders, BalanceData, Retry
<1>5. CASE Change \/ AllEnded \/ UNCHANGED vars
  BY <1>2, <1>5 DEF Change, AllEnded, vars, actionVars
<1>. QED BY <1>1, <1>2, <1>3, <1>4, <1>5 DEF Next

LEMMA InitInv == Init => Inv
<1>1. SUFFICES ASSUME Init PROVE Inv
  OBVIOUS
<1>2. TypeOK
  BY <1>1, InitTyped
<1>3. HistoryType
  BY <1>1 DEF Init, HistoryType
<1>4. ResultInv
  BY <1>1 DEF Init, ResultInv, Of
<1>5. StableInv
  BY <1>1 DEF Init, StableInv, Of
<1>6. BalanceInv
  BY <1>1 DEF Init, BalanceInv
<1>7. ReturnInv
  BY <1>1 DEF Init, ReturnInv
<1>. QED BY <1>2, <1>3, <1>4, <1>5, <1>6, <1>7 DEF Inv

LEMMA NextInv == Inv /\ [Next]_vars => Inv'
  BY NextTyped, NextHistory, NextResult, NextStable, NextBalance, NextReturn DEF Inv

(* The invariant of all actions.                                           *)
THEOREM AlwaysInv == Spec => []Inv
  BY InitInv, NextInv, PTL DEF Spec

-----------------------------------------------------------------------------
(***************************************************************************)
(* The properties.                                                         *)
(***************************************************************************)

LEMMA EqualLists ==
    ASSUME NEW list, NEW s, NEW t, Listed(list, s), Listed(list, t), NEW ip
    PROVE  LeadsAt(s, ip) = LeadsAt(t, ip)
<1>1. PICK m \in Nat : \E e \in Bijection(1 .. m, Leaders(s)) :
         list = [i \in 1 .. m |-> RowOf(s, e[i])]
  BY DEF Listed
<1>2. PICK e \in Bijection(1 .. m, Leaders(s)) : list = [i \in 1 .. m |-> RowOf(s, e[i])]
  BY <1>1
<1>3. PICK n \in Nat : \E f \in Bijection(1 .. n, Leaders(t)) :
         list = [i \in 1 .. n |-> RowOf(t, f[i])]
  BY DEF Listed
<1>4. PICK f \in Bijection(1 .. n, Leaders(t)) : list = [i \in 1 .. n |-> RowOf(t, f[i])]
  BY <1>3
<1>5. DOMAIN list = 1 .. m /\ DOMAIN list = 1 .. n
  BY <1>2, <1>4
<1>6. PICK I : I = 1 .. m /\ I = 1 .. n
  BY <1>5
<1>7. \A i \in I : RowOf(s, e[i]) = RowOf(t, f[i])
  BY <1>2, <1>4, <1>6
<1>8. e \in Bijection(I, Leaders(s)) /\ f \in Bijection(I, Leaders(t))
  BY <1>2, <1>4, <1>6
<1>9. Cardinality(LedAt(s, ip)) = Cardinality(LedAt(t, ip))
  BY <1>7, <1>8, SameRowsSameCounts
<1>. QED BY <1>9 DEF LeadsAt, LedAt

LEMMA StableIsSame == Inv => StableMeansSame
<1>1. SUFFICES ASSUME Inv, NEW a \in Of("stable"), rc[a] = "OK",
                      NEW b \in Of("leaders"), NEW c \in Of("leaders"), NEW ip
               PROVE  /\ NoHost \notin {shot[b][p] : p \in Parts}
                      /\ LeadsAt(shot[b], ip) = LeadsAt(shot[c], ip)
  BY DEF StableMeansSame
<1>2. result[b] # Unset /\ result[c] # Unset /\ result[b] = result[c]
  BY <1>1 DEF Inv, StableInv
<1>3. NoHost \notin Leaders(shot[b]) /\ \E list : result[b] = <<list>> /\ Listed(list, shot[b])
  BY <1>1, <1>2 DEF Inv, ResultInv
<1>4. \E list : result[c] = <<list>> /\ Listed(list, shot[c])
  BY <1>1, <1>2 DEF Inv, ResultInv
<1>5. PICK x : result[b] = <<x>> /\ Listed(x, shot[b])
  BY <1>3
<1>6. PICK y : result[c] = <<y>> /\ Listed(y, shot[c])
  BY <1>4
<1>7. <<x>> = <<y>>
  BY <1>2, <1>5, <1>6
<1>8. x = y
  BY <1>7
<1>9. Listed(x, shot[b]) /\ Listed(x, shot[c])
  BY <1>5, <1>6, <1>8
<1>. QED BY <1>3, <1>9, EqualLists DEF Leaders

(* The condition "$leaderDis1 == $leaderDis2" of a plan means what it is   *)
(* written for: it compares two lists of rows, of hosts that come and go,  *)
(* share an address or lead nothing, and when the lists are equal, every   *)
(* address leads as many partitions at the one look as at the other, and   *)
(* none is without a leader.                                               *)
THEOREM EqualMeansStable == Spec => []StableMeansSame
  BY AlwaysInv, StableIsSame, PTL

LEMMA StepDone ==
    ASSUME Inv, [Next]_vars, NEW a \in Actions, pc[a] = "send", rc'[a] = "OK"
    PROVE  /\ Kind[a] = "create" => space' # 0
           /\ Kind[a] = "drop" => space' = 0
           /\ Kind[a] = "desc" => spaceId'[a] = space /\ space # 0
           /\ Kind[a] = "config" => config'
           /\ Kind[a] = "balance" => balanced
           /\ Kind[a] = "leaders" => \A p \in Parts : leader[p] \in online
<1>1. /\ a \in Actions /\ Kind[a] \in Kinds /\ rc[a] = "none"
      /\ errMsg[a] # "The cluster is balanced!"
  BY MetaAssumption DEF Inv, BalanceInv, ReturnInv
<1>2. DoRun(a)
  <2>1. ASSUME UNCHANGED rc PROVE FALSE
    BY <1>1, <2>1
  <2>2. ASSUME NEW b \in Actions, DoRun(b), b # a PROVE FALSE
    BY <1>1, <2>2, DoRunShape DEF Inv
  <2>. QED BY <2>1, <2>2 DEF Next, Change, AllEnded, vars, actionVars
<1>3. ~Retry(a)
  BY <1>1 DEF Retry
<1>4. ~Return(a, "ERR_FAILED")
  BY <1>1 DEF Return, Inv, TypeOK
<1>5. CASE Start(a) \/ GiveUp(a)
  BY <1>4, <1>5 DEF Start, GiveUp
<1>6. CASE Create(a)
  <2>1. Kind[a] = "create" /\ Created
    BY <1>3, <1>6 DEF Create, Sends
  <2>2. space' # 0
    <3>1. lastId \in Nat
      BY DEF Inv, TypeOK
    <3>. QED BY <2>1, <3>1 DEF Created
  <2>. QED BY <2>1, <2>2
<1>7. CASE Drop(a)
  BY <1>3, <1>7 DEF Drop, Sends
<1>8. CASE Desc(a)
  <2>1. Kind[a] = "desc" /\ space # 0 /\ spaceId' = [spaceId EXCEPT ![a] = space]
    BY <1>3, <1>8 DEF Desc, Sends
  <2>. QED BY <1>1, <2>1 DEF Inv, TypeOK
<1>9. CASE UpdateConfigs(a)
  BY <1>3, <1>9 DEF UpdateConfigs, Sends
<1>10. CASE CheckLeaders(a)
  <2>1. Kind[a] = "leaders" /\ Total = Cardinality(Parts)
    BY <1>3, <1>10 DEF CheckLeaders, Sends
  <2>. QED BY <2>1, AllLed DEF Inv
<1>11. CASE Stable(a)
  BY <1>11 DEF Stable
<1>12. CASE BalanceData(a)
  <2>1. Kind[a] = "balance" /\ errMsg'[a] = "The cluster is balanced!"
    BY <1>3, <1>12 DEF BalanceData, Sends
  <2>2. ~UNCHANGED errMsg
    BY <1>1, <2>1
  <2>3. errMsg' # [errMsg EXCEPT ![a] = "other"]
    BY <1>1, <2>1 DEF Inv, TypeOK
  <2>4. balanced
    BY <1>12, <2>2, <2>3 DEF BalanceData
  <2>. QED BY <2>1, <2>4
<1>. QED BY <1>2, <1>5, <1>6, <1>7, <1>8, <1>9, <1>10, <1>11, <1>12 DEF DoRun

(* OK is returned only by a step that does what the action is for, or that *)
(* finds it: whatever was tried before, and whatever the cluster has done  *)
(* since.                                                                  *)
THEOREM OKIsTrue == Spec => OKMeansDone
<1>1. Inv /\ [Next]_vars =>
        \A a \in Actions : pc[a] = "send" /\ rc'[a] = "OK" =>
          CASE Kind[a] = "create" -> space' # 0
            [] Kind[a] = "drop" -> space' = 0
            [] Kind[a] = "desc" -> spaceId'[a] = space /\ space # 0
            [] Kind[a] = "config" -> config'
            [] Kind[a] = "balance" -> balanced
            [] Kind[a] = "leaders" -> \A p \in Parts : leader[p] \in online
            [] OTHER -> TRUE
  <2>1. SUFFICES ASSUME Inv, [Next]_vars, NEW a \in Actions, pc[a] = "send", rc'[a] = "OK"
                 PROVE  CASE Kind[a] = "create" -> space' # 0
                          [] Kind[a] = "drop" -> space' = 0
                          [] Kind[a] = "desc" -> spaceId'[a] = space /\ space # 0
                          [] Kind[a] = "config" -> config'
                          [] Kind[a] = "balance" -> balanced
                          [] Kind[a] = "leaders" -> \A p \in Parts : leader[p] \in online
                          [] OTHER -> TRUE
    OBVIOUS
  <2>2. /\ Kind[a] = "create" => space' # 0
        /\ Kind[a] = "drop" => space' = 0
        /\ Kind[a] = "desc" => spaceId'[a] = space /\ space # 0
        /\ Kind[a] = "config" => config'
        /\ Kind[a] = "balance" => balanced
        /\ Kind[a] = "leaders" => \A p \in Parts : leader[p] \in online
    BY <2>1, StepDone
  <2>. QED BY <2>2
<1>. QED BY <1>1, AlwaysInv, PTL DEF Spec, OKMeansDone

-----------------------------------------------------------------------------
(***************************************************************************)
(* The invariant.                                                          *)
(***************************************************************************)

Active(f) == fpc[f] \notin {"idle", "done"}

FileSteps(class) ==
    CASE class = "CleanWal" -> {"desc", "remove"}
      [] class = "TruncateWal" -> {"desc", "ls", "truncate"}
      [] class = "CleanCheckpoint" -> {"remove"}
      [] class = "RestoreFromCheckpoint" -> {"find", "remove", "copy"}
      [] class = "RestoreFromDataDir" -> {"remove", "copy"}

Kept == [data : Int, wal : Int]

Content == [data : Int, wal : Int, snaps : Seq(Kept)]

FilesTypeOK ==
    /\ state \in [Insts -> {"RUNNING", "STOPPED"}]
    /\ up \in [Insts -> BOOLEAN]
    /\ dir \in [Dirs -> Content]
    /\ fpc \in [FileActions -> {"idle", "desc", "find", "remove", "copy", "ls", "truncate", "done"}]
    /\ frc \in [FileActions -> {"none", "OK", "ERR_FAILED"}]
    /\ todo \in Seq(Insts \X Paths) \cup Seq(Dirs)
    /\ size \in Int
    /\ aborted \in BOOLEAN
    /\ turns \in 0 .. MaxTurns
    /\ before \in [Dirs -> Content]
    /\ awake \in SUBSET Insts

(* One action on files runs at a time, at a step of its class with at least *)
(* one directory to treat, and one that looked for its space has returned   *)
(* from that.                                                               *)
Alone ==
    /\ \A f, g \in FileActions : Active(f) /\ Active(g) => f = g
    /\ \A f \in FileActions :
          /\ Active(f) => fpc[f] \in FileSteps(Class[f])
          /\ fpc[f] # "done" => frc[f] = "none"
          /\ Active(f) /\ fpc[f] # "desc" => todo # <<>>
          /\ Class[f] \in {"CleanWal", "TruncateWal"} /\ fpc[f] \in {"remove", "ls", "truncate"}
                => pc[DescOf[f]] = "done"

(* What a snapshot holds is data.                                           *)
SnapsFull ==
    \A d \in Dirs : dir[d].snaps = NoDir
                    \/ \A n \in 1 .. Len(dir[d].snaps) : dir[d].snaps[n].data # Gone

-----------------------------------------------------------------------------
(***************************************************************************)
(* A plan of both kinds of actions is a plan of statements.                *)
(***************************************************************************)

LEMMA StepShapes ==
    ASSUME [PlanNext]_allVars
    PROVE  \/ [Next]_vars /\ UNCHANGED fileVars
           \/ UNCHANGED vars /\ \E f \in FileActions : DoRunOnFiles(f)
           \/ UNCHANGED vars /\ Turn
<1>1. CASE ~aborted /\ (\E a \in Actions : Called(a) /\ DoRun(a)) /\ UNCHANGED fileVars
  BY <1>1 DEF Next
<1>2. CASE Change /\ UNCHANGED fileVars
  BY <1>2 DEF Next
<1>3. CASE PlanEnded \/ UNCHANGED allVars
  BY <1>3 DEF PlanEnded, allVars
<1>. QED BY <1>1, <1>2, <1>3 DEF PlanNext

LEMMA PlanIsOfStatements == [PlanNext]_allVars => [Next]_vars
  BY StepShapes

(* Statements do in a plan with actions on files what they do in any plan. *)
THEOREM FilesPlanRefines == FilesSpec => Spec
<1>1. Init /\ FilesInit => Init
  OBVIOUS
<1>. QED BY <1>1, PlanIsOfStatements, PTL DEF FilesSpec, Spec

-----------------------------------------------------------------------------
(***************************************************************************)
(* Types.                                                                  *)
(***************************************************************************)

LEMMA PathsTyped ==
    ASSUME NEW i \in Insts
    PROVE  /\ PathsOf(i) \in Seq(Insts \X Paths)
           /\ Len(PathsOf(i)) = PathNum
           /\ PathsOf(i) # <<>>
<1>1. PathNum \in Nat \ {0}
  BY FilesAssumption
<1>2. PathsOf(i) \in [1 .. PathNum -> Insts \X Paths]
  BY DEF PathsOf, Paths
<1>. QED BY <1>1, <1>2

LEMMA DirTyped ==
    ASSUME NEW d \in Dirs
    PROVE  d[1] \in Insts /\ d[2] \in Paths /\ d[3] \in Spaces /\ d = <<d[1], d[2], d[3]>>
  BY DEF Dirs

LEMMA InitFilesTyped == FilesInit => FilesTypeOK
<1>1. SUFFICES ASSUME FilesInit PROVE FilesTypeOK
  OBVIOUS
<1>2. \A s \in InitialSnaps : s \in Seq(Kept)
  <2>1. <<>> \in Seq(Kept)
    OBVIOUS
  <2>2. NoDir \in Seq(Kept)
    BY DEF NoDir, Kept, Gone
  <2>3. <<[data |-> 1, wal |-> 0], [data |-> 2, wal |-> 1]>> \in Seq(Kept)
    BY DEF Kept
  <2>. QED BY <2>1, <2>2, <2>3 DEF InitialSnaps
<1>3. \A w \in InitialWals : w \in Int
  BY FilesAssumption DEF InitialWals, Gone
<1>4. PICK wal \in [Paths -> InitialWals], snaps \in [Paths -> InitialSnaps] :
         dir = [d \in Dirs |-> [data |-> 3, wal |-> wal[d[2]], snaps |-> snaps[d[2]]]]
  BY <1>1 DEF FilesInit
<1>5. dir \in [Dirs -> Content]
  <2>1. ASSUME NEW d \in Dirs
        PROVE  [data |-> 3, wal |-> wal[d[2]], snaps |-> snaps[d[2]]] \in Content
    <3>1. d[2] \in Paths
      BY DirTyped
    <3>2. wal[d[2]] \in Int /\ snaps[d[2]] \in Seq(Kept)
      BY <1>2, <1>3, <3>1
    <3>. QED BY <3>2 DEF Content
  <2>. QED BY <1>4, <2>1
<1>6. turns \in 0 .. MaxTurns
  BY <1>1, FilesAssumption DEF FilesInit
<1>7. todo \in Seq(Dirs) /\ size \in Int
  BY <1>1 DEF FilesInit
<1>. QED BY <1>1, <1>5, <1>6, <1>7 DEF FilesInit, FilesTypeOK

(* What an assignment to fields gives, for directories as for any records. *)
LEMMA FieldsSet ==
    ASSUME NEW S, NEW c \in [data : Int, wal : Int, snaps : S], NEW v \in Int, NEW w \in Int
    PROVE  [c EXCEPT !.data = v, !.wal = w] = [data |-> v, wal |-> w, snaps |-> c.snaps]
<1>. DEFINE Contents == [data : Int, wal : Int, snaps : S]
            l == [c EXCEPT !.data = v, !.wal = w]
            r == [data |-> v, wal |-> w, snaps |-> c.snaps]
<1>1. l \in Contents /\ l.data = v /\ l.wal = w /\ l.snaps = c.snaps
  OBVIOUS
<1>2. r \in Contents /\ r.data = v /\ r.wal = w /\ r.snaps = c.snaps
  OBVIOUS
<1>3. \A x, y \in Contents : x.data = y.data /\ x.wal = y.wal /\ x.snaps = y.snaps => x = y
  OBVIOUS
<1>4. l = r
  <2>. HIDE DEF l, r, Contents
  <2>. QED BY <1>1, <1>2, <1>3
<1>. QED BY <1>4

LEMMA WalSet ==
    ASSUME NEW S, NEW c \in [data : Int, wal : Int, snaps : S], NEW w \in Int
    PROVE  [c EXCEPT !.wal = w] = [data |-> c.data, wal |-> w, snaps |-> c.snaps]
  OBVIOUS

LEMMA SnapsSet ==
    ASSUME NEW S, NEW c \in [data : Int, wal : Int, snaps : S], NEW s \in S
    PROVE  [c EXCEPT !.snaps = s] = [data |-> c.data, wal |-> c.wal, snaps |-> s]
  OBVIOUS

LEMMA ContentIs ==
    /\ \A v, w \in Int : \A s \in Seq(Kept) : [data |-> v, wal |-> w, snaps |-> s] \in Content
    /\ \A c \in Content : c.data \in Int /\ c.wal \in Int /\ c.snaps \in Seq(Kept)
    /\ \A c \in Content : c = [data |-> c.data, wal |-> c.wal, snaps |-> c.snaps]
<1>1. PICK S : S = Seq(Kept)
  OBVIOUS
<1>2. Content = [data : Int, wal : Int, snaps : S]
  BY <1>1 DEF Content
<1>3. \A v, w \in Int : \A s \in S : [data |-> v, wal |-> w, snaps |-> s] \in Content
  BY <1>2
<1>4. \A c \in Content : c.data \in Int /\ c.wal \in Int /\ c.snaps \in S
  BY <1>2
<1>5. \A c \in Content : c = [data |-> c.data, wal |-> c.wal, snaps |-> c.snaps]
  BY <1>2
<1>. QED BY <1>1, <1>3, <1>4, <1>5

(* The database writes and makes snapshots where a process runs, and never *)
(* loses any data.                                                         *)
LEMMA TurnKeeps ==
    ASSUME FilesTypeOK, SnapsFull, Turn, NEW d \in Dirs
    PROVE  /\ dir' \in [Dirs -> Content]
           /\ dir[d].data # Gone <=> dir'[d].data # Gone
           /\ dir[d].snaps # NoDir => dir'[d].snaps # NoDir
           /\ dir'[d].snaps = NoDir \/ \A n \in 1 .. Len(dir'[d].snaps) : dir'[d].snaps[n].data # Gone
           /\ d[1] \notin awake' => d[1] \notin awake /\ dir'[d] = dir[d]
<1>1. PICK i \in Insts : Write(i) \/ Snapshot(i) \/ StartedOrStopped(i)
  BY DEF Turn
<1>2. awake' = awake \cup {j \in Insts : up'[j]}
  BY DEF Turn
<1>3. dir[d] \in Content /\ dir \in [Dirs -> Content]
  BY DEF FilesTypeOK
<1>4. dir[d].snaps = NoDir \/ \A n \in 1 .. Len(dir[d].snaps) : dir[d].snaps[n].data # Gone
  BY DEF SnapsFull
<1>5. CASE Write(i)
  <2>1. PICK p \in Paths, s \in Spaces :
           /\ dir[<<i, p, s>>].data # Gone
           /\ dir' = Holding(<<i, p, s>>, 4, IF dir[<<i, p, s>>].wal = Gone THEN 1 ELSE dir[<<i, p, s>>].wal + 1)
    BY <1>5 DEF Write
  <2>2. PICK e : e = <<i, p, s>>
    OBVIOUS
  <2>3. e \in Dirs /\ e[1] = i /\ dir[e] \in Content /\ dir[e].data # Gone
    BY <1>3, <2>1, <2>2 DEF Dirs
  <2>4. PICK w \in Int : w = IF dir[e].wal = Gone THEN 1 ELSE dir[e].wal + 1
    BY <2>3, ContentIs
  <2>. PICK v \in Int : v = 4
    OBVIOUS
  <2>5. dir' = [dir EXCEPT ![e] = [data |-> v, wal |-> w, snaps |-> dir[e].snaps]]
    BY <1>3, <2>1, <2>2, <2>3, <2>4 DEF Holding
  <2>6. [data |-> v, wal |-> w, snaps |-> dir[e].snaps] \in Content
    BY <2>3, ContentIs
  <2>7. i \in awake'
    BY <1>2, <1>5 DEF Write
  <2>. QED BY <1>2, <1>3, <1>4, <2>3, <2>5, <2>6, <2>7 DEF Gone
<1>6. CASE Snapshot(i)
  <2>. DEFINE Longer(e) == Append(IF dir[e].snaps = NoDir THEN <<>> ELSE dir[e].snaps,
                                  [data |-> dir[e].data, wal |-> dir[e].wal])
  <2>1. /\ \A e \in Dirs : e[1] = i => dir[e].data # Gone
        /\ dir' = [e \in Dirs |-> IF e[1] # i THEN dir[e] ELSE [dir[e] EXCEPT !.snaps = Longer(e)]]
        /\ i \in awake'
    BY <1>2, <1>6 DEF Snapshot
  <2>2. ASSUME NEW e \in Dirs
        PROVE  Longer(e) \in Seq(Kept)
    <3>1. [data |-> dir[e].data, wal |-> dir[e].wal] \in Kept /\ dir[e].snaps \in Seq(Kept)
      BY <1>3 DEF Content, Kept
    <3>. QED BY <3>1
  <2>3. dir' \in [Dirs -> Content]
    <3>1. ASSUME NEW e \in Dirs
          PROVE  (IF e[1] # i THEN dir[e] ELSE [dir[e] EXCEPT !.snaps = Longer(e)]) \in Content
      <4>. HIDE DEF Longer
      <4>. QED BY <1>3, <2>2 DEF Content
    <3>. HIDE DEF Longer
    <3>. QED BY <2>1, <3>1
  <2>4. CASE d[1] # i
    BY <1>2, <1>4, <2>1, <2>3, <2>4
  <2>5. CASE d[1] = i
    <3>1. dir'[d] = [dir[d] EXCEPT !.snaps = Longer(d)]
      BY <2>1, <2>5
    <3>2. dir'[d].snaps = Longer(d) /\ dir'[d].data = dir[d].data
      <4>. HIDE DEF Longer
      <4>. QED BY <1>3, <3>1 DEF Content
    <3>3. PICK s \in Seq(Kept) : /\ s = IF dir[d].snaps = NoDir THEN <<>> ELSE dir[d].snaps
                                 /\ \A n \in 1 .. Len(s) : s[n].data # Gone
      <4>1. CASE dir[d].snaps = NoDir
        <5>1. <<>> \in Seq(Kept) /\ Len(<<>>) = 0
          OBVIOUS
        <5>2. \A n \in 1 .. Len(<<>>) : <<>>[n].data # Gone
          BY <5>1
        <5>. QED BY <4>1, <5>1, <5>2
      <4>2. CASE dir[d].snaps # NoDir
        <5>1. dir[d].snaps \in Seq(Kept)
          BY <1>3 DEF Content
        <5>. QED BY <1>4, <4>2, <5>1
      <4>. QED BY <4>1, <4>2
    <3>4. PICK x \in Kept : x = [data |-> dir[d].data, wal |-> dir[d].wal] /\ x.data # Gone
      <4>1. dir[d].data \in Int /\ dir[d].wal \in Int /\ dir[d].data # Gone
        BY <1>3, <2>1, <2>5 DEF Content
      <4>2. [data |-> dir[d].data, wal |-> dir[d].wal] \in Kept
        BY <4>1 DEF Kept
      <4>3. PICK x : x = [data |-> dir[d].data, wal |-> dir[d].wal]
        OBVIOUS
      <4>4. x.data # Gone
        BY <4>1, <4>3
      <4>. QED BY <4>2, <4>3, <4>4
    <3>5. dir'[d].snaps = Append(s, x)
      BY <3>2, <3>3, <3>4
    <3>6. /\ Len(Append(s, x)) = Len(s) + 1
          /\ \A n \in 1 .. Len(s) : Append(s, x)[n] = s[n]
          /\ Append(s, x)[Len(s) + 1] = x
          /\ Len(s) \in Nat
      BY <3>3, <3>4
    <3>7. \A n \in 1 .. Len(s) + 1 : Append(s, x)[n].data # Gone
      BY <3>3, <3>4, <3>6
    <3>8. Append(s, x) # NoDir
      <4>1. NoDir[1].data = Gone
        BY DEF NoDir
      <4>. QED BY <3>6, <3>7, <4>1
    <3>. QED BY <2>1, <2>3, <2>5, <3>2, <3>5, <3>6, <3>7, <3>8
  <2>. QED BY <2>4, <2>5
<1>7. CASE StartedOrStopped(i)
  BY <1>2, <1>3, <1>4, <1>7 DEF StartedOrStopped
<1>. QED BY <1>1, <1>5, <1>6, <1>7

LEMMA TurnTyped == FilesTypeOK /\ SnapsFull /\ Turn => FilesTypeOK' /\ SnapsFull'
<1>1. SUFFICES ASSUME FilesTypeOK, SnapsFull, Turn PROVE FilesTypeOK' /\ SnapsFull'
  OBVIOUS
<1>2. SnapsFull'
  BY <1>1, TurnKeeps DEF SnapsFull
<1>3. dir' \in [Dirs -> Content]
  <2>1. CASE Dirs = {}
    <3>1. PICK i \in Insts : Write(i) \/ Snapshot(i) \/ StartedOrStopped(i)
      BY <1>1 DEF Turn
    <3>2. CASE Write(i)
      <4>1. PICK p \in Paths, s \in Spaces : TRUE
        BY <3>2 DEF Write
      <4>2. <<i, p, s>> \in Dirs
        BY DEF Dirs
      <4>. QED BY <2>1, <4>2
    <3>3. CASE Snapshot(i)
      BY <2>1, <3>3 DEF Snapshot
    <3>4. CASE StartedOrStopped(i)
      BY <1>1, <3>4 DEF StartedOrStopped, FilesTypeOK
    <3>. QED BY <3>1, <3>2, <3>3, <3>4
  <2>. QED BY <1>1, <2>1, TurnKeeps
<1>4. up' \in [Insts -> BOOLEAN] /\ state' \in [Insts -> {"RUNNING", "STOPPED"}]
  BY <1>1 DEF FilesTypeOK, Turn, Write, Snapshot, StartedOrStopped
<1>5. turns' \in 0 .. MaxTurns
  BY <1>1, FilesAssumption DEF FilesTypeOK, Turn
<1>. QED BY <1>1, <1>2, <1>3, <1>4, <1>5 DEF FilesTypeOK, Turn

(* Where the actions on files stand.                                       *)
Steps == {"idle", "desc", "find", "remove", "copy", "ls", "truncate", "done"}

Lists == Seq(Insts \X Paths) \cup Seq(Dirs)

Placed ==
    /\ fpc \in [FileActions -> Steps]
    /\ frc \in [FileActions -> {"none", "OK", "ERR_FAILED"}]
    /\ todo \in Lists

LEMMA GotoPlaced ==
    ASSUME Placed, NEW f \in FileActions, NEW step \in Steps, NEW dirs \in Lists, Goto(f, step, dirs)
    PROVE  Placed'
  BY DEF Placed, Goto

LEMMA ReturnPlaced ==
    ASSUME Placed, NEW f \in FileActions, NEW ret \in {"none", "OK", "ERR_FAILED"}, FileReturn(f, ret)
    PROVE  Placed'
<1>1. <<>> \in Lists
  BY DEF Lists
<1>. QED BY <1>1 DEF Placed, FileReturn, Steps

LEMMA TailListed ==
    ASSUME todo \in Lists, todo # <<>>
    PROVE  Tail(todo) \in Lists /\ Len(Tail(todo)) = Len(todo) - 1 /\ Len(todo) \in Nat \ {0}
<1>1. CASE todo \in Seq(Insts \X Paths)
  BY <1>1 DEF Lists
<1>2. CASE todo \in Seq(Dirs)
  BY <1>2 DEF Lists
<1>. QED BY <1>1, <1>2 DEF Lists

LEMMA NextPlaced ==
    ASSUME Placed, todo # <<>>, NEW f \in FileActions, NEW step \in Steps, NextDir(f, step)
    PROVE  Placed'
<1>1. Tail(todo) \in Lists
  BY TailListed DEF Placed
<1>. QED BY <1>1, GotoPlaced, ReturnPlaced DEF NextDir

(* What RestoreFromCheckpointAction may find under the last path.          *)
Found == {d \in OnePath(PathNum) : dir[d].snaps # NoDir}

LEMMA FoundListed ==
    ASSUME Found # {}, NEW dirs \in [1 .. Cardinality(Found) -> Found]
    PROVE  /\ dirs \in Seq(Dirs) /\ dirs # <<>>
           /\ Len(dirs) = Cardinality(Found) /\ Cardinality(Found) \in Nat \ {0}
<1>. DEFINE at == [s \in Spaces |-> <<Inst, PathNum, s>>]
            T == {at[s] : s \in Spaces}
<1>1. at \in Surjection(Spaces, T)
  BY DEF Surjection
<1>2. IsFiniteSet(T)
  <2>. HIDE DEF at, T
  <2>. QED BY <1>1, FS_Surjection, FilesAssumption
<1>3. Found \in SUBSET T
  BY DEF Found, OnePath, Dirs
<1>4. IsFiniteSet(Found)
  <2>. HIDE DEF T
  <2>. QED BY <1>2, <1>3, FS_Subset
<1>5. Cardinality(Found) \in Nat \ {0}
  BY <1>4, FS_EmptySet, FS_CardinalityType
<1>6. Found \subseteq Dirs
  BY DEF Found, OnePath
<1>7. PICK n \in Nat \ {0} : n = Cardinality(Found)
  BY <1>5
<1>8. dirs \in Seq(Dirs) /\ dirs # <<>> /\ Len(dirs) = n
  BY <1>6, <1>7
<1>. QED BY <1>7, <1>8

(* Every command puts the plan somewhere.                                  *)
LEMMA CommandPlaced ==
    ASSUME Placed, todo # <<>>, NEW f \in FileActions, FileStep(f)
    PROVE  Placed'
<1>1. {"find", "remove", "copy", "ls", "truncate"} \subseteq Steps
  BY DEF Steps
<1>2. todo \in Lists /\ Tail(todo) \in Lists
  BY TailListed DEF Placed
<1>3. ASSUME Abort(f) PROVE Placed'
  BY <1>3, ReturnPlaced DEF Abort
<1>4. CASE CleanWal(f)
  BY <1>1, <1>3, <1>4, NextPlaced DEF CleanWal, Gives
<1>5. CASE CleanCheckpoint(f)
  BY <1>1, <1>3, <1>5, NextPlaced DEF CleanCheckpoint, Gives
<1>6. CASE FindCheckpoints(f)
  <2>1. ASSUME NEW dirs \in [1 .. Cardinality(Found) -> Found], Found # {}, Goto(f, "remove", dirs)
        PROVE  Placed'
    <3>1. dirs \in Lists
      BY <2>1, FoundListed DEF Lists
    <3>. QED BY <1>1, <2>1, <3>1, GotoPlaced
  <2>2. \/ Abort(f)
        \/ Goto(f, "find", Tail(todo))
        \/ FileReturn(f, "OK")
        \/ \E dirs \in [1 .. Cardinality(Found) -> Found] : Found # {} /\ Goto(f, "remove", dirs)
    BY <1>6 DEF FindCheckpoints, Asks, Found
  <2>. QED BY <1>1, <1>2, <1>3, <2>1, <2>2, GotoPlaced, ReturnPlaced
<1>7. CASE RemoveLive(f)
  BY <1>1, <1>2, <1>3, <1>7, GotoPlaced DEF RemoveLive, Gives
<1>8. CASE CopySnapshot(f)
  BY <1>1, <1>3, <1>8, NextPlaced DEF CopySnapshot, Gives
<1>9. CASE RemovePath(f)
  BY <1>1, <1>2, <1>3, <1>9, GotoPlaced DEF RemovePath, Gives
<1>10. CASE CopyPath(f)
  BY <1>1, <1>3, <1>10, NextPlaced DEF CopyPath, Gives
<1>11. CASE ListWal(f)
  BY <1>1, <1>2, <1>3, <1>11, GotoPlaced, ReturnPlaced DEF ListWal, Asks
<1>12. CASE TruncateWal(f)
  BY <1>1, <1>3, <1>12, NextPlaced DEF TruncateWal, Gives
<1>. QED BY <1>4, <1>5, <1>6, <1>7, <1>8, <1>9, <1>10, <1>11, <1>12 DEF FileStep

(* The directories of the j-th storage of an order, path by path.          *)
Slot(order, n) == <<order[((n - 1) \div PathNum) + 1], ((n - 1) % PathNum) + 1>>

Orders == {order \in [1 .. Count -> Insts] : \A m, n \in 1 .. Count : order[m] = order[n] => m = n}

LEMMA CountIs == Count \in Nat /\ PathNum \in Nat \ {0} /\ Count * PathNum \in Nat
<1>1. Cardinality(Insts) \in Nat
  BY FilesAssumption, FS_CardinalityType
<1>2. Count \in Nat /\ PathNum \in Nat
  BY <1>1, FilesAssumption
<1>3. Count * PathNum \in Nat
  BY <1>2
<1>. QED BY <1>2, <1>3, FilesAssumption

(* Division with remainder by the number of paths.                         *)
LEMMA PathDivision ==
    ASSUME NEW a \in Int, NEW b \in Nat \ {0}
    PROVE  /\ a \div b \in Int
           /\ a % b \in 0 .. b - 1
           /\ a = b * (a \div b) + (a % b)
  BY SMT

LEMMA OneDivision ==
    ASSUME NEW b \in Nat \ {0}, NEW p \in Int, NEW q \in Int, NEW m \in 0 .. b - 1, NEW n \in 0 .. b - 1,
           b * p + m = b * q + n
    PROVE  p = q /\ m = n
<1>1. \A x, y \in Int : \A k, l \in 0 .. b - 1 : b * x + k = b * y + l => ~(x < y)
  <2>1. SUFFICES ASSUME NEW x \in Int, NEW y \in Int, NEW k \in 0 .. b - 1, NEW l \in 0 .. b - 1,
                        b * x + k = b * y + l, x < y
                 PROVE  FALSE
    OBVIOUS
  <2>2. PICK d \in Int : y = x + d /\ d >= 1
    BY <2>1
  <2>3. b * y = b * x + b * d
    BY <2>2
  <2>4. b * d >= b
    BY <2>2
  <2>. QED BY <2>1, <2>3, <2>4
<1>2. ~(p < q) /\ ~(q < p)
  BY <1>1
<1>. QED BY <1>2

(* The slots are the paths of the storages of an order, each once.         *)
LEMMA SlotHas ==
    ASSUME NEW order \in Orders, NEW n \in 1 .. Count * PathNum
    PROVE  \E j \in 1 .. Count, p \in Paths :
              n = PathNum * (j - 1) + p /\ Slot(order, n) = <<order[j], p>>
<1>1. Count \in Nat /\ PathNum \in Nat \ {0} /\ Count * PathNum \in Nat
  BY CountIs
<1>2. n - 1 \in Int /\ n - 1 >= 0 /\ n - 1 < Count * PathNum
  BY <1>1
<1>3. PICK q \in Int, m \in 0 .. PathNum - 1 :
         n - 1 = PathNum * q + m /\ q = (n - 1) \div PathNum /\ m = (n - 1) % PathNum
  BY <1>1, <1>2, PathDivision
<1>4. q >= 0
  <2>1. ASSUME q <= -1 PROVE FALSE
    <3>1. PathNum * q <= -PathNum
      BY <1>1, <2>1
    <3>. QED BY <1>1, <1>2, <1>3, <3>1
  <2>. QED BY <2>1
<1>5. q < Count
  <2>1. ASSUME q >= Count PROVE FALSE
    <3>1. PICK d \in Nat : q = Count + d
      BY <1>1, <2>1
    <3>2. PathNum * q = Count * PathNum + PathNum * d /\ PathNum * d >= 0
      BY <1>1, <3>1
    <3>. QED BY <1>1, <1>2, <1>3, <3>2
  <2>. QED BY <1>1, <2>1
<1>6. q + 1 \in 1 .. Count /\ m + 1 \in Paths /\ n = PathNum * ((q + 1) - 1) + (m + 1)
  <2>1. q + 1 \in 1 .. Count /\ m + 1 \in Paths /\ (q + 1) - 1 = q
    BY <1>1, <1>3, <1>4, <1>5 DEF Paths
  <2>2. PathNum * q \in Int
    BY <1>1
  <2>. QED BY <1>1, <1>3, <2>1, <2>2
<1>7. Slot(order, n) = <<order[q + 1], m + 1>>
  BY <1>3 DEF Slot
<1>. QED BY <1>6, <1>7

LEMMA SlotIs ==
    ASSUME NEW order \in Orders, NEW j \in 1 .. Count, NEW p \in Paths
    PROVE  \E n \in 1 .. Count * PathNum : n = PathNum * (j - 1) + p /\ Slot(order, n) = <<order[j], p>>
<1>1. Count \in Nat /\ PathNum \in Nat \ {0} /\ Count * PathNum \in Nat
  BY CountIs
<1>2. PICK i \in Nat, k \in Nat : i = j - 1 /\ j = i + 1 /\ i + 1 + k = Count
  BY <1>1
<1>3. PICK m \in 0 .. PathNum - 1 : p = m + 1
  BY <1>1 DEF Paths
<1>4. Count * PathNum = PathNum * i + PathNum + PathNum * k
  BY <1>1, <1>2
<1>5. PathNum * i \in Nat /\ PathNum * k \in Nat
  BY <1>1
<1>6. PICK n \in 1 .. Count * PathNum : n = PathNum * i + p /\ n - 1 = PathNum * i + m
  BY <1>1, <1>3, <1>4, <1>5
<1>7. PICK a \in Int : a = n - 1
  BY <1>1, <1>6
<1>8. PICK q \in Int, l \in 0 .. PathNum - 1 :
         a = PathNum * q + l /\ q = a \div PathNum /\ l = a % PathNum
  BY <1>1, PathDivision
<1>9. PathNum * q + l = PathNum * i + m
  BY <1>6, <1>7, <1>8
<1>10. q = i /\ l = m
  BY <1>1, <1>9, OneDivision
<1>11. (n - 1) \div PathNum = i /\ (n - 1) % PathNum = m
  BY <1>7, <1>8, <1>10
<1>. QED BY <1>2, <1>3, <1>6, <1>11 DEF Slot

LEMMA SlotsDiffer ==
    ASSUME NEW order \in Orders, NEW m \in 1 .. Count * PathNum, NEW n \in 1 .. Count * PathNum,
           Slot(order, m) = Slot(order, n)
    PROVE  m = n
<1>1. PICK j \in 1 .. Count, p \in Paths : m = PathNum * (j - 1) + p /\ Slot(order, m) = <<order[j], p>>
  BY SlotHas
<1>2. PICK k \in 1 .. Count, q \in Paths : n = PathNum * (k - 1) + q /\ Slot(order, n) = <<order[k], q>>
  BY SlotHas
<1>3. order[j] = order[k] /\ p = q
  BY <1>1, <1>2
<1>4. j = k
  BY <1>3 DEF Orders
<1>. QED BY <1>1, <1>2, <1>3, <1>4

(* What is left of them after the first k.                                 *)
Left(order, k) == [n \in 1 .. Count * PathNum - k |-> Slot(order, n + k)]

LEMMA SlotsListed ==
    ASSUME NEW order \in Orders, NEW k \in 0 .. Count * PathNum, k < Count * PathNum
    PROVE  /\ Left(order, k) \in Seq(Insts \X Paths) /\ Left(order, k) # <<>>
           /\ Len(Left(order, k)) = Count * PathNum - k
<1>1. PICK m \in Nat \ {0} : m = Count * PathNum - k
  BY CountIs
<1>2. \A n \in 1 .. m : Slot(order, n + k) \in Insts \X Paths
  <2>1. SUFFICES ASSUME NEW n \in 1 .. m PROVE Slot(order, n + k) \in Insts \X Paths
    OBVIOUS
  <2>2. n + k \in 1 .. Count * PathNum
    BY <1>1, CountIs
  <2>3. PICK j \in 1 .. Count, p \in Paths : Slot(order, n + k) = <<order[j], p>>
    BY <2>2, SlotHas
  <2>. QED BY <2>3 DEF Orders
<1>3. PICK left : left = [n \in 1 .. m |-> Slot(order, n + k)]
  OBVIOUS
<1>4. left \in [1 .. m -> Insts \X Paths]
  BY <1>2, <1>3
<1>5. left \in Seq(Insts \X Paths) /\ left # <<>> /\ Len(left) = m
  BY <1>4
<1>. QED BY <1>1, <1>3, <1>5 DEF Left

LEMMA HoldingTyped ==
    ASSUME FilesTypeOK, NEW d, NEW v, NEW w, d \in Dirs => v \in Int /\ w \in Int
    PROVE  /\ Holding(d, v, w) \in [Dirs -> Content]
           /\ d \in Dirs => Holding(d, v, w)[d] = [data |-> v, wal |-> w, snaps |-> dir[d].snaps]
           /\ \A e \in Dirs \ {d} : Holding(d, v, w)[e] = dir[e]
<1>1. dir \in [Dirs -> Content]
  BY DEF FilesTypeOK
<1>2. PICK r : r = [data |-> v, wal |-> w, snaps |-> dir[d].snaps]
  OBVIOUS
<1>3. d \in Dirs => r \in Content
  BY <1>1, <1>2, ContentIs
<1>4. Holding(d, v, w) = [dir EXCEPT ![d] = r]
  BY <1>2 DEF Holding
<1>. QED BY <1>1, <1>2, <1>3, <1>4

LEMMA GoneInt == Gone \in Int
  BY DEF Gone

LEMMA TruncatedInt ==
    ASSUME FilesTypeOK, NEW d \in Dirs
    PROVE  Truncated(dir[d].wal) \in Int
  BY ContentIs, FilesAssumption DEF FilesTypeOK, Truncated

LEMMA CommandTyped ==
    ASSUME FilesTypeOK, NEW f \in FileActions, FileStep(f)
    PROVE  dir' \in [Dirs -> Content] /\ size' \in Int /\ aborted' \in BOOLEAN
<1>1. dir \in [Dirs -> Content] /\ size \in Int /\ aborted \in BOOLEAN
  BY DEF FilesTypeOK
<1>2. \A e \in Dirs : /\ dir[e] \in Content
                      /\ dir[e].data \in Int /\ dir[e].wal \in Int /\ dir[e].snaps \in Seq(Kept)
                      /\ dir[e] = [data |-> dir[e].data, wal |-> dir[e].wal, snaps |-> dir[e].snaps]
  BY <1>1, ContentIs
<1>3. NoDir \in Seq(Kept)
  BY DEF NoDir, Kept, Gone
<1>4. CASE CleanWal(f)
  <2>1. PICK w : w = WalDir(f, Head(todo))
    OBVIOUS
  <2>2. PICK new : new = [e \in Dirs |-> IF e = w THEN [dir[e] EXCEPT !.wal = Gone] ELSE dir[e]]
    OBVIOUS
  <2>3. ASSUME NEW e \in Dirs PROVE [dir[e] EXCEPT !.wal = Gone] \in Content
    BY <1>2, GoneInt DEF Content
  <2>4. new \in [Dirs -> Content]
    BY <1>2, <2>2, <2>3
  <2>. QED BY <1>1, <1>4, <2>1, <2>2, <2>4 DEF CleanWal, Gives, Abort
<1>5. CASE CleanCheckpoint(f)
  <2>1. PICK mine : mine = OnePath(Head(todo)[2])
    OBVIOUS
  <2>2. PICK new : new = [e \in Dirs |-> IF e \in mine THEN [dir[e] EXCEPT !.snaps = NoDir] ELSE dir[e]]
    OBVIOUS
  <2>3. ASSUME NEW e \in Dirs PROVE [dir[e] EXCEPT !.snaps = NoDir] \in Content
    BY <1>2, <1>3 DEF Content
  <2>4. new \in [Dirs -> Content]
    BY <1>2, <2>2, <2>3
  <2>. QED BY <1>1, <1>5, <2>1, <2>2, <2>4 DEF CleanCheckpoint, Gives, Abort
<1>6. CASE FindCheckpoints(f)
  BY <1>1, <1>6 DEF FindCheckpoints, Asks, Abort
<1>7. CASE RemoveLive(f)
  <2>1. Holding(Head(todo), Gone, Gone) \in [Dirs -> Content]
    BY HoldingTyped, GoneInt
  <2>. QED BY <1>1, <1>7, <2>1 DEF RemoveLive, Gives, Abort
<1>8. CASE CopySnapshot(f)
  <2>1. PICK d : d = Head(todo)
    OBVIOUS
  <2>2. CASE dir[d].snaps = <<>>
    BY <1>1, <1>8, <2>1, <2>2 DEF CopySnapshot, Abort
  <2>3. CASE dir[d].snaps # <<>>
    <3>1. PICK newest : newest = dir[d].snaps[Len(dir[d].snaps)]
      OBVIOUS
    <3>2. d \in Dirs => newest \in Kept
      <4>1. ASSUME d \in Dirs PROVE newest \in Kept
        <5>1. PICK s \in Seq(Kept) : s = dir[d].snaps
          BY <1>2, <4>1
        <5>2. Len(s) \in 1 .. Len(s)
          BY <2>3, <5>1
        <5>. QED BY <3>1, <5>1, <5>2
      <4>. QED BY <4>1
    <3>3. d \in Dirs => newest.data \in Int /\ newest.wal \in Int
      BY <3>2 DEF Kept
    <3>4. Holding(d, newest.data, newest.wal) \in [Dirs -> Content]
      BY <3>3, HoldingTyped
    <3>. QED BY <1>1, <1>8, <2>1, <2>3, <3>1, <3>4 DEF CopySnapshot, Gives, Abort
  <2>. QED BY <2>2, <2>3
<1>9. CASE RemovePath(f)
  <2>1. PICK mine : mine = OnePath(Head(todo)[2])
    OBVIOUS
  <2>2. PICK none : none = [data |-> Gone, wal |-> Gone, snaps |-> NoDir]
    OBVIOUS
  <2>3. none \in Content
    BY <1>3, <2>2, ContentIs, GoneInt
  <2>4. [e \in Dirs |-> IF e \in mine THEN none ELSE dir[e]] \in [Dirs -> Content]
    BY <1>2, <2>3
  <2>. QED BY <1>1, <1>9, <2>1, <2>2, <2>4 DEF RemovePath, Gives, Abort
<1>10. CASE CopyPath(f)
  <2>1. PICK mine : mine = OnePath(Head(todo)[2])
    OBVIOUS
  <2>2. PICK source : source = [data |-> Source.data, wal |-> Source.wal, snaps |-> NoDir]
    OBVIOUS
  <2>3. source \in Content
    <3>1. Source.data \in Int /\ Source.wal \in Int
      BY DEF Source
    <3>. QED BY <1>3, <2>2, <3>1, ContentIs
  <2>4. [e \in Dirs |-> IF e \in mine THEN source ELSE dir[e]] \in [Dirs -> Content]
    BY <1>2, <2>3
  <2>. QED BY <1>1, <1>10, <2>1, <2>2, <2>4 DEF CopyPath, Gives, Abort
<1>11. CASE ListWal(f)
  <2>1. PICK d : d = WalDir(f, Head(todo))
    OBVIOUS
  <2>. QED BY <1>1, <1>2, <1>11, <2>1 DEF ListWal, Asks, Abort
<1>12. CASE TruncateWal(f)
  <2>1. PICK d : d = WalDir(f, Head(todo))
    OBVIOUS
  <2>2. Holding(d, dir[d].data, Truncated(dir[d].wal)) \in [Dirs -> Content]
    BY <1>2, HoldingTyped, TruncatedInt
  <2>. QED BY <1>1, <1>12, <2>1, <2>2 DEF TruncateWal, Gives, Abort
<1>. QED BY <1>4, <1>5, <1>6, <1>7, <1>8, <1>9, <1>10, <1>11, <1>12 DEF FileStep

LEMMA BeginPlaced ==
    ASSUME Placed, NEW f \in FileActions, BeginFiles(f)
    PROVE  Placed' /\ (fpc'[f] \notin {"desc", "done"} => todo' # <<>>)
<1>1. <<>> \in Lists /\ PathsOf(Inst) \in Lists /\ PathsOf(Inst) # <<>>
  BY PathsTyped, FilesAssumption DEF Lists
<1>2. {"desc", "remove", "find"} \subseteq Steps
  BY DEF Steps
<1>3. ASSUME NEW ret \in {"OK", "ERR_FAILED"}, FileReturn(f, ret) PROVE Placed' /\ fpc'[f] = "done"
  BY <1>3, ReturnPlaced DEF FileReturn, Placed
<1>4. ASSUME NEW step \in {"remove", "find"}, Goto(f, step, PathsOf(Inst)) PROVE Placed' /\ todo' # <<>>
  BY <1>1, <1>2, <1>4, GotoPlaced DEF Goto
<1>5. ASSUME Goto(f, "desc", <<>>) PROVE Placed' /\ fpc'[f] = "desc"
  BY <1>1, <1>2, <1>5, GotoPlaced DEF Goto, Placed
<1>6. Class[f] \in Classes
  BY FilesAssumption
<1>7. CASE Class[f] \in {"CleanWal", "TruncateWal"}
  BY <1>5, <1>7 DEF BeginFiles
<1>8. CASE Class[f] = "CleanCheckpoint"
  BY <1>3, <1>4, <1>8 DEF BeginFiles
<1>9. CASE Class[f] = "RestoreFromCheckpoint"
  BY <1>3, <1>4, <1>9 DEF BeginFiles
<1>10. CASE Class[f] = "RestoreFromDataDir"
  BY <1>3, <1>4, <1>10 DEF BeginFiles
<1>. QED BY <1>6, <1>7, <1>8, <1>9, <1>10 DEF Classes

(* What follows on the DescSpaceAction.                                    *)
LEMMA DescribedShape ==
    ASSUME NEW f \in FileActions, Described(f)
    PROVE  \/ rc[DescOf[f]] # "OK" /\ FileReturn(f, rc[DescOf[f]])
           \/ Class[f] = "CleanWal" /\ (Goto(f, "remove", PathsOf(Inst)) \/ FileReturn(f, "ERR_FAILED"))
           \/ Class[f] # "CleanWal" /\ Count = 0 /\ FileReturn(f, "OK")
           \/ Class[f] # "CleanWal" /\ Count # 0 /\ \E order \in Orders : Goto(f, "ls", Left(order, 0))
<1>1. ASSUME NEW order \in [1 .. Count -> Insts],
             \A m, n \in 1 .. Count : order[m] = order[n] => m = n,
             Goto(f, "ls", [n \in 1 .. Count * PathNum |->
                               <<order[((n - 1) \div PathNum) + 1], ((n - 1) % PathNum) + 1>>])
      PROVE  order \in Orders /\ Goto(f, "ls", Left(order, 0))
  <2>1. order \in Orders
    BY <1>1 DEF Orders
  <2>2. Count * PathNum - 0 = Count * PathNum /\ \A n \in 1 .. Count * PathNum : n + 0 = n
    BY CountIs
  <2>3. Left(order, 0) = [n \in 1 .. Count * PathNum |-> Slot(order, n)]
    BY <2>2 DEF Left
  <2>. QED BY <1>1, <2>1, <2>3 DEF Slot
<1>. QED BY <1>1 DEF Described

LEMMA FirstSlots ==
    ASSUME NEW order \in Orders, Count # 0
    PROVE  0 \in 0 .. Count * PathNum /\ 0 < Count * PathNum
<1>1. PICK c \in Nat \ {0}, p \in Nat \ {0} : c = Count /\ p = PathNum
  BY CountIs
<1>2. c * p > 0
  BY <1>1
<1>. QED BY <1>1, <1>2

LEMMA DescribedPlaced ==
    ASSUME TypeOK, Placed, NEW f \in FileActions, Class[f] \in {"CleanWal", "TruncateWal"}, Described(f)
    PROVE  Placed' /\ (fpc'[f] # "done" => todo' # <<>>)
<1>1. PathsOf(Inst) \in Lists /\ PathsOf(Inst) # <<>> /\ {"remove", "ls"} \subseteq Steps
  BY PathsTyped, FilesAssumption DEF Lists, Steps
<1>2. ASSUME NEW ret \in {"none", "OK", "ERR_FAILED"}, FileReturn(f, ret) PROVE Placed' /\ fpc'[f] = "done"
  BY <1>2, ReturnPlaced DEF FileReturn, Placed
<1>3. ASSUME Goto(f, "remove", PathsOf(Inst)) PROVE Placed' /\ todo' # <<>>
  BY <1>1, <1>3, GotoPlaced DEF Goto
<1>4. ASSUME NEW order \in Orders, Count # 0, Goto(f, "ls", Left(order, 0)) PROVE Placed' /\ todo' # <<>>
  <2>1. Left(order, 0) \in Lists /\ Left(order, 0) # <<>>
    BY <1>4, FirstSlots, SlotsListed DEF Lists
  <2>. QED BY <1>1, <1>4, <2>1, GotoPlaced DEF Goto
<1>5. rc[DescOf[f]] \in {"none", "OK", "ERR_FAILED"}
  BY FilesAssumption DEF TypeOK, Of
<1>. QED BY <1>2, <1>3, <1>4, <1>5, DescribedShape

LEMMA CommandBusy ==
    ASSUME NEW f \in FileActions, FileStep(f)
    PROVE  ~aborted /\ Active(f) /\ fpc[f] \notin {"desc", "idle", "done"}
  BY DEF FileStep, CleanWal, CleanCheckpoint, FindCheckpoints, RemoveLive, CopySnapshot, RemovePath,
         CopyPath, ListWal, TruncateWal, At, Active

LEMMA DescribedClass ==
    ASSUME Alone, NEW f \in FileActions, Described(f)
    PROVE  ~aborted /\ Class[f] \in {"CleanWal", "TruncateWal"} /\ Active(f) /\ pc[DescOf[f]] = "done"
<1>1. fpc[f] = "desc" /\ Active(f) /\ ~aborted /\ pc[DescOf[f]] = "done"
  BY DEF Described, Active
<1>2. "desc" \in FileSteps(Class[f]) /\ Class[f] \in Classes
  BY <1>1, FilesAssumption DEF Alone
<1>3. CASE Class[f] \notin {"CleanWal", "TruncateWal"}
  BY <1>2, <1>3 DEF FileSteps, Classes
<1>. QED BY <1>1, <1>3

LEMMA FilesStepTyped ==
    ASSUME TypeOK, FilesTypeOK, Alone, NEW f \in FileActions, DoRunOnFiles(f)
    PROVE  FilesTypeOK'
<1>1. Placed
  BY DEF FilesTypeOK, Placed, Steps, Lists
<1>2. Placed' /\ dir' \in [Dirs -> Content] /\ size' \in Int /\ aborted' \in BOOLEAN
      /\ state' = state /\ up' = up /\ turns' = turns
      /\ before' \in [Dirs -> Content] /\ awake' \in SUBSET Insts
  <2>1. CASE BeginFiles(f)
    BY <1>1, <2>1, BeginPlaced DEF BeginFiles, FilesTypeOK
  <2>2. CASE Described(f)
    BY <1>1, <2>2, DescribedClass, DescribedPlaced DEF Described, FilesTypeOK
  <2>3. CASE FileStep(f)
    <3>1. todo # <<>>
      BY <2>3, CommandBusy DEF Alone
    <3>2. Placed'
      BY <1>1, <2>3, <3>1, CommandPlaced
    <3>3. dir' \in [Dirs -> Content] /\ size' \in Int /\ aborted' \in BOOLEAN
      BY <2>3, CommandTyped
    <3>. QED BY <2>3, <3>2, <3>3 DEF FileStep, FilesTypeOK
  <2>. QED BY <2>1, <2>2, <2>3 DEF DoRunOnFiles
<1>. QED BY <1>2 DEF FilesTypeOK, Placed, Steps, Lists

(* Where a command takes the action: to its end, or to a step of its class *)
(* with something to do.                                                   *)
Moves(f) ==
    \/ \E ret \in {"none", "OK", "ERR_FAILED"} : FileReturn(f, ret)
    \/ \E step \in FileSteps(Class[f]) \ {"desc"}, dirs \in Lists \ {<<>>} : Goto(f, step, dirs)

LEMMA CommandMoves ==
    ASSUME Placed, todo # <<>>, NEW f \in FileActions, FileStep(f)
    PROVE  Moves(f)
<1>1. todo \in Lists \ {<<>>} /\ Tail(todo) \in Lists /\ Len(Tail(todo)) = Len(todo) - 1 /\ Len(todo) \in Nat \ {0}
  BY TailListed DEF Placed
<1>2. ASSUME Abort(f) PROVE Moves(f)
  BY <1>2 DEF Abort, Moves
<1>3. ASSUME NEW ret \in {"none", "OK", "ERR_FAILED"}, FileReturn(f, ret) PROVE Moves(f)
  BY <1>3 DEF Moves
<1>4. ASSUME NEW step \in FileSteps(Class[f]) \ {"desc"}, NEW dirs \in Lists \ {<<>>}, Goto(f, step, dirs)
      PROVE  Moves(f)
  BY <1>4 DEF Moves
<1>5. Len(todo) # 1 => Tail(todo) \in Lists \ {<<>>}
  <2>1. Len(<<>>) = 0
    OBVIOUS
  <2>. QED BY <1>1, <2>1
<1>6. ASSUME NEW step \in FileSteps(Class[f]) \ {"desc"}, NextDir(f, step) PROVE Moves(f)
  BY <1>3, <1>4, <1>5, <1>6 DEF NextDir
<1>7. CASE CleanWal(f)
  <2>1. "remove" \in FileSteps(Class[f]) \ {"desc"}
    BY <1>7 DEF CleanWal, At, FileSteps
  <2>. QED BY <1>2, <1>6, <1>7, <2>1 DEF CleanWal, Gives
<1>8. CASE CleanCheckpoint(f)
  <2>1. "remove" \in FileSteps(Class[f]) \ {"desc"}
    BY <1>8 DEF CleanCheckpoint, At, FileSteps
  <2>. QED BY <1>2, <1>6, <1>8, <2>1 DEF CleanCheckpoint, Gives
<1>9. ASSUME Class[f] = "RestoreFromCheckpoint"
      PROVE  {"find", "remove", "copy"} \subseteq FileSteps(Class[f]) \ {"desc"}
  BY <1>9 DEF FileSteps
<1>10. ASSUME Class[f] = "RestoreFromDataDir" PROVE {"remove", "copy"} \subseteq FileSteps(Class[f]) \ {"desc"}
  BY <1>10 DEF FileSteps
<1>11. ASSUME Class[f] = "TruncateWal" PROVE {"ls", "truncate"} \subseteq FileSteps(Class[f]) \ {"desc"}
  BY <1>11 DEF FileSteps
<1>12. CASE FindCheckpoints(f)
  <2>1. ASSUME NEW dirs \in [1 .. Cardinality(Found) -> Found], Found # {} PROVE dirs \in Lists \ {<<>>}
    BY <2>1, FoundListed DEF Lists
  <2>2. Len(todo) > 1 => Tail(todo) \in Lists \ {<<>>}
    BY <1>1, <1>5
  <2>3. \/ Abort(f)
        \/ Len(todo) > 1 /\ Goto(f, "find", Tail(todo))
        \/ FileReturn(f, "OK")
        \/ \E dirs \in [1 .. Cardinality(Found) -> Found] : Found # {} /\ Goto(f, "remove", dirs)
    BY <1>12 DEF FindCheckpoints, Asks, Found
  <2>4. Class[f] = "RestoreFromCheckpoint"
    BY <1>12 DEF FindCheckpoints, At
  <2>. QED BY <1>2, <1>3, <1>4, <1>9, <2>1, <2>2, <2>3, <2>4
<1>13. CASE RemoveLive(f)
  BY <1>1, <1>2, <1>4, <1>9, <1>13 DEF RemoveLive, Gives, At
<1>14. CASE CopySnapshot(f)
  BY <1>2, <1>6, <1>9, <1>14 DEF CopySnapshot, Gives, At
<1>15. CASE RemovePath(f)
  BY <1>1, <1>2, <1>4, <1>10, <1>15 DEF RemovePath, Gives, At
<1>16. CASE CopyPath(f)
  BY <1>2, <1>6, <1>10, <1>16 DEF CopyPath, Gives, At
<1>17. CASE ListWal(f)
  BY <1>1, <1>2, <1>3, <1>4, <1>11, <1>17 DEF ListWal, Asks, At
<1>18. CASE TruncateWal(f)
  BY <1>2, <1>6, <1>11, <1>18 DEF TruncateWal, Gives, At
<1>. QED BY <1>7, <1>8, <1>12, <1>13, <1>14, <1>15, <1>16, <1>17, <1>18 DEF FileStep

LEMMA DescribedMoves ==
    ASSUME TypeOK, Placed, NEW f \in FileActions, Class[f] \in {"CleanWal", "TruncateWal"}, Described(f)
    PROVE  Moves(f)
<1>1. PathsOf(Inst) \in Lists \ {<<>>}
  BY PathsTyped, FilesAssumption DEF Lists
<1>2. ASSUME NEW order \in Orders, Count # 0 PROVE Left(order, 0) \in Lists \ {<<>>}
  BY <1>2, FirstSlots, SlotsListed DEF Lists
<1>3. rc[DescOf[f]] \in {"none", "OK", "ERR_FAILED"}
  BY FilesAssumption DEF TypeOK, Of
<1>4. CASE Class[f] = "CleanWal"
  <2>1. "remove" \in FileSteps(Class[f]) \ {"desc"}
    BY <1>4 DEF FileSteps
  <2>. QED BY <1>1, <1>3, <1>4, <2>1, DescribedShape DEF Moves
<1>5. CASE Class[f] = "TruncateWal"
  <2>1. "ls" \in FileSteps(Class[f]) \ {"desc"}
    BY <1>5 DEF FileSteps
  <2>. QED BY <1>2, <1>3, <1>5, <2>1, DescribedShape DEF Moves
<1>. QED BY <1>4, <1>5

LEMMA BeginMoves ==
    ASSUME Placed, NEW f \in FileActions, BeginFiles(f)
    PROVE  Moves(f) \/ (Class[f] \in {"CleanWal", "TruncateWal"} /\ Goto(f, "desc", <<>>))
<1>1. PathsOf(Inst) \in Lists \ {<<>>}
  BY PathsTyped, FilesAssumption DEF Lists
<1>2. Class[f] \in Classes
  BY FilesAssumption
<1>3. CASE Class[f] \in {"CleanWal", "TruncateWal"}
  BY <1>3 DEF BeginFiles
<1>4. CASE Class[f] = "CleanCheckpoint"
  <2>1. "remove" \in FileSteps(Class[f]) \ {"desc"}
    BY <1>4 DEF FileSteps
  <2>. QED BY <1>1, <1>4, <2>1 DEF BeginFiles, Moves
<1>5. CASE Class[f] = "RestoreFromCheckpoint"
  <2>1. "find" \in FileSteps(Class[f]) \ {"desc"}
    BY <1>5 DEF FileSteps
  <2>. QED BY <1>1, <1>5, <2>1 DEF BeginFiles, Moves
<1>6. CASE Class[f] = "RestoreFromDataDir"
  <2>1. "remove" \in FileSteps(Class[f]) \ {"desc"}
    BY <1>6 DEF FileSteps
  <2>. QED BY <1>1, <1>6, <2>1 DEF BeginFiles, Moves
<1>. QED BY <1>2, <1>3, <1>4, <1>5, <1>6 DEF Classes

LEMMA MovesShape ==
    ASSUME Placed, NEW f \in FileActions, Moves(f)
    PROVE  /\ \A g \in FileActions \ {f} : fpc'[g] = fpc[g] /\ frc'[g] = frc[g]
           /\ fpc'[f] # "done" => /\ fpc'[f] \in FileSteps(Class[f]) \ {"desc"}
                                  /\ frc'[f] = frc[f]
                                  /\ todo' # <<>>
  BY DEF Moves, FileReturn, Goto, Placed

LEMMA NextAlone ==
    ASSUME TypeOK, FilesTypeOK, Alone, [PlanNext]_allVars
    PROVE  Alone'
<1>1. Placed
  BY DEF FilesTypeOK, Placed, Steps, Lists
<1>2. \A f \in FileActions : Class[f] \in {"CleanWal", "TruncateWal"} => DescOf[f] \in Actions
  BY FilesAssumption DEF Of
<1>3. CASE [Next]_vars /\ UNCHANGED fileVars
  <2>1. \A a \in Actions : pc[a] = "done" => pc'[a] = "done"
    BY <1>3, DoneStays
  <2>. QED BY <1>2, <1>3, <2>1 DEF Alone, Active, fileVars
<1>4. CASE UNCHANGED vars /\ Turn
  BY <1>4 DEF Alone, Active, Turn, vars, actionVars
<1>5. ASSUME UNCHANGED vars, NEW f \in FileActions, DoRunOnFiles(f) PROVE Alone'
  <2>1. /\ \A g \in FileActions : Active(g) => g = f
        /\ fpc[f] # "done"
        /\ ~Active(f) => fpc[f] = "idle"
        /\ frc[f] = "none"
        /\ Moves(f) \/ (Class[f] \in {"CleanWal", "TruncateWal"} /\ Goto(f, "desc", <<>>))
        /\ Class[f] \in {"CleanWal", "TruncateWal"} =>
              Goto(f, "desc", <<>>) \/ fpc'[f] = "done" \/ pc[DescOf[f]] = "done"
    <3>1. CASE BeginFiles(f)
      <4>1. fpc[f] = "idle" /\ \A g \in FileActions : ~Active(g)
        BY <3>1 DEF BeginFiles, Ready, Active
      <4>2. Class[f] \in {"CleanWal", "TruncateWal"} => Goto(f, "desc", <<>>)
        BY <3>1 DEF BeginFiles
      <4>. QED BY <1>1, <3>1, <4>1, <4>2, BeginMoves DEF Alone
    <3>2. CASE Described(f)
      <4>1. Active(f) /\ Class[f] \in {"CleanWal", "TruncateWal"} /\ pc[DescOf[f]] = "done"
        BY <3>2, DescribedClass
      <4>2. Moves(f)
        BY <1>1, <3>2, <4>1, DescribedMoves
      <4>. QED BY <4>1, <4>2 DEF Alone, Active
    <3>3. CASE FileStep(f)
      <4>1. Active(f) /\ fpc[f] \notin {"desc", "idle", "done"}
        BY <3>3, CommandBusy
      <4>2. Moves(f)
        BY <1>1, <3>3, <4>1, CommandMoves DEF Alone
      <4>3. Class[f] \in {"CleanWal", "TruncateWal"} => fpc[f] \in {"remove", "ls", "truncate"}
        <5>1. fpc[f] \in FileSteps(Class[f])
          BY <4>1 DEF Alone
        <5>. QED BY <4>1, <5>1 DEF FileSteps
      <4>. QED BY <4>1, <4>2, <4>3 DEF Alone, Active
    <3>. QED BY <1>5, <3>1, <3>2, <3>3 DEF DoRunOnFiles
  <2>2. /\ \A g \in FileActions \ {f} : fpc'[g] = fpc[g] /\ frc'[g] = frc[g] /\ ~Active(g)
        /\ pc' = pc
    <3>1. CASE Moves(f)
      BY <1>1, <1>5, <2>1, <3>1, MovesShape DEF vars, actionVars
    <3>2. CASE Goto(f, "desc", <<>>)
      BY <1>1, <1>5, <2>1, <3>2 DEF Goto, Placed, vars, actionVars
    <3>. QED BY <2>1, <3>1, <3>2
  <2>3. \A g \in FileActions \ {f} : ~Active(g)'
    BY <2>2 DEF Active
  <2>4. fpc'[f] # "done" =>
           /\ fpc'[f] \in FileSteps(Class[f]) /\ frc'[f] = "none"
           /\ fpc'[f] # "desc" => todo' # <<>>
           /\ Class[f] \in {"CleanWal", "TruncateWal"} /\ fpc'[f] # "desc" => pc'[DescOf[f]] = "done"
    <3>1. CASE Moves(f)
      <4>1. Goto(f, "desc", <<>>) => fpc'[f] = "desc"
        BY <1>1 DEF Goto, Placed
      <4>. QED BY <1>1, <2>1, <2>2, <3>1, <4>1, MovesShape
    <3>2. CASE Class[f] \in {"CleanWal", "TruncateWal"} /\ Goto(f, "desc", <<>>)
      <4>1. fpc'[f] = "desc" /\ frc'[f] = "none"
        BY <1>1, <2>1, <3>2 DEF Goto, Placed
      <4>2. "desc" \in FileSteps(Class[f])
        BY <3>2 DEF FileSteps
      <4>. QED BY <4>1, <4>2
    <3>. QED BY <2>1, <3>1, <3>2
  <2>5. fpc' \in [FileActions -> Steps]
    BY <1>5, FilesStepTyped DEF FilesTypeOK, Steps
  <2>6. \A g, h \in FileActions : Active(g)' /\ Active(h)' => g = h
    BY <2>3
  <2>7. ASSUME NEW g \in FileActions
        PROVE  /\ Active(g)' => fpc'[g] \in FileSteps(Class[g])
               /\ fpc'[g] # "done" => frc'[g] = "none"
               /\ Active(g)' /\ fpc'[g] # "desc" => todo' # <<>>
               /\ Class[g] \in {"CleanWal", "TruncateWal"} /\ fpc'[g] \in {"remove", "ls", "truncate"}
                     => pc'[DescOf[g]] = "done"
    <3>1. CASE g = f
      BY <2>4, <3>1 DEF Active
    <3>2. CASE g # f
      BY <2>2, <2>3, <3>2 DEF Active, Alone
    <3>. QED BY <3>1, <3>2
  <2>. QED BY <2>6, <2>7 DEF Alone
<1>. QED BY <1>3, <1>4, <1>5, StepShapes

(* A command leaves the snapshots of a directory as they are, or none.     *)
LEMMA CommandSnaps ==
    ASSUME FilesTypeOK, NEW f \in FileActions, FileStep(f), NEW d \in Dirs
    PROVE  dir'[d].snaps = dir[d].snaps \/ dir'[d].snaps = NoDir
<1>1. dir \in [Dirs -> Content]
  BY DEF FilesTypeOK
<1>2. dir[d] \in Content /\ dir[d] = [data |-> dir[d].data, wal |-> dir[d].wal, snaps |-> dir[d].snaps]
  BY <1>1, ContentIs
<1>. DEFINE Snapped(c) == c.snaps = dir[d].snaps \/ c.snaps = NoDir
<1>3. ASSUME NEW e, NEW v, NEW w PROVE Snapped(Holding(e, v, w)[d])
  <2>1. PICK r : r = [data |-> v, wal |-> w, snaps |-> dir[e].snaps]
    OBVIOUS
  <2>2. Holding(e, v, w) = [dir EXCEPT ![e] = r] /\ r.snaps = dir[e].snaps
    BY <2>1 DEF Holding
  <2>. QED BY <1>1, <2>2
<1>4. [dir[d] EXCEPT !.wal = Gone].snaps = dir[d].snaps
  BY <1>2
<1>5. [dir[d] EXCEPT !.snaps = NoDir].snaps = NoDir
  BY <1>2
<1>6. dir' = dir => Snapped(dir'[d])
  OBVIOUS
<1>7. CASE CleanWal(f)
  BY <1>4, <1>6, <1>7 DEF CleanWal, Gives
<1>8. CASE CleanCheckpoint(f)
  BY <1>5, <1>6, <1>8 DEF CleanCheckpoint, Gives
<1>9. CASE FindCheckpoints(f) \/ ListWal(f)
  BY <1>6, <1>9 DEF FindCheckpoints, ListWal, Asks
<1>10. CASE RemoveLive(f) \/ CopySnapshot(f) \/ TruncateWal(f)
  <2>. HIDE DEF Snapped
  <2>1. dir' = dir \/ \E e, v, w : dir' = Holding(e, v, w)
    BY <1>10 DEF RemoveLive, CopySnapshot, TruncateWal, Gives
  <2>2. Snapped(dir'[d])
    BY <1>3, <1>6, <2>1
  <2>. QED BY <2>2 DEF Snapped
<1>11. CASE RemovePath(f) \/ CopyPath(f)
  <2>1. \A v, w : [data |-> v, wal |-> w, snaps |-> NoDir].snaps = NoDir
    OBVIOUS
  <2>. QED BY <1>6, <1>11, <2>1 DEF RemovePath, CopyPath, Gives
<1>. QED BY <1>7, <1>8, <1>9, <1>10, <1>11 DEF FileStep

LEMMA NextFilesTyped ==
    ASSUME TypeOK, FilesTypeOK, Alone, SnapsFull, [PlanNext]_allVars
    PROVE  FilesTypeOK' /\ SnapsFull'
<1>1. CASE UNCHANGED fileVars
  BY <1>1 DEF FilesTypeOK, SnapsFull, fileVars
<1>2. CASE Turn
  BY <1>2, TurnTyped
<1>3. ASSUME NEW f \in FileActions, DoRunOnFiles(f) PROVE FilesTypeOK' /\ SnapsFull'
  <2>1. FilesTypeOK'
    BY <1>3, FilesStepTyped
  <2>2. CASE FileStep(f)
    BY <2>1, <2>2, CommandSnaps DEF SnapsFull
  <2>3. CASE BeginFiles(f) \/ Described(f)
    BY <2>1, <2>3 DEF BeginFiles, Described, SnapsFull
  <2>. QED BY <1>3, <2>2, <2>3 DEF DoRunOnFiles
<1>. QED BY <1>1, <1>2, <1>3, StepShapes

-----------------------------------------------------------------------------
(***************************************************************************)
(* How far an action on files has come.                                    *)
(***************************************************************************)

(* The last paths of the instance are left, and `Behind` of them passed.   *)
LastPaths ==
    /\ Len(todo) \in 1 .. PathNum
    /\ todo = [n \in 1 .. Len(todo) |-> <<Inst, (PathNum - Len(todo)) + n>>]

Behind == PathNum - Len(todo)

WalsGone(f, k) ==
    \A d \in Asleep : IF d[1] = Inst /\ d[3] = spaceId[DescOf[f]] /\ d[2] <= k
                      THEN dir[d] = [before[d] EXCEPT !.wal = Gone] ELSE Same(d)

SnapsGone(k) ==
    \A d \in Asleep : IF d[1] = Inst /\ d[2] <= k
                      THEN dir[d] = [before[d] EXCEPT !.snaps = NoDir] ELSE Same(d)

(* The first k paths are copies of the source; the first m are removed.    *)
Replaced(k, m) ==
    \A d \in Asleep : IF d[1] = Inst /\ d[2] <= m
                      THEN d[2] <= k => dir[d].data = Source.data /\ dir[d].wal = Source.wal
                      ELSE Same(d)

(* What was found is restored, or still to be restored.                    *)
Restored(d) ==
    LET newest == before[d].snaps[Len(before[d].snaps)]
    IN dir[d] = [before[d] EXCEPT !.data = newest.data, !.wal = newest.wal]

Restoring ==
    /\ todo \in Seq(OnePath(PathNum))
    /\ \A n \in 1 .. Len(todo) : dir[todo[n]].snaps # NoDir
    /\ \A d \in Asleep :
          IF d \in OnePath(PathNum) /\ before[d].snaps # NoDir
          THEN /\ dir[d].snaps = before[d].snaps
               /\ (\E n \in 1 .. Len(todo) : todo[n] = d) \/ Restored(d)
          ELSE Same(d)

(* The first k slots are cut.                                              *)
Cut(f, order, k) ==
    \A d \in Asleep : IF d[3] = spaceId[DescOf[f]] /\ \E m \in 1 .. k : Slot(order, m) = <<d[1], d[2]>>
                      THEN /\ RightlyCut(before[d].wal, dir[d].wal)
                           /\ dir[d] = [before[d] EXCEPT !.wal = dir[d].wal]
                      ELSE Same(d)

Cutting(f) ==
    \E order \in Orders, k \in 0 .. Count * PathNum :
        k < Count * PathNum /\ todo = Left(order, k) /\ Cut(f, order, k)

Sized(f) ==
    LET d == WalDir(f, Head(todo))
    IN d \in Dirs /\ (d \in Asleep => size = dir[d].wal /\ size >= 0)

ProgressOf(f) ==
    /\ fpc[f] \in {"desc", "find"} => Untouched
    /\ fpc[f] = "find" => LastPaths
    /\ Class[f] = "CleanWal" /\ fpc[f] = "remove" => LastPaths /\ WalsGone(f, Behind)
    /\ Class[f] = "CleanCheckpoint" /\ fpc[f] = "remove" => LastPaths /\ SnapsGone(Behind)
    /\ Class[f] = "RestoreFromDataDir" /\ fpc[f] = "remove" => LastPaths /\ Replaced(Behind, Behind)
    /\ Class[f] = "RestoreFromDataDir" /\ fpc[f] = "copy" => LastPaths /\ Replaced(Behind, Behind + 1)
    /\ Class[f] = "RestoreFromCheckpoint" /\ fpc[f] \in {"remove", "copy"} => Restoring
    /\ Class[f] = "TruncateWal" /\ fpc[f] \in {"ls", "truncate"} => Cutting(f)
    /\ Class[f] = "TruncateWal" /\ fpc[f] = "truncate" => Sized(f)

Progress == ~aborted => \A f \in FileActions : ProgressOf(f)

(* Data is missing only where the action that runs is about to put it.     *)
Missing(f) ==
    IF Class[f] = "RestoreFromCheckpoint" THEN {Head(todo)} ELSE OnePath(Head(todo)[2])

HalfDone ==
    ~aborted => \A d \in Dirs : dir[d].data = Gone =>
                    \E f \in FileActions : fpc[f] = "copy" /\ d \in Missing(f)

FilesInv == FilesTypeOK /\ Alone /\ SnapsFull /\ Progress /\ HalfDone

-----------------------------------------------------------------------------
(***************************************************************************)
(* Steps of others.                                                        *)
(***************************************************************************)

(* An id that was found stays what it is.                                  *)
LEMMA IdsStay ==
    ASSUME TypeOK, [Next]_vars, NEW b \in Actions, pc[b] = "done"
    PROVE  spaceId'[b] = spaceId[b]
<1>1. ASSUME NEW a \in Actions, DoRun(a), ~Desc(a) PROVE UNCHANGED spaceId
  BY <1>1 DEF DoRun, Start, GiveUp, Create, Drop, CheckLeaders, UpdateConfigs, Stable, BalanceData, resultVars
<1>2. ASSUME NEW a \in Actions, Desc(a) PROVE spaceId'[b] = spaceId[b]
  BY <1>2 DEF Desc, Sends, TypeOK
<1>3. CASE Change \/ AllEnded \/ UNCHANGED vars
  BY <1>3 DEF Change, AllEnded, vars, resultVars
<1>. QED BY <1>1, <1>2, <1>3 DEF Next

(* Statements, and turns of the database, leave the action on files that   *)
(* runs where it is, with what it has done.                                *)
Elsewhere ==
    /\ UNCHANGED <<fpc, frc, todo, size, aborted, before>>
    /\ \A f \in FileActions :
          Class[f] \in {"CleanWal", "TruncateWal"} /\ pc[DescOf[f]] = "done"
             => spaceId'[DescOf[f]] = spaceId[DescOf[f]]
    /\ \A d \in Dirs :
          /\ dir[d].data # Gone <=> dir'[d].data # Gone
          /\ dir[d].snaps # NoDir => dir'[d].snaps # NoDir
          /\ d \in Asleep' => d \in Asleep /\ dir'[d] = dir[d]

LEMMA OthersElsewhere ==
    ASSUME TypeOK, FilesTypeOK, SnapsFull,
           ([Next]_vars /\ UNCHANGED fileVars) \/ (UNCHANGED vars /\ Turn)
    PROVE  Elsewhere
<1>1. \A f \in FileActions : Class[f] \in {"CleanWal", "TruncateWal"} => DescOf[f] \in Actions
  BY FilesAssumption DEF Of
<1>2. \A f \in FileActions :
          Class[f] \in {"CleanWal", "TruncateWal"} /\ pc[DescOf[f]] = "done"
             => spaceId'[DescOf[f]] = spaceId[DescOf[f]]
  BY <1>1, IdsStay DEF vars, resultVars
<1>3. CASE UNCHANGED fileVars
  BY <1>2, <1>3 DEF Elsewhere, Asleep, fileVars
<1>4. CASE Turn
  BY <1>2, <1>4, TurnKeeps DEF Elsewhere, Asleep, Turn
<1>. QED BY <1>3, <1>4

LEMMA ElsewhereProgress ==
    ASSUME Alone, Progress, Elsewhere, ~aborted, NEW f \in FileActions
    PROVE  ProgressOf(f)'
<1>1. ProgressOf(f)
  BY DEF Progress
<1>2. fpc' = fpc /\ todo' = todo /\ size' = size /\ before' = before
  BY DEF Elsewhere
<1>3. \A d \in Asleep' : d \in Asleep /\ d \in Dirs /\ dir'[d] = dir[d]
  BY DEF Elsewhere, Asleep
<1>4. ASSUME Class[f] \in {"CleanWal", "TruncateWal"}, fpc[f] \in {"remove", "ls", "truncate"}
      PROVE  spaceId'[DescOf[f]] = spaceId[DescOf[f]]
  BY <1>4 DEF Alone, Elsewhere
<1>5. Untouched => Untouched'
  BY <1>2, <1>3 DEF Untouched, Same
<1>6. LastPaths => LastPaths' /\ Behind' = Behind
  BY <1>2 DEF LastPaths, Behind
<1>7. CASE fpc[f] \in {"desc", "find"}
  BY <1>1, <1>2, <1>5, <1>6, <1>7 DEF ProgressOf
<1>8. CASE Class[f] = "CleanWal" /\ fpc[f] = "remove"
  <2>1. LastPaths /\ WalsGone(f, Behind)
    BY <1>1, <1>8 DEF ProgressOf
  <2>2. WalsGone(f, Behind)'
    BY <1>2, <1>3, <1>4, <1>6, <1>8, <2>1 DEF WalsGone, Same
  <2>. QED BY <1>2, <1>6, <1>8, <2>1, <2>2 DEF ProgressOf
<1>9. CASE Class[f] = "CleanCheckpoint" /\ fpc[f] = "remove"
  <2>1. LastPaths /\ SnapsGone(Behind)
    BY <1>1, <1>9 DEF ProgressOf
  <2>2. SnapsGone(Behind)'
    BY <1>2, <1>3, <1>6, <2>1 DEF SnapsGone, Same
  <2>. QED BY <1>2, <1>6, <1>9, <2>1, <2>2 DEF ProgressOf
<1>10. CASE Class[f] = "RestoreFromDataDir" /\ fpc[f] \in {"remove", "copy"}
  <2>1. LastPaths
    BY <1>1, <1>10 DEF ProgressOf
  <2>2. \A k, m : Replaced(k, m) => Replaced(k, m)'
    BY <1>2, <1>3 DEF Replaced, Same
  <2>3. Replaced(Behind, Behind) => Replaced(Behind, Behind)'
    BY <1>6, <2>1, <2>2
  <2>4. Replaced(Behind, Behind + 1) => Replaced(Behind, Behind + 1)'
    BY <1>6, <2>1, <2>2
  <2>. QED BY <1>1, <1>2, <1>6, <1>10, <2>1, <2>3, <2>4 DEF ProgressOf
<1>11. CASE Class[f] = "RestoreFromCheckpoint" /\ fpc[f] \in {"remove", "copy"}
  <2>1. Restoring
    BY <1>1, <1>11 DEF ProgressOf
  <2>2. Restoring'
    <3>1. todo' \in Seq(OnePath(PathNum))
      BY <1>2, <2>1 DEF Restoring
    <3>2. \A n \in 1 .. Len(todo) : todo[n] \in Dirs
      BY <2>1 DEF Restoring, OnePath
    <3>3. \A n \in 1 .. Len(todo) : dir'[todo[n]].snaps # NoDir
      BY <2>1, <3>2 DEF Restoring, Elsewhere
    <3>. QED BY <1>2, <1>3, <2>1, <3>1, <3>3 DEF Restoring, Restored, Same
  <2>. QED BY <1>2, <1>11, <2>2 DEF ProgressOf
<1>12. CASE Class[f] = "TruncateWal" /\ fpc[f] \in {"ls", "truncate"}
  <2>1. Cutting(f)
    BY <1>1, <1>12 DEF ProgressOf
  <2>2. PICK order \in Orders, k \in 0 .. Count * PathNum :
           k < Count * PathNum /\ todo = Left(order, k) /\ Cut(f, order, k)
    BY <2>1 DEF Cutting
  <2>3. Cut(f, order, k)'
    BY <1>2, <1>3, <1>4, <1>12, <2>2 DEF Cut, Same
  <2>4. Cutting(f)'
    BY <1>2, <2>2, <2>3 DEF Cutting
  <2>5. Sized(f) => Sized(f)'
    BY <1>2, <1>3, <1>4, <1>12 DEF Sized, WalDir
  <2>. QED BY <1>1, <1>2, <1>12, <2>4, <2>5 DEF ProgressOf
<1>13. CASE ~Active(f)
  BY <1>2, <1>13 DEF ProgressOf, Active
<1>14. Active(f) => fpc[f] \in FileSteps(Class[f]) /\ Class[f] \in Classes
  BY FilesAssumption DEF Alone
<1>. QED BY <1>7, <1>8, <1>9, <1>10, <1>11, <1>12, <1>13, <1>14 DEF FileSteps, Classes

LEMMA ElsewhereHalf ==
    ASSUME HalfDone, Elsewhere, ~aborted
    PROVE  HalfDone'
<1>1. \A f : Missing(f)' = Missing(f)
  BY DEF Missing, Elsewhere
<1>. QED BY <1>1 DEF HalfDone, Elsewhere

-----------------------------------------------------------------------------
(***************************************************************************)
(* Commands.                                                               *)
(***************************************************************************)

LEMMA HeadTail ==
    ASSUME todo \in Lists, todo # <<>>
    PROVE  /\ Head(todo) = todo[1]
           /\ Len(todo) \in Nat \ {0}
           /\ todo = [n \in 1 .. Len(todo) |-> todo[n]]
           /\ Len(Tail(todo)) = Len(todo) - 1
           /\ Tail(todo) = [n \in 1 .. Len(todo) - 1 |-> todo[n + 1]]
<1>1. ASSUME NEW S, NEW s \in Seq(S), s # <<>>
      PROVE  /\ Head(s) = s[1]
             /\ Len(s) \in Nat \ {0}
             /\ s = [n \in 1 .. Len(s) |-> s[n]]
             /\ Len(Tail(s)) = Len(s) - 1
             /\ Tail(s) = [n \in 1 .. Len(s) - 1 |-> s[n + 1]]
  <2>1. Len(s) \in Nat \ {0} /\ Head(s) = s[1]
    BY <1>1
  <2>2. s = [n \in 1 .. Len(s) |-> s[n]]
    BY <1>1, LenProperties
  <2>3. /\ Tail(s) \in Seq(S)
        /\ Len(Tail(s)) = Len(s) - 1
        /\ \A i \in 1 .. Len(Tail(s)) : Tail(s)[i] = s[i + 1]
    BY <1>1, HeadTailProperties
  <2>4. Tail(s) = [n \in 1 .. Len(Tail(s)) |-> Tail(s)[n]]
    BY <2>3, LenProperties
  <2>. QED BY <2>1, <2>2, <2>3, <2>4
<1>2. CASE todo \in Seq(Insts \X Paths)
  BY <1>1, <1>2
<1>3. CASE todo \in Seq(Dirs)
  BY <1>1, <1>3
<1>. QED BY <1>2, <1>3 DEF Lists

LEMMA PathStep ==
    ASSUME todo \in Lists, LastPaths, NEW f, NEW step
    PROVE  \E k \in 0 .. PathNum - 1 :
              /\ Behind = k /\ k + 1 \in Paths
              /\ Head(todo) = <<Inst, k + 1>>
              /\ NextDir(f, step) => \/ k + 1 = PathNum /\ FileReturn(f, "OK")
                                     \/ LastPaths' /\ Behind' = k + 1 /\ Goto(f, step, Tail(todo))
              /\ Goto(f, step, todo) => LastPaths' /\ Behind' = k
<1>1. PICK n \in 1 .. PathNum : n = Len(todo) /\ todo = [m \in 1 .. n |-> <<Inst, (PathNum - n) + m>>]
  BY DEF LastPaths
<1>2. PathNum \in Nat \ {0} /\ n \in Nat /\ PathNum - n \in 0 .. PathNum - 1
  BY <1>1, FilesAssumption
<1>3. todo # <<>>
  <2>1. Len(<<>>) = 0
    OBVIOUS
  <2>. QED BY <1>1, <1>2, <2>1
<1>4. PICK k \in 0 .. PathNum - 1 : k = PathNum - n
  BY <1>2
<1>5. Behind = k /\ k + 1 \in Paths
  BY <1>1, <1>2, <1>4 DEF Behind, Paths
<1>6. Head(todo) = <<Inst, k + 1>>
  BY <1>1, <1>2, <1>3, <1>4, HeadTail
<1>7. Goto(f, step, todo) => LastPaths' /\ Behind' = k
  BY <1>5 DEF Goto, LastPaths, Behind
<1>8. NextDir(f, step) => \/ k + 1 = PathNum /\ FileReturn(f, "OK")
                          \/ LastPaths' /\ Behind' = k + 1 /\ Goto(f, step, Tail(todo))
  <2>1. CASE n = 1
    BY <1>1, <1>2, <1>4, <2>1 DEF NextDir
  <2>2. CASE n # 1
    <3>1. PICK l \in 1 .. PathNum : l = n - 1
      <4>1. n - 1 \in 1 .. PathNum
        BY <1>2, <2>2
      <4>. QED BY <4>1
    <3>2. Tail(todo) = [m \in 1 .. l |-> <<Inst, (PathNum - l) + m>>]
      <4>1. Tail(todo) = [m \in 1 .. l |-> todo[m + 1]]
        BY <1>1, <1>3, <3>1, HeadTail
      <4>2. ASSUME NEW m \in 1 .. l PROVE todo[m + 1] = <<Inst, (PathNum - l) + m>>
        <5>1. m + 1 \in 1 .. n
          BY <1>2, <3>1
        <5>2. (PathNum - n) + (m + 1) = (PathNum - l) + m
          BY <1>2, <3>1
        <5>. QED BY <1>1, <5>1, <5>2
      <4>. QED BY <4>1, <4>2
    <3>3. Len(Tail(todo)) = l
      BY <1>1, <1>3, <3>1, HeadTail
    <3>4. Goto(f, step, Tail(todo)) => LastPaths' /\ Behind' = k + 1
      <4>1. PathNum - l = k + 1
        BY <1>2, <1>4, <3>1
      <4>. QED BY <3>1, <3>2, <3>3, <4>1 DEF Goto, LastPaths, Behind
    <3>. QED BY <1>1, <2>2, <3>4 DEF NextDir
  <2>. QED BY <2>1, <2>2
<1>. QED BY <1>5, <1>6, <1>7, <1>8

(* All paths of the instance are ahead of an action that begins on them.   *)
LEMMA AllPaths ==
    ASSUME NEW f, NEW step, Goto(f, step, PathsOf(Inst))
    PROVE  LastPaths' /\ Behind' = 0
<1>1. PathNum \in Nat \ {0} /\ Len(PathsOf(Inst)) = PathNum
  BY FilesAssumption, PathsTyped
<1>2. PathsOf(Inst) = [n \in 1 .. PathNum |-> <<Inst, (PathNum - PathNum) + n>>]
  <2>1. \A n \in 1 .. PathNum : (PathNum - PathNum) + n = n
    BY <1>1
  <2>. QED BY <2>1 DEF PathsOf, Paths
<1>3. PathNum - PathNum = 0 /\ PathNum \in 1 .. PathNum
  BY <1>1
<1>. QED BY <1>1, <1>2, <1>3 DEF Goto, LastPaths, Behind

LEMMA OnPath ==
    ASSUME NEW d \in Dirs
    PROVE  /\ \A p : d \in OnePath(p) <=> d[1] = Inst /\ d[2] = p
           /\ d[2] \in Int /\ 1 <= d[2] /\ d[2] <= PathNum
<1>1. d[2] \in 1 .. PathNum /\ PathNum \in Nat
  BY DirTyped, FilesAssumption DEF Paths
<1>. QED BY <1>1 DEF OnePath

(* Nothing is missing while no action is about to copy.                    *)
LEMMA NoneMissing ==
    ASSUME Alone, HalfDone, ~aborted, NEW f \in FileActions, Active(f), fpc[f] # "copy"
    PROVE  \A d \in Dirs : dir[d].data # Gone
  BY DEF Alone, HalfDone, Active

LEMMA OwnMissing ==
    ASSUME Alone, HalfDone, ~aborted, NEW f \in FileActions, Active(f)
    PROVE  \A d \in Dirs : dir[d].data = Gone => fpc[f] = "copy" /\ d \in Missing(f)
  BY DEF Alone, HalfDone, Active

(* What a step of an action that does not end the tool is to establish.    *)
Advances(f) ==
    /\ ProgressOf(f)'
    /\ frc'[f] = "OK" => AsAsked(f)'
    /\ \A d \in Dirs : dir'[d].data = Gone => fpc'[f] = "copy" /\ d \in Missing(f)'

(* A command of which the tool does not end has done its work.             *)
LEMMA GivesDone ==
    ASSUME NEW f, NEW new, NEW ACTION then, Gives(f, new, then), ~aborted'
    PROVE  dir' = new /\ then
  BY DEF Gives, Abort

LEMMA CleanWalAdvances ==
    ASSUME FilesTypeOK, Alone, Progress, HalfDone, NEW f \in FileActions,
           UNCHANGED vars, CleanWal(f), UNCHANGED <<before, awake>>, ~aborted'
    PROVE  Advances(f)
<1>1. ~aborted /\ Class[f] = "CleanWal" /\ fpc[f] = "remove" /\ Active(f)
  BY DEF CleanWal, At, Active
<1>2. LastPaths /\ WalsGone(f, Behind) /\ todo \in Lists
  BY <1>1 DEF Progress, ProgressOf, FilesTypeOK, Lists
<1>3. PICK k \in 0 .. PathNum - 1 :
         /\ Behind = k /\ k + 1 \in Paths
         /\ Head(todo) = <<Inst, k + 1>>
         /\ NextDir(f, "remove") => \/ k + 1 = PathNum /\ FileReturn(f, "OK")
                                    \/ LastPaths' /\ Behind' = k + 1 /\ Goto(f, "remove", Tail(todo))
  BY <1>2, PathStep
<1>4. PICK sid : sid = spaceId[DescOf[f]] /\ sid = spaceId'[DescOf[f]]
  BY DEF vars, resultVars
<1>5. WalDir(f, Head(todo)) = <<Inst, k + 1, sid>>
  BY <1>3, <1>4 DEF WalDir
<1>6. /\ dir' = [e \in Dirs |-> IF e = <<Inst, k + 1, sid>> THEN [dir[e] EXCEPT !.wal = Gone] ELSE dir[e]]
      /\ NextDir(f, "remove")
  BY <1>5 DEF CleanWal, Gives, Abort
<1>7. \A d \in Dirs : d = <<Inst, k + 1, sid>> <=> d[1] = Inst /\ d[2] = k + 1 /\ d[3] = sid
  BY DirTyped
<1>8. WalsGone(f, k + 1)'
  <2>1. SUFFICES ASSUME NEW d \in Dirs, d \in Asleep
                 PROVE  IF d[1] = Inst /\ d[3] = sid /\ d[2] <= k + 1
                        THEN dir'[d] = [before[d] EXCEPT !.wal = Gone] ELSE dir'[d] = before[d]
    BY <1>4 DEF WalsGone, Asleep, Same
  <2>2. IF d[1] = Inst /\ d[3] = sid /\ d[2] <= k
        THEN dir[d] = [before[d] EXCEPT !.wal = Gone] ELSE dir[d] = before[d]
    BY <1>2, <1>3, <1>4, <2>1 DEF WalsGone, Same
  <2>3. d[2] \in Int /\ k \in Int
    BY OnPath, FilesAssumption
  <2>4. CASE d[2] = k + 1 /\ d[1] = Inst /\ d[3] = sid
    <3>1. ~(d[2] <= k) /\ d[2] <= k + 1
      BY <2>3, <2>4
    <3>. QED BY <1>6, <1>7, <2>2, <2>4, <3>1
  <2>5. CASE ~(d[2] = k + 1 /\ d[1] = Inst /\ d[3] = sid)
    <3>1. dir'[d] = dir[d]
      BY <1>6, <1>7, <2>5
    <3>2. d[2] # k + 1 => (d[2] <= k + 1 <=> d[2] <= k)
      BY <2>3
    <3>. QED BY <2>2, <2>5, <3>1, <3>2
  <2>. QED BY <2>4, <2>5
<1>9. \A d \in Dirs : dir'[d].data # Gone
  <2>1. \A d \in Dirs : dir[d].data # Gone /\ dir[d] \in Content
    BY <1>1, NoneMissing DEF FilesTypeOK
  <2>2. \A d \in Dirs : [dir[d] EXCEPT !.wal = Gone].data # Gone
    BY <2>1 DEF Content
  <2>. QED BY <1>6, <2>1, <2>2
<1>10. CASE k + 1 = PathNum /\ FileReturn(f, "OK")
  <2>1. fpc'[f] = "done"
    BY <1>10 DEF FileReturn, FilesTypeOK
  <2>2. AsAsked(f)'
    <3>1. \A d \in Dirs : d[2] <= PathNum
      BY OnPath
    <3>. QED BY <1>1, <1>4, <1>8, <1>10, <3>1 DEF AsAsked, WalsGone, Asleep
  <2>. QED BY <1>9, <2>1, <2>2 DEF Advances, ProgressOf
<1>11. CASE LastPaths' /\ Behind' = k + 1 /\ Goto(f, "remove", Tail(todo))
  <2>1. fpc'[f] = "remove" /\ frc'[f] = "none"
    BY <1>1, <1>11 DEF Goto, FilesTypeOK, Alone
  <2>2. WalsGone(f, Behind)'
    BY <1>8, <1>11
  <2>. QED BY <1>1, <1>9, <1>11, <2>1, <2>2 DEF Advances, ProgressOf
<1>. QED BY <1>3, <1>6, <1>10, <1>11

LEMMA CleanCheckpointAdvances ==
    ASSUME FilesTypeOK, Alone, Progress, HalfDone, NEW f \in FileActions,
           CleanCheckpoint(f), UNCHANGED <<before, awake>>, ~aborted'
    PROVE  Advances(f)
<1>1. ~aborted /\ Class[f] = "CleanCheckpoint" /\ fpc[f] = "remove" /\ Active(f)
  BY DEF CleanCheckpoint, At, Active
<1>2. LastPaths /\ SnapsGone(Behind) /\ todo \in Lists
  BY <1>1 DEF Progress, ProgressOf, FilesTypeOK, Lists
<1>3. PICK k \in 0 .. PathNum - 1 :
         /\ Behind = k /\ k + 1 \in Paths
         /\ Head(todo) = <<Inst, k + 1>>
         /\ NextDir(f, "remove") => \/ k + 1 = PathNum /\ FileReturn(f, "OK")
                                    \/ LastPaths' /\ Behind' = k + 1 /\ Goto(f, "remove", Tail(todo))
  BY <1>2, PathStep
<1>4. Head(todo)[2] = k + 1
  BY <1>3
<1>5. /\ dir' = [e \in Dirs |-> IF e \in OnePath(k + 1) THEN [dir[e] EXCEPT !.snaps = NoDir] ELSE dir[e]]
      /\ NextDir(f, "remove")
  BY <1>4 DEF CleanCheckpoint, Gives, Abort
<1>6. \A d \in Dirs : d \in OnePath(k + 1) <=> d[1] = Inst /\ d[2] = k + 1
  BY OnPath
<1>7. SnapsGone(k + 1)'
  <2>1. SUFFICES ASSUME NEW d \in Dirs, d \in Asleep
                 PROVE  IF d[1] = Inst /\ d[2] <= k + 1
                        THEN dir'[d] = [before[d] EXCEPT !.snaps = NoDir] ELSE dir'[d] = before[d]
    BY DEF SnapsGone, Asleep, Same
  <2>2. IF d[1] = Inst /\ d[2] <= k
        THEN dir[d] = [before[d] EXCEPT !.snaps = NoDir] ELSE dir[d] = before[d]
    BY <1>2, <1>3, <2>1 DEF SnapsGone, Same
  <2>3. d[2] \in Int /\ k \in Int
    BY OnPath, FilesAssumption
  <2>4. CASE d[2] = k + 1 /\ d[1] = Inst
    <3>1. ~(d[2] <= k) /\ d[2] <= k + 1
      BY <2>3, <2>4
    <3>. QED BY <1>5, <1>6, <2>2, <2>4, <3>1
  <2>5. CASE ~(d[2] = k + 1 /\ d[1] = Inst)
    <3>1. dir'[d] = dir[d]
      BY <1>5, <1>6, <2>5
    <3>2. d[2] # k + 1 => (d[2] <= k + 1 <=> d[2] <= k)
      BY <2>3
    <3>. QED BY <2>2, <2>5, <3>1, <3>2
  <2>. QED BY <2>4, <2>5
<1>8. \A d \in Dirs : dir'[d].data # Gone
  <2>1. \A d \in Dirs : dir[d].data # Gone /\ dir[d] \in Content
    BY <1>1, NoneMissing DEF FilesTypeOK
  <2>2. \A d \in Dirs : [dir[d] EXCEPT !.snaps = NoDir].data # Gone
    BY <2>1 DEF Content
  <2>. QED BY <1>5, <2>1, <2>2
<1>9. CASE k + 1 = PathNum /\ FileReturn(f, "OK")
  <2>1. fpc'[f] = "done"
    BY <1>9 DEF FileReturn, FilesTypeOK
  <2>2. AsAsked(f)'
    <3>1. \A d \in Dirs : d[2] <= PathNum
      BY OnPath
    <3>. QED BY <1>1, <1>7, <1>9, <3>1 DEF AsAsked, SnapsGone, Asleep
  <2>. QED BY <1>8, <2>1, <2>2 DEF Advances, ProgressOf
<1>10. CASE LastPaths' /\ Behind' = k + 1 /\ Goto(f, "remove", Tail(todo))
  <2>1. fpc'[f] = "remove" /\ frc'[f] = "none"
    BY <1>1, <1>10 DEF Goto, FilesTypeOK, Alone
  <2>2. SnapsGone(Behind)'
    BY <1>7, <1>10
  <2>. QED BY <1>1, <1>8, <1>10, <2>1, <2>2 DEF Advances, ProgressOf
<1>. QED BY <1>3, <1>5, <1>9, <1>10

LEMMA RemovePathAdvances ==
    ASSUME FilesTypeOK, Alone, Progress, HalfDone, NEW f \in FileActions,
           RemovePath(f), UNCHANGED <<before, awake>>, ~aborted'
    PROVE  Advances(f)
<1>1. ~aborted /\ Class[f] = "RestoreFromDataDir" /\ fpc[f] = "remove" /\ Active(f)
  BY DEF RemovePath, At, Active
<1>2. LastPaths /\ Replaced(Behind, Behind) /\ todo \in Lists
  BY <1>1 DEF Progress, ProgressOf, FilesTypeOK, Lists
<1>3. PICK k \in 0 .. PathNum - 1 :
         /\ Behind = k /\ k + 1 \in Paths
         /\ Head(todo) = <<Inst, k + 1>>
         /\ Goto(f, "copy", todo) => LastPaths' /\ Behind' = k
  BY <1>2, PathStep
<1>4. Head(todo)[2] = k + 1
  BY <1>3
<1>5. /\ dir' = [e \in Dirs |-> IF e \in OnePath(k + 1) THEN [data |-> Gone, wal |-> Gone, snaps |-> NoDir]
                                                        ELSE dir[e]]
      /\ Goto(f, "copy", todo)
  BY <1>4 DEF RemovePath, Gives, Abort
<1>6. fpc'[f] = "copy" /\ frc'[f] = "none" /\ Head(todo')[2] = k + 1
  BY <1>1, <1>4, <1>5 DEF Goto, FilesTypeOK, Alone
<1>7. Replaced(k, k + 1)'
  <2>1. SUFFICES ASSUME NEW d \in Dirs, d \in Asleep
                 PROVE  IF d[1] = Inst /\ d[2] <= k + 1
                        THEN d[2] <= k => dir'[d].data = Source.data /\ dir'[d].wal = Source.wal
                        ELSE dir'[d] = before[d]
    BY DEF Replaced, Asleep, Same
  <2>2. IF d[1] = Inst /\ d[2] <= k
        THEN dir[d].data = Source.data /\ dir[d].wal = Source.wal ELSE dir[d] = before[d]
    BY <1>2, <1>3, <2>1 DEF Replaced, Same
  <2>3. d[2] \in Int /\ k \in Int
    BY OnPath, FilesAssumption
  <2>4. d[2] <= k => d[2] <= k + 1 /\ d[2] # k + 1
    BY <2>3
  <2>5. ~(d[2] <= k + 1) => ~(d[2] <= k) /\ d[2] # k + 1
    BY <2>3
  <2>6. d[2] # k + 1 \/ d[1] # Inst => dir'[d] = dir[d]
    BY <1>5, OnPath
  <2>. QED BY <2>2, <2>4, <2>5, <2>6
<1>8. \A d \in Dirs : dir'[d].data = Gone => d \in OnePath(k + 1)
  <2>1. \A d \in Dirs : dir[d].data # Gone
    BY <1>1, NoneMissing
  <2>. QED BY <1>5, <2>1
<1>9. Missing(f)' = OnePath(k + 1)
  BY <1>1, <1>6 DEF Missing
<1>10. Replaced(Behind, Behind + 1)' /\ LastPaths'
  BY <1>3, <1>5, <1>7
<1>. QED BY <1>1, <1>6, <1>8, <1>9, <1>10 DEF Advances, ProgressOf

LEMMA CopyPathAdvances ==
    ASSUME FilesTypeOK, Alone, Progress, HalfDone, NEW f \in FileActions,
           CopyPath(f), UNCHANGED <<before, awake>>, ~aborted'
    PROVE  Advances(f)
<1>1. ~aborted /\ Class[f] = "RestoreFromDataDir" /\ fpc[f] = "copy" /\ Active(f)
  BY DEF CopyPath, At, Active
<1>2. LastPaths /\ Replaced(Behind, Behind + 1) /\ todo \in Lists
  BY <1>1 DEF Progress, ProgressOf, FilesTypeOK, Lists
<1>3. PICK k \in 0 .. PathNum - 1 :
         /\ Behind = k /\ k + 1 \in Paths
         /\ Head(todo) = <<Inst, k + 1>>
         /\ NextDir(f, "remove") => \/ k + 1 = PathNum /\ FileReturn(f, "OK")
                                    \/ LastPaths' /\ Behind' = k + 1 /\ Goto(f, "remove", Tail(todo))
  BY <1>2, PathStep
<1>4. Head(todo)[2] = k + 1
  BY <1>3
<1>5. PICK source : source = [data |-> Source.data, wal |-> Source.wal, snaps |-> NoDir]
  OBVIOUS
<1>6. /\ dir' = [e \in Dirs |-> IF e \in OnePath(k + 1) THEN source ELSE dir[e]]
      /\ NextDir(f, "remove")
  BY <1>4, <1>5 DEF CopyPath, Gives, Abort
<1>7. source.data = Source.data /\ source.wal = Source.wal /\ source.data # Gone
  BY <1>5 DEF Source, Gone
<1>8. Replaced(k + 1, k + 1)'
  <2>1. SUFFICES ASSUME NEW d \in Dirs, d \in Asleep
                 PROVE  IF d[1] = Inst /\ d[2] <= k + 1
                        THEN dir'[d].data = Source.data /\ dir'[d].wal = Source.wal
                        ELSE dir'[d] = before[d]
    BY DEF Replaced, Asleep, Same
  <2>2. IF d[1] = Inst /\ d[2] <= k + 1
        THEN d[2] <= k => dir[d].data = Source.data /\ dir[d].wal = Source.wal
        ELSE dir[d] = before[d]
    BY <1>2, <1>3, <2>1 DEF Replaced, Same
  <2>3. d[2] \in Int /\ k \in Int
    BY OnPath, FilesAssumption
  <2>4. CASE d \in OnePath(k + 1)
    <3>1. d[1] = Inst /\ d[2] = k + 1 /\ d[2] <= k + 1
      BY <2>3, <2>4, OnPath
    <3>. QED BY <1>6, <1>7, <2>4, <3>1
  <2>5. CASE d \notin OnePath(k + 1)
    <3>1. d[1] = Inst => d[2] # k + 1
      BY <2>5, OnPath
    <3>2. d[2] # k + 1 => (d[2] <= k + 1 <=> d[2] <= k)
      BY <2>3
    <3>. QED BY <1>6, <2>2, <2>5, <3>1, <3>2
  <2>. QED BY <2>4, <2>5
<1>9. \A d \in Dirs : dir'[d].data # Gone
  <2>1. \A d \in Dirs : dir[d].data = Gone => d \in OnePath(k + 1)
    BY <1>1, <1>4, OwnMissing DEF Missing
  <2>. QED BY <1>6, <1>7, <2>1
<1>10. CASE k + 1 = PathNum /\ FileReturn(f, "OK")
  <2>1. fpc'[f] = "done"
    BY <1>10 DEF FileReturn, FilesTypeOK
  <2>2. AsAsked(f)'
    <3>1. \A d \in Dirs : d[2] <= PathNum
      BY OnPath
    <3>. QED BY <1>1, <1>8, <1>10, <3>1 DEF AsAsked, Replaced, Asleep
  <2>. QED BY <1>9, <2>1, <2>2 DEF Advances, ProgressOf
<1>11. CASE LastPaths' /\ Behind' = k + 1 /\ Goto(f, "remove", Tail(todo))
  <2>1. fpc'[f] = "remove" /\ frc'[f] = "none"
    BY <1>1, <1>11 DEF Goto, FilesTypeOK, Alone
  <2>2. Replaced(Behind, Behind)'
    BY <1>8, <1>11
  <2>. QED BY <1>1, <1>9, <1>11, <2>1, <2>2 DEF Advances, ProgressOf
<1>. QED BY <1>3, <1>6, <1>10, <1>11

LEMMA FindCheckpointsAdvances ==
    ASSUME FilesTypeOK, Alone, Progress, HalfDone, NEW f \in FileActions,
           FindCheckpoints(f), UNCHANGED <<before, awake>>, ~aborted'
    PROVE  Advances(f)
<1>1. ~aborted /\ Class[f] = "RestoreFromCheckpoint" /\ fpc[f] = "find" /\ Active(f)
  BY DEF FindCheckpoints, At, Active
<1>2. LastPaths /\ Untouched /\ todo \in Lists
  BY <1>1 DEF Progress, ProgressOf, FilesTypeOK, Lists
<1>3. /\ dir' = dir
      /\ \/ Len(todo) > 1 /\ Goto(f, "find", Tail(todo))
         \/ Found = {} /\ FileReturn(f, "OK")
         \/ \E dirs \in [1 .. Cardinality(Found) -> Found] :
               Found # {} /\ {dirs[n] : n \in DOMAIN dirs} = Found /\ Goto(f, "remove", dirs)
  BY DEF FindCheckpoints, Asks, Abort, Found
<1>4. \A d \in Dirs : dir'[d].data # Gone
  BY <1>1, <1>3, NoneMissing
<1>5. Untouched'
  BY <1>2, <1>3 DEF Untouched, Asleep, Same
<1>6. CASE Len(todo) > 1 /\ Goto(f, "find", Tail(todo))
  <2>1. fpc'[f] = "find" /\ frc'[f] = "none"
    BY <1>1, <1>6 DEF Goto, FilesTypeOK, Alone
  <2>2. NextDir(f, "find")
    <3>1. PICK n \in 1 .. PathNum : n = Len(todo)
      BY <1>2 DEF LastPaths
    <3>2. n > 1
      BY <1>6, <3>1
    <3>3. n # 1
      BY <3>2
    <3>. QED BY <1>6, <3>1, <3>3 DEF NextDir
  <2>3. ~FileReturn(f, "OK")
    BY <2>1 DEF FileReturn, FilesTypeOK
  <2>4. LastPaths'
    BY <1>2, <2>2, <2>3, PathStep
  <2>. QED BY <1>1, <1>4, <1>5, <2>1, <2>4 DEF Advances, ProgressOf
<1>7. CASE Found = {} /\ FileReturn(f, "OK")
  <2>1. fpc'[f] = "done"
    BY <1>7 DEF FileReturn, FilesTypeOK
  <2>2. AsAsked(f)'
    <3>1. SUFFICES ASSUME NEW d \in Dirs, d \in Asleep
                   PROVE  /\ ~(d[1] = Inst /\ d[2] = PathNum /\ before[d].snaps # NoDir)
                          /\ dir'[d] = before[d]
      BY <1>1 DEF AsAsked, Asleep, Same
    <3>2. dir[d] = before[d]
      BY <1>2, <3>1 DEF Untouched, Same
    <3>3. ~(d[1] = Inst /\ d[2] = PathNum /\ dir[d].snaps # NoDir)
      BY <1>7, OnPath DEF Found
    <3>. QED BY <1>3, <3>2, <3>3
  <2>. QED BY <1>4, <2>1, <2>2 DEF Advances, ProgressOf
<1>8. ASSUME NEW dirs \in [1 .. Cardinality(Found) -> Found],
             Found # {}, {dirs[n] : n \in DOMAIN dirs} = Found, Goto(f, "remove", dirs)
      PROVE  Advances(f)
  <2>1. fpc'[f] = "remove" /\ frc'[f] = "none" /\ todo' = dirs
    BY <1>1, <1>8 DEF Goto, FilesTypeOK, Alone
  <2>2. PICK m \in Nat \ {0} : m = Cardinality(Found) /\ Len(dirs) = m
    BY <1>8, FoundListed
  <2>3. Found \subseteq OnePath(PathNum)
    BY DEF Found
  <2>4. dirs \in [1 .. m -> OnePath(PathNum)] /\ DOMAIN dirs = 1 .. m
    BY <2>2, <2>3
  <2>5. dirs \in Seq(OnePath(PathNum))
    BY <2>2, <2>4
  <2>6. \A n \in 1 .. m : dir[dirs[n]].snaps # NoDir
    BY <1>8, <2>4 DEF Found
  <2>7. ASSUME NEW d \in Dirs, d \in Asleep
        PROVE  /\ dir'[d] = before[d]
               /\ d \in OnePath(PathNum) /\ before[d].snaps # NoDir => \E n \in 1 .. m : dirs[n] = d
    <3>1. dir[d] = before[d]
      BY <1>2, <2>7 DEF Untouched, Same
    <3>2. d \in OnePath(PathNum) /\ dir[d].snaps # NoDir => \E n \in 1 .. m : dirs[n] = d
      BY <1>8, <2>4 DEF Found
    <3>. QED BY <1>3, <3>1, <3>2
  <2>8. Restoring'
    BY <1>3, <2>1, <2>2, <2>5, <2>6, <2>7 DEF Restoring, Asleep, Same
  <2>. QED BY <1>1, <1>4, <2>1, <2>8 DEF Advances, ProgressOf
<1>. QED BY <1>3, <1>6, <1>7, <1>8

LEMMA NewestIs ==
    ASSUME NEW c \in Content, c.snaps # <<>>
    PROVE  LET newest == c.snaps[Len(c.snaps)]
           IN  newest \in Kept /\ Len(c.snaps) \in 1 .. Len(c.snaps)
<1>1. PICK s \in Seq(Kept) : s = c.snaps
  BY ContentIs
<1>2. Len(s) \in 1 .. Len(s)
  BY <1>1
<1>. QED BY <1>1, <1>2

LEMMA RestoredIs ==
    ASSUME FilesTypeOK, NEW d \in Dirs, before[d].snaps # <<>>
    PROVE  LET newest == before[d].snaps[Len(before[d].snaps)]
           IN  [before[d] EXCEPT !.data = newest.data, !.wal = newest.wal]
                  = [data |-> newest.data, wal |-> newest.wal, snaps |-> before[d].snaps]
<1>1. PICK c \in Content : c = before[d]
  BY DEF FilesTypeOK
<1>2. PICK newest \in Kept : newest = c.snaps[Len(c.snaps)]
  BY <1>1, NewestIs
<1>3. newest.data \in Int /\ newest.wal \in Int
  BY DEF Kept
<1>4. PICK S : S = Seq(Kept)
  OBVIOUS
<1>5. c \in [data : Int, wal : Int, snaps : S]
  BY <1>4 DEF Content
<1>6. [c EXCEPT !.data = newest.data, !.wal = newest.wal]
         = [data |-> newest.data, wal |-> newest.wal, snaps |-> c.snaps]
  BY <1>3, <1>5, FieldsSet
<1>. QED BY <1>1, <1>2, <1>6

LEMMA RemoveLiveAdvances ==
    ASSUME FilesTypeOK, Alone, Progress, HalfDone, NEW f \in FileActions,
           RemoveLive(f), UNCHANGED <<before, awake>>, ~aborted'
    PROVE  Advances(f)
<1>1. ~aborted /\ Class[f] = "RestoreFromCheckpoint" /\ fpc[f] = "remove" /\ Active(f)
  BY DEF RemoveLive, At, Active
<1>2. Restoring /\ todo # <<>>
  BY <1>1 DEF Progress, ProgressOf, Alone
<1>3. dir' = Holding(Head(todo), Gone, Gone) /\ Goto(f, "copy", todo)
  BY DEF RemoveLive, Gives, Abort
<1>4. fpc'[f] = "copy" /\ frc'[f] = "none" /\ todo' = todo
  BY <1>1, <1>3 DEF Goto, FilesTypeOK, Alone
<1>5. todo \in Seq(OnePath(PathNum)) /\ Head(todo) = todo[1] /\ Len(todo) \in Nat \ {0}
  BY <1>2 DEF Restoring
<1>6. PICK d \in OnePath(PathNum) : d = Head(todo)
  BY <1>5
<1>7. d \in Dirs
  BY DEF OnePath
<1>8. PICK r : r = [data |-> Gone, wal |-> Gone, snaps |-> dir[d].snaps]
  OBVIOUS
<1>9. dir'[d] = r /\ \A e \in Dirs \ {d} : dir'[e] = dir[e]
  BY <1>3, <1>6, <1>7, <1>8, HoldingTyped, GoneInt
<1>10. \A e \in Dirs : dir'[e].snaps = dir[e].snaps
  BY <1>7, <1>8, <1>9
<1>11. \A n \in 1 .. Len(todo) : todo[n] \in Dirs
  BY <1>5 DEF OnePath
<1>12. d = todo[1] /\ 1 \in 1 .. Len(todo) /\ dir[d].snaps # NoDir
  <2>1. d = todo[1] /\ 1 \in 1 .. Len(todo)
    BY <1>5, <1>6
  <2>2. dir[todo[1]].snaps # NoDir
    BY <1>2, <2>1 DEF Restoring
  <2>. QED BY <2>1, <2>2
<1>13. ASSUME NEW e \in Dirs, e \in Asleep
       PROVE  IF e \in OnePath(PathNum) /\ before[e].snaps # NoDir
              THEN /\ dir'[e].snaps = before[e].snaps
                   /\ (\E n \in 1 .. Len(todo) : todo[n] = e) \/ Restored(e)'
              ELSE dir'[e] = before[e]
  <2>1. IF e \in OnePath(PathNum) /\ before[e].snaps # NoDir
        THEN /\ dir[e].snaps = before[e].snaps
             /\ (\E n \in 1 .. Len(todo) : todo[n] = e) \/ Restored(e)
        ELSE dir[e] = before[e]
    BY <1>2, <1>13 DEF Restoring, Same
  <2>2. CASE e # d
    BY <1>9, <2>1, <2>2 DEF Restored
  <2>3. CASE e = d
    <3>1. before[d].snaps # NoDir
      BY <1>12, <2>1, <2>3
    <3>. QED BY <1>6, <1>10, <1>12, <2>1, <2>3, <3>1
  <2>. QED BY <2>2, <2>3
<1>14. Restoring'
  <2>1. \A n \in 1 .. Len(todo) : dir'[todo[n]].snaps # NoDir
    BY <1>2, <1>10, <1>11 DEF Restoring
  <2>. QED BY <1>4, <1>5, <1>13, <2>1 DEF Restoring, Asleep, Same
<1>15. Missing(f)' = {d}
  BY <1>1, <1>4, <1>6 DEF Missing
<1>16. \A e \in Dirs : dir'[e].data = Gone => e = d
  BY <1>1, <1>9, NoneMissing
<1>. QED BY <1>1, <1>4, <1>14, <1>15, <1>16 DEF Advances, ProgressOf

LEMMA CopySnapshotAdvances ==
    ASSUME FilesTypeOK, Alone, SnapsFull, Progress, HalfDone, NEW f \in FileActions,
           CopySnapshot(f), UNCHANGED <<before, awake>>, ~aborted'
    PROVE  Advances(f)
<1>1. ~aborted /\ Class[f] = "RestoreFromCheckpoint" /\ fpc[f] = "copy" /\ Active(f)
  BY DEF CopySnapshot, At, Active
<1>2. Restoring /\ todo # <<>> /\ todo \in Lists
  BY <1>1 DEF Progress, ProgressOf, Alone, FilesTypeOK, Lists
<1>3. todo \in Seq(OnePath(PathNum)) /\ Head(todo) = todo[1] /\ Len(todo) \in Nat \ {0}
  BY <1>2 DEF Restoring
<1>4. PICK d \in OnePath(PathNum) : d = Head(todo)
  BY <1>3
<1>5. d \in Dirs /\ dir[d] \in Content
  BY DEF OnePath, FilesTypeOK
<1>6. d = todo[1] /\ 1 \in 1 .. Len(todo) /\ dir[d].snaps # NoDir
  <2>1. d = todo[1] /\ 1 \in 1 .. Len(todo)
    BY <1>3, <1>4
  <2>2. dir[todo[1]].snaps # NoDir
    BY <1>2, <2>1 DEF Restoring
  <2>. QED BY <2>1, <2>2
<1>7. PICK newest : newest = dir[d].snaps[Len(dir[d].snaps)]
  OBVIOUS
<1>8. dir[d].snaps # <<>> /\ dir' = Holding(d, newest.data, newest.wal) /\ NextDir(f, "remove")
  BY <1>4, <1>7 DEF CopySnapshot, Gives, Abort
<1>9. newest \in Kept /\ newest.data \in Int /\ newest.wal \in Int /\ newest.data # Gone
  <2>1. newest \in Kept /\ Len(dir[d].snaps) \in 1 .. Len(dir[d].snaps)
    BY <1>5, <1>7, <1>8, NewestIs
  <2>2. newest.data # Gone
    BY <1>5, <1>6, <1>7, <2>1 DEF SnapsFull
  <2>. QED BY <2>1, <2>2 DEF Kept
<1>10. PICK r : r = [data |-> newest.data, wal |-> newest.wal, snaps |-> dir[d].snaps]
  OBVIOUS
<1>11. dir'[d] = r /\ \A e \in Dirs \ {d} : dir'[e] = dir[e]
  BY <1>5, <1>8, <1>9, <1>10, HoldingTyped
<1>12. \A e \in Dirs : dir'[e].snaps = dir[e].snaps
  BY <1>5, <1>10, <1>11
<1>13. \A e \in Dirs : dir'[e].data # Gone
  <2>1. \A e \in Dirs : dir[e].data = Gone => e = d
    BY <1>1, <1>4, OwnMissing DEF Missing
  <2>. QED BY <1>9, <1>10, <1>11, <2>1
<1>14. PICK n \in Nat \ {0} : n = Len(todo)
  BY <1>3
<1>15. ASSUME NEW e \in Dirs, e \in Asleep
       PROVE  IF e \in OnePath(PathNum) /\ before[e].snaps # NoDir
              THEN /\ dir'[e].snaps = before[e].snaps
                   /\ (\E m \in 2 .. n : todo[m] = e) \/ Restored(e)'
              ELSE dir'[e] = before[e]
  <2>1. IF e \in OnePath(PathNum) /\ before[e].snaps # NoDir
        THEN /\ dir[e].snaps = before[e].snaps
             /\ (\E m \in 1 .. n : todo[m] = e) \/ Restored(e)
        ELSE dir[e] = before[e]
    BY <1>2, <1>14, <1>15 DEF Restoring, Same
  <2>2. CASE e # d
    <3>1. \A m \in 1 .. n : todo[m] = e => m \in 2 .. n
      <4>1. \A m \in 1 .. n : m # 1 => m \in 2 .. n
        BY <1>14
      <4>. QED BY <1>6, <2>2, <4>1
    <3>. QED BY <1>11, <2>1, <2>2, <3>1 DEF Restored
  <2>3. CASE e = d
    <3>1. before[d].snaps = dir[d].snaps /\ before[d].snaps # NoDir
      BY <1>6, <2>1, <2>3
    <3>2. before[d].snaps # <<>> /\ newest = before[d].snaps[Len(before[d].snaps)]
      BY <1>7, <1>8, <3>1
    <3>3. dir'[d] = [before[d] EXCEPT !.data = newest.data, !.wal = newest.wal]
      BY <1>5, <1>10, <1>11, <3>1, <3>2, RestoredIs
    <3>4. Restored(d)'
      BY <3>2, <3>3 DEF Restored
    <3>. QED BY <1>4, <1>12, <2>3, <3>1, <3>4
  <2>. QED BY <2>2, <2>3
<1>16. CASE n = 1
  <2>1. FileReturn(f, "OK")
    BY <1>8, <1>14, <1>16 DEF NextDir
  <2>2. fpc'[f] = "done"
    BY <2>1 DEF FileReturn, FilesTypeOK
  <2>3. AsAsked(f)'
    <3>1. SUFFICES ASSUME NEW e \in Dirs, e \in Asleep
                   PROVE  IF e[1] = Inst /\ e[2] = PathNum /\ before[e].snaps # NoDir
                          THEN Restored(e)' ELSE dir'[e] = before[e]
      BY <1>1 DEF AsAsked, Asleep, Same, Restored
    <3>2. \A m : m \notin 2 .. n
      BY <1>16
    <3>. QED BY <1>15, <3>1, <3>2, OnPath
  <2>. QED BY <1>13, <2>2, <2>3 DEF Advances, ProgressOf
<1>17. CASE n # 1
  <2>1. Goto(f, "remove", Tail(todo))
    BY <1>8, <1>14, <1>17 DEF NextDir
  <2>2. fpc'[f] = "remove" /\ frc'[f] = "none" /\ todo' = Tail(todo)
    BY <1>1, <2>1 DEF Goto, FilesTypeOK, Alone
  <2>3. PICK l \in Nat : l = n - 1
    BY <1>14
  <2>4. Tail(todo) = [m \in 1 .. l |-> todo[m + 1]] /\ Len(Tail(todo)) = l
    BY <1>2, <1>14, <2>3, HeadTail
  <2>5. Tail(todo) \in Seq(OnePath(PathNum))
    BY <1>2, <1>3
  <2>6. \A m \in 1 .. l : m + 1 \in 1 .. n
    BY <1>14, <2>3
  <2>7. \A m \in 2 .. n : \E k \in 1 .. l : m = k + 1
    <3>1. \A m \in 2 .. n : m - 1 \in 1 .. l /\ m = (m - 1) + 1
      BY <1>14, <2>3
    <3>. QED BY <3>1
  <2>8. \A m \in 1 .. l : dir'[todo'[m]].snaps # NoDir
    <3>1. \A m \in 1 .. l : todo'[m] = todo[m + 1] /\ todo[m + 1] \in Dirs /\ dir[todo[m + 1]].snaps # NoDir
      BY <1>2, <1>3, <1>14, <2>2, <2>4, <2>6 DEF Restoring, OnePath
    <3>. QED BY <1>12, <3>1
  <2>9. \A e : (\E m \in 2 .. n : todo[m] = e) => (\E k \in 1 .. l : todo'[k] = e)
    BY <2>2, <2>4, <2>7
  <2>10. Restoring'
    BY <1>15, <2>2, <2>4, <2>5, <2>8, <2>9 DEF Restoring, Asleep, Same
  <2>. QED BY <1>1, <1>13, <2>2, <2>10 DEF Advances, ProgressOf
<1>. QED BY <1>16, <1>17

LEMMA LeftStep ==
    ASSUME NEW order \in Orders, NEW k \in 0 .. Count * PathNum, k < Count * PathNum, todo = Left(order, k)
    PROVE  /\ todo \in Lists /\ todo # <<>>
           /\ k + 1 \in 1 .. Count * PathNum /\ k + 1 \in 0 .. Count * PathNum
           /\ Head(todo) = Slot(order, k + 1)
           /\ Len(todo) = 1 => k + 1 = Count * PathNum
           /\ Len(todo) # 1 => k + 1 < Count * PathNum /\ Tail(todo) = Left(order, k + 1)
<1>1. PICK t \in Nat : t = Count * PathNum
  BY CountIs
<1>2. PICK l \in Nat \ {0} : l = t - k
  BY <1>1
<1>3. todo = [n \in 1 .. l |-> Slot(order, n + k)]
  BY <1>1, <1>2 DEF Left
<1>4. todo \in Lists /\ todo # <<>> /\ Len(todo) = l
  BY <1>1, <1>2, SlotsListed DEF Lists
<1>5. Head(todo) = Slot(order, k + 1)
  <2>1. 1 \in 1 .. l /\ 1 + k = k + 1
    BY <1>1, <1>2
  <2>. QED BY <1>3, <1>4, <2>1, HeadTail
<1>6. k + 1 \in 1 .. t /\ k + 1 \in 0 .. t /\ (l = 1 => k + 1 = t) /\ (l # 1 => k + 1 < t)
  BY <1>1, <1>2
<1>7. Tail(todo) = Left(order, k + 1)
  <2>1. Tail(todo) = [n \in 1 .. l - 1 |-> todo[n + 1]]
    BY <1>4, HeadTail
  <2>2. \A n \in 1 .. l - 1 : n + 1 \in 1 .. l /\ (n + 1) + k = n + (k + 1)
    BY <1>1, <1>2
  <2>3. Tail(todo) = [n \in 1 .. l - 1 |-> Slot(order, n + (k + 1))]
    BY <1>3, <2>1, <2>2
  <2>4. l - 1 = t - (k + 1)
    BY <1>1, <1>2
  <2>. QED BY <1>1, <2>3, <2>4 DEF Left
<1>. QED BY <1>1, <1>4, <1>5, <1>6, <1>7

(* The instances of all slots are as many as asked for.                    *)
LEMMA AllSlots ==
    ASSUME NEW order \in Orders
    PROVE  \E cut \in SUBSET Insts :
              /\ Cardinality(cut) = Count
              /\ \A d \in Dirs : d[1] \in cut <=> \E m \in 1 .. Count * PathNum : Slot(order, m) = <<d[1], d[2]>>
<1>1. PICK cut : cut = {order[j] : j \in 1 .. Count}
  OBVIOUS
<1>2. order \in [1 .. Count -> Insts] /\ \A m, n \in 1 .. Count : order[m] = order[n] => m = n
  BY DEF Orders
<1>3. cut \in SUBSET Insts
  BY <1>1, <1>2
<1>4. Cardinality(cut) = Count
  <2>1. order \in Bijection(1 .. Count, cut)
    <3>1. order \in [1 .. Count -> cut] /\ \A e \in cut : \E j \in 1 .. Count : order[j] = e
      BY <1>1, <1>2
    <3>2. order \in Surjection(1 .. Count, cut)
      BY <3>1 DEF Surjection
    <3>3. order \in Injection(1 .. Count, cut)
      BY <1>2, <3>1 DEF Injection, IsInjective
    <3>. QED BY <3>2, <3>3 DEF Bijection
  <2>2. IsFiniteSet(1 .. Count) /\ Cardinality(1 .. Count) = Count
    BY CountIs, FS_Interval
  <2>. QED BY <2>1, <2>2, FS_Bijection DEF ExistsBijection
<1>5. ASSUME NEW d \in Dirs
      PROVE  d[1] \in cut <=> \E m \in 1 .. Count * PathNum : Slot(order, m) = <<d[1], d[2]>>
  <2>1. ASSUME d[1] \in cut PROVE \E m \in 1 .. Count * PathNum : Slot(order, m) = <<d[1], d[2]>>
    <3>1. PICK j \in 1 .. Count : d[1] = order[j]
      BY <1>1, <2>1
    <3>2. d[2] \in Paths
      BY DirTyped
    <3>. QED BY <3>1, <3>2, SlotIs
  <2>2. ASSUME NEW m \in 1 .. Count * PathNum, Slot(order, m) = <<d[1], d[2]>> PROVE d[1] \in cut
    <3>1. PICK j \in 1 .. Count, p \in Paths : Slot(order, m) = <<order[j], p>>
      BY SlotHas
    <3>. QED BY <1>1, <2>2, <3>1
  <2>. QED BY <2>1, <2>2
<1>. QED BY <1>3, <1>4, <1>5

LEMMA ListWalAdvances ==
    ASSUME FilesTypeOK, Alone, Progress, HalfDone, NEW f \in FileActions,
           UNCHANGED vars, ListWal(f), UNCHANGED <<before, awake>>, ~aborted'
    PROVE  Advances(f)
<1>1. ~aborted /\ Class[f] = "TruncateWal" /\ fpc[f] = "ls" /\ Active(f)
  BY DEF ListWal, At, Active
<1>2. Cutting(f)
  BY <1>1 DEF Progress, ProgressOf
<1>3. PICK d : d = WalDir(f, Head(todo))
  OBVIOUS
<1>4. /\ dir' = dir
      /\ \/ d \in Dirs /\ dir[d].wal \in 0 .. MaxInt32 /\ size' = dir[d].wal /\ Goto(f, "truncate", todo)
         \/ FileReturn(f, "ERR_FAILED")
  BY <1>3 DEF ListWal, Asks, Abort
<1>5. \A e \in Dirs : dir'[e].data # Gone
  BY <1>1, <1>4, NoneMissing
<1>6. CASE FileReturn(f, "ERR_FAILED")
  <2>1. fpc'[f] = "done" /\ frc'[f] # "OK"
    BY <1>6 DEF FileReturn, FilesTypeOK
  <2>. QED BY <1>5, <2>1 DEF Advances, ProgressOf
<1>7. CASE d \in Dirs /\ dir[d].wal \in 0 .. MaxInt32 /\ size' = dir[d].wal /\ Goto(f, "truncate", todo)
  <2>1. fpc'[f] = "truncate" /\ frc'[f] = "none" /\ todo' = todo
    BY <1>1, <1>7 DEF Goto, FilesTypeOK, Alone
  <2>2. spaceId' = spaceId
    BY DEF vars, resultVars
  <2>3. Cutting(f)'
    BY <1>2, <1>4, <2>1, <2>2 DEF Cutting, Cut, Asleep, Same
  <2>4. Sized(f)'
    <3>1. dir[d].wal >= 0
      BY <1>7, FilesAssumption
    <3>. QED BY <1>3, <1>4, <1>7, <2>1, <2>2, <3>1 DEF Sized, WalDir
  <2>. QED BY <1>1, <1>5, <2>1, <2>3, <2>4 DEF Advances, ProgressOf
<1>. QED BY <1>4, <1>6, <1>7

(* Taking bytes off a wal whose size is known.                             *)
LEMMA TruncatedRightly ==
    ASSUME NEW w \in Int, w >= 0, size = w
    PROVE  RightlyCut(w, Truncated(w)) /\ Truncated(w) \in Int
<1>1. Bytes \in Nat
  BY FilesAssumption
<1>2. CASE w >= Bytes
  BY <1>1, <1>2 DEF RightlyCut, Truncated
<1>3. CASE ~(w >= Bytes)
  BY <1>1, <1>3 DEF RightlyCut, Truncated
<1>. QED BY <1>2, <1>3

LEMMA TruncateWalAdvances ==
    ASSUME FilesTypeOK, Alone, Progress, HalfDone, NEW f \in FileActions,
           UNCHANGED vars, TruncateWal(f), UNCHANGED <<before, awake>>, ~aborted'
    PROVE  Advances(f)
<1>1. ~aborted /\ Class[f] = "TruncateWal" /\ fpc[f] = "truncate" /\ Active(f)
  BY DEF TruncateWal, At, Active
<1>2. Cutting(f) /\ Sized(f)
  BY <1>1 DEF Progress, ProgressOf
<1>3. PICK order \in Orders, k \in 0 .. Count * PathNum :
         k < Count * PathNum /\ todo = Left(order, k) /\ Cut(f, order, k)
  BY <1>2 DEF Cutting
<1>4. /\ k + 1 \in 1 .. Count * PathNum /\ k + 1 \in 0 .. Count * PathNum
      /\ Head(todo) = Slot(order, k + 1)
      /\ Len(todo) = 1 => k + 1 = Count * PathNum
      /\ Len(todo) # 1 => k + 1 < Count * PathNum /\ Tail(todo) = Left(order, k + 1)
  BY <1>3, LeftStep
<1>5. PICK sid : sid = spaceId[DescOf[f]] /\ sid = spaceId'[DescOf[f]]
  BY DEF vars, resultVars
<1>6. PICK d : d = WalDir(f, Head(todo))
  OBVIOUS
<1>7. d \in Dirs /\ (d \in Asleep => size = dir[d].wal /\ size >= 0)
  BY <1>2, <1>6 DEF Sized
<1>8. dir' = Holding(d, dir[d].data, Truncated(dir[d].wal)) /\ NextDir(f, "ls")
  BY <1>6 DEF TruncateWal, Gives, Abort
<1>9. dir[d] \in Content /\ dir[d].data \in Int /\ dir[d].wal \in Int /\ Truncated(dir[d].wal) \in Int
  BY <1>7, ContentIs, TruncatedInt DEF FilesTypeOK
<1>10. PICK w \in Int : w = Truncated(dir[d].wal)
  BY <1>9
<1>11. PICK r : r = [data |-> dir[d].data, wal |-> w, snaps |-> dir[d].snaps]
  OBVIOUS
<1>12. dir'[d] = r /\ \A e \in Dirs \ {d} : dir'[e] = dir[e]
  BY <1>7, <1>8, <1>9, <1>10, <1>11, HoldingTyped
<1>13. Slot(order, k + 1) = <<d[1], d[2]>> /\ d[3] = sid
  <2>1. PICK j \in 1 .. Count, p \in Paths : Slot(order, k + 1) = <<order[j], p>>
    BY <1>4, SlotHas
  <2>2. PICK i : i = order[j]
    OBVIOUS
  <2>3. PICK h : h = Head(todo) /\ h[1] = i /\ h[2] = p
    BY <1>4, <2>1, <2>2
  <2>4. d = <<h[1], h[2], sid>>
    BY <1>5, <1>6, <2>3 DEF WalDir
  <2>. QED BY <2>1, <2>2, <2>3, <2>4
<1>14. \A e \in Dirs : dir'[e].data # Gone
  <2>1. \A e \in Dirs : dir[e].data # Gone
    BY <1>1, NoneMissing
  <2>. QED BY <1>7, <1>11, <1>12, <2>1
<1>15. \A m \in 1 .. k : m \in 1 .. Count * PathNum /\ m # k + 1 /\ m \in 1 .. k + 1
  BY CountIs
<1>16. \A m \in 1 .. k + 1 : m = k + 1 \/ m \in 1 .. k
  BY CountIs
<1>17. ASSUME NEW e \in Dirs, e \in Asleep
       PROVE  IF e[3] = sid /\ \E m \in 1 .. k + 1 : Slot(order, m) = <<e[1], e[2]>>
              THEN /\ RightlyCut(before[e].wal, dir'[e].wal)
                   /\ dir'[e] = [before[e] EXCEPT !.wal = dir'[e].wal]
              ELSE dir'[e] = before[e]
  <2>1. IF e[3] = sid /\ \E m \in 1 .. k : Slot(order, m) = <<e[1], e[2]>>
        THEN /\ RightlyCut(before[e].wal, dir[e].wal)
             /\ dir[e] = [before[e] EXCEPT !.wal = dir[e].wal]
        ELSE dir[e] = before[e]
    BY <1>3, <1>5, <1>17 DEF Cut, Same
  <2>2. CASE e # d
    <3>1. e[3] = sid => Slot(order, k + 1) # <<e[1], e[2]>>
      BY <1>7, <1>13, <2>2, DirTyped
    <3>. QED BY <1>12, <1>15, <1>16, <2>1, <2>2, <3>1
  <2>3. CASE e = d
    <3>1. ~ \E m \in 1 .. k : Slot(order, m) = <<d[1], d[2]>>
      BY <1>4, <1>13, <1>15, SlotsDiffer
    <3>2. dir[d] = before[d]
      BY <2>1, <2>3, <3>1
    <3>3. RightlyCut(before[d].wal, w)
      BY <1>7, <1>9, <1>10, <1>17, <2>3, <3>2, TruncatedRightly
    <3>4. PICK S : S = Seq(Kept)
      OBVIOUS
    <3>5. dir'[d] = [before[d] EXCEPT !.wal = w] /\ dir'[d].wal = w
      <4>1. before[d] \in [data : Int, wal : Int, snaps : S]
        BY <1>9, <3>2, <3>4 DEF Content
      <4>2. r.wal = w
        BY <1>11
      <4>. QED BY <1>11, <1>12, <3>2, <4>1, <4>2, WalSet
    <3>6. \E m \in 1 .. k + 1 : Slot(order, m) = <<d[1], d[2]>>
      <4>1. k + 1 \in 1 .. k + 1
        BY <1>4, CountIs
      <4>. QED BY <1>13, <4>1
    <3>. QED BY <1>13, <2>3, <3>3, <3>5, <3>6
  <2>. QED BY <2>2, <2>3
<1>18. CASE Len(todo) = 1
  <2>1. FileReturn(f, "OK")
    BY <1>8, <1>18 DEF NextDir
  <2>2. fpc'[f] = "done"
    BY <2>1 DEF FileReturn, FilesTypeOK
  <2>3. PICK cut \in SUBSET Insts :
           /\ Cardinality(cut) = Count
           /\ \A e \in Dirs : e[1] \in cut <=> \E m \in 1 .. k + 1 : Slot(order, m) = <<e[1], e[2]>>
    BY <1>4, <1>18, AllSlots
  <2>4. \A e \in Dirs : e \in Asleep =>
           IF e[1] \in cut /\ e[3] = sid
           THEN /\ RightlyCut(before[e].wal, dir'[e].wal)
                /\ dir'[e] = [before[e] EXCEPT !.wal = dir'[e].wal]
           ELSE dir'[e] = before[e]
    BY <1>17, <2>3
  <2>5. AsAsked(f)'
    BY <1>1, <1>5, <2>3, <2>4 DEF AsAsked, Asleep, Same
  <2>. QED BY <1>14, <2>2, <2>5 DEF Advances, ProgressOf
<1>19. CASE Len(todo) # 1
  <2>1. Goto(f, "ls", Tail(todo))
    BY <1>8, <1>19 DEF NextDir
  <2>2. fpc'[f] = "ls" /\ frc'[f] = "none" /\ todo' = Left(order, k + 1)
    BY <1>1, <1>4, <1>19, <2>1 DEF Goto, FilesTypeOK, Alone
  <2>3. Cut(f, order, k + 1)'
    BY <1>5, <1>17 DEF Cut, Asleep, Same
  <2>4. Cutting(f)'
    BY <1>4, <1>19, <2>2, <2>3 DEF Cutting
  <2>. QED BY <1>1, <1>14, <2>2, <2>4 DEF Advances, ProgressOf
<1>. QED BY <1>18, <1>19

-----------------------------------------------------------------------------
(***************************************************************************)
(* Begin, and after the DescSpaceAction.                                   *)
(***************************************************************************)

LEMMA DescribedAdvances ==
    ASSUME TypeOK, FilesTypeOK, Alone, Progress, HalfDone, NEW f \in FileActions,
           UNCHANGED vars, Described(f)
    PROVE  Advances(f)
<1>1. ~aborted /\ Class[f] \in {"CleanWal", "TruncateWal"} /\ Active(f) /\ fpc[f] = "desc"
  BY DescribedClass DEF Described
<1>2. Untouched
  BY <1>1 DEF Progress, ProgressOf
<1>3. UNCHANGED <<dir, before, awake>>
  BY DEF Described
<1>4. \A d \in Dirs : d \in Asleep' => dir'[d] = before'[d]
  BY <1>2, <1>3 DEF Untouched, Asleep, Same
<1>5. \A d \in Dirs : dir'[d].data # Gone
  BY <1>1, <1>3, NoneMissing
<1>6. ASSUME NEW ret \in {"none", "OK", "ERR_FAILED"}, FileReturn(f, ret), ret = "OK" => AsAsked(f)'
      PROVE  Advances(f)
  <2>1. fpc'[f] = "done" /\ frc'[f] = ret
    BY <1>6 DEF FileReturn, FilesTypeOK
  <2>. QED BY <1>5, <1>6, <2>1 DEF Advances, ProgressOf
<1>7. CASE rc[DescOf[f]] # "OK" /\ FileReturn(f, rc[DescOf[f]])
  <2>1. rc[DescOf[f]] \in {"none", "OK", "ERR_FAILED"}
    BY <1>1, FilesAssumption DEF TypeOK, Of
  <2>. QED BY <1>6, <1>7, <2>1
<1>8. CASE Class[f] = "CleanWal" /\ Goto(f, "remove", PathsOf(Inst))
  <2>1. fpc'[f] = "remove" /\ frc'[f] = "none"
    BY <1>1, <1>8 DEF Goto, FilesTypeOK, Alone
  <2>2. LastPaths' /\ Behind' = 0
    BY <1>8, AllPaths
  <2>3. \A d \in Dirs : ~(d[2] <= 0)
    <3>1. ASSUME NEW d \in Dirs PROVE ~(d[2] <= 0)
      <4>1. d[2] \in Int /\ 1 <= d[2]
        BY OnPath
      <4>. QED BY <4>1
    <3>. QED BY <3>1
  <2>4. WalsGone(f, 0)'
    BY <1>4, <2>3 DEF WalsGone, Asleep, Same
  <2>. QED BY <1>5, <1>8, <2>1, <2>2, <2>4 DEF Advances, ProgressOf
<1>9. CASE Class[f] = "CleanWal" /\ FileReturn(f, "ERR_FAILED")
  BY <1>6, <1>9
<1>10. CASE Class[f] # "CleanWal" /\ Count = 0 /\ FileReturn(f, "OK")
  <2>1. {} \in SUBSET Insts /\ Cardinality({}) = Count
    BY <1>10, FS_EmptySet
  <2>2. AsAsked(f)'
    BY <1>1, <1>4, <1>10, <2>1 DEF AsAsked, Asleep, Same
  <2>. QED BY <1>6, <1>10, <2>2
<1>11. ASSUME NEW order \in Orders, Class[f] # "CleanWal", Count # 0, Goto(f, "ls", Left(order, 0))
       PROVE  Advances(f)
  <2>1. fpc'[f] = "ls" /\ frc'[f] = "none" /\ todo' = Left(order, 0)
    BY <1>1, <1>11 DEF Goto, FilesTypeOK, Alone
  <2>2. 0 \in 0 .. Count * PathNum /\ 0 < Count * PathNum
    BY <1>11, FirstSlots
  <2>3. \A m : m \notin 1 .. 0
    OBVIOUS
  <2>4. Cut(f, order, 0)'
    BY <1>4, <2>3 DEF Cut, Asleep, Same
  <2>5. Cutting(f)'
    BY <2>1, <2>2, <2>4 DEF Cutting
  <2>. QED BY <1>1, <1>5, <1>11, <2>1, <2>5 DEF Advances, ProgressOf
<1>. QED BY <1>7, <1>8, <1>9, <1>10, <1>11, DescribedShape

LEMMA BeginAdvances ==
    ASSUME FilesTypeOK, Alone, HalfDone, NEW f \in FileActions, BeginFiles(f)
    PROVE  /\ ProgressOf(f)'
           /\ Untouched'
           /\ \A d \in Dirs : dir'[d].data # Gone
<1>1. ~aborted /\ \A g \in FileActions : fpc[g] # "copy"
  BY DEF BeginFiles, Ready
<1>2. dir' = dir /\ before' = dir
  BY DEF BeginFiles
<1>3. \A d \in Dirs : dir'[d] = before'[d] /\ dir'[d].data # Gone
  BY <1>1, <1>2 DEF HalfDone
<1>4. Untouched'
  BY <1>3 DEF Untouched, Asleep, Same
<1>5. ASSUME NEW ret, FileReturn(f, ret) PROVE ProgressOf(f)'
  <2>1. fpc'[f] = "done"
    BY <1>5 DEF FileReturn, FilesTypeOK
  <2>. QED BY <2>1 DEF ProgressOf
<1>6. ASSUME Goto(f, "desc", <<>>) PROVE ProgressOf(f)'
  <2>1. fpc'[f] = "desc"
    BY <1>6 DEF Goto, FilesTypeOK
  <2>. QED BY <1>4, <2>1 DEF ProgressOf
<1>7. ASSUME Class[f] = "RestoreFromCheckpoint", Goto(f, "find", PathsOf(Inst)) PROVE ProgressOf(f)'
  <2>1. fpc'[f] = "find"
    BY <1>7 DEF Goto, FilesTypeOK
  <2>. QED BY <1>4, <1>7, <2>1, AllPaths DEF ProgressOf
<1>8. ASSUME Class[f] \in {"CleanCheckpoint", "RestoreFromDataDir"}, Goto(f, "remove", PathsOf(Inst))
      PROVE  ProgressOf(f)'
  <2>1. fpc'[f] = "remove"
    BY <1>8 DEF Goto, FilesTypeOK
  <2>2. LastPaths' /\ Behind' = 0
    BY <1>8, AllPaths
  <2>3. \A d \in Dirs : ~(d[2] <= 0)
    <3>1. ASSUME NEW d \in Dirs PROVE ~(d[2] <= 0)
      <4>1. d[2] \in Int /\ 1 <= d[2]
        BY OnPath
      <4>. QED BY <4>1
    <3>. QED BY <3>1
  <2>4. SnapsGone(0)' /\ Replaced(0, 0)'
    BY <1>3, <2>3 DEF SnapsGone, Replaced, Asleep, Same
  <2>. QED BY <1>8, <2>1, <2>2, <2>4 DEF ProgressOf
<1>9. ProgressOf(f)'
  <2>1. Class[f] \in Classes
    BY FilesAssumption
  <2>2. CASE Class[f] \in {"CleanWal", "TruncateWal"}
    BY <1>6, <2>2 DEF BeginFiles
  <2>3. CASE Class[f] = "CleanCheckpoint"
    BY <1>5, <1>8, <2>3 DEF BeginFiles
  <2>4. CASE Class[f] = "RestoreFromCheckpoint"
    BY <1>5, <1>7, <2>4 DEF BeginFiles
  <2>5. CASE Class[f] = "RestoreFromDataDir"
    BY <1>5, <1>8, <2>5 DEF BeginFiles
  <2>. QED BY <2>1, <2>2, <2>3, <2>4, <2>5 DEF Classes
<1>. QED BY <1>3, <1>4, <1>9

-----------------------------------------------------------------------------
(***************************************************************************)
(* The invariant holds.                                                    *)
(***************************************************************************)

LEMMA CommandAdvances ==
    ASSUME TypeOK, FilesInv, NEW f \in FileActions, UNCHANGED vars, FileStep(f), ~aborted'
    PROVE  Advances(f)
<1>1. UNCHANGED <<before, awake>>
  BY DEF FileStep
<1>. QED BY <1>1, CleanWalAdvances, CleanCheckpointAdvances, FindCheckpointsAdvances, RemoveLiveAdvances,
            CopySnapshotAdvances, RemovePathAdvances, CopyPathAdvances, ListWalAdvances,
            TruncateWalAdvances DEF FileStep, FilesInv

(* While one action on files does a step, the others do not run.           *)
LEMMA OthersRest ==
    ASSUME TypeOK, FilesTypeOK, Alone, NEW f \in FileActions, DoRunOnFiles(f),
           NEW g \in FileActions, g # f
    PROVE  ~aborted /\ ~Active(g)' /\ frc'[g] = frc[g]
<1>1. Placed
  BY DEF FilesTypeOK, Placed, Steps, Lists
<1>2. ~aborted /\ ~Active(g) /\ (Moves(f) \/ Goto(f, "desc", <<>>))
  <2>1. CASE BeginFiles(f)
    BY <1>1, <2>1, BeginMoves DEF BeginFiles, Ready, Active
  <2>2. CASE Described(f)
    <3>1. ~aborted /\ Active(f) /\ Class[f] \in {"CleanWal", "TruncateWal"}
      BY <2>2, DescribedClass
    <3>. QED BY <1>1, <2>2, <3>1, DescribedMoves DEF Alone
  <2>3. CASE FileStep(f)
    <3>1. ~aborted /\ Active(f) /\ fpc[f] # "desc"
      BY <2>3, CommandBusy
    <3>. QED BY <1>1, <2>3, <3>1, CommandMoves DEF Alone
  <2>. QED BY <2>1, <2>2, <2>3 DEF DoRunOnFiles
<1>3. fpc'[g] = fpc[g] /\ frc'[g] = frc[g]
  <2>1. CASE Moves(f)
    BY <1>1, <2>1, MovesShape
  <2>2. CASE Goto(f, "desc", <<>>)
    BY <1>1, <2>2 DEF Goto, Placed
  <2>. QED BY <1>2, <2>1, <2>2
<1>. QED BY <1>2, <1>3 DEF Active

(* What a step of an action on files that leaves the tool running does.    *)
LEMMA StepAdvances ==
    ASSUME TypeOK, FilesInv, NEW f \in FileActions, UNCHANGED vars, DoRunOnFiles(f), ~aborted'
    PROVE  /\ ~aborted
           /\ ProgressOf(f)'
           /\ frc'[f] = "OK" => IF fpc[f] = "idle" THEN Untouched' ELSE AsAsked(f)'
           /\ \A d \in Dirs : dir'[d].data = Gone => fpc'[f] = "copy" /\ d \in Missing(f)'
<1>1. CASE BeginFiles(f)
  <2>1. ~aborted /\ fpc[f] = "idle"
    BY <1>1 DEF BeginFiles, Ready
  <2>. QED BY <1>1, <2>1, BeginAdvances DEF FilesInv
<1>2. CASE Described(f)
  <2>1. ~aborted /\ fpc[f] # "idle"
    BY <1>2 DEF Described
  <2>. QED BY <1>2, <2>1, DescribedAdvances DEF FilesInv, Advances
<1>3. CASE FileStep(f)
  <2>1. ~aborted /\ fpc[f] # "idle"
    BY <1>3, CommandBusy
  <2>. QED BY <1>3, <2>1, CommandAdvances DEF Advances
<1>. QED BY <1>1, <1>2, <1>3 DEF DoRunOnFiles

LEMMA InitFilesInv == FilesInit => FilesInv
<1>1. SUFFICES ASSUME FilesInit PROVE FilesInv
  OBVIOUS
<1>2. FilesTypeOK
  BY <1>1, InitFilesTyped
<1>3. \A f \in FileActions : fpc[f] = "idle" /\ frc[f] = "none" /\ ~Active(f)
  BY <1>1 DEF FilesInit, Active
<1>4. Alone
  BY <1>3 DEF Alone
<1>5. Progress
  BY <1>3 DEF Progress, ProgressOf
<1>6. PICK wal \in [Paths -> InitialWals], snaps \in [Paths -> InitialSnaps] :
         dir = [d \in Dirs |-> [data |-> 3, wal |-> wal[d[2]], snaps |-> snaps[d[2]]]]
  BY <1>1 DEF FilesInit
<1>7. ASSUME NEW d \in Dirs
      PROVE  dir[d].data # Gone /\ dir[d].snaps \in InitialSnaps
  <2>1. PICK three \in Nat : three = 3
    OBVIOUS
  <2>2. PICK r : r = [data |-> three, wal |-> wal[d[2]], snaps |-> snaps[d[2]]]
    OBVIOUS
  <2>3. dir[d] = r
    BY <1>6, <2>1, <2>2
  <2>4. r.data # Gone
    BY <2>2 DEF Gone
  <2>5. snaps[d[2]] \in InitialSnaps
    BY DirTyped
  <2>. QED BY <2>2, <2>3, <2>4, <2>5
<1>8. HalfDone
  BY <1>7 DEF HalfDone
<1>9. ASSUME NEW s \in InitialSnaps PROVE s = NoDir \/ \A n \in 1 .. Len(s) : s[n].data # Gone
  <2>1. CASE s = <<>>
    BY <2>1
  <2>2. CASE s = <<[data |-> 1, wal |-> 0], [data |-> 2, wal |-> 1]>>
    BY <2>2 DEF Gone
  <2>. QED BY <2>1, <2>2 DEF InitialSnaps
<1>10. SnapsFull
  BY <1>7, <1>9 DEF SnapsFull
<1>. QED BY <1>2, <1>4, <1>5, <1>8, <1>10 DEF FilesInv

LEMMA NextFilesInv ==
    ASSUME TypeOK, FilesInv, [PlanNext]_allVars
    PROVE  FilesInv'
<1>1. FilesTypeOK /\ Alone /\ SnapsFull /\ Progress /\ HalfDone
  BY DEF FilesInv
<1>2. FilesTypeOK' /\ SnapsFull' /\ Alone'
  BY <1>1, NextFilesTyped, NextAlone
<1>3. CASE ([Next]_vars /\ UNCHANGED fileVars) \/ (UNCHANGED vars /\ Turn)
  <2>1. Elsewhere
    BY <1>1, <1>3, OthersElsewhere
  <2>2. aborted' = aborted
    BY <2>1 DEF Elsewhere
  <2>3. CASE aborted
    BY <1>2, <2>2, <2>3 DEF FilesInv, Progress, HalfDone
  <2>4. CASE ~aborted
    BY <1>1, <1>2, <2>1, <2>4, ElsewhereProgress, ElsewhereHalf DEF FilesInv, Progress
  <2>. QED BY <2>3, <2>4
<1>4. ASSUME UNCHANGED vars, NEW f \in FileActions, DoRunOnFiles(f)
      PROVE  FilesInv'
  <2>1. CASE aborted'
    BY <1>2, <2>1 DEF FilesInv, Progress, HalfDone
  <2>2. CASE ~aborted'
    <3>1. /\ ProgressOf(f)'
          /\ \A d \in Dirs : dir'[d].data = Gone => fpc'[f] = "copy" /\ d \in Missing(f)'
      BY <1>4, <2>2, StepAdvances
    <3>2. ASSUME NEW g \in FileActions, g # f PROVE ProgressOf(g)'
      <4>1. ~Active(g)'
        BY <1>1, <1>4, <3>2, OthersRest
      <4>. QED BY <4>1 DEF ProgressOf, Active
    <3>3. Progress'
      BY <3>1, <3>2 DEF Progress
    <3>4. HalfDone'
      BY <3>1 DEF HalfDone
    <3>. QED BY <1>2, <3>3, <3>4 DEF FilesInv
  <2>. QED BY <2>1, <2>2
<1>. QED BY <1>3, <1>4, StepShapes

(* The invariant, with the types of the statements it rests on.            *)
THEOREM FilesAlwaysInv == FilesSpec => [](TypeOK /\ FilesInv)
<1>1. FilesSpec => []TypeOK
  BY FilesPlanRefines, TypeCorrect, PTL
<1>2. Init /\ FilesInit => FilesInv
  BY InitFilesInv
<1>3. TypeOK /\ FilesInv /\ [PlanNext]_allVars => FilesInv'
  BY NextFilesInv
<1>. QED BY <1>1, <1>2, <1>3, PTL DEF FilesSpec

(* Between two actions on files no directory is without its data, as long  *)
(* as no CHECK has ended the tool.                                         *)
THEOREM NothingIsHalfDone == FilesSpec => []NothingHalfDone
<1>1. FilesInv => NothingHalfDone
  BY DEF FilesInv, HalfDone, NothingHalfDone
<1>. QED BY <1>1, FilesAlwaysInv, PTL

LEMMA CommandEnds ==
    ASSUME NEW f, FileStep(f), aborted'
    PROVE  Abort(f)
<1>1. ~aborted
  BY DEF FileStep, CleanWal, CleanCheckpoint, FindCheckpoints, RemoveLive, CopySnapshot, RemovePath,
         CopyPath, ListWal, TruncateWal, At
<1>. QED BY <1>1 DEF FileStep, CleanWal, CleanCheckpoint, FindCheckpoints, RemoveLive, CopySnapshot,
                     RemovePath, CopyPath, ListWal, TruncateWal, Gives, Asks

(* Of the directories whose process has not run since, an action on files  *)
(* that returns OK has changed those it is for, as it is to, and no other. *)
THEOREM FilesAreAsAsked == FilesSpec => FilesAsAsked
<1>. DEFINE Asked == \A f \in FileActions : frc[f] = "none" /\ frc'[f] = "OK" =>
                        IF fpc[f] = "idle" THEN Untouched' ELSE AsAsked(f)'
<1>1. TypeOK /\ FilesInv /\ [PlanNext]_allVars => [Asked]_allVars
  <2>1. SUFFICES ASSUME TypeOK, FilesInv, [PlanNext]_allVars,
                        NEW f \in FileActions, frc[f] = "none", frc'[f] = "OK"
                 PROVE  IF fpc[f] = "idle" THEN Untouched' ELSE AsAsked(f)'
    OBVIOUS
  <2>2. FilesTypeOK /\ Alone
    BY <2>1 DEF FilesInv
  <2>3. frc' # frc
    BY <2>1
  <2>4. PICK g \in FileActions : UNCHANGED vars /\ DoRunOnFiles(g)
    BY <2>1, <2>3, StepShapes DEF Turn, fileVars
  <2>5. g = f
    BY <2>1, <2>2, <2>4, OthersRest
  <2>6. ~aborted'
    <3>1. CASE BeginFiles(f)
      BY <3>1 DEF BeginFiles, Ready
    <3>2. CASE Described(f)
      BY <3>2 DEF Described
    <3>3. CASE FileStep(f)
      <4>1. ~Abort(f)
        BY <2>1, <2>2 DEF Abort, FileReturn, FilesTypeOK
      <4>. QED BY <3>3, <4>1, CommandEnds
    <3>. QED BY <2>4, <2>5, <3>1, <3>2, <3>3 DEF DoRunOnFiles
  <2>. QED BY <2>1, <2>4, <2>5, <2>6, StepAdvances
<1>. QED BY <1>1, FilesAlwaysInv, PTL DEF FilesSpec, FilesAsAsked

=============================================================================
