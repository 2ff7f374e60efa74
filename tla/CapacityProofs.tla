---------------------------- MODULE CapacityProofs ----------------------------
(***************************************************************************)
(* Proofs about Capacity for any number of jobs, tenants and calls: the    *)
(* limit holds, because a call that may still increment has seen a counter *)
(* below the limit that nobody has written since; the list of a tenant     *)
(* accounts for the calls of its jobs, from what each list command does to *)
(* the places of a job; the counter is exact as long as each release can   *)
(* be matched with a slot of its own; and a retry stands behind a job for  *)
(* good, because the list commands keep the order of those that stay.  The *)
(* last part says why the loop of an acquiring call comes to an end.       *)
(***************************************************************************)
EXTENDS Capacity, FiniteSetTheorems, WellFoundedInduction, TLAPS

\* What a call of acquire pushes is one more job.
LEMMA PushedTyped ==
    ASSUME NEW q \in Seq(Jobs), NEW j \in Jobs, NEW retry \in BOOLEAN
    PROVE  Pushed(q, j, retry) \in Seq(Jobs)
  BY DEF Pushed, Cons

\* A set of natural numbers has its minimum among its elements.
LEMMA MinIsElement ==
    ASSUME NEW S \in SUBSET Nat, S # {}
    PROVE  Min(S) \in S /\ \A n \in S : Min(S) <= n
  <1>1. PICK m \in S : \A n \in S : <<n, m>> \notin OpToRel(<, Nat)
    BY WFMin, NatLessThanWellFounded, Zenon
  <1>2. \A n \in S : ~(n < m)
    BY <1>1, Zenon DEF OpToRel
  <1>3. \E k \in S : \A n \in S : k <= n
    BY <1>2
  <1> QED
    BY <1>3, Zenon DEF Min

\* The place RemoveFirst takes an element out of.
LEMMA RemovedAt ==
    ASSUME NEW q \in Seq(Jobs), NEW j, \E i \in 1..Len(q) : q[i] = j
    PROVE  \E k \in 1..Len(q) : q[k] = j /\ RemoveFirst(q, j) = RemoveAt(q, k)
  <1> DEFINE I == {i \in 1..Len(q) : q[i] = j}
  <1>1. I \in SUBSET Nat /\ I # {}
    OBVIOUS
  <1>2. SelectInSeq(q, LAMBDA v : v = j) = Min(I)
    BY <1>1 DEF SelectInSeq
  <1>3. Min(I) \in I
    BY <1>1, MinIsElement
  <1> QED
    BY <1>2, <1>3 DEF RemoveFirst

LEMMA RemoveFirstTyped ==
    ASSUME NEW q \in Seq(Jobs), NEW j
    PROVE  RemoveFirst(q, j) \in Seq(Jobs)
  <1>1. CASE \E i \in 1..Len(q) : q[i] = j
    <2>1. PICK k \in 1..Len(q) : RemoveFirst(q, j) = RemoveAt(q, k)
      BY <1>1, RemovedAt
    <2>2. RemoveAt(q, k) \in Seq(Jobs)
      BY DEF RemoveAt
    <2> QED
      BY <2>1, <2>2
  <1>2. CASE ~\E i \in 1..Len(q) : q[i] = j
    BY <1>2 DEF RemoveFirst
  <1> QED
    BY <1>1, <1>2

\* Every variable keeps its type, step by step.
LEMMA TypeStep == TypeOK /\ [Next]_vars => TypeOK'
  <1> SUFFICES ASSUME TypeOK, [Next]_vars PROVE TypeOK'
    OBVIOUS
  <1> USE ConstantsAssumption DEF TypeOK, Watching, HasSlot, HasFreed, Calls
  <1>1. CASE UNCHANGED vars
    BY <1>1 DEF vars
  <1>2. ASSUME NEW a \in Acquires, Push(a) PROVE TypeOK'
    <2>1. QueueOf(a) \in Tenants
      BY DEF QueueOf
    <2>2. queue' \in [Tenants -> Seq(Jobs)]
      BY <1>2, <2>1, PushedTyped DEF Push
    <2> QED
      BY <1>2, <2>2 DEF Push, Goes
  <1>3. ASSUME NEW a \in Acquires, Watch(a) PROVE TypeOK'
    BY <1>3 DEF Watch, Goes
  <1>4. ASSUME NEW a \in Acquires, ReadCounter(a) PROVE TypeOK'
    BY <1>4 DEF ReadCounter, Goes
  <1>5. ASSUME NEW a \in Acquires, Increment(a) PROVE TypeOK'
    <2>1. CASE a \in dirty
      BY <1>5, <2>1 DEF Increment, Goes
    <2>2. CASE a \notin dirty
      <3>1. dirty' = dirty \cup Watchers(a) /\ pc' = [pc EXCEPT ![a] = "incremented"]
        BY <1>5, <2>2 DEF Increment, Goes
      <3>2. dirty' \subseteq {b \in Acquires : pc'[b] \in Watching}
        BY <2>2, <3>1 DEF Watchers
      <3>3. used' \in Int /\ UNCHANGED <<dead, queue, active, retries, repeated>>
        BY <1>5, <2>2 DEF Increment
      <3> QED
        BY <3>1, <3>2, <3>3
    <2> QED
      BY <2>1, <2>2
  <1>6. ASSUME NEW a \in Acquires, Unqueue(a) PROVE TypeOK'
    <2>1. QueueOf(a) \in Tenants
      BY DEF QueueOf
    <2>2. queue' \in [Tenants -> Seq(Jobs)]
      BY <1>6, <2>1, RemoveFirstTyped DEF Unqueue
    <2> QED
      BY <1>6, <2>2 DEF Unqueue, Goes
  <1>7. ASSUME NEW a \in Acquires, Mark(a) PROVE TypeOK'
    BY <1>7 DEF Mark, Goes
  <1>8. ASSUME NEW a \in Acquires, Deny(a) PROVE TypeOK'
    BY <1>8 DEF Deny, Goes
  <1>9. ASSUME NEW r \in Releases, ReadToRelease(r) PROVE TypeOK'
    BY <1>9 DEF ReadToRelease, Goes
  <1>10. ASSUME NEW r \in Releases, Decrement(r) PROVE TypeOK'
    BY <1>10 DEF Decrement, Goes, Watchers
  <1>11. ASSUME NEW r \in Releases, Unmark(r) PROVE TypeOK'
    BY <1>11 DEF Unmark, Goes
  <1>12. ASSUME NEW c \in Calls, Die(c) PROVE TypeOK'
    BY <1>12 DEF Die
  <1>13. ASSUME NEW j \in Jobs, Expire(j) PROVE TypeOK'
    BY <1>13 DEF Expire
  <1> QED
    BY <1>1, <1>2, <1>3, <1>4, <1>5, <1>6, <1>7, <1>8, <1>9, <1>10, <1>11, <1>12, <1>13
       DEF Next, Step

\* TypeOK holds: no call, fault or expiry gives a variable another type.
THEOREM TypeCorrect == Spec => []TypeOK
  <1>1. Init => TypeOK
    <2> SUFFICES ASSUME Init PROVE TypeOK
      OBVIOUS
    <2>1. queue \in [Tenants -> Seq(Jobs)]
      BY DEF Init
    <2>2. pc \in [Calls -> {"idle", "pushed", "full", "denied", "counted"}
                           \cup Watching \cup HasSlot \cup HasFreed]
      BY DEF Init
    <2>3. dead \subseteq Calls /\ active \subseteq Jobs /\ retries \subseteq Acquires
      BY DEF Init
    <2>4. dirty \subseteq {a \in Acquires : pc[a] \in Watching}
      BY DEF Init
    <2>5. used \in Int
      BY DEF Init
    <2>6. repeated \in BOOLEAN
      BY Zenon DEF Init
    <2> QED
      BY <2>1, <2>2, <2>3, <2>4, <2>5, <2>6, Zenon DEF TypeOK
  <1> QED
    BY <1>1, TypeStep, PTL DEF Spec

-------------------------------------------------------------------------------
(* The limit.                                                                *)

\* A call that is about to execute its transaction has seen room for it: the
\* counter is below the limit, or was written since and the transaction fails.
SawRoom == \A a \in Acquires : pc[a] = "below" => a \in dirty \/ used < Limit

LimitInv == TypeOK /\ LimitHolds /\ SawRoom

LEMMA LimitStep == LimitInv /\ [Next]_vars => LimitInv'
  <1> SUFFICES ASSUME LimitInv, [Next]_vars PROVE LimitHolds' /\ SawRoom'
    BY TypeStep DEF LimitInv
  <1> USE ConstantsAssumption DEF LimitInv, TypeOK, LimitHolds, SawRoom, Calls
  <1>1. CASE UNCHANGED vars
    BY <1>1 DEF vars
  <1>2. ASSUME NEW a \in Acquires, Push(a) PROVE LimitHolds' /\ SawRoom'
    BY <1>2 DEF Push, Goes
  <1>3. ASSUME NEW a \in Acquires, Watch(a) PROVE LimitHolds' /\ SawRoom'
    BY <1>3 DEF Watch, Goes
  <1>4. ASSUME NEW a \in Acquires, ReadCounter(a) PROVE LimitHolds' /\ SawRoom'
    BY <1>4 DEF ReadCounter, Goes
  <1>5. ASSUME NEW a \in Acquires, Increment(a) PROVE LimitHolds' /\ SawRoom'
    <2>1. CASE a \in dirty
      BY <1>5, <2>1 DEF Increment, Goes
    <2>2. CASE a \notin dirty
      <3>1. used < Limit
        BY <1>5, <2>2 DEF Increment, Goes
      <3>2. \A b \in Acquires : pc'[b] = "below" => b \in dirty'
        BY <1>5, <2>2 DEF Increment, Goes, Watchers, Watching
      <3> QED
        BY <1>5, <2>2, <3>1, <3>2 DEF Increment
    <2> QED
      BY <2>1, <2>2
  <1>6. ASSUME NEW a \in Acquires, Unqueue(a) PROVE LimitHolds' /\ SawRoom'
    BY <1>6 DEF Unqueue, Goes
  <1>7. ASSUME NEW a \in Acquires, Mark(a) PROVE LimitHolds' /\ SawRoom'
    BY <1>7 DEF Mark, Goes
  <1>8. ASSUME NEW a \in Acquires, Deny(a) PROVE LimitHolds' /\ SawRoom'
    BY <1>8 DEF Deny, Goes
  <1>9. ASSUME NEW r \in Releases, ReadToRelease(r) PROVE LimitHolds' /\ SawRoom'
    BY <1>9 DEF ReadToRelease, Goes
  <1>10. ASSUME NEW r \in Releases, Decrement(r) PROVE LimitHolds' /\ SawRoom'
    BY <1>10 DEF Decrement, Goes
  <1>11. ASSUME NEW r \in Releases, Unmark(r) PROVE LimitHolds' /\ SawRoom'
    BY <1>11 DEF Unmark, Goes
  <1>12. ASSUME NEW c \in Calls, Die(c) PROVE LimitHolds' /\ SawRoom'
    BY <1>12 DEF Die
  <1>13. ASSUME NEW j \in Jobs, Expire(j) PROVE LimitHolds' /\ SawRoom'
    BY <1>13 DEF Expire
  <1> QED
    BY <1>1, <1>2, <1>3, <1>4, <1>5, <1>6, <1>7, <1>8, <1>9, <1>10, <1>11, <1>12, <1>13
       DEF Next, Step

\* The limit is never exceeded, for any number of concurrent calls and with
\* calls dying anywhere.
THEOREM NeverOverLimit == Spec => []LimitHolds
  <1>1. Init => LimitHolds /\ SawRoom
    BY ConstantsAssumption DEF Init, LimitHolds, SawRoom, Calls
  <1>2. TypeOK /\ LimitHolds /\ SawRoom /\ [Next]_vars => (LimitHolds /\ SawRoom)'
    BY LimitStep DEF LimitInv
  <1> QED
    BY <1>1, <1>2, TypeCorrect, PTL DEF Spec

-------------------------------------------------------------------------------
(* The lists: what the list commands do to the places of a job.              *)

LEMMA PlacesFinite ==
    ASSUME NEW q \in Seq(Jobs), NEW j
    PROVE  IsFiniteSet(Places(q, j)) /\ Cardinality(Places(q, j)) \in Nat
  <1>1. IsFiniteSet(1..Len(q))
    BY FS_Interval
  <1>2. Places(q, j) \in SUBSET (1..Len(q))
    BY DEF Places
  <1>3. IsFiniteSet(Places(q, j))
    BY <1>1, <1>2, FS_Subset
  <1> QED
    BY <1>3, FS_CardinalityType

\* RPUSH adds the place behind the last.
LEMMA PlacesOfAppend ==
    ASSUME NEW q \in Seq(Jobs), NEW k \in Jobs, NEW j
    PROVE  Cardinality(Places(Append(q, k), j))
             = Cardinality(Places(q, j)) + (IF j = k THEN 1 ELSE 0)
  <1>1. Places(Append(q, k), j)
          = IF j = k THEN Places(q, j) \cup {Len(q) + 1} ELSE Places(q, j)
    BY DEF Places
  <1>2. Len(q) + 1 \notin Places(q, j)
    BY DEF Places
  <1>3. IsFiniteSet(Places(q, j)) /\ Cardinality(Places(q, j)) \in Nat
    BY PlacesFinite
  <1>4. Cardinality(Places(q, j) \cup {Len(q) + 1}) = Cardinality(Places(q, j)) + 1
    BY <1>2, <1>3, FS_AddElement
  <1> QED
    BY <1>1, <1>3, <1>4

\* LPUSH moves every place by one and adds the first.
LEMMA PlacesOfCons ==
    ASSUME NEW q \in Seq(Jobs), NEW k \in Jobs, NEW j
    PROVE  Cardinality(Places(Cons(k, q), j))
             = Cardinality(Places(q, j)) + (IF j = k THEN 1 ELSE 0)
  <1> DEFINE P == Places(q, j)
             M == {i \in Places(Cons(k, q), j) : i # 1}
             f == [i \in P |-> i + 1]
  <1>1. /\ Len(Cons(k, q)) = Len(q) + 1 /\ Cons(k, q) \in Seq(Jobs)
        /\ Cons(k, q)[1] = k
        /\ \A i \in 1..Len(q) : Cons(k, q)[i + 1] = q[i]
    BY DEF Cons
  <1>2. \A i \in P : i \in 1..Len(q) /\ i + 1 \in M
    BY <1>1 DEF Places
  <1>3. \A m \in M : m - 1 \in P /\ (m - 1) + 1 = m
    BY <1>1 DEF Places
  <1>4. f \in Bijection(P, M)
    <2>1. f \in [P -> M] /\ \A i, n \in P : f[i] = f[n] => i = n
      BY <1>2
    <2>2. \A m \in M : \E i \in P : f[i] = m
      <3> SUFFICES ASSUME NEW m \in M PROVE \E i \in P : f[i] = m
        OBVIOUS
      <3>1. m - 1 \in P /\ f[m - 1] = m
        BY <1>3
      <3> QED
        BY <3>1
    <2> QED
      BY <2>1, <2>2 DEF Bijection, Injection, IsInjective, Surjection
  <1>5. IsFiniteSet(M) /\ Cardinality(M) = Cardinality(P)
    BY <1>4, PlacesFinite, FS_Bijection DEF ExistsBijection
  <1>6. Places(Cons(k, q), j) = IF j = k THEN M \cup {1} ELSE M
    BY <1>1 DEF Places
  <1>7. 1 \notin M
    OBVIOUS
  <1>8. Cardinality(P) \in Nat
    BY PlacesFinite
  <1> HIDE DEF M, f
  <1>9. Cardinality(M \cup {1}) = Cardinality(M) + 1
    BY <1>5, <1>7, FS_AddElement
  <1> QED
    BY <1>5, <1>6, <1>8, <1>9

\* What RemoveAt leaves at each place.
LEMMA RemoveAtPlaces ==
    ASSUME NEW q \in Seq(Jobs), NEW k \in 1..Len(q)
    PROVE  /\ Len(RemoveAt(q, k)) = Len(q) - 1 /\ RemoveAt(q, k) \in Seq(Jobs)
           /\ \A i \in 1..Len(q) - 1 :
                 RemoveAt(q, k)[i] = IF i < k THEN q[i] ELSE q[i + 1]
  <1> DEFINE before == SubSeq(q, 1, k - 1)
             behind == SubSeq(q, k + 1, Len(q))
  <1>1. /\ before \in Seq(Jobs) /\ Len(before) = k - 1
        /\ \A i \in 1..k - 1 : before[i] = q[i]
    OBVIOUS
  <1>2. /\ behind \in Seq(Jobs) /\ Len(behind) = Len(q) - k
        /\ \A i \in 1..Len(q) - k : behind[i] = q[k + i]
    OBVIOUS
  <1>3. RemoveAt(q, k) = before \o behind
    BY DEF RemoveAt
  <1> HIDE DEF before, behind
  <1> QED
    BY <1>1, <1>2, <1>3, SMTT(30)

\* LREM closes the gap at the place it takes out.
LEMMA PlacesOfRemoveAt ==
    ASSUME NEW q \in Seq(Jobs), NEW k \in 1..Len(q), NEW j
    PROVE  Cardinality(Places(RemoveAt(q, k), j))
             = Cardinality(Places(q, j)) - (IF j = q[k] THEN 1 ELSE 0)
  <1> DEFINE P == {i \in Places(q, j) : i # k}
             r == RemoveAt(q, k)
             M == Places(r, j)
             f == [i \in P |-> IF i < k THEN i ELSE i - 1]
  <1>1. /\ Len(r) = Len(q) - 1 /\ r \in Seq(Jobs)
        /\ \A i \in 1..Len(q) - 1 : r[i] = IF i < k THEN q[i] ELSE q[i + 1]
    BY RemoveAtPlaces
  <1>2. \A i \in P : i \in 1..Len(q) /\ f[i] \in M
    BY <1>1 DEF Places
  <1>3. \A m \in M : IF m < k THEN m \in P ELSE m + 1 \in P
    BY <1>1 DEF Places
  <1>4. f \in Bijection(P, M)
    <2>1. f \in [P -> M]
      BY <1>2
    <2>2. \A i, n \in P : f[i] = f[n] => i = n
      BY <1>2
    <2>3. \A m \in M : \E i \in P : f[i] = m
      <3> SUFFICES ASSUME NEW m \in M PROVE \E i \in P : f[i] = m
        OBVIOUS
      <3>1. m \in 1..Len(q)
        BY <1>1 DEF Places
      <3>2. CASE m < k
        BY <1>3, <3>2
      <3>3. CASE ~(m < k)
        <4>1. m + 1 \in P /\ f[m + 1] = m
          BY <1>3, <3>1, <3>3
        <4> QED
          BY <4>1
      <3> QED
        BY <3>2, <3>3
    <2> QED
      BY <2>1, <2>2, <2>3 DEF Bijection, Injection, IsInjective, Surjection
  <1>5. IsFiniteSet(P)
    BY PlacesFinite, FS_Subset
  <1>6. Cardinality(M) = Cardinality(P)
    BY <1>4, <1>5, FS_Bijection DEF ExistsBijection
  <1>7. Places(q, j) = IF j = q[k] THEN P \cup {k} ELSE P
    BY DEF Places
  <1>8. k \notin P
    OBVIOUS
  <1> HIDE DEF P, f
  <1>9. Cardinality(P) \in Nat
    BY <1>5, FS_CardinalityType
  <1>10. Cardinality(P \cup {k}) = Cardinality(P) + 1
    BY <1>5, <1>8, FS_AddElement
  <1> QED
    BY <1>6, <1>7, <1>9, <1>10

\* The one entry LREM takes out, when there is one.
LEMMA PlacesOfRemoveFirst ==
    ASSUME NEW q \in Seq(Jobs), NEW k \in Jobs, Cardinality(Places(q, k)) > 0, NEW j
    PROVE  Cardinality(Places(RemoveFirst(q, k), j))
             = Cardinality(Places(q, j)) - (IF j = k THEN 1 ELSE 0)
  <1>1. Places(q, k) # {}
    BY FS_EmptySet
  <1>2. \E i \in 1..Len(q) : q[i] = k
    BY <1>1 DEF Places
  <1>3. PICK n \in 1..Len(q) : q[n] = k /\ RemoveFirst(q, k) = RemoveAt(q, n)
    BY <1>2, RemovedAt
  <1> QED
    BY <1>3, PlacesOfRemoveAt

LEMMA ListedFinite ==
    ASSUME NEW j
    PROVE  IsFiniteSet(Listed(j)) /\ Cardinality(Listed(j)) \in Nat
  <1>1. Listed(j) \in SUBSET Calls
    BY DEF Listed, CallsFor, Calls
  <1>2. IsFiniteSet(Listed(j))
    BY <1>1, ConstantsAssumption, FS_Subset
  <1> QED
    BY <1>2, FS_CardinalityType

\* A step that leaves the lists alone and moves no call into them or out of
\* them keeps the account.
LEMMA ListsUntouched ==
    ASSUME ListAccountsForCalls, UNCHANGED queue,
           \A j \in Jobs : Listed(j)' = Listed(j)
    PROVE  ListAccountsForCalls'
  BY DEF ListAccountsForCalls, Places

LEMMA ListStep == TypeOK /\ ListAccountsForCalls /\ [Next]_vars => ListAccountsForCalls'
  <1> SUFFICES ASSUME TypeOK, ListAccountsForCalls, [Next]_vars PROVE ListAccountsForCalls'
    OBVIOUS
  <1> USE ConstantsAssumption DEF TypeOK, Calls
  <1>1. CASE UNCHANGED vars
    <2>1. UNCHANGED queue /\ \A j \in Jobs : Listed(j)' = Listed(j)
      BY <1>1 DEF vars, Listed, CallsFor
    <2> QED
      BY <2>1, ListsUntouched
  <1>2. ASSUME NEW a \in Acquires, Push(a) PROVE ListAccountsForCalls'
    <2> SUFFICES ASSUME NEW j \in Jobs
                 PROVE  Cardinality(Places(queue'[TenantOf[j]], j)) = Cardinality(Listed(j)')
      BY DEF ListAccountsForCalls, Places
    <2> DEFINE t == TenantOf[j]
               b == JobOf[a]
    <2>1. b \in Jobs /\ t \in Tenants /\ queue[t] \in Seq(Jobs) /\ QueueOf(a) = TenantOf[b]
      BY DEF QueueOf
    <2>2. PICK retry \in BOOLEAN :
            queue' = [queue EXCEPT ![QueueOf(a)] = Pushed(@, b, retry)]
      BY <1>2 DEF Push
    <2>3. Listed(j)' = IF j = b THEN Listed(j) \cup {a} ELSE Listed(j)
      BY <1>2 DEF Push, Goes, Listed, CallsFor
    <2>4. a \notin Listed(j)
      BY <1>2 DEF Push, Goes, Listed, CallsFor
    <2>5. Cardinality(Listed(j)') = Cardinality(Listed(j)) + (IF j = b THEN 1 ELSE 0)
      <3>1. IsFiniteSet(Listed(j)) /\ Cardinality(Listed(j)) \in Nat
        BY ListedFinite
      <3>2. Cardinality(Listed(j) \cup {a}) = Cardinality(Listed(j)) + 1
        BY <2>4, <3>1, FS_AddElement
      <3> QED
        BY <2>3, <3>1, <3>2
    <2>6. Cardinality(Places(queue'[t], j))
            = Cardinality(Places(queue[t], j)) + (IF j = b THEN 1 ELSE 0)
      <3>1. CASE t = QueueOf(a)
        <4>1. queue'[t] = IF retry THEN Append(queue[t], b) ELSE Cons(b, queue[t])
          BY <2>1, <2>2, <3>1 DEF Pushed
        <4> QED
          BY <2>1, <4>1, PlacesOfAppend, PlacesOfCons
      <3>2. CASE t # QueueOf(a)
        <4>1. queue'[t] = queue[t] /\ j # b
          BY <2>1, <2>2, <3>2
        <4> QED
          BY <2>1, <4>1, PlacesFinite
      <3> QED
        BY <3>1, <3>2
    <2> QED
      BY <2>5, <2>6 DEF ListAccountsForCalls
  <1>3. ASSUME NEW a \in Acquires, Unqueue(a) PROVE ListAccountsForCalls'
    <2> SUFFICES ASSUME NEW j \in Jobs
                 PROVE  Cardinality(Places(queue'[TenantOf[j]], j)) = Cardinality(Listed(j)')
      BY DEF ListAccountsForCalls, Places
    <2> DEFINE t == TenantOf[j]
               b == JobOf[a]
    <2>1. b \in Jobs /\ t \in Tenants /\ queue[t] \in Seq(Jobs) /\ QueueOf(a) = TenantOf[b]
      BY DEF QueueOf
    <2>2. queue' = [queue EXCEPT ![QueueOf(a)] = RemoveFirst(@, b)]
      BY <1>3 DEF Unqueue
    <2>3. Listed(j)' = IF j = b THEN Listed(j) \ {a} ELSE Listed(j)
      BY <1>3 DEF Unqueue, Goes, Listed, CallsFor
    <2>4. a \in Listed(b)
      BY <1>3 DEF Unqueue, Goes, Listed, CallsFor
    <2>5. Cardinality(Listed(j)') = Cardinality(Listed(j)) - (IF j = b THEN 1 ELSE 0)
      <3>1. IsFiniteSet(Listed(j)) /\ Cardinality(Listed(j)) \in Nat
        BY ListedFinite
      <3>2. j = b => Cardinality(Listed(j) \ {a}) = Cardinality(Listed(j)) - 1
        BY <2>4, <3>1, FS_RemoveElement
      <3> QED
        BY <2>3, <3>1, <3>2
    <2>6. Cardinality(Listed(b)) > 0
      BY <2>4, ListedFinite, FS_EmptySet
    <2>7. Cardinality(Places(queue[TenantOf[b]], b)) > 0
      BY <2>1, <2>6 DEF ListAccountsForCalls
    <2>8. Cardinality(Places(queue'[t], j))
            = Cardinality(Places(queue[t], j)) - (IF j = b THEN 1 ELSE 0)
      <3>1. CASE t = QueueOf(a)
        <4>1. queue'[t] = RemoveFirst(queue[t], b)
          BY <2>1, <2>2, <3>1
        <4>2. Cardinality(Places(queue[t], b)) > 0
          BY <2>1, <2>7, <3>1
        <4> QED
          BY <2>1, <4>1, <4>2, PlacesOfRemoveFirst
      <3>2. CASE t # QueueOf(a)
        <4>1. queue'[t] = queue[t] /\ j # b
          BY <2>1, <2>2, <3>2
        <4> QED
          BY <2>1, <4>1, PlacesFinite
      <3> QED
        BY <3>1, <3>2
    <2> QED
      BY <2>5, <2>8 DEF ListAccountsForCalls
  <1>4. ASSUME NEW a \in Acquires,
               Watch(a) \/ ReadCounter(a) \/ Increment(a) \/ Mark(a) \/ Deny(a)
        PROVE  ListAccountsForCalls'
    <2>1. UNCHANGED queue
      BY <1>4 DEF Watch, ReadCounter, Increment, Mark, Deny
    <2>2. \A c \in Acquires \ {a} : pc'[c] = pc[c]
      BY <1>4 DEF Watch, ReadCounter, Increment, Mark, Deny, Goes
    <2>3. /\ pc[a] # "idle" /\ pc'[a] # "idle"
          /\ pc[a] \in {"unqueued", "granted"} <=> pc'[a] \in {"unqueued", "granted"}
      BY <1>4 DEF Watch, ReadCounter, Increment, Mark, Deny, Goes
    <2>4. \A j \in Jobs : Listed(j)' = Listed(j)
      BY <2>2, <2>3 DEF Listed, CallsFor
    <2> QED
      BY <2>1, <2>4, ListsUntouched
  <1>5. ASSUME NEW r \in Releases, ReadToRelease(r) \/ Decrement(r) \/ Unmark(r)
        PROVE  ListAccountsForCalls'
    <2>1. UNCHANGED queue
      BY <1>5 DEF ReadToRelease, Decrement, Unmark
    <2>2. \A c \in Acquires : pc'[c] = pc[c]
      BY <1>5 DEF ReadToRelease, Decrement, Unmark, Goes
    <2>3. \A j \in Jobs : Listed(j)' = Listed(j)
      BY <2>2 DEF Listed, CallsFor
    <2> QED
      BY <2>1, <2>3, ListsUntouched
  <1>6. ASSUME \/ \E c \in Calls : Die(c)
               \/ \E j \in Jobs : Expire(j)
        PROVE  ListAccountsForCalls'
    <2>1. UNCHANGED <<queue, pc>>
      BY <1>6 DEF Die, Expire
    <2>2. \A j \in Jobs : Listed(j)' = Listed(j)
      BY <2>1 DEF Listed, CallsFor
    <2> QED
      BY <2>1, <2>2, ListsUntouched
  <1> QED
    BY <1>1, <1>2, <1>3, <1>4, <1>5, <1>6 DEF Next, Step

\* The list of a tenant accounts for the calls of each of its jobs: nothing is
\* taken out of it but the one entry of a call that was granted a slot.
THEOREM ListsAccount == Spec => []ListAccountsForCalls
  <1>1. Init => ListAccountsForCalls
    <2> SUFFICES ASSUME Init, NEW j \in Jobs
                 PROVE  Cardinality(Places(queue[TenantOf[j]], j)) = Cardinality(Listed(j))
      BY DEF ListAccountsForCalls
    <2>1. TenantOf[j] \in Tenants
      BY ConstantsAssumption
    <2>2. Places(queue[TenantOf[j]], j) = {}
      BY <2>1 DEF Init, Places
    <2>3. Listed(j) = {}
      BY DEF Init, Listed, CallsFor, Calls
    <2> QED
      BY <2>2, <2>3
  <1> QED
    BY <1>1, ListStep, TypeCorrect, PTL DEF Spec

-------------------------------------------------------------------------------
(* The counter.  That a job is released no more often than it acquired is     *)
(* said by a matching: each release that began has a slot of its own that its *)
(* job took.  No sum over the jobs is needed.                                 *)

Begun == {r \in Releases : pc[r] # "idle"}

\* f gives each release that began a taken slot of its job, none of them twice.
IsMatching(f) ==
    /\ f \in [Begun -> Taken]
    /\ \A r \in Begun : JobOf[f[r]] = JobOf[r]
    /\ \A r, s \in Begun : f[r] = f[s] => r = s

MatchInv == repeated \/ \E f : IsMatching(f)

\* The sets of calls that are counted.
LEMMA CountsFinite ==
    /\ IsFiniteSet(Taken) /\ Cardinality(Taken) \in Nat
    /\ IsFiniteSet(Freed) /\ Cardinality(Freed) \in Nat
    /\ IsFiniteSet(Begun) /\ Cardinality(Begun) \in Nat
    /\ Freed \subseteq Begun
  <1>1. Taken \in SUBSET Calls /\ Freed \in SUBSET Calls /\ Begun \in SUBSET Calls
    BY DEF Taken, Freed, Begun, Calls
  <1>2. IsFiniteSet(Taken) /\ IsFiniteSet(Freed) /\ IsFiniteSet(Begun)
    BY <1>1, ConstantsAssumption, FS_Subset
  <1>3. Freed \subseteq Begun
    BY DEF Freed, Begun, HasFreed
  <1> QED
    BY <1>2, <1>3, FS_CardinalityType

\* The slots and the releases of a job: when it has more of those than of these,
\* one of its slots is matched by nothing.
LEMMA UnmatchedSlot ==
    ASSUME NEW f, IsMatching(f), NEW r \in Releases,
           Cardinality(CallsFor(JobOf[r], Releases))
             < Cardinality(CallsFor(JobOf[r], Acquires) \cap Taken)
    PROVE  \E t \in Taken : JobOf[t] = JobOf[r] /\ \A s \in Begun : f[s] # t
  <1> DEFINE S == CallsFor(JobOf[r], Releases)
             T == CallsFor(JobOf[r], Acquires) \cap Taken
             g == [s \in S |-> f[s]]
  <1>1. S = {s \in Begun : JobOf[s] = JobOf[r]}
    BY DEF CallsFor, Begun
  <1>2. T = {t \in Taken : JobOf[t] = JobOf[r]}
    BY DEF CallsFor, Taken, HasSlot
  <1>3. g \in Injection(S, T)
    BY <1>1, <1>2 DEF IsMatching, Injection, IsInjective
  <1>4. IsFiniteSet(S) /\ IsFiniteSet(T)
    BY <1>1, <1>2, CountsFinite, FS_Subset
  <1>5. Cardinality(S) \in Nat /\ Cardinality(T) \in Nat
    BY <1>4, FS_CardinalityType
  <1>6. g \notin Surjection(S, T)
    <2>1. Cardinality(S) # Cardinality(T)
      BY <1>5
    <2> HIDE DEF S, T, g
    <2> QED
      BY <1>3, <1>4, <2>1, FS_Injection
  <1>7. PICK t \in T : \A s \in S : g[s] # t
    BY <1>3, <1>6 DEF Injection, IsInjective, Surjection
  <1>8. \A s \in Begun : f[s] # t
    BY <1>1, <1>2, <1>7 DEF IsMatching
  <1> QED
    BY <1>2, <1>7, <1>8

\* A call that takes no slot and begins or ends no release.
LEMMA CountsUntouched ==
    ASSUME CounterIsExact, MatchInv, UNCHANGED <<used, repeated>>,
           Taken' = Taken, Freed' = Freed, Begun' = Begun
    PROVE  CounterIsExact' /\ MatchInv'
  BY DEF CounterIsExact, MatchInv, IsMatching

\* One more slot: the matching stands.
LEMMA SlotTaken ==
    ASSUME CounterIsExact, MatchInv, NEW a, a \notin Taken,
           used' = used + 1, repeated' = repeated,
           Taken' = Taken \cup {a}, Freed' = Freed, Begun' = Begun
    PROVE  CounterIsExact' /\ MatchInv'
  <1>1. Cardinality(Taken') = Cardinality(Taken) + 1
    BY CountsFinite, FS_AddElement
  <1>2. CounterIsExact'
    BY <1>1, CountsFinite DEF CounterIsExact
  <1>3. ASSUME NEW f, IsMatching(f) PROVE IsMatching(f)'
    BY <1>3 DEF IsMatching
  <1> QED
    BY <1>2, <1>3 DEF MatchInv

\* A release begins: unless it is repeated it is matched, and so the counter it
\* reads is not zero.
LEMMA ReleaseBegins ==
    ASSUME TypeOK, CounterIsExact, MatchInv, NEW r \in Releases, ReadToRelease(r)
    PROVE  CounterIsExact' /\ MatchInv'
  <1> SUFFICES ASSUME ~repeated' PROVE CounterIsExact' /\ MatchInv'
    BY DEF CounterIsExact, MatchInv
  <1>1. /\ ~repeated
        /\ ~(Cardinality(CallsFor(JobOf[r], Releases))
               >= Cardinality(CallsFor(JobOf[r], Acquires) \cap Taken))
    BY DEF ReadToRelease
  <1>2. PICK f : IsMatching(f)
    BY <1>1 DEF MatchInv
  <1>3. Cardinality(CallsFor(JobOf[r], Releases))
          < Cardinality(CallsFor(JobOf[r], Acquires) \cap Taken)
    <2>1. /\ CallsFor(JobOf[r], Releases) \in SUBSET Calls
          /\ CallsFor(JobOf[r], Acquires) \cap Taken \in SUBSET Calls
      BY DEF CallsFor, Calls
    <2>2. /\ IsFiniteSet(CallsFor(JobOf[r], Releases))
          /\ IsFiniteSet(CallsFor(JobOf[r], Acquires) \cap Taken)
      BY <2>1, ConstantsAssumption, FS_Subset
    <2>3. /\ Cardinality(CallsFor(JobOf[r], Releases)) \in Nat
          /\ Cardinality(CallsFor(JobOf[r], Acquires) \cap Taken) \in Nat
      BY <2>2, FS_CardinalityType
    <2> QED
      BY <1>1, <2>3
  <1>4. PICK t \in Taken : JobOf[t] = JobOf[r] /\ \A s \in Begun : f[s] # t
    BY <1>2, <1>3, UnmatchedSlot
  <1>5. /\ pc[r] = "idle" /\ r \notin Begun
        /\ pc' = [pc EXCEPT ![r] = IF used > 0 THEN "counted" ELSE "decremented"]
        /\ used' = used
    BY DEF ReadToRelease, Goes, Begun
  <1>6. Begun' = Begun \cup {r} /\ Taken' = Taken
    BY <1>5, ConstantsAssumption DEF TypeOK, Begun, Taken, Calls, HasSlot
  <1>7. MatchInv'
    <2> DEFINE g == [s \in Begun \cup {r} |-> IF s = r THEN t ELSE f[s]]
    <2>1. IsMatching(g)'
      BY <1>2, <1>4, <1>5, <1>6 DEF IsMatching
    <2> QED
      BY <2>1 DEF MatchInv
  <1>8. used > 0
    <2>1. Cardinality(Begun \cup {r}) = Cardinality(Begun) + 1
      BY <1>5, CountsFinite, FS_AddElement
    <2>2. Cardinality(Begun') <= Cardinality(Taken')
      <3>1. PICK g : IsMatching(g)'
        BY <1>1, <1>7 DEF MatchInv, ReadToRelease
      <3>2. g \in Injection(Begun', Taken')
        BY <3>1 DEF IsMatching, Injection, IsInjective
      <3> QED
        BY <1>6, <3>2, CountsFinite, FS_Injection
    <2>3. Cardinality(Freed) <= Cardinality(Begun)
      BY CountsFinite, FS_Subset
    <2>4. used = Cardinality(Taken) - Cardinality(Freed)
      BY <1>1 DEF CounterIsExact
    <2> QED
      BY <1>6, <2>1, <2>2, <2>3, <2>4, CountsFinite
  <1>9. Freed' = Freed
    BY <1>5, <1>8, ConstantsAssumption DEF TypeOK, Freed, Calls, HasFreed
  <1>10. CounterIsExact'
    BY <1>1, <1>5, <1>6, <1>9 DEF CounterIsExact
  <1> QED
    BY <1>7, <1>10

LEMMA CounterStep ==
    ASSUME TypeOK, CounterIsExact, MatchInv, [Next]_vars
    PROVE  CounterIsExact' /\ MatchInv'
  <1> USE ConstantsAssumption DEF TypeOK, Calls
  <1>1. CASE UNCHANGED vars
    <2>1. UNCHANGED <<pc, used, repeated>>
      BY <1>1 DEF vars
    <2> QED
      BY <2>1, CountsUntouched DEF Taken, Freed, Begun
  <1>2. ASSUME NEW a \in Acquires, Increment(a), a \notin dirty
        PROVE  CounterIsExact' /\ MatchInv'
    <2>1. /\ pc[a] = "below" /\ pc' = [pc EXCEPT ![a] = "incremented"]
          /\ used' = used + 1 /\ repeated' = repeated
      BY <1>2 DEF Increment, Goes
    <2>2. a \notin Taken /\ Taken' = Taken \cup {a}
      BY <2>1 DEF Taken, HasSlot
    <2>3. Freed' = Freed /\ Begun' = Begun
      BY <2>1 DEF Freed, Begun
    <2> QED
      BY <2>1, <2>2, <2>3, SlotTaken
  <1>3. ASSUME NEW a \in Acquires, UNCHANGED <<used, repeated>>,
               \A c \in Calls \ {a} : pc'[c] = pc[c],
               pc'[a] \in HasSlot <=> pc[a] \in HasSlot
        PROVE  CounterIsExact' /\ MatchInv'
    <2>1. \A r \in Releases : pc'[r] = pc[r]
      BY <1>3
    <2>2. Taken' = Taken
      <3>1. \A b \in Acquires : pc'[b] \in HasSlot <=> pc[b] \in HasSlot
        BY <1>3
      <3> QED
        BY <3>1, Zenon DEF Taken
    <2>3. Freed' = Freed /\ Begun' = Begun
      BY <2>1 DEF Freed, Begun
    <2> QED
      BY <1>3, <2>2, <2>3, CountsUntouched
  <1>4. ASSUME NEW r \in Releases, ReadToRelease(r)
        PROVE  CounterIsExact' /\ MatchInv'
    BY <1>4, ReleaseBegins
  <1>5. ASSUME NEW r \in Releases, Decrement(r)
        PROVE  CounterIsExact' /\ MatchInv'
    <2>1. /\ pc[r] = "counted" /\ pc' = [pc EXCEPT ![r] = "decremented"]
          /\ used' = used - 1 /\ repeated' = repeated
      BY <1>5 DEF Decrement, Goes
    <2>2. Taken' = Taken /\ Begun' = Begun
      BY <2>1 DEF Taken, Begun
    <2>3. r \notin Freed /\ Freed' = Freed \cup {r}
      BY <2>1 DEF Freed, HasFreed
    <2>4. Cardinality(Freed') = Cardinality(Freed) + 1
      BY <2>3, CountsFinite, FS_AddElement
    <2>5. CounterIsExact'
      BY <2>1, <2>2, <2>4, CountsFinite DEF CounterIsExact
    <2> QED
      BY <2>1, <2>2, <2>5 DEF MatchInv, IsMatching
  <1>6. ASSUME NEW r \in Releases, Unmark(r)
        PROVE  CounterIsExact' /\ MatchInv'
    <2>1. /\ pc[r] = "decremented" /\ pc' = [pc EXCEPT ![r] = "released"]
          /\ UNCHANGED <<used, repeated>>
      BY <1>6 DEF Unmark, Goes
    <2>2. Taken' = Taken /\ Freed' = Freed /\ Begun' = Begun
      BY <2>1 DEF Taken, Freed, Begun, HasFreed
    <2> QED
      BY <2>1, <2>2, CountsUntouched
  <1>7. CASE \/ \E c \in Calls : Die(c)
             \/ \E j \in Jobs : Expire(j)
    <2>1. UNCHANGED <<pc, used, repeated>>
      BY <1>7 DEF Die, Expire
    <2> QED
      BY <2>1, CountsUntouched DEF Taken, Freed, Begun
  <1>8. ASSUME NEW a \in Acquires,
               \/ Push(a) \/ Watch(a) \/ ReadCounter(a) \/ Unqueue(a) \/ Mark(a)
               \/ Deny(a)
        PROVE  CounterIsExact' /\ MatchInv'
    BY <1>3, <1>8 DEF Push, Watch, ReadCounter, Unqueue, Mark, Deny, Goes, HasSlot
  <1>9. ASSUME NEW a \in Acquires, Increment(a) PROVE CounterIsExact' /\ MatchInv'
    <2>1. CASE a \in dirty
      BY <1>3, <1>9, <2>1 DEF Increment, Goes, HasSlot
    <2> QED
      BY <1>2, <1>9, <2>1
  <1> QED
    BY <1>1, <1>4, <1>5, <1>6, <1>7, <1>8, <1>9 DEF Next, Step

\* The counter is what was taken less what was given back, for any number of
\* jobs and calls and through every death and expiry, unless a job is released
\* more often than it acquired.
THEOREM CounterStaysExact == Spec => []CounterIsExact
  <1>1. Init => CounterIsExact /\ MatchInv
    <2> SUFFICES ASSUME Init PROVE CounterIsExact /\ MatchInv
      OBVIOUS
    <2>1. Taken = {} /\ Freed = {} /\ Begun = {}
      BY DEF Init, Taken, Freed, Begun, HasSlot, HasFreed, Calls
    <2>2. CounterIsExact
      BY <2>1, FS_EmptySet DEF Init, CounterIsExact
    <2>3. IsMatching([r \in {} |-> r])
      BY <2>1 DEF IsMatching
    <2> QED
      BY <2>2, <2>3 DEF MatchInv
  <1>2. TypeOK /\ CounterIsExact /\ MatchInv /\ [Next]_vars
            => (CounterIsExact /\ MatchInv)'
    BY CounterStep
  <1> QED
    BY <1>1, <1>2, TypeCorrect, PTL DEF Spec

-------------------------------------------------------------------------------
(* The order in a list: no list command moves two entries past each other.    *)

\* In q every job of the one set stands in front of every job of the other.
Before(q, front, back) ==
    \A m, n \in DOMAIN q : q[m] \in back /\ q[n] \in front => n < m

LEMMA BeforeAppend ==
    ASSUME NEW q \in Seq(Jobs), NEW k \in Jobs, NEW front, NEW back,
           Before(q, front, back), k \notin front
    PROVE  Before(Append(q, k), front, back)
  <1> SUFFICES ASSUME NEW m \in 1..(Len(q) + 1), NEW n \in 1..(Len(q) + 1),
                      Append(q, k)[m] \in back, Append(q, k)[n] \in front
               PROVE  n < m
    BY DEF Before
  <1>1. n \in 1..Len(q)
    OBVIOUS
  <1> QED
    BY <1>1 DEF Before

LEMMA BeforeCons ==
    ASSUME NEW q \in Seq(Jobs), NEW k \in Jobs, NEW front, NEW back,
           Before(q, front, back), k \notin back
    PROVE  Before(Cons(k, q), front, back)
  <1> DEFINE r == Cons(k, q)
  <1>1. /\ Len(r) = Len(q) + 1 /\ r \in Seq(Jobs) /\ r[1] = k
        /\ \A i \in 1..Len(q) : r[i + 1] = q[i]
    BY DEF Cons
  <1> HIDE DEF r
  <1> SUFFICES ASSUME NEW m \in 1..(Len(q) + 1), NEW n \in 1..(Len(q) + 1),
                      r[m] \in back, r[n] \in front
               PROVE  n < m
    BY <1>1 DEF Before, r
  <1>2. m - 1 \in 1..Len(q) /\ r[m] = q[m - 1]
    BY <1>1
  <1>3. CASE n = 1
    BY <1>2, <1>3
  <1>4. CASE n # 1
    <2>1. n - 1 \in 1..Len(q) /\ r[n] = q[n - 1]
      BY <1>1, <1>4
    <2>2. n - 1 < m - 1
      BY <1>2, <2>1 DEF Before
    <2> QED
      BY <2>2
  <1> QED
    BY <1>3, <1>4

LEMMA BeforeRemoveFirst ==
    ASSUME NEW q \in Seq(Jobs), NEW j, NEW front, NEW back, Before(q, front, back)
    PROVE  Before(RemoveFirst(q, j), front, back)
  <1>1. CASE ~\E i \in 1..Len(q) : q[i] = j
    BY <1>1 DEF RemoveFirst
  <1>2. CASE \E i \in 1..Len(q) : q[i] = j
    <2>1. PICK k \in 1..Len(q) : RemoveFirst(q, j) = RemoveAt(q, k)
      BY <1>2, RemovedAt
    <2> DEFINE r == RemoveAt(q, k)
               old == [i \in 1..(Len(q) - 1) |-> IF i < k THEN i ELSE i + 1]
    <2>2. /\ Len(r) = Len(q) - 1 /\ r \in Seq(Jobs)
          /\ \A i \in 1..(Len(q) - 1) : r[i] = q[old[i]]
      BY RemoveAtPlaces
    <2>3. /\ \A i \in 1..(Len(q) - 1) : old[i] \in 1..Len(q)
          /\ \A m, n \in 1..(Len(q) - 1) : old[n] < old[m] => n < m
      OBVIOUS
    <2> HIDE DEF r, old
    <2>4. Before(r, front, back)
      BY <2>2, <2>3 DEF Before
    <2> QED
      BY <2>1, <2>4 DEF r
  <1> QED
    BY <1>1, <1>2

\* The jobs that only ever came as a retry, and those that never did.
OnlyRetries == {j \in Jobs : CallsFor(j, Acquires) \subseteq retries}
NeverRetried == {j \in Jobs : CallsFor(j, Acquires) \cap retries = {}}

RetriesInv ==
    /\ \A a \in retries : pc[a] # "idle"
    /\ \A t \in Tenants : Before(queue[t], NeverRetried, OnlyRetries)

\* Jobs leave the two sets and never come into them.
LEMMA BeforeShrinks ==
    ASSUME NEW q, NEW front, NEW back, Before(q, front, back),
           NEW fewer \in SUBSET front, NEW less \in SUBSET back
    PROVE  Before(q, fewer, less)
  BY DEF Before

LEMMA RetriesStep ==
    ASSUME TypeOK, RetriesInv, [Next]_vars
    PROVE  RetriesInv'
  <1> USE ConstantsAssumption DEF TypeOK, Calls
  <1>1. ASSUME UNCHANGED retries, \A j \in Jobs : CallsFor(j, Acquires)' = CallsFor(j, Acquires)
        PROVE  OnlyRetries' = OnlyRetries /\ NeverRetried' = NeverRetried
    BY <1>1 DEF OnlyRetries, NeverRetried
  <1>2. ASSUME NEW a \in Acquires, Push(a) PROVE RetriesInv'
    <2> DEFINE b == JobOf[a]
    <2>1. b \in Jobs /\ QueueOf(a) \in Tenants
      BY DEF QueueOf
    <2>2. PICK retry \in BOOLEAN :
            /\ queue' = [queue EXCEPT ![QueueOf(a)] = Pushed(@, b, retry)]
            /\ retries' = IF retry THEN retries \cup {a} ELSE retries
      BY <1>2 DEF Push
    <2>3. pc[a] = "idle" /\ pc' = [pc EXCEPT ![a] = "pushed"]
      BY <1>2 DEF Push, Goes
    <2>4. a \notin retries /\ \A c \in retries' : pc'[c] # "idle"
      BY <2>2, <2>3 DEF RetriesInv
    <2>5. \A j \in Jobs :
            CallsFor(j, Acquires)' = IF j = b THEN CallsFor(j, Acquires) \cup {a}
                                     ELSE CallsFor(j, Acquires)
      BY <2>3 DEF CallsFor
    <2>6. \A j \in Jobs : a \notin CallsFor(j, Acquires)
      BY <2>3 DEF CallsFor
    <2> HIDE DEF b
    <2>7. OnlyRetries' \subseteq OnlyRetries /\ NeverRetried' \subseteq NeverRetried
      BY <2>2, <2>5, <2>6 DEF OnlyRetries, NeverRetried
    <2>8. IF retry THEN b \notin NeverRetried' ELSE b \notin OnlyRetries'
      BY <2>1, <2>2, <2>4, <2>5 DEF OnlyRetries, NeverRetried
    <2>9. ASSUME NEW t \in Tenants
          PROVE  Before(queue'[t], NeverRetried', OnlyRetries')
      <3>1. Before(queue[t], NeverRetried', OnlyRetries')
        BY <2>7, BeforeShrinks DEF RetriesInv
      <3>2. queue[t] \in Seq(Jobs)
        OBVIOUS
      <3>3. CASE t # QueueOf(a)
        BY <2>1, <2>2, <3>1, <3>3
      <3>4. CASE t = QueueOf(a)
        <4>1. queue'[t] = IF retry THEN Append(queue[t], b) ELSE Cons(b, queue[t])
          BY <2>1, <2>2, <3>4 DEF Pushed
        <4>2. CASE retry
          BY <2>1, <2>8, <3>1, <3>2, <4>1, <4>2, BeforeAppend
        <4>3. CASE ~retry
          BY <2>1, <2>8, <3>1, <3>2, <4>1, <4>3, BeforeCons
        <4> QED
          BY <4>2, <4>3
      <3> QED
        BY <3>3, <3>4
    <2> QED
      BY <2>4, <2>9 DEF RetriesInv
  <1>3. ASSUME NEW a \in Acquires, Unqueue(a) PROVE RetriesInv'
    <2>1. /\ queue' = [queue EXCEPT ![QueueOf(a)] = RemoveFirst(@, JobOf[a])]
          /\ pc[a] = "incremented" /\ pc' = [pc EXCEPT ![a] = "unqueued"]
          /\ UNCHANGED retries
      BY <1>3 DEF Unqueue, Goes
    <2>2. OnlyRetries' = OnlyRetries /\ NeverRetried' = NeverRetried
      BY <1>1, <2>1 DEF CallsFor
    <2>3. \A c \in retries' : pc'[c] # "idle"
      BY <2>1 DEF RetriesInv
    <2>4. ASSUME NEW t \in Tenants
          PROVE  Before(queue'[t], NeverRetried, OnlyRetries)
      <3>1. queue[t] \in Seq(Jobs) /\ Before(queue[t], NeverRetried, OnlyRetries)
        BY DEF RetriesInv
      <3>2. queue'[t] \in {queue[t], RemoveFirst(queue[t], JobOf[a])}
        BY <2>1
      <3> QED
        BY <3>1, <3>2, BeforeRemoveFirst
    <2> QED
      BY <2>2, <2>3, <2>4 DEF RetriesInv
  <1>4. ASSUME UNCHANGED <<queue, retries>>,
               \A a \in Acquires : pc[a] = "idle" <=> pc'[a] = "idle"
        PROVE  RetriesInv'
    <2>1. OnlyRetries' = OnlyRetries /\ NeverRetried' = NeverRetried
      BY <1>1, <1>4 DEF CallsFor
    <2> QED
      BY <1>4, <2>1 DEF RetriesInv
  <1>5. ASSUME NEW a \in Acquires,
               Watch(a) \/ ReadCounter(a) \/ Increment(a) \/ Mark(a) \/ Deny(a)
        PROVE  RetriesInv'
    BY <1>4, <1>5 DEF Watch, ReadCounter, Increment, Mark, Deny, Goes
  <1>6. ASSUME NEW r \in Releases, ReadToRelease(r) \/ Decrement(r) \/ Unmark(r)
        PROVE  RetriesInv'
    BY <1>4, <1>6 DEF ReadToRelease, Decrement, Unmark, Goes
  <1>7. CASE \/ \E c \in Calls : Die(c)
             \/ \E j \in Jobs : Expire(j)
             \/ UNCHANGED vars
    BY <1>4, <1>7 DEF Die, Expire, vars
  <1> QED
    BY <1>2, <1>3, <1>5, <1>6, <1>7 DEF Next, Step

\* In lists of any length a job that only ever came as a retry stands behind every
\* job that never did; of who is granted a slot the lists say nothing.
THEOREM RetriesAlwaysBehind == Spec => []RetriesStandBehind
  <1>1. Init => RetriesInv
    BY DEF Init, RetriesInv, Before
  <1>2. TypeOK /\ RetriesInv /\ [Next]_vars => RetriesInv'
    BY RetriesStep
  <1>3. TypeOK /\ RetriesInv => RetriesStandBehind
    <2> SUFFICES ASSUME TypeOK, RetriesInv, NEW t \in Tenants,
                        NEW m \in DOMAIN queue[t], NEW n \in DOMAIN queue[t],
                        CallsFor(queue[t][m], Acquires) \subseteq retries,
                        CallsFor(queue[t][n], Acquires) \cap retries = {}
                 PROVE  n < m
      BY DEF RetriesStandBehind
    <2>1. queue[t][m] \in Jobs /\ queue[t][n] \in Jobs
      BY DEF TypeOK
    <2> QED
      BY <2>1 DEF RetriesInv, Before, OnlyRetries, NeverRetried
  <1> QED
    BY <1>1, <1>2, <1>3, TypeCorrect, PTL DEF Spec

-------------------------------------------------------------------------------
(* How long the loop of an acquiring call lasts.  With the fairness of        *)
(* FairSpec this is why EveryCallEnds holds: a call only goes back when it is *)
(* dirty, and it only becomes dirty when another call writes the counter.     *)

\* The calls that may still write the counter.
ToWrite == {c \in Calls : pc[c] \in {"idle", "pushed", "watched", "below", "counted"}}

\* How far a call has come.
Place(at) ==
    CASE at = "idle" -> 0
      [] at \in {"pushed", "counted"} -> 1
      [] at = "watched" -> 2
      [] at \in {"below", "full"} -> 3
      [] at \in {"denied", "incremented", "decremented"} -> 4
      [] at \in {"unqueued", "released"} -> 5
      [] OTHER -> 6

\* A call goes forward, or back to its WATCH because it was dirty, which it then
\* is no more.
Advances(c) ==
    \/ pc'[c] = pc[c]
    \/ Place(pc'[c]) > Place(pc[c])
    \/ pc'[c] = "pushed" /\ c \in dirty /\ c \notin dirty'

LoopsEnd ==
    /\ \A c \in Calls : Advances(c)
    /\ ToWrite' \subseteq ToWrite
    /\ dirty' \subseteq dirty \/ ToWrite' # ToWrite

LEMMA PlaceValues ==
    /\ Place("idle") = 0 /\ Place("pushed") = 1 /\ Place("counted") = 1
    /\ Place("watched") = 2 /\ Place("below") = 3 /\ Place("full") = 3
    /\ Place("denied") = 4 /\ Place("incremented") = 4
    /\ Place("decremented") = 4 /\ Place("unqueued") = 5
    /\ Place("released") = 5 /\ Place("granted") = 6
  BY DEF Place

\* What a call that goes somewhere does to the others: nothing.
LEMMA GoesAlone ==
    ASSUME TypeOK, NEW c \in Calls, NEW from, NEW to, Goes(c, from, to)
    PROVE  /\ pc[c] = from /\ pc'[c] = to
           /\ \A d \in Calls \ {c} : pc'[d] = pc[d]
  BY DEF Goes, TypeOK

\* A call that goes further on and does not write the counter.
LEMMA GoesForward ==
    ASSUME TypeOK, NEW c \in Calls, NEW from, NEW to, Goes(c, from, to),
           Place(to) > Place(from), dirty' \subseteq dirty,
           from \in {"idle", "pushed", "watched", "below", "counted"} \/
              to \notin {"idle", "pushed", "watched", "below", "counted"}
    PROVE  LoopsEnd
  <1>1. \A d \in Calls : Advances(d)
    BY GoesAlone DEF Advances
  <1>2. ToWrite' \subseteq ToWrite
    BY GoesAlone DEF ToWrite
  <1> QED
    BY <1>1, <1>2 DEF LoopsEnd

\* A call that writes the counter, which it does not do again.
LEMMA WritesOnce ==
    ASSUME TypeOK, NEW c \in Calls, NEW from \in {"below", "counted"},
           NEW to \in {"incremented", "decremented"}, Goes(c, from, to)
    PROVE  LoopsEnd
  <1>1. \A d \in Calls : Advances(d)
    BY GoesAlone, PlaceValues DEF Advances
  <1>2. ToWrite' \subseteq ToWrite /\ c \in ToWrite /\ c \notin ToWrite'
    BY GoesAlone DEF ToWrite
  <1> QED
    BY <1>1, <1>2 DEF LoopsEnd

LEMMA LoopsStep == TypeOK /\ [Next]_vars => LoopsEnd
  <1> SUFFICES ASSUME TypeOK, [Next]_vars PROVE LoopsEnd
    OBVIOUS
  <1> USE DEF Calls
  <1>1. CASE UNCHANGED <<pc, dirty>>
    BY <1>1 DEF LoopsEnd, Advances, ToWrite
  <1>2. ASSUME NEW a \in Acquires, Push(a) PROVE LoopsEnd
    <2>1. Goes(a, "idle", "pushed") /\ dirty' = dirty
      BY <1>2 DEF Push
    <2> QED
      BY <2>1, PlaceValues, GoesForward
  <1>3. ASSUME NEW a \in Acquires, Watch(a) PROVE LoopsEnd
    <2>1. Goes(a, "pushed", "watched") /\ dirty' = dirty
      BY <1>3 DEF Watch
    <2> QED
      BY <2>1, PlaceValues, GoesForward
  <1>4. ASSUME NEW a \in Acquires, ReadCounter(a) PROVE LoopsEnd
    <2>1. PICK to \in {"below", "full"} :
              Goes(a, "watched", to) /\ dirty' \subseteq dirty
      BY <1>4 DEF ReadCounter
    <2>2. Place(to) > Place("watched")
      BY PlaceValues
    <2> QED
      BY <2>1, <2>2, GoesForward
  <1>5. ASSUME NEW a \in Acquires, Increment(a) PROVE LoopsEnd
    <2>1. CASE a \in dirty
      <3>1. Goes(a, "below", "pushed") /\ dirty' = dirty \ {a}
        BY <1>5, <2>1 DEF Increment
      <3>2. \A d \in Calls : Advances(d)
        BY <2>1, <3>1, GoesAlone DEF Advances
      <3>3. ToWrite' \subseteq ToWrite
        BY <3>1, GoesAlone DEF ToWrite
      <3> QED
        BY <3>1, <3>2, <3>3 DEF LoopsEnd
    <2>2. CASE a \notin dirty
      BY <1>5, <2>2, WritesOnce DEF Increment
    <2> QED
      BY <2>1, <2>2
  <1>6. ASSUME NEW a \in Acquires, Unqueue(a) \/ Mark(a) \/ Deny(a) PROVE LoopsEnd
    <2>1. CASE Goes(a, "incremented", "unqueued") /\ dirty' = dirty
      BY <2>1, PlaceValues, GoesForward
    <2>2. CASE Goes(a, "unqueued", "granted") /\ dirty' = dirty
      BY <2>2, PlaceValues, GoesForward
    <2>3. CASE Goes(a, "full", "denied") /\ dirty' = dirty
      BY <2>3, PlaceValues, GoesForward
    <2> QED
      BY <1>6, <2>1, <2>2, <2>3 DEF Unqueue, Mark, Deny
  <1>7. ASSUME NEW r \in Releases, ReadToRelease(r) PROVE LoopsEnd
    <2>1. PICK to \in {"counted", "decremented"} :
              Goes(r, "idle", to) /\ dirty' = dirty
      BY <1>7 DEF ReadToRelease
    <2>2. Place(to) > Place("idle")
      BY PlaceValues
    <2> QED
      BY <2>1, <2>2, GoesForward
  <1>8. ASSUME NEW r \in Releases, Decrement(r) PROVE LoopsEnd
    BY <1>8, WritesOnce DEF Decrement
  <1>9. ASSUME NEW r \in Releases, Unmark(r) PROVE LoopsEnd
    <2>1. Goes(r, "decremented", "released") /\ dirty' = dirty
      BY <1>9 DEF Unmark
    <2> QED
      BY <2>1, PlaceValues, GoesForward
  <1>10. ASSUME NEW c \in Calls, Die(c) PROVE LoopsEnd
    BY <1>1, <1>10 DEF Die
  <1>11. ASSUME NEW j \in Jobs, Expire(j) PROVE LoopsEnd
    BY <1>1, <1>11 DEF Expire
  <1> QED
    BY <1>1, <1>2, <1>3, <1>4, <1>5, <1>6, <1>7, <1>8, <1>9, <1>10, <1>11
       DEF Next, Step, vars

\* The part of EveryCallEnds that is safety: a call goes back only when it was
\* dirty, a call becomes dirty only in a step in which one of the calls that may
\* still write the counter has written it, and none may write it again.  So an
\* EXEC fails at most once for each of the other calls.
THEOREM CallsDoNotLoop == Spec => [][LoopsEnd]_vars
  <1>1. TypeOK /\ [Next]_vars => [LoopsEnd]_vars
    BY LoopsStep
  <1> QED
    BY <1>1, TypeCorrect, PTL DEF Spec
===============================================================================
