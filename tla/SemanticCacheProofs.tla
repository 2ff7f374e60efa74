------------------------- MODULE SemanticCacheProofs -------------------------
(***************************************************************************)
(* Proofs about SemanticCache for any tenants, keys, times to live and     *)
(* bounds: the cache implements GatedSharing, because an entry is shared   *)
(* by its own hits only, and a hit is never on an entry whose key has been *)
(* written again, because the dictionary holds the latest entry of a key   *)
(* or none.                                                                *)
(***************************************************************************)
EXTENDS SemanticCache, TLAPS

LEMMA EntryTyped ==
    ASSUME NEW t \in Tenants, NEW k \in Keys, NEW ttl \in TTLs, now \in Nat
    PROVE  /\ NewEntry(t, k, ttl) \in Entry
           /\ NewEntry(t, k, ttl).key = k
           /\ NewEntry(t, k, ttl).tenant = t
           /\ NewEntry(t, k, ttl).hits = 0
           /\ ~NewEntry(t, k, ttl).shared
  <1>1. ttl \in Nat
    BY CacheAssumption
  <1> QED
    BY <1>1 DEF NewEntry, Entry

\* A hit counts, and may share.
LEMMA CountedEntry ==
    ASSUME NEW r \in Entry, NEW shares \in BOOLEAN
    PROVE  LET e == [r EXCEPT !.hits = @ + 1, !.shared = shares]
           IN /\ e \in Entry /\ e.key = r.key /\ e.tenant = r.tenant
              /\ e.hits = r.hits + 1 /\ e.shared = shares
  <1> DEFINE e == [r EXCEPT !.hits = @ + 1, !.shared = shares]
  <1>1. e.key = r.key /\ e.tenant = r.tenant /\ e.expires = r.expires
    BY DEF Entry
  <1>2. e.hits = r.hits + 1
    BY DEF Entry
  <1>3. e.shared = shares
    BY Zenon DEF Entry
  <1>4. r.hits + 1 \in Nat
    BY DEF Entry
  <1>5. e \in Entry
    BY <1>4, Zenon DEF Entry
  <1> QED
    BY <1>1, <1>2, <1>3, <1>5

\* What a hit does to the heap.
LEMMA HitStep ==
    ASSUME TypeOK, NEW t \in Tenants \cup {Anyone}, NEW k \in Keys,
           LookupExact(t, k)
    PROVE  /\ place[k] \in 1..Len(heap)
           /\ heap' \in Seq(Entry) /\ Len(heap') = Len(heap)
           /\ \A j \in 1..Len(heap) : j # place[k] => heap'[j] = heap[j]
           /\ heap'[place[k]].key = heap[place[k]].key
           /\ heap'[place[k]].tenant = heap[place[k]].tenant
           /\ heap'[place[k]].hits = heap[place[k]].hits + 1
           /\ heap'[place[k]].shared <=>
                 \/ heap[place[k]].shared
                 \/ heap[place[k]].hits + 1 >= PromoteAt
  <1> DEFINE i == place[k]
             shares == heap[i].shared \/ heap[i].hits + 1 >= PromoteAt
             e == [heap[i] EXCEPT !.hits = @ + 1, !.shared = shares]
  <1>1. i \in 1..Len(heap) /\ heap[i] \in Entry /\ heap \in Seq(Entry)
    BY DEF TypeOK, LookupExact, Found
  <1>2. heap' = [heap EXCEPT ![i] = e]
    BY <1>1 DEF LookupExact, Entry
  <1>3. shares \in BOOLEAN
    BY <1>1 DEF Entry
  <1> HIDE DEF shares
  <1>4. /\ e \in Entry /\ e.key = heap[i].key /\ e.tenant = heap[i].tenant
        /\ e.hits = heap[i].hits + 1
        /\ e.shared = shares
    BY <1>1, <1>3, CountedEntry
  <1> HIDE DEF e, i
  <1>5. /\ heap' \in Seq(Entry) /\ Len(heap') = Len(heap) /\ heap'[i] = e
        /\ \A j \in 1..Len(heap) : j # i => heap'[j] = heap[j]
    BY <1>1, <1>2, <1>4
  <1>6. heap'[i].shared <=> shares
    BY <1>4, <1>5
  <1> QED
    BY <1>1, <1>4, <1>5, <1>6 DEF i, shares

\* Every variable keeps its type, step by step.
LEMMA TypeStep == TypeOK /\ [Next]_vars => TypeOK'
  <1> SUFFICES ASSUME TypeOK, [Next]_vars PROVE TypeOK'
    OBVIOUS
  <1>1. ASSUME NEW t \in Tenants, NEW k \in Keys, NEW ttl \in TTLs,
               NEW gatePassed \in BOOLEAN, Write(t, k, ttl, gatePassed)
        PROVE  TypeOK'
    <2>1. /\ NewEntry(t, k, ttl) \in Entry
          /\ NewEntry(t, k, ttl).key = k
          /\ ~NewEntry(t, k, ttl).shared
      BY EntryTyped DEF TypeOK
    <2> DEFINE e == NewEntry(t, k, ttl)
    <2>2. heap' = Append(heap, e) /\ e \in Entry /\ e.key = k /\ ~e.shared
      BY <1>1, <2>1 DEF Write
    <2> HIDE DEF e
    <2>3. /\ heap' \in Seq(Entry) /\ Len(heap') = Len(heap) + 1
          /\ heap'[Len(heap) + 1] = e
          /\ \A i \in 1..Len(heap) : heap'[i] = heap[i]
      BY <2>2 DEF TypeOK
    <2> QED
      BY <1>1, <2>2, <2>3 DEF Write, TypeOK
  <1>2. ASSUME NEW t \in Tenants \cup {Anyone}, NEW k \in Keys, LookupExact(t, k)
        PROVE  TypeOK'
    <2> DEFINE i == place[k]
    <2>1. /\ i \in 1..Len(heap)
          /\ heap' \in Seq(Entry) /\ Len(heap') = Len(heap)
          /\ \A j \in 1..Len(heap) : j # i => heap'[j] = heap[j]
          /\ heap'[i].key = heap[i].key
          /\ heap'[i].hits = heap[i].hits + 1
          /\ heap'[i].shared =>
                heap[i].shared \/ heap[i].hits + 1 >= PromoteAt
      BY <1>2, HitStep
    <2>2. /\ UNCHANGED <<place, now>>
          /\ served' = IF t = Anyone THEN served ELSE served \cup {<<t, i>>}
      BY <1>2 DEF LookupExact
    <2>3. heap[i].hits \in Nat
      <3>1. heap[i] \in Entry
        BY <2>1 DEF TypeOK
      <3> QED
        BY <3>1 DEF Entry
    <2> HIDE DEF i
    <2>4. served' \subseteq Tenants \X (1..Len(heap'))
      BY <2>1, <2>2 DEF TypeOK
    <2>5. ASSUME NEW j \in 1..Len(heap'), heap'[j].shared
          PROVE  heap'[j].hits >= PromoteAt
      <3>1. CASE j = i
        BY <2>1, <2>3, <2>5, <3>1, CacheAssumption DEF TypeOK
      <3>2. CASE j # i
        BY <2>1, <2>5, <3>2 DEF TypeOK
      <3> QED
        BY <3>1, <3>2
    <2>6. ASSUME NEW q \in Keys, place'[q] # 0 PROVE heap'[place'[q]].key = q
      BY <2>1, <2>2, <2>6 DEF TypeOK
    <2>7. heap' \in Seq(Entry) /\ place' \in [Keys -> 0..Len(heap')] /\ now' \in Nat
      BY <2>1, <2>2 DEF TypeOK
    <2> QED
      BY <2>4, <2>5, <2>6, <2>7 DEF TypeOK
  <1>3. ASSUME NEW t \in Tenants \cup {Anyone}, NEW k \in Keys, Miss(t, k)
        PROVE  TypeOK'
    BY <1>3 DEF Miss, TypeOK
  <1>4. ASSUME NEW k \in Keys, Invalidate(k) PROVE TypeOK'
    BY <1>4 DEF Invalidate, TypeOK
  <1>5. CASE Tick
    BY <1>5 DEF Tick, TypeOK
  <1>6. CASE UNCHANGED vars
    BY <1>6 DEF vars, TypeOK
  <1> QED
    BY <1>1, <1>2, <1>3, <1>4, <1>5, <1>6 DEF Next

\* Every variable of the cache keeps its type, and what it shares has the hits
\* for it.
THEOREM TypeCorrect == Spec => []TypeOK
  <1>1. Init => TypeOK
    BY DEF Init, TypeOK
  <1> QED
    BY <1>1, TypeStep, PTL DEF Spec

-----------------------------------------------------------------------------
(* The refinement.                                                         *)

Owner == [i \in 1..Len(heap) |-> heap[i].tenant]
Reuses == [i \in 1..Len(heap) |-> heap[i].hits]
Shared == {i \in 1..Len(heap) : heap[i].shared}

\* A write stores a result that nobody has reused and nobody shares.
LEMMA WriteStores ==
    ASSUME TypeOK, NEW t \in Tenants, NEW k \in Keys, NEW ttl \in TTLs,
           NEW gatePassed \in BOOLEAN, Write(t, k, ttl, gatePassed)
    PROVE  Sharing!Store(t)
  <1> DEFINE e == NewEntry(t, k, ttl)
  <1>1. heap' = Append(heap, e) /\ UNCHANGED served
    BY DEF Write
  <1>2. e \in Entry /\ e.tenant = t /\ e.hits = 0 /\ ~e.shared
    BY EntryTyped DEF TypeOK
  <1>3. heap \in Seq(Entry)
    BY DEF TypeOK
  <1> HIDE DEF e
  <1>4. /\ Len(heap') = Len(heap) + 1 /\ heap'[Len(heap) + 1] = e
        /\ \A i \in 1..Len(heap) : heap'[i] = heap[i]
    BY <1>1, <1>2, <1>3
  <1>5. Owner' = Append(Owner, t)
    BY <1>2, <1>3, <1>4 DEF Owner
  <1>6. Reuses' = Append(Reuses, 0)
    BY <1>2, <1>3, <1>4 DEF Reuses
  <1>7. Shared' = Shared
    BY <1>2, <1>3, <1>4 DEF Shared
  <1> QED
    BY <1>1, <1>5, <1>6, <1>7 DEF Sharing!Store, Owner, Reuses, Shared

\* A hit uses the entry found, for a tenant that may see it.
LEMMA HitUses ==
    ASSUME TypeOK, NEW t \in Tenants \cup {Anyone}, NEW k \in Keys,
           LookupExact(t, k)
    PROVE  \E i \in DOMAIN Owner : Sharing!Use(i)
  <1>0. PICK i \in 1..Len(heap) : i = place[k]
    BY HitStep
  <1>1. /\ heap \in Seq(Entry)
        /\ heap' \in Seq(Entry) /\ Len(heap') = Len(heap)
        /\ \A j \in 1..Len(heap) : j # i => heap'[j] = heap[j]
        /\ heap'[i].tenant = heap[i].tenant
        /\ heap'[i].hits = heap[i].hits + 1
        /\ heap'[i].shared <=>
              heap[i].shared \/ heap[i].hits + 1 >= PromoteAt
    BY <1>0, HitStep DEF TypeOK
  <1>2. /\ Visible(t, heap[i])
        /\ served' = IF t = Anyone THEN served ELSE served \cup {<<t, i>>}
    BY <1>0 DEF LookupExact
  <1>3. Owner' = Owner
    BY <1>1 DEF Owner
  <1>4. Reuses' = [Reuses EXCEPT ![i] = @ + 1] /\ Reuses'[i] = heap[i].hits + 1
    BY <1>1 DEF Reuses
  <1>5. Shared' = IF heap'[i].shared THEN Shared \cup {i} ELSE Shared
    BY <1>1 DEF Shared
  <1>6. Shared' # Shared => Reuses'[i] >= PromoteAt
    BY <1>1, <1>4, <1>5 DEF Shared
  <1>7. t # Anyone => t \in Tenants /\ (t = Owner[i] \/ i \in Shared)
    BY <1>1, <1>2 DEF Visible, Owner, Shared
  <1>8. served' \in {served} \cup
          {served \cup {<<u, i>>} :
              u \in {u \in Tenants : u = Owner[i] \/ i \in Shared}}
    BY <1>2, <1>7
  <1>9. i \in DOMAIN Owner
    BY <1>1 DEF Owner
  <1>10. /\ Reuses' \in {Reuses, [Reuses EXCEPT ![i] = @ + 1]}
         /\ Shared' \in {Shared, Shared \cup {i}}
    BY <1>4, <1>5
  <1>11. Sharing!Use(i)
    BY <1>3, <1>6, <1>8, <1>10, Zenon DEF Sharing!Use, Owner, Reuses, Shared
  <1> QED
    BY <1>9, <1>11

LEMMA SharingStep ==
    ASSUME TypeOK, [Next]_vars
    PROVE  [Sharing!Next]_(Sharing!vars)
  <1>1. ASSUME NEW t \in Tenants, NEW k \in Keys, NEW ttl \in TTLs,
               NEW gatePassed \in BOOLEAN, Write(t, k, ttl, gatePassed)
        PROVE  Sharing!Next
    BY <1>1, WriteStores DEF Sharing!Next
  <1>2. ASSUME NEW t \in Tenants \cup {Anyone}, NEW k \in Keys, LookupExact(t, k)
        PROVE  Sharing!Next
    <2>1. \E i \in DOMAIN Owner : Sharing!Use(i)
      BY <1>2, HitUses
    <2> QED
      BY <2>1 DEF Sharing!Next, Owner
  <1>3. CASE UNCHANGED <<heap, served>>
    BY <1>3 DEF Sharing!vars
  <1> QED
    BY <1>1, <1>2, <1>3 DEF Next, Miss, Invalidate, Tick, vars

\* The cache implements GatedSharing: writing over an entry, expiry, eviction
\* and invalidation never give a tenant what it may not see.
THEOREM Refinement == Spec => SharesAsPromised
  <1>1. Init => Sharing!Init
    BY DEF Init, Sharing!Init
  <1> QED
    BY <1>1, SharingStep, TypeCorrect, PTL DEF Spec, SharesAsPromised, Sharing!Spec

-----------------------------------------------------------------------------
(* Currency.                                                               *)

\* The dictionary holds the latest entry of a key, or none.
Latest ==
    \A k \in Keys : place[k] # 0 =>
        \A j \in (place[k] + 1)..Len(heap) : heap[j].key # k

LEMMA LatestStep ==
    ASSUME TypeOK, TypeOK', Latest, [Next]_vars
    PROVE  Latest'
  <1>1. ASSUME NEW t \in Tenants, NEW k \in Keys, NEW ttl \in TTLs,
               NEW gatePassed \in BOOLEAN, Write(t, k, ttl, gatePassed)
        PROVE  Latest'
    <2> DEFINE e == NewEntry(t, k, ttl)
    <2>1. /\ heap' = Append(heap, e) /\ e \in Entry /\ e.key = k
          /\ place' = [place EXCEPT ![k] = Len(heap) + 1]
      BY <1>1, EntryTyped DEF Write, TypeOK
    <2> HIDE DEF e
    <2>2. /\ Len(heap') = Len(heap) + 1 /\ heap'[Len(heap) + 1] = e
          /\ \A i \in 1..Len(heap) : heap'[i] = heap[i]
          /\ Len(heap) \in Nat
      BY <2>1 DEF TypeOK
    <2> SUFFICES ASSUME NEW q \in Keys, place'[q] # 0,
                        NEW j \in (place'[q] + 1)..Len(heap')
                 PROVE  heap'[j].key # q
      BY DEF Latest
    <2>3. CASE q = k
      BY <2>1, <2>2, <2>3 DEF TypeOK
    <2>4. CASE q # k
      <3>1. place'[q] = place[q] /\ place[q] \in 1..Len(heap)
        BY <2>1, <2>4 DEF TypeOK
      <3> QED
        BY <2>1, <2>2, <2>4, <3>1 DEF Latest
    <2> QED
      BY <2>3, <2>4
  <1>2. ASSUME NEW t \in Tenants \cup {Anyone}, NEW k \in Keys, LookupExact(t, k)
        PROVE  Latest'
    <2>1. /\ place' = place /\ Len(heap') = Len(heap) /\ Len(heap) \in Nat
          /\ \A j \in 1..Len(heap) : heap'[j].key = heap[j].key
      BY <1>2, HitStep DEF LookupExact, TypeOK
    <2> QED
      BY <2>1 DEF Latest, TypeOK
  <1>3. CASE UNCHANGED heap /\ \A k \in Keys : place'[k] \in {0, place[k]}
    BY <1>3 DEF Latest
  <1>4. ASSUME NEW t \in Tenants \cup {Anyone}, NEW k \in Keys, Miss(t, k)
        PROVE  Latest'
    BY <1>3, <1>4 DEF Miss, TypeOK
  <1>5. ASSUME NEW k \in Keys, Invalidate(k) PROVE Latest'
    BY <1>3, <1>5 DEF Invalidate, TypeOK
  <1>6. CASE UNCHANGED <<heap, place>>
    BY <1>6 DEF Latest
  <1> QED
    BY <1>1, <1>2, <1>4, <1>5, <1>6 DEF Next, Tick, vars

LEMMA CurrentStep ==
    ASSUME TypeOK, Latest, Next
    PROVE  \A i \in 1..Len(heap) : heap'[i] # heap[i] =>
              /\ ~IsExpired(heap[i])
              /\ \A j \in (i + 1)..Len(heap) : heap[j].key # heap[i].key
  <1> SUFFICES ASSUME NEW i \in 1..Len(heap), heap'[i] # heap[i]
               PROVE  /\ ~IsExpired(heap[i])
                      /\ \A j \in (i + 1)..Len(heap) : heap[j].key # heap[i].key
    OBVIOUS
  <1>1. PICK t \in Tenants \cup {Anyone}, k \in Keys : LookupExact(t, k)
    <2>1. ASSUME NEW t \in Tenants, NEW k \in Keys, NEW ttl \in TTLs,
                 NEW gatePassed \in BOOLEAN, Write(t, k, ttl, gatePassed)
          PROVE  FALSE
      <3>1. heap' = Append(heap, NewEntry(t, k, ttl))
        BY <2>1 DEF Write
      <3> QED
        BY <3>1 DEF TypeOK
    <2> QED
      BY <2>1 DEF Next, Miss, Invalidate, Tick
  <1>2. i = place[k] /\ ~IsExpired(heap[i])
    BY <1>1, HitStep DEF LookupExact, Found
  <1> QED
    BY <1>2 DEF Latest, TypeOK

\* What a look-up returns has not expired and is the last result its key had.
THEOREM HitsStayCurrent == Spec => HitsAreCurrent
  <1>1. Init => TypeOK /\ Latest
    BY DEF Init, TypeOK, Latest
  <1>2. TypeOK /\ Latest /\ [Next]_vars => TypeOK' /\ Latest'
    BY TypeStep, LatestStep
  <1>3. TypeOK /\ Latest /\ [Next]_vars =>
          [\A i \in 1..Len(heap) : heap'[i] # heap[i] =>
              /\ ~IsExpired(heap[i])
              /\ \A j \in (i + 1)..Len(heap) : heap[j].key # heap[i].key]_vars
    BY CurrentStep
  <1> QED
    BY <1>1, <1>2, <1>3, PTL DEF Spec, HitsAreCurrent
=============================================================================
