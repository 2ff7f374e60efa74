--------------------------- MODULE IngestionProofs ---------------------------
(***************************************************************************)
(* Proofs about the ingestion service, for any keys, tenants and texts,    *)
(* any chunk size and any number of uploads and faults.  The inductive     *)
(* invariant says what the service has made sure of by the time it writes: *)
(* the object it works on has no row, and before it inserts one, the       *)
(* points are those of the text it holds.                                  *)
(***************************************************************************)
EXTENDS Ingestion, TLAPS

Working == {"download", "collection", "index", "upsert", "insert"}

\* The first points of key k are the chunks of text t.
Holds(k, t) ==
    \A i \in 1..ChunkCount(t.words) :
        /\ i \in DOMAIN points[k]
        /\ points[k][i] = Point(t, i)

StoresInv ==
    /\ collections \subseteq Tenants
    /\ indexed \subseteq collections
    /\ rows \in [ObjectKeys -> Nat]
    /\ DOMAIN points = ObjectKeys
    /\ \A k \in ObjectKeys : rows[k] # NoRow =>
          \E t \in Texts : rows[k] = ChunkCount(t.words) /\ Holds(k, t)

ServiceInv ==
    /\ at \in Working \cup {"sleeping", "object"}
    /\ todo \subseteq ObjectKeys
    /\ at = "object" => todo # {}
    /\ at \in Working =>
          /\ current \in ObjectKeys
          /\ rows[current] = NoRow
          /\ TenantOf[current] \in Tenants
    /\ at \in Working \ {"download"} =>
          text \in Texts /\ ChunkCount(text.words) > 0
    /\ at \in {"index", "upsert"} => TenantOf[current] \in collections
    /\ at = "insert" => Holds(current, text)

IInv ==
    /\ bucket \in [ObjectKeys -> Texts \cup {NoText}]
    /\ StoresInv
    /\ ServiceInv

-----------------------------------------------------------------------------
(* Chunks.                                                                 *)

LEMMA StepPositive == Step \in Nat \ {0}
  BY IngestionAssumption DEF Step, Max2

LEMMA Division ==
    ASSUME NEW a \in Nat, NEW b \in Nat \ {0}
    PROVE  /\ a \div b \in Nat
           /\ (a \div b) * b <= a
           /\ a < (a \div b) * b + b
  OBVIOUS

LEMMA ChunkCountNat ==
    ASSUME NEW n \in Nat
    PROVE  ChunkCount(n) \in Nat
  <1> DEFINE s == Step
  <1>1. s \in Nat \ {0}
    BY StepPositive
  <1> HIDE DEF s
  <1>2. (n + s - 1) \in Nat
    BY <1>1
  <1>3. (n + s - 1) \div s \in Nat
    BY <1>1, <1>2, Division
  <1> QED
    BY <1>3 DEF ChunkCount, s

LEMMA Cancel ==
    ASSUME NEW a \in Nat, NEW b \in Nat, NEW s \in Nat \ {0}, a * s < b * s
    PROVE  a < b
  <1>1. CASE b <= a
    <2>1. PICK d \in Nat : a = b + d
      BY <1>1
    <2>2. a * s = b * s + d * s /\ d * s \in Nat /\ b * s \in Nat
      BY <2>1
    <2> QED
      BY <2>2
  <1> QED
    BY <1>1

\* The chunks of a text hold all its words.
LEMMA ChunksCover ==
    ASSUME NEW n \in Nat, ChunkCount(n) > 0
    PROVE  UNION {Chunk(n, i - 1) : i \in 1..ChunkCount(n)} = 1..n
  <1> DEFINE s == Step
             c == ChunkCount(n)
  <1>1. s \in Nat \ {0} /\ c \in Nat
    BY StepPositive, ChunkCountNat
  <1>2. s <= ChunkSize \/ s = 1
    BY IngestionAssumption DEF Step, Max2
  <1>3. s <= ChunkSize
    BY <1>1, <1>2, IngestionAssumption
  <1>4. c = (n + s - 1) \div s
    BY DEF ChunkCount
  <1>5. ASSUME NEW w \in 1..n
        PROVE  \E i \in 1..c : w \in Chunk(n, i - 1)
    <2> HIDE DEF s, c
    <2> DEFINE q == (w - 1) \div s
    <2>1. (w - 1) \in Nat /\ (n + s - 1) \in Nat
      BY <1>1
    <2>2. q \in Nat /\ q * s <= w - 1 /\ w - 1 < q * s + s
      BY <1>1, <2>1, Division
    <2>3. n + s - 1 < c * s + s
      BY <1>1, <1>4, <2>1, Division
    <2>4. q * s \in Nat /\ c * s \in Nat
      BY <1>1, <2>2
    <2> HIDE DEF q
    <2>5. q * s < c * s
      BY <1>1, <2>2, <2>3, <2>4
    <2>6. q < c
      BY <1>1, <2>2, <2>5, Cancel
    <2>7. q * s < w /\ w <= q * s + ChunkSize
      BY <1>1, <1>3, <2>2, <2>4, IngestionAssumption
    <2>8. w \in Chunk(n, q)
      BY <2>7 DEF Chunk, s
    <2>9. q + 1 \in 1..c /\ (q + 1) - 1 = q
      BY <1>1, <2>2, <2>6
    <2> QED
      BY <2>8, <2>9
  <1>6. \A i \in 1..c : Chunk(n, i - 1) \subseteq 1..n
    BY DEF Chunk
  <1> QED
    BY <1>5, <1>6

-----------------------------------------------------------------------------
(* The invariant.                                                          *)

LEMMA WordsNat ==
    \A t \in Texts \cup {NoText} : t.words \in Nat /\ ChunkCount(t.words) \in Nat
  BY IngestionAssumption, ChunkCountNat DEF NoText

LEMMA InitInv == Init => IInv
  BY DEF Init, IInv, StoresInv, ServiceInv, Working, NoRow

\* What the calls to the stores do, whether they then return, raise or take the
\* process with them.
LEMMA EffectKeepsStores ==
    ASSUME IInv, Effect, at \in Working \/ UNCHANGED stores
    PROVE  StoresInv'
  <1>1. CASE UNCHANGED stores
    BY <1>1 DEF IInv, StoresInv, Holds, stores
  <1>2. CASE at \in {"collection", "index"} /\ UNCHANGED <<points, rows>>
             /\ collections' \subseteq Tenants /\ indexed' \subseteq collections'
    BY <1>2 DEF IInv, StoresInv, Holds
  <1>3. CASE at = "upsert" /\ points' = Upserted
             /\ UNCHANGED <<collections, indexed, rows>>
    <2>1. current \in ObjectKeys /\ rows[current] = NoRow
      BY <1>3 DEF IInv, ServiceInv, Working
    <2>2. /\ DOMAIN points' = ObjectKeys
          /\ \A k \in ObjectKeys \ {current} : points'[k] = points[k]
      BY <1>3 DEF Upserted, IInv, StoresInv
    <2> QED
      BY <1>3, <2>1, <2>2 DEF IInv, StoresInv, Holds
  <1>4. CASE at = "insert" /\ rows' = Inserted
             /\ UNCHANGED <<collections, indexed, points>>
    <2>1. /\ current \in ObjectKeys /\ rows[current] = NoRow
          /\ text \in Texts /\ Holds(current, text)
      BY <1>4 DEF IInv, ServiceInv, Working
    <2>2. ChunkCount(text.words) \in Nat
      BY <2>1, WordsNat
    <2>3. rows' = [rows EXCEPT ![current] = ChunkCount(text.words)]
      BY <1>4, <2>1 DEF Inserted, IInv, StoresInv
    <2>4. rows' \in [ObjectKeys -> Nat]
      BY <2>1, <2>2, <2>3 DEF IInv, StoresInv
    <2>5. ASSUME NEW k \in ObjectKeys, rows'[k] # NoRow
          PROVE  \E t \in Texts : rows'[k] = ChunkCount(t.words) /\ Holds(k, t)
      BY <2>1, <2>3, <2>5 DEF IInv, StoresInv
    <2> QED
      BY <1>4, <2>4, <2>5 DEF IInv, StoresInv, Holds
  <1> QED
    BY <1>1, <1>2, <1>3, <1>4
       DEF Effect, Collected, IInv, StoresInv, ServiceInv, Working

LEMMA NextObjectRests ==
    ASSUME IInv, NextObject
    PROVE  ServiceInv'
  BY DEF NextObject, IInv, ServiceInv, Working

LEMMA SleepRests ==
    ASSUME IInv, Sleep
    PROVE  ServiceInv'
  BY DEF Sleep, IInv, ServiceInv, Working

LEMMA StepInv == IInv /\ [Next]_vars => IInv'
  <1> SUFFICES ASSUME IInv, [Next]_vars PROVE IInv'
    OBVIOUS
  <1>1. bucket' \in [ObjectKeys -> Texts \cup {NoText}]
    BY DEF IInv, Next, Put, ServiceStep, Poll, CheckRow, Download,
           EnsureCollection, CreateIndex, Upsert, InsertRow, CallFails,
           PollFails, Crash, vars
  <1>2. CASE UNCHANGED <<stores, service>>
    BY <1>1, <1>2 DEF IInv, StoresInv, ServiceInv, Holds, stores, service
  <1>3. CASE Poll
    <2>1. ServiceInv'
      BY <1>3 DEF Poll, IInv, ServiceInv, Working
    <2> QED
      BY <1>1, <1>3, <2>1, EffectKeepsStores DEF Poll, Effect, IInv
  <1>4. ASSUME NEW k \in todo, CheckRow(k) PROVE IInv'
    <2>1. k \in ObjectKeys /\ TenantOf[k] \in Tenants \cup {NoTenant}
      BY IngestionAssumption DEF IInv, ServiceInv
    <2>2. ServiceInv'
      BY <1>4, <2>1 DEF CheckRow, IInv, ServiceInv, Working, stores
    <2> QED
      BY <1>1, <1>4, <2>2, EffectKeepsStores DEF CheckRow, Effect, IInv
  <1>5. CASE Download
    <2>1. UNCHANGED stores
      BY <1>5 DEF Download
    <2>2. CASE bucket[current].readable /\ ChunkCount(bucket[current].words) > 0
      <3>1. at = "download" /\ at' = "collection" /\ text' = bucket[current]
            /\ UNCHANGED <<todo, current, rows>>
        BY <1>5, <2>2 DEF Download, stores
      <3>2. bucket[current] \in Texts
        BY <2>2, <3>1 DEF IInv, ServiceInv, Working, NoText
      <3> QED
        BY <1>1, <2>1, <2>2, <3>1, <3>2, EffectKeepsStores
           DEF Effect, IInv, ServiceInv, Working
    <2>3. CASE NextObject
      BY <1>1, <2>1, <2>3, NextObjectRests, EffectKeepsStores DEF Effect, IInv
    <2> QED
      BY <1>5, <2>2, <2>3 DEF Download
  <1>6. CASE EnsureCollection
    <2>1. Effect /\ at \in Working
      BY <1>6 DEF EnsureCollection, Effect, Working
    <2>2. ServiceInv'
      BY <1>6 DEF EnsureCollection, Collected, IInv, ServiceInv, Working
    <2> QED
      BY <1>1, <2>1, <2>2, EffectKeepsStores DEF IInv
  <1>7. CASE CreateIndex
    <2>1. Effect /\ at \in Working
      BY <1>7 DEF CreateIndex, Effect, Working
    <2>2. ServiceInv'
      BY <1>7 DEF CreateIndex, IInv, ServiceInv, Working
    <2> QED
      BY <1>1, <2>1, <2>2, EffectKeepsStores DEF IInv
  <1>8. CASE Upsert
    <2>1. Effect /\ at \in Working
      BY <1>8 DEF Upsert, Effect, Working
    <2>2. current \in DOMAIN points
      BY <2>1 DEF IInv, StoresInv, ServiceInv
    <2>3. Holds(current, text)'
      BY <1>8, <2>2 DEF Upsert, Upserted, Holds
    <2>4. ServiceInv'
      BY <1>8, <2>3 DEF Upsert, IInv, ServiceInv, Working
    <2> QED
      BY <1>1, <2>1, <2>4, EffectKeepsStores DEF IInv
  <1>9. CASE InsertRow
    <2>1. Effect /\ at \in Working
      BY <1>9 DEF InsertRow, Effect, Working
    <2> QED
      BY <1>1, <1>9, <2>1, EffectKeepsStores, NextObjectRests
         DEF InsertRow, IInv
  <1>10. CASE CallFails
    BY <1>1, <1>10, EffectKeepsStores, NextObjectRests
       DEF CallFails, ObjectFails, IInv, Working
  <1>11. CASE PollFails
    BY <1>1, <1>11, EffectKeepsStores, SleepRests DEF PollFails, Effect, IInv
  <1>12. CASE Crash
    <2>1. at \in Working \/ UNCHANGED stores
      BY <1>12 DEF Crash, Effect, IInv, ServiceInv, Working
    <2> QED
      BY <1>1, <1>12, <2>1, EffectKeepsStores, SleepRests DEF Crash, IInv
  <1> QED
    BY <1>2, <1>3, <1>4, <1>5, <1>6, <1>7, <1>8, <1>9, <1>10, <1>11, <1>12
       DEF Next, ServiceStep, Put, vars

-----------------------------------------------------------------------------
(* Results.                                                                *)

\* Every variable has its type, and the service writes only for an object with
\* a tenant whose text has chunks.
THEOREM TypeCorrect == Spec => []TypeOK
  <1>1. IInv => TypeOK
    BY DEF IInv, StoresInv, ServiceInv, TypeOK, Working
  <1> QED
    BY <1>1, InitInv, StepInv, PTL DEF Spec

\* A document that has its row can be found by every word it had: the points its
\* row counts are the chunks of one text, and they leave no word of it out.
THEOREM RowsStayComplete == Spec => []RowsAreComplete
  <1>1. IInv => RowsAreComplete
    <2> SUFFICES ASSUME IInv, NEW k \in ObjectKeys, rows[k] # NoRow
                 PROVE  /\ 1..rows[k] \subseteq DOMAIN points[k]
                        /\ \E t \in Texts :
                              /\ \A i \in 1..rows[k] : points[k][i].name = t.name
                              /\ UNION {points[k][i].words : i \in 1..rows[k]}
                                    = 1..t.words
      BY DEF RowsAreComplete
    <2>1. PICK t \in Texts : rows[k] = ChunkCount(t.words) /\ Holds(k, t)
      BY DEF IInv, StoresInv
    <2>2. \A i \in 1..rows[k] :
             /\ i \in DOMAIN points[k]
             /\ points[k][i].name = t.name
             /\ points[k][i].words = Chunk(t.words, i - 1)
      <3> TAKE i \in 1..rows[k]
      <3>1. /\ i \in DOMAIN points[k]
            /\ points[k][i] = [name |-> t.name, words |-> Chunk(t.words, i - 1)]
        BY <2>1 DEF Holds, Point
      <3> QED
        BY <3>1
    <2>3. t.words \in Nat /\ ChunkCount(t.words) > 0
      BY <2>1, WordsNat DEF NoRow
    <2>4. UNION {Chunk(t.words, i - 1) : i \in 1..ChunkCount(t.words)}
             = 1..t.words
      BY <2>3, ChunksCover
    <2>5. UNION {points[k][i].words : i \in 1..rows[k]} = 1..t.words
      BY <2>1, <2>2, <2>4
    <2> QED
      BY <2>2, <2>5
  <1> QED
    BY <1>1, InitInv, StepInv, PTL DEF Spec

\* What was ingested once is never read or written again.
THEOREM IngestedStays == Spec => IngestedOnce
  <1>1. IInv /\ [Next]_vars =>
           [\A k \in ObjectKeys : rows[k] # NoRow =>
               rows'[k] = rows[k] /\ points'[k] = points[k]]_vars
    <2> SUFFICES ASSUME IInv, Next, NEW k \in ObjectKeys, rows[k] # NoRow
                 PROVE  rows'[k] = rows[k] /\ points'[k] = points[k]
      OBVIOUS
    <2>1. at \in Working => current # k
      BY DEF IInv, ServiceInv
    <2>2. CASE Effect
      BY <2>1, <2>2
         DEF Effect, stores, Upserted, Inserted, Working, IInv, StoresInv
    <2>3. CASE UNCHANGED stores
      BY <2>3 DEF stores
    <2>4. Effect \/ UNCHANGED stores
      BY DEF Next, Put, ServiceStep, Poll, CheckRow, Download,
             EnsureCollection, CreateIndex, Upsert, InsertRow, CallFails,
             PollFails, Crash, Effect
    <2> QED
      BY <2>2, <2>3, <2>4
  <1> QED
    BY <1>1, InitInv, StepInv, PTL DEF Spec, IngestedOnce

-----------------------------------------------------------------------------
(* Where the points come from.                                             *)

\* Point i of key k is a chunk of text t.
IsChunk(k, i, t) == i \in 1..ChunkCount(t.words) /\ points[k][i] = Point(t, i)

\* Every point is counted by a row, or a chunk of a torn text, or one of the text
\* in hand whose row is about to be inserted.
OriginInv ==
    /\ DOMAIN torn = ObjectKeys
    /\ \A k \in ObjectKeys : \A i \in DOMAIN points[k] :
          \/ i \in 1..rows[k]
          \/ \E t \in torn[k] : IsChunk(k, i, t)
          \/ at = "insert" /\ current = k /\ IsChunk(k, i, text)

\* An upsert, with the text then torn or in hand.
LEMMA UpsertOrigin ==
    ASSUME IInv, OriginInv, at = "upsert", points' = Upserted, UNCHANGED rows,
           DOMAIN torn' = ObjectKeys,
           \A k \in ObjectKeys : torn[k] \subseteq torn'[k],
           \/ text \in torn'[current]
           \/ at' = "insert" /\ UNCHANGED <<current, text>>
    PROVE  OriginInv'
  <1>1. current \in ObjectKeys /\ DOMAIN points = ObjectKeys
    BY DEF IInv, StoresInv, ServiceInv, Working
  <1>2. ASSUME NEW k \in ObjectKeys, NEW i \in DOMAIN points'[k]
        PROVE  \/ i \in 1..rows'[k]
               \/ \E t \in torn'[k] : IsChunk(k, i, t)'
               \/ at' = "insert" /\ current' = k /\ IsChunk(k, i, text)'
    <2>1. CASE k = current /\ i \in 1..ChunkCount(text.words)
      <3>1. points'[k][i] = Point(text, i)
        BY <1>1, <2>1 DEF Upserted
      <3> QED
        BY <2>1, <3>1 DEF IsChunk
    <2>2. CASE ~(k = current /\ i \in 1..ChunkCount(text.words))
      <3>1. i \in DOMAIN points[k] /\ points'[k][i] = points[k][i]
        BY <1>1, <1>2, <2>2 DEF Upserted
      <3> QED
        BY <3>1 DEF OriginInv, IsChunk
    <2> QED
      BY <2>1, <2>2
  <1> QED
    BY <1>2 DEF OriginInv

\* An insert that may or may not have happened, with the text torn if it did not.
LEMMA InsertOrigin ==
    ASSUME IInv, OriginInv, at = "insert", UNCHANGED points, rows' \in {rows, Inserted},
           DOMAIN torn' = ObjectKeys,
           \A k \in ObjectKeys : torn[k] \subseteq torn'[k],
           rows' = Inserted \/ text \in torn'[current]
    PROVE  OriginInv'
  <1>1. current \in ObjectKeys /\ rows[current] = NoRow /\ rows \in [ObjectKeys -> Nat]
    BY DEF IInv, StoresInv, ServiceInv, Working
  <1>2. rows' \in {rows, [rows EXCEPT ![current] = ChunkCount(text.words)]}
    BY <1>1 DEF Inserted
  <1>3. ASSUME NEW k \in ObjectKeys, NEW i \in DOMAIN points'[k]
        PROVE  \/ i \in 1..rows'[k]
               \/ \E t \in torn'[k] : IsChunk(k, i, t)'
    <2>1. CASE i \in 1..rows[k]
      <3>1. k # current
        BY <1>1, <2>1 DEF NoRow
      <3> QED
        BY <1>1, <1>2, <2>1, <3>1
    <2>2. CASE \E t \in torn[k] : IsChunk(k, i, t)
      BY <2>2 DEF IsChunk
    <2>3. CASE current = k /\ IsChunk(k, i, text)
      <3>1. CASE rows' = Inserted
        BY <1>1, <2>3, <3>1 DEF Inserted, IsChunk
      <3>2. CASE text \in torn'[current]
        BY <2>3, <3>2 DEF IsChunk
      <3> QED
        BY <3>1, <3>2
    <2> QED
      BY <1>3, <2>1, <2>2, <2>3 DEF OriginInv
  <1> QED
    BY <1>3 DEF OriginInv

LEMMA OriginStep == IInv /\ OriginInv /\ [Next]_vars => OriginInv'
  <1> SUFFICES ASSUME IInv, OriginInv, [Next]_vars PROVE OriginInv'
    OBVIOUS
  <1>1. ASSUME UNCHANGED <<points, rows, torn>>,
               at = "insert" => UNCHANGED <<at, current, text>>
        PROVE  OriginInv'
    BY <1>1 DEF OriginInv, IsChunk
  <1>2. CASE Upsert
    BY <1>2, UpsertOrigin DEF Upsert, OriginInv
  <1>3. CASE InsertRow
    BY <1>3, InsertOrigin DEF InsertRow, OriginInv
  <1>4. CASE Effect /\ Tears
    <2>1. CASE at \notin {"upsert", "insert"}
      BY <1>1, <1>4, <2>1 DEF Effect, Tears, stores
    <2>2. CASE at \in {"upsert", "insert"}
      <3>1. current \in ObjectKeys
        BY <2>2 DEF IInv, ServiceInv, Working
      <3>2. torn' = [torn EXCEPT ![current] = @ \cup {text}]
        BY <1>4, <2>2 DEF Tears
      <3>3. /\ DOMAIN torn' = ObjectKeys
            /\ \A k \in ObjectKeys : torn[k] \subseteq torn'[k]
            /\ text \in torn'[current]
        BY <3>1, <3>2 DEF OriginInv
      <3>4. CASE at = "upsert" /\ points' = Upserted
        BY <1>4, <3>3, <3>4, UpsertOrigin DEF Effect, stores
      <3>5. CASE at = "upsert" /\ UNCHANGED <<points, rows>>
        BY <3>3, <3>5 DEF OriginInv, IsChunk
      <3>6. CASE at = "insert"
        BY <1>4, <3>3, <3>6, InsertOrigin DEF Effect, stores
      <3> QED
        BY <1>4, <2>2, <3>4, <3>5, <3>6 DEF Effect, stores
    <2> QED
      BY <2>1, <2>2
  <1>5. CASE CallFails \/ Crash
    BY <1>4, <1>5 DEF CallFails, Crash
  <1>6. CASE \/ \E k \in ObjectKeys, t \in Texts : Put(k, t)
             \/ \E k \in todo : CheckRow(k)
             \/ Poll \/ Download \/ EnsureCollection \/ CreateIndex
             \/ PollFails \/ UNCHANGED vars
    BY <1>1, <1>6 DEF Put, CheckRow, Poll, Download, EnsureCollection, CreateIndex,
                      PollFails, vars, stores, service
  <1> QED
    BY <1>2, <1>3, <1>5, <1>6 DEF Next, ServiceStep

\* A point no row counts, of a document that has its row, is a chunk of a text
\* whose ingestion a fault tore between upsert and insert.
THEOREM LeftoversOnlyTorn == Spec => []LeftoversAreTorn
  <1>1. Init => IInv /\ OriginInv
    <2>1. Init => OriginInv
      BY DEF Init, OriginInv
    <2> QED
      BY <2>1, InitInv
  <1>2. IInv /\ OriginInv /\ [Next]_vars => (IInv /\ OriginInv)'
    BY StepInv, OriginStep
  <1>3. IInv /\ OriginInv => LeftoversAreTorn
    <2> SUFFICES ASSUME IInv, OriginInv, NEW k \in ObjectKeys, rows[k] # NoRow,
                        NEW i \in DOMAIN points[k] \ 1..rows[k]
                 PROVE  \E t \in torn[k] : i \in 1..ChunkCount(t.words)
                                            /\ points[k][i] = Point(t, i)
      BY DEF LeftoversAreTorn
    <2>1. ~(at = "insert" /\ current = k)
      BY DEF IInv, ServiceInv, Working
    <2> QED
      BY <2>1 DEF OriginInv, IsChunk
  <1> QED
    BY <1>1, <1>2, <1>3, PTL DEF Spec
=============================================================================
