------------------------------ MODULE Ingestion ------------------------------
(***************************************************************************)
(* The ingestion service (services/ingestion/ingestion.py): one process    *)
(* polls a MinIO bucket and, for every object without a row in             *)
(* ingested_docs, cuts the text into chunks, upserts a point for each      *)
(* chunk into the tenant's Qdrant collection and then inserts the row.     *)
(* Users put and replace objects at any time; calls to the three stores    *)
(* fail, and the process dies and is started again.  MinIO lists objects   *)
(* by name; here a poll takes them in any order.                           *)
(*                                                                         *)
(* A text is a name and a number of words; a point holds the words of its  *)
(* chunk.                                                                  *)
(***************************************************************************)
EXTENDS Integers

CONSTANTS
    ObjectKeys,
    Tenants,
    TenantOf,       \* of each key; NoTenant for a key without a prefix
    NoTenant,
    Texts,          \* what users put: [name, words, readable]
    ChunkSize, ChunkOverlap, MinWords,
    MaxPuts,        \* bound of the model on uploads
    MaxFaults       \* bound of the model on failing calls and crashes

ASSUME IngestionAssumption ==
    /\ NoTenant \notin Tenants
    /\ TenantOf \in [ObjectKeys -> Tenants \cup {NoTenant}]
    /\ \A t \in Texts : t.words \in Nat /\ t.readable \in BOOLEAN
    /\ ChunkSize \in Nat \ {0}
    /\ ChunkOverlap \in Nat
    /\ MinWords \in Nat

VARIABLES
    bucket,       \* the text under each key, or NoText
    collections,  \* the tenants with a collection
    indexed,      \* those whose collection has its payload index
    points,       \* of each key: a function from chunk numbers to points
    rows,         \* ingested_docs: the chunk count of each key, or NoRow
    at,           \* where the service is
    todo,         \* the objects of this poll that are still to come
    current,      \* the one it works on
    text,         \* what it downloaded
    puts, faults,
    torn          \* history: of each key, the texts whose points may stand there
                  \* although a fault kept the row from being inserted

service == <<at, todo, current, text>>
stores == <<collections, indexed, points, rows>>
vars == <<bucket, stores, service, puts, faults, torn>>

NoText == [name |-> "none", words |-> 0, readable |-> FALSE]
NoKey == "none"
NoRow == 0

Max2(a, b) == IF a > b THEN a ELSE b

-----------------------------------------------------------------------------
(* chunk_text, for a text of n words numbered from 1.                      *)

Step == Max2(1, ChunkSize - ChunkOverlap)

ChunkCount(n) == IF n < MinWords THEN 0 ELSE (n + Step - 1) \div Step

\* The words of chunk i, counted from 0.
Chunk(n, i) == {w \in 1..n : i * Step < w /\ w <= i * Step + ChunkSize}

-----------------------------------------------------------------------------

Init ==
    /\ bucket = [k \in ObjectKeys |-> NoText]
    /\ collections = {}
    /\ indexed = {}
    /\ points = [k \in ObjectKeys |-> <<>>]
    /\ rows = [k \in ObjectKeys |-> NoRow]
    /\ at = "sleeping"
    /\ todo = {}
    /\ current = NoKey
    /\ text = NoText
    /\ puts = 0
    /\ faults = 0
    /\ torn = [k \in ObjectKeys |-> {}]

Put(k, t) ==
    /\ puts < MaxPuts
    /\ puts' = puts + 1
    /\ bucket' = [bucket EXCEPT ![k] = t]
    /\ UNCHANGED <<stores, service, faults, torn>>

Sleep ==
    /\ at' = "sleeping"
    /\ todo' = {}
    /\ current' = NoKey
    /\ text' = NoText

\* The poll loop goes to the next object, or sleeps.
NextObject ==
    /\ at' = IF todo = {} THEN "sleeping" ELSE "object"
    /\ current' = NoKey
    /\ text' = NoText
    /\ UNCHANGED todo

Poll ==
    /\ at = "sleeping"
    /\ todo' = {k \in ObjectKeys : bucket[k] # NoText}
    /\ at' = IF todo' = {} THEN "sleeping" ELSE "object"
    /\ UNCHANGED <<bucket, stores, current, text, puts, faults, torn>>

\* Slip: nothing is looked up.
CheckRowForgets(k) ==
    /\ at = "object" /\ k \in todo
    /\ todo' = todo \ {k}
    /\ IF TenantOf[k] = NoTenant
       THEN /\ at' = IF todo' = {} THEN "sleeping" ELSE "object"
            /\ UNCHANGED current
       ELSE at' = "download" /\ current' = k
    /\ UNCHANGED <<bucket, stores, text, puts, faults, torn>>

\* An object without a tenant prefix, or with a row, is skipped.
CheckRow(k) ==
    /\ at = "object" /\ k \in todo
    /\ todo' = todo \ {k}
    /\ IF TenantOf[k] = NoTenant \/ rows[k] # NoRow
       THEN /\ at' = IF todo' = {} THEN "sleeping" ELSE "object"
            /\ UNCHANGED current
       ELSE at' = "download" /\ current' = k
    /\ UNCHANGED <<bucket, stores, text, puts, faults, torn>>

\* Slip: a text nobody can parse ends the poll.
DownloadGivesUp ==
    /\ at = "download"
    /\ IF bucket[current].readable
       THEN IF ChunkCount(bucket[current].words) > 0
            THEN /\ text' = bucket[current]
                 /\ at' = "collection"
                 /\ UNCHANGED <<todo, current>>
            ELSE NextObject
       ELSE Sleep
    /\ UNCHANGED <<bucket, stores, puts, faults, torn>>

\* What stands under the key by now is downloaded and parsed.  A text nobody
\* can parse raises, a short one has no chunks: the object is left, without a
\* row, until the next poll.
Download ==
    /\ at = "download"
    /\ IF bucket[current].readable /\ ChunkCount(bucket[current].words) > 0
       THEN /\ text' = bucket[current]
            /\ at' = "collection"
            /\ UNCHANGED <<todo, current>>
       ELSE NextObject
    /\ UNCHANGED <<bucket, stores, puts, faults, torn>>

Collected == collections \cup {TenantOf[current]}

\* Slip: one collection is taken for all.
EnsureCollectionOnce ==
    /\ at = "collection"
    /\ at' = IF collections # {} THEN "upsert" ELSE "index"
    /\ collections' = IF collections # {} THEN collections ELSE Collected
    /\ UNCHANGED <<bucket, indexed, points, rows, todo, current, text, puts, faults, torn>>

EnsureCollection ==
    /\ at = "collection"
    /\ at' = IF TenantOf[current] \in collections THEN "upsert" ELSE "index"
    /\ collections' = Collected
    /\ UNCHANGED <<bucket, indexed, points, rows, todo, current, text, puts, faults, torn>>

CreateIndex ==
    /\ at = "index"
    /\ at' = "upsert"
    /\ indexed' = indexed \cup {TenantOf[current]}
    /\ UNCHANGED <<bucket, collections, points, rows, todo, current, text, puts, faults, torn>>

Point(t, i) == [name |-> t.name, words |-> Chunk(t.words, i - 1)]

\* A point's id is made from the key and the chunk number: a point that is
\* there already is written over, and one that this text has not stays.
Upserted ==
    [points EXCEPT ![current] =
        [i \in DOMAIN @ \cup 1..ChunkCount(text.words) |->
            IF i \in 1..ChunkCount(text.words) THEN Point(text, i) ELSE @[i]]]

\* Slip: an upsert that fails is not noticed.
UpsertSwallows ==
    /\ at = "upsert"
    /\ at' = "insert"
    /\ points' \in {points, Upserted}
    /\ UNCHANGED <<bucket, collections, indexed, rows, todo, current, text, puts, faults, torn>>

Upsert ==
    /\ at = "upsert"
    /\ at' = "insert"
    /\ points' = Upserted
    /\ UNCHANGED <<bucket, collections, indexed, rows, todo, current, text, puts, faults, torn>>

\* ON CONFLICT DO NOTHING.
Inserted ==
    [rows EXCEPT ![current] = IF @ = NoRow THEN ChunkCount(text.words) ELSE @]

\* Slip: an object that was put again meanwhile is left to the next poll.
InsertRowUnlessReplaced ==
    /\ at = "insert"
    /\ rows' = IF bucket[current] = text THEN Inserted ELSE rows
    /\ NextObject
    /\ UNCHANGED <<bucket, collections, indexed, points, puts, faults, torn>>

InsertRow ==
    /\ at = "insert"
    /\ rows' = Inserted
    /\ NextObject
    /\ UNCHANGED <<bucket, collections, indexed, points, puts, faults, torn>>

-----------------------------------------------------------------------------
(* Faults.                                                                 *)

\* A call that raises may have had its effect all the same.
Effect ==
    \/ UNCHANGED stores
    \/ /\ at = "collection"
       /\ collections' = Collected
       /\ UNCHANGED <<indexed, points, rows>>
    \/ /\ at = "index"
       /\ indexed' = indexed \cup {TenantOf[current]}
       /\ UNCHANGED <<collections, points, rows>>
    \/ /\ at = "upsert"
       /\ points' = Upserted
       /\ UNCHANGED <<collections, indexed, rows>>
    \/ /\ at = "insert"
       /\ rows' = Inserted
       /\ UNCHANGED <<collections, indexed, points>>

\* A failing call inside the try is logged, and the next object is taken.
ObjectFails ==
    /\ at \in {"download", "collection", "index", "upsert", "insert"}
    /\ NextObject

\* Between upsert and insert a fault leaves points without a row.
Tears ==
    torn' = IF at \in {"upsert", "insert"}
            THEN [torn EXCEPT ![current] = @ \cup {text}]
            ELSE torn

CallFails ==
    /\ faults < MaxFaults
    /\ faults' = faults + 1
    /\ ObjectFails
    /\ Effect
    /\ Tears
    /\ UNCHANGED <<bucket, puts>>

\* Listing and the look-up of the row stand outside that try: when they fail
\* the poll is over.
PollFails ==
    /\ at = "object"
    /\ faults < MaxFaults
    /\ faults' = faults + 1
    /\ Sleep
    /\ UNCHANGED <<bucket, stores, puts, torn>>

\* The process dies, perhaps after a call it made has had its effect.
Crash ==
    /\ at # "sleeping"
    /\ faults < MaxFaults
    /\ faults' = faults + 1
    /\ Sleep
    /\ Effect
    /\ Tears
    /\ UNCHANGED <<bucket, puts>>

ServiceStep ==
    \/ Poll
    \/ \E k \in todo : CheckRow(k)
    \/ Download
    \/ EnsureCollection
    \/ CreateIndex
    \/ Upsert
    \/ InsertRow

Next ==
    \/ \E k \in ObjectKeys, t \in Texts : Put(k, t)
    \/ ServiceStep
    \/ CallFails
    \/ PollFails
    \/ Crash

Spec == Init /\ [][Next]_vars

\* The container restarts the process, and poll_loop never ends.
FairSpec == Spec /\ WF_vars(ServiceStep)

-----------------------------------------------------------------------------
(* Properties.                                                             *)

\* An index belongs to a collection, and the service works on an object with a
\* tenant whose text has chunks when it writes.
TypeOK ==
    /\ bucket \in [ObjectKeys -> Texts \cup {NoText}]
    /\ collections \subseteq Tenants
    /\ indexed \subseteq collections
    /\ rows \in [ObjectKeys -> Nat]
    /\ at \in {"sleeping", "object", "download", "collection", "index",
               "upsert", "insert"}
    /\ at = "object" => todo # {}
    /\ at \notin {"sleeping", "object"} => current \in ObjectKeys
    /\ at \in {"collection", "index", "upsert", "insert"} =>
          ChunkCount(text.words) > 0
    /\ at = "upsert" => TenantOf[current] \in collections

\* A document that has its row can be found by every word it had: the points its
\* row counts were all cut from one text and together hold all of it, whatever
\* died or was replaced on the way (upsert before insert, chunk_text).  Behind
\* them others may stand, see LeftoversAreTorn.
RowsAreComplete ==
    \A k \in ObjectKeys : rows[k] # NoRow =>
        /\ 1..rows[k] \subseteq DOMAIN points[k]
        /\ \E t \in Texts :
              /\ \A i \in 1..rows[k] : points[k][i].name = t.name
              /\ UNION {points[k][i].words : i \in 1..rows[k]} = 1..t.words

\* Nothing ever deletes a point: when the service fails or dies between upsert and
\* insert and the object is replaced by a shorter one, the longer text's last points
\* stay, and a search finds them under a document that does not hold them.  That is
\* the only way: whatever stands behind the points a row counts is a chunk of a text
\* whose ingestion was torn there, and no upload alone, however timed, leaves any.
LeftoversAreTorn ==
    \A k \in ObjectKeys : rows[k] # NoRow =>
        \A i \in DOMAIN points[k] \ 1..rows[k] :
            \E t \in torn[k] : i \in 1..ChunkCount(t.words) /\ points[k][i] = Point(t, i)

\* What was ingested once stays as it is: a key that is put again is not read
\* again, and its points are written no more (the look-up of the row).
IngestedOnce ==
    [][\A k \in ObjectKeys : rows[k] # NoRow =>
          rows'[k] = rows[k] /\ points'[k] = points[k]]_vars

\* An object that can be parsed and is long enough is ingested in the end,
\* whichever other objects never can be, and whatever failed or died.
EveryDocumentIsIngested ==
    \A k \in ObjectKeys :
        (/\ TenantOf[k] # NoTenant
         /\ bucket[k].readable
         /\ ChunkCount(bucket[k].words) > 0)
            ~> \/ rows[k] # NoRow
               \/ ~bucket[k].readable
               \/ ChunkCount(bucket[k].words) = 0
=============================================================================
