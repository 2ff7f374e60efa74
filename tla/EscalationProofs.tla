--------------------------- MODULE EscalationProofs ---------------------------
(***************************************************************************)
(* Proofs about Escalation for any jobs, tenants, fingerprints, switches   *)
(* and budgets: the store keeps one record for each fingerprint of a       *)
(* tenant, the memory implements GatedSharing, and a job makes at most one *)
(* commercial call, which the metacognition gate would have allowed too.   *)
(***************************************************************************)
EXTENDS Escalation, FiniteSetTheorems, TLAPS

Places == {"fixing", "failed", "reusing", "asking", "calling", "judging",
           "delivered", "human"}
Job == [at : Places, iteration : Nat, ref : Nat, tries : Nat]

Inv ==
    /\ TypeOK
    /\ job \in [Jobs -> Job]

\* Nothing is counted before a record is made.
LEMMA RecordMade ==
    ASSUME NEW j \in Jobs
    PROVE  /\ NewRecord(j) \in Record
           /\ NewRecord(j).tenant = TenantOf[j]
           /\ NewRecord(j).fingerprint = ProblemOf[j]
           /\ NewRecord(j).reuse_count = 0
           /\ ~NewRecord(j).shared
  BY EscalationAssumption DEF NewRecord, Record

\* A reuse counts, and may share.
LEMMA CountedRecord ==
    ASSUME NEW r \in Record, NEW shares \in BOOLEAN
    PROVE  LET e == [r EXCEPT !.reuse_count = @ + 1, !.shared = shares]
           IN /\ e \in Record /\ e.tenant = r.tenant
              /\ e.fingerprint = r.fingerprint
              /\ e.reuse_count = r.reuse_count + 1 /\ e.shared = shares
  <1> DEFINE e == [r EXCEPT !.reuse_count = @ + 1, !.shared = shares]
  <1>1. e.tenant = r.tenant /\ e.fingerprint = r.fingerprint
    BY DEF Record
  <1>2. e.reuse_count = r.reuse_count + 1
    BY DEF Record
  <1>3. e.shared = shares
    BY Zenon DEF Record
  <1>4. r.reuse_count + 1 \in Nat
    BY DEF Record
  <1>5. e \in Record
    BY <1>4, Zenon DEF Record
  <1> QED
    BY <1>1, <1>2, <1>3, <1>5

\* What a reuse does to the record it finds.
LEMMA ReuseStep ==
    ASSUME Inv, NEW i \in stored, RecordReuse(i)
    PROVE  /\ i \in 1..Len(heap)
           /\ heap' \in Seq(Record) /\ Len(heap') = Len(heap)
           /\ \A k \in 1..Len(heap) : k # i => heap'[k] = heap[k]
           /\ heap'[i].tenant = heap[i].tenant
           /\ heap'[i].fingerprint = heap[i].fingerprint
           /\ heap'[i].reuse_count = heap[i].reuse_count + 1
           /\ heap'[i].shared <=> \/ heap[i].shared
                                  \/ heap[i].reuse_count + 1 >= PromoteAt
  <1> DEFINE shares == heap[i].shared \/ heap[i].reuse_count + 1 >= PromoteAt
             e == [heap[i] EXCEPT !.reuse_count = @ + 1, !.shared = shares]
  <1>1. i \in 1..Len(heap) /\ heap[i] \in Record /\ heap \in Seq(Record)
    BY DEF Inv, TypeOK
  <1>2. heap' = [heap EXCEPT ![i] = e]
    BY <1>1 DEF RecordReuse, Record
  <1>3. shares \in BOOLEAN
    BY <1>1 DEF Record
  <1> HIDE DEF shares
  <1>4. /\ e \in Record /\ e.tenant = heap[i].tenant
        /\ e.fingerprint = heap[i].fingerprint
        /\ e.reuse_count = heap[i].reuse_count + 1 /\ e.shared = shares
    BY <1>1, <1>3, CountedRecord
  <1> HIDE DEF e
  <1>5. /\ heap' \in Seq(Record) /\ Len(heap') = Len(heap) /\ heap'[i] = e
        /\ \A k \in 1..Len(heap) : k # i => heap'[k] = heap[k]
    BY <1>1, <1>2, <1>4
  <1>6. heap'[i].shared <=> shares
    BY <1>4, <1>5
  <1> QED
    BY <1>1, <1>4, <1>5, <1>6 DEF shares

\* What storing does to the heap.
LEMMA StoreStep ==
    ASSUME Inv, NEW j \in Jobs, StoreSuccess(j)
    PROVE  /\ heap' \in Seq(Record) /\ Len(heap') = Len(heap) + 1
           /\ heap'[Len(heap) + 1] = NewRecord(j)
           /\ \A i \in 1..Len(heap) : heap'[i] = heap[i]
  <1>1. NewRecord(j) \in Record /\ heap \in Seq(Record)
    BY RecordMade DEF Inv, TypeOK
  <1> QED
    BY <1>1 DEF StoreSuccess

-----------------------------------------------------------------------------
(* Types.                                                                  *)

\* The records a store lists, one for each fingerprint of a tenant.
OneEach(records, listed) ==
    \A i, k \in listed :
        /\ records[i].tenant = records[k].tenant
        /\ records[i].fingerprint = records[k].fingerprint
        => i = k

LEMMA MovesKeepTypes ==
    ASSUME Inv, UNCHANGED <<heap, stored>>, job' \in [Jobs -> Job],
           \A j \in Jobs : job'[j].ref \in 0..Len(heap),
           used' \subseteq Jobs, budget' \in [Tenants -> Int],
           served' \subseteq Tenants \X (1..Len(heap))
    PROVE  Inv'
  BY DEF Inv, TypeOK

\* A job that moves keeps the record it tries.
LEMMA MoveTyped ==
    ASSUME Inv, NEW j \in Jobs, NEW place \in Places, Move(j, place)
    PROVE  /\ job' \in [Jobs -> Job]
           /\ \A k \in Jobs : job'[k].ref = job[k].ref
  <1>1. /\ job[j] \in Job /\ job \in [Jobs -> Job]
        /\ job' = [job EXCEPT ![j] = [job[j] EXCEPT !.at = place]]
    BY DEF Inv, Move
  <1>2. [job[j] EXCEPT !.at = place] \in Job
    BY <1>1, Zenon DEF Job
  <1>3. [job[j] EXCEPT !.at = place].ref = job[j].ref
    BY <1>1 DEF Job
  <1> QED
    BY <1>1, <1>2, <1>3

LEMMA PaysTyped ==
    ASSUME Inv, NEW j \in Jobs, Pays(j)
    PROVE  budget' \in [Tenants -> Int]
  BY EscalationAssumption DEF Inv, TypeOK, Pays

LEMMA TypeStep == Inv /\ [Next]_vars => Inv'
  <1> SUFFICES ASSUME Inv, [Next]_vars PROVE Inv'
    OBVIOUS
  <1>0. /\ job \in [Jobs -> Job] /\ used \subseteq Jobs
        /\ budget \in [Tenants -> Int]
        /\ served \subseteq Tenants \X (1..Len(heap))
        /\ \A j \in Jobs : job[j].ref \in 0..Len(heap)
        /\ stored \subseteq 1..Len(heap) /\ Len(heap) \in Nat
    BY DEF Inv, TypeOK
  <1>1. ASSUME NEW j \in Jobs, Exhausted(j) PROVE Inv'
    <2>1. PICK n \in 0..MaxFixIterations :
            job' = [job EXCEPT ![j].at = "failed", ![j].iteration = n]
      BY <1>1 DEF Exhausted
    <2> DEFINE s == [job[j] EXCEPT !.at = "failed", !.iteration = n]
    <2>2. job[j] \in Job /\ n \in Nat /\ "failed" \in Places
      BY <1>0, EscalationAssumption DEF Places
    <2>3. s \in Job
      BY <2>2, Zenon DEF Job
    <2>4. s.ref = job[j].ref
      BY <2>2 DEF Job
    <2>5. job' = [job EXCEPT ![j] = s]
      BY <1>0, <2>1
    <2> HIDE DEF s
    <2> QED
      BY <1>0, <1>1, <2>3, <2>4, <2>5, MovesKeepTypes DEF Exhausted
  <1>2. ASSUME NEW j \in Jobs, LookUp(j) PROVE Inv'
    <2>1. UNCHANGED <<heap, stored, used, budget, calls>>
      BY <1>2 DEF LookUp
    <2>2. CASE Move(j, "asking") /\ UNCHANGED served
      BY <1>0, <2>1, <2>2, MoveTyped, MovesKeepTypes DEF Places
    <2>3. ASSUME NEW i \in Hits(j),
                 job' = [job EXCEPT ![j].at = "reusing", ![j].ref = i],
                 served' = served \cup {<<TenantOf[j], i>>}
          PROVE  Inv'
      <3> DEFINE s == [job[j] EXCEPT !.at = "reusing", !.ref = i]
      <3>1. /\ job[j] \in Job /\ i \in 1..Len(heap) /\ "reusing" \in Places
            /\ i \in Nat
        BY <1>0 DEF Hits, Places
      <3>2. s \in Job
        BY <3>1, Zenon DEF Job
      <3>3. s.ref = i
        BY <3>1 DEF Job
      <3>4. job' = [job EXCEPT ![j] = s]
        BY <1>0, <2>3
      <3>5. TenantOf[j] \in Tenants
        BY EscalationAssumption
      <3> HIDE DEF s
      <3>6. job' \in [Jobs -> Job] /\ \A k \in Jobs : job'[k].ref \in 0..Len(heap)
        BY <1>0, <3>1, <3>2, <3>3, <3>4
      <3> QED
        BY <1>0, <2>1, <2>3, <3>1, <3>5, <3>6, MovesKeepTypes
    <2> QED
      BY <1>2, <2>2, <2>3 DEF LookUp
  <1>3. ASSUME NEW j \in Jobs, Evaluate(j) PROVE Inv'
    <2>1. \E place \in Places : Move(j, place)
      BY <1>3 DEF Evaluate, Places
    <2>2. used' \subseteq Jobs
      BY <1>0, <1>3 DEF Evaluate
    <2> QED
      BY <1>0, <1>3, <2>1, <2>2, MoveTyped, MovesKeepTypes DEF Evaluate
  <1>4. ASSUME NEW j \in Jobs, CallReturns(j) PROVE Inv'
    <2>1. Move(j, "judging") /\ "judging" \in Places /\ Pays(j)
          /\ UNCHANGED <<heap, stored, used, calls, served>>
      BY <1>4 DEF CallReturns, Places
    <2> QED
      BY <1>0, <2>1, MoveTyped, PaysTyped, MovesKeepTypes
  <1>5. ASSUME NEW j \in Jobs, CallFails(j) PROVE Inv'
    <2>1. Pays(j) /\ UNCHANGED <<heap, stored, used, calls, served>>
      BY <1>5 DEF CallFails
    <2>2. CASE Move(j, "human")
      BY <1>0, <2>1, <2>2, MoveTyped, PaysTyped, MovesKeepTypes DEF Places
    <2>3. CASE job' = [job EXCEPT ![j].at = "failed", ![j].tries = @ + 1]
      <3> DEFINE s == [job[j] EXCEPT !.at = "failed", !.tries = @ + 1]
      <3>1. job[j] \in Job /\ "failed" \in Places
        BY <1>0 DEF Places
      <3>2. job[j].tries + 1 \in Nat
        BY <3>1 DEF Job
      <3>3. s \in Job
        BY <3>1, <3>2, Zenon DEF Job
      <3>4. s.ref = job[j].ref
        BY <3>1 DEF Job
      <3>5. job' = [job EXCEPT ![j] = s]
        BY <1>0, <2>3
      <3> HIDE DEF s
      <3> QED
        BY <1>0, <2>1, <3>3, <3>4, <3>5, PaysTyped, MovesKeepTypes
    <2> QED
      BY <1>5, <2>2, <2>3 DEF CallFails
  <1>6. ASSUME NEW j \in Jobs, PassesUnrecorded(j) \/ Fails(j) PROVE Inv'
    <2>1. UNCHANGED <<heap, stored, used, budget, calls, served>>
      BY <1>6 DEF PassesUnrecorded, Fails
    <2>2. \E place \in Places : Move(j, place)
      BY <1>6 DEF PassesUnrecorded, Fails, Places
    <2> QED
      BY <1>0, <2>1, <2>2, MoveTyped, MovesKeepTypes
  <1>7. ASSUME NEW j \in Jobs, Passes(j) PROVE Inv'
    <2>1. /\ Move(j, "delivered") /\ "delivered" \in Places
          /\ UNCHANGED <<used, budget, calls, served>>
      BY <1>7 DEF Passes, Places
    <2>2. CASE job[j].at = "reusing" /\ job[j].ref \in stored
      <3>1. PICK i \in stored : i = job[j].ref
        BY <2>2
      <3>2. RecordReuse(i) /\ stored' = stored
        BY <1>7, <2>2, <3>1 DEF Passes, RecordReuse
      <3>3. /\ heap' \in Seq(Record) /\ Len(heap') = Len(heap)
            /\ \A k \in 1..Len(heap) :
                  /\ heap'[k].tenant = heap[k].tenant
                  /\ heap'[k].fingerprint = heap[k].fingerprint
        BY <3>2, ReuseStep
      <3>4. OneEach(heap', stored')
        BY <1>0, <3>2, <3>3 DEF OneEach, Inv, TypeOK
      <3> QED
        BY <1>0, <2>1, <3>2, <3>3, <3>4, MoveTyped DEF Inv, TypeOK, OneEach
    <2>3. CASE job[j].at = "reusing" /\ job[j].ref \notin stored
      <3>1. UNCHANGED <<heap, stored>>
        BY <1>7, <2>3 DEF Passes, RecordReuse
      <3> QED
        BY <1>0, <2>1, <3>1, MoveTyped, MovesKeepTypes
    <2>4. CASE job[j].at # "reusing"
      <3>1. /\ StoreSuccess(j)
            /\ stored' = {i \in stored : ~Same(j, i)} \cup {Len(heap) + 1}
        BY <1>7, <2>4 DEF Passes, StoreSuccess
      <3>2. /\ heap' \in Seq(Record) /\ Len(heap') = Len(heap) + 1
            /\ heap'[Len(heap) + 1] = NewRecord(j)
            /\ \A i \in 1..Len(heap) : heap'[i] = heap[i]
        BY <3>1, StoreStep
      <3>3. \A i \in stored' : i \in 1..(Len(heap) + 1)
        <4>1. \A i \in stored' : i \in stored \/ i = Len(heap) + 1
          BY <3>1, Zenon
        <4>2. \A i \in stored : i \in 1..(Len(heap) + 1)
          BY <1>0
        <4>3. Len(heap) + 1 \in 1..(Len(heap) + 1)
          BY <1>0
        <4> QED
          BY <4>1, <4>2, <4>3, Zenon
      <3>4. OneEach(heap', stored')
        <4> SUFFICES ASSUME NEW i \in stored', NEW k \in stored', i < k,
                            heap'[i].tenant = heap'[k].tenant,
                            heap'[i].fingerprint = heap'[k].fingerprint
                     PROVE  FALSE
          <5>1. \A m, n \in stored' : m = n \/ m < n \/ n < m
            BY <1>0, <3>3
          <5> QED
            BY <5>1 DEF OneEach
        <4>1. i \in stored /\ ~Same(j, i) /\ heap'[i] = heap[i]
          BY <1>0, <3>1, <3>2
        <4>2. CASE k = Len(heap) + 1
          BY <3>2, <4>1, <4>2, RecordMade DEF Same
        <4>3. CASE k # Len(heap) + 1
          <5>1. k \in stored /\ heap'[k] = heap[k]
            BY <1>0, <3>1, <3>2, <4>3
          <5> QED
            BY <1>0, <4>1, <5>1 DEF Inv, TypeOK
        <4> QED
          BY <4>2, <4>3
      <3>5. stored' \subseteq 1..Len(heap')
        BY <1>0, <3>2, <3>3
      <3>6. served' \subseteq Tenants \X (1..Len(heap'))
        BY <1>0, <2>1, <3>2
      <3>7. \A k \in Jobs : job'[k].ref \in 0..Len(heap')
        BY <1>0, <2>1, <3>2, MoveTyped
      <3> QED
        BY <1>0, <2>1, <3>2, <3>4, <3>5, <3>6, <3>7, MoveTyped
           DEF Inv, TypeOK, OneEach
    <2> QED
      BY <2>2, <2>3, <2>4
  <1>8. CASE UNCHANGED vars
    BY <1>0, <1>8, MovesKeepTypes DEF vars
  <1> QED
    BY <1>1, <1>2, <1>3, <1>4, <1>5, <1>6, <1>7, <1>8 DEF Next, Step

LEMMA TypeInit == Init => Inv
  BY EscalationAssumption DEF Init, Inv, TypeOK, Job, Places

\* Every variable keeps its type, and the store keeps one record for each
\* fingerprint of a tenant.
THEOREM TypeCorrect == Spec => []TypeOK
  <1>1. Inv => TypeOK
    BY DEF Inv
  <1> QED
    BY <1>1, TypeInit, TypeStep, PTL DEF Spec

-----------------------------------------------------------------------------
(* The refinement.                                                         *)

Owner == [i \in 1..Len(heap) |-> heap[i].tenant]
Reuses == [i \in 1..Len(heap) |-> heap[i].reuse_count]
Shared == {i \in 1..Len(heap) : heap[i].shared}

\* A record that is stored belongs to its job's tenant and is nobody else's.
LEMMA StoreStores ==
    ASSUME Inv, NEW j \in Jobs, StoreSuccess(j), UNCHANGED served
    PROVE  Sharing!Store(TenantOf[j])
  <1> DEFINE e == NewRecord(j)
  <1>1. /\ Len(heap') = Len(heap) + 1 /\ heap'[Len(heap) + 1] = e
        /\ \A i \in 1..Len(heap) : heap'[i] = heap[i]
        /\ heap \in Seq(Record) /\ heap' \in Seq(Record)
    BY StoreStep DEF Inv, TypeOK
  <1>2. e.tenant = TenantOf[j] /\ e.reuse_count = 0 /\ ~e.shared
    BY RecordMade
  <1> HIDE DEF e
  <1>3. Owner' = Append(Owner, TenantOf[j])
    BY <1>1, <1>2 DEF Owner
  <1>4. Reuses' = Append(Reuses, 0)
    BY <1>1, <1>2 DEF Reuses
  <1>5. Shared' = Shared
    BY <1>1, <1>2 DEF Shared
  <1> QED
    BY <1>3, <1>4, <1>5 DEF Sharing!Store, Owner, Reuses, Shared

\* A reuse is one of GatedSharing, of a record nobody is given by it.
LEMMA ReuseUses ==
    ASSUME Inv, NEW i \in stored, RecordReuse(i), UNCHANGED served
    PROVE  i \in DOMAIN Owner /\ Sharing!Use(i)
  <1>1. /\ i \in 1..Len(heap)
        /\ heap \in Seq(Record) /\ heap' \in Seq(Record)
        /\ Len(heap') = Len(heap)
        /\ \A k \in 1..Len(heap) : k # i => heap'[k] = heap[k]
        /\ heap'[i].tenant = heap[i].tenant
        /\ heap'[i].reuse_count = heap[i].reuse_count + 1
        /\ heap'[i].shared <=> \/ heap[i].shared
                               \/ heap[i].reuse_count + 1 >= PromoteAt
    BY ReuseStep DEF Inv, TypeOK
  <1>2. Owner' = Owner
    BY <1>1 DEF Owner
  <1>3. /\ Reuses' = [Reuses EXCEPT ![i] = @ + 1]
        /\ Reuses'[i] = heap[i].reuse_count + 1
    BY <1>1 DEF Reuses
  <1>4. Shared' = IF heap'[i].shared THEN Shared \cup {i} ELSE Shared
    BY <1>1 DEF Shared
  <1>5. Shared' # Shared => Reuses'[i] >= PromoteAt
    BY <1>1, <1>3, <1>4 DEF Shared
  <1>6. /\ Reuses' \in {Reuses, [Reuses EXCEPT ![i] = @ + 1]}
        /\ Shared' \in {Shared, Shared \cup {i}}
        /\ served' \in {served} \cup
              {served \cup {<<t, i>>} :
                  t \in {t \in Tenants : t = Owner[i] \/ i \in Shared}}
    BY <1>3, <1>4
  <1>7. Sharing!Use(i)
    BY <1>2, <1>5, <1>6, Zenon DEF Sharing!Use, Owner, Reuses, Shared
  <1>8. i \in DOMAIN Owner
    BY <1>1 DEF Owner
  <1> QED
    BY <1>7, <1>8

\* A look-up gives a job's tenant a record that is its own or shared.
LEMMA LookUpUses ==
    ASSUME Inv, NEW j \in Jobs, NEW i \in Hits(j), UNCHANGED heap,
           served' = served \cup {<<TenantOf[j], i>>}
    PROVE  i \in DOMAIN Owner /\ Sharing!Use(i)
  <1>1. i \in 1..Len(heap) /\ TenantOf[j] \in Tenants
        /\ (heap[i].shared \/ heap[i].tenant = TenantOf[j])
    BY EscalationAssumption DEF Hits, Inv, TypeOK
  <1>2. UNCHANGED <<Owner, Reuses, Shared>>
    BY DEF Owner, Reuses, Shared
  <1>3. i \in DOMAIN Owner /\ (TenantOf[j] = Owner[i] \/ i \in Shared)
    BY <1>1 DEF Owner, Shared
  <1>4. served' \in {served} \cup
          {served \cup {<<t, i>>} :
              t \in {t \in Tenants : t = Owner[i] \/ i \in Shared}}
    BY <1>1, <1>3
  <1>5. /\ Reuses' \in {Reuses, [Reuses EXCEPT ![i] = @ + 1]}
        /\ Shared' \in {Shared, Shared \cup {i}}
    BY <1>2
  <1>6. Sharing!Use(i)
    BY <1>2, <1>4, <1>5, Zenon DEF Sharing!Use, Owner, Reuses, Shared
  <1> QED
    BY <1>3, <1>6

LEMMA SharingStep ==
    ASSUME Inv, [Next]_vars
    PROVE  [Sharing!Next]_(Sharing!vars)
  <1>1. CASE UNCHANGED <<heap, served>>
    BY <1>1 DEF Sharing!vars
  <1>2. ASSUME NEW j \in Jobs, LookUp(j)
        PROVE  [Sharing!Next]_(Sharing!vars)
    <2>1. UNCHANGED heap
      BY <1>2 DEF LookUp
    <2>2. CASE UNCHANGED served
      BY <1>1, <2>1, <2>2
    <2>3. CASE \E i \in Hits(j) : served' = served \cup {<<TenantOf[j], i>>}
      BY <2>1, <2>3, LookUpUses DEF Sharing!Next, Owner
    <2> QED
      BY <1>2, <2>2, <2>3 DEF LookUp
  <1>3. ASSUME NEW j \in Jobs, Passes(j)
        PROVE  [Sharing!Next]_(Sharing!vars)
    <2>1. UNCHANGED served
      BY <1>3 DEF Passes
    <2>2. CASE job[j].at = "reusing" /\ job[j].ref \in stored
      <3>1. PICK i \in stored : i = job[j].ref
        BY <2>2
      <3>2. RecordReuse(i)
        BY <1>3, <2>2, <3>1 DEF Passes, RecordReuse
      <3> QED
        BY <2>1, <3>2, ReuseUses DEF Sharing!Next, Owner
    <2>3. CASE job[j].at = "reusing" /\ job[j].ref \notin stored
      BY <1>1, <1>3, <2>1, <2>3 DEF Passes, RecordReuse
    <2>4. CASE job[j].at # "reusing"
      <3>1. StoreSuccess(j)
        BY <1>3, <2>4 DEF Passes
      <3>2. TenantOf[j] \in Tenants
        BY EscalationAssumption
      <3>3. Sharing!Store(TenantOf[j])
        BY <2>1, <3>1, StoreStores
      <3> QED
        BY <3>2, <3>3 DEF Sharing!Next
    <2> QED
      BY <2>2, <2>3, <2>4
  <1> QED
    BY <1>1, <1>2, <1>3
       DEF Next, Step, Exhausted, Evaluate, CallReturns, CallFails,
           PassesUnrecorded, Fails, vars

\* The memory implements GatedSharing: storing, replacing and reusing in any
\* order never show a tenant a record it neither owns nor was shared with.
THEOREM Refinement == Spec => SharesAsPromised
  <1>1. Init => Sharing!Init
    BY DEF Init, Sharing!Init
  <1>2. Inv /\ [Next]_vars => [Sharing!Next]_(Sharing!vars)
    BY SharingStep
  <1> QED
    BY <1>1, <1>2, TypeInit, TypeStep, PTL
       DEF Spec, SharesAsPromised, Sharing!Spec

-----------------------------------------------------------------------------
(* Commercial calls.                                                       *)

CallInv ==
    /\ DOMAIN calls = Jobs
    /\ \A j \in Jobs :
          \/ calls[j] = <<>>
          \/ /\ j \in used
             /\ \E c : calls[j] = <<c>> /\ Needed(EvaluateEscalation(c))

\* A call the escalation gate approves is one the metacognition gate finds
\* needed.
LEMMA GatesAgree ==
    ASSUME Inv, Estimate > 0, NEW j \in Jobs, Approves(j)
    PROVE  Needed(EvaluateEscalation(GateContext(j)))
  <1> DEFINE ctx == GateContext(j)
  <1>1. /\ ctx.iteration >= ctx.limit /\ ctx.enabled /\ ctx.consent
        /\ ctx.remaining >= ctx.estimate
    BY DEF Approves
  <1>2. /\ ctx.remaining = budget[TenantOf[j]] /\ ctx.estimate = Estimate
    BY DEF GateContext
  <1>3. budget[TenantOf[j]] \in Int /\ Estimate \in Int
    BY EscalationAssumption DEF Inv, TypeOK
  <1>4. ctx.remaining > 0
    BY <1>1, <1>2, <1>3
  <1> HIDE DEF ctx
  <1>5. EvaluateEscalation(ctx) = Verdict("NEEDED", 0)
    BY <1>1, <1>4 DEF EvaluateEscalation
  <1> QED
    BY <1>5 DEF ctx, Needed, Verdict

LEMMA CallStep ==
    ASSUME Inv, Estimate > 0, CallInv, [Next]_vars
    PROVE  CallInv'
  <1>1. CASE UNCHANGED <<used, calls>>
    BY <1>1 DEF CallInv
  <1>2. ASSUME NEW j \in Jobs, Evaluate(j) PROVE CallInv'
    <2>1. CASE Approves(j)
      <3>1. PICK c : c = GateContext(j)
        OBVIOUS
      <3>2. Needed(EvaluateEscalation(c))
        BY <2>1, <3>1, GatesAgree
      <3>3. calls[j] = <<>>
        BY <2>1 DEF Approves, CallInv
      <3>4. /\ used' = used \cup {j}
            /\ calls' = [calls EXCEPT ![j] = Append(calls[j], c)]
        BY <1>2, <2>1, <3>1 DEF Evaluate
      <3>5. Append(calls[j], c) = <<c>>
        BY <3>3
      <3> QED
        BY <3>2, <3>4, <3>5 DEF CallInv
    <2>2. CASE ~Approves(j)
      BY <1>1, <1>2, <2>2 DEF Evaluate
    <2> QED
      BY <2>1, <2>2
  <1> QED
    BY <1>1, <1>2
       DEF Next, Step, Exhausted, LookUp, CallReturns, CallFails, Passes,
           PassesUnrecorded, Fails, vars

\* A job makes at most one commercial call, and the two gates agree on it, when
\* a call is estimated to cost anything.
THEOREM CallsStayLicensed ==
    ASSUME Estimate > 0
    PROVE  Spec => []CallsAreLicensed
  <1>1. Init => CallInv
    BY DEF Init, CallInv
  <1>2. Inv /\ CallInv /\ [Next]_vars => CallInv'
    BY CallStep
  <1>3. CallInv => CallsAreLicensed
    <2> SUFFICES ASSUME CallInv, NEW j \in Jobs
                 PROVE  /\ Len(calls[j]) <= 1
                        /\ \A n \in DOMAIN calls[j] :
                              Needed(EvaluateEscalation(calls[j][n]))
      BY DEF CallsAreLicensed
    <2>1. CASE calls[j] = <<>>
      BY <2>1
    <2>2. CASE calls[j] # <<>>
      <3>1. PICK c : calls[j] = <<c>> /\ Needed(EvaluateEscalation(c))
        BY <2>2 DEF CallInv
      <3>2. Len(calls[j]) = 1 /\ DOMAIN calls[j] = {1} /\ calls[j][1] = c
        BY <3>1
      <3>3. \A n \in DOMAIN calls[j] : calls[j][n] = c
        BY <3>2
      <3> QED
        BY <3>1, <3>2, <3>3
    <2> QED
      BY <2>1, <2>2
  <1> QED
    BY <1>1, <1>2, <1>3, TypeInit, TypeStep, PTL DEF Spec

-----------------------------------------------------------------------------
(* Budgets.                                                                *)

\* The marked jobs of a tenant, and those of them whose call is over.
Marked(t) == {j \in used : TenantOf[j] = t}
Done(t) == {j \in Marked(t) : job[j].at # "calling"}

BudgetInv ==
    /\ \A j \in Jobs : job[j].at = "calling" => j \in used
    /\ \A t \in Tenants :
          budget[t] + Estimate * Cardinality(Done(t))
             >= IF Marked(t) = {} THEN 0 ELSE Estimate

LEMMA MarkedFinite ==
    ASSUME Inv, NEW t \in Tenants
    PROVE  /\ IsFiniteSet(Marked(t)) /\ IsFiniteSet(Done(t))
           /\ Cardinality(Marked(t)) \in Nat /\ Cardinality(Done(t)) \in Nat
           /\ Cardinality(Done(t)) <= Cardinality(Marked(t))
  <1>1. Marked(t) \subseteq Jobs /\ Done(t) \subseteq Marked(t)
    BY DEF Inv, TypeOK, Marked, Done
  <1>2. IsFiniteSet(Marked(t))
    BY <1>1, EscalationAssumption, FS_Subset
  <1> QED
    BY <1>1, <1>2, FS_Subset, FS_CardinalityType

LEMMA Product ==
    ASSUME NEW e \in Nat, NEW m \in Nat, NEW n \in Nat
    PROVE  /\ e * m \in Nat /\ e * (m + 1) = e * m + e
           /\ m <= n => e * m <= e * n
  <1>1. e * m \in Nat /\ e * (m + 1) = e * m + e
    OBVIOUS
  <1>2. ASSUME m <= n PROVE e * m <= e * n
    <2>1. PICK d \in Nat : n = m + d
      BY <1>2
    <2>2. e * n = e * m + e * d /\ e * d \in Nat /\ e * m \in Nat
      BY <2>1
    <2> QED
      BY <2>2
  <1> QED
    BY <1>1, <1>2

\* A job that moves without calling leaves the accounts as they are.
LEMMA MoveBalances ==
    ASSUME Inv, BudgetInv, NEW j \in Jobs, job[j].at # "calling",
           job'[j].at # "calling", \A k \in Jobs \ {j} : job'[k] = job[k],
           UNCHANGED <<used, budget>>
    PROVE  BudgetInv'
  <1>1. ASSUME NEW t \in Tenants
        PROVE  Marked(t)' = Marked(t) /\ Done(t)' = Done(t)
    BY DEF Marked, Done, Inv, TypeOK
  <1> QED
    BY <1>1 DEF BudgetInv

\* A call that is over is paid for out of its estimate.
LEMMA PayBalances ==
    ASSUME Inv, Inv', BudgetInv, NEW j \in Jobs, job[j].at = "calling",
           job'[j].at # "calling", \A k \in Jobs \ {j} : job'[k] = job[k],
           UNCHANGED used, Pays(j)
    PROVE  BudgetInv'
  <1>1. PICK cost \in 0..Estimate :
          budget' = [budget EXCEPT ![TenantOf[j]] = @ - cost]
    BY DEF Pays
  <1>2. j \in used
    BY DEF BudgetInv
  <1>3. ASSUME NEW t \in Tenants
        PROVE  budget'[t] + Estimate * Cardinality(Done(t)')
                  >= IF Marked(t)' = {} THEN 0 ELSE Estimate
    <2>1. Marked(t)' = Marked(t)
      BY DEF Marked
    <2>2. budget[t] + Estimate * Cardinality(Done(t))
             >= IF Marked(t) = {} THEN 0 ELSE Estimate
      BY DEF BudgetInv
    <2>3. CASE t # TenantOf[j]
      <3>1. Done(t)' = Done(t)
        BY <2>3 DEF Done, Marked, Inv, TypeOK
      <3>2. budget'[t] = budget[t]
        BY <1>1, <2>3 DEF Inv, TypeOK
      <3> QED
        BY <2>1, <2>2, <3>1, <3>2
    <2>4. CASE t = TenantOf[j]
      <3>1. Done(t)' = Done(t) \cup {j} /\ j \notin Done(t)
        BY <1>2, <2>4 DEF Done, Marked, Inv, TypeOK
      <3>2. Cardinality(Done(t)') = Cardinality(Done(t)) + 1
        BY <3>1, MarkedFinite, FS_AddElement
      <3>3. budget'[t] = budget[t] - cost /\ budget[t] \in Int
        BY <1>1, <2>4 DEF Inv, TypeOK
      <3>4. /\ Estimate \in Nat /\ Cardinality(Done(t)) \in Nat
            /\ cost \in Nat /\ cost <= Estimate
        BY EscalationAssumption, MarkedFinite
      <3>5. Estimate * Cardinality(Done(t)')
              = Estimate * Cardinality(Done(t)) + Estimate
            /\ Estimate * Cardinality(Done(t)) \in Nat
        BY <3>2, <3>4, Product
      <3>6. budget'[t] + Estimate * Cardinality(Done(t)')
              >= budget[t] + Estimate * Cardinality(Done(t))
        BY <3>3, <3>4, <3>5
      <3>7. budget'[t] + Estimate * Cardinality(Done(t)') \in Int
        BY <3>3, <3>4, <3>5
      <3> QED
        BY <2>1, <2>2, <3>3, <3>4, <3>5, <3>6, <3>7
    <2> QED
      BY <2>3, <2>4
  <1>4. \A k \in Jobs : job'[k].at = "calling" => k \in used'
    BY DEF BudgetInv
  <1> QED
    BY <1>3, <1>4 DEF BudgetInv

\* The first call of a tenant is within its budget.
LEMMA CallBalances ==
    ASSUME Inv, BudgetInv, NEW j \in Jobs, Approves(j),
           job[j].at # "calling",
           \A k \in Jobs \ {j} : job'[k] = job[k], job'[j].at = "calling",
           used' = used \cup {j}, UNCHANGED budget
    PROVE  BudgetInv'
  <1>1. j \notin used /\ budget[TenantOf[j]] >= Estimate
    BY DEF Approves, GateContext
  <1>2. ASSUME NEW t \in Tenants
        PROVE  budget'[t] + Estimate * Cardinality(Done(t)')
                  >= IF Marked(t)' = {} THEN 0 ELSE Estimate
    <2>1. Done(t)' = Done(t)
      BY <1>1 DEF Done, Marked, Inv, TypeOK
    <2>2. budget[t] + Estimate * Cardinality(Done(t))
             >= IF Marked(t) = {} THEN 0 ELSE Estimate
      BY DEF BudgetInv
    <2>3. CASE t # TenantOf[j]
      <3>1. Marked(t)' = Marked(t)
        BY <2>3 DEF Marked
      <3> QED
        BY <2>1, <2>2, <3>1
    <2>4. CASE t = TenantOf[j] /\ Marked(t) # {}
      BY <2>1, <2>2, <2>4 DEF Marked
    <2>5. CASE t = TenantOf[j] /\ Marked(t) = {}
      <3>1. /\ budget[t] >= Estimate /\ budget[t] \in Int /\ Estimate \in Nat
            /\ Cardinality(Done(t)) \in Nat
        BY <1>1, <2>5, EscalationAssumption, MarkedFinite DEF Inv, TypeOK
      <3>2. Estimate * Cardinality(Done(t)) \in Nat
        BY <3>1, Product
      <3>3. budget[t] + Estimate * Cardinality(Done(t)) >= Estimate
        BY <3>1, <3>2
      <3> QED
        BY <2>1, <3>1, <3>3
    <2> QED
      BY <2>3, <2>4, <2>5
  <1>3. \A k \in Jobs : job'[k].at = "calling" => k \in used'
    BY DEF BudgetInv
  <1> QED
    BY <1>2, <1>3 DEF BudgetInv

LEMMA BudgetStep ==
    ASSUME Inv, Inv', BudgetInv, [Next]_vars
    PROVE  BudgetInv'
  <1>0. ASSUME NEW j \in Jobs, NEW place \in Places, Move(j, place)
        PROVE  /\ job'[j].at = place
               /\ \A k \in Jobs \ {j} : job'[k] = job[k]
    <2>1. job[j] \in Job /\ job \in [Jobs -> Job]
      BY DEF Inv
    <2> QED
      BY <1>0, <2>1 DEF Move, Job
  <1>1. CASE UNCHANGED <<job, used, budget>>
    BY <1>1 DEF BudgetInv, Marked, Done
  <1>2. ASSUME NEW j \in Jobs,
               \/ Exhausted(j) \/ LookUp(j)
               \/ Passes(j) \/ PassesUnrecorded(j) \/ Fails(j)
        PROVE  BudgetInv'
    <2>1. job[j].at # "calling" /\ UNCHANGED <<used, budget>>
      BY <1>2 DEF Exhausted, LookUp, Passes, PassesUnrecorded, Fails
    <2>2. job'[j].at # "calling" /\ \A k \in Jobs \ {j} : job'[k] = job[k]
      <3>1. job[j] \in Job /\ job \in [Jobs -> Job]
        BY DEF Inv
      <3>2. CASE \E place \in Places \ {"calling"} : Move(j, place)
        BY <1>0, <3>2
      <3>3. ASSUME NEW n, job' = [job EXCEPT ![j].at = "failed", ![j].iteration = n]
            PROVE  job'[j].at # "calling" /\ \A k \in Jobs \ {j} : job'[k] = job[k]
        BY <3>1, <3>3 DEF Job
      <3>4. ASSUME NEW i, job' = [job EXCEPT ![j].at = "reusing", ![j].ref = i]
            PROVE  job'[j].at # "calling" /\ \A k \in Jobs \ {j} : job'[k] = job[k]
        BY <3>1, <3>4 DEF Job
      <3> QED
        BY <1>2, <3>2, <3>3, <3>4
           DEF Exhausted, LookUp, Passes, PassesUnrecorded, Fails, Places
    <2> QED
      BY <2>1, <2>2, MoveBalances
  <1>3. ASSUME NEW j \in Jobs, Evaluate(j) PROVE BudgetInv'
    <2>1. CASE Approves(j)
      <3>1. /\ Move(j, "calling") /\ "calling" \in Places
            /\ job[j].at # "calling"
            /\ used' = used \cup {j} /\ UNCHANGED budget
        BY <1>3, <2>1 DEF Evaluate, Places
      <3> QED
        BY <1>0, <2>1, <3>1, CallBalances
    <2>2. CASE ~Approves(j)
      <3>1. /\ Move(j, "human") /\ "human" \in Places
            /\ job[j].at # "calling" /\ UNCHANGED <<used, budget>>
        BY <1>3, <2>2 DEF Evaluate, Places
      <3> QED
        BY <1>0, <3>1, MoveBalances
    <2> QED
      BY <2>1, <2>2
  <1>4. ASSUME NEW j \in Jobs, CallReturns(j) \/ CallFails(j) PROVE BudgetInv'
    <2>1. job[j].at = "calling" /\ Pays(j) /\ UNCHANGED used
      BY <1>4 DEF CallReturns, CallFails
    <2>2. job'[j].at # "calling" /\ \A k \in Jobs \ {j} : job'[k] = job[k]
      <3>1. job[j] \in Job /\ job \in [Jobs -> Job]
        BY DEF Inv
      <3>2. CASE \E place \in Places \ {"calling"} : Move(j, place)
        BY <1>0, <3>2
      <3>3. CASE job' = [job EXCEPT ![j].at = "failed", ![j].tries = @ + 1]
        BY <3>1, <3>3 DEF Job
      <3> QED
        BY <1>4, <3>2, <3>3 DEF CallReturns, CallFails, Places
    <2> QED
      BY <2>1, <2>2, PayBalances
  <1> QED
    BY <1>1, <1>2, <1>3, <1>4 DEF Next, Step, vars

\* Together the jobs of a tenant overdraw its budget by less than an estimate
\* for each of its calls but the first.
THEOREM OverdraftStaysBounded == Spec => []OverdraftBounded
  <1>1. Init => BudgetInv
    <2> SUFFICES ASSUME Init PROVE BudgetInv
      OBVIOUS
    <2>1. \A t \in Tenants : Marked(t) = {} /\ Done(t) = {}
      BY DEF Init, Marked, Done
    <2>2. \A t \in Tenants : budget[t] \in Nat
      BY EscalationAssumption DEF Init
    <2>3. Estimate * 0 = 0 /\ Cardinality({}) = 0
      BY EscalationAssumption, FS_EmptySet
    <2>4. \A t \in Tenants :
             budget[t] + Estimate * Cardinality(Done(t))
                >= IF Marked(t) = {} THEN 0 ELSE Estimate
      <3> TAKE t \in Tenants
      <3>1. Marked(t) = {} /\ Cardinality(Done(t)) = 0
        BY <2>1, <2>3
      <3>2. budget[t] \in Nat /\ Estimate \in Nat
        BY <2>2, EscalationAssumption
      <3> QED
        BY <2>3, <3>1, <3>2
    <2> QED
      BY <2>4 DEF Init, BudgetInv
  <1>2. Inv /\ Inv' /\ BudgetInv /\ [Next]_vars => BudgetInv'
    BY BudgetStep
  <1>3. Inv /\ BudgetInv => OverdraftBounded
    <2> SUFFICES ASSUME Inv, BudgetInv, NEW t \in Tenants, budget[t] < 0
                 PROVE  -budget[t] <= Estimate * (Cardinality(Marked(t)) - 1)
      BY DEF OverdraftBounded, Marked
    <2> DEFINE m == Cardinality(Marked(t))
               d == Cardinality(Done(t))
    <2>1. m \in Nat /\ d \in Nat /\ d <= m /\ Estimate \in Nat
      BY MarkedFinite, EscalationAssumption
    <2>2. budget[t] + Estimate * d >= IF Marked(t) = {} THEN 0 ELSE Estimate
      BY DEF BudgetInv
    <2>3. Marked(t) # {} /\ m >= 1
      <3>1. CASE Marked(t) = {}
        <4>1. Done(t) = {}
          BY <3>1 DEF Done
        <4>2. d = 0
          BY <4>1, FS_EmptySet
        <4> QED
          BY <2>1, <2>2, <3>1, <4>2 DEF Inv, TypeOK
      <3> QED
        BY <2>1, <3>1, MarkedFinite, FS_EmptySet
    <2>4. budget[t] \in Int
      BY DEF Inv, TypeOK
    <2> HIDE DEF m, d
    <2>5. PICK p \in Nat : m = p + 1
      BY <2>1, <2>3
    <2>6. Estimate * d <= Estimate * p + Estimate
          /\ Estimate * p \in Nat /\ Estimate * d \in Nat
      BY <2>1, <2>5, Product
    <2>7. m - 1 = p
      BY <2>5
    <2> QED
      BY <2>1, <2>2, <2>3, <2>4, <2>6, <2>7 DEF m
  <1> QED
    BY <1>1, <1>2, <1>3, TypeInit, TypeStep, PTL DEF Spec
=============================================================================
