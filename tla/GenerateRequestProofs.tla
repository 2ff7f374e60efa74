------------------------ MODULE GenerateRequestProofs ------------------------
(***************************************************************************)
(* Proofs about GenerateRequest, for any number of requests and any hashes.*)
(***************************************************************************)
EXTENDS GenerateRequest, FiniteSetTheorems, TLAPS

-----------------------------------------------------------------------------
(* The inductive invariant.                                                  *)

\* Which rows exist, from where a request is; nothing refers to a missing row.
RowInv ==
    /\ \A r \in Requests :
        /\ pc[r] \in {"idle", "missed", "numbered", "inserted"} => r \notin specs
        /\ pc[r] = "committed" => r \in specs \cap Generators
        /\ jobs[r] # "none" <=> r \in specs \cap Generators
        /\ before[r] \subseteq specs \cap Generators
        /\ answer[r] # {} => r \in Generators
        /\ pc[r] = "answered" /\ r \in specs \cap Generators => r \in arq
    /\ arq \subseteq specs \cap Generators

\* The number a request holds is at most the next one, and the one request that
\* has inserted it holds exactly that.
NumberInv ==
    \A r \in Requests :
        /\ pc[r] \in {"numbered", "inserted"} =>
                version[r] \in 1..(Cardinality(specs) + 1)
        /\ pc[r] = "inserted" =>
                /\ version[r] = Cardinality(specs) + 1
                /\ \A q \in Requests : pc[q] = "inserted" => q = r

\* A request that missed the cache saw no live job for its hash, and those it saw
\* are not live before they are run again.
MissInv ==
    \A r \in Generators : \A q \in before[r] :
        /\ pc[r] \in {"missed", "numbered", "inserted", "committed"} \/ r \in specs
        /\ hash[q] = hash[r]
        => ~Live(q)

-----------------------------------------------------------------------------
(* Versions.                                                                 *)

LEMMA SpecsFinite ==
    ASSUME TypeOK
    PROVE  /\ IsFiniteSet(specs)
           /\ Cardinality(specs) \in Nat
  BY ConstantsAssumption, FS_Subset, FS_CardinalityType DEF TypeOK

\* COALESCE(MAX(version), 0) is the number of specs when they are numbered
\* without a gap.
LEMMA LastVersionIsCount ==
    ASSUME TypeOK, VersionsConsecutive
    PROVE  LastVersion = Cardinality(specs)
  <1> DEFINE N == Cardinality(specs)
             S == {version[q] : q \in specs} \cup {0}
  <1>1. N \in Nat
    BY SpecsFinite
  <1>2. S = 0..N
    BY <1>1 DEF VersionsConsecutive
  <1> HIDE DEF N, S
  <1>3. Max(S) = N
    <2>1. N \in S /\ \A y \in S : N >= y
      BY <1>1, <1>2
    <2>2. \A x \in S : (\A y \in S : x >= y) => x = N
      BY <1>1, <1>2
    <2> QED
      BY <2>1, <2>2 DEF Max
  <1> QED
    BY <1>3 DEF LastVersion, S, N

-----------------------------------------------------------------------------
(* Type correctness.                                                         *)

\* Every variable keeps its type, in every statement and at every failure.
LEMMA TypeStep ==
    ASSUME TypeOK, VersionsConsecutive, [Next]_vars
    PROVE  TypeOK'
  <1>1. CASE UNCHANGED vars
    BY <1>1 DEF vars, TypeOK
  <1>2. ASSUME NEW r \in Requests, LookUp(r) PROVE TypeOK'
    <2>1. Hits(r) \subseteq Requests
      BY DEF Hits, Requests
    <2>2. answer' \in [Requests -> SUBSET Requests]
      BY <1>2, <2>1 DEF LookUp, TypeOK
    <2> QED
      BY <1>2, <2>2 DEF LookUp, Goes, TypeOK
  <1>3. ASSUME NEW r \in Requests, NumberVersion(r) PROVE TypeOK'
    <2>1. LastVersion + 1 \in Nat
      BY LastVersionIsCount, SpecsFinite
    <2> QED
      BY <1>3, <2>1 DEF NumberVersion, Goes, TypeOK
  <1>4. ASSUME NEW r \in Requests, InsertSpec(r) PROVE TypeOK'
    BY <1>4 DEF InsertSpec, RollBack, Goes, TypeOK
  <1>5. ASSUME NEW r \in Requests, Commit(r) PROVE TypeOK'
    BY <1>5 DEF Commit, Goes, TypeOK
  <1>6. ASSUME NEW r \in Requests, EnqueueJob(r) PROVE TypeOK'
    BY <1>6 DEF EnqueueJob, Goes, TypeOK
  <1>7. ASSUME NEW r \in Requests, Abort(r) PROVE TypeOK'
    BY <1>7 DEF Abort, RollBack, TypeOK
  <1>8. ASSUME NEW r \in Requests, Die(r) PROVE TypeOK'
    BY <1>8 DEF Die, Goes, TypeOK
  <1>9. ASSUME NEW r \in Requests, JobFails(r) PROVE TypeOK'
    BY <1>9 DEF JobFails, TypeOK
  <1>10. ASSUME NEW r \in Requests, JobRunsAgain(r) PROVE TypeOK'
    BY <1>10 DEF JobRunsAgain, TypeOK
  <1> QED
    BY <1>1, <1>2, <1>3, <1>4, <1>5, <1>6, <1>7, <1>8, <1>9, <1>10 DEF Next, Step

-----------------------------------------------------------------------------
(* The rows.                                                                 *)

LEMMA RowStep ==
    ASSUME TypeOK, RowInv, [Next]_vars
    PROVE  RowInv'
  <1> USE DEF RowInv, TypeOK
  <1>1. CASE UNCHANGED vars
    BY <1>1 DEF vars
  <1>2. ASSUME NEW r \in Requests, LookUp(r) PROVE RowInv'
    BY <1>2 DEF LookUp, Goes, Requests
  <1>3. ASSUME NEW r \in Requests, NumberVersion(r) PROVE RowInv'
    BY <1>3 DEF NumberVersion, Goes
  <1>4. ASSUME NEW r \in Requests, InsertSpec(r) PROVE RowInv'
    BY <1>4 DEF InsertSpec, RollBack, Goes
  <1>5. ASSUME NEW r \in Requests, Commit(r) PROVE RowInv'
    BY <1>5 DEF Commit, Goes
  <1>6. ASSUME NEW r \in Requests, EnqueueJob(r) PROVE RowInv'
    BY <1>6 DEF EnqueueJob, Goes
  <1>7. ASSUME NEW r \in Requests, Abort(r) PROVE RowInv'
    BY <1>7 DEF Abort, RollBack
  <1>8. ASSUME NEW r \in Requests, Die(r) PROVE RowInv'
    BY <1>8 DEF Die, Goes
  <1>9. ASSUME NEW r \in Requests, JobFails(r) PROVE RowInv'
    BY <1>9 DEF JobFails, Live
  <1>10. ASSUME NEW r \in Requests, JobRunsAgain(r) PROVE RowInv'
    BY <1>10 DEF JobRunsAgain
  <1> QED
    BY <1>1, <1>2, <1>3, <1>4, <1>5, <1>6, <1>7, <1>8, <1>9, <1>10 DEF Next, Step

-----------------------------------------------------------------------------
(* The numbers.                                                              *)

LEMMA NumberStep ==
    ASSUME TypeOK, RowInv, VersionsConsecutive, NumberInv, [Next]_vars
    PROVE  VersionsConsecutive' /\ NumberInv'
  <1> USE DEF TypeOK
  <1> DEFINE N == Cardinality(specs)
  <1>n. IsFiniteSet(specs) /\ N \in Nat
    BY SpecsFinite
  <1>1. ASSUME UNCHANGED specs, \A q \in specs : version'[q] = version[q]
        PROVE  VersionsConsecutive'
    BY <1>1 DEF VersionsConsecutive
  <1>2. CASE UNCHANGED vars
    BY <1>1, <1>2 DEF vars, NumberInv
  <1>3. ASSUME NEW r \in Requests, LookUp(r) PROVE VersionsConsecutive' /\ NumberInv'
    BY <1>1, <1>3 DEF LookUp, Goes, NumberInv
  <1>4. ASSUME NEW r \in Requests, NumberVersion(r)
        PROVE  VersionsConsecutive' /\ NumberInv'
    <2>1. version' = [version EXCEPT ![r] = N + 1] /\ pc' = [pc EXCEPT ![r] = "numbered"]
          /\ pc[r] = "missed" /\ UNCHANGED specs
      BY <1>4, LastVersionIsCount DEF NumberVersion, Goes
    <2>2. r \notin specs
      BY <2>1 DEF RowInv
    <2>3. VersionsConsecutive'
      BY <1>1, <2>1, <2>2
    <2>4. NumberInv'
      BY <1>n, <2>1 DEF NumberInv
    <2> QED
      BY <2>3, <2>4
  <1>5. ASSUME NEW r \in Requests, RollBack(r), UNCHANGED specs, r \notin specs
        PROVE  VersionsConsecutive' /\ NumberInv'
    <2>1. VersionsConsecutive'
      BY <1>1, <1>5 DEF RollBack
    <2>2. NumberInv'
      BY <1>5 DEF RollBack, NumberInv
    <2> QED
      BY <2>1, <2>2
  <1>6. ASSUME NEW r \in Requests, InsertSpec(r)
        PROVE  VersionsConsecutive' /\ NumberInv'
    <2>1. r \notin specs /\ UNCHANGED specs
      BY <1>6 DEF InsertSpec, MayInsert, RowInv
    <2>2. CASE Taken(r)
      BY <1>5, <1>6, <2>1, <2>2 DEF InsertSpec
    <2>3. CASE ~Taken(r)
      <3>1. version[r] \in 1..(N + 1) /\ version[r] \notin 1..N
        BY <1>6, <2>3 DEF InsertSpec, MayInsert, Taken, NumberInv, VersionsConsecutive
      <3>2. version[r] = N + 1
        BY <1>n, <3>1
      <3>3. \A q \in Requests : pc[q] # "inserted"
        BY <1>6, <3>2 DEF InsertSpec, MayInsert, NumberInv
      <3>4. NumberInv'
        BY <1>6, <2>1, <2>3, <3>2, <3>3, <1>n DEF InsertSpec, Goes, NumberInv
      <3> QED
        BY <1>1, <1>6, <2>1, <2>3, <3>4 DEF InsertSpec
    <2> QED
      BY <2>2, <2>3
  <1>7. ASSUME NEW r \in Requests, Commit(r) PROVE VersionsConsecutive' /\ NumberInv'
    <2>1. pc[r] = "inserted" /\ specs' = specs \cup {r} /\ UNCHANGED version
          /\ pc' \in {[pc EXCEPT ![r] = "committed"], [pc EXCEPT ![r] = "answered"]}
      BY <1>7 DEF Commit, Goes
    <2>2. version[r] = N + 1 /\ r \notin specs
      BY <2>1 DEF NumberInv, RowInv
    <2>3. Cardinality(specs') = N + 1
      BY <1>n, <2>1, <2>2, FS_AddElement
    <2>4. VersionsConsecutive'
      <3>1. {version[q] : q \in specs'} = (1..N) \cup {N + 1}
        BY <2>1, <2>2 DEF VersionsConsecutive
      <3>2. (1..N) \cup {N + 1} = 1..(N + 1)
        BY <1>n
      <3>3. \A q \in specs : version[q] # version[r]
        BY <1>n, <2>2 DEF VersionsConsecutive
      <3> QED
        BY <2>1, <2>3, <3>1, <3>2, <3>3 DEF VersionsConsecutive
    <2>5. NumberInv'
      BY <1>n, <2>1, <2>3 DEF NumberInv
    <2> QED
      BY <2>4, <2>5
  <1>8. ASSUME NEW r \in Requests, Abort(r) PROVE VersionsConsecutive' /\ NumberInv'
    BY <1>5, <1>8 DEF Abort, RowInv
  <1>9. ASSUME NEW r \in Requests,
               EnqueueJob(r) \/ Die(r) \/ JobFails(r) \/ JobRunsAgain(r)
        PROVE  VersionsConsecutive' /\ NumberInv'
    BY <1>1, <1>9 DEF EnqueueJob, Die, JobFails, JobRunsAgain, Goes, NumberInv
  <1> QED
    BY <1>2, <1>3, <1>4, <1>6, <1>7, <1>8, <1>9 DEF Next, Step

-----------------------------------------------------------------------------
(* The cache.                                                                *)

\* A job that is no cache hit, of a spec that is committed, stays none until it is
\* run again.
LEMMA DeadUntilRunAgain ==
    ASSUME TypeOK, RowInv, [Next]_vars, NEW q \in specs \cap Generators, ~Live(q),
           ~JobRunsAgain(q)
    PROVE  ~Live(q)'
  <1> USE DEF TypeOK, Live
  <1>1. CASE UNCHANGED vars
    BY <1>1 DEF vars
  <1>2. ASSUME NEW r \in Requests, Commit(r) PROVE ~Live(q)'
    BY <1>2 DEF Commit, Goes, RowInv, Requests
  <1>3. ASSUME NEW r \in Requests, JobFails(r) PROVE ~Live(q)'
    BY <1>3 DEF JobFails
  <1>4. ASSUME NEW r \in Requests, JobRunsAgain(r), r # q PROVE ~Live(q)'
    BY <1>4 DEF JobRunsAgain
  <1>5. ASSUME NEW r \in Requests,
               LookUp(r) \/ NumberVersion(r) \/ InsertSpec(r) \/ EnqueueJob(r)
                 \/ Abort(r) \/ Die(r)
        PROVE  ~Live(q)'
    BY <1>5 DEF LookUp, NumberVersion, InsertSpec, EnqueueJob, Abort, Die
  <1> QED
    BY <1>1, <1>2, <1>3, <1>4, <1>5 DEF Next, Step

LEMMA MissStep ==
    ASSUME TypeOK, RowInv, MissInv, [Next]_vars
    PROVE  MissInv'
  <1> SUFFICES ASSUME NEW r \in Generators, NEW q \in before'[r],
                      pc'[r] \in {"missed", "numbered", "inserted", "committed"}
                        \/ r \in specs',
                      hash'[q] = hash'[r]
               PROVE  ~Live(q)'
    BY DEF MissInv
  <1> USE DEF TypeOK
  <1>0. r \in Requests /\ hash' = hash
    BY DEF Requests, Next, Step, vars, LookUp, NumberVersion, InsertSpec, Commit,
           EnqueueJob, Abort, Die, JobFails, JobRunsAgain
  <1>1. CASE before'[r] \subseteq before[r] /\
             (pc[r] \in {"missed", "numbered", "inserted", "committed"} \/ r \in specs)
    <2>1. ~Live(q) /\ q \in specs \cap Generators
      BY <1>0, <1>1 DEF MissInv, RowInv
    <2>2. ~JobRunsAgain(q)
      BY <1>0 DEF JobRunsAgain
    <2> QED
      BY <2>1, <2>2, DeadUntilRunAgain
  <1>2. CASE LookUp(r) /\ Hits(r) = {} /\ UNCHANGED jobs
    BY <1>0, <1>2 DEF LookUp, Hits, Live
  <1>3. LookUp(r) => Hits(r) = {} /\ UNCHANGED jobs
    <2> SUFFICES ASSUME LookUp(r), Hits(r) # {} PROVE FALSE
      BY DEF LookUp
    <2>1. pc[r] = "idle" /\ pc'[r] = "answered" /\ UNCHANGED specs
      BY <1>0 DEF LookUp, Goes
    <2> QED
      BY <1>0, <2>1 DEF RowInv
  <1>4. ASSUME ~LookUp(r)
        PROVE  before'[r] \subseteq before[r] /\
             (pc[r] \in {"missed", "numbered", "inserted", "committed"} \/ r \in specs)
    <2>1. CASE UNCHANGED vars
      BY <2>1 DEF vars
    <2>2. ASSUME NEW s \in Requests, LookUp(s), s # r PROVE <1>4!2
      BY <1>0, <2>2 DEF LookUp, Goes
    <2>3. ASSUME NEW s \in Requests,
                 NumberVersion(s) \/ InsertSpec(s) \/ Commit(s) \/ EnqueueJob(s)
                   \/ Abort(s) \/ Die(s) \/ JobFails(s) \/ JobRunsAgain(s)
          PROVE  <1>4!2
      BY <1>0, <2>3 DEF NumberVersion, InsertSpec, MayInsert, Commit, EnqueueJob, Abort,
                        Die, JobFails, JobRunsAgain, RollBack, Goes
    <2> QED
      BY <1>4, <2>1, <2>2, <2>3 DEF Next, Step
  <1> QED
    BY <1>1, <1>2, <1>3, <1>4

-----------------------------------------------------------------------------
(* The results.                                                              *)

IInv == TypeOK /\ RowInv /\ VersionsConsecutive /\ NumberInv /\ MissInv
        /\ AnswerIsForTheSpec

LEMMA AnswerStep ==
    ASSUME TypeOK, RowInv, AnswerIsForTheSpec, [Next]_vars
    PROVE  AnswerIsForTheSpec'
  <1> USE DEF TypeOK, AnswerIsForTheSpec
  <1>1. CASE UNCHANGED vars
    BY <1>1 DEF vars
  <1>2. ASSUME NEW r \in Requests, LookUp(r) PROVE AnswerIsForTheSpec'
    BY <1>2 DEF LookUp, Hits
  <1>3. ASSUME NEW r \in Requests, EnqueueJob(r) PROVE AnswerIsForTheSpec'
    BY <1>3 DEF EnqueueJob, Goes, RowInv
  <1>4. ASSUME NEW r \in Requests, Commit(r) PROVE AnswerIsForTheSpec'
    BY <1>4 DEF Commit
  <1>5. ASSUME NEW r \in Requests,
               NumberVersion(r) \/ InsertSpec(r) \/ Abort(r) \/ Die(r) \/ JobFails(r)
                 \/ JobRunsAgain(r)
        PROVE  AnswerIsForTheSpec'
    BY <1>5 DEF NumberVersion, InsertSpec, Abort, Die, JobFails, JobRunsAgain
  <1> QED
    BY <1>1, <1>2, <1>3, <1>4, <1>5 DEF Next, Step

\* The invariant all the results below follow from.
THEOREM InductiveInvariant == Spec => []IInv
  <1>1. Init => IInv
    <2> SUFFICES ASSUME Init PROVE IInv
      OBVIOUS
    <2>1. TypeOK /\ RowInv /\ MissInv /\ AnswerIsForTheSpec
      BY DEF Init, TypeOK, RowInv, MissInv, AnswerIsForTheSpec, Requests
    <2>2. VersionsConsecutive /\ NumberInv
      BY FS_EmptySet DEF Init, VersionsConsecutive, NumberInv
    <2> QED
      BY <2>1, <2>2 DEF IInv
  <1>2. IInv /\ [Next]_vars => IInv'
    BY TypeStep, RowStep, NumberStep, MissStep, AnswerStep DEF IInv
  <1> QED
    BY <1>1, <1>2, PTL DEF Spec

\* Every variable keeps its type.
THEOREM TypeCorrect == Spec => []TypeOK
  BY InductiveInvariant, PTL DEF IInv

\* The versions of a project are 1 to the number of its specs, each used once.
THEOREM VersionsAreConsecutive == Spec => []VersionsConsecutive
  BY InductiveInvariant, PTL DEF IInv

\* Whoever is answered is answered with a committed job for its own spec.
THEOREM AnswersMatch == Spec => []AnswerIsForTheSpec
  BY InductiveInvariant, PTL DEF IInv

\* Two live jobs for one spec come from requests that overlapped, or from one that
\* came while the other's job was failed, which has been run again since.
THEOREM RedundancyExplained == Spec => []RedundancyIsExplained
  <1>1. IInv => RedundancyIsExplained
    <2> SUFFICES ASSUME IInv, NEW q \in Generators, NEW r \in Generators,
                        hash[q] = hash[r], Live(q), Live(r), q \in before[r]
                 PROVE  FALSE
      BY DEF RedundancyIsExplained
    <2>1. r \in specs
      BY DEF IInv, RowInv, Live, Requests
    <2> QED
      BY <2>1 DEF IInv, MissInv
  <1> QED
    BY <1>1, InductiveInvariant, PTL

\* A job somebody was answered with has a task, unless its own request has yet to
\* enqueue it or failed before it did.
THEOREM AnsweredHaveTasks == Spec => []AnsweredJobsHaveTasks
  <1>1. IInv => AnsweredJobsHaveTasks
    <2> SUFFICES ASSUME IInv, NEW r \in Requests, NEW q \in answer[r], q \notin arq
                 PROVE  pc[q] \in {"committed", "failed"}
      BY DEF AnsweredJobsHaveTasks
    <2>1. q \in specs \cap Generators
      BY DEF IInv, AnswerIsForTheSpec
    <2>2. pc[q] \notin {"idle", "missed", "numbered", "inserted", "answered"}
      BY <2>1 DEF IInv, RowInv, Requests
    <2>3. pc[q] \in {"idle", "missed", "numbered", "inserted", "committed",
                     "answered", "failed"}
      BY <2>1 DEF IInv, TypeOK, Requests
    <2> QED
      BY <2>2, <2>3
  <1> QED
    BY <1>1, InductiveInvariant, PTL

\* arq never holds a task whose rows are not committed.
THEOREM TasksHaveRows == Spec => []TaskHasRow
  <1>1. IInv => TaskHasRow
    BY DEF IInv, RowInv, TaskHasRow, TypeOK
  <1> QED
    BY <1>1, InductiveInvariant, PTL
==============================================================================
