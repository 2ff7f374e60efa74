--------------------------- MODULE GenerateRequest ---------------------------
(***************************************************************************)
(* POST /projects/{id}/generate (enqueue_generation in routers/projects.py)*)
(* and POST /projects/{id}/specs (create_spec in routers/specs.py) for one *)
(* project: concurrent requests that look a canonical hash up, number the  *)
(* next version of the spec, insert it and start a job for it.             *)
(*                                                                         *)
(* A request is one transaction at READ COMMITTED, the default the engine  *)
(* of core/database.py is created with: each statement sees what the other *)
(* transactions have committed by then, so each statement is a step.  The  *)
(* unique indexes are Postgres': an insert of a value that another open    *)
(* transaction inserted waits for that transaction to end.                 *)
(***************************************************************************)
EXTENDS Naturals, FiniteSets, FiniteSetsExt

CONSTANTS
    Generators,  \* requests to generate
    Drafters,    \* requests to save a draft
    Hashes       \* canonical hashes of the specs they compile to

Requests == Generators \cup Drafters

ASSUME ConstantsAssumption ==
    /\ Generators \cap Drafters = {}
    /\ IsFiniteSet(Requests)

VARIABLES
    pc,          \* where each request is
    hash,        \* the hash the selections of a generation compile to
    version,     \* the version it numbered its spec, 0 before
    answer,      \* the request whose job it was answered with
    specs,       \* application_specs: the requests whose row is committed
    jobs,        \* jobs[r]: the job r inserted, as the cache check tells them apart
    arq,         \* the tasks arq was given, named by their _job_id
    before       \* history: the generations committed when r looked for one, whose
                 \* jobs were not run again since

vars == <<pc, hash, version, answer, specs, jobs, arq, before>>

-----------------------------------------------------------------------------

TypeOK ==
    /\ pc \in [Requests -> {"idle", "missed", "numbered", "inserted", "committed",
                            "answered", "failed"}]
    /\ hash \in [Generators -> Hashes]
    /\ version \in [Requests -> Nat]
    /\ answer \in [Requests -> SUBSET Requests]
    /\ specs \subseteq Requests
    /\ jobs \in [Requests -> {"none", "live", "failed"}]
    /\ arq \subseteq Requests
    /\ before \in [Requests -> SUBSET Requests]

Init ==
    /\ pc = [r \in Requests |-> "idle"]
    /\ hash \in [Generators -> Hashes]
    /\ version = [r \in Requests |-> 0]
    /\ answer = [r \in Requests |-> {}]
    /\ specs = {}
    /\ jobs = [r \in Requests |-> "none"]
    /\ arq = {}
    /\ before = [r \in Requests |-> {}]

Goes(r, from, to) ==
    /\ pc[r] = from
    /\ pc' = [pc EXCEPT ![r] = to]

\* Any status but failed (or cancelled, which nothing writes) is a cache hit.
Live(r) == jobs[r] = "live"

-----------------------------------------------------------------------------
(* The statements of a request.                                              *)

\* Slip: only jobs whose task was handed over already count.
HitsLiveTasks(r) ==
    {q \in specs \cap Generators : hash[q] = hash[r] /\ Live(q) /\ q \in arq}

\* The cache check: the live jobs whose spec has this hash.
Hits(r) == {q \in specs \cap Generators : hash[q] = hash[r] /\ Live(q)}

\* A hit is answered with one of those jobs; a request that misses, and every
\* draft, goes on to number a version.
LookUp(r) ==
    /\ \/ /\ r \in Generators /\ Hits(r) # {}
          /\ Goes(r, "idle", "answered")
          /\ \E q \in Hits(r) : answer' = [answer EXCEPT ![r] = {q}]
       \/ /\ r \in Generators => Hits(r) = {}
          /\ Goes(r, "idle", "missed")
          /\ UNCHANGED answer
    /\ before' = [before EXCEPT ![r] = IF r \in Generators THEN specs \cap Generators ELSE {}]
    /\ UNCHANGED <<hash, version, specs, jobs, arq>>

LastVersion == Max({version[q] : q \in specs} \cup {0})

NumberVersion(r) ==
    /\ Goes(r, "missed", "numbered")
    /\ version' = [version EXCEPT ![r] = LastVersion + 1]
    /\ UNCHANGED <<hash, answer, specs, jobs, arq, before>>

\* Slip: a counter is kept beside the table, and gets back a number never taken.
RollBackHandsBack(r) ==
    /\ pc' = [pc EXCEPT ![r] = "failed"]
    /\ version' = [version EXCEPT ![r] = @ - 1]

\* The transaction ends in an exception: nothing is kept.
RollBack(r) ==
    /\ pc' = [pc EXCEPT ![r] = "failed"]
    /\ version' = [version EXCEPT ![r] = 0]

\* An insert waits for an open transaction that inserted the same version.
MayInsert(r) ==
    /\ pc[r] = "numbered"
    /\ \A q \in Requests : pc[q] = "inserted" => version[q] # version[r]

Taken(r) == \E q \in specs : version[q] = version[r]

\* Slip: no unique index on (project_id, version).
InsertSpecUnchecked(r) ==
    /\ Goes(r, "numbered", "inserted")
    /\ UNCHANGED <<hash, version, answer, specs, jobs, arq, before>>

\* Slip: a version that is taken is waited for as well.
InsertSpecWaits(r) ==
    /\ MayInsert(r) /\ ~Taken(r)
    /\ Goes(r, "numbered", "inserted")
    /\ UNCHANGED <<hash, version, answer, specs, jobs, arq, before>>

\* UNIQUE (project_id, version): the insert fails when the version is taken.
InsertSpec(r) ==
    /\ MayInsert(r)
    /\ IF Taken(r)
       THEN RollBack(r)
       ELSE Goes(r, "numbered", "inserted") /\ UNCHANGED version
    /\ UNCHANGED <<hash, answer, specs, jobs, arq, before>>

\* The commit makes the spec visible and, for a generation, its queued job.
Commit(r) ==
    /\ specs' = specs \cup {r}
    /\ IF r \in Generators
       THEN /\ Goes(r, "inserted", "committed")
            /\ jobs' = [jobs EXCEPT ![r] = "live"]
       ELSE /\ Goes(r, "inserted", "answered")
            /\ UNCHANGED jobs
    /\ UNCHANGED <<hash, version, answer, arq, before>>

\* A statement or the commit fails, or the process dies before the commit.
Abort(r) ==
    /\ pc[r] \in {"missed", "numbered", "inserted"}
    /\ RollBack(r)
    /\ UNCHANGED <<hash, answer, specs, jobs, arq, before>>

\* Slip: the key is made from the hash, and arq drops a task whose key it knows.
EnqueueJobByHash(r) ==
    /\ Goes(r, "committed", "answered")
    /\ arq' = IF \E q \in arq : hash[q] = hash[r] THEN arq ELSE arq \cup {r}
    /\ answer' = [answer EXCEPT ![r] = {r}]
    /\ UNCHANGED <<hash, version, specs, jobs, before>>

\* enqueue_job after the commit, under a _job_id that is the new spec's own.
EnqueueJob(r) ==
    /\ Goes(r, "committed", "answered")
    /\ arq' = arq \cup {r}
    /\ answer' = [answer EXCEPT ![r] = {r}]
    /\ UNCHANGED <<hash, version, specs, jobs, before>>

\* The process dies, or Redis refuses the task, with the job row committed.
Die(r) ==
    /\ Goes(r, "committed", "failed")
    /\ UNCHANGED <<hash, version, answer, specs, jobs, arq, before>>

\* The worker marks the job failed; a job that completes stays a cache hit.
JobFails(r) ==
    /\ r \in arq /\ Live(r)
    /\ jobs' = [jobs EXCEPT ![r] = "failed"]
    /\ UNCHANGED <<pc, hash, version, answer, specs, arq, before>>

\* Its task is handed out again, or it had a second one: a task sets the row
\* running whatever it says.
JobRunsAgain(r) ==
    /\ r \in arq /\ jobs[r] = "failed"
    /\ jobs' = [jobs EXCEPT ![r] = "live"]
    /\ before' = [q \in Requests |-> before[q] \ {r}]
    /\ UNCHANGED <<pc, hash, version, answer, specs, arq>>

-----------------------------------------------------------------------------

\* What a request does once it has begun.
Step(r) == NumberVersion(r) \/ InsertSpec(r) \/ Commit(r) \/ EnqueueJob(r)

Next ==
    \E r \in Requests :
        LookUp(r) \/ Step(r) \/ Abort(r) \/ Die(r) \/ JobFails(r) \/ JobRunsAgain(r)

Spec == Init /\ [][Next]_vars

\* A request that began goes on: the event loop runs it and Postgres answers it.
FairSpec == Spec /\ \A r \in Requests : WF_vars(Step(r))

-----------------------------------------------------------------------------
(* What the requests promise together.                                       *)

\* The versions of a project are 1, 2, 3, ... in the order of their commits,
\* with no version used twice and none left out, whatever raced or failed.
VersionsConsecutive ==
    /\ \A q, r \in specs : version[q] = version[r] => q = r
    /\ {version[r] : r \in specs} = 1..Cardinality(specs)

\* Whoever is answered is answered with a committed job for the very spec it
\* asked for.
AnswerIsForTheSpec ==
    \A r \in Requests : \A q \in answer[r] :
        q \in specs \cap Generators /\ hash[q] = hash[r]

\* A spec whose hash has a live job is answered with that job, there is "no
\* redundant generation" (the comment of the cache check).  It does not hold:
\* two requests that overlap both miss, and a failed job comes back to life.
NoRedundantGeneration ==
    \A q, r \in Generators :
        q # r /\ hash[q] = hash[r] => ~(Live(q) /\ Live(r))

\* What the cache check does give: two live jobs for one spec exist only when
\* neither request could have found the other's job, because they overlapped or
\* the job was failed by then and has been run again since.
RedundancyIsExplained ==
    \A q, r \in Generators :
        q # r /\ hash[q] = hash[r] /\ Live(q) /\ Live(r) => q \notin before[r]

\* Whoever is answered is answered with a job a worker was or will be given: all
\* that can leave it without a task is its own request, which has yet to enqueue
\* it or failed between commit and enqueue.
AnsweredJobsHaveTasks ==
    \A r \in Requests : \A q \in answer[r] :
        q \notin arq => pc[q] \in {"committed", "failed"}

\* The worker is never given a task whose job row may not exist: a request that
\* failed before its commit has left nothing behind in arq.
TaskHasRow == \A r \in arq : r \in specs /\ jobs[r] # "none"

\* No request waits for another for ever: each is answered or fails.
EveryRequestEnds ==
    \A r \in Requests :
        pc[r] # "idle" ~> pc[r] \in {"answered", "failed"}

==============================================================================
