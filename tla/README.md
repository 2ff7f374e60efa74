# VibeForge in TLA+

TLA+ modules, TLC configurations and TLAPS proofs for the parts of VibeForge in
which something happens at the same time as something else, or after something
failed. Paths below are relative to the repository.

## 1. The system

A tenant's browser or UI talks to the API (FastAPI, Postgres, Redis). The API
stores specs and jobs and hands tasks to arq; a worker takes a task, runs the
generation graph (LangGraph, checkpointed in Postgres), writes the job's events
to Postgres and publishes them on a Redis channel that the API forwards to
browsers. The graph calls an LLM through the planner, synthesizer, reviewer and
fixer, and delivers its tree of files to Gitea and MinIO. Beside this path stand
services that other services would call: capacity, sandbox, ingestion,
retrieval, the semantic cache, the escalation memory and gate.

| Component | State it keeps | Operations | Talks to | Hard to get right |
|---|---|---|---|---|
| generation graph, `agents/graphs/generation_graph.py` | `GenerationState`, checkpointed after each node | ten nodes, two routers, `run_generation_job` | assembler, reviewer, fixer, Gitea, MinIO, checkpointer | the bounded fix loop, stale plans and verdicts, death between nodes, partial delivery |
| assembler, `agents/generation/assembler.py` | none (file ownership within a call) | `assemble`, `apply_fixes` | called by the graph | who owns a path two modules emit, protected paths, unplanned fixes |
| reviewer, fixer, `agents/generation/reviewer_fixer.py` | none | `review`, `fix` | LLM | answers that name other files, or none; failures half way |
| job API, `services/api/routers/jobs.py` | `jobs` rows | `create_job`, `submit_gap_answers`, readers | Postgres, arq | status checked in one transaction and written in another; commit before enqueue |
| stream, `services/api/routers/stream.py` | a subscription per client | `stream_job_events` | Postgres, Redis pub/sub | joining while the job ends |
| worker task, `services/worker/tasks/generation.py` | `jobs` row, `job_events` | `generate_spec` | graph, Postgres, Redis | statements outside the try, cancellation, re-delivery, failing failure handler |
| project and spec API, `routers/projects.py`, `routers/specs.py` | `application_specs`, `jobs` | `enqueue_generation`, `create_spec` | Postgres, arq | cache check and version number raced by other requests |
| capacity, `services/capacity/capacity.py` | counters, queues, marks in Redis | `acquire`, `release`, `status` | Redis | check-then-decrement, queue order, lost slots |
| Gitea and MinIO clients, `services/delivery/` | a repository, a bundle | `push_files`, `upload_bundle` | HTTP | file-by-file upserts of two jobs of a project |
| ingestion, `services/ingestion/ingestion.py` | Qdrant points, `ingested_docs` | polling loop | MinIO, Qdrant, Postgres | crash between the two stores |
| semantic cache, `agents/cache/semantic_cache.py` | entries by key | `lookup`, `write`, `invalidate` | | one entry per key for all tenants, expiry, promotion |
| escalation memory, `agents/memory/escalation_memory.py` | records by fingerprint | `lookup`, `store_success`, `record_reuse` | Qdrant | replacing a record another job is trying, promotion |
| escalation gate, `agents/memory/escalation_gate.py` | none; the caller keeps `escalation_used` and the budget | `evaluate` | commercial LLM | one call per job, a budget several jobs read before one has paid |
| option graph, spec IR, `agents/option_graph/engine.py`, `core/spec_ir.py` | a spec, never changed in place | `evaluate_selection`, `get_section_status`, `apply_delta`, `freeze` | | deltas made from an old version, lists that are replaced, the lock |
| wizard, editor, validator, `agents/conversation/` | a turn while it lasts | `process_turn`, `process_amendment`, `validate` | LLM through the harness, retrieval, metacognition gate | turns that await while the spec changes |
| metacognition gate, `agents/gates/metacognition.py` | the log of its decisions | `evaluate_retrieval`, `evaluate_escalation`, `record_outcome` | | outcomes recorded much later than decisions |
| planner, synthesizer, `agents/generation/planner.py`, `synthesizer.py` | none | `plan`, `synthesize_module` | LLM through the harness | which errors fall back to what, order of modules, ids |
| harness, LLM client, `agents/harness/structured_output.py`, `agents/llm_client.py` | attempts of a call | `call` | LLM | repairs, exceptions that pass through |
| auth, budget, retrieval, sandbox, UI, infrastructure | caches, rows | | | see PROJECT.json |

What makes the modelled components correct:

* graph: nothing is delivered unless the last gate run passed this very tree; at
  most `MAX_FIX_ITERATIONS` repairs; a human gets a job only when they are used
  up; no emitted file vanishes unrecorded; every run stops.
* jobs, worker and stream: a completed row is backed by a delivered run whose
  events are all stored; a client sees nothing a replay would not show; a live row
  has somebody who will move it; every job settles unless a named fault lost it.
* projects and specs: versions 1, 2, 3 ... without gap or repetition; an answer
  names a committed job for the very spec asked for, and one that has or gets a task
  unless its own request failed; nobody waits for ever.
* specification and conversation: a card takes back nothing that was changed
  elsewhere since it was made; what the sheet offers can be selected; an outcome
  is recorded for the decision it came from; a lock is final; turns end.
* cache and memory: a tenant gets what is its own or was shared by enough reuses,
  and never what was replaced or has expired.
* escalation: one commercial call per job, only where both gates agree; a budget
  is overdrawn by no more than the calls under way can cost.
* ingestion: a row stands for complete vectors, and other vectors under its key come
  from torn ingestions only; nothing is ingested twice;
  everything that can be ingested is, in the end.
* planning: modules can be built in some order, and each gets its own files.

## 2. Modules

| Module | What it is |
|---|---|
| `GatedDelivery` | abstract: build, judge, repair at most `Limit` times, deliver only what was accepted last |
| `GenerationGraph` | the LangGraph pipeline; implements `GatedDelivery` |
| `GenerationGraphProofs` | its theorems, and those about `ModulePlan` |
| `JobService` | job API, worker task, event stream and the row, table, queue and channel they share |
| `JobServiceProofs` | its theorems |
| `GenerateRequest` | concurrent generate and draft requests of one project |
| `GenerateRequestProofs` | its theorems |
| `Capacity` | concurrent acquire and release calls on one slot type in Redis |
| `CapacityProofs` | its theorems |
| `SpecIR` | the specification: deltas, merging, lock and hash |
| `OptionGraph` | eligibility, bindings and the patch of a selection |
| `MetacognitionGate` | the rules of the gate and its log |
| `SpecDialogue` | users, option sheet, agents and cards around one specification; composes the three above |
| `SpecDialogueProofs` | its theorems |
| `GatedSharing` | abstract: results belong to a tenant until reuse has shared them |
| `SemanticCache` | the cache; implements `GatedSharing` |
| `SemanticCacheProofs` | its theorems |
| `Escalation` | jobs between escalation memory and escalation gate; implements `GatedSharing`, composed with `MetacognitionGate` |
| `EscalationProofs` | its theorems |
| `Ingestion` | the poll loop between MinIO, Qdrant and Postgres |
| `IngestionProofs` | its theorems |
| `ModulePlan` | planner and synthesizer under their two callers |
| `MC...` | instances for TLC |

Operators whose comment begins with "Slip:" are wrong variants of the definition
below them, the bug a hurried change could bring. They are used by nothing; a
property is trusted only because it fails with one of them in place
(`PROJECT.json`, "mutants").

### GenerationGraph

One action is one node. A node works on a copy of the state and the graph stores
what it returns, so a node that does not finish leaves nothing but what it did
outside: that is why `Crash` changes only `stored`, and only in `deliver_node`.
`node` is the node the checkpoint says comes next; the other variables are
fields of `GenerationState` (`fixIter` is `fix_iteration`, `modules` the length
of `module_plan`, and so on). A file's content is who wrote it and in which
round, which is what the properties tell apart. `stored` says which of Gitea and
MinIO hold the tree; `judged` is a history variable, the tree as the last gate
run saw it.

What the code does and the model keeps, although a reader may not expect it:

* `node_gate` as shipped passes every tree. Everything behind a failing verdict
  is written for the gate that will replace it and is exercised by
  `tests/test_fix_loop.py` with a replaced gate; the verdict is therefore a
  parameter, `GateVerdicts`. No gate looks at `assembly_conflicts`, although
  `assembler.py:9` and `:56` say a conflict fails the build.
* `_route_gate` cannot reach `failed_node`: `node_gate` always sets a result.
* `escalation_approved` is set by nothing under `src/`, so the runs have
  `EscalationApproved = FALSE`; the proofs cover both values where they can.
* A second invocation of a job starts at START with a fresh state, in spite of
  the checkpoint and of the docstring at `generation_graph.py:111-112`.
* Push and upload failures are logged and the job is delivered all the same, with
  its URLs recorded. `sbom.json` is added after the gate.
* `.github/workflows/ci.yml` normalises to `github/...`, so this scaffold file is
  not protected; a `Dockerfile` without a suffix fails `_validate_path` and is
  dropped with a note `node_assemble` discards. `Paths` are the accepted ones.

### JobService

The row (`status`, `message`), the table `job_events`, one task per request that
enqueued one, and one subscription per client. Every statement of
`generate_spec` is an action, because any of them can raise and other processes
run in between. `RequestDies`, `Connect` (failing), `MarkFailed` (failing twice)
and `Cancel` are the faults that lose a job; they set the history variable
`lost`, so that the properties can say "unless a fault lost it" and mean these and
no others. `WorkerDies` is the fault that does not lose it: arq hands the task
out again.

The module models `generate_spec` as `tasks/generation.py` defines it. As the
repository stands `worker.py` does not register it, its own `run_generation`
imports a function that does not exist, `jobs.py` reads a table `specs` and
writes a status `paused_human` that `01_schema.sql` does not have, and
`_build_llm_client` imports a module that does not exist and falls back to no
LLM. None of these has states; they are listed here and not modelled.

### GenerateRequest

A request is a transaction at READ COMMITTED, one action per statement. The
unique index of `application_specs` is modelled by what Postgres does: an insert
waits while another open transaction holds the value and fails when that commits.
`before[r]` is a history variable, the generations that were committed when `r`
looked for one, less those whose jobs have been run again since. Of a job the model
keeps what the cache check reads: whether it is live, that is neither failed nor
cancelled. `failed` is not final: a task that arq hands out again, and the second
task of a job that was answered twice (finding `job_dispatch`), sets the row running
whatever it says (`generation.py:123-126`, `JobRunsAgain`). Requests differ in nothing but the hash their selections compile
to. In a commit a job appears together with its spec, which is why `jobs` is
changed by `Commit` and not by the insert.

### Capacity

One action is one Redis command. `dirty` is what Redis keeps for a connection
that WATCHes the counter: the key was written since, and EXEC will do nothing.
`pc` says how far a call has come; a call in `dead` stays where its process died.
`repeated` and `retries` are history variables, whether a release was repeated and
which calls came with `is_retry`. `acquire` may be called at any time and several times for a job,
as a job that polls does; `release` is called for a job that was granted a slot,
also more than once, as a caller without an answer does. Nothing under `src/` calls
either.

What the code does and the model keeps: a request that is refused leaves its
entry in the tenant's list, and nothing but a later grant to the same job takes it
out; nothing is granted from the list; the mark of a granted job (`active`) is
read by nobody, so that when it expires the slot is *not* released, although
`capacity.py:154` says so. `CounterIsExact`, which is proved and checked by no run,
says what the counter counts as long as no job is released twice: a slot whose job
never calls `release` stays taken. With a repeated release it goes below zero
(finding `capacity_below_zero`). `RetriesStandBehind` likewise is about places in a
list, and says nothing about who is granted a slot: a retry takes a free one while
fresh jobs wait.

### SpecIR, OptionGraph, MetacognitionGate, SpecDialogue

The first three hold operators and no variables: a specification is a value, and
the engine and the rules of the gate are functions. A path of the specification
is a model value; what stands there is a list of named items or a scalar; `Junk`
is what a model can write and no field takes, so that a merge may fail to
validate. `SpecDialogue` has the variables. One action is what happens between two
awaits: a turn reads its context and asks (`WizardTurn`, `Amend`, `Validate`),
retrieval and model answer, do not parse or raise (`RetrievalReturns`,
`ModelAnswers`, `ModelUnparsable`, `ModelRaises`), the user accepts or rejects the
card, and between any two of these another user acts, an option is selected, or
the specification is locked. `turn[u].attempts` is the loop variable of the
harness. `applied` is a history variable, the deltas in their order.

What the code does and the model keeps: a model call that raises (`RuntimeError`
of the client) passes through wizard and editor, so the turn is lost and its
decision has no outcome; the bindings of an option build their patch from nothing
and lists are replaced, as `_deep_merge` documents, so that selecting an option
replaces the entities gathered before, which `LastWriterWins` allows; no
tier 1 arbiter is wired; a key with a dot in it, which the prompts ask for, is dropped by the
merge, so that an accepted card may change nothing. `get_live_impact` adds up counts over options and counts
an entity twice that two options add; nothing is decided by it and it is left out.

`PackIsConsistent` is what the option packs of the repository keep to and
`from_pack_dir` does not ask for: no option conflicts with itself, no operation is
unknown, nothing is appended to a path that was set to a scalar, and the list of
entities is only appended to. `SheetIsTrue` depends on it. Without the first, an
option would be offered and then refused, because the context of a selection
holds the option itself; without the others, a selection could raise, or announce
entities its patch does not have. TLC evaluates it as an assumption of
`MCSpecDialogue`.

### GatedSharing, SemanticCache, Escalation

Entries and records are objects in a heap, and the dictionary or the list of the
store points to some of them, because a job may hold one that has been replaced.
`served` is a history variable. In `SemanticCache` an action is one call of the
public API, which never awaits inside; a look-up without a tenant (`Anyone`) sees
everything, as `lookup_exact` does with the empty string. In `Escalation` a job
goes through the calls in the order the docstrings of both modules prescribe to
their caller; no node of the graph makes them yet (`node_escalation_gate` hands
every job to a human). The caller sets `escalation_used` and keeps the budget; a
failing call may have been paid for, and is reported like an empty budget. A
tenant's failing job may be tried again (`tries`). The order of the calls and the loop are
therefore those of the caller the docstrings describe, and only the memory and the
gate are code: no property says that a job comes to an end.

The Qdrant store behind the same interface is not modelled: `increment_reuse`
uses `Filter`, `FieldCondition` and `MatchValue`, which only `lookup` imports for
itself, so each call raises and the service logs it; and `store` never replaces a
record by fingerprint. The in-memory store is the default, and the one the tests use.

### Ingestion

One action is one call to MinIO, Qdrant or Postgres. A poll takes the listed
objects in any order (MinIO lists by name). A text is a name and a number of
words, and a point is the text's name and the numbers of its words, which makes
`chunk_text` exact. `Effect` is what a call may have done although it raised or
the process died. A crash between a collection and its index leaves a collection
without one for good, which `TypeOK` says with `indexed \subseteq collections` and
not the other way round. No point is ever deleted: `torn` is a history variable, the
texts that a fault stopped between upsert and insert, and when a shorter text takes
the place of one of them the longer one's last points stay behind it, with its
`chunk_total`. `LeftoversAreTorn` says that nothing else leaves any; an object put again under a key that has a row is not
read again, as `ingest_object` says.

### ModulePlan

`plan` and `outputs` are the two lists that go from planner to synthesizer to
assembler. Both callers are modelled: the graph, which catches everything, and a
program that uses the agents alone and catches nothing. What the code does and
the model keeps: `node_plan` drops `build_order`, so the graph synthesizes in the
order of the list; `_validate_dag` looks up the *last* module of an id; the ids of
the fallback collide for names that differ in case; with a model the graph's
modules all become failure stubs without the model being asked
(`GraphSynthesizesStubs`). An order the
planner's model writes may be any integer, as its schema lets it. The interfaces
extracted from earlier modules are prompt text and left out. `PlanningSpec` is the
program without fairness, `FairPlanningSpec` the program that goes on; they are named
so that one module of proofs can extend `ModulePlan` beside `GenerationGraph`.

## 3. Runs

| Run | Instance | Shows |
|---|---|---|
| `generation_graph` | two paths (a protected scaffold file and a source file), two modules, four verdicts, three repairs, two invocations | invariants, the action property, termination and that the graph implements `GatedDelivery` |
| `job_service` | one creator, two answers, one client, two events, two hand-outs | the invariants and that jobs settle |
| `generate_request` | three generations, a draft, two hashes | the invariants and that requests end |
| `capacity` | one slot, two jobs of a tenant, one of which calls twice and is released twice | the invariants and that calls end |
| `spec_dialogue` | two users, four options that append, set, require and conflict, two retrieval contexts, a proposal with a nested and a dotted key and a malformed one | the invariants, that a lock is final and that turns end |
| `semantic_cache` | two tenants and nobody, two keys, two entries, three ticks | that the cache implements `GatedSharing` and hits are current |
| `escalation` | three jobs of one tenant, one of another, two similar fingerprints, sharing after two reuses | the invariants and `GatedSharing` |
| `ingestion` | two tenants' documents and a loose object, four texts, three uploads, two faults | the invariants, that nothing is ingested twice and everything in the end |
| `module_plan` | no, one or two entities (ids colliding), eight answers of the planner | that plans can be built and modules get their files |
| `job_dispatch` | as `job_service` | a race |
| `generate_twice` | as `generate_request` | two jobs for one spec |
| `capacity_below_zero` | as `capacity` | a counter below zero |

Bounds. `MaxFix = 3` and `RecursionLimit = 25` are the code's values. Two paths
are enough for a conflict, an unplanned fix and a protected file; two modules for
two writers of a path; two invocations for a state that survives a crash. In
`JobService` the bound `MaxHandouts` caps what arq hands out (guards of `Requeue`
and `WorkerDies`): two hand-outs are two tasks at once, or one task and its
repetition, and every race found needs no more. Three requests and a draft make
two waiters behind one holder of a version. One slot and three calls make two that
try for it at once and one that frees it; a second call of one job is needed for
two entries of a job in a list, a second release for a counter below zero. Other
tenants touch the counter only, which the calls of one tenant do as well.

In `spec_dialogue`, `MaxVersion` (guards of `SelectOption` and `Accept`) leaves room
for two deltas, one of which makes the other's card old; `MaxDecisions` (guard of
`WizardTurn`) for two turns at once. In `semantic_cache`, `MaxEntries`, `MaxHits` and
`MaxTime` bound the heap, the counts and the clock: two entries are one replaced by
the other, three hits share one, and three ticks let one expire after it was
hit. In `escalation`, `MaxAttempts` is how often a job is tried again; three jobs
of a tenant are one that stores and two that reuse, and the fourth gets what they
shared; two estimates exceed each budget. In `ingestion`, `MaxPuts` and `MaxFaults`
bound uploads and faults: three uploads replace a long text by a short one beside
another document, and two faults are a crash on the way and a failure of the
repetition. Chunks of four words with an overlap of one cut seven words into
three. `module_plan` needs no bound.

The three violations are disagreements between code and documentation; each is
described under "findings" in `PROJECT.json` with both sides quoted. Further
disagreements were seen while modelling and have no run of their own:

* `tests/test_fix_loop.py:276` wants the fixer to start with gate errors; a plan
  that names files without instructions starts it with none
  (`reviewer_fixer.py:69`, `generation_graph.py:607`).
* `assembler.py:225` says `apply_fixes` regenerates only the files of the plan; it
  writes every file of every answer (243).
* `stream.py:109` subscribes after reading the status: a job that ends in between
  leaves a stream that is never closed, against 50-52.
* `capacity.py:8` and `:133-136` say slots are granted first in first out per tenant
  and retries do not overtake; the list is never consulted (149), and whoever calls
  while a slot is free gets it.
* `capacity.py:154` says the slot of a crashed job is released after 30 minutes; only
  its mark goes (`Expire`), and nobody reads that.
* `domain_wizard.py:58-59` and `spec_editor.py:68` ask the model for dotted keys.
  `_deep_merge` (`spec_ir.py:541`) takes such a key for a top-level one and validation
  drops it (491): an accepted card raises the version and changes nothing.
* `synthesizer.py:507` says a stub is what remains when all three attempts of the
  harness failed. The graph's modules have no `spec_paths` (`generation_graph.py:322`,
  `synthesizer.py:375`), so that with a model every module of every run becomes a
  failure stub and the model is not asked once; `GraphSynthesizesStubs` proves it.
* `generation_graph.py:111-112` says a killed job resumes from its checkpoint.

Deadlock. Every system here may stop: no more invocations, a job at rest, all
requests or calls answered, a bound reached. `CHECK_DEADLOCK FALSE` says so; that nothing stops too early is
what `EveryRunStops`, `EveryJobSettles`, `EveryRequestEnds`, `EveryCallEnds`, `TurnsEnd`,
`EveryDocumentIsIngested` and `EveryModuleGetsItsFileMap` are for.

Fairness. `WF(NodeStep)`: the graph's loop goes on to the next node, and the calls
a node makes have timeouts. `WF(RequestStep)`, `WF(TaskStep)`, `WF(ClientStep)`:
asyncio runs what is ready, arq polls its queue, and a database call answers or
raises (raising is an action). `WF(Step)` for a request likewise, and a request
that waits for an index entry is not enabled while it waits; and for a call of
`Capacity`, whose loop over WATCH and EXEC is no step of its own but comes to an end
because an EXEC fails only when another call wrote the counter, which each call does
once. `WF(Replies)` for a turn: the harness awaits a client with a timeout, so a
call is answered or raises. `WF(ServiceStep)` in
`Ingestion`: `poll_loop` never ends and its container is started again. `WF(Next)` in
the `FairPlanningSpec` of `ModulePlan`, one sequential program. No fairness is
assumed for faults, for users, or for the beginning of anything.

## 4. Proofs

`GenerationGraphProofs` proves, for every ceiling, set of paths and set of
verdicts, from `ConstantsAssumption` alone:

* `TypeCorrect`, then `InductiveInvariant`: `IInv == TypeOK /\ FixCeiling /\
  NodeInv /\ StatusInv`. The safety properties are not inductive: that a
  delivered tree was judged follows only if one knows that in front of
  `deliver_node` the gate has passed and nothing has changed since, and that the
  two counters agree in front of the fixer only if the plan there is the one of
  this iteration. `NodeInv` says this node by node, `StatusInv` says what the
  status implies once the run has gone on.
* `FixCeilingHolds`, `DeliveredTreeIsJudged`, `HandedOverExhausted`,
  `PlanStaysCurrent` and the action property `StoresHoldGatedTrees` follow.
* `RecursionLimitHolds` has a counting invariant of its own, `StepsInv`, and two
  assumptions: no escalation is approved (with one the code really can go round
  once more for each approval) and `6 + 3 * MaxFix <= RecursionLimit`, which the
  code's 3 and 25 satisfy.
* `EmissionsAccounted` needs `EmissionInv`: the account of the first assembly holds
  in front of the gate and, as long as nothing was fixed, in front of the escalation
  gate too, because with a ceiling of zero an approval sends the very same tree back.
* `Refinement`: `Spec => KeepsPromise`, the refinement of `GatedDelivery` under
  the mapping `StageTable`; each node is one abstract step or a stutter, a run of
  nodes that build the first tree is one `Build` each.

The last part of the module is about `ModulePlan`, because `GenerationGraph` builds on
what `node_plan` and `node_synthesize` leave (`GraphSynthesizesStubs`). All it assumes
is `InputsAssumption`: entity names come in lists, and answers are lists with integers
for orders, as the schemas have it. Nothing is assumed about ids, dependencies or
the order itself.

* `PlansAreBuildable`. `Buildable` says without naming an order that whichever
  modules wait, one of them has all it depends on built. `BuildableByRank` shows it
  of every list whose modules have ranks above the ranks of what they depend on. For
  a plan `_validate_dag` lets through, the rank of a module is how many modules have a
  smaller order, since orders may be negative; the code looks at the last module of an
  id, so that is the one the dependency finds (`LastOfId`). For both fallbacks the rank
  is the place in the list; they go through three modules for each entity
  (`BuildableByThrees`) and ids may collide.
* `FileMapsFollowPlan` is the safety half of `EveryModuleGetsItsFileMap`.
* The invariant is `PlanningInv`. Its part for the graph, `GraphInv`, says that no
  module has paths, which is what keeps the synthesizer from ever asking a model.

`JobServiceProofs` proves four safety properties of the job service for any number
of answers, clients, events and hand-outs, from `ConstantsAssumption`, by one
inductive invariant whose parts are:

* `TaskInv` and `OutcomeInv`: where each task is, and that its attempts are at most
  the workers that died and one (`HandoutCounted` counts the requests behind it).
* `StoredInv`: how far a task has come says which events of its run `job_events`
  holds. Rows are never deleted (`Growing`), so `SeenIsPersisted` and
  `CompletedIsBacked` are kept by every step.
* `OwnerInv`: a live row has an owner in a stronger sense than `LiveRowHasOwner`: a
  task that is past its row update does not count, or the step that ends such a
  task could leave a row with nobody.
* `ClientInv`: a listening client has seen, of every run that is being streamed, the
  events from some first one on up to where the task is (`SinceNone`, `SinceNext`,
  `SinceOther`). `CompleteStreamHasNoGap` follows only from this chain.

`GenerateRequestProofs` proves the safety properties of `GenerateRequest` for any
number of requests and hashes. `VersionsConsecutive` says the versions are `1..n`
for the `n` committed specs, so the last version is a cardinality
(`LastVersionIsCount`) and no induction over `Max` is needed. `NumberInv` says
that a request that has inserted holds version `n + 1` and is the only one that
has, which is the unique index at work; `MissInv` says that what a request did not
find when it looked was not live, and is not before it is run again
(`DeadUntilRunAgain`), from which `RedundancyIsExplained` follows. `RowInv` says where
a row and a task are from where its request is, which gives `AnsweredJobsHaveTasks`
and `TaskHasRow`.

`CapacityProofs` proves the limit and the account of the lists for any number of
jobs, tenants and calls. The limit needs `SawRoom`: a call in front of its EXEC has
either seen a counter below the limit that still stands, or is dirty. The account
needs no strengthening but lemmas about the list commands: what RPUSH, LPUSH and
LREM do to the number of places of a job (`PlacesOfAppend`, `PlacesOfCons`,
`PlacesOfRemoveFirst`), each by a bijection between index sets. `CounterStaysExact`
would need a sum over jobs to say that no job was released more often than it
acquired; instead `MatchInv` says that each release that has begun can be given a
taken slot of its job, none twice, and a release that begins finds one that is left
(`UnmatchedSlot`). `RetriesAlwaysBehind` needs that no list command moves two
entries past each other (`Before`), and that a call that has come stays the kind of
call it was (`RetriesInv`).

`SpecDialogueProofs`, from `SpecAssumption` and `DialogueAssumption`. `SpecInv`
says for every path whether and by which applied delta it was last written
(`Written`); merging a patch keeps that, path by path, and the lock touches no
content, from which `LastWriterAlwaysWins` and `LocksAreFinal` follow. `TurnInv` adds to
`OutcomeIsOfItsTurn` the types of turns and log and that two wizard turns never
have one decision, which is what makes an outcome safe from the other turns.
`SheetStaysTrue` is about the engine. What the bindings of an option make of the
patch is a recursive function (`Applied`). That it exists, and that `Counted` (the patch
has as many entities as were counted, and a scalar only where one was set) holds
after each binding, is shown by looking at the least number of bindings for which it
does not, which `WellFoundedInduction` gives without an induction theorem. It
assumes `PackIsConsistent`.

`SemanticCacheProofs` and `EscalationProofs` prove that both stores implement
`GatedSharing`, each step one `Store`, one `Use` or a stutter. For the cache the
invariant is `TypeOK` (the dictionary points to entries of the key, a shared entry
has its hits) and, for `HitsStayCurrent`, that the entry a key points to is the
last one written for it. For the escalation memory it is `TypeOK`, with one record
for each fingerprint of a tenant, and the type of a job. `CallsStayLicensed` needs
`CallInv` (a job has made a call only when it is marked) and the assumption
`Estimate > 0`: with an estimate of zero and an empty budget the escalation gate
approves what the metacognition gate does not. `OverdraftStaysBounded` needs
`BudgetInv`: what a tenant has left and an estimate for each of its calls that have
come back is at least one estimate once a call was made, because the gate compared
before marking; the bound follows since calls that came back are among the marked.
It assumes finitely many jobs and that a call costs at most its estimate.

`IngestionProofs`, from `IngestionAssumption`: the object the service works on has no
row, and in front of the insert its points are those of the text in hand
(`Holds`). What a call may do, alone or with a fault, is one lemma
(`EffectKeepsStores`). `RowsStayComplete` also needs that chunks leave no word out,
for any chunk size, overlap and length (`ChunksCover`). `LeftoversOnlyTorn` has an
invariant of its own, `OriginInv`: every point is counted by a row, or a chunk of a
torn text, or one of the text in hand whose row comes next.

Only model-checked: liveness, because TLAPS cannot do `ENABLED`: `EveryRunStops`,
`EveryJobSettles`, `EveryRequestEnds`, `EveryCallEnds`, `TurnsEnd`,
`EveryDocumentIsIngested` and `EveryModuleGetsItsFileMap`. Of four of them a theorem
states the half that is safety, why what goes on comes to an end: `RecursionLimitHolds`
bounds the nodes a run visits; `CallsDoNotLoop` says that a call goes back to its
WATCH only because another call wrote the counter, which each does once;
`TurnsShorten` counts the replies a turn may still get (`Remaining`), of which every
change of the turn leaves fewer; and `FileMapsFollowPlan` says what a synthesis that
is done has done.

Proved, and therefore checked by no run any more:
`FixCeiling`, `HandedOverOnlyWhenExhausted`, `NothingStoredUngated`, `SeenIsPersisted`,
`AnswerIsForTheSpec`, `TaskHasRow`, `CounterIsExact`, `RetriesStandBehind`, and the
type invariant of `SemanticCache`.

## 5. Plan

Done: the graph, jobs, requests and capacity; specification and conversation;
cache and escalation memory with their common abstraction; escalation; ingestion;
planning; proofs of the safety properties of all of them. Left, in this order:

1. A file-by-file model of pushing to a shared repository, composed with the
   deliver step of `GenerationGraph`.
2. The gap dialogue: answers of several requests against one specification.

## 6. Not modelled

The delivery clients (HTTP against Gitea and MinIO; two jobs that push file by file
to one repository can mix their trees, `gitea_client.py:53`), the sandbox service
(no caller; it starts a build before it records it, `sandbox.py:124`),
authentication (an unknown key drops the cached key set for everybody,
`auth.py:73`, which costs a refetch), retrieval and budget (readers), the domain
pack compiler (a pure translation), the schema, the UI, scripts, metrics and
infrastructure. `worker.py:94` imports a function that does not exist. The
reasons stand with each component in `PROJECT.json`.
