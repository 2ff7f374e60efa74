--------------------------- MODULE JobServiceProofs ---------------------------
(***************************************************************************)
(* Proofs about JobService, for any number of answers, clients, events and *)
(* hand-outs.                                                              *)
(***************************************************************************)
EXTENDS JobService, FiniteSetTheorems, TLAPS

-----------------------------------------------------------------------------
(* The inductive invariant, in parts.                                        *)

Started   == {"taken", "connected", "running"}
Streaming == {"writing", "publishing"}
Streamed  == {"closing", "finishing"}

\* A task exists from the answer of its request on, and every hand-out after the
\* first is the work of a crash.
TaskInv ==
    /\ crashes + 1 <= MaxHandouts
    /\ \A r \in Requests :
        /\ request[r] # "answered" => task[r] = "none"
        /\ try[r] <= crashes + 1
        /\ task[r] = "none" => try[r] = 0
        /\ task[r] = "queued" => try[r] <= crashes
        /\ task[r] \in Working => try[r] >= 1
        /\ IF task[r] \in Streaming THEN at[r] <= NEvents ELSE at[r] = 1

\* What the pipeline returned to a task that streams its events.
OutcomeInv ==
    \A r \in Requests :
        task[r] \in Streaming \cup Streamed =>
            /\ outcome[r] \in Outcomes
            /\ outcome[r] = "delivered" => TheRun(r) \in runs

\* The events of a run are stored in their order, and none before it streams.
StoredInv ==
    \A r \in Requests :
        /\ \A k \in 1..MaxHandouts : \A n \in 1..NEvents :
            <<<<r, k>>, n>> \in jobEvents =>
                k <= try[r] /\ (task[r] \in Started => k < try[r])
        /\ task[r] \in Streaming => \A n \in 1..(at[r] - 1) : <<TheRun(r), n>> \in jobEvents
        /\ task[r] = "publishing" => <<TheRun(r), at[r]>> \in jobEvents
        /\ task[r] \in Streamed => \A n \in 1..NEvents : <<TheRun(r), n>> \in jobEvents

\* Somebody will move a live row, and is not about to stop without doing so.
Owner(r) ==
    \/ request[r] = "committed"
    \/ task[r] \in (Working \ {"telling"}) \cup {"queued"}

OwnerInv == status \in {"queued", "running"} => lost \/ \E r \in Requests : Owner(r)

\* Of the run, the set has the events from some first one up to, not including,
\* next.
HasSince(events, run, next) ==
    \E first \in 1..next : \A n \in 1..NEvents :
        (n >= first /\ n < next) <=> <<run, n>> \in events

ClientInv ==
    \A c \in Clients :
        /\ client[c] \in {"idle", "replaying", "joining"} => seen[c] = {}
        /\ told[c] # "none" => client[c] = "closed"
        /\ client[c] = "listening" =>
            \A r \in Requests :
                /\ task[r] \in Streaming => HasSince(seen[c], TheRun(r), at[r])
                /\ task[r] = "closing" => HasSince(seen[c], TheRun(r), NEvents + 1)

-----------------------------------------------------------------------------
(* Hand-outs.                                                                *)

\* While a request is about to enqueue, or a task exists, it is counted.
LEMMA HandoutCounted ==
    ASSUME TypeOK, NEW r \in Requests, request[r] = "committed" \/ task[r] # "none"
    PROVE  Handouts \in Nat /\ Handouts >= crashes + 1
  <1> DEFINE S == {q \in Requests : request[q] = "committed" \/ task[q] # "none"}
  <1>1. IsFiniteSet(Requests)
    <2>1. Requests = Answers \cup {Creator}
      BY DEF Requests
    <2> QED
      BY <2>1, ConstantsAssumption, FS_AddElement
  <1>2. IsFiniteSet(S) /\ S # {}
    BY <1>1, FS_Subset
  <1>3. Cardinality(S) \in Nat /\ Cardinality(S) # 0
    BY <1>2, FS_CardinalityType, FS_EmptySet
  <1> QED
    BY <1>3, ConstantsAssumption DEF Handouts, TypeOK

\* Where tasks are and how often they were handed out.
LEMMA TaskStepInv ==
    ASSUME TypeOK, TaskInv, [Next]_vars
    PROVE  TaskInv'
  <1> USE DEF TypeOK, TaskInv, Working, Streaming
  <1> USE ConstantsAssumption
  <1>1. CASE UNCHANGED <<request, taskVars, crashes>>
    BY <1>1 DEF taskVars
  <1>2. CASE CreateJob
    BY <1>2 DEF CreateJob, RequestGoes, taskVars, historyVars
  <1>3. ASSUME NEW r \in Requests,
               CheckPaused(r) \/ StorePartialAnswers(r) \/ Requeue(r) \/ RequestDies(r)
        PROVE  TaskInv'
    BY <1>3 DEF CheckPaused, StorePartialAnswers, Requeue, RequestDies, RequestGoes,
                taskVars, historyVars
  <1>4. ASSUME NEW r \in Requests, EnqueueJob(r) PROVE TaskInv'
    BY <1>4 DEF EnqueueJob, RequestGoes, historyVars
  <1>5. ASSUME NEW r \in Requests, Take(r) PROVE TaskInv'
    BY <1>5 DEF Take, TaskGoes, historyVars
  <1>6. ASSUME NEW r \in Requests, Connect(r) \/ MarkRunning(r) PROVE TaskInv'
    BY <1>6 DEF Connect, MarkRunning, TaskGoes, historyVars
  <1>7. ASSUME NEW r \in Requests, RunGenerationJob(r) PROVE TaskInv'
    BY <1>7 DEF RunGenerationJob, TaskGoes
  <1>8. ASSUME NEW r \in Requests, WriteEvent(r) PROVE TaskInv'
    BY <1>8 DEF WriteEvent, TaskGoes, historyVars
  <1>9. ASSUME NEW r \in Requests, PublishEvent(r) PROVE TaskInv'
    BY <1>9 DEF PublishEvent, TaskGoes, historyVars
  <1>10. ASSUME NEW r \in Requests, PublishTerminal(r) PROVE TaskInv'
    BY <1>10 DEF PublishTerminal, TaskGoes, historyVars
  <1>11. ASSUME NEW r \in Requests, UpdateJob(r) \/ Raise(r) PROVE TaskInv'
    BY <1>11 DEF UpdateJob, Raise, TaskGoes, Forget, historyVars
  <1>12. ASSUME NEW r \in Requests, MarkFailed(r) \/ PublishError(r) PROVE TaskInv'
    BY <1>12 DEF MarkFailed, PublishError, TaskGoes, historyVars
  <1>13. ASSUME NEW r \in Requests, Cancel(r) PROVE TaskInv'
    BY <1>13 DEF Cancel, Forget
  <1>14. ASSUME NEW r \in Requests, WorkerDies(r) PROVE TaskInv'
    <2>1. crashes + 1 < MaxHandouts
      BY <1>14, HandoutCounted DEF WorkerDies
    <2> QED
      BY <1>14, <2>1 DEF WorkerDies, Forget
  <1>15. ASSUME NEW c \in Clients, OpenStream(c) \/ ClientStep(c) PROVE TaskInv'
    BY <1>1, <1>15 DEF OpenStream, ClientStep, Replay, Subscribe, historyVars
  <1> QED
    BY <1>1, <1>2, <1>3, <1>4, <1>5, <1>6, <1>7, <1>8, <1>9, <1>10, <1>11, <1>12,
       <1>13, <1>14, <1>15
    DEF Next, RequestStep, TaskStep, vars, historyVars

-----------------------------------------------------------------------------
(* Type correctness.                                                         *)

\* An event a task writes or publishes is one of the run it is in.
LEMMA EventTyped ==
    ASSUME TypeOK, TaskInv, NEW r \in Requests, task[r] \in Working
    PROVE  /\ TheRun(r) \in Run
           /\ task[r] \in Streaming => <<TheRun(r), at[r]>> \in Event
  <1>1. try[r] \in 1..MaxHandouts
    BY ConstantsAssumption DEF TypeOK, TaskInv, Working
  <1>2. task[r] \in Streaming => at[r] \in 1..NEvents
    BY ConstantsAssumption DEF TypeOK, TaskInv
  <1> QED
    BY <1>1, <1>2 DEF TheRun, Run, Event

LEMMA TypeStep ==
    ASSUME TypeOK, TaskInv, TaskInv', OutcomeInv, [Next]_vars
    PROVE  TypeOK'
  <1> USE DEF TypeOK, rowVars, taskVars, clientVars, historyVars
  <1> USE ConstantsAssumption
  <1>1. CASE UNCHANGED vars
    BY <1>1 DEF vars
  <1>2. CASE CreateJob
    BY <1>2 DEF CreateJob, RequestGoes, Status, Requests
  <1>3. ASSUME NEW r \in Requests,
               CheckPaused(r) \/ StorePartialAnswers(r) \/ Requeue(r) \/ RequestDies(r)
        PROVE  TypeOK'
    BY <1>3 DEF CheckPaused, StorePartialAnswers, Requeue, RequestDies, RequestGoes,
                Status
  <1>4. ASSUME NEW r \in Requests, EnqueueJob(r) PROVE TypeOK'
    BY <1>4 DEF EnqueueJob, RequestGoes
  <1>5. ASSUME NEW r \in Requests, Take(r) PROVE TypeOK'
    <2>1. try[r] + 1 \in 0..MaxHandouts
      BY <1>5 DEF Take, TaskGoes, TaskInv
    <2> QED
      BY <1>5, <2>1 DEF Take, TaskGoes
  <1>6. ASSUME NEW r \in Requests, Connect(r) \/ MarkRunning(r) PROVE TypeOK'
    BY <1>6 DEF Connect, MarkRunning, TaskGoes, Status
  <1>7. ASSUME NEW r \in Requests, RunGenerationJob(r) PROVE TypeOK'
    <2>1. TheRun(r) \in Run
      BY <1>7, EventTyped DEF RunGenerationJob, TaskGoes, Working
    <2> QED
      BY <1>7, <2>1 DEF RunGenerationJob, TaskGoes
  <1>8. ASSUME NEW r \in Requests, WriteEvent(r) PROVE TypeOK'
    <2>1. <<TheRun(r), at[r]>> \in Event
      BY <1>8, EventTyped DEF WriteEvent, TaskGoes, Working, Streaming
    <2> QED
      BY <1>8, <2>1 DEF WriteEvent, TaskGoes
  <1>9. ASSUME NEW r \in Requests, PublishEvent(r) PROVE TypeOK'
    <2>1. <<TheRun(r), at[r]>> \in Event
      BY <1>9, EventTyped DEF PublishEvent, TaskGoes, Working, Streaming
    <2>2. seen' \in [Clients -> SUBSET Event]
      BY <1>9, <2>1 DEF PublishEvent, Forward
    <2>3. at' \in [Requests -> 1..(NEvents + 1)]
      BY <1>9 DEF PublishEvent
    <2> QED
      BY <1>9, <2>2, <2>3 DEF PublishEvent, TaskGoes, Forward
  <1>10. ASSUME NEW r \in Requests, PublishTerminal(r) PROVE TypeOK'
    BY <1>10 DEF PublishTerminal, TaskGoes, Close
  <1>11. ASSUME NEW r \in Requests, UpdateJob(r) PROVE TypeOK'
    <2>1. outcome[r] \in {"delivered", "paused_human"}
      BY <1>11 DEF UpdateJob, TaskGoes, OutcomeInv, Streamed
    <2> QED
      BY <1>11, <2>1 DEF UpdateJob, TaskGoes, Forget, Status
  <1>12. ASSUME NEW r \in Requests, Raise(r) \/ Cancel(r) PROVE TypeOK'
    <2>1. at' \in [Requests -> 1..(NEvents + 1)] /\ outcome' \in [Requests -> Outcomes \cup {"none"}]
      BY <1>12 DEF Raise, Cancel, Forget
    <2>2. task' \in [Requests -> {"none", "queued", "taken", "connected", "running",
                        "writing", "publishing", "closing", "finishing",
                        "failing", "telling", "over"}]
      BY <1>12 DEF Raise, Cancel
    <2>3. lost' \in BOOLEAN /\ runs' \subseteq Run /\ crashes' \in 0..MaxHandouts
      BY <1>12 DEF Raise, Cancel
    <2>4. UNCHANGED <<rowVars, jobEvents, request, try, clientVars>>
      BY <1>12 DEF Raise, Cancel
    <2> QED
      BY <2>1, <2>2, <2>3, <2>4
  <1>13. ASSUME NEW r \in Requests, MarkFailed(r) PROVE TypeOK'
    BY <1>13 DEF MarkFailed, TaskGoes, Status
  <1>14. ASSUME NEW r \in Requests, PublishError(r) PROVE TypeOK'
    BY <1>14 DEF PublishError, TaskGoes, Close
  <1>15. ASSUME NEW r \in Requests, WorkerDies(r) PROVE TypeOK'
    <2>1. crashes' \in 0..MaxHandouts
      BY <1>15 DEF WorkerDies, TaskInv
    <2> QED
      BY <1>15, <2>1 DEF WorkerDies, Forget
  <1>16. ASSUME NEW c \in Clients, OpenStream(c) \/ ClientStep(c) PROVE TypeOK'
    BY <1>16 DEF OpenStream, ClientStep, Replay, Subscribe, ClientGoes
  <1> QED
    BY <1>1, <1>2, <1>3, <1>4, <1>5, <1>6, <1>7, <1>8, <1>9, <1>10, <1>11, <1>12,
       <1>13, <1>14, <1>15, <1>16
    DEF Next, RequestStep, TaskStep

-----------------------------------------------------------------------------
(* Outcomes.                                                                 *)

LEMMA OutcomeStep ==
    ASSUME TypeOK, OutcomeInv, [Next]_vars
    PROVE  OutcomeInv'
  <1> USE DEF TypeOK, OutcomeInv, Streaming, Streamed, TheRun
  <1>1. CASE UNCHANGED <<task, try, outcome, runs>>
    BY <1>1
  <1>2. ASSUME NEW r \in Requests, EnqueueJob(r) PROVE OutcomeInv'
    BY <1>2 DEF EnqueueJob, historyVars
  <1>3. ASSUME NEW r \in Requests, Take(r) PROVE OutcomeInv'
    BY <1>3 DEF Take, TaskGoes, historyVars
  <1>4. ASSUME NEW r \in Requests, Connect(r) \/ MarkRunning(r) PROVE OutcomeInv'
    BY <1>4 DEF Connect, MarkRunning, TaskGoes, historyVars
  <1>5. ASSUME NEW r \in Requests, RunGenerationJob(r) PROVE OutcomeInv'
    BY <1>5 DEF RunGenerationJob, TaskGoes
  <1>6. ASSUME NEW r \in Requests, WriteEvent(r) \/ PublishEvent(r) \/ PublishTerminal(r)
        PROVE  OutcomeInv'
    BY <1>6 DEF WriteEvent, PublishEvent, PublishTerminal, TaskGoes, historyVars
  <1>7. ASSUME NEW r \in Requests, UpdateJob(r) PROVE OutcomeInv'
    BY <1>7 DEF UpdateJob, TaskGoes, Forget, historyVars
  <1>8. ASSUME NEW r \in Requests, Raise(r) \/ Cancel(r) \/ WorkerDies(r)
        PROVE  OutcomeInv'
    BY <1>8 DEF Raise, Cancel, WorkerDies, Forget, historyVars
  <1>9. ASSUME NEW r \in Requests, MarkFailed(r) \/ PublishError(r) PROVE OutcomeInv'
    BY <1>9 DEF MarkFailed, PublishError, TaskGoes, historyVars
  <1>10. ASSUME NEW r \in Requests,
                CheckPaused(r) \/ StorePartialAnswers(r) \/ Requeue(r) \/ RequestDies(r)
         PROVE  OutcomeInv'
    BY <1>1, <1>10 DEF CheckPaused, StorePartialAnswers, Requeue, RequestDies, taskVars,
                       historyVars
  <1>11. CASE CreateJob
    BY <1>1, <1>11 DEF CreateJob, taskVars, historyVars
  <1>12. ASSUME NEW c \in Clients, OpenStream(c) \/ ClientStep(c) PROVE OutcomeInv'
    BY <1>1, <1>12 DEF OpenStream, ClientStep, Replay, Subscribe, taskVars, historyVars
  <1> QED
    BY <1>1, <1>2, <1>3, <1>4, <1>5, <1>6, <1>7, <1>8, <1>9, <1>10, <1>11, <1>12
    DEF Next, RequestStep, TaskStep, vars, taskVars, historyVars

-----------------------------------------------------------------------------
(* The row and its owner.                                                    *)

LEMMA OwnerStep ==
    ASSUME TypeOK, OutcomeInv, OwnerInv, [Next]_vars
    PROVE  OwnerInv'
  <1> USE DEF TypeOK, OwnerInv, Owner, Working
  <1> USE ConstantsAssumption
  <1>1. CASE UNCHANGED <<status, request, task, lost>>
    BY <1>1
  <1>2. CASE CreateJob
    BY <1>2 DEF CreateJob, RequestGoes, Requests
  <1>3. ASSUME NEW r \in Requests, CheckPaused(r) \/ StorePartialAnswers(r)
        PROVE  OwnerInv'
    BY <1>3 DEF CheckPaused, StorePartialAnswers, RequestGoes, rowVars, taskVars,
                historyVars
  <1>4. ASSUME NEW r \in Requests, Requeue(r) PROVE OwnerInv'
    BY <1>4 DEF Requeue, RequestGoes
  <1>5. ASSUME NEW r \in Requests, EnqueueJob(r) PROVE OwnerInv'
    BY <1>5 DEF EnqueueJob, RequestGoes, rowVars, historyVars
  <1>6. ASSUME NEW r \in Requests, lost' PROVE OwnerInv'
    BY <1>6
  <1>7. ASSUME NEW r \in Requests,
               Take(r) \/ WriteEvent(r) \/ PublishEvent(r) \/ PublishTerminal(r)
                 \/ RunGenerationJob(r)
        PROVE  OwnerInv'
    BY <1>7 DEF Take, WriteEvent, PublishEvent, PublishTerminal, RunGenerationJob,
                TaskGoes, rowVars, historyVars
  <1>8. ASSUME NEW r \in Requests, Connect(r) PROVE OwnerInv'
    BY <1>8 DEF Connect, TaskGoes, rowVars
  <1>9. ASSUME NEW r \in Requests, MarkRunning(r) PROVE OwnerInv'
    BY <1>9 DEF MarkRunning, TaskGoes
  <1>10. ASSUME NEW r \in Requests, UpdateJob(r) PROVE OwnerInv'
    <2>1. status' \notin {"queued", "running"}
      BY <1>10 DEF UpdateJob, TaskGoes, OutcomeInv, Streamed
    <2> QED
      BY <2>1
  <1>11. ASSUME NEW r \in Requests, Raise(r) \/ WorkerDies(r) PROVE OwnerInv'
    BY <1>11 DEF Raise, WorkerDies, rowVars, historyVars
  <1>12. ASSUME NEW r \in Requests, MarkFailed(r) PROVE OwnerInv'
    BY <1>12 DEF MarkFailed
  <1>13. ASSUME NEW r \in Requests, PublishError(r) PROVE OwnerInv'
    BY <1>13 DEF PublishError, TaskGoes, rowVars, historyVars
  <1>14. ASSUME NEW r \in Requests, RequestDies(r) \/ Cancel(r) PROVE OwnerInv'
    BY <1>6, <1>14 DEF RequestDies, Cancel
  <1>15. ASSUME NEW c \in Clients, OpenStream(c) \/ ClientStep(c) PROVE OwnerInv'
    BY <1>1, <1>15 DEF OpenStream, ClientStep, Replay, Subscribe, rowVars, taskVars,
                       historyVars
  <1> QED
    BY <1>1, <1>2, <1>3, <1>4, <1>5, <1>7, <1>8, <1>9, <1>10, <1>11, <1>12, <1>13,
       <1>14, <1>15
    DEF Next, RequestStep, TaskStep, vars, rowVars, taskVars, historyVars

-----------------------------------------------------------------------------
(* The events of a run.                                                      *)

LEMMA StoredStep ==
    ASSUME TypeOK, TaskInv, StoredInv, [Next]_vars
    PROVE  StoredInv'
  <1> USE DEF TypeOK, Streaming, Streamed, Started, TheRun
  <1> USE ConstantsAssumption
  <1>1. CASE UNCHANGED <<jobEvents, task, try, at>>
    BY <1>1 DEF StoredInv
  <1>2. ASSUME NEW r \in Requests, EnqueueJob(r) PROVE StoredInv'
    BY <1>2 DEF EnqueueJob, StoredInv
  <1>3. ASSUME NEW r \in Requests, Take(r) PROVE StoredInv'
    BY <1>3 DEF Take, TaskGoes, StoredInv
  <1>4. ASSUME NEW r \in Requests, Connect(r) \/ MarkRunning(r) PROVE StoredInv'
    BY <1>4 DEF Connect, MarkRunning, TaskGoes, StoredInv
  <1>5. ASSUME NEW r \in Requests, RunGenerationJob(r) PROVE StoredInv'
    <2>1. at[r] = 1
      BY <1>5 DEF RunGenerationJob, TaskGoes, TaskInv
    <2> QED
      BY <1>5, <2>1 DEF RunGenerationJob, TaskGoes, StoredInv
  <1>6. ASSUME NEW r \in Requests, WriteEvent(r) PROVE StoredInv'
    BY <1>6 DEF WriteEvent, TaskGoes, StoredInv
  <1>7. ASSUME NEW r \in Requests, PublishEvent(r) PROVE StoredInv'
    <2>1. \A n \in 1..at[r] : <<TheRun(r), n>> \in jobEvents
      <3>1. task[r] = "publishing"
        BY <1>7 DEF PublishEvent, TaskGoes
      <3>2. /\ \A n \in 1..(at[r] - 1) : <<TheRun(r), n>> \in jobEvents
            /\ <<TheRun(r), at[r]>> \in jobEvents
        BY <3>1 DEF StoredInv
      <3>3. \A n \in 1..at[r] : n \in 1..(at[r] - 1) \/ n = at[r]
        OBVIOUS
      <3> QED
        BY <3>2, <3>3
    <2>2. at[r] \in 1..NEvents
      BY <1>7 DEF PublishEvent, TaskGoes, TaskInv
    <2>3. UNCHANGED <<jobEvents, try>> /\ task[r] = "publishing"
          /\ task' = [task EXCEPT ![r] = IF at[r] < NEvents THEN "writing" ELSE "closing"]
          /\ at' = [at EXCEPT ![r] = IF @ < NEvents THEN @ + 1 ELSE 1]
      BY <1>7 DEF PublishEvent, TaskGoes
    <2>4. CASE at[r] < NEvents
      BY <2>1, <2>2, <2>3, <2>4 DEF StoredInv
    <2>5. CASE at[r] = NEvents
      BY <2>1, <2>2, <2>3, <2>5 DEF StoredInv
    <2> QED
      BY <2>2, <2>4, <2>5
  <1>8. ASSUME NEW r \in Requests, PublishTerminal(r) PROVE StoredInv'
    BY <1>8 DEF PublishTerminal, TaskGoes, StoredInv
  <1>9. ASSUME NEW r \in Requests,
               UpdateJob(r) \/ Raise(r) \/ Cancel(r) \/ WorkerDies(r)
        PROVE  StoredInv'
    <2>1. /\ UNCHANGED <<jobEvents, try>>
          /\ \E to \in {"over", "failing", "queued"} : task' = [task EXCEPT ![r] = to]
          /\ at' = [at EXCEPT ![r] = 1]
      BY <1>9 DEF UpdateJob, Raise, Cancel, WorkerDies, TaskGoes, Forget
    <2> QED
      BY <2>1 DEF StoredInv
  <1>10. ASSUME NEW r \in Requests, MarkFailed(r) \/ PublishError(r) PROVE StoredInv'
    BY <1>10 DEF MarkFailed, PublishError, TaskGoes, StoredInv
  <1>11. ASSUME NEW r \in Requests,
                CheckPaused(r) \/ StorePartialAnswers(r) \/ Requeue(r) \/ RequestDies(r)
         PROVE  StoredInv'
    BY <1>1, <1>11 DEF CheckPaused, StorePartialAnswers, Requeue, RequestDies, taskVars
  <1>12. CASE CreateJob
    BY <1>1, <1>12 DEF CreateJob, taskVars
  <1>13. ASSUME NEW c \in Clients, OpenStream(c) \/ ClientStep(c) PROVE StoredInv'
    BY <1>1, <1>13 DEF OpenStream, ClientStep, Replay, Subscribe, taskVars
  <1> QED
    BY <1>1, <1>2, <1>3, <1>4, <1>5, <1>6, <1>7, <1>8, <1>9, <1>10, <1>11, <1>12, <1>13
    DEF Next, RequestStep, TaskStep, vars, taskVars

\* Rows are only added to job_events, and runs only to the delivered ones.
LEMMA Growing ==
    ASSUME [Next]_vars
    PROVE  jobEvents \subseteq jobEvents' /\ runs \subseteq runs'
  BY DEF Next, RequestStep, TaskStep, ClientStep, vars, historyVars, CreateJob,
         CheckPaused, StorePartialAnswers, Requeue, EnqueueJob, RequestDies, OpenStream,
         Replay, Subscribe, Take, Connect, MarkRunning, RunGenerationJob, WriteEvent,
         PublishEvent, PublishTerminal, UpdateJob, Raise, MarkFailed, PublishError,
         Cancel, WorkerDies

LEMMA SeenStep ==
    ASSUME TypeOK, StoredInv, SeenIsPersisted, [Next]_vars
    PROVE  SeenIsPersisted'
  <1> USE DEF TypeOK, SeenIsPersisted
  <1>1. CASE UNCHANGED seen
    BY <1>1, Growing
  <1>2. ASSUME NEW c \in Clients, Replay(c) PROVE SeenIsPersisted'
    BY <1>2 DEF Replay
  <1>3. ASSUME NEW r \in Requests, PublishEvent(r) PROVE SeenIsPersisted'
    <2>1. <<TheRun(r), at[r]>> \in jobEvents
      BY <1>3 DEF PublishEvent, TaskGoes, StoredInv
    <2> QED
      BY <1>3, <2>1 DEF PublishEvent, Forward
  <1>4. UNCHANGED seen \/ (\E c \in Clients : Replay(c)) \/ \E r \in Requests : PublishEvent(r)
    BY DEF Next, RequestStep, TaskStep, ClientStep, vars, clientVars, CreateJob,
           CheckPaused, StorePartialAnswers, Requeue, EnqueueJob, RequestDies, OpenStream,
           Subscribe, Take, Connect, MarkRunning, RunGenerationJob, WriteEvent,
           PublishTerminal, Close, UpdateJob, Raise, MarkFailed, PublishError, Cancel,
           WorkerDies
  <1> QED
    BY <1>1, <1>2, <1>3, <1>4

LEMMA CompletedStep ==
    ASSUME TypeOK, OutcomeInv, StoredInv, CompletedIsBacked, [Next]_vars
    PROVE  CompletedIsBacked'
  <1>1. CASE status' = status
    BY <1>1, Growing DEF CompletedIsBacked
  <1>2. CASE status' # "completed"
    BY <1>2 DEF CompletedIsBacked
  <1>3. ASSUME NEW r \in Requests, UpdateJob(r), outcome[r] = "delivered"
        PROVE  CompletedIsBacked'
    <2>1. TheRun(r) \in runs /\ EventsOf(TheRun(r)) \subseteq jobEvents
      <3>1. task[r] \in Streamed
        BY <1>3 DEF UpdateJob, TaskGoes, Streamed
      <3>2. TheRun(r) \in runs /\ \A n \in 1..NEvents : <<TheRun(r), n>> \in jobEvents
        BY <1>3, <3>1 DEF OutcomeInv, StoredInv
      <3>3. \A e \in EventsOf(TheRun(r)) : \E n \in 1..NEvents : e = <<TheRun(r), n>>
        BY DEF EventsOf
      <3> QED
        BY <3>2, <3>3
    <2> QED
      BY <2>1, Growing DEF CompletedIsBacked, EventsOf
  <1>4. ASSUME NEW r \in Requests, UpdateJob(r), outcome[r] # "delivered"
        PROVE  status' # "completed"
    BY <1>4, ConstantsAssumption DEF UpdateJob, TaskGoes, OutcomeInv, Streamed
  <1>5. status' = status \/ status' # "completed" \/ \E r \in Requests : UpdateJob(r)
    BY DEF Next, RequestStep, TaskStep, ClientStep, vars, rowVars, CreateJob,
           CheckPaused, StorePartialAnswers, Requeue, EnqueueJob, RequestDies, OpenStream,
           Replay, Subscribe, Take, Connect, MarkRunning, RunGenerationJob, WriteEvent,
           PublishEvent, PublishTerminal, Raise, MarkFailed, PublishError, Cancel,
           WorkerDies
  <1> QED
    BY <1>1, <1>2, <1>3, <1>4, <1>5

-----------------------------------------------------------------------------
(* The clients.                                                              *)

LEMMA SinceNone ==
    ASSUME NEW events, NEW run, NEW next \in 1..(NEvents + 1),
           \A n \in 1..NEvents : <<run, n>> \notin events
    PROVE  HasSince(events, run, next)
  <1>1. next \in 1..next
    BY ConstantsAssumption
  <1>2. \A n \in 1..NEvents : (n >= next /\ n < next) <=> <<run, n>> \in events
    BY ConstantsAssumption
  <1> QED
    BY <1>1, <1>2 DEF HasSince

LEMMA SinceNext ==
    ASSUME NEW events, NEW run, NEW k \in 1..NEvents, HasSince(events, run, k)
    PROVE  HasSince(events \cup {<<run, k>>}, run, k + 1)
  <1> USE ConstantsAssumption
  <1>1. PICK first \in 1..k : \A n \in 1..NEvents :
            (n >= first /\ n < k) <=> <<run, n>> \in events
    BY DEF HasSince
  <1>2. first \in 1..(k + 1)
    OBVIOUS
  <1>3. ASSUME NEW n \in 1..NEvents
        PROVE  (n >= first /\ n < k + 1) <=> <<run, n>> \in events \cup {<<run, k>>}
    <2>1. CASE n = k
      BY <2>1
    <2>2. CASE n # k
      BY <1>1, <2>2
    <2> QED
      BY <2>1, <2>2
  <1> QED
    BY <1>2, <1>3 DEF HasSince

LEMMA SinceOther ==
    ASSUME NEW events, NEW run, NEW next, HasSince(events, run, next),
           NEW other, NEW m, other # run
    PROVE  HasSince(events \cup {<<other, m>>}, run, next)
  BY DEF HasSince

\* A task that streams has shown every listener the events since it joined.
LEMMA ClientInvStep ==
    ASSUME TypeOK, TaskInv, StoredInv, SeenIsPersisted, ClientInv, [Next]_vars
    PROVE  ClientInv'
  <1> USE DEF TypeOK, Streaming
  <1> USE ConstantsAssumption
  <1>1. CASE UNCHANGED <<task, try, at, clientVars>>
    BY <1>1 DEF clientVars, ClientInv, TheRun
  <1>2. ASSUME NEW r \in Requests, UNCHANGED clientVars,
               task'[r] \notin Streaming \cup {"closing"},
               \A q \in Requests \ {r} : task'[q] = task[q] /\ try'[q] = try[q] /\ at'[q] = at[q]
        PROVE  ClientInv'
    BY <1>2 DEF clientVars, ClientInv, TheRun
  <1>3. ASSUME NEW r \in Requests,
               EnqueueJob(r) \/ Take(r) \/ Connect(r) \/ MarkRunning(r) \/ MarkFailed(r)
        PROVE  ClientInv'
    BY <1>2, <1>3 DEF EnqueueJob, Take, Connect, MarkRunning, MarkFailed, TaskGoes
  <1>4. ASSUME NEW r \in Requests,
               UpdateJob(r) \/ Raise(r) \/ Cancel(r) \/ WorkerDies(r)
        PROVE  ClientInv'
    BY <1>2, <1>4 DEF UpdateJob, Raise, Cancel, WorkerDies, Forget, TaskGoes
  <1>5. ASSUME NEW r \in Requests, RunGenerationJob(r) PROVE ClientInv'
    <2>1. /\ UNCHANGED <<try, at, clientVars>> /\ at[r] = 1 /\ task[r] = "running"
          /\ task' = [task EXCEPT ![r] = IF NEvents = 0 THEN "closing" ELSE "writing"]
      BY <1>5 DEF RunGenerationJob, TaskGoes, TaskInv
    <2>2. ASSUME NEW c \in Clients
          PROVE  HasSince(seen[c], TheRun(r), at[r]) /\
                 (NEvents = 0 => HasSince(seen[c], TheRun(r), NEvents + 1))
      <3>1. try[r] \in 1..MaxHandouts
        BY <2>1 DEF TaskInv, Working
      <3>2. \A n \in 1..NEvents : <<TheRun(r), n>> \notin jobEvents
        <4>1. \A k \in 1..MaxHandouts : \A n \in 1..NEvents :
                  <<<<r, k>>, n>> \in jobEvents => k < try[r]
          BY <2>1 DEF StoredInv, Started
        <4>2. \A n \in 1..NEvents : <<<<r, try[r]>>, n>> \in jobEvents => try[r] < try[r]
          BY <3>1, <4>1
        <4> QED
          BY <3>1, <4>2 DEF TheRun
      <3>3. \A n \in 1..NEvents : <<TheRun(r), n>> \notin seen[c]
        BY <3>2 DEF SeenIsPersisted
      <3> QED
        BY <2>1, <3>3, SinceNone
    <2> QED
      BY <2>1, <2>2 DEF ClientInv, TheRun, clientVars
  <1>6. ASSUME NEW r \in Requests, WriteEvent(r) PROVE ClientInv'
    BY <1>6 DEF WriteEvent, TaskGoes, ClientInv, TheRun, clientVars
  <1>7. ASSUME NEW r \in Requests, PublishEvent(r) PROVE ClientInv'
    <2>1. /\ UNCHANGED <<try, client, told>> /\ task[r] = "publishing"
          /\ task' = [task EXCEPT ![r] = IF at[r] < NEvents THEN "writing" ELSE "closing"]
          /\ at' = [at EXCEPT ![r] = IF @ < NEvents THEN @ + 1 ELSE 1]
          /\ seen' = [c \in Clients |-> IF c \in Listening
                                       THEN seen[c] \cup {<<TheRun(r), at[r]>>} ELSE seen[c]]
      BY <1>7 DEF PublishEvent, TaskGoes, Forward
    <2>2. at[r] \in 1..NEvents
      BY <2>1 DEF TaskInv
    <2>3. ASSUME NEW c \in Clients, client[c] # "listening"
          PROVE  seen'[c] = seen[c]
      BY <2>1, <2>3 DEF Listening
    <2>4. ASSUME NEW c \in Clients, client[c] = "listening"
          PROVE  HasSince(seen'[c], TheRun(r), at[r] + 1)
      <3>1. HasSince(seen[c], TheRun(r), at[r])
        BY <2>1, <2>4 DEF ClientInv
      <3>2. seen'[c] = seen[c] \cup {<<TheRun(r), at[r]>>}
        BY <2>1, <2>4 DEF Listening
      <3> QED
        BY <2>2, <3>1, <3>2, SinceNext
    <2>5. ASSUME NEW c \in Clients, client[c] = "listening",
                 NEW q \in Requests \ {r}, NEW next, HasSince(seen[c], TheRun(q), next)
          PROVE  HasSince(seen'[c], TheRun(q), next)
      <3>1. seen'[c] = seen[c] \cup {<<TheRun(r), at[r]>>}
        BY <2>1, <2>5 DEF Listening
      <3>2. TheRun(r) # TheRun(q)
        BY DEF TheRun
      <3>3. HasSince(seen[c] \cup {<<TheRun(r), at[r]>>}, TheRun(q), next)
        BY <2>5, <3>2, SinceOther, Zenon
      <3> QED
        BY <3>1, <3>3
    <2>6. ASSUME NEW c \in Clients, client[c] = "listening", NEW q \in Requests
          PROVE  /\ task'[q] \in Streaming => HasSince(seen'[c], TheRun(q), at'[q])
                 /\ task'[q] = "closing" => HasSince(seen'[c], TheRun(q), NEvents + 1)
      <3>1. CASE q = r
        <4>1. CASE at[r] < NEvents
          BY <2>1, <2>4, <2>6, <3>1, <4>1
        <4>2. CASE at[r] = NEvents
          BY <2>1, <2>4, <2>6, <3>1, <4>2
        <4> QED
          BY <2>2, <4>1, <4>2
      <3>2. CASE q # r
        <4>1. task'[q] = task[q] /\ at'[q] = at[q]
          BY <2>1, <3>2
        <4>2. /\ task[q] \in Streaming => HasSince(seen[c], TheRun(q), at[q])
              /\ task[q] = "closing" => HasSince(seen[c], TheRun(q), NEvents + 1)
          BY <2>6 DEF ClientInv
        <4>3. /\ task[q] \in Streaming => HasSince(seen'[c], TheRun(q), at[q])
              /\ task[q] = "closing" => HasSince(seen'[c], TheRun(q), NEvents + 1)
          BY <2>5, <2>6, <3>2, <4>2
        <4> QED
          BY <4>1, <4>3
      <3> QED
        BY <3>1, <3>2
    <2> QED
      BY <2>1, <2>3, <2>6 DEF ClientInv, TheRun
  <1>8. ASSUME NEW r \in Requests, PublishTerminal(r) PROVE ClientInv'
    BY <1>8 DEF PublishTerminal, TaskGoes, Close, Listening, ClientInv, TheRun
  <1>9. ASSUME NEW r \in Requests, PublishError(r) PROVE ClientInv'
    BY <1>9 DEF PublishError, TaskGoes, Close, Listening, ClientInv, TheRun, clientVars
  <1>10. ASSUME NEW c \in Clients, OpenStream(c) \/ Replay(c) PROVE ClientInv'
    BY <1>10 DEF OpenStream, Replay, ClientGoes, ClientInv, TheRun, taskVars
  <1>11. ASSUME NEW c \in Clients, Subscribe(c) PROVE ClientInv'
    <2>1. seen[c] = {} /\ UNCHANGED <<taskVars, seen, told>> /\ told[c] = "none"
          /\ client' = [client EXCEPT ![c] = "listening"]
      BY <1>11 DEF Subscribe, ClientGoes, ClientInv
    <2>2. ASSUME NEW r \in Requests, NEW next \in 1..(NEvents + 1)
          PROVE  HasSince(seen[c], TheRun(r), next)
      BY <2>1, SinceNone
    <2>3. NEvents + 1 \in 1..(NEvents + 1) /\ \A r \in Requests : at[r] \in 1..(NEvents + 1)
      OBVIOUS
    <2> QED
      BY <2>1, <2>2, <2>3 DEF ClientInv, TheRun, taskVars
  <1>12. ASSUME NEW r \in Requests,
                CheckPaused(r) \/ StorePartialAnswers(r) \/ Requeue(r) \/ RequestDies(r)
         PROVE  ClientInv'
    BY <1>1, <1>12 DEF CheckPaused, StorePartialAnswers, Requeue, RequestDies, taskVars
  <1>13. CASE CreateJob
    BY <1>1, <1>13 DEF CreateJob, taskVars
  <1> QED
    BY <1>1, <1>3, <1>4, <1>5, <1>6, <1>7, <1>8, <1>9, <1>10, <1>11, <1>12, <1>13
    DEF Next, RequestStep, TaskStep, ClientStep, vars, taskVars

\* What a client was told stays true: it was told while it was listening, and
\* sees nothing more afterwards.
LEMMA ToldStep ==
    ASSUME TypeOK, TaskInv, OutcomeInv, ClientInv, CompleteStreamHasNoGap, [Next]_vars
    PROVE  CompleteStreamHasNoGap'
  <1> SUFFICES ASSUME NEW c \in Clients, told'[c] = "complete"
               PROVE  \E run \in runs' : \E first \in 1..NEvents + 1 :
                        \A n \in 1..NEvents : n >= first <=> <<run, n>> \in seen'[c]
    BY DEF CompleteStreamHasNoGap
  <1> USE DEF TypeOK
  <1>1. CASE told[c] = "complete" /\ seen'[c] = seen[c]
    <2>1. PICK run \in runs : \E first \in 1..NEvents + 1 :
                        \A n \in 1..NEvents : n >= first <=> <<run, n>> \in seen[c]
      BY <1>1 DEF CompleteStreamHasNoGap
    <2>2. run \in runs'
      BY Growing
    <2> QED
      BY <1>1, <2>1, <2>2
  <1>2. ASSUME NEW r \in Requests, PublishTerminal(r), told[c] # "complete"
        PROVE  \E run \in runs' : \E first \in 1..NEvents + 1 :
                  \A n \in 1..NEvents : n >= first <=> <<run, n>> \in seen'[c]
    <2>1. /\ task[r] = "closing" /\ client[c] = "listening" /\ outcome[r] = "delivered"
          /\ seen' = seen
      BY <1>2 DEF PublishTerminal, TaskGoes, Close, Listening
    <2>2. HasSince(seen[c], TheRun(r), NEvents + 1) /\ TheRun(r) \in runs'
      BY <2>1, Growing DEF ClientInv, OutcomeInv, Streamed
    <2>3. PICK first \in 1..(NEvents + 1) : \A n \in 1..NEvents :
            (n >= first /\ n < NEvents + 1) <=> <<TheRun(r), n>> \in seen[c]
      BY <2>2 DEF HasSince
    <2>4. \A n \in 1..NEvents : n >= first <=> <<TheRun(r), n>> \in seen[c]
      BY <2>3, ConstantsAssumption
    <2> QED
      BY <2>1, <2>2, <2>4
  <1>3. CASE told[c] = "complete"
    <2>1. client[c] = "closed"
      BY <1>3 DEF ClientInv
    <2>2. seen'[c] = seen[c]
      <3>1. CASE UNCHANGED seen
        BY <3>1
      <3>2. ASSUME NEW r \in Requests, PublishEvent(r) PROVE seen'[c] = seen[c]
        BY <2>1, <3>2 DEF PublishEvent, Forward, Listening
      <3>3. ASSUME NEW d \in Clients, Replay(d) PROVE seen'[c] = seen[c]
        BY <2>1, <3>3 DEF Replay, ClientGoes
      <3>4. UNCHANGED seen \/ (\E d \in Clients : Replay(d))
            \/ \E r \in Requests : PublishEvent(r)
        BY DEF Next, RequestStep, TaskStep, ClientStep, vars, clientVars, CreateJob,
               CheckPaused, StorePartialAnswers, Requeue, EnqueueJob, RequestDies,
               OpenStream, Subscribe, Take, Connect, MarkRunning, RunGenerationJob,
               WriteEvent, PublishTerminal, Close, UpdateJob, Raise, MarkFailed,
               PublishError, Cancel, WorkerDies
      <3> QED
        BY <3>1, <3>2, <3>3, <3>4
    <2> QED
      BY <1>1, <1>3, <2>2
  <1>4. CASE told[c] # "complete"
    <2>1. ~UNCHANGED told
      BY <1>4
    <2>2. ASSUME NEW r \in Requests, PublishError(r) PROVE FALSE
      BY <1>4, <2>2 DEF PublishError, Close, clientVars
    <2>3. ASSUME NEW d \in Clients, Replay(d) PROVE FALSE
      BY <1>4, <2>3 DEF Replay
    <2>4. UNCHANGED told \/ (\E d \in Clients : Replay(d))
          \/ \E r \in Requests : PublishError(r) \/ PublishTerminal(r)
      BY DEF Next, RequestStep, TaskStep, ClientStep, vars, clientVars, CreateJob,
             CheckPaused, StorePartialAnswers, Requeue, EnqueueJob, RequestDies,
             OpenStream, Subscribe, Take, Connect, MarkRunning, RunGenerationJob,
             WriteEvent, PublishEvent, Forward, UpdateJob, Raise, MarkFailed, Cancel,
             WorkerDies
    <2> QED
      BY <1>2, <1>4, <2>1, <2>2, <2>3, <2>4
  <1> QED
    BY <1>3, <1>4

-----------------------------------------------------------------------------
(* The results.                                                              *)

IInv == /\ TypeOK /\ TaskInv /\ OutcomeInv /\ StoredInv /\ OwnerInv /\ ClientInv
        /\ SeenIsPersisted /\ CompletedIsBacked /\ CompleteStreamHasNoGap

\* The invariant all the results below follow from.
THEOREM InductiveInvariant == Spec => []IInv
  <1>1. Init => IInv
    <2> SUFFICES ASSUME Init PROVE IInv
      OBVIOUS
    <2> USE ConstantsAssumption DEF Init
    <2>1. TypeOK
      <3>1. at \in [Requests -> 1..(NEvents + 1)] /\ try \in [Requests -> 0..MaxHandouts]
            /\ crashes \in 0..MaxHandouts
        OBVIOUS
      <3>2. seen \in [Clients -> SUBSET Event] /\ jobEvents \subseteq Event /\ runs \subseteq Run
        OBVIOUS
      <3> QED
        BY <3>1, <3>2 DEF TypeOK, Status
    <2>2. TaskInv
      BY DEF TaskInv, Working, Streaming
    <2>5. OutcomeInv
      BY DEF OutcomeInv, Streaming, Streamed
    <2>6. OwnerInv
      BY DEF OwnerInv
    <2>3. StoredInv
      BY DEF StoredInv, Streaming, Streamed
    <2>4. ClientInv /\ SeenIsPersisted /\ CompletedIsBacked /\ CompleteStreamHasNoGap
      BY DEF ClientInv, SeenIsPersisted, CompletedIsBacked, CompleteStreamHasNoGap
    <2> QED
      BY <2>1, <2>2, <2>3, <2>4, <2>5, <2>6 DEF IInv
  <1>2. IInv /\ [Next]_vars => IInv'
    BY TaskStepInv, TypeStep, OutcomeStep, StoredStep, OwnerStep, ClientInvStep, SeenStep,
       CompletedStep, ToldStep
    DEF IInv
  <1> QED
    BY <1>1, <1>2, PTL DEF Spec

\* Every variable keeps its type.
THEOREM TypeCorrect == Spec => []TypeOK
  BY InductiveInvariant, PTL DEF IInv

\* No client is shown an event that job_events does not hold.
THEOREM SeenEventsAreStored == Spec => []SeenIsPersisted
  BY InductiveInvariant, PTL DEF IInv

\* A completed row has a delivered run behind it, with all its events.
THEOREM CompletedRowsAreBacked == Spec => []CompletedIsBacked
  BY InductiveInvariant, PTL DEF IInv

\* A client that is told "complete" missed only what came before it joined.
THEOREM CompleteStreamsAreWhole == Spec => []CompleteStreamHasNoGap
  BY InductiveInvariant, PTL DEF IInv

\* Only the faults that set lost leave a live row without an owner.
THEOREM LiveRowsAreOwned == Spec => []LiveRowHasOwner
  <1>1. IInv => LiveRowHasOwner
    <2> SUFFICES ASSUME IInv, status \in {"queued", "running"}, ~lost
                 PROVE  \E r \in Requests :
                          request[r] = "committed" \/ task[r] \in Working \cup {"queued"}
      BY DEF LiveRowHasOwner
    <2>1. PICK r \in Requests : Owner(r)
      BY DEF IInv, OwnerInv
    <2> QED
      BY <2>1 DEF Owner
  <1> QED
    BY <1>1, InductiveInvariant, PTL
==============================================================================
