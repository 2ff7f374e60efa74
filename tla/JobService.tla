----------------------------- MODULE JobService ------------------------------
(***************************************************************************)
(* The life of one row of the jobs table, between the API, the worker and  *)
(* the browsers that watch it:                                             *)
(*                                                                         *)
(*   create_job, submit_gap_answers    services/api/routers/jobs.py        *)
(*   stream_job_events                 services/api/routers/stream.py      *)
(*   generate_spec                     services/worker/tasks/generation.py *)
(*                                                                         *)
(* A handler is several steps: each transaction, each call of Redis and    *)
(* each await between them is a point where another handler may run.  The  *)
(* pipeline itself is one step here (GenerationGraph has its nodes).       *)
(*                                                                         *)
(* arq and Redis are external: arq hands a task to one worker and hands it *)
(* out again when that worker dies, publish reaches whoever is subscribed  *)
(* at that moment and nobody else.                                         *)
(***************************************************************************)
EXTENDS Naturals, FiniteSets

CONSTANTS
    Creator,     \* the request that creates the job
    Answers,     \* the requests that submit answers for it
    Clients,     \* the requests that stream it
    NEvents,     \* events of one run of the pipeline
    Outcomes,    \* job_status values run_generation_job may return
    MaxHandouts  \* bound: times arq hands out a task of the job

ASSUME ConstantsAssumption ==
    /\ Creator \notin Answers
    /\ IsFiniteSet(Answers)
    /\ NEvents \in Nat
    /\ MaxHandouts \in Nat \ {0}
    /\ Outcomes \subseteq {"delivered", "paused_human"}

VARIABLES
    status,      \* jobs.status, "none" before the row exists
    message,     \* jobs.error_message: NULL, the gap questions, or an error
    jobEvents,   \* the rows of job_events
    request,     \* request[r]: where the handler of r is
    task,        \* task[r]: where the generate_spec task r enqueued is
    try,         \* try[r]: times that task was handed out
    at,          \* at[r]: the event that task is streaming
    outcome,     \* outcome[r]: what the pipeline returned to that task
    client,      \* client[c]: where stream_job_events is
    seen,        \* seen[c]: the job events it forwarded
    told,        \* told[c]: the terminal event it forwarded
    runs,        \* history: the runs that came out delivered
    crashes,     \* workers that died so far
    lost         \* history: a fault that nothing in the code repairs

rowVars == <<status, message>>
taskVars == <<task, try, at, outcome>>
clientVars == <<client, seen, told>>
historyVars == <<runs, crashes, lost>>
vars == <<rowVars, jobEvents, request, taskVars, clientVars, historyVars>>

-----------------------------------------------------------------------------
(* Data.                                                                     *)

Requests == {Creator} \cup Answers

Status   == {"none", "paused_human", "queued", "running", "completed", "failed"}
Terminal == {"completed", "failed"}

\* One run is one hand-out of a task; its events are new ones each time.
Run   == Requests \X (1..MaxHandouts)
Event == Run \X (1..NEvents)
EventsOf(run) == {run} \X (1..NEvents)

TypeOK ==
    /\ status \in Status
    /\ message \in {"null", "gaps", "error"}
    /\ jobEvents \subseteq Event
    /\ request \in [Requests -> {"idle", "checked", "committed", "answered"}]
    /\ task \in [Requests -> {"none", "queued", "taken", "connected", "running",
                              "writing", "publishing", "closing", "finishing",
                              "failing", "telling", "over"}]
    /\ try \in [Requests -> 0..MaxHandouts]
    /\ at \in [Requests -> 1..(NEvents + 1)]
    /\ outcome \in [Requests -> Outcomes \cup {"none"}]
    /\ client \in [Clients -> {"idle", "replaying", "joining", "listening", "closed"}]
    /\ seen \in [Clients -> SUBSET Event]
    /\ told \in [Clients -> {"none", "done", "complete", "error"}]
    /\ runs \subseteq Run
    /\ crashes \in 0..MaxHandouts
    /\ lost \in BOOLEAN

Init ==
    /\ status = "none"
    /\ message = "null"
    /\ jobEvents = {}
    /\ request = [r \in Requests |-> "idle"]
    /\ task = [r \in Requests |-> "none"]
    /\ try = [r \in Requests |-> 0]
    /\ at = [r \in Requests |-> 1]
    /\ outcome = [r \in Requests |-> "none"]
    /\ client = [c \in Clients |-> "idle"]
    /\ seen = [c \in Clients |-> {}]
    /\ told = [c \in Clients |-> "none"]
    /\ runs = {}
    /\ crashes = 0
    /\ lost = FALSE

-----------------------------------------------------------------------------
(* jobs.py: creating the job, answering its gap questions.                   *)

\* Hand-outs of the job's tasks that have happened or will.
Handouts ==
    crashes + Cardinality({r \in Requests : request[r] = "committed" \/ task[r] # "none"})

RequestGoes(r, from, to) ==
    /\ request[r] = from
    /\ request' = [request EXCEPT ![r] = to]

\* create_job: one INSERT, whose status says whether the spec had gaps.
CreateJob ==
    /\ status = "none"
    /\ \/ /\ RequestGoes(Creator, "idle", "answered")
          /\ status' = "paused_human"
          /\ message' = "gaps"
       \/ /\ RequestGoes(Creator, "idle", "committed")
          /\ status' = "queued"
          /\ UNCHANGED message
    /\ UNCHANGED <<jobEvents, taskVars, clientVars, historyVars>>

\* submit_gap_answers reads the row in a transaction of its own and goes on
\* only if it is paused_human; it never looks at the status again.
CheckPaused(r) ==
    /\ r \in Answers
    /\ status # "none"
    /\ RequestGoes(r, "idle", IF status = "paused_human" THEN "checked" ELSE "answered")
    /\ UNCHANGED <<rowVars, jobEvents, taskVars, clientVars, historyVars>>

\* Some gap is left: the questions are stored, whatever the row is by now.
StorePartialAnswers(r) ==
    /\ RequestGoes(r, "checked", "answered")
    /\ message' = "gaps"
    /\ UNCHANGED <<status, jobEvents, taskVars, clientVars, historyVars>>

Requeue(r) ==
    /\ Handouts < MaxHandouts
    /\ RequestGoes(r, "checked", "committed")
    /\ status' = "queued"
    /\ message' = "null"
    /\ UNCHANGED <<jobEvents, taskVars, clientVars, historyVars>>

\* Slip: the answer is sent without the task being handed to arq.
EnqueueJobForgets(r) ==
    /\ RequestGoes(r, "committed", "answered")
    /\ UNCHANGED <<rowVars, jobEvents, taskVars, clientVars, historyVars>>

\* enqueue_job, after the commit and with no _job_id: arq takes every call for
\* a task of its own.
EnqueueJob(r) ==
    /\ RequestGoes(r, "committed", "answered")
    /\ task' = [task EXCEPT ![r] = "queued"]
    /\ UNCHANGED <<rowVars, jobEvents, try, at, outcome, clientVars, historyVars>>

\* The API process dies, or Redis refuses the task, with the row committed.
RequestDies(r) ==
    /\ RequestGoes(r, "committed", "answered")
    /\ lost' = TRUE
    /\ UNCHANGED <<rowVars, jobEvents, taskVars, clientVars, runs, crashes>>

-----------------------------------------------------------------------------
(* stream.py: watching the job.                                              *)

ClientGoes(c, from, to) ==
    /\ client[c] = from
    /\ client' = [client EXCEPT ![c] = to]

OpenStream(c) ==
    /\ status # "none"
    /\ ClientGoes(c, "idle", IF status \in Terminal THEN "replaying" ELSE "joining")
    /\ UNCHANGED <<rowVars, jobEvents, request, taskVars, seen, told, historyVars>>

\* Path A: every row of job_events, then a synthetic "done".
Replay(c) ==
    /\ ClientGoes(c, "replaying", "closed")
    /\ seen' = [seen EXCEPT ![c] = jobEvents]
    /\ told' = [told EXCEPT ![c] = "done"]
    /\ UNCHANGED <<rowVars, jobEvents, request, taskVars, historyVars>>

\* Path B: the subscription starts here, one round trip after the status was
\* read, and nothing that was published before it will arrive.
Subscribe(c) ==
    /\ ClientGoes(c, "joining", "listening")
    /\ UNCHANGED <<rowVars, jobEvents, request, taskVars, seen, told, historyVars>>

Listening == {c \in Clients : client[c] = "listening"}

\* publish of a job event: whoever is subscribed forwards it.
Forward(event) ==
    /\ seen' = [c \in Clients |-> IF c \in Listening THEN seen[c] \cup {event}
                                  ELSE seen[c]]
    /\ UNCHANGED <<client, told>>

\* publish of "complete" or "error": whoever is subscribed forwards it and ends.
Close(terminal) ==
    /\ client' = [c \in Clients |-> IF c \in Listening THEN "closed" ELSE client[c]]
    /\ told' = [c \in Clients |-> IF c \in Listening THEN terminal ELSE told[c]]
    /\ UNCHANGED <<seen>>
-----------------------------------------------------------------------------
(* generation.py: the task generate_spec that request r enqueued.            *)

TaskGoes(r, from, to) ==
    /\ task[r] = from
    /\ task' = [task EXCEPT ![r] = to]

TheRun(r) == <<r, try[r]>>

\* The locals of a task end with it.
Forget(r) ==
    /\ at' = [at EXCEPT ![r] = 1]
    /\ outcome' = [outcome EXCEPT ![r] = "none"]

Take(r) ==
    /\ TaskGoes(r, "queued", "taken")
    /\ try' = [try EXCEPT ![r] = @ + 1]
    /\ UNCHANGED <<rowVars, jobEvents, request, at, outcome, clientVars, historyVars>>

\* asyncpg.connect stands before the try: when it raises, no handler sees it and
\* the row stays what it was.
Connect(r) ==
    /\ \/ TaskGoes(r, "taken", "connected") /\ UNCHANGED lost
       \/ TaskGoes(r, "taken", "over") /\ lost' = TRUE
    /\ UNCHANGED <<rowVars, jobEvents, request, try, at, outcome, clientVars, runs,
                   crashes>>

MarkRunning(r) ==
    /\ TaskGoes(r, "connected", "running")
    /\ status' = "running"
    /\ UNCHANGED <<message, jobEvents, request, try, at, outcome, clientVars,
                   historyVars>>

\* Spec loaded and the pipeline run to its end, whatever end that is.
RunGenerationJob(r) ==
    /\ TaskGoes(r, "running", IF NEvents = 0 THEN "closing" ELSE "writing")
    /\ \E result \in Outcomes :
        /\ outcome' = [outcome EXCEPT ![r] = result]
        /\ runs' = IF result = "delivered" THEN runs \cup {TheRun(r)} ELSE runs
    /\ UNCHANGED <<rowVars, jobEvents, request, try, at, clientVars, crashes, lost>>

WriteEvent(r) ==
    /\ TaskGoes(r, "writing", "publishing")
    /\ jobEvents' = jobEvents \cup {<<TheRun(r), at[r]>>}
    /\ UNCHANGED <<rowVars, request, try, at, outcome, clientVars, historyVars>>

\* Slip: the last event is left out.
PublishEventSkipsLast(r) ==
    /\ TaskGoes(r, "publishing", IF at[r] < NEvents THEN "writing" ELSE "closing")
    /\ IF at[r] < NEvents
       THEN /\ at' = [at EXCEPT ![r] = @ + 1]
            /\ Forward(<<TheRun(r), at[r]>>)
       ELSE /\ at' = [at EXCEPT ![r] = 1]
            /\ UNCHANGED clientVars
    /\ UNCHANGED <<rowVars, jobEvents, request, try, outcome, historyVars>>

PublishEvent(r) ==
    /\ TaskGoes(r, "publishing", IF at[r] < NEvents THEN "writing" ELSE "closing")
    /\ at' = [at EXCEPT ![r] = IF @ < NEvents THEN @ + 1 ELSE 1]
    /\ Forward(<<TheRun(r), at[r]>>)
    /\ UNCHANGED <<rowVars, jobEvents, request, try, outcome, historyVars>>

PublishTerminal(r) ==
    /\ TaskGoes(r, "closing", "finishing")
    /\ Close(IF outcome[r] = "delivered" THEN "complete" ELSE "error")
    /\ UNCHANGED <<rowVars, jobEvents, request, try, at, outcome, historyVars>>

\* Slip: the row says completed whatever the pipeline returned.
UpdateJobAlwaysCompleted(r) ==
    /\ TaskGoes(r, "finishing", "over")
    /\ status' = "completed"
    /\ Forget(r)
    /\ UNCHANGED <<message, jobEvents, request, try, clientVars, historyVars>>

\* Slip: the job status of the pipeline is written as it is.
UpdateJobUntranslated(r) ==
    /\ TaskGoes(r, "finishing", "over")
    /\ status' = outcome[r]
    /\ Forget(r)
    /\ UNCHANGED <<message, jobEvents, request, try, clientVars, historyVars>>

UpdateJob(r) ==
    /\ TaskGoes(r, "finishing", "over")
    /\ status' = IF outcome[r] = "delivered" THEN "completed" ELSE outcome[r]
    /\ Forget(r)
    /\ UNCHANGED <<message, jobEvents, request, try, clientVars, historyVars>>

\* Any statement inside the try raises: the spec is missing, a node raises,
\* Postgres or Redis fails.
Raise(r) ==
    /\ task[r] \in {"connected", "running", "writing", "publishing", "closing",
                    "finishing"}
    /\ task' = [task EXCEPT ![r] = "failing"]
    /\ Forget(r)
    /\ UNCHANGED <<rowVars, jobEvents, request, try, clientVars, historyVars>>

\* Slip: the error is announced and the row left alone.
MarkFailedForgets(r) ==
    /\ TaskGoes(r, "failing", "telling")
    /\ UNCHANGED <<rowVars, jobEvents, request, try, at, outcome, clientVars,
                   historyVars>>

\* The except branch: the row first, and when that raises too it is swallowed.
MarkFailed(r) ==
    /\ \/ /\ TaskGoes(r, "failing", "telling")
          /\ status' = "failed"
          /\ message' = "error"
          /\ UNCHANGED lost
       \/ /\ TaskGoes(r, "failing", "over")
          /\ lost' = TRUE
          /\ UNCHANGED rowVars
    /\ UNCHANGED <<jobEvents, request, try, at, outcome, clientVars, runs, crashes>>

PublishError(r) ==
    /\ TaskGoes(r, "telling", "over")
    /\ \/ Close("error")
       \/ UNCHANGED clientVars
    /\ UNCHANGED <<rowVars, jobEvents, request, try, at, outcome, historyVars>>

Working == {"taken", "connected", "running", "writing", "publishing", "closing",
            "finishing", "failing", "telling"}

\* job_timeout, or the worker shut down: CancelledError is no Exception, so the
\* except branch does not run, and retry_jobs = False keeps arq from retrying.
Cancel(r) ==
    /\ task[r] \in Working
    /\ task' = [task EXCEPT ![r] = "over"]
    /\ Forget(r)
    /\ lost' = TRUE
    /\ UNCHANGED <<rowVars, jobEvents, request, try, clientVars, runs, crashes>>

\* The worker is killed: the task is still in arq's queue, and is handed out
\* again once its in-progress mark has expired.  The kill may come after the
\* last statement and before arq has removed the task.
WorkerDies(r) ==
    /\ task[r] \in Working \cup {"over"}
    /\ Handouts < MaxHandouts
    /\ task' = [task EXCEPT ![r] = "queued"]
    /\ crashes' = crashes + 1
    /\ Forget(r)
    /\ UNCHANGED <<rowVars, jobEvents, request, try, clientVars, runs, lost>>

-----------------------------------------------------------------------------

RequestStep(r) == StorePartialAnswers(r) \/ Requeue(r) \/ EnqueueJob(r)

TaskStep(r) ==
    \/ Take(r) \/ Connect(r) \/ MarkRunning(r) \/ RunGenerationJob(r)
    \/ WriteEvent(r) \/ PublishEvent(r) \/ PublishTerminal(r) \/ UpdateJob(r)
    \/ Raise(r) \/ MarkFailed(r) \/ PublishError(r)

ClientStep(c) == Replay(c) \/ Subscribe(c)

Next ==
    \/ CreateJob
    \/ \E r \in Requests :
        \/ CheckPaused(r) \/ RequestStep(r) \/ RequestDies(r)
        \/ TaskStep(r) \/ Cancel(r) \/ WorkerDies(r)
    \/ \E c \in Clients : OpenStream(c) \/ ClientStep(c)

Spec == Init /\ [][Next]_vars

\* A handler that has begun goes on, arq hands out what is in its queue and the
\* worker goes on with what it was handed: asyncio runs what is ready, and every
\* call of theirs answers or raises.  Nobody has to create a job, to answer its
\* questions or to watch it, and no fault has to happen.
FairSpec ==
    /\ Spec
    /\ \A r \in Requests : WF_vars(RequestStep(r)) /\ WF_vars(TaskStep(r))
    /\ \A c \in Clients : WF_vars(ClientStep(c))

-----------------------------------------------------------------------------
(* What the job service must never do, and what it must do.                  *)

\* A client is never shown an event that a later replay would not have: events
\* are written before they are published.
SeenIsPersisted == \A c \in Clients : seen[c] \subseteq jobEvents

\* A row is completed only on the strength of a run that was delivered and whose
\* every event is in job_events, whatever tasks and workers did besides.
CompletedIsBacked ==
    status = "completed" => \E run \in runs : EventsOf(run) \subseteq jobEvents

\* A client told "complete" was told so for a delivered run; what it missed of
\* that run it missed at the beginning, by joining late.
CompleteStreamHasNoGap ==
    \A c \in Clients : told[c] = "complete" =>
        \E run \in runs : \E first \in 1..NEvents + 1 :
            \A n \in 1..NEvents : n >= first <=> <<run, n>> \in seen[c]

\* A queued or running row has somebody who will move it: a request about to
\* enqueue, a task in the queue, a task at work.  The exceptions are the faults
\* that lost records, and there the row is stuck for good.
LiveRowHasOwner ==
    status \in {"queued", "running"} =>
        \/ lost
        \/ \E r \in Requests :
            request[r] = "committed" \/ task[r] \in Working \cup {"queued"}

\* Unless a fault lost it, every job comes to rest: completed, failed or waiting
\* for a human.
EveryJobSettles ==
    status \in {"queued", "running"} ~>
        lost \/ status \in {"completed", "failed", "paused_human"}

\* FAILS (findings): a job is dispatched once at a time.
OneTaskPerJob ==
    Cardinality({r \in Requests : task[r] \in Working \cup {"queued"}}) <= 1
==============================================================================
