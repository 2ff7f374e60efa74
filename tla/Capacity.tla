------------------------------- MODULE Capacity -------------------------------
(***************************************************************************)
(* The capacity manager (services/capacity/capacity.py): POST /acquire and *)
(* POST /release for one slot type, over a counter, a waiting list per     *)
(* tenant and a mark per job, all of them keys in Redis.                   *)
(*                                                                         *)
(* Calls run concurrently and each Redis command is a step.  A command is  *)
(* atomic; what a call read before is not locked, except that the EXEC of  *)
(* a transaction does nothing when a key it WATCHes was written since.     *)
(***************************************************************************)
EXTENDS Integers, FiniteSets, SequencesExt

CONSTANTS
    Jobs,
    Tenants,
    TenantOf,    \* the tenant of each job
    Acquires,    \* calls to acquire a slot
    Releases,    \* calls to release one
    JobOf,       \* the job each call is for
    Limit        \* SLOT_LIMITS of the slot type

Calls == Acquires \cup Releases

ASSUME ConstantsAssumption ==
    /\ TenantOf \in [Jobs -> Tenants]
    /\ Acquires \cap Releases = {}
    /\ IsFiniteSet(Calls)
    /\ JobOf \in [Calls -> Jobs]
    /\ Limit \in Nat \ {0}

VARIABLES
    pc,          \* where each call is
    dead,        \* the calls whose process died where they are
    used,        \* capacity:{slot_type}:used
    dirty,       \* the acquiring calls that watch used and will find it written
    queue,       \* capacity:queue:{slot_type}:{tenant}, its head at the left
    active,      \* the jobs that have a capacity:active:{slot_type}:{job}
    retries,     \* history: the calls that came with is_retry
    repeated     \* history: a job was released more often than it had acquired

vars == <<pc, dead, used, dirty, queue, active, retries, repeated>>

-----------------------------------------------------------------------------

Watching == {"watched", "below"}
HasSlot == {"incremented", "unqueued", "granted"}
HasFreed == {"decremented", "released"}

\* The calls whose INCR was executed, and the releases that are through with
\* the counter.
Taken == {a \in Acquires : pc[a] \in HasSlot}
Freed == {r \in Releases : pc[r] \in HasFreed}

CallsFor(j, calls) == {c \in calls : pc[c] # "idle" /\ JobOf[c] = j}

TypeOK ==
    /\ pc \in [Calls -> {"idle", "pushed", "full", "denied", "counted"}
                        \cup Watching \cup HasSlot \cup HasFreed]
    /\ dead \subseteq Calls
    /\ used \in Int
    /\ dirty \subseteq {a \in Acquires : pc[a] \in Watching}
    /\ queue \in [Tenants -> Seq(Jobs)]
    /\ active \subseteq Jobs
    /\ retries \subseteq Acquires
    /\ repeated \in BOOLEAN

Init ==
    /\ pc = [c \in Calls |-> "idle"]
    /\ dead = {}
    /\ used = 0
    /\ dirty = {}
    /\ queue = [t \in Tenants |-> <<>>]
    /\ active = {}
    /\ retries = {}
    /\ repeated = FALSE

Goes(c, from, to) ==
    /\ pc[c] = from /\ c \notin dead
    /\ pc' = [pc EXCEPT ![c] = to]

QueueOf(c) == TenantOf[JobOf[c]]

-----------------------------------------------------------------------------
(* POST /acquire                                                             *)

\* A retry goes to the back of the tenant's list, a fresh job to the front.
Pushed(q, j, retry) == IF retry THEN Append(q, j) ELSE Cons(j, q)

Push(a) ==
    /\ Goes(a, "idle", "pushed")
    /\ \E retry \in BOOLEAN :
        /\ queue' = [queue EXCEPT ![QueueOf(a)] = Pushed(@, JobOf[a], retry)]
        /\ retries' = IF retry THEN retries \cup {a} ELSE retries
    /\ UNCHANGED <<dead, used, dirty, active, repeated>>

\* _try_acquire: WATCH, then GET, then EXEC.
Watch(a) ==
    /\ Goes(a, "pushed", "watched")
    /\ UNCHANGED <<dead, used, dirty, queue, active, retries, repeated>>

ReadCounter(a) ==
    /\ IF used < Limit
       THEN Goes(a, "watched", "below") /\ UNCHANGED dirty
       ELSE Goes(a, "watched", "full") /\ dirty' = dirty \ {a}
    /\ UNCHANGED <<dead, used, queue, active, retries, repeated>>

\* Who watches the counter when c writes it.
Watchers(c) == {a \in Acquires \ {c} : pc[a] \in Watching}

\* Slip: the pipeline is not a transaction, and INCR is executed anyway.
IncrementUnwatched(a) ==
    /\ Goes(a, "below", "incremented")
    /\ used' = used + 1
    /\ dirty' = {}
    /\ UNCHANGED <<dead, queue, active, retries, repeated>>

\* Slip: a call that is told to try again does not watch the counter anew.
IncrementStaysDirty(a) ==
    /\ IF a \in dirty
       THEN Goes(a, "below", "watched") /\ UNCHANGED <<used, dirty>>
       ELSE /\ Goes(a, "below", "incremented")
            /\ used' = used + 1
            /\ dirty' = dirty \cup Watchers(a)
    /\ UNCHANGED <<dead, queue, active, retries, repeated>>

\* Slip: the flag of the old watch outlives it.
IncrementForgets(a) ==
    /\ IF a \in dirty
       THEN Goes(a, "below", "pushed") /\ UNCHANGED <<used, dirty>>
       ELSE /\ Goes(a, "below", "incremented")
            /\ used' = used + 1
            /\ dirty' = dirty \cup Watchers(a)
    /\ UNCHANGED <<dead, queue, active, retries, repeated>>

\* EXEC: INCR, or WatchError and the loop begins again.
Increment(a) ==
    /\ IF a \in dirty
       THEN Goes(a, "below", "pushed") /\ dirty' = dirty \ {a} /\ UNCHANGED used
       ELSE /\ Goes(a, "below", "incremented")
            /\ used' = used + 1
            /\ dirty' = dirty \cup Watchers(a)
    /\ UNCHANGED <<dead, queue, active, retries, repeated>>

\* Slip: LREM with count 0 removes every entry of the job.
UnqueueAll(a) ==
    /\ Goes(a, "incremented", "unqueued")
    /\ queue' = [queue EXCEPT ![QueueOf(a)] = Remove(@, JobOf[a])]
    /\ UNCHANGED <<dead, used, dirty, active, retries, repeated>>

\* LREM with count 1: the entry of the job that is nearest to the head.
Unqueue(a) ==
    /\ Goes(a, "incremented", "unqueued")
    /\ queue' = [queue EXCEPT ![QueueOf(a)] = RemoveFirst(@, JobOf[a])]
    /\ UNCHANGED <<dead, used, dirty, active, retries, repeated>>

Mark(a) ==
    /\ Goes(a, "unqueued", "granted")
    /\ active' = active \cup {JobOf[a]}
    /\ UNCHANGED <<dead, used, dirty, queue, retries, repeated>>

\* LPOS, and the answer that the job has to wait.
Deny(a) ==
    /\ Goes(a, "full", "denied")
    /\ UNCHANGED <<dead, used, dirty, queue, active, retries, repeated>>

-----------------------------------------------------------------------------
(* POST /release                                                             *)

\* A job that was granted a slot gives it back; whoever gets no answer may call
\* again.  _release reads the counter first and leaves it alone when it is 0.
ReadToRelease(r) ==
    /\ \E a \in CallsFor(JobOf[r], Acquires) : pc[a] = "granted"
    /\ Goes(r, "idle", IF used > 0 THEN "counted" ELSE "decremented")
    /\ repeated' = \/ repeated
                   \/ Cardinality(CallsFor(JobOf[r], Releases))
                        >= Cardinality(CallsFor(JobOf[r], Acquires) \cap Taken)
    /\ UNCHANGED <<dead, used, dirty, queue, active, retries>>

Decrement(r) ==
    /\ Goes(r, "counted", "decremented")
    /\ used' = used - 1
    /\ dirty' = dirty \cup Watchers(r)
    /\ UNCHANGED <<dead, queue, active, retries, repeated>>

Unmark(r) ==
    /\ Goes(r, "decremented", "released")
    /\ active' = active \ {JobOf[r]}
    /\ UNCHANGED <<dead, used, dirty, queue, retries, repeated>>

-----------------------------------------------------------------------------
(* Faults.                                                                   *)

Running(c) == pc[c] \notin {"idle", "granted", "denied", "released"} /\ c \notin dead

\* The process dies, or Redis does not answer: the call goes no further.  A
\* connection that is gone watches nothing.
Die(c) ==
    /\ Running(c)
    /\ dead' = dead \cup {c}
    /\ UNCHANGED <<pc, used, dirty, queue, active, retries, repeated>>

\* A mark lives for 30 minutes (ex=1800); nothing else happens when it goes.
Expire(j) ==
    /\ j \in active
    /\ active' = active \ {j}
    /\ UNCHANGED <<pc, dead, used, dirty, queue, retries, repeated>>

-----------------------------------------------------------------------------

\* What a call does once it has begun.
Step(c) ==
    \/ /\ c \in Acquires
       /\ Watch(c) \/ ReadCounter(c) \/ Increment(c) \/ Unqueue(c) \/ Mark(c) \/ Deny(c)
    \/ /\ c \in Releases
       /\ Decrement(c) \/ Unmark(c)

Next ==
    \/ \E a \in Acquires : Push(a)
    \/ \E r \in Releases : ReadToRelease(r)
    \/ \E c \in Calls : Step(c) \/ Die(c)
    \/ \E j \in Jobs : Expire(j)

Spec == Init /\ [][Next]_vars

\* A call that began goes on: the event loop runs it and Redis answers it.
FairSpec == Spec /\ \A c \in Calls : WF_vars(Step(c))

-----------------------------------------------------------------------------
(* What the capacity manager promises.                                       *)

\* The places of a job in a list, and its calls that have put an entry there
\* and not taken one out.
Places(q, j) == {i \in DOMAIN q : q[i] = j}
Listed(j) == {a \in CallsFor(j, Acquires) : pc[a] \notin {"unqueued", "granted"}}

\* However many calls read the counter at once, it never exceeds the limit.
LimitHolds == used <= Limit

\* "Never goes below zero" (_release).  It does not hold: two releases that both
\* read the last slot both decrement, and the limit is then one slot too high.
NeverBelowZero == used >= 0

\* What the counter counts, as long as no job is released twice: the slots taken
\* and not given back.  Neither a dying call nor an expiring mark gives one back,
\* although acquire_slot says of the mark that it does after 30 minutes.
CounterIsExact ==
    repeated \/ used = Cardinality(Taken) - Cardinality(Freed)

\* Nothing but a grant takes an entry out of a list: the list of a tenant has
\* one entry for each call that came and has not taken its slot's entry out, so
\* that a job told to wait is in it, whatever happened to its other calls.
ListAccountsForCalls ==
    \A j \in Jobs : Cardinality(Places(queue[TenantOf[j]], j)) = Cardinality(Listed(j))

\* The two ends of a list: whatever was taken out in between, a job that only ever
\* came as a retry stands behind every job that never did.  This is about places
\* in the list alone, from which no slot is granted: whoever calls first takes the
\* free slot, a retry as well as a fresh job.
RetriesStandBehind ==
    \A t \in Tenants : \A m, n \in DOMAIN queue[t] :
        /\ CallsFor(queue[t][m], Acquires) \subseteq retries
        /\ CallsFor(queue[t][n], Acquires) \cap retries = {}
        => n < m

\* Every call that does not die is answered: calls that keep one another from
\* executing their transactions cannot do so for ever.
EveryCallEnds == <>[](\A c \in Calls : ~Running(c))

==============================================================================
