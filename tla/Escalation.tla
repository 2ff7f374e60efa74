------------------------------ MODULE Escalation ------------------------------
(***************************************************************************)
(* What happens to jobs whose own repairs are used up: the escalation      *)
(* memory (agents/memory/escalation_memory.py) is asked for a fix of a     *)
(* similar failure, then the escalation gate (escalation_gate.py) may call *)
(* a commercial model.  Either answer goes back to the sandbox gate, and   *)
(* what passes there is stored or counted as a reuse.                      *)
(*                                                                         *)
(* The pipeline has no node for this yet (node_escalation_gate hands every *)
(* job to a human): the order of the calls is the one both docstrings ask  *)
(* of the caller, who also keeps escalation_used and the budget.           *)
(*                                                                         *)
(* Records are objects in a heap; the store lists some of them.            *)
(***************************************************************************)
EXTENDS MetacognitionGate, Sequences, FiniteSets

CONSTANTS
    Jobs, Tenants, Fingerprints,
    TenantOf, ProblemOf,    \* of each job
    Similar,                \* the pairs of fingerprints 85% alike
    Enabled, Consenting,    \* the tenants' two switches
    Clean,                  \* the jobs whose prompt passes the PII scan
    Estimate,               \* what a call is estimated to cost at most
    Budget,                 \* what each tenant has to spend
    PromoteAt,
    MaxFixIterations,
    MaxAttempts             \* bound of the model: escalations tried per job

ASSUME EscalationAssumption ==
    /\ IsFiniteSet(Jobs)
    /\ TenantOf \in [Jobs -> Tenants]
    /\ ProblemOf \in [Jobs -> Fingerprints]
    /\ Similar \subseteq Fingerprints \X Fingerprints
    /\ Estimate \in Nat
    /\ Budget \in [Tenants -> Nat]
    /\ PromoteAt \in Nat \ {0}
    /\ MaxFixIterations \in Nat

VARIABLES
    heap,       \* every record made, in order
    stored,     \* the places of the records the store lists
    job,        \* of each job: where it is and the record it tries
    used,       \* the jobs for which the caller set escalation_used
    budget,
    calls,      \* history: of each job, the contexts its calls were made in
    served      \* history: which tenant was given which record

vars == <<heap, stored, job, used, budget, calls, served>>

Record == [tenant : Tenants, fingerprint : Fingerprints,
           reuse_count : Nat, shared : BOOLEAN]

Init ==
    /\ heap = <<>>
    /\ stored = {}
    /\ job = [j \in Jobs |-> [at |-> "fixing", iteration |-> 0,
                              ref |-> 0, tries |-> 0]]
    /\ used = {}
    /\ budget = Budget
    /\ calls = [j \in Jobs |-> <<>>]
    /\ served = {}

Move(j, place) == job' = [job EXCEPT ![j].at = place]

\* The local fix loop gives up after some iteration.
Exhausted(j) ==
    /\ job[j].at = "fixing"
    /\ \E n \in 0..MaxFixIterations :
          job' = [job EXCEPT ![j].at = "failed", ![j].iteration = n]
    /\ UNCHANGED <<heap, stored, used, budget, calls, served>>

-----------------------------------------------------------------------------
(* The memory.                                                             *)

\* The records a look-up may return, to a tenant that owns or shares them.
Hits(j) ==
    {i \in stored :
        /\ heap[i].shared \/ heap[i].tenant = TenantOf[j]
        /\ <<ProblemOf[j], heap[i].fingerprint>> \in Similar}

\* The best hit is tried; the service turns an exception of the store into no
\* hit at all.
LookUp(j) ==
    /\ job[j].at = "failed"
    /\ \/ \E i \in Hits(j) :
             /\ job' = [job EXCEPT ![j].at = "reusing", ![j].ref = i]
             /\ served' = served \cup {<<TenantOf[j], i>>}
       \/ Move(j, "asking") /\ UNCHANGED served
    /\ UNCHANGED <<heap, stored, used, budget, calls>>

Same(j, i) ==
    heap[i].tenant = TenantOf[j] /\ heap[i].fingerprint = ProblemOf[j]

\* Slip: a record takes over the reuses of the one it replaces.
NewRecordInherits(j) ==
    LET old == {i \in stored : Same(j, i)}
    IN [tenant |-> TenantOf[j], fingerprint |-> ProblemOf[j],
        reuse_count |-> IF old = {} THEN 0
                        ELSE heap[CHOOSE i \in old : TRUE].reuse_count,
        shared |-> FALSE]

NewRecord(j) ==
    [tenant |-> TenantOf[j], fingerprint |-> ProblemOf[j],
     reuse_count |-> 0, shared |-> FALSE]

\* Slip: a record is put beside the one it should replace.
StoreSuccessBeside(j) ==
    /\ heap' = Append(heap, NewRecord(j))
    /\ stored' = stored \cup {Len(heap) + 1}

\* A record replaces the one of its fingerprint and tenant, with another id.
StoreSuccess(j) ==
    /\ heap' = Append(heap, NewRecord(j))
    /\ stored' = {i \in stored : ~Same(j, i)} \cup {Len(heap) + 1}

\* A reuse is counted for the record of this id; when it was replaced in the
\* meantime there is none, and nothing is counted.
RecordReuse(i) ==
    /\ heap' = IF i \in stored
               THEN [heap EXCEPT
                        ![i].reuse_count = @ + 1,
                        ![i].shared = @ \/ heap[i].reuse_count + 1 >= PromoteAt]
               ELSE heap
    /\ UNCHANGED stored

-----------------------------------------------------------------------------
(* The gate.                                                               *)

\* What the caller puts into the gate's context.
GateContext(j) ==
    [iteration |-> job[j].iteration, limit |-> MaxFixIterations,
     enabled |-> TenantOf[j] \in Enabled,
     consent |-> TenantOf[j] \in Consenting,
     remaining |-> budget[TenantOf[j]], estimate |-> Estimate]

\* Slip: the flag is not looked at.
ApprovesAgain(j) ==
    LET ctx == GateContext(j)
    IN /\ ctx.iteration >= ctx.limit
       /\ ctx.enabled
       /\ ctx.consent
       /\ ctx.remaining >= ctx.estimate
       /\ j \in Clean

\* Slip: the budget has to be positive, not sufficient.
ApprovesInDebt(j) ==
    LET ctx == GateContext(j)
    IN /\ j \notin used
       /\ ctx.iteration >= ctx.limit
       /\ ctx.enabled
       /\ ctx.consent
       /\ ctx.remaining > 0
       /\ j \in Clean

\* The preconditions in the order of evaluate, the scan of the prompt last.
Approves(j) ==
    LET ctx == GateContext(j)
    IN /\ j \notin used
       /\ ctx.iteration >= ctx.limit
       /\ ctx.enabled
       /\ ctx.consent
       /\ ctx.remaining >= ctx.estimate
       /\ j \in Clean

\* The caller marks the job as it makes the call.
Evaluate(j) ==
    /\ job[j].at = "asking"
    /\ IF Approves(j)
       THEN /\ Move(j, "calling")
            /\ used' = used \cup {j}
            /\ calls' = [calls EXCEPT ![j] = Append(@, GateContext(j))]
       ELSE /\ Move(j, "human")
            /\ UNCHANGED <<used, calls>>
    /\ UNCHANGED <<heap, stored, budget, served>>

\* The commercial model is asked, and charges for what it read and wrote.
Pays(j) ==
    \E cost \in 0..Estimate :
        budget' = [budget EXCEPT ![TenantOf[j]] = @ - cost]

\* A parsed answer is approved whatever it holds, an empty one too, and paid.
CallReturns(j) ==
    /\ job[j].at = "calling"
    /\ Pays(j)
    /\ Move(j, "judging")
    /\ UNCHANGED <<heap, stored, used, calls, served>>

\* An exception is reported like an empty budget, although the model may have
\* been called and paid; the caller tries the job again or gives it up.
CallFails(j) ==
    /\ job[j].at = "calling"
    /\ Pays(j)
    /\ \/ /\ job[j].tries < MaxAttempts
          /\ job' = [job EXCEPT ![j].at = "failed", ![j].tries = @ + 1]
       \/ Move(j, "human")
    /\ UNCHANGED <<heap, stored, used, calls, served>>

-----------------------------------------------------------------------------
(* The sandbox gate judges what came back.                                 *)

Passes(j) ==
    /\ job[j].at \in {"reusing", "judging"}
    /\ Move(j, "delivered")
    /\ IF job[j].at = "reusing" THEN RecordReuse(job[j].ref)
                                ELSE StoreSuccess(j)
    /\ UNCHANGED <<used, budget, calls, served>>

\* The store may raise; the service logs that and goes on.
PassesUnrecorded(j) ==
    /\ job[j].at \in {"reusing", "judging"}
    /\ Move(j, "delivered")
    /\ UNCHANGED <<heap, stored, used, budget, calls, served>>

\* A fix from memory that does not help leaves the commercial call.
Fails(j) ==
    /\ job[j].at \in {"reusing", "judging"}
    /\ Move(j, IF job[j].at = "reusing" THEN "asking" ELSE "human")
    /\ UNCHANGED <<heap, stored, used, budget, calls, served>>

Step(j) ==
    \/ Exhausted(j)
    \/ LookUp(j)
    \/ Evaluate(j)
    \/ CallReturns(j)
    \/ CallFails(j)
    \/ Passes(j)
    \/ PassesUnrecorded(j)
    \/ Fails(j)

Next == \E j \in Jobs : Step(j)

Spec == Init /\ [][Next]_vars

-----------------------------------------------------------------------------
(* Properties.                                                             *)

\* The store lists records that exist, one for each fingerprint of a tenant.
TypeOK ==
    /\ heap \in Seq(Record)
    /\ stored \subseteq 1..Len(heap)
    /\ \A i, k \in stored :
          /\ heap[i].tenant = heap[k].tenant
          /\ heap[i].fingerprint = heap[k].fingerprint
          => i = k
    /\ \A j \in Jobs : job[j].ref \in 0..Len(heap)
    /\ used \subseteq Jobs
    /\ budget \in [Tenants -> Int]
    /\ served \subseteq Tenants \X (1..Len(heap))

\* Storing, reusing and replacing in any order never show a tenant a fix it
\* neither owns nor was shared with: the memory implements GatedSharing
\* (lookup, store and increment_reuse, contract C14).
Sharing == INSTANCE GatedSharing WITH
    owner <- [i \in 1..Len(heap) |-> heap[i].tenant],
    reuses <- [i \in 1..Len(heap) |-> heap[i].reuse_count],
    shared <- {i \in 1..Len(heap) : heap[i].shared}

SharesAsPromised == Sharing!Spec

\* A job makes at most one commercial call, however often it is tried again,
\* and the metacognition gate would have found that call needed: the rules of
\* the two gates, written apart, do not disagree (evaluate and
\* _EscalationRules, for an estimate that is not zero).
CallsAreLicensed ==
    \A j \in Jobs :
        /\ Len(calls[j]) <= 1
        /\ \A n \in DOMAIN calls[j] : Needed(EvaluateEscalation(calls[j][n]))

\* Jobs of one tenant check the budget before any of them has paid: together
\* they may overdraw it, by at most one estimate for each job but the first.
OverdraftBounded ==
    \A t \in Tenants :
        budget[t] < 0 =>
            -budget[t] <= Estimate * (Cardinality({j \in used : TenantOf[j] = t}) - 1)
=============================================================================
