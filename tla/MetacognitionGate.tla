-------------------------- MODULE MetacognitionGate --------------------------
(***************************************************************************)
(* The rules by which the metacognition gate (agents/gates/                *)
(* metacognition.py) lets an agent retrieve or escalate.  The first rule   *)
(* that fires decides; when none does, no second-tier arbiter is wired and *)
(* the answer is no.                                                       *)
(***************************************************************************)
EXTENDS Integers

Verdict(v, tier) == [verdict |-> v, tier |-> tier, outcome |-> "none"]

\* What a rule set answers when no rule of it fires.
NoRule == Verdict("none", 0)

Needed(decision) == decision.verdict \in {"NEEDED", "NARROW_QUERY"}

\* A context of a retrieval: the integrations the specification names and
\* those with connector documents, the regulations and the entities the
\* message mentions, the entities in context, and whether it is short.
RetrievalRules(ctx) ==
    CASE ~(ctx.integrations \subseteq ctx.documented) ->      \* R1
           Verdict("NARROW_QUERY", 0)
      [] /\ ctx.integrations \subseteq ctx.documented         \* R2
         /\ ctx.regulations # {} ->
           Verdict("NARROW_QUERY", 0)
      [] /\ ctx.integrations \subseteq ctx.documented         \* R3, R4
         /\ ctx.regulations = {}
         /\ \/ ctx.mentioned # {} /\ ctx.mentioned \subseteq ctx.known
            \/ ctx.short /\ ctx.integrations = {} ->
           Verdict("NOT_NEEDED", 0)
      [] OTHER -> NoRule

EvaluateRetrieval(ctx) ==
    LET verdict == RetrievalRules(ctx)
    IN IF verdict = NoRule THEN Verdict("NOT_NEEDED", 1) ELSE verdict

\* A context of an escalation: the iteration of the fix loop and its limit,
\* the tenant's two switches, what is left of the budget and the estimate.
EvaluateEscalation(ctx) ==
    IF /\ ctx.iteration >= ctx.limit                          \* E1
       /\ ctx.enabled                                         \* E2
       /\ ctx.consent                                         \* E3
       /\ ctx.remaining > 0 /\ ctx.remaining >= ctx.estimate  \* E4
    THEN Verdict("NEEDED", 0)                                 \* E5
    ELSE Verdict("NOT_NEEDED", 0)

\* The log is searched for the decision, and the outcome is put there.
RecordOutcome(decisions, n, outcome) ==
    [decisions EXCEPT ![n].outcome = outcome]
=============================================================================
