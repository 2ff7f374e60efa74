----------------------------- MODULE SpecDialogue -----------------------------
(***************************************************************************)
(* How a specification is gathered and reviewed: option selections         *)
(* (agents/option_graph), turns of the domain wizard, amendments of the    *)
(* spec editor and completeness checks (agents/conversation), all of them  *)
(* against one ApplicationSpec, until it is locked.                        *)
(*                                                                         *)
(* A turn reads the specification when it begins and awaits retrieval and  *)
(* model calls; meanwhile others change the specification.  What a turn    *)
(* proposes becomes a diff card, and changes the specification only when   *)
(* it is accepted, then against the specification as it is by then.        *)
(***************************************************************************)
EXTENDS OptionGraph, MetacognitionGate

CONSTANTS
    Users,
    Messages,       \* the retrieval contexts user messages give rise to
    Proposals,      \* the patches the model may answer with
    Vertical,
    HasRetrieval,   \* whether the wizard has a retrieval function
    Required,       \* the paths the completeness checklist wants non-empty
    MaxAttempts,    \* attempts of the structured-output harness
    MaxVersion,     \* bound of the model on versions
    MaxDecisions    \* bound of the model on the log of the gate

ASSUME DialogueAssumption ==
    /\ Proposals \subseteq Patches
    /\ Required \subseteq Paths
    /\ MaxAttempts \in Nat \ {0}
    /\ \A o \in Options : Provenance(o) \in Seq(Paths)

VARIABLES
    spec,
    selected,
    turn,        \* of each user: what its agent is doing, or its card
    decisions,   \* the log of the metacognition gate
    applied      \* history: the patches applied, in their order

vars == <<spec, selected, turn, decisions, applied>>

Nobody == [at |-> "idle", agent |-> "none", attempts |-> 0, decision |-> 0,
           patch |-> NoPatch]

Context(options) == [selected |-> options, vertical |-> Vertical]

Complete(content) == \A p \in Required : Items(content[p]) # <<>>

Init ==
    /\ spec = MakeEmptySpec
    /\ selected = {}
    /\ turn = [u \in Users |-> Nobody]
    /\ decisions = <<>>
    /\ applied = <<>>

-----------------------------------------------------------------------------
(* The option sheet.                                                       *)

\* The option joins the context first, then it is evaluated and its delta is
\* applied.  An option that is not eligible is refused with a ValueError.
SelectOption(o) ==
    LET delta == EvaluateSelection(o, Context(selected \cup {o}))
    IN /\ delta.ok
       /\ TakesDelta(spec, delta.patch)
       /\ spec.version < MaxVersion
       /\ spec' = ApplyDelta(spec, delta.patch, Provenance(o))
       /\ selected' = selected \cup {o}
       /\ applied' = Append(applied, delta.patch)
       /\ UNCHANGED <<turn, decisions>>

-----------------------------------------------------------------------------
(* Turns.                                                                  *)

\* The gate decides before anything is retrieved, and its decision is logged.
WizardTurn(u, m) ==
    LET decision == EvaluateRetrieval(m)
    IN /\ turn[u].at = "idle"
       /\ Len(decisions) < MaxDecisions
       /\ decisions' = Append(decisions, decision)
       /\ turn' = [turn EXCEPT ![u] =
             [Nobody EXCEPT !.at = IF Needed(decision) /\ HasRetrieval
                                   THEN "retrieval" ELSE "model",
                            !.agent = "wizard",
                            !.decision = Len(decisions) + 1]]
       /\ UNCHANGED <<spec, selected, applied>>

\* Retrieval answers or fails; the turn goes on without chunks if it fails.
RetrievalReturns(u) ==
    /\ turn[u].at = "retrieval"
    /\ turn' = [turn EXCEPT ![u].at = "model"]
    /\ UNCHANGED <<spec, selected, decisions, applied>>

\* An instruction that is too short gets an empty card at once.
Amend(u, short) ==
    /\ turn[u].at = "idle"
    /\ turn' = [turn EXCEPT ![u] =
          [Nobody EXCEPT !.at = IF short THEN "card" ELSE "model",
                         !.agent = "editor"]]
    /\ UNCHANGED <<spec, selected, decisions, applied>>

\* The checklist is run at once; the model is asked for gap questions only
\* when nothing is missing.  Either answer is the caller's, none is kept.
Validate(u) ==
    /\ turn[u].at = "idle"
    /\ Complete(spec.content)
    /\ turn' = [turn EXCEPT ![u] = [Nobody EXCEPT !.at = "model",
                                                 !.agent = "validator"]]
    /\ UNCHANGED <<spec, selected, decisions, applied>>

\* Slip: the outcome is recorded on the decision logged last.
EndsOnLatest(u, patch) ==
    /\ turn' = [turn EXCEPT ![u] =
          IF @.agent = "validator" THEN Nobody
          ELSE [@ EXCEPT !.at = "card", !.patch = patch]]
    /\ decisions' =
          IF turn[u].agent = "wizard"
          THEN RecordOutcome(decisions, Len(decisions),
                   IF DOMAIN patch # {} THEN "proposed" ELSE "no_delta")
          ELSE decisions

\* A turn of an agent ends in a card; the wizard records what came of the
\* gate's decision, and the validator returns its questions instead.
Ends(u, patch) ==
    /\ turn' = [turn EXCEPT ![u] =
          IF @.agent = "validator" THEN Nobody
          ELSE [@ EXCEPT !.at = "card", !.patch = patch]]
    /\ decisions' =
          IF turn[u].agent = "wizard"
          THEN RecordOutcome(decisions, turn[u].decision,
                   IF DOMAIN patch # {} THEN "proposed" ELSE "no_delta")
          ELSE decisions

ModelAnswers(u, patch) ==
    /\ turn[u].at = "model"
    /\ Ends(u, patch)
    /\ UNCHANGED <<spec, selected, applied>>

\* Slip: a turn that needs a repair starts its count again.
ModelUnparsableUncounted(u) ==
    /\ turn[u].at = "model"
    /\ turn' = [turn EXCEPT ![u].attempts = 1 - @]
    /\ UNCHANGED <<spec, selected, decisions, applied>>

\* The harness asks again, with the error in the prompt, until its attempts
\* are used up; then the agent makes an empty proposal.
ModelUnparsable(u) ==
    /\ turn[u].at = "model"
    /\ IF turn[u].attempts + 1 < MaxAttempts
       THEN /\ turn' = [turn EXCEPT ![u].attempts = @ + 1]
            /\ UNCHANGED decisions
       ELSE Ends(u, NoPatch)
    /\ UNCHANGED <<spec, selected, applied>>

\* The call itself fails.  Nothing catches that for the wizard and the editor:
\* the turn is lost, and the gate's decision has no outcome.
ModelRaises(u) ==
    /\ turn[u].at = "model"
    /\ turn' = [turn EXCEPT ![u] = Nobody]
    /\ UNCHANGED <<spec, selected, decisions, applied>>

-----------------------------------------------------------------------------
(* Cards and the lock.                                                     *)

\* The delta of a card carries no provenance entry.  Where the specification
\* does not take it, the user gets the exception.
Accept(u) ==
    /\ turn[u].at = "card"
    /\ spec.version < MaxVersion
    /\ turn' = [turn EXCEPT ![u] = Nobody]
    /\ IF TakesDelta(spec, turn[u].patch)
       THEN /\ spec' = ApplyDelta(spec, turn[u].patch, <<>>)
            /\ applied' = Append(applied, turn[u].patch)
       ELSE UNCHANGED <<spec, applied>>
    /\ UNCHANGED <<selected, decisions>>

Reject(u) ==
    /\ turn[u].at = "card"
    /\ turn' = [turn EXCEPT ![u] = Nobody]
    /\ UNCHANGED <<spec, selected, decisions, applied>>

Lock ==
    /\ ~spec.frozen
    /\ spec' = Freeze(spec)
    /\ UNCHANGED <<selected, turn, decisions, applied>>

Replies(u) ==
    \/ RetrievalReturns(u)
    \/ \E patch \in Proposals : ModelAnswers(u, patch)
    \/ ModelUnparsable(u)
    \/ ModelRaises(u)

Next ==
    \/ \E o \in Options : SelectOption(o)
    \/ \E u \in Users :
          \/ \E m \in Messages : WizardTurn(u, m)
          \/ \E short \in BOOLEAN : Amend(u, short)
          \/ Validate(u)
          \/ Replies(u)
          \/ Accept(u)
          \/ Reject(u)
    \/ Lock

Spec == Init /\ [][Next]_vars

\* The clients time out, so a call that was made is answered or fails.
FairSpec == Spec /\ \A u \in Users : WF_vars(Replies(u))

-----------------------------------------------------------------------------
(* Properties.                                                             *)

\* The specification is whole, whatever the model proposed, and what stands at
\* a path was written by the last delta that addressed it, if any did: a card
\* that was made from an older version takes nothing back that was changed
\* elsewhere in the meantime, and a delta that was applied is not applied in
\* part (apply_delta merges into the current version, path by path).
LastWriterWins ==
    /\ spec \in ApplicationSpec
    /\ \A p \in Paths :
        \/ /\ spec.content[p] = Default[p]
           /\ \A i \in DOMAIN applied : p \notin DOMAIN applied[i]
        \/ \E i \in DOMAIN applied :
              /\ p \in DOMAIN applied[i]
              /\ spec.content[p] = applied[i][p]
              /\ \A j \in DOMAIN applied :
                    j > i => p \notin DOMAIN applied[j]

\* What the option sheet offers can be selected: no option it shows as
\* eligible is refused or raises while its bindings are applied, and the
\* number of entities announced is that of the list the patch carries
\* (get_section_status and evaluate_selection walk the rules and the bindings
\* on their own).
SheetIsTrue ==
    \A o \in Options :
        LET delta == EvaluateSelection(o, Context(selected \cup {o}))
        IN SectionStatus(Options, Context(selected))[o].eligible =>
              /\ delta.ok
              /\ delta.entities = Len(Existing(delta.patch, EntityPath).items)

\* The log of the gate and the turns go together: concurrent turns write to
\* decisions of their own, a turn that still runs has no outcome yet, and a
\* card of the wizard has the outcome that tells whether it proposes anything.
OutcomeIsOfItsTurn ==
    \A u \in Users : turn[u].agent = "wizard" =>
        /\ turn[u].decision \in DOMAIN decisions
        /\ decisions[turn[u].decision].outcome =
              IF turn[u].at # "card" THEN "none"
              ELSE IF DOMAIN turn[u].patch # {} THEN "proposed" ELSE "no_delta"
        /\ \A v \in Users \ {u} :
              turn[v].agent = "wizard" => turn[v].decision # turn[u].decision

\* Once a specification is locked nothing changes it, whatever cards are still
\* on the table when it is locked, and its hash is that of what it holds; until
\* then every delta has cleared the hash (apply_delta, freeze).
LockedForGood ==
    [][/\ spec.frozen => UNCHANGED spec
       /\ spec'.hash = IF spec'.frozen THEN ComputeHash(spec'.content)
                                     ELSE NoHash]_vars

\* Every turn comes to its end: a card, an answer of the validator or an
\* exception, because the harness counts its attempts and the clients time
\* out.
TurnsEnd ==
    \A u \in Users :
        turn[u].at \in {"retrieval", "model"}
            ~> turn[u].at \in {"idle", "card"}
=============================================================================
