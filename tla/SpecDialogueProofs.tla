-------------------------- MODULE SpecDialogueProofs --------------------------
(***************************************************************************)
(* Proofs about SpecDialogue for any users, options, paths, values and     *)
(* answers of the model: the specification is what the deltas applied to   *)
(* it say, a lock is final, the log of the gate belongs to the turns it    *)
(* was written for, a turn gets so many replies and no more, and what the  *)
(* option sheet says of an option is what selecting it does.               *)
(***************************************************************************)
EXTENDS SpecDialogue, WellFoundedInduction, TLAPS

-----------------------------------------------------------------------------
(* The specification.                                                      *)

\* What stands at p was written by the last delta that addressed it, if any
\* did.
Written(content, deltas, p) ==
    \/ /\ content[p] = Default[p]
       /\ \A i \in DOMAIN deltas : p \notin DOMAIN deltas[i]
    \/ \E i \in DOMAIN deltas :
          /\ p \in DOMAIN deltas[i]
          /\ content[p] = deltas[i][p]
          /\ \A j \in DOMAIN deltas : j > i => p \notin DOMAIN deltas[j]

HashInv == spec.hash = IF spec.frozen THEN ComputeHash(spec.content) ELSE NoHash

SpecInv ==
    /\ spec \in ApplicationSpec
    /\ HashInv
    /\ \E S : applied \in Seq(S)
    /\ \A p \in Paths : Written(spec.content, applied, p)

\* The next version of a specification.
LEMMA ApplyDeltaTyped ==
    ASSUME NEW s \in ApplicationSpec, NEW patch, NEW sources \in Seq(Paths),
           TakesDelta(s, patch)
    PROVE  /\ ApplyDelta(s, patch, sources) \in ApplicationSpec
           /\ ApplyDelta(s, patch, sources).content = DeepMerge(s.content, patch)
           /\ ~ApplyDelta(s, patch, sources).frozen
           /\ ApplyDelta(s, patch, sources).hash = NoHash
  <1>1. s.version + 1 \in Nat \ {0}
    BY DEF ApplicationSpec
  <1>2. s.provenance \o sources \in Seq(Paths)
    <2>1. s.provenance \in Seq(Paths)
      BY DEF ApplicationSpec
    <2> QED
      BY <2>1
  <1>3. DeepMerge(s.content, patch) \in [Paths -> Values]
    BY DEF TakesDelta
  <1>4. ApplyDelta(s, patch, sources) \in ApplicationSpec
    BY <1>1, <1>2, <1>3, Zenon DEF ApplyDelta, ApplicationSpec
  <1>5. ApplyDelta(s, patch, sources).frozen = FALSE
    BY Zenon DEF ApplyDelta, ApplicationSpec
  <1>6. ApplyDelta(s, patch, sources).hash = NoHash
    BY Zenon DEF ApplyDelta, ApplicationSpec
  <1>7. ApplyDelta(s, patch, sources).content = DeepMerge(s.content, patch)
    BY Zenon DEF ApplyDelta, ApplicationSpec
  <1> QED
    BY <1>4, <1>5, <1>6, <1>7

LEMMA FreezeTyped ==
    ASSUME NEW s \in ApplicationSpec
    PROVE  /\ Freeze(s) \in ApplicationSpec
           /\ Freeze(s).content = s.content
           /\ Freeze(s).frozen
           /\ Freeze(s).hash = ComputeHash(s.content)
  <1>1. ComputeHash(s.content) \in
            {NoHash} \cup {ComputeHash(c) : c \in [Paths -> Values]}
    BY DEF ApplicationSpec
  <1>2. Freeze(s) \in ApplicationSpec
    BY <1>1, Zenon DEF Freeze, ApplicationSpec
  <1>3. Freeze(s).frozen = TRUE
    BY Zenon DEF Freeze, ApplicationSpec
  <1>4. Freeze(s).content = s.content
    BY Zenon DEF Freeze, ApplicationSpec
  <1>5. Freeze(s).hash = ComputeHash(s.content)
    BY Zenon DEF Freeze, ApplicationSpec
  <1> QED
    BY <1>2, <1>3, <1>4, <1>5

\* One more delta: where it addresses a path it is the last one there, and
\* elsewhere it changes nothing.
LEMMA WrittenOn ==
    ASSUME NEW content, NEW S, NEW deltas \in Seq(S), NEW patch,
           NEW p \in Paths, Written(content, deltas, p)
    PROVE  Written(DeepMerge(content, patch), Append(deltas, patch), p)
  <1> DEFINE more == Append(deltas, patch)
             n == Len(deltas)
  <1>1. /\ DOMAIN deltas = 1..n /\ n \in Nat
        /\ DOMAIN more = 1..(n + 1)
        /\ more[n + 1] = patch
        /\ \A i \in 1..n : more[i] = deltas[i]
    <2>1. deltas \in Seq(S \cup {patch}) /\ patch \in S \cup {patch}
      OBVIOUS
    <2> QED
      BY <2>1
  <1> HIDE DEF more, n
  <1>2. CASE p \in DOMAIN patch
    <2>1. DeepMerge(content, patch)[p] = patch[p]
      BY <1>2 DEF DeepMerge
    <2> QED
      BY <1>1, <1>2, <2>1 DEF Written, more
  <1>3. CASE p \notin DOMAIN patch
    <2>1. DeepMerge(content, patch)[p] = content[p]
      BY <1>3 DEF DeepMerge
    <2>2. CASE \A i \in DOMAIN deltas : p \notin DOMAIN deltas[i]
      <3>1. content[p] = Default[p]
        BY <2>2 DEF Written
      <3>2. \A i \in DOMAIN more : p \notin DOMAIN more[i]
        BY <1>1, <1>3, <2>2
      <3> QED
        BY <2>1, <3>1, <3>2 DEF Written, more
    <2>3. CASE \E i \in DOMAIN deltas : p \in DOMAIN deltas[i]
      <3>1. PICK i \in DOMAIN deltas :
              /\ p \in DOMAIN deltas[i]
              /\ content[p] = deltas[i][p]
              /\ \A j \in DOMAIN deltas : j > i => p \notin DOMAIN deltas[j]
        BY <2>3 DEF Written
      <3>2. /\ i \in DOMAIN more /\ p \in DOMAIN more[i]
            /\ content[p] = more[i][p]
        BY <1>1, <3>1
      <3>3. \A j \in DOMAIN more : j > i => p \notin DOMAIN more[j]
        BY <1>1, <1>3, <3>1
      <3> QED
        BY <2>1, <3>2, <3>3 DEF Written, more
    <2> QED
      BY <2>2, <2>3
  <1> QED
    BY <1>2, <1>3

\* A delta that is taken, whoever it comes from.
LEMMA DeltaStep ==
    ASSUME SpecInv, NEW patch, NEW sources \in Seq(Paths),
           TakesDelta(spec, patch),
           spec' = ApplyDelta(spec, patch, sources),
           applied' = Append(applied, patch)
    PROVE  SpecInv'
  <1>1. PICK S : applied \in Seq(S)
    BY DEF SpecInv
  <1>2. /\ spec' \in ApplicationSpec
        /\ spec'.content = DeepMerge(spec.content, patch)
        /\ ~spec'.frozen /\ spec'.hash = NoHash
    BY ApplyDeltaTyped DEF SpecInv
  <1>3. applied' \in Seq(S \cup {patch})
    BY <1>1
  <1>4. \A p \in Paths : Written(spec'.content, applied', p)
    BY <1>1, <1>2, WrittenOn DEF SpecInv
  <1>5. HashInv'
    BY <1>2 DEF HashInv
  <1> QED
    BY <1>2, <1>3, <1>4, <1>5 DEF SpecInv

\* The steps that change the specification.
LEMMA SpecSteps ==
    ASSUME [Next]_vars
    PROVE  \/ UNCHANGED <<spec, applied>>
           \/ \E o \in Options : SelectOption(o)
           \/ \E u \in Users : Accept(u)
           \/ Lock
  BY DEF Next, Replies, WizardTurn, Amend, Validate, RetrievalReturns,
         ModelAnswers, ModelUnparsable, ModelRaises, Reject, vars

LEMMA SpecStep == SpecInv /\ [Next]_vars => SpecInv'
  <1> SUFFICES ASSUME SpecInv, [Next]_vars PROVE SpecInv'
    OBVIOUS
  <1>1. CASE UNCHANGED <<spec, applied>>
    BY <1>1 DEF SpecInv, HashInv
  <1>2. ASSUME NEW o \in Options, SelectOption(o) PROVE SpecInv'
    <2> DEFINE delta == EvaluateSelection(o, Context(selected \cup {o}))
    <2>1. PICK patch : patch = delta.patch
      OBVIOUS
    <2>2. /\ TakesDelta(spec, patch)
          /\ spec' = ApplyDelta(spec, patch, Provenance(o))
          /\ applied' = Append(applied, patch)
      BY <1>2, <2>1 DEF SelectOption
    <2>3. Provenance(o) \in Seq(Paths)
      BY DialogueAssumption
    <2> QED
      BY <2>2, <2>3, DeltaStep
  <1>3. ASSUME NEW u \in Users, Accept(u) PROVE SpecInv'
    <2>1. PICK patch : patch = turn[u].patch
      OBVIOUS
    <2>2. CASE TakesDelta(spec, patch)
      <3>1. /\ spec' = ApplyDelta(spec, patch, <<>>)
            /\ applied' = Append(applied, patch)
        BY <1>3, <2>1, <2>2 DEF Accept
      <3>2. <<>> \in Seq(Paths)
        OBVIOUS
      <3> QED
        BY <2>2, <3>1, <3>2, DeltaStep
    <2>3. CASE ~TakesDelta(spec, patch)
      BY <1>1, <1>3, <2>1, <2>3 DEF Accept
    <2> QED
      BY <2>2, <2>3
  <1>4. CASE Lock
    <2>1. /\ spec' \in ApplicationSpec /\ spec'.content = spec.content
          /\ spec'.frozen /\ spec'.hash = ComputeHash(spec.content)
      BY <1>4, FreezeTyped DEF Lock, SpecInv
    <2>2. applied' = applied
      BY <1>4 DEF Lock
    <2> QED
      BY <2>1, <2>2 DEF SpecInv, HashInv
  <1> QED
    BY <1>1, <1>2, <1>3, <1>4, SpecSteps

LEMMA SpecInit == Init => SpecInv
  <1> SUFFICES ASSUME Init PROVE SpecInv
    OBVIOUS
  <1>1. spec \in ApplicationSpec
    BY SpecAssumption DEF Init, MakeEmptySpec, ApplicationSpec
  <1>2. HashInv
    BY DEF Init, MakeEmptySpec, HashInv
  <1>3. applied \in Seq({}) /\ DOMAIN applied = {}
    BY DEF Init
  <1>4. \A p \in Paths : spec.content[p] = Default[p]
    BY DEF Init, MakeEmptySpec
  <1> QED
    BY <1>1, <1>2, <1>3, <1>4 DEF SpecInv, Written

\* The specification is whole and is what the deltas applied to it say.
THEOREM LastWriterAlwaysWins == Spec => []LastWriterWins
  <1>1. SpecInv => LastWriterWins
    BY DEF SpecInv, LastWriterWins, Written
  <1> QED
    BY <1>1, SpecInit, SpecStep, PTL DEF Spec

\* A lock is final, and an unlocked specification has no hash.
THEOREM LocksAreFinal == Spec => LockedForGood
  <1>1. SpecInv /\ [Next]_vars /\ SpecInv' =>
          [/\ spec.frozen => UNCHANGED spec
           /\ spec'.hash = IF spec'.frozen THEN ComputeHash(spec'.content)
                                         ELSE NoHash]_vars
    <2> SUFFICES ASSUME SpecInv, [Next]_vars, SpecInv'
                 PROVE  /\ spec.frozen => UNCHANGED spec
                        /\ spec'.hash = IF spec'.frozen
                                        THEN ComputeHash(spec'.content)
                                        ELSE NoHash
      OBVIOUS
    <2>1. spec'.hash = IF spec'.frozen THEN ComputeHash(spec'.content)
                                       ELSE NoHash
      BY DEF SpecInv, HashInv
    <2>2. ASSUME spec.frozen PROVE UNCHANGED spec
      BY <2>2, SpecSteps DEF SelectOption, Accept, Lock, TakesDelta
    <2> QED
      BY <2>1, <2>2
  <1> QED
    BY <1>1, SpecInit, SpecStep, PTL DEF Spec, LockedForGood

-----------------------------------------------------------------------------
(* The log of the gate.                                                    *)

Turn == [at : {"idle", "retrieval", "model", "card"},
         agent : {"none", "wizard", "editor", "validator"},
         attempts : Nat, decision : Nat, patch : Patches]

Decision == [verdict : {"NEEDED", "NARROW_QUERY", "NOT_NEEDED"}, tier : {0, 1},
             outcome : {"none", "proposed", "no_delta"}]

\* What a turn that is the wizard's requires of its decision.
Outcome(tu) ==
    IF tu.at # "card" THEN "none"
    ELSE IF DOMAIN tu.patch # {} THEN "proposed" ELSE "no_delta"

Logged(tu, log) ==
    tu.agent = "wizard" =>
        /\ tu.decision \in 1..Len(log)
        /\ log[tu.decision].outcome = Outcome(tu)

TurnInv ==
    /\ turn \in [Users -> Turn]
    /\ decisions \in Seq(Decision)
    /\ \A u \in Users : Logged(turn[u], decisions)
    /\ \A u, v \in Users :
          turn[u].agent = "wizard" /\ turn[v].agent = "wizard" /\ u # v
          => turn[u].decision # turn[v].decision

LEMMA NobodyTyped ==
    /\ Nobody \in Turn /\ Nobody.at = "idle" /\ Nobody.agent = "none"
    /\ Nobody.agent # "wizard"
    /\ NoPatch \in Patches /\ DOMAIN NoPatch = {}
  <1>1. NoPatch \in [{} -> Values \cup Junk]
    BY DEF NoPatch
  <1>2. NoPatch \in Patches
    BY <1>1 DEF Patches
  <1> QED
    BY <1>2 DEF Nobody, Turn, NoPatch

\* A decision is logged without an outcome.
LEMMA Decided ==
    ASSUME NEW m
    PROVE  EvaluateRetrieval(m) \in Decision /\ EvaluateRetrieval(m).outcome = "none"
  <1>1. RetrievalRules(m) \in {Verdict("NARROW_QUERY", 0), Verdict("NOT_NEEDED", 0), NoRule}
    BY Zenon DEF RetrievalRules
  <1>2. EvaluateRetrieval(m) \in {Verdict("NARROW_QUERY", 0),
                                  Verdict("NOT_NEEDED", 0),
                                  Verdict("NOT_NEEDED", 1)}
    BY <1>1 DEF EvaluateRetrieval
  <1> QED
    BY <1>2 DEF Verdict, Decision

\* A turn that is replaced by one that is not the wizard's leaves the log to
\* the others.
LEMMA LeavesLog ==
    ASSUME TurnInv, NEW u \in Users, NEW tu \in Turn,
           tu.agent = "wizard" => /\ tu.agent = turn[u].agent
                                  /\ tu.decision = turn[u].decision
                                  /\ Outcome(tu) = Outcome(turn[u]),
           turn' = [turn EXCEPT ![u] = tu], UNCHANGED decisions
    PROVE  TurnInv'
  <1>1. turn' \in [Users -> Turn] /\ turn'[u] = tu
        /\ \A v \in Users \ {u} : turn'[v] = turn[v]
    BY DEF TurnInv
  <1>2. \A v \in Users : Logged(turn'[v], decisions)
    BY <1>1 DEF TurnInv, Logged
  <1>3. \A v, w \in Users :
          turn'[v].agent = "wizard" /\ turn'[w].agent = "wizard" /\ v # w
          => turn'[v].decision # turn'[w].decision
    BY <1>1 DEF TurnInv
  <1> QED
    BY <1>1, <1>2, <1>3 DEF TurnInv

\* A turn that ends writes to its own decision.
LEMMA EndsStep ==
    ASSUME TurnInv, NEW u \in Users, turn[u].at = "model",
           NEW patch \in Patches, Ends(u, patch)
    PROVE  TurnInv'
  <1> DEFINE card == [turn[u] EXCEPT !.at = "card", !.patch = patch]
             outcome == IF DOMAIN patch # {} THEN "proposed" ELSE "no_delta"
             n == turn[u].decision
  <1>1. turn[u] \in Turn
    BY DEF TurnInv
  <1>2. /\ card \in Turn /\ card.at = "card" /\ card.patch = patch
        /\ card.agent = turn[u].agent /\ card.decision = n
    <2>1. card \in Turn
      BY <1>1, Zenon DEF Turn
    <2> QED
      BY <1>1, <2>1 DEF Turn
  <1>3. CASE turn[u].agent = "wizard"
    <2>1. /\ turn' = [turn EXCEPT ![u] = card]
          /\ decisions' = [decisions EXCEPT ![n].outcome = outcome]
      BY <1>3 DEF Ends, RecordOutcome
    <2>2. n \in 1..Len(decisions) /\ decisions[n] \in Decision
      BY <1>3 DEF TurnInv, Logged
    <2>3. [decisions[n] EXCEPT !.outcome = outcome] \in Decision
          /\ [decisions[n] EXCEPT !.outcome = outcome].outcome = outcome
      BY <2>2 DEF Decision
    <2> HIDE DEF card, n
    <2>4. /\ decisions' \in Seq(Decision) /\ Len(decisions') = Len(decisions)
          /\ decisions'[n].outcome = outcome
          /\ \A i \in 1..Len(decisions) : i # n => decisions'[i] = decisions[i]
      BY <2>1, <2>2, <2>3 DEF TurnInv
    <2>5. turn' \in [Users -> Turn] /\ turn'[u] = card
          /\ \A v \in Users \ {u} : turn'[v] = turn[v]
      BY <1>2, <2>1 DEF TurnInv
    <2>6. Logged(turn'[u], decisions')
      BY <1>2, <2>2, <2>4, <2>5 DEF Logged, Outcome
    <2>7. ASSUME NEW v \in Users \ {u} PROVE Logged(turn'[v], decisions')
      <3>1. turn[v].agent = "wizard" => turn[v].decision # n
        BY <1>3 DEF TurnInv, n
      <3> QED
        BY <2>4, <2>5, <3>1 DEF Logged, TurnInv
    <2>8. \A v, w \in Users :
            turn'[v].agent = "wizard" /\ turn'[w].agent = "wizard" /\ v # w
            => turn'[v].decision # turn'[w].decision
      BY <1>2, <1>3, <2>5 DEF TurnInv, n
    <2> QED
      BY <2>4, <2>5, <2>6, <2>7, <2>8 DEF TurnInv
  <1>4. CASE turn[u].agent = "validator"
    <2>1. turn' = [turn EXCEPT ![u] = Nobody] /\ UNCHANGED decisions
      BY <1>4 DEF Ends
    <2> QED
      BY <2>1, NobodyTyped, LeavesLog
  <1>5. CASE turn[u].agent \notin {"wizard", "validator"}
    <2>1. turn' = [turn EXCEPT ![u] = card] /\ UNCHANGED decisions
      BY <1>5 DEF Ends
    <2> HIDE DEF card
    <2> QED
      BY <1>2, <1>5, <2>1, LeavesLog
  <1> QED
    BY <1>3, <1>4, <1>5

\* A turn of the wizard begins with a decision of its own.
LEMMA WizardStep ==
    ASSUME TurnInv, NEW u \in Users, NEW m, WizardTurn(u, m)
    PROVE  TurnInv'
  <1> DEFINE d == EvaluateRetrieval(m)
             n == Len(decisions) + 1
             place == IF Needed(d) /\ HasRetrieval THEN "retrieval" ELSE "model"
             tu == [Nobody EXCEPT !.at = place, !.agent = "wizard",
                                  !.decision = n]
  <1>1. d \in Decision /\ d.outcome = "none"
    BY Decided
  <1>2. /\ decisions' = Append(decisions, d)
        /\ turn' = [turn EXCEPT ![u] = tu]
    BY DEF WizardTurn
  <1>3. n \in Nat /\ decisions \in Seq(Decision) /\ turn \in [Users -> Turn]
    BY DEF TurnInv
  <1>4. place \in {"retrieval", "model"}
    OBVIOUS
  <1> HIDE DEF d, place
  <1>5. /\ tu \in Turn /\ tu.at = place /\ tu.agent = "wizard"
        /\ tu.decision = n
    <2>1. tu \in Turn
      BY <1>3, <1>4, NobodyTyped, Zenon DEF Turn
    <2> QED
      BY <1>3, <2>1, NobodyTyped DEF Nobody, Turn
  <1> HIDE DEF tu
  <1>6. /\ decisions' \in Seq(Decision) /\ Len(decisions') = n
        /\ decisions'[n] = d
        /\ \A i \in 1..Len(decisions) : decisions'[i] = decisions[i]
    BY <1>1, <1>2, <1>3
  <1>7. turn' \in [Users -> Turn] /\ turn'[u] = tu
        /\ \A v \in Users \ {u} : turn'[v] = turn[v]
    BY <1>2, <1>3, <1>5
  <1>8. Logged(turn'[u], decisions')
    BY <1>1, <1>3, <1>4, <1>5, <1>6, <1>7 DEF Logged, Outcome
  <1>9. ASSUME NEW v \in Users \ {u}
        PROVE  /\ Logged(turn'[v], decisions')
               /\ turn'[v].agent = "wizard" => turn'[v].decision # n
    <2>1. Logged(turn[v], decisions) /\ turn'[v] = turn[v]
      BY <1>7 DEF TurnInv
    <2> QED
      BY <1>3, <1>6, <2>1 DEF Logged
  <1>10. \A v, w \in Users :
           turn'[v].agent = "wizard" /\ turn'[w].agent = "wizard" /\ v # w
           => turn'[v].decision # turn'[w].decision
    BY <1>5, <1>7, <1>9 DEF TurnInv
  <1> QED
    BY <1>6, <1>7, <1>8, <1>9, <1>10 DEF TurnInv

LEMMA TurnStep == TurnInv /\ [Next]_vars => TurnInv'
  <1> SUFFICES ASSUME TurnInv, [Next]_vars PROVE TurnInv'
    OBVIOUS
  <1>1. CASE UNCHANGED <<turn, decisions>>
    BY <1>1 DEF TurnInv, Logged, Outcome
  <1>2. ASSUME NEW u \in Users,
               turn' = [turn EXCEPT ![u] = Nobody], UNCHANGED decisions
        PROVE  TurnInv'
    BY <1>2, NobodyTyped, LeavesLog
  <1>3. ASSUME NEW u \in Users, NEW m \in Messages, WizardTurn(u, m)
        PROVE  TurnInv'
    BY <1>3, WizardStep
  <1>4. ASSUME NEW u \in Users, NEW short \in BOOLEAN, Amend(u, short)
        PROVE  TurnInv'
    <2> DEFINE place == IF short THEN "card" ELSE "model"
               tu == [Nobody EXCEPT !.at = place, !.agent = "editor"]
    <2>1. place \in {"card", "model"}
      OBVIOUS
    <2>2. turn' = [turn EXCEPT ![u] = tu] /\ UNCHANGED decisions
      BY <1>4 DEF Amend
    <2> HIDE DEF place
    <2>3. tu \in Turn /\ tu.agent = "editor" /\ tu.agent # "wizard"
      BY <2>1, NobodyTyped, Zenon DEF Turn
    <2> HIDE DEF tu
    <2> QED
      BY <2>2, <2>3, LeavesLog
  <1>5. ASSUME NEW u \in Users, Validate(u) PROVE TurnInv'
    <2> DEFINE tu == [Nobody EXCEPT !.at = "model", !.agent = "validator"]
    <2>1. turn' = [turn EXCEPT ![u] = tu] /\ UNCHANGED decisions
      BY <1>5 DEF Validate
    <2>2. tu \in Turn /\ tu.agent = "validator" /\ tu.agent # "wizard"
      BY NobodyTyped, Zenon DEF Turn
    <2> HIDE DEF tu
    <2> QED
      BY <2>1, <2>2, LeavesLog
  <1>6. ASSUME NEW u \in Users, RetrievalReturns(u) PROVE TurnInv'
    <2> DEFINE tu == [turn[u] EXCEPT !.at = "model"]
    <2>1. /\ turn' = [turn EXCEPT ![u] = tu] /\ UNCHANGED decisions
          /\ turn[u] \in Turn /\ turn[u].at = "retrieval"
      BY <1>6 DEF RetrievalReturns, TurnInv
    <2>2. tu \in Turn
      BY <2>1, Zenon DEF Turn
    <2>3. /\ tu.agent = turn[u].agent /\ tu.decision = turn[u].decision
          /\ tu.at = "model"
      BY <2>1 DEF Turn
    <2> HIDE DEF tu
    <2>4. Outcome(tu) = Outcome(turn[u])
      BY <2>1, <2>3 DEF Outcome
    <2> QED
      BY <2>1, <2>2, <2>3, <2>4, LeavesLog
  <1>7. ASSUME NEW u \in Users, NEW patch \in Proposals, ModelAnswers(u, patch)
        PROVE  TurnInv'
    BY <1>7, EndsStep, DialogueAssumption DEF ModelAnswers
  <1>8. ASSUME NEW u \in Users, ModelUnparsable(u) PROVE TurnInv'
    <2>1. CASE turn[u].attempts + 1 < MaxAttempts
      <3> DEFINE tu == [turn[u] EXCEPT !.attempts = @ + 1]
      <3>1. /\ turn' = [turn EXCEPT ![u] = tu] /\ UNCHANGED decisions
            /\ turn[u] \in Turn
        BY <1>8, <2>1 DEF ModelUnparsable, TurnInv
      <3>2. turn[u].attempts + 1 \in Nat
        BY <3>1 DEF Turn
      <3>3. tu \in Turn
        BY <3>1, <3>2, Zenon DEF Turn
      <3>4. /\ tu.agent = turn[u].agent /\ tu.decision = turn[u].decision
            /\ tu.at = turn[u].at /\ tu.patch = turn[u].patch
        BY <3>1 DEF Turn
      <3> HIDE DEF tu
      <3>5. Outcome(tu) = Outcome(turn[u])
        BY <3>4 DEF Outcome
      <3> QED
        BY <3>1, <3>3, <3>4, <3>5, LeavesLog
    <2>2. CASE ~(turn[u].attempts + 1 < MaxAttempts)
      BY <1>8, <2>2, EndsStep, NobodyTyped DEF ModelUnparsable
    <2> QED
      BY <2>1, <2>2
  <1>9. ASSUME NEW u \in Users, ModelRaises(u) \/ Accept(u) \/ Reject(u)
        PROVE  TurnInv'
    BY <1>2, <1>9 DEF ModelRaises, Accept, Reject
  <1> QED
    BY <1>1, <1>3, <1>4, <1>5, <1>6, <1>7, <1>8, <1>9
       DEF Next, Replies, SelectOption, Lock, vars

\* Concurrent turns of the wizard write to decisions of their own, and a card
\* has the outcome that belongs to it.
THEOREM OutcomesBelong == Spec => []OutcomeIsOfItsTurn
  <1>1. Init => TurnInv
    BY NobodyTyped DEF Init, TurnInv, Logged
  <1>2. TurnInv => OutcomeIsOfItsTurn
    BY DEF TurnInv, Logged, Outcome, OutcomeIsOfItsTurn
  <1> QED
    BY <1>1, <1>2, TurnStep, PTL DEF Spec

-----------------------------------------------------------------------------
(* How long a turn lasts.  With the fairness of FairSpec this is why         *)
(* TurnsEnd holds: a turn that runs has only so many replies to come, and    *)
(* nothing but a reply changes it.                                           *)

Runs(tu) == tu.at \in {"retrieval", "model"}

\* The replies a turn that runs may still get before its last.
Remaining(tu) ==
    (IF tu.at = "retrieval" THEN 1 ELSE 0) + MaxAttempts - tu.attempts

AttemptsInv == \A u \in Users : Runs(turn[u]) => turn[u].attempts < MaxAttempts

\* A turn stays as it is, ends, begins, or has fewer replies to come.
Progresses(tu, after) ==
    /\ Runs(after) => after.attempts < MaxAttempts
    /\ Runs(tu) => \/ after = tu
                   \/ ~Runs(after)
                   \/ Remaining(after) < Remaining(tu)

\* What an action does to the turn of one user.
LEMMA OneProgresses ==
    ASSUME TurnInv, AttemptsInv, NEW u \in Users, NEW tu,
           turn' = [turn EXCEPT ![u] = tu], Progresses(turn[u], tu)
    PROVE  \A v \in Users : Progresses(turn[v], turn'[v])
  <1>1. turn'[u] = tu /\ \A v \in Users \ {u} : turn'[v] = turn[v]
    BY DEF TurnInv
  <1>2. \A v \in Users : Runs(turn[v]) => turn[v].attempts < MaxAttempts
    BY DEF AttemptsInv
  <1>3. ASSUME NEW v \in Users \ {u} PROVE Progresses(turn[v], turn'[v])
    BY <1>1, <1>2 DEF Progresses
  <1> QED
    BY <1>1, <1>3

LEMMA ProgressStep ==
    ASSUME TurnInv, AttemptsInv, [Next]_vars
    PROVE  \A v \in Users : Progresses(turn[v], turn'[v])
  <1>1. CASE UNCHANGED turn
    BY <1>1 DEF AttemptsInv, Progresses
  <1>2. ASSUME NEW u \in Users, NEW tu, turn' = [turn EXCEPT ![u] = tu],
               ~Runs(tu)
        PROVE  \A v \in Users : Progresses(turn[v], turn'[v])
    BY <1>2, OneProgresses DEF Progresses
  <1>3. ASSUME NEW u \in Users, NEW tu, turn' = [turn EXCEPT ![u] = tu],
               ~Runs(turn[u]), tu.attempts = 0
        PROVE  \A v \in Users : Progresses(turn[v], turn'[v])
    <2>1. 0 < MaxAttempts
      BY DialogueAssumption
    <2>2. Progresses(turn[u], tu)
      BY <1>3, <2>1 DEF Progresses
    <2> QED
      BY <1>3, <2>2, OneProgresses
  <1>4. ASSUME NEW u \in Users, NEW patch, Ends(u, patch)
        PROVE  \A v \in Users : Progresses(turn[v], turn'[v])
    <2> DEFINE tu == IF turn[u].agent = "validator" THEN Nobody
                     ELSE [turn[u] EXCEPT !.at = "card", !.patch = patch]
    <2>1. turn' = [turn EXCEPT ![u] = tu] /\ turn[u] \in Turn
      BY <1>4 DEF Ends, TurnInv
    <2>2. tu.at \in {"idle", "card"}
      BY <2>1, NobodyTyped DEF Turn
    <2> HIDE DEF tu
    <2> QED
      BY <1>2, <2>1, <2>2 DEF Runs
  <1>5. ASSUME NEW u \in Users, NEW m \in Messages, WizardTurn(u, m)
        PROVE  \A v \in Users : Progresses(turn[v], turn'[v])
    <2> DEFINE d == EvaluateRetrieval(m)
               tu == [Nobody EXCEPT !.at = IF Needed(d) /\ HasRetrieval
                                           THEN "retrieval" ELSE "model",
                                    !.agent = "wizard",
                                    !.decision = Len(decisions) + 1]
    <2>1. turn' = [turn EXCEPT ![u] = tu] /\ turn[u].at = "idle"
      BY <1>5 DEF WizardTurn
    <2>2. tu.attempts = 0
      BY DEF Nobody
    <2> HIDE DEF tu
    <2> QED
      BY <1>3, <2>1, <2>2 DEF Runs
  <1>6. ASSUME NEW u \in Users, NEW short \in BOOLEAN, Amend(u, short)
        PROVE  \A v \in Users : Progresses(turn[v], turn'[v])
    <2> DEFINE tu == [Nobody EXCEPT !.at = IF short THEN "card" ELSE "model",
                                    !.agent = "editor"]
    <2>1. turn' = [turn EXCEPT ![u] = tu] /\ turn[u].at = "idle"
      BY <1>6 DEF Amend
    <2>2. tu.attempts = 0
      BY DEF Nobody
    <2> HIDE DEF tu
    <2> QED
      BY <1>3, <2>1, <2>2 DEF Runs
  <1>7. ASSUME NEW u \in Users, Validate(u)
        PROVE  \A v \in Users : Progresses(turn[v], turn'[v])
    <2> DEFINE tu == [Nobody EXCEPT !.at = "model", !.agent = "validator"]
    <2>1. turn' = [turn EXCEPT ![u] = tu] /\ turn[u].at = "idle"
      BY <1>7 DEF Validate
    <2>2. tu.attempts = 0
      BY DEF Nobody
    <2> HIDE DEF tu
    <2> QED
      BY <1>3, <2>1, <2>2 DEF Runs
  <1>8. ASSUME NEW u \in Users, RetrievalReturns(u)
        PROVE  \A v \in Users : Progresses(turn[v], turn'[v])
    <2> DEFINE tu == [turn[u] EXCEPT !.at = "model"]
    <2>1. /\ turn' = [turn EXCEPT ![u] = tu] /\ turn[u].at = "retrieval"
          /\ turn[u] \in Turn /\ turn[u].attempts \in Nat
      BY <1>8 DEF RetrievalReturns, TurnInv, Turn
    <2>2. tu.at = "model" /\ tu.attempts = turn[u].attempts
      BY <2>1 DEF Turn
    <2> HIDE DEF tu
    <2>3. turn[u].attempts < MaxAttempts
      BY <2>1 DEF AttemptsInv, Runs
    <2>4. Progresses(turn[u], tu)
      BY <2>1, <2>2, <2>3, DialogueAssumption DEF Progresses, Runs, Remaining
    <2> QED
      BY <2>1, <2>4, OneProgresses
  <1>9. ASSUME NEW u \in Users, ModelUnparsable(u)
        PROVE  \A v \in Users : Progresses(turn[v], turn'[v])
    <2>1. CASE turn[u].attempts + 1 < MaxAttempts
      <3> DEFINE tu == [turn[u] EXCEPT !.attempts = @ + 1]
      <3>1. /\ turn' = [turn EXCEPT ![u] = tu] /\ turn[u].at = "model"
            /\ turn[u] \in Turn /\ turn[u].attempts \in Nat
        BY <1>9, <2>1 DEF ModelUnparsable, TurnInv, Turn
      <3>2. tu.at = "model" /\ tu.attempts = turn[u].attempts + 1
        BY <3>1 DEF Turn
      <3> HIDE DEF tu
      <3>3. Progresses(turn[u], tu)
        BY <2>1, <3>1, <3>2, DialogueAssumption DEF Progresses, Runs, Remaining
      <3> QED
        BY <3>1, <3>3, OneProgresses
    <2>2. CASE ~(turn[u].attempts + 1 < MaxAttempts)
      BY <1>4, <1>9, <2>2 DEF ModelUnparsable
    <2> QED
      BY <2>1, <2>2
  <1>10. ASSUME NEW u \in Users, ModelRaises(u) \/ Accept(u) \/ Reject(u)
         PROVE  \A v \in Users : Progresses(turn[v], turn'[v])
    <2>1. ~Runs(Nobody)
      BY NobodyTyped DEF Runs
    <2> QED
      BY <1>2, <1>10, <2>1 DEF ModelRaises, Accept, Reject
  <1> QED
    BY <1>1, <1>4, <1>5, <1>6, <1>7, <1>8, <1>9, <1>10
       DEF Next, Replies, ModelAnswers, SelectOption, Lock, vars

\* The part of TurnsEnd that is safety: a turn that runs has at most one reply of
\* retrieval and MaxAttempts replies of the model to come, the last of which ends
\* it, and whatever happens to it in between leaves it fewer.
THEOREM TurnsShorten ==
    Spec => /\ [](\A u \in Users : Runs(turn[u]) =>
                     Remaining(turn[u]) \in 1..(MaxAttempts + 1))
            /\ [][\A u \in Users : Runs(turn[u]) =>
                     \/ turn'[u] = turn[u]
                     \/ ~Runs(turn'[u])
                     \/ Remaining(turn'[u]) < Remaining(turn[u])]_vars
  <1>1. Init => TurnInv /\ AttemptsInv
    BY NobodyTyped DEF Init, TurnInv, Logged, AttemptsInv, Runs
  <1>2. TurnInv /\ AttemptsInv /\ [Next]_vars => AttemptsInv'
    BY ProgressStep DEF AttemptsInv, Progresses
  <1>3. TurnInv /\ AttemptsInv =>
           \A u \in Users : Runs(turn[u]) =>
              Remaining(turn[u]) \in 1..(MaxAttempts + 1)
    <2> SUFFICES ASSUME TurnInv, AttemptsInv, NEW u \in Users, Runs(turn[u])
                 PROVE  Remaining(turn[u]) \in 1..(MaxAttempts + 1)
      OBVIOUS
    <2>1. turn[u].attempts \in Nat /\ turn[u].attempts < MaxAttempts
      BY DEF TurnInv, Turn, AttemptsInv
    <2> QED
      BY <2>1, DialogueAssumption DEF Remaining
  <1>4. TurnInv /\ AttemptsInv /\ [Next]_vars =>
           [\A u \in Users : Runs(turn[u]) =>
               \/ turn'[u] = turn[u]
               \/ ~Runs(turn'[u])
               \/ Remaining(turn'[u]) < Remaining(turn[u])]_vars
    BY ProgressStep DEF Progresses
  <1> QED
    BY <1>1, <1>2, <1>3, <1>4, TurnStep, PTL DEF Spec

-----------------------------------------------------------------------------
(* The option sheet.                                                       *)

\* A list, whatever its elements are.
Listed(s) == s \in Seq({s[i] : i \in DOMAIN s})

LEMMA ListAppended ==
    ASSUME NEW s, Listed(s), NEW x
    PROVE  Listed(Append(s, x)) /\ Len(s) \in Nat /\ Len(Append(s, x)) = Len(s) + 1
  <1> DEFINE S == {s[i] : i \in DOMAIN s} \cup {x}
             t == Append(s, x)
  <1>1. s \in Seq(S)
    BY DEF Listed
  <1>2. /\ t \in Seq(S) /\ Len(s) \in Nat /\ Len(t) = Len(s) + 1
        /\ DOMAIN t = 1..(Len(s) + 1)
        /\ \A i \in 1..Len(s) : t[i] = s[i]
        /\ t[Len(s) + 1] = x
    BY <1>1
  <1>3. t \in Seq({t[i] : i \in DOMAIN t})
    BY <1>2
  <1> QED
    BY <1>2, <1>3 DEF Listed

\* If a number has a property, some number is the least that has it.
LEMMA LeastNatural ==
    ASSUME NEW S \in SUBSET Nat, S # {}
    PROVE  \E m \in S : \A n \in S : m <= n
  <1>1. PICK m \in S : \A n \in S : <<n, m>> \notin OpToRel(<, Nat)
    BY WFMin, NatLessThanWellFounded, Zenon
  <1>2. \A n \in S : ~(n < m)
    BY <1>1, Zenon DEF OpToRel
  <1> QED
    BY <1>2

Nothing(o, ctx) == [ok |-> IsEligible(o, ctx), patch |-> NoPatch,
                    entities |-> 0, endpoints |-> 0]

\* acc says what the first n bindings make.
Accumulates(acc, n, o, ctx) ==
    acc = [i \in 0..n |-> IF i = 0 THEN Nothing(o, ctx)
                          ELSE Step(acc[i - 1], Bindings[o][i])]

\* Such a function exists for every n: if it did not for some, look at the
\* least of those.
LEMMA AccumulationExists ==
    ASSUME NEW o, NEW ctx, NEW n \in Nat
    PROVE  \E acc : Accumulates(acc, n, o, ctx)
  <1> DEFINE Missing == {k \in Nat : ~\E acc : Accumulates(acc, k, o, ctx)}
  <1> SUFFICES ASSUME Missing # {} PROVE FALSE
    OBVIOUS
  <1>1. PICK m \in Missing : \A k \in Missing : m <= k
    BY LeastNatural
  <1>2. CASE m = 0
    <2> DEFINE f == [i \in 0..0 |-> Nothing(o, ctx)]
    <2>1. f = [i \in 0..0 |-> IF i = 0 THEN Nothing(o, ctx)
                              ELSE Step(f[i - 1], Bindings[o][i])]
      OBVIOUS
    <2>2. Accumulates(f, 0, o, ctx)
      BY <2>1, Zenon DEF Accumulates
    <2> QED
      BY <1>1, <1>2, <2>2
  <1>3. CASE m # 0
    <2>1. m - 1 \in Nat /\ m - 1 \notin Missing
      BY <1>1, <1>3
    <2>2. PICK f : Accumulates(f, m - 1, o, ctx)
      BY <2>1
    <2> DEFINE g == [i \in 0..m |-> IF i = m THEN Step(f[m - 1], Bindings[o][m])
                                    ELSE f[i]]
               h == [i \in 0..m |-> IF i = 0 THEN Nothing(o, ctx)
                                    ELSE Step(g[i - 1], Bindings[o][i])]
    <2>3. /\ f[0] = Nothing(o, ctx)
          /\ \A i \in 1..(m - 1) : f[i] = Step(f[i - 1], Bindings[o][i])
      BY <2>1, <2>2 DEF Accumulates
    <2>4. ASSUME NEW i \in 0..m PROVE g[i] = h[i]
      <3>1. CASE i = 0
        BY <1>3, <2>3, <3>1
      <3>2. CASE i \in 1..(m - 1)
        <4>1. g[i] = f[i] /\ g[i - 1] = f[i - 1]
          BY <3>2
        <4> QED
          BY <2>3, <3>2, <4>1
      <3>3. CASE i = m /\ i # 0
        <4>1. g[m - 1] = f[m - 1] /\ g[m] = Step(f[m - 1], Bindings[o][m])
          BY <2>1
        <4> QED
          BY <3>3, <4>1
      <3> QED
        BY <3>1, <3>2, <3>3
    <2>5. g = h
      BY <2>4
    <2>6. Accumulates(g, m, o, ctx)
      BY <2>5, Zenon DEF Accumulates
    <2> QED
      BY <1>1, <2>6
  <1> QED
    BY <1>2, <1>3

\* So Applied begins with nothing and applies one binding after the other.
LEMMA AppliedSteps ==
    ASSUME NEW o, NEW ctx, Len(Bindings[o]) \in Nat
    PROVE  /\ Applied(o, ctx)[0] = Nothing(o, ctx)
           /\ \A i \in 1..Len(Bindings[o]) :
                 Applied(o, ctx)[i] = Step(Applied(o, ctx)[i - 1], Bindings[o][i])
  <1> DEFINE n == Len(Bindings[o])
             acc == Applied(o, ctx)
  <1>1. acc = CHOOSE f : f = [i \in 0..n |-> IF i = 0 THEN Nothing(o, ctx)
                                              ELSE Step(f[i - 1], Bindings[o][i])]
    BY Zenon DEF Applied, Nothing
  <1>2. \E f : f = [i \in 0..n |-> IF i = 0 THEN Nothing(o, ctx)
                                   ELSE Step(f[i - 1], Bindings[o][i])]
    <2>1. PICK f : Accumulates(f, n, o, ctx)
      BY AccumulationExists
    <2> QED
      BY <2>1, Zenon DEF Accumulates
  <1> HIDE DEF acc
  <1>3. acc = [i \in 0..n |-> IF i = 0 THEN Nothing(o, ctx)
                              ELSE Step(acc[i - 1], Bindings[o][i])]
    BY <1>1, <1>2, Zenon
  <1>4. /\ acc[0] = Nothing(o, ctx)
        /\ \A i \in 1..n : acc[i] = Step(acc[i - 1], Bindings[o][i])
    BY <1>3
  <1> QED
    BY <1>4 DEF acc

\* The patch holds a value that is no list only where the option has set one,
\* and the list of entities has as many items as were counted.
Counted(patch, entities, o, n) ==
    /\ \A p \in DOMAIN patch :
          \/ patch[p].list
          \/ \E j \in 1..n : /\ Bindings[o][j].path = p
                             /\ Bindings[o][j].operation = "set"
    /\ Existing(patch, EntityPath).list
    /\ Listed(Existing(patch, EntityPath).items)
    /\ entities = Len(Existing(patch, EntityPath).items)

\* What a binding does to the patch: a new value at its own path at most.
Replaced(after, patch, path, value) ==
    /\ DOMAIN after = DOMAIN patch \cup {path}
    /\ after[path] = value
    /\ \A p \in DOMAIN patch : p # path => after[p] = patch[p]

LEMMA NestedReplaces ==
    ASSUME NEW patch, NEW path, NEW value, NEW after,
           after = SetNested(patch, path, value)
    PROVE  Replaced(after, patch, path, value)
  BY DEF SetNested, Replaced

LEMMA ListFields ==
    ASSUME NEW items
    PROVE  List(items).list /\ List(items).items = items
  BY DEF List

\* The patch a binding makes of another, by its operation.
LEMMA BindingCases ==
    ASSUME NEW patch, NEW b, NEW after, after = ApplyBinding(patch, b)
    PROVE  /\ b.operation = "set" =>
                 /\ ~Appends(patch, b)
                 /\ Replaced(after, patch, b.path, Scalar(b.value))
           /\ Appends(patch, b) =>
                 Replaced(after, patch, b.path,
                          List(Append(Existing(patch, b.path).items, b.value)))
           /\ b.operation \in Appending /\ ~Appends(patch, b) => after = patch
           /\ b.operation = "remove" =>
                 /\ ~Appends(patch, b)
                 /\ \/ after = patch
                    \/ \E items : Replaced(after, patch, b.path, List(items))
  <1>1. ASSUME b.operation = "set"
        PROVE  ~Appends(patch, b) /\ Replaced(after, patch, b.path, Scalar(b.value))
    <2>1. ~Appends(patch, b)
      BY <1>1 DEF Appends
    <2>2. after = SetNested(patch, b.path, Scalar(b.value))
      BY <1>1, <2>1 DEF ApplyBinding
    <2> QED
      BY <2>1, <2>2, NestedReplaces
  <1>2. ASSUME Appends(patch, b)
        PROVE  Replaced(after, patch, b.path,
                        List(Append(Existing(patch, b.path).items, b.value)))
    <2>1. b.operation \in {"append", "append_if_missing"}
      BY <1>2 DEF Appends
    <2>2. after = SetNested(patch, b.path,
                     List(Append(Existing(patch, b.path).items, b.value)))
      BY <1>2, <2>1 DEF ApplyBinding
    <2> QED
      BY <2>2, NestedReplaces
  <1>3. ASSUME b.operation \in Appending, ~Appends(patch, b)
        PROVE  after = patch
    <2>1. b.operation = "append_if_missing"
      BY <1>3 DEF Appends, Appending
    <2> QED
      BY <1>3, <2>1 DEF ApplyBinding
  <1>4. ASSUME b.operation = "remove"
        PROVE  /\ ~Appends(patch, b)
               /\ \/ after = patch
                  \/ \E items : Replaced(after, patch, b.path, List(items))
    <2>1. ~Appends(patch, b)
      BY <1>4 DEF Appends
    <2>2. PICK items : items = Without(Existing(patch, b.path).items, b.value)
      OBVIOUS
    <2>3. after = patch \/ after = SetNested(patch, b.path, List(items))
      BY <1>4, <2>1, <2>2 DEF ApplyBinding
    <2> QED
      BY <2>1, <2>3, NestedReplaces
  <1> QED
    BY <1>1, <1>2, <1>3, <1>4

\* A value that is not that of the entities changes no count.
LEMMA CountedElsewhere ==
    ASSUME NEW o, NEW n \in Nat \ {0}, NEW patch, NEW entities,
           Counted(patch, entities, o, n - 1),
           NEW after, NEW path, NEW value, Replaced(after, patch, path, value),
           path # EntityPath,
           \/ value.list
           \/ Bindings[o][n].path = path /\ Bindings[o][n].operation = "set"
    PROVE  Counted(after, entities, o, n)
  <1>1. ASSUME NEW p \in DOMAIN after
        PROVE  \/ after[p].list
               \/ \E j \in 1..n : /\ Bindings[o][j].path = p
                                  /\ Bindings[o][j].operation = "set"
    <2>1. CASE p = path
      <3>1. n \in 1..n /\ after[p] = value
        BY <2>1 DEF Replaced
      <3> QED
        BY <2>1, <3>1
    <2>2. CASE p # path
      <3>1. p \in DOMAIN patch /\ after[p] = patch[p]
        BY <2>2 DEF Replaced
      <3>2. (1..(n - 1)) \subseteq 1..n
        OBVIOUS
      <3> QED
        BY <3>1, <3>2 DEF Counted
    <2> QED
      BY <2>1, <2>2
  <1>2. Existing(after, EntityPath) = Existing(patch, EntityPath)
    BY DEF Existing, Replaced
  <1> QED
    BY <1>1, <1>2 DEF Counted

\* An entity that is appended is counted.
LEMMA CountedEntity ==
    ASSUME NEW o, NEW n \in Nat \ {0}, NEW patch, NEW entities,
           Counted(patch, entities, o, n - 1), NEW after, NEW v,
           Replaced(after, patch, EntityPath,
                    List(Append(Existing(patch, EntityPath).items, v)))
    PROVE  Counted(after, entities + 1, o, n)
  <1>1. PICK items : items = Existing(patch, EntityPath).items
    OBVIOUS
  <1>2. PICK value : value = List(Append(items, v))
    OBVIOUS
  <1>3. /\ Listed(Append(items, v)) /\ Len(items) \in Nat
        /\ Len(Append(items, v)) = Len(items) + 1
        /\ entities = Len(items)
    BY <1>1, ListAppended DEF Counted
  <1>4. value.list /\ value.items = Append(items, v)
    BY <1>2, ListFields
  <1>5. Replaced(after, patch, EntityPath, value)
    BY <1>1, <1>2
  <1>6. Existing(after, EntityPath) = value
    BY <1>5 DEF Existing, Replaced
  <1>7. ASSUME NEW p \in DOMAIN after
        PROVE  \/ after[p].list
               \/ \E j \in 1..n : /\ Bindings[o][j].path = p
                                  /\ Bindings[o][j].operation = "set"
    <2>1. CASE p = EntityPath
      BY <1>4, <1>5, <2>1 DEF Replaced
    <2>2. CASE p # EntityPath
      <3>1. p \in DOMAIN patch /\ after[p] = patch[p]
        BY <1>5, <2>2 DEF Replaced
      <3>2. (1..(n - 1)) \subseteq 1..n
        OBVIOUS
      <3> QED
        BY <3>1, <3>2 DEF Counted
    <2> QED
      BY <2>1, <2>2
  <1> QED
    BY <1>3, <1>4, <1>6, <1>7 DEF Counted

\* A patch that is left as it is stays counted.
LEMMA CountedStill ==
    ASSUME NEW o, NEW n \in Nat \ {0}, NEW patch, NEW entities,
           Counted(patch, entities, o, n - 1)
    PROVE  Counted(patch, entities, o, n)
  <1>1. (1..(n - 1)) \subseteq 1..n
    OBVIOUS
  <1> QED
    BY <1>1 DEF Counted

\* The n-th binding neither raises nor miscounts.
LEMMA BindingStep ==
    ASSUME PackIsConsistent, NEW o \in Options, NEW n \in 1..Len(Bindings[o]),
           NEW made, made.ok, Counted(made.patch, made.entities, o, n - 1),
           NEW next, next = Step(made, Bindings[o][n])
    PROVE  next.ok /\ Counted(next.patch, next.entities, o, n)
  <1>0. PICK b, patch, after, entities :
          /\ b = Bindings[o][n] /\ patch = made.patch /\ entities = made.entities
          /\ after = ApplyBinding(patch, b)
    OBVIOUS
  <1>1. /\ b.operation \in Appending \cup {"set", "remove"}
        /\ b.path = EntityPath => b.operation \in Appending
        /\ b.operation \in Appending =>
              \A j \in 1..(n - 1) :
                 Bindings[o][j].path = b.path => Bindings[o][j].operation # "set"
        /\ n \in Nat \ {0}
    <2>1. n \in DOMAIN Bindings[o] /\ n \in Nat \ {0}
      BY DEF PackIsConsistent
    <2> QED
      BY <1>0, <2>1 DEF PackIsConsistent
  <1>2. Counted(patch, entities, o, n - 1) /\ entities \in Nat
    BY <1>0 DEF Counted, Listed
  <1>3. ~BindingRaises(patch, b)
    <2>1. ASSUME b.operation \in Appending PROVE Existing(patch, b.path).list
      <3>1. CASE b.path \in DOMAIN patch
        <4>1. Existing(patch, b.path) = patch[b.path]
          BY <3>1 DEF Existing
        <4> QED
          BY <1>1, <1>2, <2>1, <3>1, <4>1 DEF Counted
      <3>2. CASE b.path \notin DOMAIN patch
        <4>1. Existing(patch, b.path) = List(<<>>)
          BY <3>2 DEF Existing
        <4> QED
          BY <4>1 DEF List
      <3> QED
        BY <3>1, <3>2
    <2> QED
      BY <1>1, <2>1 DEF BindingRaises, Appending
  <1>4. /\ next.ok /\ next.patch = after
        /\ next.entities = entities
              + IF Appends(patch, b) /\ b.path = EntityPath THEN 1 ELSE 0
    BY <1>0, <1>3 DEF Step
  <1>5. CASE b.operation = "set"
    <2>1. ~Appends(patch, b) /\ Replaced(after, patch, b.path, Scalar(b.value))
      BY <1>0, <1>5, BindingCases
    <2>2. b.path # EntityPath
      BY <1>1, <1>5 DEF Appending
    <2>3. Counted(after, entities, o, n)
      BY <1>0, <1>1, <1>2, <1>5, <2>1, <2>2, CountedElsewhere
    <2> QED
      BY <1>2, <1>4, <2>1, <2>3
  <1>6. CASE Appends(patch, b)
    <2>1. PICK value :
            /\ value = List(Append(Existing(patch, b.path).items, b.value))
            /\ Replaced(after, patch, b.path, value)
      BY <1>0, <1>6, BindingCases
    <2>2. CASE b.path = EntityPath
      <3>1. Counted(after, entities + 1, o, n)
        BY <1>1, <1>2, <2>1, <2>2, CountedEntity
      <3> QED
        BY <1>4, <1>6, <2>2, <3>1
    <2>3. CASE b.path # EntityPath
      <3>1. value.list
        BY <2>1, ListFields
      <3>2. Counted(after, entities, o, n)
        BY <1>1, <1>2, <2>1, <2>3, <3>1, CountedElsewhere
      <3> QED
        BY <1>2, <1>4, <2>3, <3>2
    <2> QED
      BY <2>2, <2>3
  <1>7. ASSUME after = patch, ~Appends(patch, b)
        PROVE  next.ok /\ Counted(next.patch, next.entities, o, n)
    BY <1>1, <1>2, <1>4, <1>7, CountedStill
  <1>8. CASE b.operation = "remove"
    <2>1. ~Appends(patch, b) /\ b.path # EntityPath
      BY <1>0, <1>1, <1>8, BindingCases DEF Appending
    <2>2. CASE after = patch
      BY <1>7, <2>1, <2>2
    <2>3. CASE after # patch
      <3>1. PICK items : Replaced(after, patch, b.path, List(items))
        BY <1>0, <1>8, <2>3, BindingCases
      <3>2. PICK value : value = List(items)
        OBVIOUS
      <3>3. value.list /\ Replaced(after, patch, b.path, value)
        BY <3>1, <3>2, ListFields
      <3>4. Counted(after, entities, o, n)
        BY <1>1, <1>2, <2>1, <3>3, CountedElsewhere
      <3> QED
        BY <1>2, <1>4, <2>1, <3>4
    <2> QED
      BY <2>2, <2>3
  <1>9. CASE b.operation \in Appending /\ ~Appends(patch, b)
    <2>1. after = patch
      BY <1>0, <1>9, BindingCases
    <2> QED
      BY <1>7, <1>9, <2>1
  <1> QED
    BY <1>1, <1>5, <1>6, <1>8, <1>9

\* Every binding of an eligible option is applied and counted; if one were not,
\* look at the first.
LEMMA SelectionCounted ==
    ASSUME PackIsConsistent, NEW o \in Options, NEW ctx, IsEligible(o, ctx)
    PROVE  LET delta == EvaluateSelection(o, ctx)
           IN delta.ok /\ Counted(delta.patch, delta.entities, o, Len(Bindings[o]))
  <1> DEFINE last == Len(Bindings[o])
             Fine(made, n) == made.ok /\ Counted(made.patch, made.entities, o, n)
             Bad == {n \in 0..last : ~Fine(Applied(o, ctx)[n], n)}
  <1>1. last \in Nat
    BY DEF PackIsConsistent
  <1>2. Fine(Applied(o, ctx)[0], 0)
    <2>1. PICK made : made = Nothing(o, ctx)
      OBVIOUS
    <2>2. /\ made.ok /\ made.patch = NoPatch /\ made.entities = 0
          /\ DOMAIN NoPatch = {}
      BY <2>1 DEF Nothing, NoPatch
    <2>3. Existing(NoPatch, EntityPath) = List(<<>>)
      BY <2>2 DEF Existing
    <2>4. Existing(NoPatch, EntityPath).list
          /\ Existing(NoPatch, EntityPath).items = <<>>
      BY <2>3, ListFields
    <2>5. Listed(<<>>) /\ Len(<<>>) = 0
      <3>1. <<>> \in Seq({}) /\ DOMAIN <<>> = {}
        OBVIOUS
      <3>2. {<<>>[i] : i \in DOMAIN <<>>} = {}
        BY <3>1
      <3> QED
        BY <3>1, <3>2 DEF Listed
    <2>6. Counted(NoPatch, 0, o, 0)
      BY <2>2, <2>4, <2>5 DEF Counted
    <2>7. Applied(o, ctx)[0] = made
      BY <1>1, <2>1, AppliedSteps
    <2> QED
      BY <2>2, <2>6, <2>7
  <1> HIDE DEF Fine
  <1>3. Bad = {}
    <2> SUFFICES ASSUME Bad # {} PROVE FALSE
      OBVIOUS
    <2>1. Bad \in SUBSET Nat
      BY <1>1
    <2>2. PICK n \in Bad : \A k \in Bad : n <= k
      BY <2>1, LeastNatural
    <2>3. n \in 1..last /\ n - 1 \in 0..last /\ n - 1 \notin Bad
      BY <1>1, <1>2, <2>2
    <2>4. PICK made, next : /\ made = Applied(o, ctx)[n - 1]
                            /\ next = Applied(o, ctx)[n]
      OBVIOUS
    <2>5. Fine(made, n - 1)
      BY <2>3, <2>4
    <2>6. next = Step(made, Bindings[o][n])
      BY <1>1, <2>3, <2>4, AppliedSteps
    <2>7. Fine(next, n)
      BY <2>3, <2>5, <2>6, BindingStep DEF Fine
    <2> QED
      BY <2>2, <2>4, <2>7
  <1>4. last \in 0..last
    BY <1>1
  <1>5. Fine(Applied(o, ctx)[last], last)
    BY <1>3, <1>4
  <1> QED
    BY <1>5 DEF EvaluateSelection, Fine

\* Joining the selection itself makes no option ineligible.
LEMMA EligibleWithItself ==
    ASSUME PackIsConsistent, NEW o \in Options, IsEligible(o, Context(selected))
    PROVE  IsEligible(o, Context(selected \cup {o}))
  <1> SUFFICES ASSUME NEW rule \in Rules[o]
               PROVE  CheckRule(rule, Context(selected \cup {o}))
    BY DEF IsEligible
  <1>1. CheckRule(rule, Context(selected))
    BY DEF IsEligible
  <1>2. rule.type = "conflicts_with" => rule.arg # o
    BY DEF PackIsConsistent
  <1>3. \A options : /\ Context(options).selected = options
                     /\ Context(options).vertical = Vertical
    BY DEF Context
  <1> QED
    BY <1>1, <1>2, <1>3 DEF CheckRule

\* With a pack that is consistent, whatever is selected and in whatever order,
\* an option that is shown as eligible can be selected, and as many entities
\* are announced as the list of its patch has.
THEOREM SheetStaysTrue ==
    ASSUME PackIsConsistent
    PROVE  Spec => []SheetIsTrue
  <1>1. SheetIsTrue
    <2> SUFFICES ASSUME NEW o \in Options,
                        SectionStatus(Options, Context(selected))[o].eligible
                 PROVE  LET delta == EvaluateSelection(o, Context(selected \cup {o}))
                        IN /\ delta.ok
                           /\ delta.entities =
                                 Len(Existing(delta.patch, EntityPath).items)
      BY DEF SheetIsTrue
    <2>1. IsEligible(o, Context(selected))
      BY DEF SectionStatus
    <2>2. IsEligible(o, Context(selected \cup {o}))
      BY <2>1, EligibleWithItself
    <2> QED
      BY <2>2, SelectionCounted DEF Counted
  <1> QED
    BY <1>1, PTL
=============================================================================
