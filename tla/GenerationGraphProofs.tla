------------------------ MODULE GenerationGraphProofs ------------------------
(***************************************************************************)
(* Proofs about GenerationGraph, for every ceiling, every set of paths and *)
(* every gate; and, in the last part, about ModulePlan, whose lists the    *)
(* graph's first nodes pass on.                                            *)
(***************************************************************************)
EXTENDS GenerationGraph, ModulePlan, FiniteSetTheorems, WellFoundedInduction,
        TLAPS

-----------------------------------------------------------------------------
(* The inductive invariant.                                                  *)

\* What must be true for a node to be the next one.
NodeInv ==
    /\ node # "failed_node"
    /\ node \in {"plan_node", "scaffold_node", "synthesize_node", "assemble_node"} =>
            fixIter = 0
    /\ node \in {"reviewer_node", "fixer_node"} =>
            ~gate.passed /\ fixIter < MaxFix /\ files = judged
    /\ node = "fixer_node" =>
            /\ fixPlan.iteration = fixIter + 1
            /\ ~llm => gate.failing \subseteq fixPlan.files
    /\ node = "escalation_gate_node" =>
            ~gate.passed /\ fixIter = MaxFix /\ files = judged
    /\ node = "deliver_node" => gate.passed /\ files = judged

\* What the status says of the run.
StatusInv ==
    /\ node = "__end__" => status \in {"delivered", "paused_human"}
    /\ status = "delivered" => node = "__end__" /\ gate.passed /\ files = judged
    /\ status = "paused_human" =>
            /\ node \in {"__end__", "gate_node", "crashed"}
            /\ ~gate.passed /\ fixIter = MaxFix /\ files = judged

IInv == TypeOK /\ FixCeiling /\ NodeInv /\ StatusInv

\* How many nodes ran before each node, when no approval sends the run back.
StepsInv ==
    /\ node = "plan_node" => steps = 0
    /\ node = "scaffold_node" => steps = 1
    /\ node = "synthesize_node" => steps = 2
    /\ node = "assemble_node" => steps = 3
    /\ node = "gate_node" => steps = 4 + 3 * fixIter
    /\ node \in {"reviewer_node", "escalation_gate_node", "deliver_node"} =>
            steps = 5 + 3 * fixIter
    /\ node = "fixer_node" => steps = 6 + 3 * fixIter
    /\ steps <= 6 + 3 * MaxFix
-----------------------------------------------------------------------------
(* Lemmas about the data.                                                    *)

\* What any of the writers leaves in the tree is content.
LEMMA WrittenIsContent ==
    ASSUME NEW by \in {"none", "scaffold", "module", "fixer", "fix_failed"},
           NEW n \in Nat
    PROVE  Written(by, n) \in Content
  BY DEF Written, Content

LEMMA FreshIsTyped ==
    /\ NoTree \in [Paths -> Content]
    /\ NoGate \in Verdict
    /\ NoPlan \in FixPlan
    /\ [m \in 1..MaxModules |-> {}] \in [1..MaxModules -> SUBSET Paths]
  BY WrittenIsContent DEF NoTree, NoFile, NoGate, NoPlan, Verdict, FixPlan

\* Whatever the plan, the iteration the fixer counts to is a number.
LEMMA IterationIsNat == TypeOK => Iteration \in Nat
  BY DEF TypeOK, Iteration, FixPlan

-----------------------------------------------------------------------------
(* Type correctness.                                                         *)

\* Every variable keeps its type: all the nodes, an invocation and a crash.
THEOREM TypeCorrect == Spec => []TypeOK
  <1>1. Init => TypeOK
    <2> SUFFICES ASSUME Init PROVE TypeOK
      OBVIOUS
    <2>1. llm \in BOOLEAN
      BY DEF Init
    <2>2. runs \in 0..MaxRuns /\ modules \in 0..MaxModules
      BY ConstantsAssumption DEF Init
    <2>3. /\ fileMaps \in [1..MaxModules -> SUBSET Paths]
          /\ files \in [Paths -> Content] /\ judged \in [Paths -> Content]
          /\ gate \in Verdict /\ fixPlan \in FixPlan
      BY FreshIsTyped DEF Init
    <2> QED
      BY <2>1, <2>2, <2>3 DEF Init, TypeOK, Stopped, JobStatus
  <1>2. TypeOK /\ [Next]_vars => TypeOK'
    <2> SUFFICES ASSUME TypeOK, [Next]_vars PROVE TypeOK'
      OBVIOUS
    <2>1. ASSUME NEW from, NEW to \in Pipeline \cup Stopped, Goto(from, to)
          PROVE  node' \in Pipeline \cup Stopped /\ steps' \in Nat
                 /\ runs' \in 0..MaxRuns /\ llm' \in BOOLEAN
      BY <2>1, ConstantsAssumption DEF Goto, TypeOK
    <2>2. CASE Invoke
      BY <2>2, ConstantsAssumption, FreshIsTyped
      DEF Invoke, FreshState, TypeOK, Pipeline, JobStatus
    <2>3. CASE Crash
      BY <2>3 DEF Crash, TypeOK, Stopped, Stores
    <2>4. CASE NodePlan
      BY <2>1, <2>4 DEF NodePlan, TypeOK, Pipeline, JobStatus
    <2>5. CASE NodeScaffold
      BY <2>1, <2>5, ConstantsAssumption DEF NodeScaffold, TypeOK, Pipeline
    <2>6. CASE NodeSynthesize
      <3>1. fileMaps' \in [1..MaxModules -> SUBSET Paths]
        BY <2>6, ConstantsAssumption DEF NodeSynthesize
      <3> QED
        BY <2>1, <2>6, <3>1 DEF NodeSynthesize, TypeOK, Pipeline
    <2>7. CASE NodeAssemble
      <3>1. files' \in [Paths -> Content]
        <4>1. PICK owner \in [Paths -> 0..MaxModules] :
                files' = [p \in Paths |->
                            IF owner[p] # 0 THEN Written("module", owner[p])
                            ELSE IF p \in scaffold THEN Written("scaffold", 0)
                            ELSE NoFile]
          BY <2>7 DEF NodeAssemble
        <4>2. \A p \in Paths : owner[p] \in Nat
          BY ConstantsAssumption
        <4> QED
          BY <4>1, <4>2, WrittenIsContent DEF NoFile
      <3> QED
        BY <2>1, <2>7, <3>1 DEF NodeAssemble, TypeOK, Pipeline
    <2>8. CASE NodeGate
      <3>1. PICK verdict \in GateVerdicts :
              /\ Goto("gate_node", RouteGate(verdict))
              /\ gate' = verdict
              /\ judged' = files
              /\ status' = "gated"
              /\ UNCHANGED <<fixIter, fixCount, modules, scaffold, fileMaps, files,
                             conflicts, fixPlan, stored>>
        BY <2>8 DEF NodeGate
      <3>2. RouteGate(verdict) \in Pipeline
        BY DEF RouteGate, Pipeline
      <3> QED
        BY <2>1, <3>1, <3>2, ConstantsAssumption DEF TypeOK, JobStatus
    <2>9. CASE NodeReviewer
      <3>1. fixPlan' \in FixPlan
        BY <2>9 DEF NodeReviewer, TypeOK, FixPlan
      <3> QED
        BY <2>1, <2>9, <3>1 DEF NodeReviewer, TypeOK, Pipeline
    <2>10. CASE NodeFixer
      <3>1. files' \in [Paths -> Content]
        BY <2>10, WrittenIsContent, IterationIsNat
        DEF NodeFixer, Regenerate, TypeOK
      <3> QED
        BY <2>1, <2>10, <3>1, IterationIsNat
        DEF NodeFixer, TypeOK, Pipeline, JobStatus
    <2>11. CASE NodeEscalationGate
      <3>1. RouteEscalation \in Pipeline \cup Stopped
        BY DEF RouteEscalation, Pipeline, Stopped
      <3> QED
        BY <2>1, <2>11, <3>1 DEF NodeEscalationGate, TypeOK, JobStatus
    <2>12. CASE NodeDeliver
      BY <2>1, <2>12 DEF NodeDeliver, TypeOK, Stopped, JobStatus, Stores
    <2>13. CASE UNCHANGED vars
      BY <2>13 DEF vars, TypeOK
    <2> QED
      BY <2>2, <2>3, <2>4, <2>5, <2>6, <2>7, <2>8, <2>9, <2>10, <2>11, <2>12, <2>13
      DEF Next, NodeStep
  <1> QED
    BY <1>1, <1>2, PTL DEF Spec
-----------------------------------------------------------------------------
(* The inductive invariant holds.                                            *)

\* Routing after the gate, the one decision the fix loop takes.
LEMMA RouteGateCases ==
    ASSUME NEW verdict
    PROVE  \/ verdict.passed /\ RouteGate(verdict) = "deliver_node"
           \/ /\ ~verdict.passed /\ fixIter < MaxFix
              /\ RouteGate(verdict) = "reviewer_node"
           \/ /\ ~verdict.passed /\ ~(fixIter < MaxFix)
              /\ RouteGate(verdict) = "escalation_gate_node"
  BY DEF RouteGate

\* The three parts of IInv carry over every step of the pipeline.
LEMMA IInvStep ==
    ASSUME TypeOK, TypeOK', FixCeiling, NodeInv, StatusInv, [Next]_vars
    PROVE  FixCeiling' /\ NodeInv' /\ StatusInv'
  <1> USE DEF FixCeiling, NodeInv, StatusInv
  <1>1. CASE Invoke
    BY <1>1, ConstantsAssumption DEF Invoke, FreshState
  <1>2. CASE Crash
    BY <1>2 DEF Crash, Pipeline
  <1>3. CASE NodePlan
    BY <1>3 DEF NodePlan, Goto
  <1>4. CASE NodeScaffold
    BY <1>4 DEF NodeScaffold, Goto
  <1>5. CASE NodeSynthesize
    BY <1>5 DEF NodeSynthesize, Goto
  <1>6. CASE NodeAssemble
    <2>1. node = "assemble_node" /\ node' = "gate_node"
      BY <1>6 DEF NodeAssemble, Goto
    <2>2. UNCHANGED <<fixIter, fixCount, status, gate>>
      BY <1>6 DEF NodeAssemble
    <2>3. status \notin {"delivered", "paused_human"}
      BY <2>1
    <2> QED
      BY <2>1, <2>2, <2>3
  <1>7. CASE NodeGate
    <2>1. PICK verdict \in GateVerdicts :
            /\ node = "gate_node" /\ node' = RouteGate(verdict)
            /\ gate' = verdict /\ judged' = files /\ status' = "gated"
            /\ UNCHANGED <<fixIter, fixCount, files>>
      BY <1>7 DEF NodeGate, Goto
    <2>2. ~(fixIter < MaxFix) => fixIter = MaxFix
      BY ConstantsAssumption DEF TypeOK
    <2> QED
      BY <2>1, <2>2, RouteGateCases
  <1>8. CASE NodeReviewer
    <2>1. /\ node = "reviewer_node" /\ node' = "fixer_node"
          /\ UNCHANGED <<llm, fixIter, fixCount, gate, files, judged, status>>
      BY <1>8 DEF NodeReviewer, Goto
    <2>2. PICK planned, erroneous \in SUBSET Paths :
            /\ Reviewed(planned, erroneous)
            /\ fixPlan' = [files |-> planned, errors |-> erroneous,
                           iteration |-> fixIter + 1]
      BY <1>8, <2>1 DEF NodeReviewer
    <2>3. ~llm => gate.failing \subseteq planned
      BY <2>2 DEF Reviewed
    <2> QED
      BY <2>1, <2>2, <2>3
  <1>9. CASE NodeFixer
    <2>1. /\ node = "fixer_node" /\ node' = "gate_node"
          /\ fixIter' = Iteration /\ fixCount' = Iteration /\ status' = "fixing"
      BY <1>9 DEF NodeFixer, Goto
    <2>2. Iteration = fixIter + 1
      BY <2>1 DEF Iteration
    <2>3. fixIter + 1 <= MaxFix
      BY <2>1, ConstantsAssumption DEF TypeOK
    <2> QED
      BY <2>1, <2>2, <2>3
  <1>10. CASE NodeEscalationGate
    BY <1>10 DEF NodeEscalationGate, Goto, RouteEscalation
  <1>11. CASE NodeDeliver
    BY <1>11 DEF NodeDeliver, Goto
  <1>12. CASE UNCHANGED vars
    BY <1>12 DEF vars
  <1> QED
    BY <1>1, <1>2, <1>3, <1>4, <1>5, <1>6, <1>7, <1>8, <1>9, <1>10, <1>11, <1>12
    DEF Next, NodeStep

THEOREM InductiveInvariant == Spec => []IInv
  <1>1. Init => FixCeiling /\ NodeInv /\ StatusInv
    BY ConstantsAssumption DEF Init, FixCeiling, NodeInv, StatusInv
  <1>2. TypeOK /\ TypeOK' /\ FixCeiling /\ NodeInv /\ StatusInv /\ [Next]_vars
            => FixCeiling' /\ NodeInv' /\ StatusInv'
    BY IInvStep
  <1> QED
    BY <1>1, <1>2, TypeCorrect, PTL DEF Spec, IInv

-----------------------------------------------------------------------------
(* The contracts.                                                            *)

\* C5, for every ceiling and every gate: MaxFix fixes at most in a run.
THEOREM FixCeilingHolds == Spec => []FixCeiling
  BY InductiveInvariant, PTL DEF IInv

\* C7: the delivered tree is the one the last gate run passed.
THEOREM DeliveredTreeIsJudged == Spec => []DeliveredTreeWasJudged
  <1>1. IInv => DeliveredTreeWasJudged
    BY DEF IInv, StatusInv, DeliveredTreeWasJudged
  <1> QED
    BY <1>1, InductiveInvariant, PTL

\* A human gets the job only after the last permitted fix was rejected.
THEOREM HandedOverExhausted == Spec => []HandedOverOnlyWhenExhausted
  <1>1. IInv => HandedOverOnlyWhenExhausted
    BY DEF IInv, StatusInv, HandedOverOnlyWhenExhausted
  <1> QED
    BY <1>1, InductiveInvariant, PTL

\* The fixer's plan is the one written for the verdict that stands.
THEOREM PlanStaysCurrent == Spec => []PlanIsCurrent
  <1>1. IInv => PlanIsCurrent
    BY DEF IInv, NodeInv, PlanIsCurrent
  <1> QED
    BY <1>1, InductiveInvariant, PTL

\* No crash, re-invocation or failed push puts an unjudged tree in a store.
THEOREM StoresHoldGatedTrees == Spec => NothingStoredUngated
  <1>1. IInv /\ [Next]_vars => [stored' # stored => gate.passed /\ files = judged]_vars
    <2> SUFFICES ASSUME IInv, [Next]_vars, stored' # stored
                 PROVE  gate.passed /\ files = judged
      OBVIOUS
    <2>1. node = "deliver_node"
      BY DEF Next, NodeStep, vars, Invoke, Crash, NodePlan, NodeScaffold,
             NodeSynthesize, NodeAssemble, NodeGate, NodeReviewer, NodeFixer,
             NodeEscalationGate, NodeDeliver, Goto
    <2> QED
      BY <2>1 DEF IInv, NodeInv
  <1> QED
    BY <1>1, InductiveInvariant, PTL DEF Spec, NothingStoredUngated
-----------------------------------------------------------------------------
(* The emissions of the modules.                                             *)

\* Every file of a module is in the tree under that module, or in conflict.
Accounted ==
    \A m \in 1..MaxModules : \A p \in fileMaps[m] :
        files[p] = Written("module", m) \/ p \in conflicts

\* The account outlives the gate: with a ceiling of zero and an approval the
\* escalation gate sends the very same tree back.
EmissionInv ==
    node \in {"gate_node", "escalation_gate_node"} /\ fixIter = 0 => Accounted

\* Who owns a path that is not in conflict is its only writer.
LEMMA SoleWriterOwns ==
    ASSUME NEW p, NEW owner, Owns(p, owner), ~Conflicting(p),
           NEW m \in Writers(p)
    PROVE  owner = m
  BY DEF Owns, Conflicting

LEMMA EmissionStep ==
    ASSUME TypeOK, NodeInv, EmissionInv, [Next]_vars
    PROVE  EmissionInv'
  <1> USE DEF EmissionInv
  <1>1. CASE NodeAssemble
    <2>1. PICK owner \in [Paths -> 0..MaxModules] :
            /\ \A p \in Paths : Owns(p, owner[p])
            /\ files' = [p \in Paths |->
                            IF owner[p] # 0 THEN Written("module", owner[p])
                            ELSE IF p \in scaffold THEN Written("scaffold", 0)
                            ELSE NoFile]
      BY <1>1 DEF NodeAssemble
    <2>2. conflicts' = {p \in Paths : Conflicting(p)} /\ UNCHANGED fileMaps
      BY <1>1 DEF NodeAssemble
    <2>3. ASSUME NEW m \in 1..MaxModules, NEW p \in fileMaps[m], p \notin conflicts'
          PROVE  files'[p] = Written("module", m)
      <3>1. p \in Paths
        BY DEF TypeOK
      <3>2. m \in Writers(p)
        BY DEF Writers
      <3>3. owner[p] = m
        BY <2>1, <2>2, <2>3, <3>1, <3>2, SoleWriterOwns
      <3>4. m # 0
        BY ConstantsAssumption
      <3> QED
        BY <2>1, <3>1, <3>3, <3>4
    <2> QED
      BY <2>2, <2>3 DEF Accounted
  <1>2. CASE NodeGate
    <2>1. /\ node = "gate_node"
          /\ UNCHANGED <<fixIter, files, fileMaps, conflicts>>
      BY <1>2 DEF NodeGate, Goto
    <2> QED
      BY <2>1 DEF Accounted
  <1>3. CASE NodeFixer
    <2>1. node = "fixer_node" /\ fixIter' = Iteration
      BY <1>3 DEF NodeFixer, Goto
    <2>2. fixIter' = fixIter + 1 /\ fixIter \in Nat
      BY <2>1 DEF Iteration, NodeInv, TypeOK
    <2> QED
      BY <2>2
  <1>4. CASE NodeEscalationGate
    <2>1. /\ node = "escalation_gate_node"
          /\ UNCHANGED <<fixIter, files, fileMaps, conflicts>>
      BY <1>4 DEF NodeEscalationGate, Goto
    <2> QED
      BY <2>1 DEF Accounted
  <1>5. CASE \/ Invoke \/ Crash \/ NodePlan \/ NodeScaffold \/ NodeSynthesize
             \/ NodeReviewer \/ NodeDeliver
    <2>1. node' \in {"plan_node", "crashed", "scaffold_node", "synthesize_node",
                     "assemble_node", "fixer_node", "__end__"}
      BY <1>5 DEF Invoke, Crash, NodePlan, NodeScaffold, NodeSynthesize,
                  NodeReviewer, NodeDeliver, Goto
    <2> QED
      BY <2>1
  <1>6. CASE UNCHANGED vars
    BY <1>6 DEF vars, Accounted
  <1> QED
    BY <1>1, <1>2, <1>3, <1>4, <1>5, <1>6 DEF Next, NodeStep

\* No file a module emitted is lost in silence, whatever the modules and whoever
\* protects what: until the first fix it is in the tree as that module's, or its
\* path is reported.
THEOREM EmissionsAccounted == Spec => []EveryEmissionAccounted
  <1>1. Init => EmissionInv
    BY DEF Init, EmissionInv
  <1>2. IInv /\ EmissionInv /\ [Next]_vars => EmissionInv'
    BY EmissionStep DEF IInv
  <1>3. EmissionInv => EveryEmissionAccounted
    BY DEF EmissionInv, Accounted, EveryEmissionAccounted
  <1> QED
    BY <1>1, <1>2, <1>3, InductiveInvariant, PTL DEF Spec

-----------------------------------------------------------------------------
(* The length of a run.                                                      *)

\* A node was added to the run and the counter did not saturate.
LEMMA StepCounted ==
    ASSUME TypeOK, steps <= RecursionLimit, NEW from, NEW to, Goto(from, to)
    PROVE  steps' = steps + 1 /\ node = from /\ node' = to
  BY DEF Goto, TypeOK

LEMMA StepsInvStep ==
    ASSUME IInv, IInv', StepsInv, ~EscalationApproved,
           6 + 3 * MaxFix <= RecursionLimit, [Next]_vars
    PROVE  StepsInv'
  <1> USE DEF StepsInv
  <1>0. /\ TypeOK /\ steps <= RecursionLimit /\ steps \in Nat /\ fixIter \in Nat
        /\ fixIter <= MaxFix /\ MaxFix \in Nat /\ node # "failed_node"
    BY ConstantsAssumption DEF IInv, TypeOK, FixCeiling, NodeInv
  <1>1. CASE Invoke
    BY <1>0, <1>1 DEF Invoke
  <1>2. CASE Crash
    BY <1>0, <1>2 DEF Crash
  <1>3. CASE NodePlan
    <2>1. steps' = steps + 1 /\ node = "plan_node" /\ node' = "scaffold_node"
      BY <1>0, <1>3, StepCounted DEF NodePlan
    <2> QED
      BY <1>0, <2>1
  <1>4. CASE NodeScaffold
    <2>1. steps' = steps + 1 /\ node = "scaffold_node" /\ node' = "synthesize_node"
      BY <1>0, <1>4, StepCounted DEF NodeScaffold
    <2> QED
      BY <1>0, <2>1
  <1>5. CASE NodeSynthesize
    <2>1. steps' = steps + 1 /\ node = "synthesize_node" /\ node' = "assemble_node"
      BY <1>0, <1>5, StepCounted DEF NodeSynthesize
    <2> QED
      BY <1>0, <2>1
  <1>6. CASE NodeAssemble
    <2>1. steps' = steps + 1 /\ node = "assemble_node" /\ node' = "gate_node"
      BY <1>0, <1>6, StepCounted DEF NodeAssemble
    <2>2. fixIter = 0 /\ fixIter' = fixIter
      BY <1>6, <2>1 DEF NodeAssemble, IInv, NodeInv
    <2> QED
      BY <1>0, <2>1, <2>2
  <1>7. CASE NodeGate
    <2>1. PICK verdict \in GateVerdicts : Goto("gate_node", RouteGate(verdict))
      BY <1>7 DEF NodeGate
    <2>2. steps' = steps + 1 /\ node = "gate_node" /\ node' = RouteGate(verdict)
      BY <1>0, <2>1, StepCounted
    <2>3. fixIter' = fixIter
      BY <1>7 DEF NodeGate
    <2> QED
      BY <1>0, <2>2, <2>3, RouteGateCases
  <1>8. CASE NodeReviewer
    <2>1. steps' = steps + 1 /\ node = "reviewer_node" /\ node' = "fixer_node"
      BY <1>0, <1>8, StepCounted DEF NodeReviewer
    <2>2. fixIter' = fixIter /\ fixIter < MaxFix
      BY <1>8, <2>1 DEF NodeReviewer, IInv, NodeInv
    <2> QED
      BY <1>0, <2>1, <2>2
  <1>9. CASE NodeFixer
    <2>1. steps' = steps + 1 /\ node = "fixer_node" /\ node' = "gate_node"
      BY <1>0, <1>9, StepCounted DEF NodeFixer
    <2>2. fixIter' = fixIter + 1 /\ fixIter < MaxFix
      BY <1>9, <2>1 DEF NodeFixer, Iteration, IInv, NodeInv
    <2> QED
      BY <1>0, <2>1, <2>2
  <1>10. CASE NodeEscalationGate
    <2>1. /\ steps' = steps + 1 /\ node = "escalation_gate_node"
          /\ node' = "__end__"
      BY <1>0, <1>10, StepCounted DEF NodeEscalationGate, RouteEscalation
    <2> QED
      BY <1>0, <2>1
  <1>11. CASE NodeDeliver
    <2>1. steps' = steps + 1 /\ node = "deliver_node" /\ node' = "__end__"
      BY <1>0, <1>11, StepCounted DEF NodeDeliver
    <2> QED
      BY <1>0, <2>1
  <1>12. CASE UNCHANGED vars
    BY <1>12 DEF vars
  <1> QED
    BY <1>1, <1>2, <1>3, <1>4, <1>5, <1>6, <1>7, <1>8, <1>9, <1>10, <1>11, <1>12
    DEF Next, NodeStep

\* A ceiling of MaxFix needs 6 + 3 * MaxFix nodes: whatever the gate answers, no
\* run meets a recursion limit that is at least that (15 against 25 as shipped).
THEOREM RecursionLimitHolds ==
    ASSUME ~EscalationApproved, 6 + 3 * MaxFix <= RecursionLimit
    PROVE  Spec => []RecursionLimitNeverHit
  <1>1. Init => StepsInv
    BY ConstantsAssumption DEF Init, StepsInv
  <1>2. IInv /\ IInv' /\ StepsInv /\ [Next]_vars => StepsInv'
    BY StepsInvStep
  <1>3. IInv /\ StepsInv => RecursionLimitNeverHit
    BY ConstantsAssumption DEF IInv, TypeOK, StepsInv, RecursionLimitNeverHit
  <1> QED
    BY <1>1, <1>2, <1>3, InductiveInvariant, PTL DEF Spec

-----------------------------------------------------------------------------
(* The refinement.                                                           *)

\* The stage of every node, without the CASE.
StageTable ==
    /\ node \in {"idle", "crashed"} => StageOf = "idle"
    /\ node \in {"reviewer_node", "fixer_node"} => StageOf = "rejected"
    /\ node = "escalation_gate_node" => StageOf = "exhausted"
    /\ node = "deliver_node" => StageOf = "accepted"
    /\ node = "__end__" /\ status = "delivered" => StageOf = "delivered"
    /\ node = "__end__" /\ status # "delivered" => StageOf = "handed_over"
    /\ node \in {"plan_node", "scaffold_node", "synthesize_node", "assemble_node",
                 "gate_node", "failed_node"} => StageOf = "building"

LEMMA Stages == StageTable /\ StageTable'
  BY DEF StageTable, StageOf

\* A step that moves the node inside one stage and keeps the rest is a stutter.
LEMMA StutterStep ==
    ASSUME StageOf' = StageOf, UNCHANGED <<fixIter, files, judged>>
    PROVE  [Promise!Next]_(Promise!vars)
  BY DEF Promise!vars

\* Every step of the pipeline is a step of GatedDelivery or a stutter.
LEMMA RefinementStep ==
    ASSUME IInv, IInv', [Next]_vars
    PROVE  [Promise!Next]_(Promise!vars)
  <1> USE DEF StageTable, Promise!Idle, Promise!Live
  <1>0. /\ files \in [Paths -> Content] /\ files' \in [Paths -> Content]
        /\ judged' \in [Paths -> Content]
    BY DEF IInv, TypeOK
  <1>1. CASE Invoke
    <2>1. /\ node \in {"idle", "crashed", "__end__"} /\ node' = "plan_node"
          /\ fixIter' = 0
      BY <1>1 DEF Invoke, Stopped, FreshState
    <2>2. StageOf \in {"idle", "delivered", "handed_over"} /\ StageOf' = "building"
      BY <2>1, Stages
    <2> QED
      BY <1>0, <2>1, <2>2 DEF Promise!Next, Promise!Begin
  <1>2. CASE Crash
    <2>1. /\ node \in Pipeline /\ node' = "crashed"
          /\ UNCHANGED <<fixIter, files, judged>>
      BY <1>2 DEF Crash
    <2>2. StageOf \in {"building", "accepted", "rejected", "exhausted"}
          /\ StageOf' = "idle"
      BY <2>1, Stages DEF Pipeline
    <2> QED
      BY <2>1, <2>2 DEF Promise!Next, Promise!Lose
  <1>3. CASE NodePlan \/ NodeScaffold \/ NodeSynthesize \/ NodeReviewer
    <2>1. /\ UNCHANGED <<fixIter, files, judged>>
          /\ \/ node = "plan_node" /\ node' = "scaffold_node"
             \/ node = "scaffold_node" /\ node' = "synthesize_node"
             \/ node = "synthesize_node" /\ node' = "assemble_node"
             \/ node = "reviewer_node" /\ node' = "fixer_node"
      BY <1>3 DEF NodePlan, NodeScaffold, NodeSynthesize, NodeReviewer, Goto
    <2>2. StageOf' = StageOf
      BY <2>1, Stages
    <2> QED
      BY <2>1, <2>2, StutterStep
  <1>4. CASE NodeAssemble
    <2>1. /\ node = "assemble_node" /\ node' = "gate_node"
          /\ UNCHANGED <<fixIter, judged>>
      BY <1>4 DEF NodeAssemble, Goto
    <2>2. StageOf = "building" /\ StageOf' = "building"
      BY <2>1, Stages
    <2> QED
      BY <1>0, <2>1, <2>2 DEF Promise!Next, Promise!Build
  <1>5. CASE NodeGate
    <2>1. PICK verdict \in GateVerdicts :
            /\ node = "gate_node" /\ node' = RouteGate(verdict)
            /\ judged' = files /\ UNCHANGED <<fixIter, files>>
      BY <1>5 DEF NodeGate, Goto
    <2>2. StageOf = "building"
      BY <2>1, Stages
    <2>3. CASE node' = "deliver_node"
      <3>1. StageOf' = "accepted"
        BY <2>3, Stages
      <3> QED
        BY <2>1, <2>2, <3>1 DEF Promise!Next, Promise!Accept
    <2>4. CASE node' = "reviewer_node" /\ fixIter < MaxFix
      <3>1. StageOf' = "rejected"
        BY <2>4, Stages
      <3> QED
        BY <2>1, <2>2, <2>4, <3>1 DEF Promise!Next, Promise!Reject
    <2>5. CASE node' = "escalation_gate_node" /\ ~(fixIter < MaxFix)
      <3>1. StageOf' = "exhausted"
        BY <2>5, Stages
      <3> QED
        BY <2>1, <2>2, <2>5, <3>1 DEF Promise!Next, Promise!Reject
    <2> QED
      BY <2>1, <2>3, <2>4, <2>5, RouteGateCases
  <1>6. CASE NodeFixer
    <2>1. /\ node = "fixer_node" /\ node' = "gate_node"
          /\ fixIter' = Iteration /\ UNCHANGED judged
      BY <1>6 DEF NodeFixer, Goto
    <2>2. Iteration = fixIter + 1
      BY <2>1 DEF Iteration, IInv, NodeInv
    <2>3. StageOf = "rejected" /\ StageOf' = "building"
      BY <2>1, Stages
    <2> QED
      BY <1>0, <2>1, <2>2, <2>3 DEF Promise!Next, Promise!Repair
  <1>7. CASE NodeEscalationGate
    <2>1. /\ node = "escalation_gate_node" /\ node' = RouteEscalation
          /\ status' = "paused_human" /\ UNCHANGED <<fixIter, files, judged>>
      BY <1>7 DEF NodeEscalationGate, Goto
    <2>2. StageOf = "exhausted" /\ fixIter = MaxFix
      BY <2>1, Stages DEF IInv, NodeInv
    <2>3. CASE node' = "gate_node"
      <3>1. StageOf' = "building"
        BY <2>3, Stages
      <3> QED
        BY <2>1, <2>2, <3>1 DEF Promise!Next, Promise!Approved
    <2>4. CASE node' = "__end__"
      <3>1. StageOf' = "handed_over"
        BY <2>1, <2>4, Stages
      <3> QED
        BY <2>1, <2>2, <3>1 DEF Promise!Next, Promise!HandOver
    <2> QED
      BY <2>1, <2>3, <2>4 DEF RouteEscalation
  <1>8. CASE NodeDeliver
    <2>1. /\ node = "deliver_node" /\ node' = "__end__" /\ status' = "delivered"
          /\ UNCHANGED <<fixIter, files, judged>>
      BY <1>8 DEF NodeDeliver, Goto
    <2>2. StageOf = "accepted" /\ StageOf' = "delivered" /\ files = judged
      BY <2>1, Stages DEF IInv, NodeInv
    <2> QED
      BY <2>1, <2>2 DEF Promise!Next, Promise!Deliver
  <1>9. CASE UNCHANGED vars
    <2>1. UNCHANGED <<node, status, fixIter, files, judged>>
      BY <1>9 DEF vars
    <2>2. StageOf' = StageOf
      BY <2>1 DEF StageOf
    <2> QED
      BY <2>1, <2>2, StutterStep
  <1> QED
    BY <1>1, <1>2, <1>3, <1>4, <1>5, <1>6, <1>7, <1>8, <1>9 DEF Next, NodeStep

\* The pipeline implements GatedDelivery, for every ceiling and every gate.
THEOREM Refinement == Spec => KeepsPromise
  <1>1. Init => Promise!Init
    BY FreshIsTyped, Stages DEF Init, Promise!Init, StageTable
  <1>2. IInv /\ IInv' /\ [Next]_vars => [Promise!Next]_(Promise!vars)
    BY RefinementStep
  <1> QED
    BY <1>1, <1>2, InductiveInvariant, PTL DEF Spec, KeepsPromise, Promise!Spec
-----------------------------------------------------------------------------
(* Planning and synthesizing in detail.  GenerationGraph takes for granted   *)
(* that node_plan leaves at least one module and node_synthesize one file    *)
(* map for each; ModulePlan says how they come about.  The proofs are about  *)
(* every specification, every answer of the planner's model that its schema  *)
(* lets through and every id the synthesizer's model may write.              *)

\* A list, whatever its elements are.
Listed(s) == s \in Seq({s[i] : i \in DOMAIN s})

LEMMA ListMade ==
    ASSUME NEW s, NEW n \in Nat, DOMAIN s = 1..n, s = [i \in DOMAIN s |-> s[i]]
    PROVE  Listed(s) /\ Len(s) = n
  BY DEF Listed

LEMMA ListAppended ==
    ASSUME NEW s, Listed(s), NEW x
    PROVE  /\ Listed(Append(s, x))
           /\ Len(Append(s, x)) = Len(s) + 1
           /\ \A i \in 1..Len(s) : Append(s, x)[i] = s[i]
           /\ Append(s, x)[Len(s) + 1] = x
  <1> DEFINE S == {s[i] : i \in DOMAIN s} \cup {x}
             t == Append(s, x)
  <1>1. s \in Seq(S)
    BY DEF Listed
  <1>2. /\ t \in Seq(S) /\ Len(t) = Len(s) + 1 /\ DOMAIN t = 1..(Len(s) + 1)
        /\ \A i \in 1..Len(s) : t[i] = s[i]
        /\ t[Len(s) + 1] = x
    BY <1>1
  <1>3. t \in Seq({t[i] : i \in DOMAIN t})
    BY <1>2
  <1> QED
    BY <1>1, <1>2, <1>3 DEF Listed

LEMMA LeastNatural ==
    ASSUME NEW S \in SUBSET Nat, S # {}
    PROVE  \E m \in S : \A n \in S : m <= n
  <1>1. PICK m \in S : \A n \in S : <<n, m>> \notin OpToRel(<, Nat)
    BY WFMin, NatLessThanWellFounded, Zenon
  <1>2. \A n \in S : ~(n < m)
    BY <1>1, Zenon DEF OpToRel
  <1> QED
    BY <1>2

\* Modules can be built when they can be ranked so that each depends on modules
\* of a lower rank only: of those that wait, one of the lowest rank is ready.
LEMMA BuildableByRank ==
    ASSUME NEW list, NEW rank \in [DOMAIN list -> Nat],
           \A i \in DOMAIN list : \A dep \in list[i].dependencies :
              \E j \in DOMAIN list : list[j].module_id = dep /\ rank[j] < rank[i]
    PROVE  Buildable(list)
  <1> SUFFICES ASSUME NEW waiting \in SUBSET (DOMAIN list), waiting # {}
               PROVE  \E i \in waiting : \A dep \in list[i].dependencies :
                         \E j \in DOMAIN list \ waiting : list[j].module_id = dep
    BY DEF Buildable
  <1> DEFINE R == {rank[i] : i \in waiting}
  <1>1. R \in SUBSET Nat /\ R # {}
    OBVIOUS
  <1>2. PICK m \in R : \A n \in R : m <= n
    BY <1>1, LeastNatural
  <1>3. PICK i \in waiting : rank[i] = m
    BY <1>2
  <1>4. \A j \in waiting : ~(rank[j] < rank[i])
    BY <1>2, <1>3
  <1> QED
    BY <1>4

\* The place of the last module of an id, which order_map keeps.
LEMMA LastOfId ==
    ASSUME NEW list, Listed(list), NEW id \in Ids(list)
    PROVE  \E j \in DOMAIN list : /\ list[j].module_id = id
                                  /\ OrderOf(list, id) = list[j].build_order
  <1> DEFINE K == {j \in DOMAIN list : list[j].module_id = id}
             IsLast(j) == /\ list[j].module_id = id
                          /\ \A k \in DOMAIN list :
                                list[k].module_id = id => k <= j
             Behind == {Len(list) - j : j \in K}
  <1>1. DOMAIN list = 1..Len(list) /\ Len(list) \in Nat
    BY DEF Listed
  <1>2. Behind \in SUBSET Nat /\ Behind # {}
    <2>1. K # {}
      BY DEF Ids
    <2> QED
      BY <1>1, <2>1
  <1>3. PICK m \in Behind : \A n \in Behind : m <= n
    BY <1>2, LeastNatural
  <1>4. PICK j \in K : m = Len(list) - j
    BY <1>3
  <1>5. j \in DOMAIN list /\ IsLast(j)
    <2>1. ASSUME NEW k \in K PROVE k <= j
      <3>1. Len(list) - k \in Behind
        OBVIOUS
      <3>2. Len(list) - j <= Len(list) - k
        BY <1>3, <1>4, <3>1
      <3> QED
        BY <1>1, <3>2
    <2> QED
      BY <2>1
  <1> DEFINE last == CHOOSE k \in DOMAIN list : IsLast(k)
  <1>6. last \in DOMAIN list /\ IsLast(last)
    BY <1>5, Zenon
  <1>7. OrderOf(list, id) = list[last].build_order
    BY Zenon DEF OrderOf
  <1> QED
    BY <1>6, <1>7

\* What _validate_dag lets through can be built.  The order may be any whole
\* numbers, so a module ranks by how many modules come before it.
LEMMA ValidIsBuildable ==
    ASSUME NEW list, Listed(list), \A i \in DOMAIN list : list[i].build_order \in Int,
           Valid(list)
    PROVE  Buildable(list)
  <1> DEFINE D == DOMAIN list
             Before(i) == {j \in D : list[j].build_order < list[i].build_order}
             rank == [i \in D |-> Cardinality(Before(i))]
  <1>1. IsFiniteSet(D)
    BY FS_Interval DEF Listed
  <1>2. \A i \in D : IsFiniteSet(Before(i)) /\ Cardinality(Before(i)) \in Nat
    BY <1>1, FS_Subset, FS_CardinalityType
  <1>3. rank \in [D -> Nat]
    BY <1>2
  <1>4. ASSUME NEW i \in D, NEW dep \in list[i].dependencies
        PROVE  \E j \in D : list[j].module_id = dep /\ rank[j] < rank[i]
    <2>1. /\ dep \in Ids(list)
          /\ OrderOf(list, dep) < list[i].build_order
      BY DEF Valid
    <2>2. PICK j \in D : /\ list[j].module_id = dep
                         /\ list[j].build_order < list[i].build_order
      BY <2>1, LastOfId
    <2>3. Before(j) \subseteq Before(i) /\ j \in Before(i) /\ j \notin Before(j)
      BY <2>2
    <2>4. /\ Cardinality(Before(j)) <= Cardinality(Before(i))
          /\ Cardinality(Before(j)) # Cardinality(Before(i))
      <3>1. IsFiniteSet(Before(i)) /\ Before(j) \in SUBSET Before(i)
            /\ Before(j) # Before(i)
        BY <1>2, <2>3
      <3> HIDE DEF Before
      <3> QED
        BY <3>1, FS_Subset
    <2>5. rank[j] = Cardinality(Before(j)) /\ rank[i] = Cardinality(Before(i))
      BY Zenon
    <2>6. Cardinality(Before(j)) \in Nat /\ Cardinality(Before(i)) \in Nat
      BY <1>2
    <2> HIDE DEF Before, rank
    <2>7. rank[j] < rank[i]
      BY <2>4, <2>5, <2>6
    <2> QED
      BY <2>2, <2>7
  <1> QED
    BY <1>3, <1>4, BuildableByRank

\* The modules of an entity stand in threes, each after the one it depends on.
LEMMA ThreeByThree ==
    ASSUME NEW n \in Nat, NEW i \in 1..(3 * n)
    PROVE  /\ ((i - 1) \div 3) + 1 \in 1..n
           /\ ((i - 1) % 3) + 1 \in 1..3
           /\ ((i - 1) % 3) + 1 # 1 =>
                 /\ i - 1 \in 1..(3 * n)
                 /\ ((i - 1 - 1) \div 3) + 1 = ((i - 1) \div 3) + 1
                 /\ ((i - 1 - 1) % 3) + 1 = ((i - 1) % 3) + 1 - 1
  OBVIOUS

LEMMA FirstOfThree ==
    ASSUME NEW n \in Nat, NEW k \in 1..n
    PROVE  /\ 3 * k - 2 \in 1..(3 * n)
           /\ ((3 * k - 2 - 1) \div 3) + 1 = k
           /\ ((3 * k - 2 - 1) % 3) + 1 = 1
  OBVIOUS

LEMMA BuildableByThrees ==
    ASSUME NEW n \in Nat, NEW list, DOMAIN list = 1..(3 * n + 1),
           \A i \in 1..(3 * n) :
              list[i].dependencies =
                 IF ((i - 1) % 3) + 1 = 1 THEN {} ELSE {list[i - 1].module_id},
           list[3 * n + 1].dependencies \subseteq
              {list[3 * k - 2].module_id : k \in 1..n}
    PROVE  Buildable(list)
  <1> DEFINE rank == [i \in DOMAIN list |-> i]
  <1>1. rank \in [DOMAIN list -> Nat] /\ \A i \in DOMAIN list : rank[i] = i
    OBVIOUS
  <1> HIDE DEF rank
  <1>2. ASSUME NEW i \in DOMAIN list, NEW dep \in list[i].dependencies
        PROVE  \E j \in DOMAIN list : list[j].module_id = dep /\ rank[j] < rank[i]
    <2>1. \E j \in DOMAIN list : list[j].module_id = dep /\ j < i
      <3>1. CASE i \in 1..(3 * n)
        <4>1. ((i - 1) % 3) + 1 # 1 /\ dep = list[i - 1].module_id
          BY <3>1
        <4>2. i - 1 \in DOMAIN list /\ i - 1 < i
          BY <3>1, <4>1, ThreeByThree
        <4> QED
          BY <4>1, <4>2
      <3>2. CASE i = 3 * n + 1
        <4>1. PICK k \in 1..n : dep = list[3 * k - 2].module_id
          BY <3>2
        <4>2. 3 * k - 2 \in DOMAIN list /\ 3 * k - 2 < i
          BY <3>2
        <4> QED
          BY <4>1, <4>2
      <3> QED
        BY <3>1, <3>2
    <2> QED
      BY <1>1, <2>1
  <1> QED
    BY <1>1, <1>2, BuildableByRank

LEMMA EntityModuleFields ==
    ASSUME NEW name, NEW r, NEW order
    PROVE  /\ EntityModule(name, r, order).module_id =
                 <<Base[name], Roles[r]>>
           /\ EntityModule(name, r, order).dependencies =
                 IF r = 1 THEN {} ELSE {<<Base[name], Roles[r - 1]>>}
  BY DEF EntityModule, PlannedModule

\* The deterministic plan can be built in its order, also when the names of two
\* entities give the same ids.
LEMMA FallbackIsBuildable ==
    ASSUME NEW names, Listed(names)
    PROVE  /\ Listed(Fallback(names)) /\ Fallback(names) # <<>>
           /\ Buildable(Fallback(names))
  <1> DEFINE all == IF names = <<>> THEN <<Core>> ELSE names
             n == Len(all)
             list == Fallback(names)
             name(i) == all[((i - 1) \div 3) + 1]
             role(i) == ((i - 1) % 3) + 1
             Id(i, r) == <<Base[name(i)], Roles[r]>>
             last == {<<Base[all[k]], "entity">> : k \in 1..n}
  <1>1. n \in Nat
    BY DEF Listed
  <1>2. list = [i \in 1..(3 * n + 1) |->
                  IF i <= 3 * n
                  THEN EntityModule(name(i), role(i), i)
                  ELSE PlannedModule(<<"database", "migrations">>,
                                              last, i, {"entities"})]
    BY Zenon DEF Fallback
  <1> HIDE DEF list, all
  <1>3. Listed(list) /\ Len(list) = 3 * n + 1 /\ DOMAIN list = 1..(3 * n + 1)
    <2>1. DOMAIN list = 1..(3 * n + 1) /\ list = [i \in DOMAIN list |-> list[i]]
      BY <1>2
    <2>2. 3 * n + 1 \in Nat
      BY <1>1
    <2> QED
      BY <2>1, <2>2, ListMade
  <1>4. ASSUME NEW i \in 1..(3 * n)
        PROVE  /\ list[i].module_id = Id(i, role(i))
               /\ list[i].dependencies =
                     IF role(i) = 1 THEN {} ELSE {Id(i, role(i) - 1)}
    <2>1. PICK a, r : a = name(i) /\ r = role(i)
      OBVIOUS
    <2>2. PICK em : em = EntityModule(a, r, i)
      OBVIOUS
    <2>3. /\ em.module_id = <<Base[a], Roles[r]>>
          /\ em.dependencies =
                IF r = 1 THEN {} ELSE {<<Base[a], Roles[r - 1]>>}
      BY <2>2, EntityModuleFields
    <2>4. list[i] = em
      BY <1>1, <1>2, <2>1, <2>2
    <2> QED
      BY <2>1, <2>3, <2>4, Zenon
  <1>5. list[3 * n + 1].dependencies = last
    <2>1. list[3 * n + 1] = PlannedModule(<<"database", "migrations">>,
                                                   last, 3 * n + 1, {"entities"})
      BY <1>1, <1>2
    <2> QED
      BY <2>1 DEF PlannedModule
  <1>6. ASSUME NEW i \in 1..(3 * n), role(i) # 1
        PROVE  Id(i, role(i) - 1) = list[i - 1].module_id
    <2>1. /\ i - 1 \in 1..(3 * n)
          /\ ((i - 1 - 1) \div 3) + 1 = ((i - 1) \div 3) + 1
          /\ role(i - 1) = role(i) - 1
      BY <1>1, <1>6, ThreeByThree
    <2>2. list[i - 1].module_id = Id(i - 1, role(i - 1))
      BY <1>4, <2>1
    <2> QED
      BY <2>1, <2>2, Zenon
  <1>7. ASSUME NEW k \in 1..n
        PROVE  <<Base[all[k]], "entity">> = list[3 * k - 2].module_id
    <2>1. /\ 3 * k - 2 \in 1..(3 * n)
          /\ ((3 * k - 2 - 1) \div 3) + 1 = k /\ role(3 * k - 2) = 1
      BY <1>1, FirstOfThree
    <2>2. list[3 * k - 2].module_id = Id(3 * k - 2, role(3 * k - 2))
      BY <1>4, <2>1
    <2>3. Id(3 * k - 2, role(3 * k - 2)) = <<Base[all[k]], Roles[1]>>
      BY <2>1, Zenon
    <2>4. Roles[1] = "entity"
      BY DEF Roles
    <2> QED
      BY <2>2, <2>3, <2>4, Zenon
  <1>8. \A i \in 1..(3 * n) :
           list[i].dependencies =
              IF role(i) = 1 THEN {} ELSE {list[i - 1].module_id}
    BY <1>4, <1>6, Zenon
  <1>9. list[3 * n + 1].dependencies \subseteq
           {list[3 * k - 2].module_id : k \in 1..n}
    BY <1>5, <1>7
  <1>10. Buildable(list)
    BY <1>1, <1>3, <1>8, <1>9, BuildableByThrees
  <1>11. list # <<>>
    BY <1>1, <1>3
  <1> QED
    BY <1>3, <1>10, <1>11 DEF list

\* The plan of the graph without a planner can be built too.
LEMMA StubsAreBuildable ==
    ASSUME NEW names, Listed(names)
    PROVE  /\ Listed(StubModules(names))
           /\ StubModules(names) # <<>>
           /\ \A i \in DOMAIN StubModules(names) :
                 "spec_paths" \notin DOMAIN StubModules(names)[i]
           /\ Buildable(StubModules(names))
  <1> DEFINE n == Len(names)
             list == StubModules(names)
             k(i) == (i - 1) \div 3
             role(i) == ((i - 1) % 3) + 1
             Id(i, r) == <<"m", Roles[r], k(i)>>
  <1>1. n \in Nat
    BY DEF Listed
  <1>2. CASE n = 0
    <2>1. list = <<Stub("service", 1, {})>>
      BY <1>2, Zenon DEF StubModules
    <2> HIDE DEF list
    <2>2. /\ Len(list) = 1 /\ DOMAIN list = 1..1 /\ list[1].dependencies = {}
          /\ "spec_paths" \notin DOMAIN list[1]
          /\ list = [i \in DOMAIN list |-> list[i]]
      BY <2>1 DEF Stub
    <2>3. Listed(list) /\ list # <<>>
      <3>1. Listed(list)
        BY <2>2, ListMade
      <3> QED
        BY <2>2, <3>1
    <2>4. Buildable(list)
      BY <2>2 DEF Buildable
    <2> QED
      BY <2>2, <2>3, <2>4 DEF list
  <1>3. CASE n # 0
    <2>1. list = [i \in 1..(3 * n + 1) |->
                    IF i > 3 * n THEN Stub("migration", 0, {})
                    ELSE Stub(Roles[role(i)], k(i),
                            IF role(i) = 1 THEN {} ELSE {Id(i, role(i) - 1)})]
      BY <1>3, Zenon DEF StubModules
    <2> HIDE DEF list
    <2>2. Listed(list) /\ Len(list) = 3 * n + 1 /\ DOMAIN list = 1..(3 * n + 1)
      <3>1. DOMAIN list = 1..(3 * n + 1) /\ list = [i \in DOMAIN list |-> list[i]]
        BY <2>1
      <3>2. 3 * n + 1 \in Nat
        BY <1>1
      <3> QED
        BY <3>1, <3>2, ListMade
    <2>3. \A r, m, deps : /\ Stub(r, m, deps).module_id = <<"m", r, m>>
                          /\ Stub(r, m, deps).dependencies = deps
                          /\ "spec_paths" \notin DOMAIN Stub(r, m, deps)
      BY DEF Stub
    <2>4. ASSUME NEW i \in 1..(3 * n)
          PROVE  /\ list[i].module_id = Id(i, role(i))
                 /\ list[i].dependencies =
                       IF role(i) = 1 THEN {} ELSE {Id(i, role(i) - 1)}
                 /\ "spec_paths" \notin DOMAIN list[i]
      <3>1. list[i] = Stub(Roles[role(i)], k(i),
                            IF role(i) = 1 THEN {} ELSE {Id(i, role(i) - 1)})
        BY <1>1, <2>1
      <3> QED
        BY <2>3, <3>1
    <2>5. /\ list[3 * n + 1].dependencies = {}
          /\ "spec_paths" \notin DOMAIN list[3 * n + 1]
      BY <1>1, <2>1, <2>3
    <2>6. ASSUME NEW i \in 1..(3 * n), role(i) # 1
          PROVE  Id(i, role(i) - 1) = list[i - 1].module_id
      <3>1. /\ i - 1 \in 1..(3 * n)
            /\ k(i - 1) + 1 = k(i) + 1
            /\ role(i - 1) = role(i) - 1
        BY <1>1, <2>6, ThreeByThree
      <3>2. k(i - 1) = k(i)
        BY <3>1
      <3>3. list[i - 1].module_id = Id(i - 1, role(i - 1))
        BY <2>4, <3>1
      <3> QED
        BY <3>1, <3>2, <3>3, Zenon
    <2>7. \A i \in 1..(3 * n) :
             list[i].dependencies =
                IF role(i) = 1 THEN {} ELSE {list[i - 1].module_id}
      BY <2>4, <2>6, Zenon
    <2>8. Buildable(list)
      BY <1>1, <2>2, <2>5, <2>7, BuildableByThrees
    <2>9. \A i \in DOMAIN list : "spec_paths" \notin DOMAIN list[i]
      <3>1. \A i \in DOMAIN list : i \in 1..(3 * n) \/ i = 3 * n + 1
        BY <1>1, <2>2
      <3> QED
        BY <2>4, <2>5, <3>1
    <2>10. list # <<>>
      BY <1>1, <2>2
    <2> QED
      BY <2>2, <2>8, <2>9, <2>10 DEF list
  <1> QED
    BY <1>2, <1>3

\* What the graph keeps of a plan depends on what the plan depended on.
LEMMA GraphKeepsPlan ==
    ASSUME NEW list, Listed(list), Buildable(list),
           NEW kept, kept = [i \in DOMAIN list |-> ModulePlanOf(list[i])]
    PROVE  /\ Listed(kept) /\ Len(kept) = Len(list)
           /\ \A i \in DOMAIN kept : "spec_paths" \notin DOMAIN kept[i]
           /\ Buildable(kept)
  <1>1. /\ DOMAIN kept = DOMAIN list
        /\ \A i \in DOMAIN list :
              /\ kept[i].module_id = list[i].module_id
              /\ kept[i].dependencies = list[i].dependencies
              /\ "spec_paths" \notin DOMAIN kept[i]
    BY DEF ModulePlanOf
  <1>2. Listed(kept) /\ Len(kept) = Len(list)
    <2>1. Len(list) \in Nat /\ DOMAIN list = 1..Len(list)
      BY DEF Listed
    <2>2. kept = [i \in DOMAIN kept |-> kept[i]]
      BY <1>1
    <2> QED
      BY <1>1, <2>1, <2>2, ListMade
  <1>3. Buildable(kept)
    <2> SUFFICES ASSUME NEW waiting \in SUBSET (DOMAIN kept), waiting # {}
                 PROVE  \E i \in waiting : \A dep \in kept[i].dependencies :
                           \E j \in DOMAIN kept \ waiting :
                              kept[j].module_id = dep
      BY DEF Buildable
    <2>0. waiting \in SUBSET (DOMAIN list)
      BY <1>1
    <2>1. PICK i \in waiting : \A dep \in list[i].dependencies :
                                  \E j \in DOMAIN list \ waiting :
                                     list[j].module_id = dep
      BY <2>0, Zenon DEF Buildable
    <2> QED
      BY <1>1, <2>1
  <1> QED
    BY <1>1, <1>2, <1>3

\* What planning and synthesizing keep true.  The last part is about the graph:
\* its modules carry no paths, so that the synthesizer never gets to the model.
GraphInv ==
    /\ at # "raised"
    /\ at # "plan" => plan # <<>>
    /\ \A i \in DOMAIN plan : "spec_paths" \notin DOMAIN plan[i]
    /\ \A i \in 1..Len(outputs) : outputs[i].from = IF model THEN "failed" ELSE "stub"

PlanningInv ==
    /\ at \in {"plan", "synthesize", "done", "raised"}
    /\ caller \in Callers /\ entities \in EntityLists
    /\ Listed(plan) /\ Listed(outputs) /\ Buildable(plan)
    /\ at = "plan" => plan = <<>> /\ outputs = <<>>
    /\ Len(outputs) <= Len(plan)
    /\ at = "done" => Len(outputs) = Len(plan)
    /\ \A i \in 1..Len(outputs) : outputs[i].module_id = plan[i].module_id
    /\ caller = "graph" => GraphInv

LEMMA EmptyListed == Listed(<<>>) /\ Len(<<>>) = 0 /\ DOMAIN <<>> = {}
  <1>1. <<>> \in Seq({})
    OBVIOUS
  <1>2. {<<>>[i] : i \in DOMAIN <<>>} = {} /\ DOMAIN <<>> = {}
    OBVIOUS
  <1> QED
    BY <1>1, <1>2 DEF Listed

LEMMA PlansStep ==
    ASSUME PlanningInv, at = "plan", NEW list, Listed(list),
           Buildable(list), Plans(list),
           caller = "graph" =>
              list # <<>> /\ \A i \in DOMAIN list : "spec_paths" \notin DOMAIN list[i]
    PROVE  PlanningInv'
  <1>1. /\ plan' = list /\ at' = "synthesize" /\ outputs' = <<>>
        /\ UNCHANGED <<caller, model, entities, outputs>>
    BY DEF Plans, PlanningInv
  <1>2. Len(list) \in Nat
    BY DEF Listed
  <1>3. Buildable(plan')
    BY <1>1
  <1> QED
    BY <1>1, <1>2, <1>3, EmptyListed DEF PlanningInv, GraphInv, Listed

LEMMA HandsOverStep ==
    ASSUME PlanningInv, at = "plan", NEW list, Listed(list),
           Buildable(list), HandsOver(list)
    PROVE  PlanningInv'
  <1>1. Listed(entities)
    BY InputsAssumption DEF PlanningInv, Listed
  <1>2. CASE caller = "agents"
    <2>1. Plans(list)
      BY <1>2 DEF HandsOver
    <2> QED
      BY <1>2, <2>1, PlansStep
  <1>3. CASE caller = "graph" /\ list = <<>>
    <2>1. Plans(StubModules(entities))
      BY <1>3 DEF HandsOver
    <2> QED
      BY <1>1, <2>1, StubsAreBuildable, PlansStep
  <1>4. CASE caller = "graph" /\ list # <<>>
    <2>1. PICK kept : kept = [i \in DOMAIN list |-> ModulePlanOf(list[i])]
      OBVIOUS
    <2>2. Plans(kept)
      BY <1>4, <2>1 DEF HandsOver
    <2>3. /\ Listed(kept) /\ Len(kept) = Len(list) /\ Buildable(kept)
          /\ \A i \in DOMAIN kept : "spec_paths" \notin DOMAIN kept[i]
      BY <2>1, GraphKeepsPlan
    <2>4. kept # <<>>
      BY <1>4, <2>3, EmptyListed DEF Listed
    <2> QED
      BY <2>2, <2>3, <2>4, PlansStep
  <1> QED
    BY <1>2, <1>3, <1>4 DEF PlanningInv, Callers

\* Whatever the planner does, a plan comes of it or, for a caller without the
\* graph, an exception.
LEMMA PlanningStep ==
    ASSUME PlanningInv,
           \/ \E answer \in PlanAnswers : PlannerAnswers(answer)
           \/ PlannerGivesUp \/ PlannerRaises
           \/ NodePlanAlone
    PROVE  PlanningInv'
  <1>1. Listed(entities) /\ Listed(Fallback(entities))
        /\ Buildable(Fallback(entities))
    <2>1. Listed(entities)
      BY InputsAssumption DEF PlanningInv, Listed
    <2> QED
      BY <2>1, FallbackIsBuildable
  <1>2. ASSUME NEW answer \in PlanAnswers, PlannerAnswers(answer)
        PROVE  PlanningInv'
    <2>1. at = "plan" /\ Listed(answer)
          /\ \A i \in DOMAIN answer : answer[i].build_order \in Int
      BY <1>2, InputsAssumption DEF PlannerAnswers, AsksPlanner, Listed
    <2>2. CASE Valid(answer)
      <3>1. HandsOver(answer)
        BY <1>2, <2>2 DEF PlannerAnswers
      <3> QED
        BY <2>1, <2>2, <3>1, ValidIsBuildable, HandsOverStep
    <2>3. CASE ~Valid(answer)
      <3>1. HandsOver(Fallback(entities))
        BY <1>2, <2>3 DEF PlannerAnswers
      <3> QED
        BY <1>1, <2>1, <3>1, HandsOverStep
    <2> QED
      BY <2>2, <2>3
  <1>3. CASE PlannerGivesUp
    BY <1>1, <1>3, HandsOverStep DEF PlannerGivesUp, AsksPlanner
  <1>4. ASSUME at = "plan", Plans(StubModules(entities))
        PROVE  PlanningInv'
    BY <1>1, <1>4, StubsAreBuildable, PlansStep
  <1>5. CASE PlannerRaises
    <2>1. CASE caller = "graph"
      BY <1>4, <1>5, <2>1 DEF PlannerRaises, AsksPlanner
    <2>2. CASE caller # "graph"
      <3>1. at' = "raised" /\ UNCHANGED <<caller, model, entities, plan, outputs>>
        BY <1>5, <2>2 DEF PlannerRaises, Raised
      <3>2. Buildable(plan')
        BY <3>1 DEF PlanningInv
      <3> QED
        BY <2>2, <3>1, <3>2 DEF PlanningInv, Listed
    <2> QED
      BY <2>1, <2>2
  <1>6. CASE NodePlanAlone
    BY <1>4, <1>6 DEF NodePlanAlone
  <1> QED
    BY <1>2, <1>3, <1>5, <1>6

\* A file map is written for the module whose turn it is.
LEMMA EmitsStep ==
    ASSUME PlanningInv, Synthesizes, NEW fileMap, Emits(fileMap),
           fileMap.module_id = Module.module_id,
           caller = "graph" => fileMap.from = IF model THEN "failed" ELSE "stub"
    PROVE  PlanningInv'
  <1> DEFINE n == Len(outputs)
  <1>1. /\ outputs' = Append(outputs, fileMap) /\ at = "synthesize"
        /\ UNCHANGED <<caller, model, entities, at, plan>>
        /\ n < Len(plan) /\ n \in Nat /\ Len(plan) \in Nat
        /\ fileMap.module_id = plan[n + 1].module_id
    BY DEF Synthesizes, Emits, Module, PlanningInv, Listed
  <1>2. /\ Listed(outputs') /\ Len(outputs') = n + 1
        /\ \A i \in 1..n : outputs'[i] = outputs[i]
        /\ outputs'[n + 1] = fileMap
    BY <1>1, ListAppended DEF PlanningInv
  <1>3. \A i \in 1..Len(outputs') : i \in 1..n \/ i = n + 1
    BY <1>1, <1>2
  <1>4. \A i \in 1..Len(outputs') : outputs'[i].module_id = plan[i].module_id
    BY <1>1, <1>2, <1>3 DEF PlanningInv
  <1>5. Buildable(plan') /\ Listed(plan')
    BY <1>1 DEF PlanningInv
  <1>6. ASSUME caller = "graph" PROVE GraphInv'
    <2>1. \A i \in 1..Len(outputs') :
             outputs'[i].from = IF model THEN "failed" ELSE "stub"
      BY <1>2, <1>3, <1>6 DEF PlanningInv, GraphInv
    <2> QED
      BY <1>1, <1>6, <2>1 DEF PlanningInv, GraphInv
  <1> QED
    BY <1>1, <1>2, <1>4, <1>5, <1>6 DEF PlanningInv

LEMMA FileMapFields ==
    ASSUME NEW id, NEW from
    PROVE  /\ FileMap(id, from).module_id = id
           /\ FileMap(id, from).from = from
  BY DEF FileMap

LEMMA SynthesizingStep ==
    ASSUME PlanningInv,
           \/ \E id \in NamedIds : SynthesizerAnswers(id)
           \/ SynthesizerGivesUp \/ SynthesizerRaises
           \/ LosesModule \/ NodeSynthesizeAlone \/ Finish
    PROVE  PlanningInv'
  <1>1. ASSUME Synthesizes, HasPaths PROVE caller # "graph"
    <2>1. Len(outputs) + 1 \in DOMAIN plan
      BY <1>1 DEF Synthesizes, PlanningInv, Listed
    <2> QED
      BY <1>1, <2>1 DEF HasPaths, Module, PlanningInv, GraphInv
  <1>2. ASSUME NEW id \in NamedIds, SynthesizerAnswers(id)
        PROVE  PlanningInv'
    BY <1>1, <1>2, FileMapFields, EmitsStep DEF SynthesizerAnswers
  <1>3. CASE SynthesizerGivesUp
    BY <1>1, <1>3, FileMapFields, EmitsStep
    DEF SynthesizerGivesUp, StubFallback
  <1>4. CASE SynthesizerRaises
    <2>1. /\ at' = "raised" /\ UNCHANGED <<caller, model, entities, plan, outputs>>
          /\ caller # "graph"
      BY <1>1, <1>4 DEF SynthesizerRaises, Raised
    <2>2. Buildable(plan')
      BY <2>1 DEF PlanningInv
    <2> QED
      BY <2>1, <2>2 DEF PlanningInv, Listed
  <1>5. CASE LosesModule
    BY <1>5, FileMapFields, EmitsStep DEF LosesModule
  <1>6. CASE NodeSynthesizeAlone
    BY <1>6, FileMapFields, EmitsStep DEF NodeSynthesizeAlone
  <1>7. CASE Finish
    <2>1. /\ at' = "done" /\ Len(outputs) = Len(plan) /\ at = "synthesize"
          /\ UNCHANGED <<caller, model, entities, plan, outputs>>
      BY <1>7 DEF Finish
    <2>2. Buildable(plan')
      BY <2>1 DEF PlanningInv
    <2> QED
      BY <2>1, <2>2 DEF PlanningInv, GraphInv, Listed
  <1> QED
    BY <1>2, <1>3, <1>4, <1>5, <1>6, <1>7

LEMMA PlanningInvariant == PlanningSpec => []PlanningInv
  <1>1. PlanningInit => PlanningInv
    <2> SUFFICES ASSUME PlanningInit PROVE PlanningInv
      OBVIOUS
    <2>1. Buildable(plan)
      BY DEF PlanningInit, Buildable
    <2> QED
      BY <2>1, EmptyListed DEF PlanningInit, PlanningInv, GraphInv
  <1>2. PlanningInv /\ [PlanningNext]_planningVars => PlanningInv'
    <2> SUFFICES ASSUME PlanningInv, [PlanningNext]_planningVars
                 PROVE  PlanningInv'
      OBVIOUS
    <2>1. CASE PlanningNext
      BY <2>1, PlanningStep, SynthesizingStep DEF PlanningNext
    <2>2. CASE UNCHANGED planningVars
      <3>1. UNCHANGED <<caller, model, entities, at, plan, outputs>>
        BY <2>2 DEF planningVars
      <3>2. Buildable(plan')
        BY <3>1 DEF PlanningInv
      <3> QED
        BY <3>1, <3>2 DEF PlanningInv, GraphInv, Listed
    <2> QED
      BY <2>1, <2>2
  <1> QED
    BY <1>1, <1>2, PTL DEF PlanningSpec

\* Whatever the planner's model answers, the plan that is synthesized can be
\* built: a plan that cannot is not let through, and neither fallback is one.
THEOREM PlansAreBuildable == PlanningSpec => []PlanIsBuildable
  <1>1. PlanningInv => PlanIsBuildable
    BY DEF PlanningInv, PlanIsBuildable
  <1> QED
    BY <1>1, PlanningInvariant, PTL

\* The part of EveryModuleGetsItsFileMap that is safety: who is done has a file
\* map for each module, in the order of the plan and under the module's own id,
\* and no exception reaches the graph.
THEOREM FileMapsFollowPlan ==
    PlanningSpec =>
        [](/\ at = "raised" => caller = "agents"
           /\ at = "done" => [i \in DOMAIN outputs |-> outputs[i].module_id] =
                             [i \in DOMAIN plan |-> plan[i].module_id])
  <1>1. ASSUME PlanningInv
        PROVE  /\ at = "raised" => caller = "agents"
               /\ at = "done" => [i \in DOMAIN outputs |-> outputs[i].module_id] =
                                 [i \in DOMAIN plan |-> plan[i].module_id]
    <2>1. /\ at = "raised" => caller = "agents"
          /\ DOMAIN outputs = 1..Len(outputs) /\ DOMAIN plan = 1..Len(plan)
      BY <1>1 DEF PlanningInv, GraphInv, Callers, Listed
    <2>2. ASSUME at = "done"
          PROVE  [i \in DOMAIN outputs |-> outputs[i].module_id] =
                 [i \in DOMAIN plan |-> plan[i].module_id]
      BY <1>1, <2>1, <2>2 DEF PlanningInv
    <2> QED
      BY <2>1, <2>2
  <1> QED
    BY <1>1, PlanningInvariant, PTL

\* What GenerationGraph builds on, and how the graph fulfils it: once planned
\* there is a module, and the files of every module are a stub, a failure stub
\* exactly when there is a model.
THEOREM GraphSynthesizesStubs ==
    PlanningSpec =>
        [](caller = "graph" =>
              /\ at # "plan" => plan # <<>>
              /\ \A i \in DOMAIN outputs :
                    outputs[i].from = IF model THEN "failed" ELSE "stub")
  <1>1. PlanningInv =>
           (caller = "graph" =>
               /\ at # "plan" => plan # <<>>
               /\ \A i \in DOMAIN outputs :
                     outputs[i].from = IF model THEN "failed" ELSE "stub")
    BY DEF PlanningInv, GraphInv, Listed
  <1> QED
    BY <1>1, PlanningInvariant, PTL
==============================================================================
