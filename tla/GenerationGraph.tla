--------------------------- MODULE GenerationGraph ---------------------------
(***************************************************************************)
(* The LangGraph pipeline of agents/graphs/generation_graph.py for one job:*)
(*                                                                         *)
(*   plan - scaffold - synthesize - assemble - gate -+- deliver            *)
(*                                               ^   +- reviewer - fixer   *)
(*                                               |   |               |     *)
(*                                               +---|---------------+     *)
(*                                                   +- escalation gate    *)
(*                                                                         *)
(* One action is one node: a node computes on a copy of GenerationState    *)
(* and the graph stores what it returns, so nothing of a node that does    *)
(* not finish is seen.  A process may die between nodes (Crash) and the    *)
(* job be invoked again (Invoke).                                          *)
(*                                                                         *)
(* A file's content is abstracted to who wrote it and when.  The gate's    *)
(* verdict is an input: node_gate as shipped always passes, and the nodes  *)
(* behind a failing verdict are written for the gate that replaces it, as  *)
(* tests/test_fix_loop.py replaces it.  current_phase and the event log    *)
(* are display data and are left out.                                      *)
(***************************************************************************)
EXTENDS Naturals, FiniteSets

CONSTANTS
    MaxFix,              \* MAX_FIX_ITERATIONS
    Paths,               \* normalised file paths that _validate_path accepts
    ScaffoldPaths,       \* the paths node_scaffold lays
    ProtectedPaths,      \* SCAFFOLD_PROTECTED_PATHS, as normalised paths meet it
    StubPath,            \* the file name the reviewer falls back to
    OwnPath,             \* OwnPath[m]: the stub of the m-th module (source and
                         \* test count as one file)
    MaxModules,          \* bound: modules in a plan
    GateVerdicts,        \* the verdicts a gate run can return
    EscalationApproved,  \* escalation_approved as the state is created
    RecursionLimit,      \* LangGraph's recursion_limit (25 unless configured)
    MaxRuns              \* bound: invocations of the job

Verdict == [passed : BOOLEAN, failing : SUBSET Paths]

ASSUME ConstantsAssumption ==
    /\ MaxFix \in Nat
    /\ MaxModules \in Nat \ {0}
    /\ MaxRuns \in Nat
    /\ RecursionLimit \in Nat
    /\ EscalationApproved \in BOOLEAN
    /\ ScaffoldPaths \subseteq Paths
    /\ StubPath \in Paths
    /\ OwnPath \in [1..MaxModules -> Paths]
    /\ GateVerdicts \subseteq Verdict

VARIABLES
    node,        \* the node that runs next
    steps,       \* nodes run so far by this invocation, counted up to
                 \* RecursionLimit + 1
    runs,        \* invocations so far
    llm,         \* an LLM client is configured for this invocation
    status,      \* GenerationState.job_status
    fixIter,     \* GenerationState.fix_iteration
    fixCount,    \* GenerationState.fix_count
    modules,     \* length of module_plan
    scaffold,    \* keys of scaffold_files
    fileMaps,    \* file_maps: the paths of Paths each planned module emitted
    files,       \* assembled_files
    conflicts,   \* assembly_conflicts, as a set
    gate,        \* gate_result
    fixPlan,     \* fix_plan
    stored,      \* the stores that hold the tree: Gitea, MinIO
    judged       \* history: assembled_files as the last gate run saw them

vars == <<node, steps, runs, llm, status, fixIter, fixCount, modules, scaffold,
          fileMaps, files, conflicts, gate, fixPlan, stored, judged>>

-----------------------------------------------------------------------------
(* Data.                                                                     *)

Pipeline == {"plan_node", "scaffold_node", "synthesize_node", "assemble_node",
             "gate_node", "reviewer_node", "fixer_node", "escalation_gate_node",
             "deliver_node", "failed_node"}
Stopped  == {"idle", "crashed", "__end__"}
JobStatus == {"queued", "running", "gated", "fixing", "delivered", "paused_human"}

Stores == {"gitea", "minio"}

\* Who wrote a file: n is the module's index or the fix iteration.
Content == [by : {"none", "scaffold", "module", "fixer", "fix_failed"}, n : Nat]
Written(by, n) == [by |-> by, n |-> n]
NoFile == Written("none", 0)
NoTree == [p \in Paths |-> NoFile]

\* FixPlan: files_to_fix, the files among them with a non-empty list of errors,
\* and the iteration.  escalation_recommended is read by nothing and left out.
FixPlan == [files : SUBSET Paths, errors : SUBSET Paths, iteration : Nat]
NoPlan == [files |-> {}, errors |-> {}, iteration |-> 0]
NoGate == [passed |-> FALSE, failing |-> {}]

TypeOK ==
    /\ node \in Pipeline \cup Stopped
    /\ steps \in Nat
    /\ runs \in 0..MaxRuns
    /\ llm \in BOOLEAN
    /\ status \in JobStatus
    /\ fixIter \in Nat
    /\ fixCount \in Nat
    /\ modules \in 0..MaxModules
    /\ scaffold \in SUBSET Paths
    /\ fileMaps \in [1..MaxModules -> SUBSET Paths]
    /\ files \in [Paths -> Content]
    /\ conflicts \in SUBSET Paths
    /\ gate \in Verdict
    /\ fixPlan \in FixPlan
    /\ stored \in SUBSET Stores
    /\ judged \in [Paths -> Content]

-----------------------------------------------------------------------------
(* Invocation.                                                               *)

\* Slip: the fix count of the checkpoint survives into the next invocation.
FreshStateKeepsCount ==
    /\ status' = "queued"
    /\ UNCHANGED <<fixIter, fixCount>>
    /\ modules' = 0
    /\ scaffold' = {}
    /\ fileMaps' = [m \in 1..MaxModules |-> {}]
    /\ files' = NoTree
    /\ conflicts' = {}
    /\ gate' = NoGate
    /\ fixPlan' = NoPlan

\* The fields of a fresh GenerationState.
FreshState ==
    /\ status' = "queued"
    /\ fixIter' = 0
    /\ fixCount' = 0
    /\ modules' = 0
    /\ scaffold' = {}
    /\ fileMaps' = [m \in 1..MaxModules |-> {}]
    /\ files' = NoTree
    /\ conflicts' = {}
    /\ gate' = NoGate
    /\ fixPlan' = NoPlan

Init ==
    /\ node = "idle"
    /\ steps = 0
    /\ runs = 0
    /\ llm = FALSE
    /\ status = "queued"
    /\ fixIter = 0
    /\ fixCount = 0
    /\ modules = 0
    /\ scaffold = {}
    /\ fileMaps = [m \in 1..MaxModules |-> {}]
    /\ files = NoTree
    /\ conflicts = {}
    /\ gate = NoGate
    /\ fixPlan = NoPlan
    /\ stored = {}
    /\ judged = NoTree

\* run_generation_job: _invoke hands ainvoke a complete initial state, so the
\* graph starts at START again whatever the job's checkpoint holds.
Invoke ==
    /\ node \in Stopped
    /\ runs < MaxRuns
    /\ node' = "plan_node"
    /\ steps' = 0
    /\ runs' = runs + 1
    /\ llm' \in BOOLEAN
    /\ FreshState
    /\ judged' = NoTree
    /\ UNCHANGED stored

\* The worker process dies or the task is cancelled: the nodes that finished
\* are in the checkpoint, the one that was running has left no trace in it.  A
\* delivery may have reached a store by then.
Crash ==
    /\ node \in Pipeline
    /\ node' = "crashed"
    /\ \E ok \in SUBSET (IF node = "deliver_node" THEN Stores ELSE {}) :
        stored' = stored \cup ok
    /\ UNCHANGED <<steps, runs, llm, status, fixIter, fixCount, modules, scaffold,
                   fileMaps, files, conflicts, gate, fixPlan, judged>>

\* A node finished and the graph goes on to the next one.
Goto(from, to) ==
    /\ node = from
    /\ node' = to
    /\ steps' = IF steps <= RecursionLimit THEN steps + 1 ELSE steps
    /\ UNCHANGED <<runs, llm>>

-----------------------------------------------------------------------------
(* Building the first tree.                                                  *)

\* The planner's DAG, or the fixed plan when there is no LLM or it fails: in
\* every case a plan of at least one module.
NodePlan ==
    /\ Goto("plan_node", "scaffold_node")
    /\ status' = "running"
    /\ modules' \in 1..MaxModules
    /\ UNCHANGED <<fixIter, fixCount, scaffold, fileMaps, files, conflicts, gate,
                   fixPlan, stored, judged>>

NodeScaffold ==
    /\ Goto("scaffold_node", "synthesize_node")
    /\ scaffold' = ScaffoldPaths
    /\ UNCHANGED <<status, fixIter, fixCount, modules, fileMaps, files, conflicts,
                   gate, fixPlan, stored, judged>>

\* One stub for each module.  A model changes nothing here: the modules of the
\* graph lack the spec_paths the synthesizer reads (module ModulePlan), and what
\* that raises is caught and answered with the stub.
NodeSynthesize ==
    /\ Goto("synthesize_node", "assemble_node")
    /\ fileMaps' = [m \in 1..MaxModules |->
                      IF m <= modules THEN {OwnPath[m]} ELSE {}]
    /\ UNCHANGED <<status, fixIter, fixCount, modules, scaffold, files, conflicts,
                   gate, fixPlan, stored, judged>>

Writers(p) == {m \in 1..MaxModules : p \in fileMaps[m]}

\* file_ownership of Assembler.assemble: 0 is the scaffold or nobody.  A
\* protected path stays with the scaffold, any other path goes to the first
\* module that emits it; a scaffold file that is not protected is replaced.  A
\* path that is not well formed is skipped with a note nobody reads, and is no
\* path of Paths.
Owns(p, owner) ==
    IF p \in ProtectedPaths \/ Writers(p) = {}
    THEN owner = 0
    ELSE owner \in Writers(p) /\ \A m \in Writers(p) : owner <= m

\* Slip: only a protected path is a conflict.
ConflictingProtected(p) ==
    /\ p \in ProtectedPaths
    /\ Writers(p) # {}

\* A protected path that any module emits, and any other path emitted twice.
Conflicting(p) ==
    IF p \in ProtectedPaths
    THEN Writers(p) # {}
    ELSE \E m, k \in Writers(p) : m # k

NodeAssemble ==
    /\ Goto("assemble_node", "gate_node")
    /\ \E owner \in [Paths -> 0..MaxModules] :
        /\ \A p \in Paths : Owns(p, owner[p])
        /\ files' = [p \in Paths |->
                        IF owner[p] # 0 THEN Written("module", owner[p])
                        ELSE IF p \in scaffold THEN Written("scaffold", 0)
                        ELSE NoFile]
    /\ conflicts' = {p \in Paths : Conflicting(p)}
    /\ UNCHANGED <<status, fixIter, fixCount, modules, scaffold, fileMaps, gate,
                   fixPlan, stored, judged>>

-----------------------------------------------------------------------------
(* The gate and the fix loop.                                                *)

\* _route_gate once gate_result is there.  Its first branch, no gate_result,
\* leads to failed_node: node_gate always sets one, so no step takes it and
\* node_failed has no action here (NodeInv of the proofs has it dead).
RouteGate(verdict) ==
    IF verdict.passed THEN "deliver_node"
    ELSE IF fixIter < MaxFix THEN "reviewer_node"
    ELSE "escalation_gate_node"

\* The verdict does not look at assembly_conflicts.
NodeGate ==
    \E verdict \in GateVerdicts :
        /\ Goto("gate_node", RouteGate(verdict))
        /\ gate' = verdict
        /\ judged' = files
        /\ status' = "gated"
        /\ UNCHANGED <<fixIter, fixCount, modules, scaffold, fileMaps, files,
                       conflicts, fixPlan, stored>>

\* What the reviewer may put in the plan: without an LLM every failing file with
\* its error, or the stub's name when the report names none; with one whatever
\* the LLM answers, or every failing file when the reviewer fails.
Reviewed(planned, erroneous) ==
    \/ llm /\ erroneous \subseteq planned
    \/ /\ planned = IF gate.failing = {} /\ ~llm THEN {StubPath} ELSE gate.failing
       /\ erroneous = planned

\* Slip: a plan that is already there is not written again.
NodeReviewerKeepsPlan ==
    /\ Goto("reviewer_node", "fixer_node")
    /\ \/ /\ gate.passed \/ fixPlan # NoPlan
          /\ UNCHANGED fixPlan
       \/ /\ ~gate.passed /\ fixPlan = NoPlan
          /\ \E planned, erroneous \in SUBSET Paths :
                /\ Reviewed(planned, erroneous)
                /\ fixPlan' = [files |-> planned, errors |-> erroneous,
                               iteration |-> fixIter + 1]
    /\ UNCHANGED <<status, fixIter, fixCount, modules, scaffold, fileMaps, files,
                   conflicts, gate, stored, judged>>

NodeReviewer ==
    /\ Goto("reviewer_node", "fixer_node")
    /\ \/ /\ gate.passed
          /\ UNCHANGED fixPlan
       \/ /\ ~gate.passed
          /\ \E planned, erroneous \in SUBSET Paths :
                /\ Reviewed(planned, erroneous)
                /\ fixPlan' = [files |-> planned, errors |-> erroneous,
                               iteration |-> fixIter + 1]
    /\ UNCHANGED <<status, fixIter, fixCount, modules, scaffold, fileMaps, files,
                   conflicts, gate, stored, judged>>

\* The fixer is called once per planned file and Assembler.apply_fixes writes
\* every file of every answer, planned or not.  A fixer that raises, and a job
\* without an LLM, write exactly the planned files.
Regenerated(written, by) ==
    \/ llm /\ fixPlan.files # {} /\ by = "fixer"
    \/ written = fixPlan.files /\ by = IF llm THEN "fix_failed" ELSE "fixer"

\* The fixer counts by the plan, or on its own when there is no plan.
Iteration == IF fixPlan = NoPlan THEN fixIter + 1 ELSE fixPlan.iteration

Regenerate ==
    \E written \in SUBSET Paths, by \in {"fixer", "fix_failed"} :
        /\ Regenerated(written, by)
        /\ files' = [p \in Paths |-> IF p \in written THEN Written(by, Iteration)
                                     ELSE files[p]]

\* Slip: the fixed tree is delivered without another gate run.
NodeFixerSkipsGate ==
    /\ Goto("fixer_node", "deliver_node")
    /\ status' = "fixing"
    /\ fixIter' = Iteration
    /\ fixCount' = Iteration
    /\ Regenerate
    /\ UNCHANGED <<modules, scaffold, fileMaps, conflicts, gate, fixPlan, stored,
                   judged>>

\* Slip: the count of iterations is not advanced.
NodeFixerForgetsToCount ==
    /\ Goto("fixer_node", "gate_node")
    /\ status' = "fixing"
    /\ UNCHANGED <<fixIter, fixCount>>
    /\ Regenerate
    /\ UNCHANGED <<modules, scaffold, fileMaps, conflicts, gate, fixPlan, stored,
                   judged>>

NodeFixer ==
    /\ Goto("fixer_node", "gate_node")
    /\ status' = "fixing"
    /\ fixIter' = Iteration
    /\ fixCount' = Iteration
    /\ Regenerate
    /\ UNCHANGED <<modules, scaffold, fileMaps, conflicts, gate, fixPlan, stored,
                   judged>>

-----------------------------------------------------------------------------
(* The two ways out.                                                         *)

\* Slip: the approval is not asked for.
RouteEscalationUnasked == "gate_node"

RouteEscalation == IF EscalationApproved THEN "gate_node" ELSE "__end__"

NodeEscalationGate ==
    /\ Goto("escalation_gate_node", RouteEscalation)
    /\ status' = "paused_human"
    /\ UNCHANGED <<fixIter, fixCount, modules, scaffold, fileMaps, files, conflicts,
                   gate, fixPlan, stored, judged>>

\* Slip: the phase is written where the status belongs.
NodeDeliverMixesUp ==
    /\ Goto("deliver_node", "__end__")
    /\ status' = "done"
    /\ \E ok \in SUBSET Stores : stored' = stored \cup ok
    /\ UNCHANGED <<fixIter, fixCount, modules, scaffold, fileMaps, files, conflicts,
                   gate, fixPlan, judged>>

\* Push and upload fail independently, and a failure only costs a log line: the
\* URL and the key are recorded and the job is delivered all the same.  The
\* generated sbom.json is not a path of Paths: the gate never sees it.
NodeDeliver ==
    /\ Goto("deliver_node", "__end__")
    /\ status' = "delivered"
    /\ \E ok \in SUBSET Stores : stored' = stored \cup ok
    /\ UNCHANGED <<fixIter, fixCount, modules, scaffold, fileMaps, files, conflicts,
                   gate, fixPlan, judged>>

-----------------------------------------------------------------------------

NodeStep ==
    \/ NodePlan \/ NodeScaffold \/ NodeSynthesize \/ NodeAssemble
    \/ NodeGate \/ NodeReviewer \/ NodeFixer
    \/ NodeEscalationGate \/ NodeDeliver

Next == Invoke \/ Crash \/ NodeStep

Spec == Init /\ [][Next]_vars

\* A process that is alive goes on to the next node: the graph's own loop does
\* so and every call a node makes is bounded by a timeout.  Crashes are allowed
\* and so is never being invoked again.
FairSpec == Spec /\ WF_vars(NodeStep)

-----------------------------------------------------------------------------
(* What the pipeline must never do, and what it must do.                     *)

\* C5: a run never makes more fixes than the ceiling, and the two counters the
\* state carries never disagree.
FixCeiling == fixIter <= MaxFix /\ fixCount = fixIter

\* The longest run a failing gate can cause still fits in LangGraph's recursion
\* limit, so the loop ends at the escalation gate and not in an exception.
RecursionLimitNeverHit == steps <= RecursionLimit

\* C7: a delivered job passed its last gate run, and what is delivered is the
\* very tree that run judged: no fix slipped in between.
DeliveredTreeWasJudged ==
    status = "delivered" => gate.passed /\ files = judged

\* A job is given to a human only with every permitted fix made and the last
\* result of them judged and rejected.
HandedOverOnlyWhenExhausted ==
    status = "paused_human" => ~gate.passed /\ fixIter = MaxFix /\ files = judged

\* The fixer never works from the plan of an earlier round or of a gate run that
\* passed; without an LLM the plan covers every failing file.
PlanIsCurrent ==
    node = "fixer_node" =>
        /\ ~gate.passed
        /\ fixPlan.iteration = fixIter + 1
        /\ ~llm => gate.failing \subseteq fixPlan.files

\* Until a fixer has run, every well-formed file a module emitted is in the tree
\* under that module or its path is among the conflicts: none is lost in silence.
EveryEmissionAccounted ==
    node = "gate_node" /\ fixIter = 0 =>
        \A m \in 1..MaxModules : \A p \in fileMaps[m] :
            files[p] = Written("module", m) \/ p \in conflicts

\* C7 seen from outside, crashes in the middle of a delivery included: nothing
\* reaches Gitea or MinIO unless the gate passed the tree as it is.
NothingStoredUngated ==
    [][stored' # stored => gate.passed /\ files = judged]_vars

\* Every invocation that is not killed comes to an end.
EveryRunStops == node \in Pipeline ~> node \in Stopped

-----------------------------------------------------------------------------
(* The refinement: the nodes that build, judge and repair, seen as stages.   *)

StageOf ==
    CASE node \in {"idle", "crashed"} -> "idle"
      [] node \in {"reviewer_node", "fixer_node"} -> "rejected"
      [] node = "escalation_gate_node" -> "exhausted"
      [] node = "deliver_node" -> "accepted"
      [] node = "__end__" ->
            IF status = "delivered" THEN "delivered" ELSE "handed_over"
      [] OTHER -> "building"

Promise == INSTANCE GatedDelivery WITH
    Limit <- MaxFix,
    Trees <- [Paths -> Content],
    stage <- StageOf,
    attempts <- fixIter,
    tree <- files,
    judged <- judged

\* The pipeline does what GatedDelivery promises.
KeepsPromise == Promise!Spec
==============================================================================
