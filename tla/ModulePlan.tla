------------------------------ MODULE ModulePlan ------------------------------
(***************************************************************************)
(* From a frozen specification to one file map per module: PlannerAgent    *)
(* orders the modules, SynthesizerAgent writes the files of each.  Two     *)
(* callers put the agents together: the graph (node_plan, then             *)
(* node_synthesize) and a program that uses the agents alone, as           *)
(* test_plan_synthesize_assemble_pipeline does.  What matters of a module  *)
(* is its id, what it depends on, its place in the order and the parts of  *)
(* the specification it reads.  Names, types and rationales are left out.  *)
(* The graph also runs without a model.  The specification is named apart  *)
(* from that of GenerationGraph, beside which the proofs extend it.        *)
(***************************************************************************)
EXTENDS Integers, Sequences, FiniteSets

CONSTANTS
    EntityLists,    \* lists of entity names a specification may have
    Core,           \* the entity of a specification without any
    Base,           \* the id prefix of a name: lower case, spaces replaced
    PlanAnswers,    \* plans the planner's model may answer with
    NamedIds        \* module ids the synthesizer's model may write

\* What the output schema makes of any answer: a list, and whole numbers, which
\* may be negative, for the order.
ASSUME InputsAssumption ==
    /\ EntityLists \subseteq Seq(DOMAIN Base)
    /\ \A modules \in PlanAnswers :
          /\ modules \in Seq({modules[i] : i \in DOMAIN modules})
          /\ \A i \in DOMAIN modules : modules[i].build_order \in Int

Callers == {"graph", "agents"}
Roles == <<"entity", "repository", "service">>

VARIABLES
    caller,         \* who runs the agents
    model,          \* whether there is a model
    entities,       \* the entity names of the specification
    at,             \* "plan", "synthesize", "done" or "raised"
    plan,           \* the modules, in the order they will be synthesized
    outputs         \* one file map per synthesized module

planningVars == <<caller, model, entities, at, plan, outputs>>

PlanningInit ==
    /\ caller \in Callers
    /\ model \in {TRUE, caller = "agents"}
    /\ entities \in EntityLists
    /\ at = "plan"
    /\ plan = <<>>
    /\ outputs = <<>>

-----------------------------------------------------------------------------
(* PlannerAgent.                                                           *)

Ids(modules) == {modules[i].module_id : i \in DOMAIN modules}

\* order_map: of two modules with one id the later one counts.
OrderOf(modules, id) ==
    LET last == CHOOSE i \in DOMAIN modules :
                    /\ modules[i].module_id = id
                    /\ \A j \in DOMAIN modules :
                          modules[j].module_id = id => j <= i
    IN modules[last].build_order

\* Slip: a module may depend on one at its own place, itself that is.
ValidOrBeside(modules) ==
    \A i \in DOMAIN modules :
        /\ \A j \in DOMAIN modules :
              modules[i].build_order = modules[j].build_order => i = j
        /\ \A dep \in modules[i].dependencies :
              /\ dep \in Ids(modules)
              /\ OrderOf(modules, dep) <= modules[i].build_order

\* _validate_dag, where it does not raise.
Valid(modules) ==
    \A i \in DOMAIN modules :
        /\ \A j \in DOMAIN modules :
              modules[i].build_order = modules[j].build_order => i = j
        /\ \A dep \in modules[i].dependencies :
              /\ dep \in Ids(modules)
              /\ OrderOf(modules, dep) < modules[i].build_order

PlannedModule(id, dependencies, order, paths) ==
    [module_id |-> id, dependencies |-> dependencies, build_order |-> order,
     spec_paths |-> paths]

\* The r-th of the three modules of an entity.
EntityModule(name, r, order) ==
    PlannedModule(<<Base[name], Roles[r]>>,
                  IF r = 1 THEN {} ELSE {<<Base[name], Roles[r - 1]>>},
                  order,
                  {name} \cup (IF r = 3 THEN {"endpoints"} ELSE {}))

\* _deterministic_fallback: three modules for each entity and the migrations.
Fallback(listed) ==
    LET names == IF listed = <<>> THEN <<Core>> ELSE listed
        n == Len(names)
    IN [i \in 1..(3 * n + 1) |->
          IF i <= 3 * n
          THEN EntityModule(names[((i - 1) \div 3) + 1], ((i - 1) % 3) + 1, i)
          ELSE PlannedModule(<<"database", "migrations">>,
                             {<<Base[names[k]], "entity">> : k \in 1..n},
                             i, {"entities"})]

-----------------------------------------------------------------------------
(* node_plan.                                                              *)

\* A module as the graph keeps it.  The place in the order is dropped, and the
\* paths move into spec_slice.
ModulePlanOf(pm) ==
    [module_id |-> pm.module_id, dependencies |-> pm.dependencies,
     spec_slice |-> pm.spec_paths]

\* Without a planner the graph numbers the entities itself.
Stub(role, k, dependencies) ==
    [module_id |-> <<"m", role, k>>, dependencies |-> dependencies,
     spec_slice |-> {}]

StubModules(names) ==
    LET n == Len(names)
    IN IF n = 0 THEN <<Stub("service", 1, {})>>
       ELSE [i \in 1..(3 * n + 1) |->
               LET k == (i - 1) \div 3
                   r == ((i - 1) % 3) + 1
               IN IF i > 3 * n THEN Stub("migration", 0, {})
                  ELSE Stub(Roles[r], k,
                            IF r = 1 THEN {} ELSE {<<"m", Roles[r - 1], k>>})]

Plans(modules) ==
    /\ plan' = modules
    /\ at' = "synthesize"
    /\ UNCHANGED <<caller, model, entities, outputs>>

\* To the graph a plan without a module is no plan.
HandsOver(modules) ==
    Plans(CASE caller = "agents" -> modules
            [] caller = "graph" /\ modules = <<>> -> StubModules(entities)
            [] OTHER -> [i \in DOMAIN modules |-> ModulePlanOf(modules[i])])

\* The graph asks the planner when there is a model and an entity.
AsksPlanner ==
    /\ at = "plan"
    /\ model
    /\ caller = "graph" => entities # <<>>

PlannerAnswers(modules) ==
    /\ AsksPlanner
    /\ HandsOver(IF Valid(modules) THEN modules ELSE Fallback(entities))

\* The harness gives up: HarnessError.
PlannerGivesUp ==
    /\ AsksPlanner
    /\ HandsOver(Fallback(entities))

Raised ==
    /\ at' = "raised"
    /\ UNCHANGED <<caller, model, entities, plan, outputs>>

\* Any other error leaves plan().  The graph catches it.
PlannerRaises ==
    /\ AsksPlanner
    /\ IF caller = "graph" THEN Plans(StubModules(entities)) ELSE Raised

NodePlanAlone ==
    /\ at = "plan"
    /\ ~AsksPlanner
    /\ Plans(StubModules(entities))

-----------------------------------------------------------------------------
(* SynthesizerAgent and the loop of node_synthesize.                       *)

Module == plan[Len(outputs) + 1]

Synthesizes ==
    /\ at = "synthesize"
    /\ Len(outputs) < Len(plan)

\* A file map, and whether it is the model's or a stub.
FileMap(id, from) == [module_id |-> id, from |-> from]

StubFallback(module) == FileMap(module.module_id, "stub")

Emits(fileMap) ==
    /\ outputs' = Append(outputs, fileMap)
    /\ UNCHANGED <<caller, model, entities, at, plan>>

\* _extract_spec_slice reads the module's spec_paths before anything is asked.
HasPaths == "spec_paths" \in DOMAIN Module

\* Slip: the file map keeps the id the model wrote.
AnswersUnderItsName(id) ==
    /\ Synthesizes /\ model /\ HasPaths
    /\ Emits(FileMap(id, "model"))

SynthesizerAnswers(id) ==
    /\ Synthesizes /\ model /\ HasPaths
    /\ Emits(FileMap(Module.module_id, "model"))

SynthesizerGivesUp ==
    /\ Synthesizes /\ model /\ HasPaths
    /\ Emits(StubFallback(Module))

\* The call itself fails, for a caller that does not catch it.
SynthesizerRaises ==
    /\ Synthesizes /\ model /\ HasPaths
    /\ Raised

\* The graph's modules have no such attribute; node_synthesize catches that and
\* writes a stub.
LosesModule ==
    /\ Synthesizes /\ model /\ ~HasPaths
    /\ Emits(FileMap(Module.module_id, "failed"))

NodeSynthesizeAlone ==
    /\ Synthesizes /\ ~model
    /\ Emits(FileMap(Module.module_id, "stub"))

Finish ==
    /\ at = "synthesize"
    /\ Len(outputs) = Len(plan)
    /\ at' = "done"
    /\ UNCHANGED <<caller, model, entities, plan, outputs>>

-----------------------------------------------------------------------------
PlanningNext ==
    \/ \E modules \in PlanAnswers : PlannerAnswers(modules)
    \/ PlannerGivesUp \/ PlannerRaises \/ NodePlanAlone
    \/ \E id \in NamedIds : SynthesizerAnswers(id)
    \/ SynthesizerGivesUp \/ SynthesizerRaises \/ LosesModule
    \/ NodeSynthesizeAlone \/ Finish

PlanningSpec == PlanningInit /\ [][PlanningNext]_planningVars

\* The calls to a model return or fail, and both loops run on.
FairPlanningSpec == PlanningSpec /\ WF_planningVars(PlanningNext)

-----------------------------------------------------------------------------
(* Properties.                                                             *)

\* The modules can be built in some order: no set of them waits for modules of
\* that set only, or for a module that is not among them.
Buildable(modules) ==
    \A waiting \in SUBSET (DOMAIN modules) :
        waiting # {} =>
            \E i \in waiting :
                \A dep \in modules[i].dependencies :
                    \E j \in DOMAIN modules \ waiting :
                        modules[j].module_id = dep

\* Whatever the model answered and whoever planned, the plan can be built.
\* _validate_dag and both fallbacks.
PlanIsBuildable == Buildable(plan)

\* Planning and synthesizing end, and leave one file map for each module, in the
\* order of the plan and under the module's own id, unless an error of the model
\* reached a caller that does not catch it.
EveryModuleGetsItsFileMap ==
    <>(\/ at = "raised" /\ caller = "agents"
       \/ /\ at = "done"
          /\ [i \in DOMAIN outputs |-> outputs[i].module_id] =
             [i \in DOMAIN plan |-> plan[i].module_id])
=============================================================================
