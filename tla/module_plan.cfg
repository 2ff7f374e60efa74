\* Planner and synthesizer, called by the graph and on their own.
SPECIFICATION FairPlanningSpec
CONSTANTS
    EntityLists <- MCEntityLists
    Core = "Core"
    Base <- MCBase
    PlanAnswers <- MCPlanAnswers
    NamedIds <- MCNamedIds
INVARIANTS PlanIsBuildable
PROPERTIES EveryModuleGetsItsFileMap
\* A finished run stops.
CHECK_DEADLOCK FALSE
