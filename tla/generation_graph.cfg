SPECIFICATION FairSpec
CONSTANTS
    pom = pom
    src = src
    MaxFix = 3
    Paths <- MCPaths
    ScaffoldPaths <- MCScaffold
    ProtectedPaths <- MCProtected
    StubPath = src
    OwnPath <- MCOwnPath
    MaxModules = 2
    GateVerdicts <- MCVerdicts
    EscalationApproved = FALSE
    RecursionLimit = 25
    MaxRuns = 2
INVARIANTS
    TypeOK
    RecursionLimitNeverHit
    DeliveredTreeWasJudged
    PlanIsCurrent
    EveryEmissionAccounted
PROPERTIES
    KeepsPromise
    EveryRunStops
CHECK_DEADLOCK FALSE
