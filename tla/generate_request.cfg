SPECIFICATION FairSpec
CONSTANTS
    g1 = g1
    g2 = g2
    g3 = g3
    d1 = d1
    h1 = h1
    h2 = h2
    Generators <- MCGenerators
    Drafters <- MCDrafters
    Hashes <- MCHashes
INVARIANTS
    TypeOK
    VersionsConsecutive
    RedundancyIsExplained
    AnsweredJobsHaveTasks
PROPERTIES
    EveryRequestEnds
CHECK_DEADLOCK FALSE
