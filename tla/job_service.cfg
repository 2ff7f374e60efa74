SPECIFICATION FairSpec
CONSTANTS
    creator = creator
    a1 = a1
    a2 = a2
    c1 = c1
    Creator = creator
    Answers <- MCAnswers
    Clients <- MCClients
    NEvents = 2
    Outcomes <- MCOutcomes
    MaxHandouts = 2
INVARIANTS
    TypeOK
    CompletedIsBacked
    CompleteStreamHasNoGap
    LiveRowHasOwner
PROPERTIES
    EveryJobSettles
CHECK_DEADLOCK FALSE
