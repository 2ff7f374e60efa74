SPECIFICATION Spec
CONSTANTS
    creator = creator
    a1 = a1
    a2 = a2
    c1 = c1
    Creator = creator
    Answers <- MCAnswers
    Clients <- MCClients
    NEvents = 2
    Outcomes <- MCOutcomes
    MaxHandouts = 2
INVARIANTS
    OneTaskPerJob
CHECK_DEADLOCK FALSE
