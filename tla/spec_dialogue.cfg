SPECIFICATION FairSpec
CONSTANTS
    u1 = u1
    u2 = u2
    Users <- MCUsers
    Paths <- MCPaths
    Dotted <- MCDotted
    Values <- MCValues
    Default <- MCDefault
    Junk <- MCJunk
    Options <- MCOptions
    Rules <- MCRules
    Bindings <- MCBindings
    EntityPath = "entities"
    EndpointPath = "endpoints"
    Vertical = "ecommerce"
    Messages <- MCMessages
    HasRetrieval = TRUE
    Proposals <- MCProposals
    Required = {"entities"}
    MaxAttempts = 2
    MaxVersion = 3
    MaxDecisions = 2
INVARIANTS LastWriterWins SheetIsTrue OutcomeIsOfItsTurn
PROPERTIES LockedForGood TurnsEnd
CHECK_DEADLOCK FALSE
