SPECIFICATION FairSpec
CONSTANTS
    ObjectKeys <- MCObjectKeys
    Tenants <- MCTenants
    TenantOf <- MCTenantOf
    NoTenant = "none"
    Texts <- MCTexts
    ChunkSize = 4
    ChunkOverlap = 1
    MinWords = 2
    MaxPuts = 3
    MaxFaults = 2
INVARIANTS TypeOK RowsAreComplete LeftoversAreTorn
PROPERTIES IngestedOnce EveryDocumentIsIngested
CHECK_DEADLOCK FALSE
