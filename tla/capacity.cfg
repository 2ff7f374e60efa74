SPECIFICATION FairSpec
CONSTANTS
    j1 = j1
    j2 = j2
    j3 = j3
    t1 = t1
    t2 = t2
    a1 = a1
    a2 = a2
    a3 = a3
    r1 = r1
    r2 = r2
    Jobs <- MCJobs
    Tenants <- MCTenants
    TenantOf <- MCTenantOf
    Acquires <- MCAcquires
    Releases <- MCReleases
    JobOf <- MCJobOf
    Limit = 1
INVARIANTS
    TypeOK
    LimitHolds
    ListAccountsForCalls
PROPERTIES
    EveryCallEnds
CHECK_DEADLOCK FALSE
