SPECIFICATION Spec
CONSTANTS
    t1 = t1
    t2 = t2
    anyone = anyone
    k1 = k1
    k2 = k2
    Tenants <- MCTenants
    Anyone = anyone
    Keys <- MCKeys
    TTLs <- MCTTLs
    PromoteAt = 3
    MaxEntries = 2
    MaxHits = 4
    MaxTime = 3
PROPERTIES SharesAsPromised HitsAreCurrent
CHECK_DEADLOCK FALSE
