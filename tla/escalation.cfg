SPECIFICATION Spec
CONSTANTS
    j1 = j1
    j2 = j2
    j3 = j3
    b1 = b1
    alice = alice
    bob = bob
    Jobs <- MCJobs
    Tenants <- MCTenants
    Fingerprints = {"semgrep", "semgrep near"}
    TenantOf <- MCTenantOf
    ProblemOf <- MCProblemOf
    Similar <- MCSimilar
    Enabled <- MCEnabled
    Consenting <- MCConsenting
    Clean <- MCClean
    Estimate = 2
    Budget <- MCBudget
    PromoteAt = 2
    MaxFixIterations = 1
    MaxAttempts = 1
INVARIANTS TypeOK CallsAreLicensed OverdraftBounded
PROPERTIES SharesAsPromised
CHECK_DEADLOCK FALSE
