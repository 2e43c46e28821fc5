SPECIFICATION FairSpec
CONSTANTS
    Rows <- ThreeRows
    Topics <- MCTopics
    TopicOf <- ThreeTopicOf
    Tenants <- MCTenants
    TenantOf <- ThreeTenantOf
    Workers = {w1}
    MayOwn <- MCMayOwn
    BatchSize = 1
    MaxAttempts = 2
    MaxFaults = 2
INVARIANTS
    ForeignRowsUntouched
PROPERTIES
    EventuallySettled
