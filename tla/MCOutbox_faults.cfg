SPECIFICATION Spec
CONSTANTS
    Rows <- TwoRows
    Topics <- MCTopics
    TopicOf <- TwoTopicOf
    Tenants <- MCTenants
    TenantOf <- TwoTenantOf
    Workers = {w1, w2}
    MayOwn <- MCMayOwn
    BatchSize = 2
    MaxAttempts = 2
    MaxFaults = 1
SYMMETRY Symmetry
INVARIANTS
    TypeOK
    DisjointBatches
    SentWasDelivered
    RedeliveryNeedsRollback
    AttemptsBounded
PROPERTIES
    ImplementsEventQueue
