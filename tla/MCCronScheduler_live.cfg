SPECIFICATION FairSpec
CONSTANTS
    Workers = {w1, w2}
    Schedules = {k1}
    Specs = {1}
    NextAfter <- MCNextAfter
    OverlapAllow = {}
    None = None
    FaultKinds = {"crash", "session", "cancel", "error"}
    MaxTime = 2
    MaxFaults = 1
INVARIANTS
    OwnRunsNeverOverlap
PROPERTIES
    DueIsHandled
