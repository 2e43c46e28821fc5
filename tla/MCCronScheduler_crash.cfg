SPECIFICATION Spec
CONSTANTS
    Workers = {w1, w2}
    Schedules = {k1}
    Specs = {1, 2}
    NextAfter <- MCNextAfter
    OverlapAllow = {}
    None = None
    FaultKinds = {"crash", "error", "deploy"}
    MaxTime = 2
    MaxFaults = 2
SYMMETRY Symmetry
INVARIANTS
    TypeOK
    CatchUpOnce
    NoOverlap
