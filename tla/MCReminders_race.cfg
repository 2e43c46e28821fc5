SPECIFICATION Spec
CONSTANTS
    Rows = {1}
    Fields = {2, 3}
    Sweepers = {w1, w2}
    None = None
    Before = TRUE
    Offset = 1
    Grace = 1
    Retention = 2
    PageSize = 1
    MaxPages = 1
    SweepBound = 1
    Punctual = FALSE
    FaultKinds = {"crash", "error", "write"}
    MaxTime = 5
    MaxFaults = 2
SYMMETRY Symmetry
INVARIANTS
    TypeOK
    EnqueuedOnce
PROPERTIES
    FiredInTime
