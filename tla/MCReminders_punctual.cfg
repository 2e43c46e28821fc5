SPECIFICATION Spec
CONSTANTS
    Rows = {1, 2, 3}
    Fields = {1, 2}
    Sweepers = {w1}
    None = None
    Before = FALSE
    Offset = 1
    Grace = 2
    Retention = 4
    PageSize = 2
    MaxPages = 2
    SweepBound = 2
    Punctual = TRUE
    FaultKinds = {"crash", "error"}
    MaxTime = 6
    MaxFaults = 2
INVARIANTS
    NoReminderMissed
