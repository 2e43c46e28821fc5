SPECIFICATION Spec
CONSTANTS
    Clients = {c1, c2, c3}
    Ids = {i1, i2, i3}
    Contents = {s1, s2}
    None = None
    MaxFaults = 1
INVARIANTS
    RowsHaveBlobs
    BlobsHaveRows
    NothingLeftBehind

SYMMETRY ClientsSymmetry
CHECK_DEADLOCK FALSE
