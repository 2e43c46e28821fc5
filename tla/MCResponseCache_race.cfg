SPECIFICATION Spec
CONSTANTS
    None = None
    Tenants = {t1}
    Keys = {k1}
    Roles = {r1}
    Requests = {p1, p2, p3}
    Writers = {w1, w2}
    WriteKinds = {"update"}
    Cap = 1
    MaxVersion = 2
    MaxReloads = 0
SYMMETRY Symmetry
INVARIANTS
    WaitersHaveLeader
    StoredIsCurrent
    FreshUnlessShared

