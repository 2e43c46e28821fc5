SPECIFICATION FairSpec
CONSTANTS
    None = None
    Tenants = {t1}
    Keys = {k1}
    Roles = {r1}
    Requests = {p1, p2}
    Writers = {w1}
    WriteKinds = {"create", "update"}
    Cap = 1
    MaxVersion = 1
    MaxReloads = 1
PROPERTIES
    SelfHeals
    EveryGetAnswered
