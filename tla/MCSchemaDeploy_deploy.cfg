SPECIFICATION Spec
CONSTANTS
    None = None
    Columns <- MCColumns
    Indexes = {"i"}
    Links = {"l", "m"}
    Shapes <- MCShapes
    From <- MCFrom
    Parts <- MCParts
    Schemas <- MCSchemas
    Foreign = {"x"}
    Approvals <- MCApprovals
    Deployers = {d1, d2}
    Workers = {w1}
    ReadCount = 2
    MaxRetries = 1
    AppendAttempts = 2
    FaultKinds = {"error", "ddl", "redis", "crash", "owner", "verify"}
    MaxDeploys = 2
    MaxFaults = 1
INVARIANTS
    RecordIsBacked
    HistoryMirrorsRecord
    VersionsDiffer
    NoJobVanishes
PROPERTIES
    ForeignColumnsKept

SYMMETRY DeployersSymmetry
CHECK_DEADLOCK FALSE
