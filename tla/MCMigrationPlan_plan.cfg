SPECIFICATION Spec
CONSTANTS
    Documents <- MCDocuments
    EngineTables = {"files"}
    Foreign = {"x"}
    ForeignTable = "z"
    None = None
    MaxDeploys = 3
    MaxFaults = 1
INVARIANTS
    TypeOK
    
    LostByConsent
    RenameMoves
    Converges
    RelationStaysGuarded
CHECK_DEADLOCK FALSE
