SPECIFICATION FairSpec
CONSTANTS
    Slots = {1, 2, 3}
    Callers = {c1, c2}
    Main = main
    BaseBackoff = 1
    CapBackoff = 2
    Width = 4
    MaxCrashes = 2
    MaxCommands = 2
    MaxFaults = 1
INVARIANTS
    KnowsItsProcess
    ShutdownLeavesNothing
PROPERTIES
    StoppedStaysDown
    CrashedComesBack

CHECK_DEADLOCK FALSE
