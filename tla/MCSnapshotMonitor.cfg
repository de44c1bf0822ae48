SPECIFICATION Spec
CONSTANTS
    CustomSchemes = 1
    Targets = 2
    MaxCalls = 5
    MaxFaults = 2
    MaxExits = 1
    MaxRogue = 1
    MaxPanics = 1
INVARIANTS
    
    InstalledIsTrue
    ReturnedSnapshots
PROPERTIES
    SnapshotsAreSettled
    CallsReturn
CHECK_DEADLOCK FALSE
