CONSTANTS
    N = 2
    MaxPid = 4
    MaxOps = 2
    MaxCalls = 1
    MaxRogue = 2
    MaxExits = 1
    MaxFaults = 1

SPECIFICATION Spec
CHECK_DEADLOCK FALSE

INVARIANTS
    FreshValues
    StrayReported
    ActsOnOwnFiles
PROPERTIES
    CallsEnd
