CONSTANTS
    N = 2
    MaxPid = 5
    Old = Old
    Want = Want
    Foreign = Foreign
    Default = Default
    Mixed = Mixed
    Absent = Absent
    Values = {Old, Want, Foreign, Default, Mixed}
    Runnable = {Old, Want, Foreign}
    AutoTuned = {1}
    Target <- MCTarget
    InitialHierarchies <- MCInitial
    RogueValues = {Want, Foreign}
    MaxCalls = 2
    MaxRogue = 2
    MaxFaults = 1
    MaxExits = 1

SPECIFICATION Spec

INVARIANTS
    TypeOK
    OwnThreadTracked
    FailedStartUndone
    ReleasedLeavesNoThread
    StopIsolation
    HierarchyGivenBack
PROPERTIES
    StopsOnlyItsOwn
    RestoresOnlyItsOwn
