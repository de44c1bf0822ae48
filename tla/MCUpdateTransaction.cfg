CONSTANTS
    N = 2
    Absent = Absent
    Fresh = 0
    Gone = 9
    Values = {0, 1, 2, 3, 4, 5, 9}
    Leaves <- MCLeaves
    Dir <- MCDir
    Typed <- MCTyped
    Tuned <- MCTuned
    Counts <- MCCounts
    Under <- MCUnder
    Made <- MCMade
    Goals <- MCGoals
    InitialLeaves <- MCInitialLeaves
    InitialThreads <- MCThreads
    Requests <- MCRequests
    RogueWritable <- MCRogueWritable
    TunedValues = {4}
    Misstored = {5}
    MaxPid = 4
    MaxCalls = 1
    MaxRogue = 2
    MaxFaults = 1
    MaxExits = 1
    MaxTunes = 1

SPECIFICATION Spec
CHECK_DEADLOCK FALSE

PROPERTIES
    UpdateAtomic
    OkReachedOwnThreads
    WritesOnlyRequested
    UpdateAdoptsOwn
