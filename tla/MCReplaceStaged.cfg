CONSTANTS
    N = 1
    Absent = Absent
    Fresh = 0
    Gone = 9
    Values = {0, 1, 2, 3, 4, 5, 9}
    Leaves <- MCLeaves
    Dir <- MCDir
    Typed <- MCTyped
    Tuned = {}
    Counts = {1}
    Under <- MCUnder
    Made <- MCMade
    Requests <- MCRequests
    InitialLeaves <- MCInitial
    RogueWritable <- MCRogueWritable
    Misstored = {5}
    MaxPid = 1
    MaxCalls = 2
    MaxRogue = 2
    MaxFaults = 2

SPECIFICATION Spec
CHECK_DEADLOCK FALSE

PROPERTIES
    ReplaceAtomic
    OwnsWhatItStaged
