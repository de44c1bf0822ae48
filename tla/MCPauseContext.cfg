CONSTANTS
    N = 2
    Absent = Absent
    Fresh = 0
    Gone = 9
    Yes = 2
    No = 1
    Values = {0, 1, 2, 3, 4, 5, 9}
    Leaves <- MCLeaves
    Dir <- MCDir
    Typed = {1, 2, 3, 4, 6}
    Tuned = {4}
    Counts = {1}
    Under <- MCUnder
    Made <- MCMade
    Pauses = {2}
    InitialLeaf <- MCLeaf
    InitialThread <- MCThread
    RogueWritable <- MCRogueWritable
    TunedValues = {4}
    MaxPid = 4
    MaxCalls = 2
    MaxRogue = 2
    MaxFaults = 2
    MaxExits = 1
    MaxTunes = 1

SPECIFICATION Spec
CHECK_DEADLOCK FALSE

PROPERTIES
    PauseAtomic
    OkReachedOwnThread
    OkRunsWhatIsOwned
