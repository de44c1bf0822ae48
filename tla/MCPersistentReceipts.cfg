CONSTANTS
    Controllers = {c1, c2}
    Nobody = Nobody
    N = 2
    Configs = {A, B}
    Tuned = {B}
    Original = Original
    Foreign = Foreign
    MaxPid = 4
    MaxCalls = 3
    MaxBoots = 2
    MaxCrashes = 1
    MaxOutside = 1
    MaxFaults = 1

SYMMETRY MCSymmetry
SPECIFICATION Spec
CHECK_DEADLOCK FALSE

INVARIANTS
    OrphanReported
PROPERTIES
    ThreadsEndByRight
    ReadTrue
    ImplementsLifecycle
