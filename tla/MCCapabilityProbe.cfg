SPECIFICATION Spec
CONSTANTS
    Kernels <- MCKernels
    Jobs <- MCJobs
    MaxFaults = 2
    MaxRogue = 2
INVARIANTS
    LeavesHierarchy
    ReportsKernel
CHECK_DEADLOCK FALSE
