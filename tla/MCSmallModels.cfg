SPECIFICATION Spec
CHECK_DEADLOCK FALSE

CONSTANTS
    MaxU32 = 15
    MaxU8 = 3
    BasisPoints = 10
    PerThousand = 10
    Baselines <- MCBaselines
    Choices <- MCChoices
    MaxEdits = 3
    MaxWord = 11
    PageSize = 4
    Units <- MCUnits
    MaxRegions = 2
    ScannedKernels <- MCScannedKernels
    MaxSchemes = 2

INVARIANTS
    UpdatesStayRunnable
    SumsFitTheKernel
    StagingKeepsMeaning
    RegionsStayApart
    ReceiptsDecode
    ScanTellsTheKernel
    SnapshotsAddUp
PROPERTIES
    MarkersRemoveTheNamed
