------------------------------ MODULE ScanPart ------------------------------
(***************************************************************************)
(* CapabilitySupport beside other models: its constants and variables      *)
(* here, its definitions under Scan, and what is promised of it.           *)
(***************************************************************************)
EXTENDS Integers, Sequences

CONSTANTS ScannedKernels, MaxSchemes    \* sets of paths; bound

\* A filter of a probe appears with the count of such filters.
ASSUME ScannedAssumption ==
    /\ \A k \in ScannedKernels : "pfilters" \in k => "pfilter" \in k
    /\ MaxSchemes \in Nat

\* What the kernel shows, what is staged, how far the scan has come and what it tells.
VARIABLES shown, schemes, read, told

Scan == INSTANCE CapabilitySupport
            WITH Kernels <- ScannedKernels, has <- shown, features <- told

\* What discovery says of a feature is what the staged hierarchy can tell
\* (capabilities_for_schemes, merge_feature_capabilities).
ScanTellsTheKernel == Scan!ScanTellsTheKernel

=============================================================================
