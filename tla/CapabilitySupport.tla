--------------------------- MODULE CapabilitySupport ---------------------------
(***************************************************************************)
(* Kdamond::capabilities_for_schemes: the first scheme is read with its    *)
(* context, the others are merged into the answer one by one.              *)
(***************************************************************************)
EXTENDS CapabilityRules, Sequences

CONSTANTS Kernels, MaxSchemes   \* sets of paths; bound

VARIABLES has, schemes, read, features

vars == <<has, schemes, read, features>>

\* What is staged: the context's own counts, and those of each scheme.
ContextCounts == {"target", "probes", "pfilters", "preps"}
Tree(i) == [has |-> has, count |-> schemes[i]]
Staged == {count \in [Counts -> 0 .. 1] : \A c \in Counts \cap Paths :
               count[c] > 0 => c \in has /\ (Below[c] \in Paths => count[Below[c]] > 0)}

Init ==
    /\ has \in Kernels
    /\ \E n \in 1 .. MaxSchemes : schemes \in [1 .. n -> Staged]
    /\ \A i \in DOMAIN schemes, c \in ContextCounts : schemes[i][c] = schemes[1][c]
    /\ read = 0 /\ features = [f \in Features |-> Unsupported]

First ==
    /\ read = 0
    /\ read' = 1 /\ features' = all_capabilities(Tree(1))
    /\ UNCHANGED <<has, schemes>>

\* Mutant: the last scheme decides.
mergeMutant(known, added) == [f \in DOMAIN known |-> IF f \in DOMAIN added THEN added[f] ELSE known[f]]

\* merge_feature_capabilities keeps the stronger evidence.
merge(known, added) ==
    [f \in DOMAIN known |->
        IF f \in DOMAIN added /\ added[f] > known[f] THEN added[f] ELSE known[f]]
Remaining ==
    /\ read \in 1 .. Len(schemes) - 1
    /\ read' = read + 1
    /\ features' = merge(features, scheme_capabilities(Tree(read')))
    /\ UNCHANGED <<has, schemes>>

Next == First \/ Remaining
Spec == Init /\ [][Next]_vars

-----------------------------------------------------------------------------
(* Properties *)

Known == read = Len(schemes)
StagedSomewhere(paths) ==
    \E i \in DOMAIN schemes : \A p \in paths : Exists(Tree(i), p)

\* "Unsupported" is said only of what the kernel does not have: a child that
\* is not staged is never taken for one the kernel cannot show.
AbsenceIsReal == Known => \A f \in Features : features[f] = Unsupported => ~Has(has, f)

\* "Supported" and "Unverified" are said only of what some scheme shows.
EvidenceIsReal ==
    Known => \A f \in Features :
        features[f] > RequiresStaging => \E paths \in Needs[f] : StagedSomewhere(paths)

\* "Requires staging" is said only while something the feature takes is hidden.
StagingWouldTell ==
    Known => \A f \in Features :
        features[f] = RequiresStaging =>
            /\ ~\E paths \in Needs[f] : StagedSomewhere(paths)
            /\ \E paths \in Needs[f] : \E p \in paths :
                  \E i \in DOMAIN schemes : Below[p] \in Counts /\ schemes[i][Below[p]] = 0

\* What discovery says of a feature is what the staged hierarchy can tell.
ScanTellsTheKernel == AbsenceIsReal /\ EvidenceIsReal /\ StagingWouldTell

=============================================================================
