----------------------------- MODULE RegionsPart -----------------------------
(***************************************************************************)
(* InitialRegions beside other models: its constants and variables here,   *)
(* its definitions under Initial, and what is promised of it.              *)
(***************************************************************************)
EXTENDS Integers, Sequences

CONSTANTS MaxWord, PageSize, Units, MaxRegions

\* AddressUnit::new refuses zero.
ASSUME SizesAssumption ==
    MaxWord \in Nat /\ PageSize \in Nat \ {0} /\ Units \subseteq Nat \ {0}

VARIABLES operation, unit, regions, asked, aligned

Initial == INSTANCE InitialRegions WITH kernel <- aligned

\* Initial regions cover the bytes they were made for, and stay apart when the
\* kernel aligns them (validate_kernel_aligned_initial_regions).
RegionsStayApart == Initial!RegionsStayApart

=============================================================================
