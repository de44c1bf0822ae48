------------------------- MODULE MCPersistentReceipts -------------------------
(* A small instance of PersistentReceipts for TLC. *)
EXTENDS PersistentReceipts, TLC

MCSymmetry == Permutations(Controllers)
=============================================================================
