--------------------------- MODULE MCRuntimeBatches ---------------------------
(* A small instance of RuntimeBatches for TLC. *)
EXTENDS RuntimeBatches
=============================================================================
