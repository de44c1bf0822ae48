--------------------------- MODULE MCSnapshotMonitor ---------------------------
(* A monitor with one scheme of its own and two targets, on every kernel. *)
EXTENDS SnapshotMonitor

=============================================================================
