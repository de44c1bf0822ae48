------------------------- MODULE MCManagedHierarchy -------------------------
(* Small instances of ManagedHierarchy for TLC. *)
EXTENDS ManagedHierarchy

CONSTANTS Old, Want, Foreign

MCTarget == [i \in K |-> Want]

\* Empty, one stopped kdamond, N kdamonds, and the requested hierarchy.
MCInitial ==
    { [i \in K |-> Absent],
      [i \in K |-> IF i = 0 THEN Old ELSE Absent],
      [i \in K |-> IF i = 0 THEN Want ELSE Old],
      [i \in K |-> Want] }
=============================================================================
