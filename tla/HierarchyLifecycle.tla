-------------------------- MODULE HierarchyLifecycle --------------------------
(***************************************************************************)
(* What persistent operations promise: to everyone who respects the lock a *)
(* hierarchy starts as a whole, is updated as a whole and is stopped, each *)
(* in one step; a call that fails changes nothing, or says that nothing is *)
(* known any more.                                                         *)
(***************************************************************************)
CONSTANTS
    Kdamonds,   \* the kdamonds of a hierarchy
    Configs,    \* the configurations it may have
    Original    \* what a booting kernel has

VARIABLES
    running,    \* the kdamonds that run
    conf,       \* the configuration
    known       \* nobody interfered since the machine booted

vars == <<running, conf, known>>

Init == running = {} /\ conf = Original /\ known = TRUE

Start ==
    /\ known /\ running = {}
    /\ running' = Kdamonds
    /\ conf' \in Configs
    /\ UNCHANGED known

Update ==
    /\ known /\ running # {}
    /\ conf' \in Configs
    /\ UNCHANGED <<running, known>>

\* A stop that fails for one kdamond still stops the others.
Stop ==
    /\ known
    /\ running' \in SUBSET running
    /\ UNCHANGED <<conf, known>>

Disturb == known' = FALSE /\ running' = {} /\ conf' = Original

Reboot == running' = {} /\ conf' = Original /\ known' = TRUE

Next == Start \/ Update \/ Stop \/ Disturb \/ Reboot

Spec == Init /\ [][Next]_vars
=============================================================================
