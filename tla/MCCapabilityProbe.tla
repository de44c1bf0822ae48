--------------------------- MODULE MCCapabilityProbe ---------------------------
(* Kernels with all paths, with one filter directory and no list of            *)
(* operations, and with none of the optional children.                        *)
EXTENDS CapabilityProbe

Newest == Paths
Older == {"action", "regions", "filters", "filters_type", "goals", "metric", "probes", "weight"}
Oldest == {"action"}
MCKernels == {Newest, Older, Oldest}

MCJobs == <<
    [paths |-> <<"filters_type", "ops_type">>, values |-> <<"anon", "target">>, how |-> "reset"],
    [paths |-> <<"pfilters_type">>, values |-> <<"pgidle_set">>, how |-> "reset"],
    [paths |-> <<"metric">>, values |-> <<"psi">>, how |-> "preserve"],
    [paths |-> <<"operations">>, values |-> <<"vaddr">>, how |-> "operation"]>>

=============================================================================
