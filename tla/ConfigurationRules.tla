-------------------------- MODULE ConfigurationRules --------------------------
(***************************************************************************)
(* What an owned configuration of one monitoring context must satisfy      *)
(* before it is staged, started, or committed to a running kdamond         *)
(* (DamonConfig::validate, validate_runnable, validate_running_update),    *)
(* over records with the fields of ContextConfig and one SchemeConfig.     *)
(* Regions are in InitialRegions; names, paths and durations are values    *)
(* that are or are not well formed, and are taken to be.                   *)
(***************************************************************************)
EXTENDS Integers, Sequences, SequencesExt, FiniteSetsExt

CONSTANTS
    U32,            \* u32::MAX, the kernel's unsigned int
    U8,             \* u8::MAX, a hit count
    BasisPoints,    \* 10_000
    PerThousand     \* 1_000

None == -2          \* an Option that is None; other negative numbers are nodes
Operations == {"vaddr", "fvaddr", "paddr", "unknown"}
Virtual == {"vaddr", "fvaddr"}

Sum(s) == FoldSeq(+, 0, s)

-----------------------------------------------------------------------------
(* DAMOS: SchemeConfig and what it is made of *)

VirtualActions == {"willneed", "cold", "pageout", "hugepage", "nohugepage", "collapse",
                   "migrate_hot", "migrate_cold", "stat", "unknown"}
PhysicalActions == {"pageout", "lru_prio", "lru_deprio", "migrate_hot", "migrate_cold",
                    "damos_alloc", "damos_free", "stat", "unknown"}
MigrationActions == {"migrate_hot", "migrate_cold"}

requires_node(metric) ==
    metric \in {"node_used", "node_free", "node_memcg_used", "node_memcg_free", "node_eligible"}

requires_cgroup_path(metric) == metric \in {"node_memcg_used", "node_memcg_free"}

uses_basis_points(metric) ==
    requires_node(metric) \/ metric \in {"active", "inactive", "hugepage"}

GoalAccepted(g) ==
    /\ g.target # 0 =>
        /\ uses_basis_points(g.metric) => g.target <= BasisPoints
        /\ requires_node(g.metric) => g.node # None
        /\ requires_cgroup_path(g.metric) => g.path # None
    /\ g.node # None => g.node >= 0

QuotaAccepted(q) ==
    /\ q.weight <= PerThousand
    /\ \A i \in DOMAIN q.goals : GoalAccepted(q.goals[i])
    /\ (q.time # 0 \/ q.size # 0 \/ \E i \in DOMAIN q.goals : q.goals[i].target # 0)
        => q.reset # 0

WatermarksAccepted(w) ==
    w.metric = "free_mem_rate" =>
        /\ w.interval # 0
        /\ w.high <= PerThousand
        /\ w.high >= w.middle /\ w.middle >= w.low

\* Mutant: the sum of the weights is not checked.
DestinationsAcceptedMutant(weights) == weights # <<>> => \E i \in DOMAIN weights : weights[i] # 0

DestinationsAccepted(weights) ==
    /\ Sum(weights) <= U32
    /\ weights # <<>> => Sum(weights) # 0

\* SchemeConfig::validate_for; a filter that is not a target filter has no index.
SchemeAccepted(s, targetCount) ==
    /\ QuotaAccepted(s.quota)
    /\ WatermarksAccepted(s.watermarks)
    /\ s.filter # None => s.filter < targetCount
    /\ DestinationsAccepted(s.destinations)
    /\ s.node # None => s.node >= 0

SchemeRunnable(s, operation, targetCount) ==
    /\ SchemeAccepted(s, targetCount)
    /\ operation \in Virtual => s.action \in VirtualActions
    /\ operation = "paddr" => s.action \in PhysicalActions
    /\ s.action \notin MigrationActions => s.node = None /\ s.destinations = <<>>
    /\ operation \in Virtual =>
        \A i \in DOMAIN s.quota.goals : s.quota.goals[i].metric # "node_eligible"

-----------------------------------------------------------------------------
(* ContextConfig *)

IntervalsGoalAccepted(goal, sample) ==
    goal.aggregations # 0 =>
        /\ goal.access <= BasisPoints
        /\ goal.min <= goal.max
        /\ goal.min <= sample /\ sample <= goal.max

validate(c) ==
    /\ c.sample <= c.aggregation                \* MonitoringIntervals::new
    /\ IntervalsGoalAccepted(c.goal, c.sample)
    /\ \A i \in DOMAIN c.schemes : SchemeAccepted(c.schemes[i], Len(c.targets))

\* Those that are not marked, in their order.
Retained(targets) ==
    LET kept == {i \in DOMAIN targets : ~targets[i].obsolete}
        Place(i) == Cardinality({j \in kept : j <= i})
    IN  [n \in 1 .. Cardinality(kept) |-> targets[CHOOSE i \in kept : Place(i) = n]]

AtLeastOne(n) == IF n < 1 THEN 1 ELSE n
AtMost(n, bound) == IF n > bound THEN bound ELSE n

MaximumHits(c) == AtMost(AtLeastOne(c.aggregation \div AtLeastOne(c.sample)), U32)

\* Mutant: each product is checked, and their sum is not.
WeightedProbesAcceptedMutant(c) ==
    (\E i \in DOMAIN c.probes : c.probes[i] # 0) =>
        /\ MaximumHits(c) <= U8
        /\ \A i \in DOMAIN c.probes : c.probes[i] * MaximumHits(c) <= U32

\* A probe is its weight. The running total is checked with every product in it.
WeightedProbesAccepted(c) ==
    (\E i \in DOMAIN c.probes : c.probes[i] # 0) =>
        /\ MaximumHits(c) <= U8
        /\ Sum(c.probes) * MaximumHits(c) <= U32

SampleControlRunnable(c) ==
    /\ c.page_table # c.page_fault
    /\ c.page_fault => c.operation \notin Virtual
    /\ c.sample_filters => c.page_fault

TargetsRunnable(c) ==
    LET retained == Retained(c.targets)
        All(P(_)) == \A i \in DOMAIN retained : P(retained[i])
    IN  /\ c.operation \in Virtual => All(LAMBDA t : t.pid # None)
        /\ c.operation = "fvaddr" => All(LAMBDA t : t.regions)
        /\ c.operation = "paddr" =>
            /\ Len(c.targets) = 1 /\ Len(retained) = 1
            /\ c.targets[1].pid = None /\ c.targets[1].regions

\* The count of targets the schemes of a running context may name.
\* Mutant: the targets that are on their way out are counted.
SchemeTargetsMutant(c) == Len(c.targets)

SchemeTargets(c) == Len(Retained(c.targets))

validate_runnable_for_lifecycle(c, allow_obsolete) ==
    /\ validate(c)
    /\ ~allow_obsolete => \A i \in DOMAIN c.targets : ~c.targets[i].obsolete
    /\ Retained(c.targets) # <<>>
    /\ WeightedProbesAccepted(c)
    /\ SampleControlRunnable(c)
    /\ TargetsRunnable(c)
    /\ \A i \in DOMAIN c.schemes : SchemeRunnable(c.schemes[i], c.operation, SchemeTargets(c))

validate_runnable(c) == validate_runnable_for_lifecycle(c, FALSE)
validate_running_update(c) == validate_runnable_for_lifecycle(c, TRUE)

\* Mutant: a marker is taken for any target that is there.
validate_obsolete_target_updatesMutant(previous, requested) ==
    \A i \in DOMAIN requested.targets :
        requested.targets[i].obsolete => i \in DOMAIN previous.targets

\* A marker must be on an existing target at the same index.
validate_obsolete_target_updates(previous, requested) ==
    \A i \in DOMAIN requested.targets :
        requested.targets[i].obsolete =>
            /\ i \in DOMAIN previous.targets
            /\ ~previous.targets[i].obsolete
            /\ [requested.targets[i] EXCEPT !.obsolete = FALSE] = previous.targets[i]

\* Mutant: the markers are left in.
without_obsolete_targetsMutant(c) == c

without_obsolete_targets(c) == [c EXCEPT !.targets = Retained(c.targets)]

=============================================================================
