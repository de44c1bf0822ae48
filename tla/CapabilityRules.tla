---------------------------- MODULE CapabilityRules ----------------------------
(***************************************************************************)
(* Passive discovery (Kdamond::capabilities_for_schemes): what the paths   *)
(* of a staged kdamond say about the features of the kernel.               *)
(*                                                                         *)
(* A kernel is the set of paths it can show.  A path below an indexed      *)
(* child exists only while its parent's count is not zero, so that absence *)
(* may mean "not staged" as well as "not known to this kernel".            *)
(***************************************************************************)
EXTENDS Integers

Unsupported == 0        \* numbered by capability_support_rank
RequiresStaging == 1
Unverified == 2
Supported == 3
Support == Unsupported .. Supported

\* The count a path depends on: a target, or a numbered child of another path.
Below == [refresh |-> "kdamond", avail |-> "kdamond", action |-> "scheme",
          regions |-> "target",
          filters |-> "scheme", filters_type |-> "filters", filters_allow |-> "filters",
          core |-> "scheme", core_type |-> "core",
          ops |-> "scheme", ops_type |-> "ops", ops_allow |-> "ops",
          goals |-> "scheme", metric |-> "goals", nid |-> "goals", path |-> "goals",
          tried_regions |-> "scheme", probes |-> "kdamond", weight |-> "probes",
          pfilters |-> "probes", pfilter |-> "pfilters", pfilters_type |-> "pfilters",
          preps |-> "probes", prep_action |-> "preps"]
Paths == DOMAIN Below
Counts == {"target", "filters", "core", "ops", "goals", "probes", "pfilters", "preps"}
AlwaysThere == {"kdamond", "scheme"}

\* tree.has is the kernel, tree.count what is staged in one of its schemes.
\* Parents nest at most twice.
Exists(tree, p) ==
    LET Parent(q) == Below[q] \notin AlwaysThere => tree.count[Below[q]] > 0
        Shown(q) == q \in tree.has /\ Parent(q)
    IN  /\ Shown(p)
        /\ Below[p] \in Paths =>
            /\ Shown(Below[p])
            /\ Below[Below[p]] \in Paths => Shown(Below[Below[p]])

-----------------------------------------------------------------------------
(* The support of one feature *)

support_for_path(tree, p) == IF Exists(tree, p) THEN Supported ELSE Unsupported

unverified_value_support(support) == IF support = Supported THEN Unverified ELSE support

combine_support(semantic, structural) ==
    IF semantic < structural THEN semantic ELSE structural

\* Mutant: a child that is not staged is taken for missing.
indexed_child_supportMutant(tree, p) ==
    IF Exists(tree, p) /\ tree.count[p] > 0 THEN Supported ELSE Unsupported

indexed_child_support(tree, p) ==
    IF ~Exists(tree, p) THEN Unsupported
    ELSE IF tree.count[p] = 0 THEN RequiresStaging ELSE Supported

child_attribute_support(tree, child, p) ==
    IF child = Supported THEN support_for_path(tree, p) ELSE child

\* The three filter directories; the type of a staged filter is a value to try.
\* Mutant: the first directory there is decides.
FilterDirectories == [filters |-> "filters_type", core |-> "core_type", ops |-> "ops_type"]
filter_value_supportMutant(tree) ==
    LET here == {d \in DOMAIN FilterDirectories : Exists(tree, d)} IN
    IF "filters" \in here
    THEN IF tree.count["filters"] > 0 THEN Unverified ELSE RequiresStaging
    ELSE IF here # {} THEN RequiresStaging ELSE Unsupported

filter_value_support(tree) ==
    LET here == {d \in DOMAIN FilterDirectories : Exists(tree, d)} IN
    IF \E d \in here : tree.count[d] > 0 /\ Exists(tree, FilterDirectories[d]) THEN Unverified
    ELSE IF \E d \in here : tree.count[d] = 0 THEN RequiresStaging ELSE Unsupported

indexed_attribute_support(tree, attributes) ==
    IF \E p \in attributes : Exists(tree, p) THEN Supported
    ELSE IF \E p \in attributes : Exists(tree, Below[p]) /\ tree.count[Below[p]] = 0
         THEN RequiresStaging ELSE Unsupported

target_support(tree) ==
    IF tree.count["target"] = 0 THEN RequiresStaging ELSE support_for_path(tree, "regions")

-----------------------------------------------------------------------------
(* The features: paths that speak for themselves, and the nested ones.     *)
(* Features with the same rule stand for all that have it.                 *)

context_semantic_capabilities(tree) ==
    [PeriodicRefresh |-> support_for_path(tree, "refresh"),
     AvailableOperations |-> support_for_path(tree, "avail")]

scheme_semantic_capabilities(tree) ==
    [SchemeFilters |-> support_for_path(tree, "filters"),
     SeparateSchemeFilterDirectories |-> support_for_path(tree, "core"),
     TriedRegions |-> support_for_path(tree, "tried_regions")]

scheme_filter_capabilities(tree) ==
    [SchemeFilterType |-> filter_value_support(tree),
     SchemeFilterAllow |-> indexed_attribute_support(tree, {"ops_allow", "filters_allow"})]

quota_goal_capabilities(tree) ==
    LET goal == indexed_child_support(tree, "goals")
        metric == child_attribute_support(tree, goal, "metric")
        semantic == unverified_value_support(metric)
    IN [SchemeQuotaGoalMetric |-> metric,
        SchemeQuotaGoalSomePsi |-> semantic,
        SchemeQuotaGoalNodeMemory |->
            combine_support(semantic, child_attribute_support(tree, goal, "nid")),
        SchemeQuotaGoalNodeMemoryControlGroup |->
            combine_support(semantic, child_attribute_support(tree, goal, "path")),
        CollapseAction |-> unverified_value_support(support_for_path(tree, "action"))]

probe_capabilities(tree) ==
    LET probe == indexed_child_support(tree, "probes")
        filter == IF probe = Supported THEN indexed_child_support(tree, "pfilters") ELSE probe
        prep == child_attribute_support(tree, probe, "preps")
        child == IF prep = Supported THEN indexed_child_support(tree, "preps") ELSE prep
        count == IF probe = Supported THEN support_for_path(tree, "pfilters") ELSE probe
    IN [ProbeWeight |-> child_attribute_support(tree, probe, "weight"),
        ProbeTypeAnonymous |-> unverified_value_support(filter),
        ProbePreparations |-> prep,
        ProbePreparationSetPageIdle |->
            unverified_value_support(child_attribute_support(tree, child, "prep_action")),
        ProbeFilterCount |-> count,
        ProbeFilterType |->
            child_attribute_support(tree, IF count # Supported THEN count
                ELSE IF tree.count["pfilters"] = 0 THEN RequiresStaging ELSE Supported,
                "pfilters_type")]

\* BTreeMap::extend
extend(f, g) == [x \in DOMAIN f \cup DOMAIN g |-> IF x \in DOMAIN g THEN g[x] ELSE f[x]]
scheme_capabilities(tree) ==
    extend(extend(scheme_semantic_capabilities(tree), scheme_filter_capabilities(tree)),
           quota_goal_capabilities(tree))
all_capabilities(tree) ==
    extend(extend(extend(context_semantic_capabilities(tree), scheme_capabilities(tree)),
                  probe_capabilities(tree)),
           [InitialRegions |-> target_support(tree)])

\* What a feature takes: one of several sets of paths.
Needs == [PeriodicRefresh |-> {{"refresh"}}, AvailableOperations |-> {{"avail"}},
          InitialRegions |-> {{"regions"}},
          SchemeFilters |-> {{"filters"}}, SeparateSchemeFilterDirectories |-> {{"core"}},
          TriedRegions |-> {{"tried_regions"}},
          SchemeFilterType |-> {{"filters", "filters_type"}, {"core", "core_type"}, {"ops", "ops_type"}},
          SchemeFilterAllow |-> {{"filters", "filters_allow"}, {"ops", "ops_allow"}},
          SchemeQuotaGoalMetric |-> {{"goals", "metric"}},
          SchemeQuotaGoalSomePsi |-> {{"goals", "metric"}},
          SchemeQuotaGoalNodeMemory |-> {{"goals", "metric", "nid"}},
          SchemeQuotaGoalNodeMemoryControlGroup |-> {{"goals", "metric", "path"}},
          CollapseAction |-> {{"action"}},
          ProbeWeight |-> {{"probes", "weight"}}, ProbeFilterCount |-> {{"probes", "pfilters"}},
          ProbeTypeAnonymous |-> {{"probes", "pfilters", "pfilter"}},
          ProbeFilterType |-> {{"probes", "pfilters", "pfilters_type"}},
          ProbePreparations |-> {{"probes", "preps"}},
          ProbePreparationSetPageIdle |-> {{"probes", "preps", "prep_action"}}]
Features == DOMAIN Needs
Has(has, feature) == \E paths \in Needs[feature] : paths \subseteq has

=============================================================================
