------------------------- MODULE CapabilityProbeProofs -------------------------
(***************************************************************************)
(* Theorems of CapabilityProbe, for every kernel, every list of trials and *)
(* every bound.                                                            *)
(*                                                                         *)
(* The children are staged parents first, so that at the end a path is     *)
(* there exactly when the kernel has it and what it is below (StageInv),   *)
(* and no rule finds a child unstaged.  A trial leaves values at the paths *)
(* of its own job only (TrialInv).  Whatever was asked so far is answered  *)
(* by what is known so far (VerdictInv).  These three hold of a probe no   *)
(* other controller disturbs.  One that does can still make no path and no *)
(* value that the kernel does not know (SoundInv).                         *)
(***************************************************************************)
EXTENDS CapabilityProbe, ScanPart, TLAPS

Position == [target |-> 1, goals |-> 2, core |-> 3, ops |-> 4, filters |-> 5, probes |-> 6,
             pfilters |-> 7, preps |-> 8]

\* The children a kernel can have.
Stageable(c) ==
    c = "target" \/ (c \in has /\ (c \in {"pfilters", "preps"} => "probes" \in has))
Full(c) == IF Stageable(c) THEN 1 ELSE 0

AskPhase == {"job", "try", "read_back", "reset"}
JobPhase == {"try", "read_back", "reset", "reset_failed"}
TrialPhase == AskPhase \cup JobPhase
JobPathsOf(j) == {Jobs[j].paths[i] : i \in DOMAIN Jobs[j].paths}
Contents == AllValues \cup {"default"} \cup Foreign

Types ==
    /\ has \in Kernels
    /\ step \in Nat \ {0} /\ trial \in [value : Nat \ {0}, path : Nat \ {0}]
    /\ count \in [Counts -> {0, 1}] /\ tested \in [AllValues -> Support]
    /\ value \in [ValuePaths -> Contents] /\ original \in Contents

\* How far the program is.
StepInv ==
    /\ pc = "stage" => step <= 9
    /\ pc = "job" => step <= Len(Jobs) + 1
    /\ pc \in JobPhase => step \in DOMAIN Jobs
    /\ pc = "read_back" => trial.value \in DOMAIN Job.values /\ trial.path \in DOMAIN Job.paths

\* Another controller's change after the capture is still to be seen.
ForeignInv ==
    /\ pc \notin {"check", "lost", "unrestored"} => intruder # "captured"
    /\ pc = "check" /\ intruder # "captured" => fingerprint = <<whole, count, value>>
    /\ intruder = "captured" =>
            on \/ (whole \in Foreign /\ (pc = "check" => fingerprint[1] # whole))

BackInv ==
    pc \in {"open", "ok", "failed"} /\ intruder = "never" => whole = "previous" /\ value = Defaults

\* Children the kernel made: each in its parent, and in no kernel without them.
Honest(t) ==
    /\ "pfilters" \in t.has => "pfilter" \in t.has
    /\ \A c \in Counts : t.count[c] \in {0, 1}
    /\ \A c \in Counts \cap Paths : t.count[c] = 1 => c \in t.has
    /\ t.count["pfilters"] = 1 \/ t.count["preps"] = 1 => t.count["probes"] = 1

\* Whoever writes: only what the kernel took is there, or is called supported.
Taken(p, v) == p \in ValuePaths /\ <<p, v, "taken">> \in verdicts
ValuesSound == \A p \in ValuePaths : value[p] \in AllValues => Taken(p, value[p])
OriginalSound ==
    pc \in JobPhase /\ Job.how # "reset" /\ original \in AllValues => Taken(Job.paths[1], original)
TestedSound ==
    \A v \in AllValues : tested[v] # Unsupported =>
        (v \in OperationNames /\ "avail" \in has) \/ \E p : Taken(p, v)
SoundInv == Honest(Tree) /\ ValuesSound /\ OriginalSound /\ TestedSound

\* What is staged.
StageInv ==
    Undisturbed =>
        /\ pc = "stage" => \A c \in Counts : count[c] = IF Position[c] < step THEN Full(c) ELSE 0
        /\ pc \in TrialPhase \cup {"check"} => \A c \in Counts : count[c] = Full(c)

\* Which values may not have their default.
TrialInv ==
    Undisturbed =>
        /\ pc \in {"stage", "job", "check"} => value = Defaults
        /\ pc \in JobPhase =>
                /\ \A p \in ValuePaths : value[p] # "default" => p \in JobPathsOf(step) /\ There(p)
                /\ Job.how # "reset" => original = "default"

\* The question whether the kth value of job j is taken at its ith path was asked.
Asked(j, k, i) ==
    \/ j < step
    \/ /\ j = step /\ pc # "job"
       /\ pc = "reset" \/ k < trial.value \/ (k = trial.value /\ i < trial.path)

\* The value just written is still to be read back.
Pending(p, v) == pc = "read_back" /\ p = Path /\ v = Candidate /\ value[p] = v

KnownInv ==
    \A p, v, w : <<p, v, w>> \in verdicts =>
        v \in AllValues /\ There(p) /\ (w = "taken" => tested[v] # Unsupported \/ Pending(p, v))
AskedInv ==
    \A j \in DOMAIN Jobs : \A k \in DOMAIN Jobs[j].values, i \in DOMAIN Jobs[j].paths :
        LET v == Jobs[j].values[k]
            p == Jobs[j].paths[i]
        IN  Asked(j, k, i) /\ tested[v] = Unsupported /\ There(p) =>
                <<p, v, "ignored">> \in verdicts \/ <<p, v, "refused">> \in verdicts
VerdictInv ==
    /\ pc \in {"open", "reconstruct"} => verdicts = {}
    /\ Undisturbed =>
        /\ pc = "stage" => verdicts = {}
        /\ pc \in AskPhase => KnownInv /\ AskedInv
        /\ pc = "read_back" /\ value[Path] # Candidate => <<Path, Candidate, "ignored">> \in verdicts

Inv == /\ Types /\ StepInv /\ ForeignInv /\ BackInv /\ SoundInv
       /\ StageInv /\ TrialInv /\ VerdictInv /\ NothingInvented /\ NothingDenied

-----------------------------------------------------------------------------
(* What the paths of a fully staged kdamond say *)

LEMMA BelowFacts ==
    /\ Below["refresh"] = "kdamond" /\ Below["avail"] = "kdamond" /\ Below["probes"] = "kdamond"
    /\ \A p \in {"action", "filters", "core", "ops", "goals", "tried_regions"} : Below[p] = "scheme"
    /\ Below["regions"] = "target"
    /\ \A p \in {"filters_type", "filters_allow"} : Below[p] = "filters"
    /\ Below["core_type"] = "core"
    /\ \A p \in {"ops_type", "ops_allow"} : Below[p] = "ops"
    /\ \A p \in {"metric", "nid", "path"} : Below[p] = "goals"
    /\ \A p \in {"weight", "pfilters", "preps"} : Below[p] = "probes"
    /\ \A p \in {"pfilter", "pfilters_type"} : Below[p] = "pfilters"
    /\ Below["prep_action"] = "preps"
    /\ "target" \notin Paths /\ "scheme" \notin Paths /\ "kdamond" \notin Paths
    /\ {"filters", "core", "ops", "goals", "probes", "pfilters", "preps"} \subseteq Paths
  BY DEF Below, Paths

LEMMA PositionFacts ==
    /\ Len(Order) = 8
    /\ \A i \in 1..8 : Order[i] \in Counts /\ Position[Order[i]] = i
    /\ \A c \in Counts : Position[c] \in 1..8
    /\ Position["probes"] = 6 /\ Position["pfilters"] = 7 /\ Position["preps"] = 8
  BY DEF Order, Position, Counts

LEMMA ChildExists ==
    ASSUME NEW tree
    PROVE  /\ \A c \in {"filters", "core", "ops", "goals", "probes"} :
                Exists(tree, c) <=> c \in tree.has
           /\ \A c \in {"pfilters", "preps"} :
                Exists(tree, c) <=> c \in tree.has /\ "probes" \in tree.has /\ tree.count["probes"] > 0
  BY BelowFacts DEF Exists, AlwaysThere

Staging == \A c \in Counts : count[c] = Full(c)

\* Nothing is hidden behind a count any more.
LEMMA StagedPaths ==
    ASSUME Staging
    PROVE  /\ \A p \in {"refresh", "avail", "action", "filters", "core", "ops", "goals",
                        "tried_regions", "probes", "regions"} : Exists(Tree, p) <=> p \in has
           /\ Exists(Tree, "filters_type") <=> {"filters", "filters_type"} \subseteq has
           /\ Exists(Tree, "filters_allow") <=> {"filters", "filters_allow"} \subseteq has
           /\ Exists(Tree, "core_type") <=> {"core", "core_type"} \subseteq has
           /\ Exists(Tree, "ops_type") <=> {"ops", "ops_type"} \subseteq has
           /\ Exists(Tree, "ops_allow") <=> {"ops", "ops_allow"} \subseteq has
           /\ \A p \in {"metric", "nid", "path"} : Exists(Tree, p) <=> {"goals", p} \subseteq has
           /\ \A p \in {"weight", "pfilters", "preps"} :
                Exists(Tree, p) <=> {"probes", p} \subseteq has
           /\ \A p \in {"pfilter", "pfilters_type"} :
                Exists(Tree, p) <=> {"probes", "pfilters", p} \subseteq has
           /\ Exists(Tree, "prep_action") <=> {"probes", "preps", "prep_action"} \subseteq has
<1>1. /\ count["target"] = 1
      /\ \A c \in {"filters", "core", "ops", "goals", "probes"} :
            count[c] = IF c \in has THEN 1 ELSE 0
      /\ \A c \in {"pfilters", "preps"} :
            count[c] = IF c \in has /\ "probes" \in has THEN 1 ELSE 0
  BY DEF Staging, Counts, Full, Stageable
<1>2. /\ \A p \in {"refresh", "avail", "action", "filters", "core", "ops", "goals",
                   "tried_regions", "probes", "regions"} : Exists(Tree, p) <=> p \in has
  BY <1>1, BelowFacts DEF Exists, AlwaysThere, Tree
<1>3. /\ Exists(Tree, "filters_type") <=> {"filters", "filters_type"} \subseteq has
      /\ Exists(Tree, "filters_allow") <=> {"filters", "filters_allow"} \subseteq has
      /\ Exists(Tree, "core_type") <=> {"core", "core_type"} \subseteq has
  BY <1>1, BelowFacts DEF Exists, AlwaysThere, Tree
<1>4. /\ Exists(Tree, "ops_type") <=> {"ops", "ops_type"} \subseteq has
      /\ Exists(Tree, "ops_allow") <=> {"ops", "ops_allow"} \subseteq has
      /\ \A p \in {"metric", "nid", "path"} : Exists(Tree, p) <=> {"goals", p} \subseteq has
  BY <1>1, BelowFacts DEF Exists, AlwaysThere, Tree
<1>5. \A p \in {"weight", "pfilters", "preps"} : Exists(Tree, p) <=> {"probes", p} \subseteq has
  BY <1>1, BelowFacts DEF Exists, AlwaysThere, Tree
<1>6. /\ \A p \in {"pfilter", "pfilters_type"} :
            Exists(Tree, p) <=> {"probes", "pfilters", p} \subseteq has
      /\ Exists(Tree, "prep_action") <=> {"probes", "preps", "prep_action"} \subseteq has
  BY <1>1, BelowFacts DEF Exists, AlwaysThere, Tree
<1> QED
  BY <1>2, <1>3, <1>4, <1>5, <1>6

LEMMA Extends ==
    ASSUME NEW f, NEW g
    PROVE  /\ DOMAIN extend(f, g) = DOMAIN f \cup DOMAIN g
           /\ \A x \in DOMAIN g : extend(f, g)[x] = g[x]
           /\ \A x \in DOMAIN f \ DOMAIN g : extend(f, g)[x] = f[x]
  BY DEF extend

ContextNames == {"PeriodicRefresh", "AvailableOperations"}
SchemeNames == {"SchemeFilters", "SeparateSchemeFilterDirectories", "TriedRegions"}
FilterNames == {"SchemeFilterType", "SchemeFilterAllow"}
GoalNames == {"SchemeQuotaGoalMetric", "SchemeQuotaGoalSomePsi", "SchemeQuotaGoalNodeMemory",
              "SchemeQuotaGoalNodeMemoryControlGroup", "CollapseAction"}
ProbeNames == {"ProbeWeight", "ProbeTypeAnonymous", "ProbePreparations",
               "ProbePreparationSetPageIdle", "ProbeFilterCount", "ProbeFilterType"}

SchemePart == SchemeNames \cup FilterNames \cup GoalNames

LEMMA SchemeParts ==
    ASSUME NEW t
    PROVE  /\ DOMAIN scheme_capabilities(t) = SchemePart
           /\ \A f \in SchemeNames : scheme_capabilities(t)[f] = scheme_semantic_capabilities(t)[f]
           /\ \A f \in FilterNames : scheme_capabilities(t)[f] = scheme_filter_capabilities(t)[f]
           /\ \A f \in GoalNames : scheme_capabilities(t)[f] = quota_goal_capabilities(t)[f]
<1> DEFINE B == scheme_semantic_capabilities(t)
           C == scheme_filter_capabilities(t)
           D == quota_goal_capabilities(t)
           S == scheme_capabilities(t)
<1>1. DOMAIN B = SchemeNames
  BY DEF scheme_semantic_capabilities, SchemeNames
<1>2. DOMAIN C = FilterNames
  BY DEF scheme_filter_capabilities, FilterNames
<1>3. DOMAIN D = GoalNames
  BY DEF quota_goal_capabilities, GoalNames
<1>4. S = extend(extend(B, C), D)
  BY DEF scheme_capabilities
<1> HIDE DEF B, C, D, S
<1>5. /\ DOMAIN extend(B, C) = SchemeNames \cup FilterNames
      /\ \A x \in FilterNames : extend(B, C)[x] = C[x]
      /\ \A x \in SchemeNames : extend(B, C)[x] = B[x]
  <2>1. /\ DOMAIN extend(B, C) = DOMAIN B \cup DOMAIN C
        /\ \A x \in DOMAIN C : extend(B, C)[x] = C[x]
        /\ \A x \in DOMAIN B \ DOMAIN C : extend(B, C)[x] = B[x]
    BY Extends
  <2>2. \A x \in SchemeNames : x \in DOMAIN B \ DOMAIN C
    BY <1>1, <1>2 DEF SchemeNames, FilterNames
  <2> QED
    BY <2>1, <2>2, <1>1, <1>2
<1>6. /\ DOMAIN S = DOMAIN extend(B, C) \cup DOMAIN D
      /\ \A x \in DOMAIN D : S[x] = D[x]
      /\ \A x \in DOMAIN extend(B, C) \ DOMAIN D : S[x] = extend(B, C)[x]
  <2> DEFINE X == extend(B, C)
  <2> HIDE DEF X
  <2>1. /\ DOMAIN extend(X, D) = DOMAIN X \cup DOMAIN D
        /\ \A x \in DOMAIN D : extend(X, D)[x] = D[x]
        /\ \A x \in DOMAIN X \ DOMAIN D : extend(X, D)[x] = X[x]
    BY Extends
  <2> QED
    BY <1>4, <2>1 DEF X
<1>7. /\ DOMAIN S = SchemePart
      /\ \A x \in GoalNames : S[x] = D[x]
      /\ \A x \in FilterNames : S[x] = C[x]
      /\ \A x \in SchemeNames : S[x] = B[x]
  BY <1>3, <1>5, <1>6 DEF SchemeNames, FilterNames, GoalNames, SchemePart
<1> QED
  BY <1>7 DEF B, C, D, S

LEMMA Parts ==
    ASSUME NEW t
    PROVE  /\ \A f \in ContextNames : all_capabilities(t)[f] = context_semantic_capabilities(t)[f]
           /\ \A f \in SchemeNames : all_capabilities(t)[f] = scheme_semantic_capabilities(t)[f]
           /\ \A f \in FilterNames : all_capabilities(t)[f] = scheme_filter_capabilities(t)[f]
           /\ \A f \in GoalNames : all_capabilities(t)[f] = quota_goal_capabilities(t)[f]
           /\ \A f \in ProbeNames : all_capabilities(t)[f] = probe_capabilities(t)[f]
           /\ all_capabilities(t)["InitialRegions"] = target_support(t)
           /\ DOMAIN all_capabilities(t) = ContextNames \cup SchemePart \cup ProbeNames
                                                \cup {"InitialRegions"}
<1> DEFINE A == context_semantic_capabilities(t)
           B == scheme_semantic_capabilities(t)
           C == scheme_filter_capabilities(t)
           D == quota_goal_capabilities(t)
           E == probe_capabilities(t)
           Z == [InitialRegions |-> target_support(t)]
<1>1. DOMAIN A = ContextNames
  BY DEF context_semantic_capabilities, ContextNames
<1>5. DOMAIN E = ProbeNames
  BY DEF probe_capabilities, ProbeNames
<1>6. DOMAIN Z = {"InitialRegions"} /\ Z["InitialRegions"] = target_support(t)
  OBVIOUS
<1>7. all_capabilities(t) = extend(extend(extend(A, scheme_capabilities(t)), E), Z)
  BY DEF all_capabilities
<1> HIDE DEF A, B, C, D, E, Z
<1> DEFINE S == scheme_capabilities(t)
<1>8. /\ DOMAIN S = SchemeNames \cup FilterNames \cup GoalNames
      /\ \A x \in GoalNames : S[x] = D[x]
      /\ \A x \in FilterNames : S[x] = C[x]
      /\ \A x \in SchemeNames : S[x] = B[x]
  BY SchemeParts DEF B, C, D, SchemePart
<1> HIDE DEF S
<1> DEFINE T == extend(extend(A, S), E)
<1>9. /\ DOMAIN T = DOMAIN A \cup DOMAIN S \cup DOMAIN E
      /\ \A x \in ProbeNames : T[x] = E[x]
      /\ \A x \in DOMAIN S : T[x] = S[x]
      /\ \A x \in ContextNames : T[x] = A[x]
  <2>1. /\ DOMAIN extend(A, S) = DOMAIN A \cup DOMAIN S
        /\ \A x \in DOMAIN S : extend(A, S)[x] = S[x]
        /\ \A x \in DOMAIN A \ DOMAIN S : extend(A, S)[x] = A[x]
    BY Extends
  <2>2. /\ DOMAIN T = DOMAIN extend(A, S) \cup DOMAIN E
        /\ \A x \in DOMAIN E : T[x] = E[x]
        /\ \A x \in DOMAIN extend(A, S) \ DOMAIN E : T[x] = extend(A, S)[x]
    BY Extends
  <2> HIDE DEF T
  <2> QED
    BY <2>1, <2>2, <1>1, <1>5, <1>8
       DEF ContextNames, SchemeNames, FilterNames, GoalNames, ProbeNames
<1> HIDE DEF T
<1>10. /\ \A x \in DOMAIN Z : all_capabilities(t)[x] = Z[x]
       /\ \A x \in DOMAIN T \ DOMAIN Z : all_capabilities(t)[x] = T[x]
  <2>1. all_capabilities(t) = extend(T, Z)
    BY <1>7 DEF S, T
  <2>2. /\ \A x \in DOMAIN Z : extend(T, Z)[x] = Z[x]
        /\ \A x \in DOMAIN T \ DOMAIN Z : extend(T, Z)[x] = T[x]
    BY Extends
  <2> QED
    BY <2>1, <2>2
<1>12. DOMAIN all_capabilities(t) = ContextNames \cup SchemePart \cup ProbeNames
                                        \cup {"InitialRegions"}
  <2>1. all_capabilities(t) = extend(T, Z)
    BY <1>7 DEF S, T
  <2>2. DOMAIN extend(T, Z) = DOMAIN T \cup DOMAIN Z
    BY Extends
  <2> QED
    BY <2>1, <2>2, <1>1, <1>5, <1>6, <1>8, <1>9 DEF SchemePart
<1>11. /\ \A f \in ContextNames \cup SchemeNames \cup FilterNames \cup GoalNames \cup ProbeNames :
                f \in DOMAIN T \ DOMAIN Z
  BY <1>1, <1>5, <1>6, <1>8, <1>9
     DEF ContextNames, SchemeNames, FilterNames, GoalNames, ProbeNames
<1> QED
  <2>1. \A f \in ContextNames \cup ProbeNames \cup SchemeNames \cup FilterNames \cup GoalNames :
            all_capabilities(t)[f] = T[f]
    <3>1. \A x \in DOMAIN T \ DOMAIN Z : all_capabilities(t)[x] = T[x]
      BY <1>10
    <3> QED
      BY <3>1, <1>11, Zenon
  <2>2. /\ \A f \in ContextNames : all_capabilities(t)[f] = A[f]
        /\ \A f \in ProbeNames : all_capabilities(t)[f] = E[f]
        /\ \A f \in SchemeNames : all_capabilities(t)[f] = B[f]
        /\ \A f \in FilterNames : all_capabilities(t)[f] = C[f]
        /\ \A f \in GoalNames : all_capabilities(t)[f] = D[f]
    BY <2>1, <1>9, <1>8
  <2> QED
    BY <2>2, <1>10, <1>6, <1>12 DEF A, B, C, D, E

LEMMA NeedsFacts ==
    /\ Features = ContextNames \cup SchemeNames \cup FilterNames \cup GoalNames \cup ProbeNames
                    \cup {"InitialRegions"}
    /\ Needs["PeriodicRefresh"] = {{"refresh"}} /\ Needs["AvailableOperations"] = {{"avail"}}
    /\ Needs["InitialRegions"] = {{"regions"}}
    /\ Needs["SchemeFilters"] = {{"filters"}}
    /\ Needs["SeparateSchemeFilterDirectories"] = {{"core"}}
    /\ Needs["TriedRegions"] = {{"tried_regions"}}
    /\ Needs["SchemeFilterType"] =
            {{"filters", "filters_type"}, {"core", "core_type"}, {"ops", "ops_type"}}
    /\ Needs["SchemeFilterAllow"] = {{"filters", "filters_allow"}, {"ops", "ops_allow"}}
    /\ Needs["SchemeQuotaGoalMetric"] = {{"goals", "metric"}}
    /\ Needs["SchemeQuotaGoalSomePsi"] = {{"goals", "metric"}}
    /\ Needs["SchemeQuotaGoalNodeMemory"] = {{"goals", "metric", "nid"}}
    /\ Needs["SchemeQuotaGoalNodeMemoryControlGroup"] = {{"goals", "metric", "path"}}
    /\ Needs["CollapseAction"] = {{"action"}}
    /\ Needs["ProbeWeight"] = {{"probes", "weight"}}
    /\ Needs["ProbeFilterCount"] = {{"probes", "pfilters"}}
    /\ Needs["ProbeTypeAnonymous"] = {{"probes", "pfilters", "pfilter"}}
    /\ Needs["ProbeFilterType"] = {{"probes", "pfilters", "pfilters_type"}}
    /\ Needs["ProbePreparations"] = {{"probes", "preps"}}
    /\ Needs["ProbePreparationSetPageIdle"] = {{"probes", "preps", "prep_action"}}
  BY DEF Features, Needs, ContextNames, SchemeNames, FilterNames, GoalNames, ProbeNames

\* A support that is the kernel's word on a feature.
Tells(support, feature) ==
    support # RequiresStaging /\ (support # Unsupported <=> Has(has, feature))

LEMMA FeaturesTold ==
    ASSUME Staging, has \in Kernels
    PROVE  \A f \in Features : Tells(all_capabilities(Tree)[f], f)
<1> USE DEF Tells, Unsupported, RequiresStaging, Unverified, Supported
<1>a. /\ Tree.count = count /\ Tree.has = has
      /\ \A c \in {"filters", "core", "ops", "goals", "probes"} :
            c \in has => count[c] = 1
      /\ \A c \in {"pfilters", "preps"} : c \in has /\ "probes" \in has => count[c] = 1
      /\ count["target"] = 1
  BY DEF Staging, Counts, Full, Stageable, Tree
<1>b. \A p \in {"refresh", "avail", "filters", "core", "tried_regions"} :
        \A f : Needs[f] = {{p}} => Tells(support_for_path(Tree, p), f)
  <2>1. \A p, f : Needs[f] = {{p}} => (Has(has, f) <=> p \in has)
    BY DEF Has
  <2>2. \A p \in {"refresh", "avail", "filters", "core", "tried_regions"} :
            Exists(Tree, p) <=> p \in has
    BY StagedPaths
  <2> TAKE p \in {"refresh", "avail", "filters", "core", "tried_regions"}
  <2> TAKE f
  <2> HAVE Needs[f] = {{p}}
  <2>3. Has(has, f) <=> p \in has
    BY <2>1
  <2>4. support_for_path(Tree, p) # Unsupported <=> p \in has
    BY <2>2 DEF support_for_path
  <2>5. support_for_path(Tree, p) # RequiresStaging
    BY DEF support_for_path
  <2> QED
    BY <2>3, <2>4, <2>5
<1>1. \A f \in ContextNames : Tells(context_semantic_capabilities(Tree)[f], f)
  <2> HIDE DEF Tells
  <2>1. /\ Tells(support_for_path(Tree, "refresh"), "PeriodicRefresh")
        /\ Tells(support_for_path(Tree, "avail"), "AvailableOperations")
    BY <1>b, NeedsFacts
  <2>2. /\ context_semantic_capabilities(Tree)["PeriodicRefresh"] = support_for_path(Tree, "refresh")
        /\ context_semantic_capabilities(Tree)["AvailableOperations"] = support_for_path(Tree, "avail")
    BY DEF context_semantic_capabilities
  <2> QED
    BY <2>1, <2>2 DEF ContextNames
<1>2. \A f \in SchemeNames : Tells(scheme_semantic_capabilities(Tree)[f], f)
  <2> HIDE DEF Tells
  <2>1. /\ Tells(support_for_path(Tree, "filters"), "SchemeFilters")
        /\ Tells(support_for_path(Tree, "core"), "SeparateSchemeFilterDirectories")
        /\ Tells(support_for_path(Tree, "tried_regions"), "TriedRegions")
    BY <1>b, NeedsFacts
  <2>2. /\ scheme_semantic_capabilities(Tree)["SchemeFilters"] = support_for_path(Tree, "filters")
        /\ scheme_semantic_capabilities(Tree)["SeparateSchemeFilterDirectories"] = support_for_path(Tree, "core")
        /\ scheme_semantic_capabilities(Tree)["TriedRegions"] = support_for_path(Tree, "tried_regions")
    BY DEF scheme_semantic_capabilities
  <2> QED
    BY <2>1, <2>2 DEF SchemeNames
<1>3. \A f \in FilterNames : Tells(scheme_filter_capabilities(Tree)[f], f)
  <2>1. Tells(filter_value_support(Tree), "SchemeFilterType")
    <3>1. /\ DOMAIN FilterDirectories = {"filters", "core", "ops"}
          /\ FilterDirectories["filters"] = "filters_type"
          /\ FilterDirectories["core"] = "core_type"
          /\ FilterDirectories["ops"] = "ops_type"
      BY DEF FilterDirectories
    <3>2. \A d \in DOMAIN FilterDirectories : Exists(Tree, d) => count[d] = 1
      BY <3>1, <1>a, StagedPaths
    <3>3. \A d \in DOMAIN FilterDirectories :
            Exists(Tree, FilterDirectories[d]) <=> {d, FilterDirectories[d]} \subseteq has
      BY <3>1, StagedPaths
    <3>4. \A d \in DOMAIN FilterDirectories : Exists(Tree, d) <=> d \in has
      BY <3>1, StagedPaths
    <3>5. Has(has, "SchemeFilterType") <=>
            \E d \in DOMAIN FilterDirectories : {d, FilterDirectories[d]} \subseteq has
      BY <3>1, NeedsFacts DEF Has
    <3> QED
      BY <3>2, <3>3, <3>4, <3>5, <1>a DEF filter_value_support
  <2>2. Tells(indexed_attribute_support(Tree, {"ops_allow", "filters_allow"}), "SchemeFilterAllow")
    BY <1>a, StagedPaths, NeedsFacts, BelowFacts DEF indexed_attribute_support, Has
  <2> QED
    BY <2>1, <2>2 DEF FilterNames, scheme_filter_capabilities
<1>4. \A f \in GoalNames : Tells(quota_goal_capabilities(Tree)[f], f)
  <2> DEFINE goal == indexed_child_support(Tree, "goals")
             metric == child_attribute_support(Tree, goal, "metric")
             semantic == unverified_value_support(metric)
  <2>1. goal = IF "goals" \in has THEN Supported ELSE Unsupported
    BY <1>a, StagedPaths DEF indexed_child_support
  <2> HIDE DEF goal
  <2>2. \A p \in {"metric", "nid", "path"} : child_attribute_support(Tree, goal, p) =
            IF {"goals", p} \subseteq has THEN Supported ELSE Unsupported
    BY <2>1, StagedPaths DEF child_attribute_support, support_for_path
  <2>3. metric = IF {"goals", "metric"} \subseteq has THEN Supported ELSE Unsupported
    BY <2>2
  <2> HIDE DEF metric
  <2>4. semantic = IF {"goals", "metric"} \subseteq has THEN Unverified ELSE Unsupported
    BY <2>3 DEF unverified_value_support
  <2>5. quota_goal_capabilities(Tree) =
            [SchemeQuotaGoalMetric |-> metric,
             SchemeQuotaGoalSomePsi |-> semantic,
             SchemeQuotaGoalNodeMemory |->
                combine_support(semantic, child_attribute_support(Tree, goal, "nid")),
             SchemeQuotaGoalNodeMemoryControlGroup |->
                combine_support(semantic, child_attribute_support(Tree, goal, "path")),
             CollapseAction |-> unverified_value_support(support_for_path(Tree, "action"))]
    BY DEF quota_goal_capabilities, goal, metric
  <2> HIDE DEF semantic
  <2>6. Tells(metric, "SchemeQuotaGoalMetric") /\ Tells(semantic, "SchemeQuotaGoalSomePsi")
    BY <2>3, <2>4, NeedsFacts DEF Has
  <2>7. Tells(combine_support(semantic, child_attribute_support(Tree, goal, "nid")),
              "SchemeQuotaGoalNodeMemory")
    BY <2>2, <2>4, NeedsFacts DEF Has, combine_support
  <2>8. Tells(combine_support(semantic, child_attribute_support(Tree, goal, "path")),
              "SchemeQuotaGoalNodeMemoryControlGroup")
    BY <2>2, <2>4, NeedsFacts DEF Has, combine_support
  <2>9. Tells(unverified_value_support(support_for_path(Tree, "action")), "CollapseAction")
    BY StagedPaths, NeedsFacts DEF Has, unverified_value_support, support_for_path
  <2> HIDE DEF Tells
  <2> QED
    BY <2>5, <2>6, <2>7, <2>8, <2>9 DEF GoalNames
<1>5. \A f \in ProbeNames : Tells(probe_capabilities(Tree)[f], f)
  <2> DEFINE probe == indexed_child_support(Tree, "probes")
             filter == IF probe = Supported THEN indexed_child_support(Tree, "pfilters") ELSE probe
             prep == child_attribute_support(Tree, probe, "preps")
             child == IF prep = Supported THEN indexed_child_support(Tree, "preps") ELSE prep
             pcount == IF probe = Supported THEN support_for_path(Tree, "pfilters") ELSE probe
             weight == child_attribute_support(Tree, probe, "weight")
             action == unverified_value_support(child_attribute_support(Tree, child, "prep_action"))
             type == child_attribute_support(Tree, IF pcount # Supported THEN pcount
                        ELSE IF count["pfilters"] = 0 THEN RequiresStaging ELSE Supported,
                        "pfilters_type")
  <2>1. probe_capabilities(Tree) =
            [ProbeWeight |-> weight, ProbeTypeAnonymous |-> unverified_value_support(filter),
             ProbePreparations |-> prep, ProbePreparationSetPageIdle |-> action,
             ProbeFilterCount |-> pcount, ProbeFilterType |-> type]
    BY <1>a DEF probe_capabilities
  <2>2. probe = IF "probes" \in has THEN Supported ELSE Unsupported
    BY <1>a, StagedPaths DEF indexed_child_support
  <2> HIDE DEF probe
  <2>3. Tells(weight, "ProbeWeight")
    BY <2>2, StagedPaths, NeedsFacts DEF child_attribute_support, support_for_path, Has
  <2>4. filter = IF {"probes", "pfilters"} \subseteq has THEN Supported ELSE Unsupported
    BY <2>2, <1>a, StagedPaths DEF indexed_child_support
  <2> HIDE DEF filter
  <2>5. Tells(unverified_value_support(filter), "ProbeTypeAnonymous")
    BY <2>4, NeedsFacts, KernelsAssumption DEF unverified_value_support, Has
  <2>6. prep = IF {"probes", "preps"} \subseteq has THEN Supported ELSE Unsupported
    BY <2>2, StagedPaths DEF child_attribute_support, support_for_path
  <2> HIDE DEF prep
  <2>7. Tells(prep, "ProbePreparations")
    BY <2>6, NeedsFacts DEF Has
  <2>8. child = IF {"probes", "preps"} \subseteq has THEN Supported ELSE Unsupported
    BY <2>6, <1>a, StagedPaths DEF indexed_child_support
  <2> HIDE DEF child
  <2>9. Tells(action, "ProbePreparationSetPageIdle")
    <3>1. child_attribute_support(Tree, child, "prep_action") =
            IF {"probes", "preps", "prep_action"} \subseteq has THEN Supported ELSE Unsupported
      BY <2>8, StagedPaths DEF child_attribute_support, support_for_path
    <3> QED
      BY <3>1, NeedsFacts DEF unverified_value_support, Has
  <2>10. pcount = IF {"probes", "pfilters"} \subseteq has THEN Supported ELSE Unsupported
    BY <2>2, StagedPaths DEF support_for_path
  <2> HIDE DEF pcount
  <2>11. Tells(pcount, "ProbeFilterCount")
    BY <2>10, NeedsFacts DEF Has
  <2>12. Tells(type, "ProbeFilterType")
    <3>1. type = IF {"probes", "pfilters", "pfilters_type"} \subseteq has
                 THEN Supported ELSE Unsupported
      BY <2>10, <1>a, StagedPaths DEF child_attribute_support, support_for_path
    <3> QED
      BY <3>1, NeedsFacts DEF Has
  <2> HIDE DEF Tells, weight, action, type
  <2> QED
    BY <2>1, <2>3, <2>5, <2>7, <2>9, <2>11, <2>12 DEF ProbeNames
<1>6. Tells(target_support(Tree), "InitialRegions")
  BY <1>a, StagedPaths, NeedsFacts DEF target_support, support_for_path, Has
<1> HIDE DEF Tells
<1> QED
  BY <1>1, <1>2, <1>3, <1>4, <1>5, <1>6, Parts, NeedsFacts

-----------------------------------------------------------------------------
(* What the paths of any tree the kernel made say of a feature *)

LEMMA TreePaths ==
    ASSUME NEW t, Honest(t)
    PROVE  /\ \A p \in {"refresh", "avail", "action", "filters", "core", "ops", "goals",
                        "tried_regions", "probes"} : Exists(t, p) <=> p \in t.has
           /\ Exists(t, "regions") <=> "regions" \in t.has /\ t.count["target"] = 1
           /\ \A p \in {"filters_type", "filters_allow"} :
                Exists(t, p) <=> p \in t.has /\ t.count["filters"] = 1
           /\ Exists(t, "core_type") <=> "core_type" \in t.has /\ t.count["core"] = 1
           /\ \A p \in {"ops_type", "ops_allow"} : Exists(t, p) <=> p \in t.has /\ t.count["ops"] = 1
           /\ \A p \in {"metric", "nid", "path"} :
                Exists(t, p) <=> p \in t.has /\ t.count["goals"] = 1
           /\ \A p \in {"weight", "pfilters", "preps"} :
                Exists(t, p) <=> p \in t.has /\ t.count["probes"] = 1
           /\ \A p \in {"pfilter", "pfilters_type"} :
                Exists(t, p) <=> p \in t.has /\ t.count["pfilters"] = 1
           /\ Exists(t, "prep_action") <=> "prep_action" \in t.has /\ t.count["preps"] = 1
<1>1. /\ \A c \in {"target", "filters", "core", "ops", "goals", "probes", "pfilters", "preps"} :
            t.count[c] = 0 \/ t.count[c] = 1
      /\ \A c \in {"filters", "core", "ops", "goals", "probes", "pfilters", "preps"} :
            t.count[c] = 1 => c \in t.has
      /\ t.count["pfilters"] = 1 \/ t.count["preps"] = 1 => t.count["probes"] = 1
  BY BelowFacts DEF Honest, Counts
<1>2. \A p \in {"refresh", "avail", "action", "filters", "core", "ops", "goals",
                "tried_regions", "probes"} : Exists(t, p) <=> p \in t.has
  BY <1>1, BelowFacts DEF Exists, AlwaysThere
<1>3. /\ Exists(t, "regions") <=> "regions" \in t.has /\ t.count["target"] = 1
      /\ \A p \in {"filters_type", "filters_allow"} :
            Exists(t, p) <=> p \in t.has /\ t.count["filters"] = 1
      /\ Exists(t, "core_type") <=> "core_type" \in t.has /\ t.count["core"] = 1
  BY <1>1, BelowFacts DEF Exists, AlwaysThere
<1>4. /\ \A p \in {"ops_type", "ops_allow"} : Exists(t, p) <=> p \in t.has /\ t.count["ops"] = 1
      /\ \A p \in {"metric", "nid", "path"} : Exists(t, p) <=> p \in t.has /\ t.count["goals"] = 1
  BY <1>1, BelowFacts DEF Exists, AlwaysThere
<1>5. \A p \in {"weight", "pfilters", "preps"} : Exists(t, p) <=> p \in t.has /\ t.count["probes"] = 1
  BY <1>1, BelowFacts DEF Exists, AlwaysThere
<1>6. /\ \A p \in {"pfilter", "pfilters_type"} :
            Exists(t, p) <=> p \in t.has /\ t.count["pfilters"] = 1
      /\ Exists(t, "prep_action") <=> "prep_action" \in t.has /\ t.count["preps"] = 1
  BY <1>1, BelowFacts DEF Exists, AlwaysThere
<1> QED
  BY <1>2, <1>3, <1>4, <1>5, <1>6

Evident(t, f) == \E paths \in Needs[f] : \A p \in paths : Exists(t, p)
Hidden(t, f) ==
    \E paths \in Needs[f] : \E p \in paths : Below[p] \in Counts /\ t.count[Below[p]] = 0

\* What a support says of a feature, from one tree.
Verdict(t, support, f) ==
    /\ support \in {Unsupported, RequiresStaging, Unverified, Supported}
    /\ support = Unsupported => ~Has(t.has, f)
    /\ support \in {Unverified, Supported} => Evident(t, f)
    /\ support = RequiresStaging => ~Evident(t, f) /\ Hidden(t, f)

LEMMA TreeTells ==
    ASSUME NEW t, Honest(t)
    PROVE  \A f \in Features : Verdict(t, all_capabilities(t)[f], f)
<1> USE DEF Unsupported, RequiresStaging, Unverified, Supported
<1>a. /\ \A c \in {"target", "filters", "core", "ops", "goals", "probes", "pfilters", "preps"} :
            c \in Counts /\ (t.count[c] = 0 \/ t.count[c] = 1)
      /\ \A c \in {"filters", "core", "ops", "goals", "probes", "pfilters", "preps"} :
            t.count[c] = 1 => c \in t.has
      /\ t.count["pfilters"] = 1 \/ t.count["preps"] = 1 => t.count["probes"] = 1
      /\ "pfilters" \in t.has => "pfilter" \in t.has
  BY BelowFacts DEF Honest, Counts
<1>b. \A p \in {"refresh", "avail", "filters", "core", "tried_regions"}, f \in Features :
            Needs[f] = {{p}} => Verdict(t, support_for_path(t, p), f)
  <2> SUFFICES ASSUME NEW p \in {"refresh", "avail", "filters", "core", "tried_regions"},
                      NEW f \in Features, Needs[f] = {{p}}
               PROVE  Verdict(t, support_for_path(t, p), f)
    OBVIOUS
  <2>1. Exists(t, p) <=> p \in t.has
    BY TreePaths
  <2>2. /\ Has(t.has, f) <=> p \in t.has
        /\ Evident(t, f) <=> Exists(t, p)
    BY DEF Has, Evident
  <2> QED
    BY <2>1, <2>2 DEF Verdict, support_for_path
<1>1. \A f \in ContextNames : Verdict(t, context_semantic_capabilities(t)[f], f)
  <2>1. /\ Verdict(t, support_for_path(t, "refresh"), "PeriodicRefresh")
        /\ Verdict(t, support_for_path(t, "avail"), "AvailableOperations")
    BY <1>b, NeedsFacts DEF ContextNames
  <2>2. /\ context_semantic_capabilities(t)["PeriodicRefresh"] = support_for_path(t, "refresh")
        /\ context_semantic_capabilities(t)["AvailableOperations"] = support_for_path(t, "avail")
    BY DEF context_semantic_capabilities
  <2> QED
    BY <2>1, <2>2 DEF ContextNames
<1>2. \A f \in SchemeNames : Verdict(t, scheme_semantic_capabilities(t)[f], f)
  <2>1. /\ Verdict(t, support_for_path(t, "filters"), "SchemeFilters")
        /\ Verdict(t, support_for_path(t, "core"), "SeparateSchemeFilterDirectories")
        /\ Verdict(t, support_for_path(t, "tried_regions"), "TriedRegions")
    BY <1>b, NeedsFacts DEF SchemeNames
  <2>2. /\ scheme_semantic_capabilities(t)["SchemeFilters"] = support_for_path(t, "filters")
        /\ scheme_semantic_capabilities(t)["SeparateSchemeFilterDirectories"] = support_for_path(t, "core")
        /\ scheme_semantic_capabilities(t)["TriedRegions"] = support_for_path(t, "tried_regions")
    BY DEF scheme_semantic_capabilities
  <2> QED
    BY <2>1, <2>2 DEF SchemeNames
<1>3. \A f \in FilterNames : Verdict(t, scheme_filter_capabilities(t)[f], f)
  <2>1. Verdict(t, filter_value_support(t), "SchemeFilterType")
    <3>1. /\ DOMAIN FilterDirectories = {"filters", "core", "ops"}
          /\ FilterDirectories["filters"] = "filters_type"
          /\ FilterDirectories["core"] = "core_type"
          /\ FilterDirectories["ops"] = "ops_type"
      BY DEF FilterDirectories
    <3>2. \A d \in DOMAIN FilterDirectories :
            /\ Exists(t, d) <=> d \in t.has
            /\ Exists(t, FilterDirectories[d]) <=>
                    FilterDirectories[d] \in t.has /\ t.count[d] = 1
            /\ t.count[d] = 0 \/ (t.count[d] = 1 /\ d \in t.has)
            /\ Below[FilterDirectories[d]] = d /\ d \in Counts
      BY <1>a, <3>1, TreePaths, BelowFacts
    <3>3. Needs["SchemeFilterType"] = {{d, FilterDirectories[d]} : d \in DOMAIN FilterDirectories}
      BY <3>1, NeedsFacts
    <3>4. /\ Has(t.has, "SchemeFilterType") <=>
                \E d \in DOMAIN FilterDirectories : d \in t.has /\ FilterDirectories[d] \in t.has
          /\ Evident(t, "SchemeFilterType") <=>
                \E d \in DOMAIN FilterDirectories : Exists(t, d) /\ Exists(t, FilterDirectories[d])
          /\ \A d \in DOMAIN FilterDirectories :
                t.count[d] = 0 => Hidden(t, "SchemeFilterType")
      <4>1. /\ Has(t.has, "SchemeFilterType") <=>
                    \E d \in DOMAIN FilterDirectories : d \in t.has /\ FilterDirectories[d] \in t.has
            /\ Evident(t, "SchemeFilterType") <=>
                    \E d \in DOMAIN FilterDirectories : Exists(t, d) /\ Exists(t, FilterDirectories[d])
        <5>1. Has(t.has, "SchemeFilterType") <=>
                    \E d \in DOMAIN FilterDirectories : d \in t.has /\ FilterDirectories[d] \in t.has
          BY <3>1, NeedsFacts DEF Has
        <5>2. Evident(t, "SchemeFilterType") <=>
                    \E d \in DOMAIN FilterDirectories : Exists(t, d) /\ Exists(t, FilterDirectories[d])
          BY <3>1, NeedsFacts DEF Evident
        <5> QED
          BY <5>1, <5>2
      <4>2. ASSUME NEW d \in DOMAIN FilterDirectories, t.count[d] = 0
            PROVE  Hidden(t, "SchemeFilterType")
        <5>1. {d, FilterDirectories[d]} \in Needs["SchemeFilterType"]
          BY <3>3
        <5> QED
          BY <3>2, <4>2, <5>1 DEF Hidden
      <4> QED
        BY <4>1, <4>2
    <3> QED
      BY <3>2, <3>4 DEF filter_value_support, Verdict
  <2>2. Verdict(t, indexed_attribute_support(t, {"ops_allow", "filters_allow"}), "SchemeFilterAllow")
    <3>1. /\ Has(t.has, "SchemeFilterAllow") <=>
                \/ "filters" \in t.has /\ "filters_allow" \in t.has
                \/ "ops" \in t.has /\ "ops_allow" \in t.has
          /\ Evident(t, "SchemeFilterAllow") <=>
                \/ Exists(t, "filters") /\ Exists(t, "filters_allow")
                \/ Exists(t, "ops") /\ Exists(t, "ops_allow")
      BY NeedsFacts DEF Has, Evident
    <3>2. t.count["filters"] = 0 \/ t.count["ops"] = 0 => Hidden(t, "SchemeFilterAllow")
      BY <1>a, NeedsFacts, BelowFacts DEF Hidden
    <3> QED
      BY <1>a, <3>1, <3>2, TreePaths, BelowFacts DEF indexed_attribute_support, Verdict
  <2> QED
    BY <2>1, <2>2 DEF FilterNames, scheme_filter_capabilities
<1>4. \A f \in GoalNames : Verdict(t, quota_goal_capabilities(t)[f], f)
  <2> DEFINE goal == indexed_child_support(t, "goals")
             metric == child_attribute_support(t, goal, "metric")
             semantic == unverified_value_support(metric)
             nid == child_attribute_support(t, goal, "nid")
             path == child_attribute_support(t, goal, "path")
             action == unverified_value_support(support_for_path(t, "action"))
  <2>1. goal = IF "goals" \notin t.has THEN Unsupported
               ELSE IF t.count["goals"] = 0 THEN RequiresStaging ELSE Supported
    BY TreePaths DEF indexed_child_support
  <2>5. quota_goal_capabilities(t) =
            [SchemeQuotaGoalMetric |-> metric,
             SchemeQuotaGoalSomePsi |-> semantic,
             SchemeQuotaGoalNodeMemory |-> combine_support(semantic, nid),
             SchemeQuotaGoalNodeMemoryControlGroup |-> combine_support(semantic, path),
             CollapseAction |-> action]
    BY DEF quota_goal_capabilities
  <2> HIDE DEF goal
  <2>2. /\ metric = IF goal = Supported /\ "metric" \notin t.has THEN Unsupported ELSE goal
        /\ nid = IF goal = Supported /\ "nid" \notin t.has THEN Unsupported ELSE goal
        /\ path = IF goal = Supported /\ "path" \notin t.has THEN Unsupported ELSE goal
    BY <1>a, <2>1, TreePaths DEF child_attribute_support, support_for_path
  <2> HIDE DEF metric, nid, path
  <2>3. semantic = IF metric = Supported THEN Unverified ELSE metric
    BY DEF unverified_value_support
  <2> HIDE DEF semantic
  <2>4. /\ \A p \in {"metric", "nid", "path"} : Exists(t, p) <=> p \in t.has /\ t.count["goals"] = 1
        /\ Exists(t, "goals") <=> "goals" \in t.has
        /\ Below["metric"] = "goals"
    BY TreePaths, BelowFacts
  <2>6. Verdict(t, metric, "SchemeQuotaGoalMetric") /\ Verdict(t, semantic, "SchemeQuotaGoalSomePsi")
    <3>1. \A f \in {"SchemeQuotaGoalMetric", "SchemeQuotaGoalSomePsi"} :
            /\ Has(t.has, f) <=> "goals" \in t.has /\ "metric" \in t.has
            /\ Evident(t, f) <=> Exists(t, "goals") /\ Exists(t, "metric")
            /\ t.count["goals"] = 0 => Hidden(t, f)
      <4> SUFFICES ASSUME NEW f \in {"SchemeQuotaGoalMetric", "SchemeQuotaGoalSomePsi"}
                   PROVE  /\ Has(t.has, f) <=> "goals" \in t.has /\ "metric" \in t.has
                          /\ Evident(t, f) <=> Exists(t, "goals") /\ Exists(t, "metric")
                          /\ t.count["goals"] = 0 => Hidden(t, f)
        OBVIOUS
      <4>1. Needs[f] = {{"goals", "metric"}}
        BY NeedsFacts
      <4> QED
        BY <1>a, <2>4, <4>1 DEF Has, Evident, Hidden
    <3> QED
      BY <1>a, <2>1, <2>2, <2>3, <2>4, <3>1 DEF Verdict
  <2>7. Verdict(t, combine_support(semantic, nid), "SchemeQuotaGoalNodeMemory")
    <3>1. /\ Has(t.has, "SchemeQuotaGoalNodeMemory") <=>
                "goals" \in t.has /\ "metric" \in t.has /\ "nid" \in t.has
          /\ Evident(t, "SchemeQuotaGoalNodeMemory") <=>
                Exists(t, "goals") /\ Exists(t, "metric") /\ Exists(t, "nid")
          /\ t.count["goals"] = 0 => Hidden(t, "SchemeQuotaGoalNodeMemory")
      BY <1>a, <2>4, NeedsFacts DEF Has, Evident, Hidden
    <3> QED
      BY <1>a, <2>1, <2>2, <2>3, <2>4, <3>1 DEF Verdict, combine_support
  <2>8. Verdict(t, combine_support(semantic, path), "SchemeQuotaGoalNodeMemoryControlGroup")
    <3>1. /\ Has(t.has, "SchemeQuotaGoalNodeMemoryControlGroup") <=>
                "goals" \in t.has /\ "metric" \in t.has /\ "path" \in t.has
          /\ Evident(t, "SchemeQuotaGoalNodeMemoryControlGroup") <=>
                Exists(t, "goals") /\ Exists(t, "metric") /\ Exists(t, "path")
          /\ t.count["goals"] = 0 => Hidden(t, "SchemeQuotaGoalNodeMemoryControlGroup")
      BY <1>a, <2>4, NeedsFacts DEF Has, Evident, Hidden
    <3> QED
      BY <1>a, <2>1, <2>2, <2>3, <2>4, <3>1 DEF Verdict, combine_support
  <2>9. Verdict(t, action, "CollapseAction")
    <3>1. /\ Exists(t, "action") <=> "action" \in t.has
          /\ Has(t.has, "CollapseAction") <=> "action" \in t.has
          /\ Evident(t, "CollapseAction") <=> Exists(t, "action")
      BY TreePaths, NeedsFacts DEF Has, Evident
    <3> QED
      BY <3>1 DEF Verdict, unverified_value_support, support_for_path
  <2> HIDE DEF action
  <2> QED
    BY <2>5, <2>6, <2>7, <2>8, <2>9 DEF GoalNames
<1>5. \A f \in ProbeNames : Verdict(t, probe_capabilities(t)[f], f)
  <2> DEFINE probe == indexed_child_support(t, "probes")
             filter == IF probe = Supported THEN indexed_child_support(t, "pfilters") ELSE probe
             prep == child_attribute_support(t, probe, "preps")
             child == IF prep = Supported THEN indexed_child_support(t, "preps") ELSE prep
             pcount == IF probe = Supported THEN support_for_path(t, "pfilters") ELSE probe
             weight == child_attribute_support(t, probe, "weight")
             action == unverified_value_support(child_attribute_support(t, child, "prep_action"))
             type == child_attribute_support(t, IF pcount # Supported THEN pcount
                        ELSE IF t.count["pfilters"] = 0 THEN RequiresStaging ELSE Supported,
                        "pfilters_type")
  <2>1. probe_capabilities(t) =
            [ProbeWeight |-> weight, ProbeTypeAnonymous |-> unverified_value_support(filter),
             ProbePreparations |-> prep, ProbePreparationSetPageIdle |-> action,
             ProbeFilterCount |-> pcount, ProbeFilterType |-> type]
    BY DEF probe_capabilities
  <2>a. /\ \A p \in {"weight", "pfilters", "preps"} :
                Exists(t, p) <=> p \in t.has /\ t.count["probes"] = 1
        /\ \A p \in {"pfilter", "pfilters_type"} :
                Exists(t, p) <=> p \in t.has /\ t.count["pfilters"] = 1
        /\ Exists(t, "prep_action") <=> "prep_action" \in t.has /\ t.count["preps"] = 1
        /\ Exists(t, "probes") <=> "probes" \in t.has
        /\ \A p \in {"weight", "pfilters", "preps"} : Below[p] = "probes"
        /\ \A p \in {"pfilter", "pfilters_type"} : Below[p] = "pfilters"
        /\ Below["prep_action"] = "preps"
    BY TreePaths, BelowFacts
  <2>2. probe = IF "probes" \notin t.has THEN Unsupported
                ELSE IF t.count["probes"] = 0 THEN RequiresStaging ELSE Supported
    BY <2>a DEF indexed_child_support
  <2> HIDE DEF probe
  <2>3. Verdict(t, weight, "ProbeWeight")
    <3>1. /\ Has(t.has, "ProbeWeight") <=> "probes" \in t.has /\ "weight" \in t.has
          /\ Evident(t, "ProbeWeight") <=> Exists(t, "probes") /\ Exists(t, "weight")
          /\ t.count["probes"] = 0 => Hidden(t, "ProbeWeight")
      BY <1>a, <2>a, NeedsFacts DEF Has, Evident, Hidden
    <3> QED
      BY <1>a, <2>a, <2>2, <3>1 DEF child_attribute_support, support_for_path, Verdict
  <2>4. filter = IF probe # Supported THEN probe
                 ELSE IF "pfilters" \notin t.has THEN Unsupported
                 ELSE IF t.count["pfilters"] = 0 THEN RequiresStaging ELSE Supported
    BY <1>a, <2>2, <2>a DEF indexed_child_support
  <2> HIDE DEF filter
  <2>5. Verdict(t, unverified_value_support(filter), "ProbeTypeAnonymous")
    <3>1. /\ Has(t.has, "ProbeTypeAnonymous") <=>
                "probes" \in t.has /\ "pfilters" \in t.has /\ "pfilter" \in t.has
          /\ Evident(t, "ProbeTypeAnonymous") <=>
                Exists(t, "probes") /\ Exists(t, "pfilters") /\ Exists(t, "pfilter")
          /\ t.count["probes"] = 0 \/ t.count["pfilters"] = 0 => Hidden(t, "ProbeTypeAnonymous")
      BY <1>a, <2>a, NeedsFacts DEF Has, Evident, Hidden
    <3> QED
      BY <1>a, <2>a, <2>2, <2>4, <3>1 DEF unverified_value_support, Verdict
  <2>6. prep = IF probe = Supported /\ "preps" \notin t.has THEN Unsupported ELSE probe
    BY <1>a, <2>2, <2>a DEF child_attribute_support, support_for_path
  <2> HIDE DEF prep
  <2>7. Verdict(t, prep, "ProbePreparations")
    <3>1. /\ Has(t.has, "ProbePreparations") <=> "probes" \in t.has /\ "preps" \in t.has
          /\ Evident(t, "ProbePreparations") <=> Exists(t, "probes") /\ Exists(t, "preps")
          /\ t.count["probes"] = 0 => Hidden(t, "ProbePreparations")
      BY <1>a, <2>a, NeedsFacts DEF Has, Evident, Hidden
    <3> QED
      BY <1>a, <2>a, <2>2, <2>6, <3>1 DEF Verdict
  <2>8. child = IF prep = Supported /\ t.count["preps"] = 0 THEN RequiresStaging ELSE prep
    BY <1>a, <2>2, <2>6, <2>a DEF indexed_child_support
  <2> HIDE DEF child
  <2>9. Verdict(t, action, "ProbePreparationSetPageIdle")
    <3>1. child_attribute_support(t, child, "prep_action") =
            IF child = Supported /\ "prep_action" \notin t.has THEN Unsupported ELSE child
      BY <1>a, <2>a, <2>2, <2>6, <2>8 DEF child_attribute_support, support_for_path
    <3>2. /\ Has(t.has, "ProbePreparationSetPageIdle") <=>
                "probes" \in t.has /\ "preps" \in t.has /\ "prep_action" \in t.has
          /\ Evident(t, "ProbePreparationSetPageIdle") <=>
                Exists(t, "probes") /\ Exists(t, "preps") /\ Exists(t, "prep_action")
          /\ t.count["probes"] = 0 \/ t.count["preps"] = 0 =>
                Hidden(t, "ProbePreparationSetPageIdle")
      BY <1>a, <2>a, NeedsFacts DEF Has, Evident, Hidden
    <3> QED
      BY <1>a, <2>a, <2>2, <2>6, <2>8, <3>1, <3>2 DEF unverified_value_support, Verdict
  <2>10. pcount = IF probe = Supported /\ "pfilters" \notin t.has THEN Unsupported ELSE probe
    BY <1>a, <2>2, <2>a DEF support_for_path
  <2> HIDE DEF pcount
  <2>11. Verdict(t, pcount, "ProbeFilterCount")
    <3>1. /\ Has(t.has, "ProbeFilterCount") <=> "probes" \in t.has /\ "pfilters" \in t.has
          /\ Evident(t, "ProbeFilterCount") <=> Exists(t, "probes") /\ Exists(t, "pfilters")
          /\ t.count["probes"] = 0 => Hidden(t, "ProbeFilterCount")
      BY <1>a, <2>a, NeedsFacts DEF Has, Evident, Hidden
    <3> QED
      BY <1>a, <2>a, <2>2, <2>10, <3>1 DEF Verdict
  <2>12. Verdict(t, type, "ProbeFilterType")
    <3>1. /\ Has(t.has, "ProbeFilterType") <=>
                "probes" \in t.has /\ "pfilters" \in t.has /\ "pfilters_type" \in t.has
          /\ Evident(t, "ProbeFilterType") <=>
                Exists(t, "probes") /\ Exists(t, "pfilters") /\ Exists(t, "pfilters_type")
          /\ t.count["probes"] = 0 \/ t.count["pfilters"] = 0 => Hidden(t, "ProbeFilterType")
      BY <1>a, <2>a, NeedsFacts DEF Has, Evident, Hidden
    <3> QED
      BY <1>a, <2>a, <2>2, <2>10, <3>1 DEF child_attribute_support, support_for_path, Verdict
  <2> HIDE DEF weight, action, type
  <2> QED
    BY <2>1, <2>3, <2>5, <2>7, <2>9, <2>11, <2>12 DEF ProbeNames
<1>6. Verdict(t, target_support(t), "InitialRegions")
  <2>1. /\ Has(t.has, "InitialRegions") <=> "regions" \in t.has
        /\ Evident(t, "InitialRegions") <=> Exists(t, "regions")
        /\ t.count["target"] = 0 => Hidden(t, "InitialRegions")
    BY <1>a, NeedsFacts, BelowFacts DEF Has, Evident, Hidden
  <2> QED
    BY <1>a, <2>1, TreePaths DEF target_support, support_for_path, Verdict
<1> QED
  BY <1>1, <1>2, <1>3, <1>4, <1>5, <1>6, Parts, NeedsFacts

\* Support is not invented, whatever is staged and whoever staged it.
LEMMA FeaturesSound ==
    ASSUME Honest(Tree)
    PROVE  \A f \in Features : all_capabilities(Tree)[f] \in {Unverified, Supported} => Has(has, f)
<1>1. \A p : Exists(Tree, p) => p \in has
  BY DEF Exists, Tree
<1>2. \A f : Evident(Tree, f) => Has(has, f)
  BY <1>1 DEF Evident, Has
<1> QED
  BY <1>2, TreeTells DEF Verdict

-----------------------------------------------------------------------------
(* The invariant, action by action *)

LEMMA JobFacts ==
    /\ Len(Jobs) \in Nat /\ DOMAIN Jobs = 1..Len(Jobs)
    /\ \A j \in DOMAIN Jobs :
        /\ Len(Jobs[j].paths) \in Nat /\ DOMAIN Jobs[j].paths = 1..Len(Jobs[j].paths)
        /\ Len(Jobs[j].values) \in Nat /\ DOMAIN Jobs[j].values = 1..Len(Jobs[j].values)
        /\ \A k \in DOMAIN Jobs[j].values :
                Jobs[j].values[k] \in Values(j) /\ Jobs[j].values[k] \in AllValues
        /\ \A i \in DOMAIN Jobs[j].paths :
                Jobs[j].paths[i] \in JobPathsOf(j) /\ Jobs[j].paths[i] \in ValuePaths
        /\ Jobs[j].how # "reset" => Len(Jobs[j].paths) = 1
    /\ "default" \notin AllValues /\ Foreign \cap AllValues = {}
<1> DEFINE Job1 == [paths : Seq(STRING), values : Seq(STRING), how : STRING]
<1>1. Jobs \in Seq(Job1)
  BY JobsAssumption
<1>2. Len(Jobs) \in Nat /\ DOMAIN Jobs = 1..Len(Jobs) /\ \A j \in DOMAIN Jobs : Jobs[j] \in Job1
  <2> HIDE DEF Job1
  <2> QED
    BY <1>1
<1>3. ASSUME NEW j \in DOMAIN Jobs
      PROVE  /\ Len(Jobs[j].paths) \in Nat /\ DOMAIN Jobs[j].paths = 1..Len(Jobs[j].paths)
             /\ Len(Jobs[j].values) \in Nat /\ DOMAIN Jobs[j].values = 1..Len(Jobs[j].values)
  <2>1. Jobs[j].paths \in Seq(STRING) /\ Jobs[j].values \in Seq(STRING)
    BY <1>2
  <2> QED
    BY <2>1
<1>4. ASSUME NEW j \in DOMAIN Jobs, NEW k \in DOMAIN Jobs[j].values
      PROVE  Jobs[j].values[k] \in Values(j) /\ Jobs[j].values[k] \in AllValues
  BY DEF Values, AllValues
<1>5. ASSUME NEW j \in DOMAIN Jobs, NEW i \in DOMAIN Jobs[j].paths
      PROVE  Jobs[j].paths[i] \in JobPathsOf(j) /\ Jobs[j].paths[i] \in ValuePaths
  BY DEF JobPathsOf, ValuePaths
<1>6. \A j \in DOMAIN Jobs : Jobs[j].how # "reset" => Len(Jobs[j].paths) = 1
  BY JobsAssumption
<1>7. "default" \notin AllValues /\ Foreign \cap AllValues = {}
  BY JobsAssumption
<1> QED
  BY <1>2, <1>3, <1>4, <1>5, <1>6, <1>7

LEMMA StillThere ==
    ASSUME UNCHANGED <<has, count>>
    PROVE  /\ Tree' = Tree
           /\ \A p : There(p)' <=> There(p)
           /\ \A c : Full(c)' = Full(c)
           /\ Honest(Tree)' <=> Honest(Tree)
  BY DEF There, Tree, Full, Stageable, Honest

\* The effect of a write to a count that is there.
LEMMA WrittenFacts ==
    ASSUME Types, Honest(Tree), NEW c \in Counts, NEW n \in {0, 1},
           c = "target" \/ Exists(Tree, c), Written(c, n), has' = has
    PROVE  /\ count' \in [Counts -> {0, 1}] /\ value' \in [ValuePaths -> Contents]
           /\ count'[c] = n
           /\ \A d \in Counts \ {c} : count'[d] = IF Within(d, c) THEN 0 ELSE count[d]
           /\ \A p \in ValuePaths : value'[p] = value[p] \/ value'[p] = "default"
           /\ Honest(Tree)'
<1>1. /\ count' = [d \in Counts |-> IF d = c THEN n ELSE IF Within(d, c) THEN 0 ELSE count[d]]
      /\ value' = [p \in ValuePaths |-> IF Within(p, c) THEN "default" ELSE value[p]]
  BY DEF Written
<1>2. count' \in [Counts -> {0, 1}] /\ value' \in [ValuePaths -> Contents]
  BY <1>1 DEF Types, Contents
<1>3. /\ count'[c] = n
      /\ \A d \in Counts \ {c} : count'[d] = IF Within(d, c) THEN 0 ELSE count[d]
      /\ \A p \in ValuePaths : value'[p] = value[p] \/ value'[p] = "default"
  BY <1>1
<1>4. Honest(Tree)'
  <2>1. /\ "probes" \in Counts /\ "pfilters" \in Counts /\ "preps" \in Counts
        /\ Within("pfilters", "probes") /\ Within("preps", "probes")
    BY BelowFacts DEF Counts, Within
  <2>2. /\ "pfilters" \in has => "pfilter" \in has
        /\ \A d \in Counts \cap Paths : count[d] = 1 => d \in has
        /\ count["pfilters"] = 1 \/ count["preps"] = 1 => count["probes"] = 1
    BY DEF Honest, Tree
  <2>3. Exists(Tree, c) => c \in has
    BY DEF Exists, Tree
  <2>4. c \in {"pfilters", "preps"} => count["probes"] = 1
    <3>1. c \in {"pfilters", "preps"} => count["probes"] > 0
      BY ChildExists DEF Tree
    <3>2. count["probes"] \in {0, 1}
      BY <2>1 DEF Types
    <3> QED
      BY <3>1, <3>2
  <2>5. \A d \in Counts \cap Paths : count'[d] = 1 => d \in has
    <3> SUFFICES ASSUME NEW d \in Counts \cap Paths, count'[d] = 1 PROVE d \in has
      OBVIOUS
    <3>1. CASE d = c
      BY <2>3, <3>1, BelowFacts
    <3>2. CASE d # c
      BY <1>3, <2>2, <3>2
    <3> QED
      BY <3>1, <3>2
  <2>6. count'["pfilters"] = 1 \/ count'["preps"] = 1 => count'["probes"] = 1
    <3>1. CASE c = "probes"
      BY <1>3, <2>1, <3>1
    <3>2. CASE c \in {"pfilters", "preps"}
      <4>1. ~Within("probes", c)
        BY <3>2, BelowFacts DEF Within
      <4> QED
        BY <1>3, <2>1, <2>4, <3>2, <4>1
    <3>3. CASE c \notin {"probes", "pfilters", "preps"}
      <4>1. ~Within("probes", c)
        BY <3>3, BelowFacts DEF Within, Counts
      <4>2. count'["probes"] = count["probes"]
        BY <1>3, <2>1, <3>3, <4>1
      <4>3. \A d \in {"pfilters", "preps"} : count'[d] = 1 => count[d] = 1
        BY <1>3, <2>1, <3>3
      <4> QED
        BY <2>2, <4>2, <4>3
    <3> QED
      BY <3>1, <3>2, <3>3
  <2>7. \A d \in Counts : count'[d] \in {0, 1}
    BY <1>2
  <2> QED
    BY <2>2, <2>5, <2>6, <2>7 DEF Honest, Tree
<1> QED
  BY <1>2, <1>3, <1>4

\* Elsewhere than at the captured hierarchy another controller's work is not
\* told apart.
LEMMA StillForeign ==
    ASSUME Inv, pc \notin {"check", "lost", "unrestored"}, pc' # "check", intruder' = intruder
    PROVE  ForeignInv'
  BY DEF Inv, ForeignInv

\* No new values but the old ones and defaults, and nothing new that is supported.
LEMMA StillSound ==
    ASSUME Inv, has' = has, verdicts \subseteq verdicts', tested' = tested, Honest(Tree)',
           \A p \in ValuePaths : \/ value'[p] = value[p] \/ value'[p] \notin AllValues
                                 \/ Taken(p, value'[p]),
           pc' \in JobPhase /\ Job'.how # "reset" =>
                \/ pc \in JobPhase /\ original' = original /\ Job' = Job
                \/ original' \notin AllValues
                \/ Taken(Job.paths[1], original') /\ Job' = Job
    PROVE  SoundInv'
<1>1. \A p, v : <<p, v, "taken">> \in verdicts => <<p, v, "taken">> \in verdicts'
  OBVIOUS
<1>2. ValuesSound'
  BY <1>1 DEF Inv, SoundInv, ValuesSound, Taken
<1>3. OriginalSound'
  <2> SUFFICES ASSUME pc' \in JobPhase, Job'.how # "reset", original' \in AllValues
               PROVE  Taken(Job.paths[1], original)'
    BY DEF OriginalSound
  <2>1. Job' = Job /\ Taken(Job.paths[1], original')
    BY DEF Inv, SoundInv, OriginalSound
  <2> QED
    BY <1>1, <2>1 DEF Taken
<1>4. TestedSound'
  BY <1>1 DEF Inv, SoundInv, TestedSound, Taken
<1> QED
  BY <1>2, <1>3, <1>4 DEF SoundInv

\* A way back, or an end.
LEMMA Quiet ==
    ASSUME pc' \in Ends \cup {"restore", "undo"}, Types', ForeignInv', BackInv', SoundInv'
    PROVE  Inv'
<1>1. pc' \notin TrialPhase \cup {"open", "reconstruct", "stage", "check"}
  BY DEF Ends, TrialPhase, AskPhase, JobPhase
<1>2. StageInv' /\ TrialInv' /\ StepInv'
  BY <1>1 DEF StageInv, TrialInv, StepInv, TrialPhase, AskPhase, JobPhase
<1>3. VerdictInv'
  BY <1>1 DEF VerdictInv, TrialPhase, AskPhase
<1>4. NothingInvented' /\ NothingDenied'
  BY <1>1 DEF NothingInvented, NothingDenied
<1> QED
  BY <1>2, <1>3, <1>4 DEF Inv

LEMMA Init1 == Init => Inv
<1> SUFFICES ASSUME Init PROVE Inv
  OBVIOUS
<1>1. Types
  BY DEF Init, Types, NoCount, Support, Unsupported, Supported, Defaults, Contents
<1>2. ForeignInv /\ BackInv
  BY DEF Init, ForeignInv, BackInv
<1>3. StageInv /\ TrialInv /\ StepInv
  BY DEF Init, StageInv, TrialInv, StepInv, TrialPhase, AskPhase, JobPhase
<1>4. VerdictInv /\ NothingInvented /\ NothingDenied
  BY DEF Init, VerdictInv, NothingInvented, NothingDenied, AskPhase
<1>5. SoundInv
  <2>1. Honest(Tree)
    BY KernelsAssumption DEF Init, Honest, Tree, NoCount, Counts
  <2>2. \A p \in ValuePaths : value[p] \notin AllValues
    BY JobFacts DEF Init, Defaults
  <2>3. pc \notin JobPhase
    BY DEF Init, JobPhase
  <2>4. \A v \in AllValues : tested[v] = Unsupported
    BY DEF Init
  <2> QED
    BY <2>1, <2>2, <2>3, <2>4 DEF SoundInv, ValuesSound, OriginalSound, TestedSound
<1> QED
  BY <1>1, <1>2, <1>3, <1>4, <1>5 DEF Inv

LEMMA OpenKeeps == Inv /\ Open => Inv'
<1> SUFFICES ASSUME Inv, Open PROVE Inv'
  OBVIOUS
<1>1. /\ pc = "open" /\ pc' \in {"reconstruct", "failed"} /\ step' = 1
      /\ trial' = [value |-> 1, path |-> 1]
      /\ UNCHANGED <<has, whole, count, value, on, verdicts, tested, features, original, fingerprint, intruder>>
  BY DEF Open, Step, Goto, hierarchy, found
<1>2. Types' /\ ForeignInv' /\ BackInv'
  BY <1>1, StillForeign DEF Inv, Types, BackInv
<1>3. SoundInv'
  <2>1. pc' \notin JobPhase
    BY <1>1 DEF JobPhase
  <2>2. Honest(Tree)'
    BY <1>1, StillThere DEF Inv, SoundInv
  <2> QED
    BY <1>1, <2>1, <2>2, StillSound
<1>4. CASE pc' = "failed"
  BY <1>2, <1>3, <1>4, Quiet DEF Ends
<1>5. CASE pc' = "reconstruct"
  <2>1. StageInv' /\ TrialInv' /\ StepInv' /\ NothingInvented' /\ NothingDenied'
    BY <1>5 DEF StageInv, TrialInv, StepInv, NothingInvented, NothingDenied, TrialPhase,
                AskPhase, JobPhase
  <2>2. VerdictInv'
    BY <1>1, <1>5 DEF Inv, VerdictInv, AskPhase
  <2> QED
    BY <1>2, <1>3, <2>1, <2>2 DEF Inv
<1> QED
  BY <1>1, <1>4, <1>5

\* The hierarchy is made anew.
LEMMA Emptied ==
    ASSUME Inv, has' = has, count' = NoCount
    PROVE  Honest(Tree)' /\ count' \in [Counts -> {0, 1}]
  BY DEF Inv, SoundInv, Honest, Tree, NoCount, Counts

LEMMA ReconstructKeeps == Inv /\ Reconstruct => Inv'
<1> SUFFICES ASSUME Inv, Reconstruct PROVE Inv'
  OBVIOUS
<1>1. /\ pc = "reconstruct" /\ step' = 1 /\ trial' = [value |-> 1, path |-> 1]
      /\ \/ pc' = "stage" /\ count' = NoCount /\ value' = Defaults
         \/ pc' = "undo" /\ UNCHANGED <<count, value>>
      /\ UNCHANGED <<has, verdicts, tested, features, original, fingerprint, intruder>>
  BY DEF Reconstruct, Step, Goto, found
<1>2. Honest(Tree)' /\ count' \in [Counts -> {0, 1}]
  BY <1>1, Emptied, StillThere DEF Inv, SoundInv, Types
<1>3. Types' /\ ForeignInv' /\ BackInv'
  BY <1>1, <1>2, StillForeign DEF Inv, Types, BackInv, Defaults, Contents
<1>4. SoundInv'
  <2>1. pc' \notin JobPhase
    BY <1>1 DEF JobPhase
  <2>2. \A p \in ValuePaths : value'[p] = value[p] \/ value'[p] \notin AllValues
    BY <1>1, JobFacts DEF Defaults
  <2> QED
    BY <1>1, <1>2, <2>1, <2>2, StillSound
<1>5. CASE pc' = "undo"
  BY <1>3, <1>4, <1>5, Quiet
<1>6. CASE pc' = "stage"
  <2>1. StageInv' /\ StepInv'
    BY <1>1, <1>6, PositionFacts DEF StageInv, StepInv, TrialPhase, AskPhase, JobPhase, NoCount
  <2>2. TrialInv' /\ NothingInvented' /\ NothingDenied'
    BY <1>1, <1>6 DEF TrialInv, NothingInvented, NothingDenied, JobPhase
  <2>3. VerdictInv'
    BY <1>1, <1>6 DEF Inv, VerdictInv, AskPhase
  <2> QED
    BY <1>3, <1>4, <2>1, <2>2, <2>3 DEF Inv
<1> QED
  BY <1>1, <1>5, <1>6

LEMMA StageChildKeeps == Inv /\ StageChild => Inv'
<1> SUFFICES ASSUME Inv, StageChild PROVE Inv'
  OBVIOUS
<1> DEFINE c == Order[step]
<1>1. /\ pc = "stage" /\ step \in 1..8
      /\ UNCHANGED <<has, verdicts, tested, features, original, fingerprint, intruder>>
      /\ \/ /\ pc' = "stage" /\ step' = step + 1 /\ trial' = trial
            /\ IF CanStage(c) THEN Written(c, 1) ELSE UNCHANGED <<count, value>>
         \/ /\ pc' = "undo" /\ step' = 1 /\ trial' = [value |-> 1, path |-> 1]
            /\ UNCHANGED <<count, value>>
  BY PositionFacts DEF StageChild, Step, Goto, found, Inv, Types
<1>2. c \in Counts /\ Position[c] = step
  BY <1>1, PositionFacts
<1> HIDE DEF c
<1>3. CanStage(c) => c = "target" \/ Exists(Tree, c)
  BY DEF CanStage
<1>4. /\ count' \in [Counts -> {0, 1}] /\ value' \in [ValuePaths -> Contents] /\ Honest(Tree)'
      /\ \A p \in ValuePaths : value'[p] = value[p] \/ value'[p] = "default"
  <2>1. CASE UNCHANGED <<count, value>>
    BY <1>1, <2>1, StillThere DEF Inv, Types, SoundInv
  <2>2. CASE CanStage(c) /\ Written(c, 1)
    BY <1>1, <1>2, <1>3, <2>2, WrittenFacts DEF Inv, SoundInv
  <2> QED
    BY <1>1, <2>1, <2>2
<1>5. Types' /\ ForeignInv' /\ BackInv'
  BY <1>1, <1>4, StillForeign DEF Inv, Types, BackInv
<1>6. SoundInv'
  <2>1. pc' \notin JobPhase
    BY <1>1 DEF JobPhase
  <2> QED
    BY <1>1, <1>4, <2>1, StillSound, JobFacts
<1>7. CASE pc' = "undo"
  BY <1>5, <1>6, <1>7, Quiet
<1>8. CASE pc' = "stage"
  <2>1. StepInv' /\ NothingInvented' /\ NothingDenied'
    BY <1>1, <1>8 DEF StepInv, NothingInvented, NothingDenied, JobPhase
  <2>2. VerdictInv'
    BY <1>1, <1>8 DEF Inv, VerdictInv, Undisturbed, AskPhase
  <2>3. ASSUME Undisturbed
        PROVE  /\ value' = Defaults
               /\ \A d \in Counts : count'[d] = IF Position[d] < step + 1 THEN Full(d) ELSE 0
    <3>1. /\ value = Defaults /\ value \in [ValuePaths -> Contents]
          /\ \A d \in Counts : count[d] = IF Position[d] < step THEN Full(d) ELSE 0
      BY <1>1, <2>3 DEF Inv, Types, StageInv, TrialInv
    <3>2. value' = Defaults
      BY <1>4, <3>1 DEF Defaults
    <3>3. CanStage(c) <=> Full(c) = 1
      <4>1. c \in {"pfilters", "preps"} => ("probes" \in has => count["probes"] = 1)
        BY <1>2, <3>1, PositionFacts DEF Full, Stageable, Counts
      <4>2. CASE c \in {"filters", "core", "ops", "goals", "probes"}
        <5>1. Exists(Tree, c) <=> c \in has
          BY <4>2, ChildExists DEF Tree
        <5> QED
          BY <4>2, <5>1 DEF CanStage, Full, Stageable
      <4>3. CASE c \in {"pfilters", "preps"}
        <5>1. Exists(Tree, c) <=> c \in has /\ "probes" \in has /\ count["probes"] > 0
          BY <4>3, ChildExists DEF Tree
        <5> QED
          BY <4>1, <4>3, <5>1 DEF CanStage, Full, Stageable
      <4>4. CASE c = "target"
        BY <4>4 DEF CanStage, Full, Stageable
      <4> QED
        BY <1>2, <4>2, <4>3, <4>4 DEF Counts
    <3>4. \A d \in Counts : Within(d, c) => Position[d] > Position[c]
      <4>1. \A d \in Counts : Within(d, c) => d \in {"pfilters", "preps"} /\ c = "probes"
        BY <1>2, BelowFacts DEF Within, Counts
      <4> QED
        BY <4>1, PositionFacts
    <3>5. \A d \in Counts : count'[d] = IF d = c THEN Full(c) ELSE count[d]
      <4>1. CASE CanStage(c)
        <5>1. /\ count'[c] = 1
              /\ \A d \in Counts \ {c} : count'[d] = IF Within(d, c) THEN 0 ELSE count[d]
          BY <1>1, <1>2, <1>3, <1>8, <4>1, WrittenFacts DEF Inv, SoundInv
        <5>2. \A d \in Counts \ {c} : Within(d, c) => count[d] = 0
          BY <1>1, <1>2, <3>1, <3>4, PositionFacts
        <5> QED
          BY <3>3, <4>1, <5>1, <5>2
      <4>2. CASE ~CanStage(c)
        <5>1. count' = count /\ Full(c) = 0 /\ count[c] = 0
          BY <1>1, <1>2, <1>8, <3>1, <3>3, <4>2, PositionFacts DEF Full
        <5> QED
          BY <5>1
      <4> QED
        BY <4>1, <4>2
    <3>6. \A d \in Counts : Position[d] = step <=> d = c
      BY <1>2, PositionFacts DEF Position, Counts
    <3>7. \A d \in Counts : count'[d] = IF Position[d] < step + 1 THEN Full(d) ELSE 0
      BY <1>1, <3>1, <3>5, <3>6, PositionFacts
    <3> QED
      BY <3>2, <3>7
  <2>4. \A d : Full(d)' = Full(d)
    BY <1>1 DEF Full, Stageable
  <2>5. StageInv' /\ TrialInv'
    BY <1>1, <1>8, <2>3, <2>4 DEF StageInv, TrialInv, Undisturbed, TrialPhase, AskPhase, JobPhase
  <2> QED
    BY <1>5, <1>6, <2>1, <2>2, <2>5 DEF Inv
<1> QED
  BY <1>1, <1>7, <1>8

LEMMA StagedKeeps == Inv /\ Staged => Inv'
<1> SUFFICES ASSUME Inv, Staged PROVE Inv'
  OBVIOUS
<1>1. /\ pc = "stage" /\ step = 9 /\ pc' = "job" /\ step' = 1
      /\ trial' = [value |-> 1, path |-> 1]
      /\ UNCHANGED <<has, count, value, verdicts, tested, features, original, fingerprint, intruder>>
  BY PositionFacts DEF Staged, Step, Goto, found
<1>2. Types' /\ ForeignInv' /\ BackInv'
  BY <1>1, StillForeign DEF Inv, Types, BackInv
<1>3. SoundInv'
  <2>1. pc' \notin JobPhase
    BY <1>1 DEF JobPhase
  <2>2. Honest(Tree)'
    BY <1>1, StillThere DEF Inv, SoundInv
  <2> QED
    BY <1>1, <2>1, <2>2, StillSound
<1>4. StageInv'
  <2>1. Undisturbed => \A c \in Counts : count[c] = Full(c)
    BY <1>1, PositionFacts DEF Inv, StageInv
  <2> QED
    BY <1>1, <2>1, StillThere DEF StageInv, Undisturbed, TrialPhase
<1>5. TrialInv' /\ StepInv'
  BY <1>1, JobFacts DEF Inv, TrialInv, StepInv, Undisturbed, JobPhase
<1>6. NothingInvented' /\ NothingDenied'
  BY <1>1 DEF NothingInvented, NothingDenied
<1>7. VerdictInv'
  <2>1. Undisturbed => verdicts' = {}
    BY <1>1 DEF Inv, VerdictInv
  <2>2. \A j, k, i : j \in DOMAIN Jobs => ~Asked(j, k, i)'
    BY <1>1, JobFacts DEF Asked
  <2>3. Undisturbed => KnownInv' /\ AskedInv'
    BY <2>1, <2>2 DEF KnownInv, AskedInv
  <2> QED
    BY <1>1, <2>3 DEF VerdictInv, Undisturbed
<1> QED
  BY <1>2, <1>3, <1>4, <1>5, <1>6, <1>7 DEF Inv

\* What holds of a step from trial to trial that leaves what is staged.
LEMMA TrialStep ==
    ASSUME Inv, pc \in TrialPhase, pc' \in TrialPhase, UNCHANGED <<has, count, intruder>>
    PROVE  /\ ForeignInv' /\ BackInv' /\ StageInv' /\ NothingInvented' /\ NothingDenied'
           /\ Honest(Tree)' /\ \A p : There(p)' <=> There(p)
           /\ Undisturbed' <=> Undisturbed
<1>1. pc # "check" /\ pc' # "check" /\ pc \notin {"lost", "unrestored"}
      /\ pc' \notin {"open", "ok", "failed", "stage"}
  BY DEF TrialPhase, AskPhase, JobPhase
<1>2. ForeignInv' /\ BackInv'
  BY <1>1, StillForeign DEF BackInv
<1>3. StageInv'
  BY <1>1, StillThere DEF Inv, StageInv, Undisturbed
<1>4. NothingInvented' /\ NothingDenied'
  BY <1>1 DEF NothingInvented, NothingDenied
<1>5. Honest(Tree)' /\ \A p : There(p)' <=> There(p)
  BY StillThere DEF Inv, SoundInv
<1> QED
  BY <1>2, <1>3, <1>4, <1>5 DEF Undisturbed

\* No question is new, and no answer.
LEMMA NothingAsked ==
    ASSUME Inv, pc \in AskPhase, pc' \in AskPhase \ {"read_back"}, pc # "read_back",
           UNCHANGED <<has, verdicts, tested, intruder>>,
           Undisturbed => \A p : There(p)' <=> There(p),
           \A j \in DOMAIN Jobs : \A k \in DOMAIN Jobs[j].values, i \in DOMAIN Jobs[j].paths :
                Asked(j, k, i)' /\ There(Jobs[j].paths[i]) => Asked(j, k, i)
    PROVE  VerdictInv'
<1>1. ~(pc' \in {"open", "reconstruct", "stage"})
  BY DEF AskPhase
<1>2. ASSUME Undisturbed PROVE KnownInv' /\ AskedInv'
  <2>1. KnownInv /\ AskedInv /\ \A p, v : ~Pending(p, v)
    BY <1>2 DEF Inv, VerdictInv, Pending
  <2>2. KnownInv'
    BY <1>2, <2>1 DEF KnownInv
  <2>3. AskedInv'
    BY <1>2, <2>1 DEF AskedInv
  <2> QED
    BY <2>2, <2>3
<1> QED
  BY <1>1, <1>2 DEF VerdictInv, Undisturbed

LEMMA StartJobKeeps == Inv /\ StartJob => Inv'
<1> SUFFICES ASSUME Inv, StartJob PROVE Inv'
  OBVIOUS
<1>1. /\ pc = "job" /\ step \in DOMAIN Jobs /\ step \in Nat
      /\ UNCHANGED <<has, count, value, verdicts, tested, features, fingerprint, intruder>>
      /\ trial' = [value |-> 1, path |-> 1]
      /\ \/ /\ pc' = "try" /\ step' = step /\ Job.how = "reset" /\ original' = original
         \/ /\ pc' = "try" /\ step' = step /\ Job.how # "reset"
            /\ original' = value[Job.paths[1]]
         \/ /\ pc' = "job" /\ step' = step + 1 /\ Job.how # "reset" /\ ~There(Job.paths[1])
            /\ original' = original
         \/ pc' = "undo" /\ step' = 1 /\ original' = original
  BY JobFacts DEF StartJob, Ask, NextJob, Goto, Step, Inv, Types, found
<1>2. Job.how # "reset" => Job.paths[1] \in ValuePaths
  <2>1. Job.how # "reset" => 1 \in DOMAIN Jobs[step].paths
    BY <1>1, JobFacts DEF Job
  <2> QED
    BY <1>1, <2>1, JobFacts DEF Job
<1>3. Types'
  BY <1>1, <1>2 DEF Inv, Types
<1>4. SoundInv'
  <2>1. Honest(Tree)'
    BY <1>1, StillThere DEF Inv, SoundInv
  <2>2. pc' \in JobPhase /\ Job'.how # "reset" =>
            original' \notin AllValues \/ (Taken(Job.paths[1], original') /\ Job' = Job)
    <3>1. pc' \in JobPhase => pc' = "try" /\ Job' = Job
      BY <1>1 DEF JobPhase, Job
    <3>2. value[Job.paths[1]] \in AllValues /\ Job.how # "reset" =>
                Taken(Job.paths[1], value[Job.paths[1]])
      BY <1>2 DEF Inv, SoundInv, ValuesSound
    <3> QED
      BY <1>1, <3>1, <3>2
  <2> QED
    BY <1>1, <2>1, <2>2, StillSound
<1>5. CASE pc' = "undo"
  <2>1. ForeignInv' /\ BackInv'
    BY <1>1, <1>5, StillForeign DEF BackInv
  <2> QED
    BY <1>3, <1>4, <1>5, <2>1, Quiet
<1>6. CASE pc' \in {"try", "job"}
  <2>1. /\ ForeignInv' /\ BackInv' /\ StageInv' /\ NothingInvented' /\ NothingDenied'
        /\ (\A p : There(p)' <=> There(p)) /\ (Undisturbed' <=> Undisturbed)
    BY <1>1, <1>6, TrialStep DEF TrialPhase, AskPhase
  <2>2. StepInv'
    <3>1. step \in 1..Len(Jobs) /\ Len(Jobs) \in Nat
      BY <1>1, JobFacts
    <3>2. CASE pc' = "try"
      BY <1>1, <3>2 DEF StepInv, JobPhase
    <3>3. CASE pc' = "job"
      BY <1>1, <3>1, <3>3 DEF StepInv, JobPhase
    <3> QED
      BY <1>6, <3>2, <3>3
  <2>3. TrialInv'
    <3>1. Undisturbed => value' = Defaults /\ \A p \in ValuePaths : value'[p] = "default"
      BY <1>1 DEF Inv, TrialInv, Defaults
    <3>2. pc' \in JobPhase => Job' = Job /\ (Job.how # "reset" => original' = value[Job.paths[1]])
      BY <1>1, <1>6 DEF JobPhase, Job
    <3> QED
      BY <1>1, <1>2, <1>6, <2>1, <3>1, <3>2 DEF TrialInv
  <2>4. VerdictInv'
    <3>1. ASSUME NEW j \in DOMAIN Jobs, NEW k \in DOMAIN Jobs[j].values,
                 NEW i \in DOMAIN Jobs[j].paths, Asked(j, k, i)', There(Jobs[j].paths[i])
          PROVE  Asked(j, k, i)
      <4>1. j \in Nat /\ k \in Nat \ {0} /\ i \in Nat \ {0}
        BY JobFacts
      <4>2. CASE pc' = "try"
        BY <1>1, <3>1, <4>1, <4>2 DEF Asked
      <4>3. CASE pc' = "job"
        <5>1. j < step + 1
          BY <1>1, <3>1, <4>3 DEF Asked
        <5>2. j = step => i = 1
          BY <1>1, <4>3, JobFacts DEF Job
        <5>3. j # step
          BY <1>1, <3>1, <4>3, <5>2 DEF Job
        <5> QED
          BY <1>1, <4>1, <5>1, <5>3 DEF Asked
      <4> QED
        BY <1>6, <4>2, <4>3
    <3> QED
      BY <1>1, <1>6, <2>1, <3>1, NothingAsked DEF AskPhase
  <2> QED
    BY <1>3, <1>4, <2>1, <2>2, <2>3, <2>4 DEF Inv
<1> QED
  BY <1>1, <1>5, <1>6

\* The question that is being asked.
LEMMA AskingFacts ==
    ASSUME Inv, step \in DOMAIN Jobs, trial.value \in DOMAIN Job.values, trial.path \in DOMAIN Job.paths
    PROVE  /\ Path \in JobPathsOf(step) /\ Path \in ValuePaths
           /\ Candidate \in AllValues
           /\ Accepted \in Support \ {Unsupported}
           /\ trial = [value |-> trial.value, path |-> trial.path]
           /\ trial.value \in Nat \ {0} /\ trial.path \in Nat \ {0}
           /\ TryNext(Path) => trial' = [value |-> trial.value, path |-> trial.path + 1]
<1>1. Path \in JobPathsOf(step) /\ Path \in ValuePaths /\ Candidate \in AllValues
  BY JobFacts DEF Path, Candidate, Job
<1>2. /\ trial.value \in Nat \ {0} /\ trial.path \in Nat \ {0}
      /\ trial = [value |-> trial.value, path |-> trial.path]
  BY DEF Inv, Types
<1>3. Accepted \in Support \ {Unsupported}
  BY DEF Accepted, Support, Unsupported, Unverified, Supported
<1>4. TryNext(Path) => trial' = [value |-> trial.value, path |-> trial.path + 1]
  BY <1>2 DEF TryNext
<1> QED
  BY <1>1, <1>2, <1>3, <1>4

LEMMA TryValueKeeps == Inv /\ TryValue => Inv'
<1> SUFFICES ASSUME Inv, TryValue PROVE Inv'
  OBVIOUS
<1>1. /\ pc = "try" /\ step \in DOMAIN Jobs /\ trial.value \in DOMAIN Job.values
      /\ trial.path \in DOMAIN Job.paths
      /\ UNCHANGED <<has, count, step, tested, original, fingerprint, intruder, features>>
  <2>1. /\ pc = "try" /\ trial.value <= Len(Job.values) /\ trial.path <= Len(Job.paths)
        /\ UNCHANGED <<has, count, step, tested, original, fingerprint, intruder, features>>
    BY DEF TryValue, Trying, Step
  <2>2. step \in DOMAIN Jobs /\ trial.value \in Nat \ {0} /\ trial.path \in Nat \ {0}
    BY <2>1 DEF Inv, Types, StepInv, JobPhase
  <2>3. trial.value \in DOMAIN Job.values /\ trial.path \in DOMAIN Job.paths
    BY <2>1, <2>2, JobFacts DEF Job
  <2> QED
    BY <2>1, <2>2, <2>3
<1>2. /\ Path \in JobPathsOf(step) /\ Path \in ValuePaths /\ Candidate \in AllValues
      /\ trial.value \in Nat \ {0} /\ trial.path \in Nat \ {0}
      /\ TryNext(Path) => trial' = [value |-> trial.value, path |-> trial.path + 1]
  BY <1>1, AskingFacts
<1>3. \/ /\ There(Path) /\ pc' = "read_back" /\ trial' = trial
         /\ verdicts' = verdicts \cup {<<Path, Candidate, "taken">>}
         /\ value' = [value EXCEPT ![Path] = Candidate]
      \/ /\ There(Path) /\ pc' = "read_back" /\ trial' = trial
         /\ verdicts' = verdicts \cup {<<Path, Candidate, "ignored">>} /\ value' = value
      \/ /\ There(Path) /\ pc' = "try"
         /\ trial' = [value |-> trial.value, path |-> trial.path + 1]
         /\ verdicts' = verdicts \cup {<<Path, Candidate, "refused">>} /\ value' = value
      \/ pc' = "reset_failed" /\ UNCHANGED <<verdicts, value, trial>>
      \/ /\ ~There(Path) /\ pc' = "try"
         /\ trial' = [value |-> trial.value, path |-> trial.path + 1]
         /\ UNCHANGED <<verdicts, value>>
  BY <1>1, <1>2 DEF TryValue
<1>4. /\ ForeignInv' /\ BackInv' /\ StageInv' /\ NothingInvented' /\ NothingDenied'
      /\ (\A p : There(p)' <=> There(p)) /\ (Undisturbed' <=> Undisturbed) /\ Honest(Tree)'
  BY <1>1, <1>3, TrialStep DEF TrialPhase, AskPhase, JobPhase
<1>5. Types'
  <2>1. trial' \in [value : Nat \ {0}, path : Nat \ {0}]
    <3>1. trial \in [value : Nat \ {0}, path : Nat \ {0}]
      BY DEF Inv, Types
    <3>2. [value |-> trial.value, path |-> trial.path + 1] \in [value : Nat \ {0}, path : Nat \ {0}]
      BY <1>2
    <3> QED
      BY <1>3, <3>1, <3>2
  <2>2. value' \in [ValuePaths -> Contents]
    <3>1. value \in [ValuePaths -> Contents] /\ Candidate \in Contents
      BY <1>2 DEF Inv, Types, Contents
    <3> QED
      BY <1>2, <1>3, <3>1
  <2> QED
    BY <1>1, <2>1, <2>2 DEF Inv, Types
<1>6. StepInv' /\ Job' = Job
  BY <1>1, <1>3 DEF StepInv, JobPhase, Job
<1>7. SoundInv'
  <2>1. verdicts \subseteq verdicts'
    BY <1>3
  <2>2. ValuesSound'
    <3>1. CASE value' = value
      BY <2>1, <3>1 DEF Inv, SoundInv, ValuesSound, Taken
    <3>2. CASE /\ value' = [value EXCEPT ![Path] = Candidate]
               /\ verdicts' = verdicts \cup {<<Path, Candidate, "taken">>}
      <4>1. \A p \in ValuePaths : value'[p] = IF p = Path THEN Candidate ELSE value[p]
        BY <1>2, <3>2 DEF Inv, Types
      <4>2. <<Path, Candidate, "taken">> \in verdicts'
        BY <3>2
      <4> QED
        BY <2>1, <4>1, <4>2 DEF Inv, SoundInv, ValuesSound, Taken
    <3> QED
      BY <1>3, <3>1, <3>2
  <2>3. OriginalSound'
    <3>1. pc \in JobPhase
      BY <1>1 DEF JobPhase
    <3> QED
      BY <1>1, <1>6, <2>1, <3>1 DEF Inv, SoundInv, OriginalSound, Taken
  <2>4. TestedSound'
    BY <1>1, <2>1 DEF Inv, SoundInv, TestedSound, Taken
  <2> QED
    BY <1>4, <2>2, <2>3, <2>4 DEF SoundInv
<1>8. TrialInv'
  <2>1. pc' \in JobPhase /\ pc' \notin {"stage", "job", "check"}
    BY <1>3 DEF JobPhase
  <2>2. ASSUME Undisturbed, NEW p \in ValuePaths, value'[p] # "default"
        PROVE  p \in JobPathsOf(step') /\ There(p)'
    <3>1. value[p] # "default" => p \in JobPathsOf(step) /\ There(p)
      BY <1>1, <2>2 DEF Inv, TrialInv, JobPhase
    <3>2. value'[p] = value[p] \/ (p = Path /\ There(Path))
      BY <1>2, <1>3 DEF Inv, Types
    <3> QED
      BY <1>1, <1>2, <1>4, <2>2, <3>1, <3>2
  <2>3. Undisturbed /\ Job.how # "reset" => original = "default"
    BY <1>1 DEF Inv, TrialInv, JobPhase
  <2> QED
    BY <1>1, <1>4, <1>6, <2>1, <2>2, <2>3 DEF TrialInv
<1>9. VerdictInv'
  <2>1. pc' \notin {"open", "reconstruct", "stage"}
    BY <1>3
  <2>2. ASSUME Undisturbed, pc' \in {"try", "read_back"} PROVE KnownInv'
    <3>1. KnownInv /\ \A p, v : ~Pending(p, v)
      BY <1>1, <2>2 DEF Inv, VerdictInv, Pending, AskPhase
    <3> SUFFICES ASSUME NEW p, NEW v, NEW w, <<p, v, w>> \in verdicts'
                 PROVE  v \in AllValues /\ There(p)' /\
                        (w = "taken" => tested'[v] # Unsupported \/ Pending(p, v)')
      BY DEF KnownInv
    <3>2. CASE <<p, v, w>> \in verdicts
      BY <1>1, <1>4, <3>1, <3>2 DEF KnownInv
    <3>3. CASE <<p, v, w>> \notin verdicts
      <4>0. PICK x : /\ verdicts' = verdicts \cup {<<Path, Candidate, x>>} /\ There(Path)
                     /\ x = "taken" => pc' = "read_back" /\ trial' = trial
                                        /\ value' = [value EXCEPT ![Path] = Candidate]
        <5>1. verdicts' # verdicts
          BY <3>3
        <5>2. "ignored" # "taken" /\ "refused" # "taken"
          OBVIOUS
        <5> QED
          BY <1>3, <5>1, <5>2, Zenon
      <4>1. p = Path /\ v = Candidate /\ w = x /\ There(Path)
        <5>1. <<p, v, w>> = <<Path, Candidate, x>>
          BY <3>3, <4>0
        <5> QED
          BY <4>0, <5>1
      <4>2. w = "taken" => pc' = "read_back" /\ trial' = trial
                            /\ value' = [value EXCEPT ![Path] = Candidate]
        BY <4>0, <4>1
      <4>3. w = "taken" => Path' = Path /\ Candidate' = Candidate /\ value'[Path] = Candidate
        BY <1>1, <1>2, <4>2 DEF Path, Candidate, Job, Inv, Types
      <4> QED
        BY <1>2, <1>4, <4>1, <4>2, <4>3 DEF Pending
    <3> QED
      BY <3>2, <3>3
  <2>3. ASSUME Undisturbed, pc' \in {"try", "read_back"} PROVE AskedInv'
    <3>1. AskedInv
      BY <1>1, <2>3 DEF Inv, VerdictInv, AskPhase
    <3> SUFFICES ASSUME NEW j \in DOMAIN Jobs, NEW k \in DOMAIN Jobs[j].values,
                        NEW i \in DOMAIN Jobs[j].paths, Asked(j, k, i)',
                        tested'[Jobs[j].values[k]] = Unsupported, There(Jobs[j].paths[i])'
                 PROVE  \/ <<Jobs[j].paths[i], Jobs[j].values[k], "ignored">> \in verdicts'
                        \/ <<Jobs[j].paths[i], Jobs[j].values[k], "refused">> \in verdicts'
      BY DEF AskedInv
    <3> DEFINE v == Jobs[j].values[k]
               p == Jobs[j].paths[i]
    <3>2. tested[v] = Unsupported /\ There(p) /\ verdicts \subseteq verdicts'
      BY <1>1, <1>3, <1>4
    <3>3. CASE Asked(j, k, i)
      BY <3>1, <3>2, <3>3 DEF AskedInv
    <3>4. CASE ~Asked(j, k, i)
      <4>0. pc' = "try" /\ trial' = [value |-> trial.value, path |-> trial.path + 1]
        <5>1. trial' = trial => Asked(j, k, i)
          BY <1>1, <2>3 DEF Asked
        <5> QED
          BY <1>3, <2>3, <3>4, <5>1
      <4>1. /\ j = step /\ k = trial.value /\ k \in Nat /\ i \in Nat /\ i >= trial.path
            /\ j \in Nat
        <5>1. trial'.value = trial.value /\ trial'.path = trial.path + 1
          BY <4>0
        <5> QED
          BY <1>1, <1>2, <3>4, <4>0, <5>1, JobFacts DEF Asked
      <4>2. i = trial.path
        <5>1. trial'.value = trial.value /\ trial'.path = trial.path + 1
          BY <4>0
        <5>2. i < trial'.path
          BY <1>1, <1>2, <4>0, <4>1, <5>1 DEF Asked
        <5> QED
          BY <1>2, <4>1, <5>1, <5>2
      <4>3. p = Path /\ v = Candidate
        BY <4>1, <4>2 DEF Path, Candidate, Job
      <4> QED
        BY <1>3, <3>2, <4>0, <4>3
    <3> QED
      BY <3>3, <3>4
  <2>4. pc' = "read_back" /\ value'[Path'] # Candidate' => <<Path', Candidate', "ignored">> \in verdicts'
    <3> SUFFICES ASSUME pc' = "read_back", value'[Path'] # Candidate'
                 PROVE  <<Path', Candidate', "ignored">> \in verdicts'
      OBVIOUS
    <3>1. Path' = Path /\ Candidate' = Candidate
      BY <1>1, <1>3 DEF Path, Candidate, Job
    <3>2. [value EXCEPT ![Path] = Candidate][Path] = Candidate
      BY <1>2 DEF Inv, Types
    <3> QED
      BY <1>3, <3>1, <3>2
  <2>5. pc' \in AskPhase => pc' \in {"try", "read_back"}
    BY <1>3 DEF AskPhase
  <2> QED
    BY <1>4, <2>1, <2>2, <2>3, <2>4, <2>5 DEF VerdictInv
<1> QED
  BY <1>4, <1>5, <1>6, <1>7, <1>8, <1>9 DEF Inv

LEMMA ReadBackKeeps == Inv /\ ReadBack => Inv'
<1> SUFFICES ASSUME Inv, ReadBack PROVE Inv'
  OBVIOUS
<1>1. /\ pc = "read_back" /\ step \in DOMAIN Jobs /\ trial.value \in DOMAIN Job.values
      /\ trial.path \in DOMAIN Job.paths
      /\ UNCHANGED <<has, count, value, verdicts, step, original, fingerprint, intruder, features>>
  BY DEF ReadBack, Step, Inv, StepInv, JobPhase
<1>2. /\ Path \in JobPathsOf(step) /\ Path \in ValuePaths /\ Candidate \in AllValues
      /\ Accepted \in Support \ {Unsupported}
      /\ trial.value \in Nat \ {0} /\ trial.path \in Nat \ {0}
      /\ TryNext(Path) => trial' = [value |-> trial.value, path |-> trial.path + 1]
  BY <1>1, AskingFacts
<1>3. \/ /\ pc' = "try" /\ value[Path] = Candidate
         /\ trial' = [value |-> trial.value + 1, path |-> 1]
         /\ tested' = [tested EXCEPT ![Candidate] = Accepted]
      \/ /\ pc' = "try" /\ value[Path] # Candidate /\ tested' = tested
         /\ trial' = [value |-> trial.value, path |-> trial.path + 1]
      \/ pc' = "reset_failed" /\ UNCHANGED <<tested, trial>>
  BY <1>2 DEF ReadBack, Found, NextValue
<1>4. /\ ForeignInv' /\ BackInv' /\ StageInv' /\ NothingInvented' /\ NothingDenied'
      /\ (\A p : There(p)' <=> There(p)) /\ (Undisturbed' <=> Undisturbed) /\ Honest(Tree)'
  BY <1>1, <1>3, TrialStep DEF TrialPhase, AskPhase, JobPhase
<1>5. Types'
  <2>1. tested' \in [AllValues -> Support]
    BY <1>2, <1>3 DEF Inv, Types
  <2>2. trial' \in [value : Nat \ {0}, path : Nat \ {0}]
    BY <1>2, <1>3 DEF Inv, Types
  <2> QED
    BY <1>1, <2>1, <2>2 DEF Inv, Types
<1>6. StepInv' /\ Job' = Job
  BY <1>1, <1>3 DEF StepInv, JobPhase, Job
<1>7. \A v \in AllValues : /\ tested[v] # Unsupported => tested'[v] # Unsupported
                           /\ tested'[v] # Unsupported => tested[v] # Unsupported \/ v = Candidate
  BY <1>2, <1>3 DEF Inv, Types
<1>8. SoundInv'
  <2>1. ASSUME NEW v \in AllValues, tested'[v] # Unsupported
        PROVE  (v \in OperationNames /\ "avail" \in has) \/ \E p : Taken(p, v)
    <3>1. CASE tested[v] # Unsupported
      BY <3>1 DEF Inv, SoundInv, TestedSound
    <3>2. CASE tested[v] = Unsupported
      <4>1. v = Candidate /\ value[Path] = Candidate
        BY <1>3, <1>7, <2>1, <3>2
      <4>2. Taken(Path, Candidate)
        BY <1>2, <4>1 DEF Inv, SoundInv, ValuesSound
      <4> QED
        BY <4>1, <4>2
    <3> QED
      BY <3>1, <3>2
  <2>2. TestedSound'
    BY <1>1, <2>1 DEF TestedSound, Taken
  <2>3. OriginalSound'
    <3>1. pc \in JobPhase
      BY <1>1 DEF JobPhase
    <3> QED
      BY <1>1, <1>6, <3>1 DEF Inv, SoundInv, OriginalSound, Taken
  <2>4. ValuesSound'
    BY <1>1 DEF Inv, SoundInv, ValuesSound, Taken
  <2> QED
    BY <1>4, <2>2, <2>3, <2>4 DEF SoundInv
<1>9. TrialInv'
  BY <1>1, <1>3, <1>4, <1>6 DEF Inv, TrialInv, JobPhase
<1>10. VerdictInv'
  <2>1. pc' \notin {"open", "reconstruct", "stage", "read_back"}
    BY <1>3
  <2>2. ASSUME Undisturbed, pc' = "try" PROVE KnownInv'
    <3>1. KnownInv
      BY <1>1, <2>2 DEF Inv, VerdictInv, AskPhase
    <3> SUFFICES ASSUME NEW p, NEW v, NEW w, <<p, v, w>> \in verdicts'
                 PROVE  v \in AllValues /\ There(p)' /\ (w = "taken" => tested'[v] # Unsupported)
      BY DEF KnownInv
    <3>2. v \in AllValues /\ There(p)' /\
          (w = "taken" => tested[v] # Unsupported \/ Pending(p, v))
      BY <1>1, <1>4, <3>1 DEF KnownInv
    <3>3. Pending(p, v) => tested'[v] # Unsupported
      <4> SUFFICES ASSUME Pending(p, v) PROVE tested'[v] # Unsupported
        OBVIOUS
      <4>1. v = Candidate /\ value[Path] = Candidate
        BY DEF Pending
      <4> QED
        BY <1>2, <1>3, <2>2, <4>1 DEF Inv, Types
    <3> QED
      BY <1>7, <3>2, <3>3
  <2>3. ASSUME Undisturbed, pc' = "try" PROVE AskedInv'
    <3>1. AskedInv /\ (value[Path] # Candidate => <<Path, Candidate, "ignored">> \in verdicts)
      BY <1>1, <2>3 DEF Inv, VerdictInv, AskPhase
    <3> SUFFICES ASSUME NEW j \in DOMAIN Jobs, NEW k \in DOMAIN Jobs[j].values,
                        NEW i \in DOMAIN Jobs[j].paths, Asked(j, k, i)',
                        tested'[Jobs[j].values[k]] = Unsupported, There(Jobs[j].paths[i])'
                 PROVE  \/ <<Jobs[j].paths[i], Jobs[j].values[k], "ignored">> \in verdicts'
                        \/ <<Jobs[j].paths[i], Jobs[j].values[k], "refused">> \in verdicts'
      BY DEF AskedInv
    <3> DEFINE v == Jobs[j].values[k]
               p == Jobs[j].paths[i]
    <3>2. v \in AllValues /\ tested[v] = Unsupported /\ There(p)
      BY <1>4, <1>7, JobFacts
    <3>3. CASE Asked(j, k, i)
      BY <1>1, <3>1, <3>2, <3>3 DEF AskedInv
    <3>4. CASE ~Asked(j, k, i)
      <4>1. j = step /\ j \in Nat /\ k \in Nat \ {0} /\ i \in Nat \ {0}
        <5>1. j = step
          BY <1>1, <2>3, <3>4 DEF Asked
        <5> QED
          BY <5>1, JobFacts
      <4>2. ~(k < trial.value) /\ ~(k = trial.value /\ i < trial.path)
        BY <1>1, <3>4, <4>1 DEF Asked
      <4>3. k < trial'.value \/ (k = trial'.value /\ i < trial'.path)
        <5>1. step' = j /\ j \in Nat
          BY <1>1, <4>1
        <5>2. pc' = "try" /\ ~(j < step')
          BY <2>3, <5>1
        <5> QED
          BY <5>2 DEF Asked
      <4>4. k = trial.value
        BY <1>2, <1>3, <2>3, <4>1, <4>2, <4>3
      <4>5. v = Candidate
        BY <4>1, <4>4 DEF Candidate, Job
      <4>6. value[Path] # Candidate
        <5>1. tested'[Candidate] = Unsupported
          BY <4>5
        <5> QED
          BY <1>2, <1>3, <2>3, <5>1 DEF Inv, Types
      <4>7. trial'.value = trial.value /\ trial'.path = trial.path + 1
        BY <1>3, <2>3, <4>6
      <4>8. i = trial.path
        BY <1>2, <4>1, <4>2, <4>3, <4>4, <4>7
      <4>9. p = Path
        BY <4>1, <4>8 DEF Path, Job
      <4> QED
        BY <1>1, <3>1, <4>5, <4>6, <4>9
    <3> QED
      BY <3>3, <3>4
  <2>4. pc' \in AskPhase => pc' = "try"
    BY <1>3 DEF AskPhase
  <2> QED
    BY <1>4, <2>1, <2>2, <2>3, <2>4 DEF VerdictInv
<1> QED
  BY <1>4, <1>5, <1>6, <1>8, <1>9, <1>10 DEF Inv

\* The two steps that only count: what they leave.
LEMMA CountingKeeps ==
    ASSUME Inv, pc = "try", pc' \in {"try", "reset"}, step \in DOMAIN Jobs, Types',
           UNCHANGED <<has, count, value, step, verdicts, tested, original, fingerprint, intruder>>,
           \A j \in DOMAIN Jobs : \A k \in DOMAIN Jobs[j].values, i \in DOMAIN Jobs[j].paths :
                Asked(j, k, i)' => Asked(j, k, i)
    PROVE  Inv'
<1>1. /\ ForeignInv' /\ BackInv' /\ StageInv' /\ NothingInvented' /\ NothingDenied'
      /\ (\A p : There(p)' <=> There(p)) /\ (Undisturbed' <=> Undisturbed) /\ Honest(Tree)'
  BY TrialStep DEF TrialPhase, AskPhase
<1>2. Job' = Job
  BY DEF Job
<1>3. SoundInv'
  <2>1. pc \in JobPhase
    BY DEF JobPhase
  <2> QED
    BY <1>1, <1>2, <2>1, StillSound
<1>4. StepInv' /\ TrialInv'
  BY <1>1, <1>2 DEF Inv, StepInv, TrialInv, JobPhase
<1>5. VerdictInv'
  BY <1>1, NothingAsked DEF AskPhase
<1> QED
  BY <1>1, <1>3, <1>4, <1>5 DEF Inv

LEMMA ValueExhaustedKeeps == Inv /\ ValueExhausted => Inv'
<1> SUFFICES ASSUME Inv, ValueExhausted PROVE Inv'
  OBVIOUS
<1>1. /\ pc = "try" /\ pc' = "try" /\ step \in DOMAIN Jobs /\ step \in Nat
      /\ trial.path = Len(Jobs[step].paths) + 1 /\ trial.value \in Nat \ {0}
      /\ trial' = [value |-> trial.value + 1, path |-> 1]
      /\ UNCHANGED <<has, count, value, step, verdicts, tested, original, fingerprint, intruder>>
  BY DEF ValueExhausted, Trying, Step, Inv, Types, StepInv, JobPhase, Job, NextValue, found
<1>2. Types'
  BY <1>1 DEF Inv, Types
<1>3. ASSUME NEW j \in DOMAIN Jobs, NEW k \in DOMAIN Jobs[j].values,
             NEW i \in DOMAIN Jobs[j].paths, Asked(j, k, i)'
      PROVE  Asked(j, k, i)
  <2>1. CASE j < step
    BY <2>1 DEF Asked
  <2>2. CASE ~(j < step)
    <3>1. j = step /\ k \in Nat \ {0} /\ i \in 1..Len(Jobs[step].paths) /\ Len(Jobs[step].paths) \in Nat
      BY <1>1, <1>3, <2>2, JobFacts DEF Asked
    <3>2. trial'.value = trial.value + 1 /\ trial'.path = 1
      BY <1>1
    <3>3. k < trial.value + 1
      BY <1>1, <1>3, <2>2, <3>1, <3>2 DEF Asked
    <3> QED
      BY <1>1, <3>1, <3>3 DEF Asked
  <2> QED
    BY <2>1, <2>2
<1> QED
  BY <1>1, <1>2, <1>3, CountingKeeps

LEMMA ValuesTriedKeeps == Inv /\ ValuesTried => Inv'
<1> SUFFICES ASSUME Inv, ValuesTried PROVE Inv'
  OBVIOUS
<1>1. /\ pc = "try" /\ pc' = "reset" /\ step \in DOMAIN Jobs /\ step \in Nat
      /\ trial.value = Len(Jobs[step].values) + 1
      /\ UNCHANGED <<has, count, value, step, trial, verdicts, tested, original, fingerprint, intruder>>
  BY DEF ValuesTried, Step, Inv, Types, StepInv, JobPhase, Job, found
<1>2. Types'
  BY <1>1 DEF Inv, Types
<1>3. ASSUME NEW j \in DOMAIN Jobs, NEW k \in DOMAIN Jobs[j].values,
             NEW i \in DOMAIN Jobs[j].paths, Asked(j, k, i)'
      PROVE  Asked(j, k, i)
  <2>1. CASE j < step
    BY <2>1 DEF Asked
  <2>2. CASE ~(j < step)
    <3>1. j = step /\ k \in 1..Len(Jobs[step].values) /\ Len(Jobs[step].values) \in Nat
      BY <1>1, <1>3, <2>2, JobFacts DEF Asked
    <3> QED
      BY <1>1, <3>1 DEF Asked
  <2> QED
    BY <2>1, <2>2
<1> QED
  BY <1>1, <1>2, <1>3, CountingKeeps

\* What a job leaves of its values.
LEMMA WriteBackFacts ==
    ASSUME Inv, pc \in JobPhase, WriteBack, has' = has
    PROVE  /\ count' \in [Counts -> {0, 1}] /\ value' \in [ValuePaths -> Contents]
           /\ Honest(Tree)'
           /\ \A p \in ValuePaths : value'[p] = value[p] \/ value'[p] \notin AllValues
                                    \/ Taken(p, value'[p])
           /\ Undisturbed /\ pc \in TrialPhase => count' = count /\ value' = Defaults
<1>0. /\ step \in DOMAIN Jobs /\ Job = Jobs[step] /\ JobPaths = JobPathsOf(step)
      /\ count \in [Counts -> {0, 1}] /\ value \in [ValuePaths -> Contents] /\ original \in Contents
  BY DEF Inv, StepInv, Types, Job, JobPaths, JobPathsOf
<1>1. CASE Job.how = "reset"
  <2>1. /\ count' = [c \in Counts |-> IF c \in Renewed THEN 1 ELSE count[c]]
        /\ value' = [p \in ValuePaths |->
                IF p \in Paths /\ Below[p] \in Renewed THEN "default" ELSE value[p]]
    BY <1>1 DEF WriteBack
  <2>2. \A p \in JobPathsOf(step) : p \in Paths /\ Below[p] \in {"filters", "core", "ops", "pfilters"}
    BY <1>0, <1>1, JobsAssumption DEF JobPathsOf
  <2>3. /\ Renewed \subseteq {"filters", "core", "ops", "pfilters"}
        /\ \A c \in Renewed : c \in Counts /\ Exists(Tree, c)
    BY <1>0, <2>2 DEF Renewed
  <2>4. \A c \in Renewed : c \in has /\ (c = "pfilters" => "probes" \in has /\ count["probes"] > 0)
    BY <2>3, ChildExists DEF Tree
  <2>5. count' \in [Counts -> {0, 1}] /\ value' \in [ValuePaths -> Contents]
    BY <1>0, <2>1 DEF Contents
  <2>6. \A p \in ValuePaths : value'[p] = value[p] \/ value'[p] \notin AllValues
    BY <2>1, JobFacts
  <2>7. Honest(Tree)'
    <3>1. /\ "pfilters" \in has => "pfilter" \in has
          /\ \A d \in Counts \cap Paths : count[d] = 1 => d \in has
          /\ count["pfilters"] = 1 \/ count["preps"] = 1 => count["probes"] = 1
      BY DEF Inv, SoundInv, Honest, Tree
    <3>2. \A d \in Counts \cap Paths : count'[d] = 1 => d \in has
      BY <2>1, <2>4, <3>1
    <3>3. /\ "probes" \in Counts /\ "pfilters" \in Counts /\ "preps" \in Counts
          /\ count'["probes"] = count["probes"] /\ count'["preps"] = count["preps"]
          /\ count'["pfilters"] = 1 => "pfilters" \in Renewed \/ count["pfilters"] = 1
      BY <2>1, <2>3 DEF Counts
    <3>4. count'["pfilters"] = 1 \/ count'["preps"] = 1 => count'["probes"] = 1
      BY <1>0, <2>4, <3>1, <3>3
    <3> QED
      BY <2>5, <3>1, <3>2, <3>4 DEF Honest, Tree
  <2>8. ASSUME Undisturbed, pc \in TrialPhase PROVE count' = count /\ value' = Defaults
    <3>1. /\ \A c \in Counts : count[c] = Full(c)
          /\ \A p \in ValuePaths : value[p] # "default" => p \in JobPathsOf(step) /\ There(p)
      BY <2>8 DEF Inv, StageInv, TrialInv
    <3>2. \A c \in Renewed : count[c] = 1
      BY <2>3, <2>4, <3>1 DEF Full, Stageable
    <3>3. count' = count
      BY <1>0, <2>1, <3>2
    <3>4. ASSUME NEW p \in ValuePaths PROVE value'[p] = "default"
      <4>1. CASE value[p] = "default"
        BY <2>1, <4>1
      <4>2. CASE value[p] # "default"
        <5>1. p \in JobPathsOf(step) /\ There(p)
          BY <3>1, <4>2
        <5>2. p \in Paths /\ Below[p] \in {"filters", "core", "ops", "pfilters"} /\ p # "operations"
          BY <2>2, <5>1 DEF Paths, Below
        <5>3. Exists(Tree, p)
          BY <5>1, <5>2 DEF There
        <5>4. Exists(Tree, Below[p])
          BY <5>2, <5>3, BelowFacts DEF Exists, AlwaysThere
        <5>5. Below[p] \in Renewed
          BY <1>0, <5>1, <5>2, <5>4 DEF Renewed, Counts
        <5> QED
          BY <2>1, <5>2, <5>5
      <4> QED
        BY <4>1, <4>2
    <3> QED
      BY <2>1, <3>3, <3>4 DEF Defaults
  <2> QED
    BY <2>5, <2>6, <2>7, <2>8
<1>2. CASE Job.how # "reset"
  <2>1. value' = [value EXCEPT ![Job.paths[1]] = original] /\ count' = count
    BY <1>2 DEF WriteBack
  <2>2. original \in AllValues => Taken(Job.paths[1], original)
    BY <1>2 DEF Inv, SoundInv, OriginalSound
  <2>3. JobPathsOf(step) = {Job.paths[1]} /\ Job.paths[1] \in ValuePaths
    BY <1>0, <1>2, JobFacts DEF JobPathsOf
  <2>4. \A p \in ValuePaths : value'[p] = IF p = Job.paths[1] THEN original ELSE value[p]
    BY <1>0, <2>1
  <2>5. ASSUME Undisturbed, pc \in TrialPhase PROVE value' = Defaults
    <3>1. /\ \A p \in ValuePaths : value[p] # "default" => p \in JobPathsOf(step)
          /\ original = "default"
      BY <1>2, <2>5 DEF Inv, TrialInv
    <3>2. \A p \in ValuePaths : value'[p] = "default"
      BY <2>3, <2>4, <3>1
    <3> QED
      BY <1>0, <2>1, <3>2 DEF Defaults
  <2>6. Honest(Tree)'
    BY <2>1, StillThere DEF Inv, SoundInv
  <2> QED
    BY <1>0, <2>1, <2>2, <2>4, <2>5, <2>6
<1> QED
  BY <1>1, <1>2

LEMMA ResetKeeps == Inv /\ Reset => Inv'
<1> SUFFICES ASSUME Inv, Reset PROVE Inv'
  OBVIOUS
<1>1. /\ pc \in {"reset", "reset_failed"}
      /\ UNCHANGED <<has, verdicts, tested, features, original, fingerprint, intruder>>
      /\ trial' = [value |-> 1, path |-> 1]
      /\ \/ pc = "reset" /\ pc' = "job" /\ step' = step + 1 /\ WriteBack
         \/ pc' = "undo" /\ step' = 1 /\ (WriteBack \/ UNCHANGED <<count, value>>)
  BY DEF Reset, Step, Goto, NextJob, found
<1>2. pc \in JobPhase /\ pc \in TrialPhase /\ pc' \notin JobPhase
  BY <1>1 DEF JobPhase, TrialPhase
<1>3. /\ count' \in [Counts -> {0, 1}] /\ value' \in [ValuePaths -> Contents] /\ Honest(Tree)'
      /\ \A p \in ValuePaths : value'[p] = value[p] \/ value'[p] \notin AllValues
                               \/ Taken(p, value'[p])
      /\ WriteBack /\ Undisturbed => count' = count /\ value' = Defaults
  <2>1. CASE WriteBack
    BY <1>1, <1>2, <2>1, WriteBackFacts
  <2>2. CASE ~WriteBack /\ UNCHANGED <<count, value>>
    BY <1>1, <2>2, StillThere DEF Inv, Types, SoundInv
  <2> QED
    BY <1>1, <2>1, <2>2
<1>4. SoundInv'
  BY <1>1, <1>2, <1>3, StillSound
<1>5. step \in DOMAIN Jobs /\ step \in Nat /\ step <= Len(Jobs) /\ Len(Jobs) \in Nat
  <2>1. step \in DOMAIN Jobs
    BY <1>2 DEF Inv, StepInv
  <2> QED
    BY <2>1, JobFacts
<1>6. Types' /\ ForeignInv' /\ BackInv'
  BY <1>1, <1>3, <1>5, StillForeign DEF Inv, Types, BackInv
<1>7. CASE pc' = "undo"
  BY <1>4, <1>6, <1>7, Quiet
<1>8. CASE pc' = "job"
  <2>1. /\ pc = "reset" /\ step' = step + 1
        /\ Undisturbed => UNCHANGED <<has, count>> /\ value' = Defaults
    BY <1>1, <1>3, <1>8
  <2>2. Undisturbed => (\A p : There(p)' <=> There(p)) /\ (\A c : Full(c)' = Full(c))
    BY <2>1, StillThere
  <2>3. StageInv' /\ TrialInv' /\ StepInv' /\ NothingInvented' /\ NothingDenied'
    <3>1. StageInv'
      BY <1>1, <1>2, <1>8, <2>1, <2>2 DEF Inv, StageInv, Undisturbed
    <3>2. TrialInv' /\ StepInv'
      BY <1>1, <1>2, <1>5, <1>8, <2>1 DEF TrialInv, StepInv, Undisturbed
    <3>3. NothingInvented' /\ NothingDenied'
      BY <1>8 DEF NothingInvented, NothingDenied
    <3> QED
      BY <3>1, <3>2, <3>3
  <2>4. VerdictInv'
    <3>1. ASSUME NEW j \in DOMAIN Jobs, NEW k, NEW i, Asked(j, k, i)'
          PROVE  Asked(j, k, i)
      <4>1. j \in Nat /\ j < step + 1
        BY <1>8, <2>1, <3>1, JobFacts DEF Asked
      <4> QED
        BY <1>5, <2>1, <4>1 DEF Asked
    <3> QED
      BY <1>1, <1>8, <2>1, <2>2, <3>1, NothingAsked DEF AskPhase
  <2> QED
    BY <1>4, <1>6, <2>3, <2>4 DEF Inv
<1> QED
  BY <1>1, <1>7, <1>8

LEMMA CaptureKeeps == Inv /\ Capture => Inv'
<1> SUFFICES ASSUME Inv, Capture PROVE Inv'
  OBVIOUS
<1>1. /\ pc = "job" /\ step = Len(Jobs) + 1
      /\ UNCHANGED <<has, whole, count, value, verdicts, original, intruder, on>>
      /\ step' = 1 /\ trial' = [value |-> 1, path |-> 1]
      /\ \/ /\ pc' = "check" /\ features' = all_capabilities(Tree)
            /\ fingerprint' = <<whole, count, value>>
            /\ \/ UNCHANGED tested
               \/ "avail" \in has /\ \E listed \in SUBSET OperationNames : tested' = ListedIn(listed)
         \/ pc' = "undo" /\ UNCHANGED <<tested, fingerprint>>
  BY DEF Capture, Step, Goto
<1>2. Honest(Tree)' /\ Honest(Tree) /\ pc' \notin JobPhase
  BY <1>1, StillThere DEF Inv, SoundInv, JobPhase
<1>3. CASE pc' = "undo"
  <2>1. Types' /\ ForeignInv' /\ BackInv'
    BY <1>1, <1>3, StillForeign DEF Inv, Types, BackInv
  <2>2. SoundInv'
    BY <1>1, <1>2, <1>3, StillSound
  <2> QED
    BY <1>3, <2>1, <2>2, Quiet
<1>4. CASE pc' = "check"
  <2>1. tested' \in [AllValues -> Support]
    <3>1. ASSUME NEW listed PROVE ListedIn(listed) \in [AllValues -> Support]
      BY DEF Inv, Types, ListedIn, Support, Supported, Unsupported
    <3> QED
      BY <1>1, <1>4, <3>1 DEF Inv, Types
  <2>2. Types'
    BY <1>1, <2>1 DEF Inv, Types
  <2>3. ForeignInv' /\ BackInv' /\ StepInv'
    BY <1>1, <1>4 DEF Inv, ForeignInv, BackInv, StepInv, JobPhase
  <2>4. Undisturbed => Staging
    BY <1>1 DEF Inv, StageInv, Staging, TrialPhase, AskPhase
  <2>5. StageInv'
    BY <1>1, <1>4, <2>4, StillThere DEF Staging, StageInv, Undisturbed
  <2>6. TrialInv'
    BY <1>1, <1>4 DEF Inv, TrialInv, Undisturbed, JobPhase
  <2>7. VerdictInv'
    BY <1>4 DEF VerdictInv, AskPhase
  <2>8. ASSUME NEW v \in AllValues
        PROVE  tested'[v] = tested[v] \/ ("avail" \in has /\ v \in OperationNames)
    BY <1>1, <1>4 DEF ListedIn
  <2>9. SoundInv'
    <3>1. TestedSound'
      BY <1>1, <2>8 DEF Inv, SoundInv, TestedSound, Taken
    <3>2. ValuesSound'
      BY <1>1 DEF Inv, SoundInv, ValuesSound, Taken
    <3>3. OriginalSound'
      BY <1>2 DEF OriginalSound
    <3> QED
      BY <1>2, <3>1, <3>2, <3>3 DEF SoundInv
  <2>10. NothingInvented'
    <3>1. \A f \in Features : features'[f] \in {Unverified, Supported} => Has(has', f)
      BY <1>1, <1>2, <1>4, FeaturesSound
    <3>2. \A v \in AllValues : tested'[v] # Unsupported =>
                \/ v \in OperationNames /\ "avail" \in has'
                \/ \E p \in ValuePaths : <<p, v, "taken">> \in verdicts'
      BY <2>9 DEF SoundInv, TestedSound, Taken
    <3> QED
      BY <3>1, <3>2 DEF NothingInvented
  <2>11. ASSUME Undisturbed
         PROVE  \A f \in Features : /\ features'[f] # RequiresStaging
                                    /\ features'[f] # Unsupported <=> Has(has', f)
    <3>1. \A f \in Features : Tells(features'[f], f)
      BY <1>1, <1>4, <2>4, <2>11, FeaturesTold DEF Inv, Types
    <3>2. has' = has
      BY <1>1
    <3> QED
      BY <3>1, <3>2 DEF Tells
  <2>12. ASSUME Undisturbed,
                NEW j \in DOMAIN Jobs, NEW v \in Values(j), NEW i \in DOMAIN Jobs[j].paths
         PROVE  LET p == Jobs[j].paths[i]
                    Verdict1(w) == <<p, v, w>> \in verdicts'
                IN  /\ Verdict1("taken") => tested'[v] # Unsupported
                    /\ tested'[v] = Unsupported /\ There(p)' => Verdict1("ignored") \/ Verdict1("refused")
    <3> DEFINE p == Jobs[j].paths[i]
    <3>1. PICK k \in DOMAIN Jobs[j].values : v = Jobs[j].values[k]
      BY DEF Values
    <3>2. Asked(j, k, i) /\ ~Pending(p, v)
      BY <1>1, JobFacts DEF Asked, Pending
    <3>3. /\ <<p, v, "taken">> \in verdicts => tested[v] # Unsupported /\ There(p)
          /\ tested[v] = Unsupported /\ There(p) =>
                <<p, v, "ignored">> \in verdicts \/ <<p, v, "refused">> \in verdicts
      <4>1. KnownInv /\ AskedInv
        BY <1>1, <2>12 DEF Inv, VerdictInv, AskPhase
      <4> QED
        BY <3>1, <3>2, <4>1 DEF KnownInv, AskedInv
    <3>4. v \in AllValues
      BY <3>1, JobFacts
    <3>5. There(p)' <=> There(p)
      BY <1>1, StillThere
    <3>6. CASE tested'[v] = tested[v]
      BY <1>1, <3>3, <3>5, <3>6
    <3>7. CASE tested'[v] # tested[v]
      <4>1. "avail" \in has /\ v \in OperationNames
        BY <2>8, <3>4, <3>7
      <4>2. Jobs[j].how = "operation"
        BY <4>1, JobsAssumption DEF OperationNames
      <4>3. ~There(p)
        BY <4>1, <4>2, JobsAssumption DEF There
      <4> QED
        BY <1>1, <3>3, <3>5, <4>3
    <3> QED
      BY <3>6, <3>7
  <2>13. NothingDenied'
    <3>1. Undisturbed' <=> Undisturbed
      BY <1>1 DEF Undisturbed
    <3> QED
      BY <3>1, <2>11, <2>12, Zenon DEF NothingDenied
  <2> QED
    BY <2>2, <2>3, <2>5, <2>6, <2>7, <2>9, <2>10, <2>13 DEF Inv
<1> QED
  BY <1>1, <1>3, <1>4

LEMMA CheckKeeps == Inv /\ Check => Inv'
<1> SUFFICES ASSUME Inv, Check PROVE Inv'
  OBVIOUS
<1>1. /\ pc = "check" /\ pc' \in {"restore", "lost", "unrestored"}
      /\ pc' = "restore" => fingerprint = <<whole, count, value>> /\ ~on
      /\ step' = 1 /\ trial' = [value |-> 1, path |-> 1]
      /\ UNCHANGED <<has, on, intruder, whole, count, value, verdicts, tested, features, original,
                     fingerprint>>
  BY DEF Check, Step, Goto, Untouched, found
<1>2. Types' /\ BackInv'
  BY <1>1 DEF Inv, Types, BackInv
<1>3. pc' = "restore" => intruder # "captured"
  <2>1. fingerprint = <<whole, count, value>> => fingerprint[1] = whole
    OBVIOUS
  <2> QED
    BY <1>1, <2>1 DEF Inv, ForeignInv
<1>4. ForeignInv'
  BY <1>1, <1>3 DEF Inv, ForeignInv
<1>5. SoundInv'
  <2>1. pc' \notin JobPhase
    BY <1>1 DEF JobPhase
  <2>2. Honest(Tree)'
    BY <1>1, StillThere DEF Inv, SoundInv
  <2> QED
    BY <1>1, <2>1, <2>2, StillSound
<1> QED
  BY <1>1, <1>2, <1>4, <1>5, Quiet DEF Ends

LEMMA WayBackKeeps == Inv /\ (Restore \/ Undo) => Inv'
<1> SUFFICES ASSUME Inv, Restore \/ Undo PROVE Inv'
  OBVIOUS
<1>1. /\ pc \in {"restore", "undo"} /\ pc' \in {"ok", "failed", "unrestored", "rollback_failed"}
      /\ pc' \in {"ok", "failed"} => whole' = "previous" /\ count' = NoCount /\ value' = Defaults
      /\ pc' \notin {"ok", "failed"} => UNCHANGED <<count, value>>
      /\ step' = 1 /\ trial' = [value |-> 1, path |-> 1]
      /\ UNCHANGED <<has, intruder, verdicts, tested, features, original, fingerprint>>
  BY DEF Restore, Undo, PutBack, Stuck, Step, Goto, found
<1>2. Honest(Tree)' /\ count' \in [Counts -> {0, 1}]
  BY <1>1, Emptied, StillThere DEF Inv, SoundInv, Types
<1>3. Types' /\ BackInv'
  BY <1>1, <1>2 DEF Inv, Types, BackInv, Defaults, Contents
<1>4. ForeignInv'
  BY <1>1, StillForeign
<1>5. SoundInv'
  <2>1. pc' \notin JobPhase
    BY <1>1 DEF JobPhase
  <2>2. \A p \in ValuePaths : value'[p] = value[p] \/ value'[p] \notin AllValues
    BY <1>1, JobFacts DEF Defaults
  <2> QED
    BY <1>1, <1>2, <2>1, <2>2, StillSound
<1> QED
  BY <1>1, <1>3, <1>4, <1>5, Quiet DEF Ends

LEMMA RogueKeeps == Inv /\ (RogueWrites \/ RogueStarts) => Inv'
<1> SUFFICES ASSUME Inv, RogueWrites \/ RogueStarts PROVE Inv'
  OBVIOUS
<1>1. /\ pc \notin Ends
      /\ intruder' # "never" /\ (intruder' = "captured" <=> pc = "check")
      /\ intruder' = "before" => pc \in {"open", "reconstruct"}
      /\ UNCHANGED <<has, verdicts, tested, features, pc, step, trial, original, fingerprint>>
      /\ \/ whole' # whole /\ whole' \in Foreign /\ UNCHANGED on
            /\ (pc = "check" => whole' # fingerprint[1])
         \/ on' = TRUE /\ UNCHANGED whole
  BY DEF RogueWrites, RogueStarts, Outside, When, Foreign, found
<1>2. \/ UNCHANGED <<count, value>>
      \/ \E c \in Counts, n \in {0, 1} : (c = "target" \/ Exists(Tree, c)) /\ Written(c, n)
      \/ \E p \in ValuePaths : value' = [value EXCEPT ![p] = "foreign"] /\ UNCHANGED count
  BY DEF RogueWrites, RogueStarts
<1>3. /\ count' \in [Counts -> {0, 1}] /\ value' \in [ValuePaths -> Contents] /\ Honest(Tree)'
      /\ \A p \in ValuePaths : value'[p] = value[p] \/ value'[p] \notin AllValues
  <2>0. Types /\ Honest(Tree) /\ "foreign" \in Foreign
    BY DEF Inv, SoundInv, Foreign
  <2>1. CASE UNCHANGED <<count, value>>
    BY <1>1, <2>0, <2>1, StillThere DEF Types
  <2>2. CASE \E c \in Counts, n \in {0, 1} : (c = "target" \/ Exists(Tree, c)) /\ Written(c, n)
    <3>1. PICK c \in Counts, n \in {0, 1} : (c = "target" \/ Exists(Tree, c)) /\ Written(c, n)
      BY <2>2
    <3> QED
      BY <1>1, <2>0, <3>1, WrittenFacts, JobFacts
  <2>3. CASE \E p \in ValuePaths : value' = [value EXCEPT ![p] = "foreign"] /\ UNCHANGED count
    BY <1>1, <2>0, <2>3, StillThere, JobFacts DEF Types, Contents
  <2> QED
    BY <1>2, <2>1, <2>2, <2>3
<1>4. Types' /\ BackInv'
  BY <1>1, <1>3 DEF Inv, Types, BackInv
<1>5. StepInv' /\ Job' = Job
  BY <1>1 DEF Inv, StepInv, Job
<1>6. SoundInv'
  BY <1>1, <1>3, <1>5, StillSound
<1>7. ForeignInv'
  <2>1. CASE pc # "check"
    BY <1>1, <2>1 DEF ForeignInv, Ends
  <2>2. CASE pc = "check" /\ whole' \in Foreign /\ whole' # fingerprint[1]
    BY <1>1, <2>2 DEF Inv, ForeignInv
  <2>3. CASE pc = "check" /\ on' = TRUE
    BY <1>1, <2>3 DEF Inv, ForeignInv
  <2> QED
    BY <1>1, <2>1, <2>2, <2>3
<1>8. Undisturbed' => pc \in {"open", "reconstruct"}
  BY <1>1 DEF Undisturbed
<1>9. StageInv' /\ TrialInv' /\ VerdictInv'
  BY <1>1, <1>8 DEF Inv, StageInv, TrialInv, VerdictInv, TrialPhase, AskPhase, JobPhase
<1>10. NothingInvented' /\ NothingDenied'
  BY <1>1, <1>8 DEF Inv, NothingInvented, NothingDenied
<1> QED
  BY <1>4, <1>5, <1>6, <1>7, <1>9, <1>10 DEF Inv

LEMMA StutterKeeps == Inv /\ UNCHANGED vars => Inv'
<1> SUFFICES ASSUME Inv, UNCHANGED vars PROVE Inv'
  OBVIOUS
<1>1. UNCHANGED <<has, whole, count, value, on, verdicts, tested, features, pc, step, trial,
                  original, fingerprint, intruder>>
  BY DEF vars, hierarchy, found
<1>2. Types' /\ ForeignInv' /\ BackInv' /\ (Undisturbed' <=> Undisturbed)
  BY <1>1 DEF Inv, Types, ForeignInv, BackInv, Undisturbed
<1>3. StepInv' /\ Job' = Job /\ Path' = Path /\ Candidate' = Candidate
  BY <1>1 DEF Inv, StepInv, Job, Path, Candidate
<1>4. SoundInv'
  <2>1. Honest(Tree)'
    BY <1>1, StillThere DEF Inv, SoundInv
  <2> QED
    BY <1>1, <1>3, <2>1, StillSound
<1>5. /\ (\A p : There(p)' <=> There(p)) /\ (\A c : Full(c)' = Full(c))
      /\ \A j, k, i : Asked(j, k, i)' <=> Asked(j, k, i)
      /\ \A p, v : Pending(p, v)' <=> Pending(p, v)
  BY <1>1, <1>3, StillThere DEF Asked, Pending
<1>6. StageInv' /\ TrialInv'
  BY <1>1, <1>2, <1>3, <1>5 DEF Inv, StageInv, TrialInv
<1>7. (KnownInv => KnownInv') /\ (AskedInv => AskedInv')
  BY <1>1, <1>5 DEF KnownInv, AskedInv
<1>8. VerdictInv'
  BY <1>1, <1>2, <1>3, <1>7 DEF Inv, VerdictInv
<1>9. NothingInvented' /\ NothingDenied'
  BY <1>1, <1>2, <1>5 DEF Inv, NothingInvented, NothingDenied
<1> QED
  BY <1>2, <1>3, <1>4, <1>6, <1>8, <1>9 DEF Inv

-----------------------------------------------------------------------------
(* Theorems *)

\* The inductive invariant of active discovery (Damon::capabilities).
THEOREM ProbeKeepsInv == Spec => []Inv
<1>1. Inv /\ [Next]_vars => Inv'
  <2> SUFFICES ASSUME Inv, [Next]_vars PROVE Inv'
    OBVIOUS
  <2>1. CASE Open \/ Reconstruct \/ StageChild \/ Staged
    BY <2>1, OpenKeeps, ReconstructKeeps, StageChildKeeps, StagedKeeps
  <2>2. CASE StartJob \/ TryValue \/ ReadBack \/ ValueExhausted \/ ValuesTried \/ Reset
    BY <2>2, StartJobKeeps, TryValueKeeps, ReadBackKeeps, ValueExhaustedKeeps, ValuesTriedKeeps,
       ResetKeeps
  <2>3. CASE Capture \/ Check \/ Restore \/ Undo
    BY <2>3, CaptureKeeps, CheckKeeps, WayBackKeeps
  <2>4. CASE RogueWrites \/ RogueStarts
    BY <2>4, RogueKeeps
  <2>5. CASE UNCHANGED vars
    BY <2>5, StutterKeeps
  <2> QED
    BY <2>1, <2>2, <2>3, <2>4, <2>5 DEF Next, Program
<1> QED
  BY <1>1, Init1, PTL DEF Spec

\* Whatever fails, active discovery ends with the previous configuration back or an
\* error that says it is not, and a change another controller makes between the
\* capture of the probed nodes and their check is left alone
\* (restore_after_capability_probe).
THEOREM ProbeLeavesHierarchy == Spec => []LeavesHierarchy
<1>1. Inv => LeavesHierarchy
  BY DEF Inv, BackInv, ForeignInv, LeavesHierarchy, PreviousIsBack, KeepsForeign
<1> QED
  BY <1>1, ProbeKeepsInv, PTL

\* The capabilities of active discovery are the kernel's.  Another controller that
\* takes children away and writes over values can hide support but not feign it;
\* without one, no feature is left to be staged or misreported, no value is refused
\* unasked, and the values tried are gone when the answer is captured
\* (semantic_feature_capabilities, probe_accepted_values).
THEOREM ProbeReportsKernel == Spec => []ReportsKernel
<1>1. Inv => ReportsKernel
  BY DEF Inv, TrialInv, ReportsKernel, TrialsUndone
<1> QED
  BY <1>1, ProbeKeepsInv, PTL

-----------------------------------------------------------------------------
(* Passive discovery: CapabilitySupport.  What the paths of a tree with     *)
(* any children staged, or none, say about a feature (Verdict), and what    *)
(* is left of it when the schemes of a kdamond are merged (ScanInv).        *)

\* The rules are those of passive discovery.
LEMMA SameRules ==
    /\ Scan!Unsupported = Unsupported /\ Scan!RequiresStaging = RequiresStaging
    /\ Scan!Paths = Paths /\ Scan!Counts = Counts /\ Scan!Below = Below
    /\ Scan!Needs = Needs /\ Scan!Features = Features
    /\ \A t, p : Scan!Exists(t, p) <=> Exists(t, p)
    /\ \A h, f : Scan!Has(h, f) <=> Has(h, f)
<1>1. Scan!Unsupported = Unsupported /\ Scan!RequiresStaging = RequiresStaging
  BY DEF Scan!Unsupported, Scan!RequiresStaging, Unsupported, RequiresStaging
<1>2. Scan!Below = Below
  BY DEF Scan!Below, Below
<1>3. Scan!Paths = Paths /\ Scan!Counts = Counts
  BY <1>2 DEF Scan!Paths, Paths, Scan!Counts, Counts
<1>4. Scan!Needs = Needs
  BY DEF Scan!Needs, Needs
<1>5. Scan!Features = Features
  BY <1>4 DEF Scan!Features, Features
<1>6. ASSUME NEW t, NEW p PROVE Scan!Exists(t, p) <=> Exists(t, p)
  BY <1>2, <1>3 DEF Scan!Exists, Exists, Scan!AlwaysThere, AlwaysThere
<1>7. ASSUME NEW h, NEW f PROVE Scan!Has(h, f) <=> Has(h, f)
  BY <1>4 DEF Scan!Has, Has
<1> QED
  BY <1>1, <1>2, <1>3, <1>4, <1>5, <1>6, <1>7

LEMMA SameAnswers ==
    ASSUME NEW t
    PROVE  /\ Scan!scheme_capabilities(t) = scheme_capabilities(t)
           /\ Scan!all_capabilities(t) = all_capabilities(t)
<1> USE SameRules
<1>1. /\ Scan!Supported = Supported /\ Scan!Unverified = Unverified
      /\ \A f, g : Scan!extend(f, g) = extend(f, g)
  BY DEF Scan!Supported, Scan!Unverified, Supported, Unverified, Scan!extend, extend
<1>2. \A p : Scan!support_for_path(t, p) = support_for_path(t, p)
  BY <1>1 DEF Scan!support_for_path, support_for_path
<1>3. \A s : Scan!unverified_value_support(s) = unverified_value_support(s)
  BY <1>1 DEF Scan!unverified_value_support, unverified_value_support
<1>4. \A a, b : Scan!combine_support(a, b) = combine_support(a, b)
  BY DEF Scan!combine_support, combine_support
<1>5. \A p : Scan!indexed_child_support(t, p) = indexed_child_support(t, p)
  BY <1>1 DEF Scan!indexed_child_support, indexed_child_support
<1>6. \A c, p : Scan!child_attribute_support(t, c, p) = child_attribute_support(t, c, p)
  BY <1>1, <1>2 DEF Scan!child_attribute_support, child_attribute_support
<1>7. Scan!filter_value_support(t) = filter_value_support(t)
  BY <1>1 DEF Scan!filter_value_support, filter_value_support, Scan!FilterDirectories, FilterDirectories
<1>8. \A a : Scan!indexed_attribute_support(t, a) = indexed_attribute_support(t, a)
  BY <1>1 DEF Scan!indexed_attribute_support, indexed_attribute_support
<1>9. Scan!target_support(t) = target_support(t)
  BY <1>2 DEF Scan!target_support, target_support
<1>10. Scan!context_semantic_capabilities(t) = context_semantic_capabilities(t)
  BY <1>2 DEF Scan!context_semantic_capabilities, context_semantic_capabilities
<1>11. Scan!scheme_semantic_capabilities(t) = scheme_semantic_capabilities(t)
  BY <1>2 DEF Scan!scheme_semantic_capabilities, scheme_semantic_capabilities
<1>12. Scan!scheme_filter_capabilities(t) = scheme_filter_capabilities(t)
  BY <1>7, <1>8 DEF Scan!scheme_filter_capabilities, scheme_filter_capabilities
<1>13. Scan!quota_goal_capabilities(t) = quota_goal_capabilities(t)
  BY <1>2, <1>3, <1>4, <1>5, <1>6 DEF Scan!quota_goal_capabilities, quota_goal_capabilities
<1>14. Scan!probe_capabilities(t) = probe_capabilities(t)
  BY <1>1, <1>2, <1>3, <1>5, <1>6 DEF Scan!probe_capabilities, probe_capabilities
<1>15. Scan!scheme_capabilities(t) = scheme_capabilities(t)
  BY <1>1, <1>11, <1>12, <1>13 DEF Scan!scheme_capabilities, scheme_capabilities
<1>16. Scan!all_capabilities(t) = all_capabilities(t)
  BY <1>1, <1>9, <1>10, <1>14, <1>15 DEF Scan!all_capabilities, all_capabilities
<1> QED
  BY <1>15, <1>16

Indexes == 1 .. Len(schemes)
TreeOf(i) == [has |-> shown, count |-> schemes[i]]

\* The context is the same in the trees of all schemes, and the answer so far is
\* one of the trees', and for what schemes tell, the strongest.
ScanInv ==
    /\ Len(schemes) \in Nat \ {0} /\ DOMAIN schemes = Indexes
    /\ \A i \in Indexes : Honest(TreeOf(i))
    /\ \A i \in Indexes, c \in {"target", "probes", "pfilters", "preps"} :
            schemes[i][c] = schemes[1][c]
    /\ read \in 0 .. Len(schemes)
    /\ read # 0 =>
            /\ DOMAIN told = Features
            /\ \A f \in Features : \E i \in 1 .. read :
                    told[f] = all_capabilities(TreeOf(i))[f]
            /\ \A f \in SchemePart, i \in 1 .. read :
                    all_capabilities(TreeOf(i))[f] <= told[f]

LEMMA ScanInit == Scan!Init => ScanInv
<1> SUFFICES ASSUME Scan!Init PROVE ScanInv
  OBVIOUS
<1> USE SameRules
<1>1. PICK n \in 1 .. MaxSchemes : schemes \in [1 .. n -> Scan!Staged]
  BY DEF Scan!Init
<1>2. n \in Nat \ {0} /\ Len(schemes) = n /\ DOMAIN schemes = 1 .. n
  BY <1>1, ScannedAssumption
<1>3. ASSUME NEW i \in 1 .. n  PROVE Honest(TreeOf(i))
  <2>1. schemes[i] \in Scan!Staged
    BY <1>1
  <2>2. /\ schemes[i] \in [Counts -> 0 .. 1]
        /\ \A c \in Counts \cap Paths : schemes[i][c] > 0 =>
                c \in shown /\ (Below[c] \in Paths => schemes[i][Below[c]] > 0)
    BY <2>1 DEF Scan!Staged
  <2>3. \A c \in Counts : schemes[i][c] = 0 \/ schemes[i][c] = 1
    BY <2>2
  <2>4. shown \in ScannedKernels
    BY DEF Scan!Init
  <2>5. schemes[i]["pfilters"] = 1 \/ schemes[i]["preps"] = 1 => schemes[i]["probes"] = 1
    <3>1. \A c \in {"pfilters", "preps"} : c \in Counts \cap Paths /\ Below[c] = "probes"
      BY BelowFacts DEF Counts
    <3>2. "probes" \in Counts \cap Paths
      BY BelowFacts DEF Counts
    <3> QED
      BY <2>2, <2>3, <3>1, <3>2
  <2> QED
    BY <2>2, <2>3, <2>4, <2>5, ScannedAssumption DEF Honest, TreeOf
<1>4. \A i \in 1 .. n, c \in {"target", "probes", "pfilters", "preps"} :
            schemes[i][c] = schemes[1][c]
  BY <1>2 DEF Scan!Init, Scan!ContextCounts
<1>5. read = 0
  BY DEF Scan!Init
<1> QED
  BY <1>2, <1>3, <1>4, <1>5 DEF ScanInv, Indexes

LEMMA FirstKeeps == ScanInv /\ Scan!First => ScanInv'
<1> SUFFICES ASSUME ScanInv, Scan!First PROVE ScanInv'
  OBVIOUS
<1>1. /\ shown' = shown /\ schemes' = schemes /\ read' = 1
      /\ told' = all_capabilities(TreeOf(1))
  BY SameAnswers DEF Scan!First, Scan!Tree, TreeOf
<1> DEFINE answer == all_capabilities(TreeOf(1))
<1>2. DOMAIN answer = Features
  BY Parts, NeedsFacts DEF SchemePart
<1>3. \A f \in SchemePart : f \in Features
  BY NeedsFacts DEF SchemePart
<1>4. 1 \in Indexes
  BY DEF ScanInv, Indexes
<1>5. \A f \in SchemePart : answer[f] <= answer[f]
  <2>1. \A f \in Features : Verdict(TreeOf(1), answer[f], f)
    BY <1>4, TreeTells DEF ScanInv
  <2> QED
    BY <1>3, <2>1 DEF Verdict, Unsupported, RequiresStaging, Unverified, Supported
<1> HIDE DEF answer
<1>6. /\ Indexes' = Indexes /\ \A i : TreeOf(i)' = TreeOf(i)
      /\ told' = answer
  BY <1>1 DEF Indexes, TreeOf, answer
<1>7. /\ DOMAIN told' = Features
      /\ \A f \in Features : \E i \in 1 .. read' :
            told'[f] = all_capabilities(TreeOf(i)')[f]
      /\ \A f \in SchemePart, i \in 1 .. read' :
            all_capabilities(TreeOf(i)')[f] <= told'[f]
  <2>1. read' = 1 /\ 1 .. read' = {1}
    BY <1>1
  <2> QED
    BY <1>2, <1>5, <1>6, <2>1 DEF answer
<1>8. /\ Len(schemes)' \in Nat \ {0} /\ DOMAIN schemes' = Indexes'
      /\ \A i \in Indexes' : Honest(TreeOf(i)')
      /\ \A i \in Indexes', c \in {"target", "probes", "pfilters", "preps"} :
            schemes'[i][c] = schemes'[1][c]
  <2>1. \A i \in Indexes : Honest(TreeOf(i)) <=> Honest(TreeOf(i)')
    BY <1>6
  <2> QED
    BY <1>1, <1>6, <2>1 DEF ScanInv
<1>9. read' \in 0 .. Len(schemes')
  BY <1>1, <1>4 DEF Indexes
<1> QED
  BY <1>7, <1>8, <1>9 DEF ScanInv, Honest

LEMMA RemainingKeeps == ScanInv /\ Scan!Remaining => ScanInv'
<1> SUFFICES ASSUME ScanInv, Scan!Remaining PROVE ScanInv'
  OBVIOUS
<1> DEFINE k == read + 1
           added == scheme_capabilities(TreeOf(k))
<1>1. /\ shown' = shown /\ schemes' = schemes /\ read' = k /\ read \in 1 .. Len(schemes) - 1
      /\ told' = Scan!merge(told, added)
  <2>1. /\ shown' = shown /\ schemes' = schemes /\ read' = k /\ read \in 1 .. Len(schemes) - 1
        /\ told' = Scan!merge(told, Scan!scheme_capabilities(Scan!Tree(k)))
    BY DEF Scan!Remaining
  <2>2. Scan!Tree(k) = TreeOf(k)
    BY DEF Scan!Tree, TreeOf
  <2> QED
    BY <2>1, <2>2, SameAnswers
<1>2. k \in Indexes /\ read \in Nat \ {0} /\ k \in Nat
  BY <1>1 DEF ScanInv, Indexes
<1>3. /\ DOMAIN added = SchemePart
      /\ \A f \in SchemePart : added[f] = all_capabilities(TreeOf(k))[f]
      /\ SchemePart \subseteq Features
  <2>1. SchemePart \subseteq Features
    BY NeedsFacts DEF SchemePart
  <2> QED
    BY <2>1, SchemeParts, Parts DEF SchemePart
<1>4. \A i \in Indexes, f \in Features : all_capabilities(TreeOf(i))[f] \in Int
  <2>1. \A i \in Indexes : Honest(TreeOf(i))
    BY DEF ScanInv
  <2>2. \A i \in Indexes, f \in Features : Verdict(TreeOf(i), all_capabilities(TreeOf(i))[f], f)
    BY <2>1, TreeTells
  <2> QED
    BY <2>2 DEF Verdict, Unsupported, RequiresStaging, Unverified, Supported
<1>5. /\ DOMAIN told = Features
      /\ \A f \in Features : \E i \in 1 .. read : told[f] = all_capabilities(TreeOf(i))[f]
      /\ \A f \in SchemePart, i \in 1 .. read : all_capabilities(TreeOf(i))[f] <= told[f]
  BY <1>2 DEF ScanInv
<1>6. 1 .. read \subseteq Indexes
  BY <1>1, <1>2 DEF Indexes
<1> HIDE DEF added, k
<1>7. /\ DOMAIN told' = Features
      /\ \A f \in SchemePart : told'[f] = IF added[f] > told[f] THEN added[f] ELSE told[f]
      /\ \A f \in Features \ SchemePart : told'[f] = told[f]
  BY <1>1, <1>3, <1>5 DEF Scan!merge
<1>8. 1 .. read' = 1 .. read \cup {k}
  BY <1>1, <1>2 DEF k
<1>9. \A f \in Features : \E i \in 1 .. read' : told'[f] = all_capabilities(TreeOf(i))[f]
  BY <1>3, <1>5, <1>7, <1>8
<1>10. ASSUME NEW f \in SchemePart, NEW i \in 1 .. read'
       PROVE  all_capabilities(TreeOf(i))[f] <= told'[f]
  <2>1. PICK j \in 1 .. read : told[f] = all_capabilities(TreeOf(j))[f]
    BY <1>3, <1>5
  <2>2. told[f] \in Int /\ added[f] \in Int
    BY <1>2, <1>3, <1>4, <1>6, <2>1
  <2>3. CASE i = k
    BY <1>3, <1>7, <2>2, <2>3
  <2>4. CASE i \in 1 .. read
    <3>1. /\ all_capabilities(TreeOf(i))[f] <= told[f]
          /\ all_capabilities(TreeOf(i))[f] \in Int
      BY <1>3, <1>4, <1>5, <1>6, <2>4
    <3> QED
      BY <1>7, <2>2, <3>1
  <2> QED
    BY <1>8, <2>3, <2>4
<1>11. Indexes' = Indexes /\ \A i : TreeOf(i)' = TreeOf(i)
  BY <1>1 DEF Indexes, TreeOf
<1>12. /\ Len(schemes)' \in Nat \ {0} /\ DOMAIN schemes' = Indexes'
       /\ \A i \in Indexes' : Honest(TreeOf(i)')
       /\ \A i \in Indexes', c \in {"target", "probes", "pfilters", "preps"} :
            schemes'[i][c] = schemes'[1][c]
       /\ read' \in 0 .. Len(schemes')
  BY <1>1, <1>2, <1>11 DEF ScanInv, Indexes
<1>13. /\ \A f \in Features : \E i \in 1 .. read' :
            told'[f] = all_capabilities(TreeOf(i)')[f]
       /\ \A f \in SchemePart, i \in 1 .. read' :
            all_capabilities(TreeOf(i)')[f] <= told'[f]
  BY <1>9, <1>10, <1>11
<1> QED
  BY <1>7, <1>12, <1>13 DEF ScanInv, Honest

\* Paths of the context are there in all trees or in none.
LEMMA SharedPaths ==
    ASSUME ScanInv, NEW i \in Indexes, NEW j \in Indexes,
           NEW f \in Features \ SchemePart
    PROVE  Evident(TreeOf(i), f) <=> Evident(TreeOf(j), f)
<1>1. Honest(TreeOf(i)) /\ Honest(TreeOf(j))
  BY DEF ScanInv
<1>2. \A c \in {"target", "probes", "pfilters", "preps"} : schemes[i][c] = schemes[j][c]
  BY DEF ScanInv
<1>3. /\ TreeOf(i).has = TreeOf(j).has
      /\ TreeOf(i).count = schemes[i] /\ TreeOf(j).count = schemes[j]
  BY DEF TreeOf
<1> DEFINE ti == TreeOf(i)
           tj == TreeOf(j)
<1> HIDE DEF ti, tj
<1>4. \A p \in {"refresh", "avail", "regions", "probes", "weight", "pfilters", "preps",
                "pfilter", "pfilters_type", "prep_action"} : Exists(ti, p) <=> Exists(tj, p)
  BY <1>1, <1>2, <1>3, TreePaths DEF ti, tj
<1>5. \A paths \in Needs[f] : \A p \in paths :
            p \in {"refresh", "avail", "regions", "probes", "weight", "pfilters", "preps",
                   "pfilter", "pfilters_type", "prep_action"}
  <2>1. f \in ContextNames \cup ProbeNames \cup {"InitialRegions"}
    BY NeedsFacts DEF SchemePart
  <2> QED
    BY <2>1, NeedsFacts DEF ContextNames, ProbeNames
<1>6. Evident(ti, f) <=> Evident(tj, f)
  BY <1>4, <1>5 DEF Evident
<1> QED
  BY <1>6 DEF ti, tj

LEMMA ScanTells == ScanInv => Scan!ScanTellsTheKernel
<1> SUFFICES ASSUME ScanInv, read = Len(schemes) PROVE Scan!ScanTellsTheKernel
  BY DEF Scan!ScanTellsTheKernel, Scan!AbsenceIsReal, Scan!EvidenceIsReal, Scan!StagingWouldTell,
         Scan!Known
<1>1. /\ 1 .. read = Indexes /\ read # 0 /\ DOMAIN schemes = Indexes
  BY DEF ScanInv, Indexes
<1>2. \A i \in Indexes, f \in Features : Verdict(TreeOf(i), all_capabilities(TreeOf(i))[f], f)
  BY TreeTells DEF ScanInv
<1>3. ASSUME NEW f \in Features
      PROVE  /\ \E i \in Indexes : told[f] = all_capabilities(TreeOf(i))[f]
             /\ f \in SchemePart =>
                    \A i \in Indexes : all_capabilities(TreeOf(i))[f] <= told[f]
  BY <1>1 DEF ScanInv
<1>4. \A paths : Scan!StagedSomewhere(paths) <=>
                    \E i \in Indexes : \A p \in paths : Exists(TreeOf(i), p)
  BY <1>1, SameRules DEF Scan!StagedSomewhere, Scan!Tree, TreeOf
<1>5. \A f : (\E paths \in Needs[f] : Scan!StagedSomewhere(paths)) <=>
                \E i \in Indexes : Evident(TreeOf(i), f)
  BY <1>4 DEF Evident
<1>6. ASSUME NEW f \in Features, told[f] = Unsupported
      PROVE  ~Has(shown, f)
  BY <1>2, <1>3, <1>6 DEF Verdict, TreeOf
<1>7. ASSUME NEW f \in Features, told[f] > RequiresStaging
      PROVE  \E paths \in Needs[f] : Scan!StagedSomewhere(paths)
  <2>1. PICK i \in Indexes : told[f] = all_capabilities(TreeOf(i))[f]
    BY <1>3
  <2>2. Evident(TreeOf(i), f)
    BY <1>2, <1>7, <2>1 DEF Verdict, Unsupported, RequiresStaging, Unverified, Supported
  <2> QED
    BY <1>5, <2>2
<1>8. ASSUME NEW f \in Features, told[f] = RequiresStaging
      PROVE  /\ ~\E paths \in Needs[f] : Scan!StagedSomewhere(paths)
             /\ \E paths \in Needs[f] : \E p \in paths :
                    \E i \in Indexes : Below[p] \in Counts /\ schemes[i][Below[p]] = 0
  <2>1. PICK i \in Indexes : told[f] = all_capabilities(TreeOf(i))[f]
    BY <1>3
  <2>2. ~Evident(TreeOf(i), f) /\ Hidden(TreeOf(i), f)
    BY <1>2, <1>8, <2>1 DEF Verdict
  <2>3. ASSUME NEW j \in Indexes  PROVE ~Evident(TreeOf(j), f)
    <3>1. CASE f \notin SchemePart
      BY <2>2, <3>1, SharedPaths
    <3>2. CASE f \in SchemePart
      <4>1. all_capabilities(TreeOf(j))[f] <= RequiresStaging
        BY <1>3, <1>8, <3>2
      <4>2. Verdict(TreeOf(j), all_capabilities(TreeOf(j))[f], f)
        BY <1>2
      <4>3. CASE all_capabilities(TreeOf(j))[f] = RequiresStaging
        BY <4>2, <4>3 DEF Verdict
      <4>4. CASE all_capabilities(TreeOf(j))[f] = Unsupported
        <5>1. ~Has(TreeOf(j).has, f)
          BY <4>2, <4>4 DEF Verdict
        <5>2. \A p : Exists(TreeOf(j), p) => p \in TreeOf(j).has
          BY DEF Exists
        <5> QED
          BY <5>1, <5>2 DEF Has, Evident
      <4> QED
        BY <4>1, <4>2, <4>3, <4>4
           DEF Verdict, Unsupported, RequiresStaging, Unverified, Supported
    <3> QED
      BY <3>1, <3>2
  <2> QED
    BY <1>5, <2>2, <2>3 DEF Hidden, TreeOf
<1>9. Scan!AbsenceIsReal
  BY <1>6, SameRules DEF Scan!AbsenceIsReal
<1>10. Scan!EvidenceIsReal
  BY <1>7, SameRules DEF Scan!EvidenceIsReal
<1>11. Scan!StagingWouldTell
  BY <1>1, <1>8, SameRules DEF Scan!StagingWouldTell
<1> QED
  BY <1>9, <1>10, <1>11 DEF Scan!ScanTellsTheKernel

\* What discovery reports of any kernel, whatever is staged in how many schemes:
\* "unsupported" is said of nothing the kernel has, more than "requires staging" of
\* nothing that no scheme shows, and "requires staging" only while something is
\* hidden (capabilities_for_schemes, merge_feature_capabilities).
THEOREM ScanIsTrue == Scan!Spec => []ScanTellsTheKernel
<1>1. Scan!Init => ScanInv
  BY ScanInit
<1>2. ScanInv /\ [Scan!Next]_(Scan!vars) => ScanInv'
  <2> SUFFICES ASSUME ScanInv, [Scan!Next]_(Scan!vars) PROVE ScanInv'
    OBVIOUS
  <2>1. CASE Scan!First
    BY <2>1, FirstKeeps
  <2>2. CASE Scan!Remaining
    BY <2>2, RemainingKeeps
  <2>3. CASE UNCHANGED Scan!vars
    BY <2>3 DEF Scan!vars, ScanInv, Indexes, TreeOf
  <2> QED
    BY <2>1, <2>2, <2>3 DEF Scan!Next
<1>3. ScanInv => ScanTellsTheKernel
  BY ScanTells DEF ScanTellsTheKernel
<1> QED
  BY <1>1, <1>2, <1>3, PTL DEF Scan!Spec

================================================================================
