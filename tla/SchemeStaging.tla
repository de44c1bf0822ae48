---------------------------- MODULE SchemeStaging ----------------------------
(***************************************************************************)
(* One DAMOS scheme between its owned configuration and its sysfs files    *)
(* (Scheme::stage_configuration_from and Scheme::configuration): the       *)
(* attributes a kernel may lack, the three directories of filters and the  *)
(* placement of a filter in one of them, the goals and destinations with   *)
(* what earlier stagings left in their directories, and the comparison of  *)
(* what was asked for with what is read back.                              *)
(*                                                                         *)
(* A staging is the sequence of its writes; it may end after any of them.  *)
(* Leaves that behave alike are one: "size" stands for the plain quota     *)
(* leaves, "high" for the plain watermarks, "accesses" for the pattern     *)
(* but its largest size; a filter's range stands for the address range.    *)
(***************************************************************************)
EXTENDS Integers, Sequences, SequencesExt

CONSTANTS
    Requests,       \* schemes a caller stages
    Kernels,        \* for each kernel, the set of what it has
    UlongMax,       \* u64::MAX
    NarrowMax,      \* u32::MAX: the largest unsigned long of a 32-bit kernel
    MaxStagings,    \* bound: stagings
    MaxFaults       \* bound: stagings an error ends

VARIABLES
    kernel,         \* what the running kernel has
    files,          \* the files of the scheme
    last,           \* the request whose staging returned Ok last, or none
    stagings,
    faults

vars == <<kernel, files, last, stagings, faults>>

\* Options that are None.
NoPath == "none"
NoNumber == -2
NoRange == <<>>

Layers == <<"core", "ops", "unified">>

-----------------------------------------------------------------------------
(* Filters *)

\* Whether the operations set handles a filter; unknown types are not known to.
CoreTypes == {"target", "hits"}
handled_by_operations(type) ==
    CASE type = "future" -> "unknown" [] type \in CoreTypes -> "no" [] OTHER -> "yes"

\* The layer a filter that leaves the choice to the staging goes to, when the
\* kernel has split directories.
SplitLayer(type) == IF handled_by_operations(type) = "no" THEN "core" ELSE "ops"

\* FilterConfig::validate: no payload but that of its type, which is there, and
\* no exact layer that does not handle the type.
FilterAccepted(f) ==
    /\ f.placement = "core" => handled_by_operations(f.type) # "yes"
    /\ f.placement = "ops" => handled_by_operations(f.type) # "no"
    /\ f.type # "future" =>
        /\ f.type = "memcg" <=> f.path # NoPath
        /\ f.type = "size" <=> f.range # NoRange
        /\ f.type = "target" <=> f.target # NoNumber
    /\ f.type = "hits" <=> f.hits # NoRange
    /\ f.type = "memcg" => f.path # ""

FiltersAccepted(c) == \A i \in DOMAIN c.filters : FilterAccepted(c.filters[i])

\* What the filters asked for read as, next to those that were read: split if
\* any of them is, and then by layer.
canonicalize_filter_placements(filters, observed) ==
    LET split == \E i \in DOMAIN observed : observed[i].placement \in {"core", "ops"}
        Placed(f) ==
            IF f.placement # "adaptive" THEN f
            ELSE [f EXCEPT !.placement = IF split THEN SplitLayer(f.type) ELSE "unified"]
        placed == [i \in DOMAIN filters |-> Placed(filters[i])]
        At(layer) == SelectSeq(placed, LAMBDA f : f.placement = layer)
    IN  IF split THEN At("core") \o At("ops") \o At("unified") ELSE placed

\* Mutant: the order is not compared.
semantic_filters_matchMutant(requested, observed) ==
    ToSet(requested) = ToSet(observed)
    \/ ToSet(canonicalize_filter_placements(requested, observed)) = ToSet(observed)

semantic_filters_match(requested, observed) ==
    requested = observed \/ canonicalize_filter_placements(requested, observed) = observed

\* AccessPattern::equivalent_after_kernel_normalization
PatternsMatch(requested, observed) ==
    \/ requested = observed
    \/ requested.max = UlongMax /\ observed = [requested EXCEPT !.max = NarrowMax]

\* DamonConfig::equivalent_after_kernel_normalization, for one scheme.
Equivalent(requested, observed) ==
    /\ PatternsMatch(requested.pattern, observed.pattern)
    /\ canonicalize_filter_placements(requested.filters, observed.filters) = observed.filters
    /\ [requested EXCEPT !.pattern = observed.pattern, !.filters = observed.filters] = observed

-----------------------------------------------------------------------------
(* Files. The directories of a kernel that has none of a kind stay empty.    *)

Fresh(dir) ==
    CASE dir \in ToSet(Layers) ->
            [type |-> "anon", allow |-> FALSE, path |-> "", min |-> 0, max |-> 0, target |-> 0]
      [] dir = "goals" -> [metric |-> "user", value |-> 0, node |-> 0, path |-> ""]
      [] dir = "dests" -> [id |-> 0, weight |-> 0]

FreshScheme ==
    [scheme |-> [action |-> "stat", max |-> 0, accesses |-> 0, interval |-> 0, node |-> -1,
                 size |-> 0, tuner |-> 0, charge |-> 0, high |-> 0, limit |-> 0],
     core |-> <<>>, ops |-> <<>>, unified |-> <<>>, goals |-> <<>>, dests |-> <<>>]

\* The kernel's answer to one write: a filter type in the layer that does not
\* handle it, or a number beyond an unsigned long.
HandledByCore(type) == type \in CoreTypes \/ (type = "future" /\ "future_is_core" \in kernel)

Refused(w) ==
    \/ w.leaf = "type" /\ w.dir = (IF HandledByCore(w.to) THEN "ops" ELSE "core")
    \/ w.dir = "scheme" /\ w.leaf = "max" /\ "wide" \notin kernel /\ w.to > NarrowMax

Written(f, w) ==
    CASE w.leaf = "count" -> [f EXCEPT ![w.dir] = [i \in 1 .. w.to |-> Fresh(w.dir)]]
      [] w.dir = "scheme" -> [f EXCEPT !.scheme[w.leaf] = w.to]
      [] OTHER -> [f EXCEPT ![w.dir][w.index][w.leaf] = w.to]

\* Mutant: the payload of an unknown type is not read.
ReadFilterMutant(d, layer) ==
    [type |-> d.type, placement |-> layer, allow |-> d.allow,
     path |-> IF d.type = "memcg" THEN d.path ELSE NoPath,
     range |-> IF d.type = "size" THEN <<d.min, d.max>> ELSE NoRange,
     target |-> IF d.type = "target" THEN d.target ELSE NoNumber,
     hits |-> IF d.type = "hits" THEN <<d.min, d.max>> ELSE NoRange]

\* FilterConfig of one directory. What belongs to another type is not read; an
\* unknown type is read with everything there is but the weighted sum.
ReadFilter(d, layer) ==
    LET Of(type) == d.type \in {type, "future"}
    IN  [type |-> d.type, placement |-> layer, allow |-> d.allow,
         path |-> IF Of("memcg") THEN d.path ELSE NoPath,
         range |-> IF Of("size") THEN <<d.min, d.max>> ELSE NoRange,
         target |-> IF Of("target") THEN d.target ELSE NoNumber,
         hits |-> IF d.type = "hits" THEN <<d.min, d.max>> ELSE NoRange]

ReadGoal(d) ==
    [d EXCEPT !.node = IF d.metric = "user" THEN NoNumber ELSE d.node,
              !.path = IF d.metric \in {"user", "node"} THEN NoPath ELSE d.path]

\* ByteSizeRange::new and ProbeHitsWeightedSumRange::new refuse a range that ends first.
Readable(f) ==
    \A l \in ToSet(Layers) : \A i \in DOMAIN f[l] :
        f[l][i].type \in {"size", "hits", "future"} => f[l][i].min <= f[l][i].max

configuration(f) ==
    LET s == f.scheme
        Layer(l) == [i \in DOMAIN f[l] |-> ReadFilter(f[l][i], l)]
    IN  [action |-> s.action, pattern |-> [max |-> s.max, accesses |-> s.accesses],
         interval |-> s.interval, node |-> s.node,
         quota |-> [size |-> s.size, goals |-> [i \in DOMAIN f.goals |-> ReadGoal(f.goals[i])],
                    tuner |-> s.tuner, charge |-> s.charge],
         high |-> s.high,
         filters |-> Layer("core") \o Layer("ops") \o Layer("unified"),
         dests |-> f.dests, limit |-> s.limit]

-----------------------------------------------------------------------------
(* The writes of a staging. A write of "nothing" is where it gives up.       *)

Write(dir, index, leaf, to) == [dir |-> dir, index |-> index, leaf |-> leaf, to |-> to]
Unsupported == <<Write("nothing", 0, "", 0)>>

Leaf(leaf, to) == <<Write("scheme", 0, leaf, to)>>

When(condition, writes) == IF condition THEN writes ELSE <<>>
WritePath(dir, i, path) == When(path # NoPath, <<Write(dir, i, "path", path)>>)
WriteNumber(dir, i, leaf, number) == When(number # NoNumber, <<Write(dir, i, leaf, number)>>)

\* stage_optional_default, for an attribute a kernel may lack.
Optional(leaf, to, neutral) ==
    IF leaf \in kernel THEN Leaf(leaf, to)
    ELSE When(to # neutral, Unsupported)

ensure_count(f, dir, count) == When(Len(f[dir]) # count, <<Write(dir, 0, "count", count)>>)

\* A directory of numbered children, those that are as observed left alone;
\* writes[i] are the writes of child i.
StageChildren(f, dir, wanted, observed, writes) ==
    IF dir \notin kernel THEN When(wanted # <<>>, Unsupported)
    ELSE ensure_count(f, dir, Len(wanted))
         \o FlattenSeq([i \in DOMAIN wanted |->
                When(Len(observed) # Len(wanted) \/ observed[i] # wanted[i], writes[i])])

StageGoal(g, i) ==
    (IF "metric" \in kernel THEN <<Write("goals", i, "metric", g.metric)>>
     ELSE When(g.metric # "user", Unsupported))
    \o <<Write("goals", i, "value", g.value)>>
    \o WriteNumber("goals", i, "node", g.node) \o WritePath("goals", i, g.path)

StageDestination(d, i) == <<Write("dests", i, "id", d.id), Write("dests", i, "weight", d.weight)>>

\* Mutant: the reject-only filters of an older kernel are taken for allowing ones.
set_allowedMutant(layer, i, value) ==
    When("allow" \in kernel, <<Write(layer, i, "allow", value)>>)

set_allowed(layer, i, value) ==
    IF "allow" \in kernel THEN <<Write(layer, i, "allow", value)>>
    ELSE When(value, Unsupported)

StageRange(layer, i, range) ==
    When(range # NoRange, <<Write(layer, i, "min", range[1]), Write(layer, i, "max", range[2])>>)

StageFilter(layer, f, i) ==
    <<Write(layer, i, "type", f.type)>> \o set_allowed(layer, i, f.allow)
    \o WritePath(layer, i, f.path) \o StageRange(layer, i, f.range)
    \o WriteNumber(layer, i, "target", f.target) \o StageRange(layer, i, f.hits)

\* stage_filter_layer_if_present
StageLayer(f, layer, filters) ==
    IF layer \notin kernel THEN When(filters # <<>>, Unsupported)
    ELSE ensure_count(f, layer, Len(filters))
         \o FlattenSeq([i \in DOMAIN filters |-> StageFilter(layer, filters[i], i)])

\* The filters of one layer of a kernel with split directories.
Split(filters, layer) ==
    SelectSeq(filters, LAMBDA x : IF x.placement = "adaptive" THEN SplitLayer(x.type) = layer
                                  ELSE x.placement = layer)

stage_semantic_filters(f, filters) ==
    IF kernel \intersect {"core", "ops"} # {}
    THEN FlattenSeq([i \in DOMAIN Layers |-> StageLayer(f, Layers[i], Split(filters, Layers[i]))])
    ELSE IF "unified" \in kernel /\ \E i \in DOMAIN filters : filters[i].placement \in {"core", "ops"}
    THEN Unsupported
    ELSE StageLayer(f, "unified", filters)

\* set_access_pattern_adaptive: only the largest number gives way.
StagePattern(p) ==
    Leaf("max", IF p.max = UlongMax /\ "wide" \notin kernel THEN NarrowMax ELSE p.max)
    \o Leaf("accesses", p.accesses)

StageQuota(f, q, observed, known) ==
    When(~known \/ observed.size # q.size, Leaf("size", q.size))
    \o When(~known \/ observed.goals # q.goals,
            StageChildren(f, "goals", q.goals, IF known THEN observed.goals ELSE <<>>,
                          [i \in DOMAIN q.goals |-> StageGoal(q.goals[i], i)]))
    \o When(~known \/ observed.tuner # q.tuner, Optional("tuner", q.tuner, 0))
    \o When(~known \/ observed.charge # q.charge, Optional("charge", q.charge, 0))

\* The writes of stage_configuration_from; o is a sequence of none or one
\* observed configuration.
Plan(f, c, o) ==
    LET known == o # <<>>
        Needs(field) == ~known \/ o[1][field] # c[field]
    IN  When(known => o[1] # c,
            When(Needs("action"), Leaf("action", c.action))
            \o When(known => ~PatternsMatch(c.pattern, o[1].pattern), StagePattern(c.pattern))
            \o When(Needs("interval"), Optional("interval", c.interval, 0))
            \o When(Needs("node"), Optional("node", c.node, -1))
            \o StageQuota(f, c.quota, IF known THEN o[1].quota ELSE c.quota, known)
            \o When(Needs("high"), Leaf("high", c.high))
            \o When(known => ~semantic_filters_match(c.filters, o[1].filters),
                    stage_semantic_filters(f, c.filters))
            \o When(Needs("dests"),
                    StageChildren(f, "dests", c.dests, IF known THEN o[1].dests ELSE <<>>,
                                  [i \in DOMAIN c.dests |-> StageDestination(c.dests[i], i)]))
            \o When(Needs("limit"), Optional("limit", c.limit, 0)))

Fails(w) == w.dir = "nothing" \/ Refused(w)
Completes(plan) == \A i \in DOMAIN plan : ~Fails(plan[i])
After(f, plan) == FoldLeft(Written, f, plan)

-----------------------------------------------------------------------------
Init ==
    /\ kernel \in Kernels
    /\ files = FreshScheme
    /\ last = <<>>
    /\ stagings = 0
    /\ faults = 0

\* With nothing known of the files, or from a configuration that was just read.
Observations == {<<>>} \union (IF Readable(files) THEN {<<configuration(files)>>} ELSE {})

Stage(request, plan) ==
    /\ stagings < MaxStagings
    /\ FiltersAccepted(request)
    /\ Completes(plan)
    /\ files' = After(files, plan)
    /\ last' = <<request>>
    /\ stagings' = stagings + 1
    /\ UNCHANGED <<kernel, faults>>

\* The first n writes, then one the kernel refuses, one it has no file for, or
\* one that fails.
StageFails(request, plan, n) ==
    /\ stagings < MaxStagings
    /\ FiltersAccepted(request)
    /\ Completes(SubSeq(plan, 1, n))
    /\ faults < MaxFaults \/ Fails(plan[n + 1])
    /\ files' = After(files, SubSeq(plan, 1, n))
    /\ faults' = IF Fails(plan[n + 1]) THEN faults ELSE faults + 1
    /\ last' = <<>>
    /\ stagings' = stagings + 1
    /\ UNCHANGED kernel

Next ==
    \E request \in Requests, observed \in Observations :
        LET plan == Plan(files, request, observed)
        IN  \/ Stage(request, plan)
            \/ \E n \in 0 .. Len(plan) - 1 : StageFails(request, plan, n)

Spec == Init /\ [][Next]_vars

-----------------------------------------------------------------------------
\* What a staging returned Ok for is what is read back, whatever earlier
\* stagings left in the directories and whichever leaves it took for staged
\* already (mismatch_error finds nothing).
StagedReadsBack ==
    last # <<>> => Readable(files) /\ Equivalent(last[1], configuration(files))

\* What the kernel takes from a directory, and the two lists it adds the
\* filters of the three directories to.
KernelFilter(d) ==
    [type |-> d.type, allow |-> d.allow,
     data |-> CASE d.type = "anon" -> <<>>
                [] d.type = "memcg" -> <<d.path>>
                [] d.type = "target" -> <<d.target>>
                [] d.type \in {"size", "hits"} -> <<d.min, d.max>>
                [] d.type = "future" -> <<d.path, d.target, d.min, d.max>>]

\* The leaves of a directory that holds just what a filter gives.
Leaves(x) ==
    LET range == IF x.type = "hits" THEN x.hits ELSE IF x.range # NoRange THEN x.range ELSE <<0, 0>>
    IN  [type |-> x.type, allow |-> x.allow, path |-> x.path, target |-> x.target,
         min |-> range[1], max |-> range[2]]

KernelList(f, core) ==
    LET all == f.core \o f.ops \o f.unified
        kept == SelectSeq(all, LAMBDA d : HandledByCore(d.type) = core)
    IN  [i \in DOMAIN kept |-> KernelFilter(kept[i])]

\* Filters that leave their placement to the staging are run by the kernel in
\* the order they were given in, within those the core handles and those the
\* operations set handles, on every kernel (FilterPlacement::Adaptive,
\* semantic_filters_match).
AdaptiveKeepsOrder ==
    (last # <<>> /\ \A i \in DOMAIN last[1].filters : last[1].filters[i].placement = "adaptive") =>
        \A core \in BOOLEAN :
            LET wanted == SelectSeq(last[1].filters, LAMBDA x : HandledByCore(x.type) = core)
            IN  KernelList(files, core) = [i \in DOMAIN wanted |-> KernelFilter(Leaves(wanted[i]))]

\* A valid configuration read from files, torn ones included, makes the same
\* scheme of fresh files: it can be staged on the same kernel, and the kernel
\* takes the same from it (the tests' "disabled controls must round-trip").
ReadRestages ==
    Readable(files) /\ FiltersAccepted(configuration(files)) =>
        LET plan == Plan(FreshScheme, configuration(files), <<>>)
            after == After(FreshScheme, plan)
        IN  /\ Completes(plan)
            /\ after.scheme = files.scheme /\ after.dests = files.dests
            /\ \A core \in BOOLEAN : KernelList(after, core) = KernelList(files, core)
            /\ Len(after.goals) = Len(files.goals)
            /\ \A i \in DOMAIN files.goals : ReadGoal(after.goals[i]) = ReadGoal(files.goals[i])

=============================================================================
