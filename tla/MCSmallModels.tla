---------------------------- MODULE MCSmallModels ----------------------------
(* Small instances of the models that need no other process: what the crate    *)
(* makes of a configuration (ConfigurationUpdates, SchemeStaging,               *)
(* InitialRegions) and of what it reads (ReceiptCodec, CapabilitySupport,       *)
(* TriedRegions). A behaviour is one of one of them; the variables of the       *)
(* others stay idle. Those that TLAPS proves about are parts.                   *)
EXTENDS UpdatesPart, RegionsPart, ScanPart

VARIABLES
    model,                                                 \* the one that runs
    kernel, files, last, stagings, faults,                 \* SchemeStaging
    bytes, captured, offset, phase, todo, out,             \* ReceiptCodec
    exposed, total, dirs, matched, passes, pc,             \* TriedRegions
    listed, start, reported, snapshot, sum, calm

-----------------------------------------------------------------------------
(* ConfigurationUpdates: one scheme and up to three targets; words of 15, hits *)
(* of 3. The choices hold values on both sides of each limit.                   *)

Rules == INSTANCE ConfigurationRules WITH U32 <- MaxU32, U8 <- MaxU8
None == Rules!None

QuotaGoal(metric, target, node) == [metric |-> metric, target |-> target, node |-> node, path |-> None]
NoQuota == [time |-> 0, size |-> 0, reset |-> 0, weight |-> 0, goals |-> <<>>]
NoWatermarks == [metric |-> "none", interval |-> 0, high |-> 0, middle |-> 0, low |-> 0]
NoTuning == [aggregations |-> 0, access |-> 0, min |-> 0, max |-> 0]

Process(pid) == [pid |-> pid, obsolete |-> FALSE, regions |-> TRUE]
Physical == [pid |-> None, obsolete |-> FALSE, regions |-> TRUE]

Scheme(filter) ==
    [action |-> "stat", node |-> None, destinations |-> <<>>, filter |-> filter,
     quota |-> NoQuota, watermarks |-> NoWatermarks]

Baseline(op, targets, action, filter) ==
    [operation |-> op, targets |-> targets, probes |-> <<>>,
     sample |-> 1, aggregation |-> 3, goal |-> NoTuning,
     page_table |-> TRUE, page_fault |-> FALSE, sample_filters |-> FALSE,
     schemes |-> <<[Scheme(filter) EXCEPT !.action = action]>>]

MCBaselines ==
    {Baseline("vaddr", <<Process(1), Process(2)>>, "stat", 1),
     Baseline("fvaddr", <<Process(1)>>, "migrate_hot", None),
     Baseline("paddr", <<Physical>>, "migrate_cold", None)}

SomeTargets == {Process(1), Process(2), [Process(1) EXCEPT !.obsolete = TRUE],
                [Process(2) EXCEPT !.obsolete = TRUE]}

QuotaGoals == {QuotaGoal("user", 1, None), QuotaGoal("node_used", 11, 0),
               QuotaGoal("node_eligible", 1, 0), QuotaGoal("node_free", 0, None),
               QuotaGoal("node_memcg_used", 1, 0)}
Tuning(access, max) == [aggregations |-> 1, access |-> access, min |-> 1, max |-> max]
Watermarks(interval, high) ==
    [metric |-> "free_mem_rate", interval |-> interval, high |-> high, middle |-> 1, low |-> 1]

MCChoices ==
    [operation |-> {"vaddr", "fvaddr", "paddr", "unknown"},
     targets |-> UNION {[1 .. n -> SomeTargets] : n \in 0 .. 2} \union
                 {s \in [1 .. 3 -> SomeTargets] : s[1] = Process(1) /\ ~s[2].obsolete} \union
                 {<<Physical>>, <<[Process(1) EXCEPT !.regions = FALSE]>>},
     probes |-> {<<5, 1>>, <<3, 3>>, <<15, 15>>},
     sample |-> {0, 4}, aggregation |-> {0, 4},
     goal |-> {Tuning(1, 0), Tuning(1, 2), Tuning(11, 2)},
     page_table |-> BOOLEAN, page_fault |-> BOOLEAN, sample_filters |-> BOOLEAN,
     action |-> {"cold", "lru_prio", "unknown"},
     node |-> {-1, 0}, destinations |-> {<<0>>, <<1, 0>>, <<8, 8>>},
     filter |-> 0 .. 2,
     quota |-> {[NoQuota EXCEPT !.goals = <<g>>, !.reset = 1] : g \in QuotaGoals}
                \union {[NoQuota EXCEPT !.goals = <<QuotaGoal("user", 1, None)>>],
                        [NoQuota EXCEPT !.weight = 11], [NoQuota EXCEPT !.time = 1]},
     watermarks |-> {Watermarks(0, 2), Watermarks(1, 0), Watermarks(1, 2), Watermarks(1, 11)}]

-----------------------------------------------------------------------------
(* SchemeStaging: schemes that differ from a plain one in one or two parts, on *)
(* kernels with split directories of filters, with all three, with one, and     *)
(* with none; with and without the later attributes; of 64 and of 32 bits.      *)

UlongMax == 5
NarrowMax == 2
\* Options that are None, as SchemeStaging writes them.
NoPath == "none"
NoRange == <<>>
NoNumber == -2

Plain == [action |-> "stat", pattern |-> [max |-> 1, accesses |-> 1], interval |-> 0, node |-> -1,
          quota |-> [size |-> 0, goals |-> <<>>, tuner |-> 0, charge |-> 0],
          high |-> 0, filters |-> <<>>, dests |-> <<>>, limit |-> 0]

Filter(type, placement) ==
    [type |-> type, placement |-> placement, allow |-> FALSE,
     path |-> IF type \in {"memcg", "future"} THEN "a" ELSE NoPath,
     range |-> IF type \in {"size", "future"} THEN <<1, 2>> ELSE NoRange,
     target |-> IF type \in {"target", "future"} THEN 1 ELSE NoNumber,
     hits |-> IF type = "hits" THEN <<3, 3>> ELSE NoRange]

Allowing(f) == [f EXCEPT !.allow = TRUE]
Adaptive(type) == Filter(type, "adaptive")

FilterLists ==
    {<<Adaptive(a), Adaptive(b)>> : a \in {"target", "memcg"}, b \in {"size", "hits"}}
    \union {<<Adaptive(b), Adaptive(a)>> : a \in {"target"}, b \in {"size"}}
    \union {<<Adaptive("size"), Adaptive("memcg")>>, <<Adaptive("future")>>,
            <<Adaptive("hits"), Adaptive("target")>>,
            <<Allowing(Adaptive("memcg"))>>, <<Filter("size", "ops"), Filter("target", "core")>>,
            <<Filter("target", "unified"), Adaptive("hits"), Adaptive("memcg")>>,
            <<Filter("memcg", "unified")>>, <<Filter("future", "core")>>}

Goal(metric, node, path) == [metric |-> metric, value |-> 1, node |-> node, path |-> path]

Requests ==
    {[Plain EXCEPT !.filters = l] : l \in FilterLists}
    \union {[Plain EXCEPT !.quota.goals = g] :
        g \in {<<Goal("user", NoNumber, NoPath), Goal("node", 1, NoPath)>>,
               <<Goal("node", 1, NoPath)>>, <<Goal("future", 0, "")>>}}
    \union {[Plain EXCEPT !.pattern.max = m] : m \in {NarrowMax, NarrowMax + 1, UlongMax}}
    \union {Plain,
            [Plain EXCEPT !.interval = 1, !.limit = 1], [Plain EXCEPT !.quota.tuner = 1, !.node = 0],
            [Plain EXCEPT !.quota.size = 1, !.quota.charge = 1, !.high = 1, !.action = "migrate"],
            [Plain EXCEPT !.dests = <<[id |-> 0, weight |-> 1]>>],
            [Plain EXCEPT !.dests = <<[id |-> 1, weight |-> 1], [id |-> 0, weight |-> 2]>>]}

Attributes == {"interval", "node", "tuner", "charge", "limit", "goals", "metric", "dests", "allow"}

StagingKernels ==
    {Attributes \union {"core", "ops", "unified", "wide"},
     Attributes \union {"core", "ops", "future_is_core"},
     (Attributes \ {"allow", "limit", "metric", "charge"}) \union {"unified"},
     {"node", "unified", "wide", "goals"},
     {"wide"}}

Staging == INSTANCE SchemeStaging
              WITH Kernels <- StagingKernels, MaxStagings <- 3, MaxFaults <- 1

-----------------------------------------------------------------------------
(* InitialRegions: a page of four words in an address space of 12, and units   *)
(* below, at and above the page, powers of two and not.                         *)

MCUnits == {1, 2, 3, 4, 5}

-----------------------------------------------------------------------------
(* ReceiptCodec: one and two kdamonds in every state, and eight and nine of     *)
(* which all, some or none run; a receipt of every shape (the second kdamond is *)
(* tuned, both run) with a byte damaged: an empty list, the shortest string, a  *)
(* digit, and a number no field holds.                                          *)

Hierarchies ==
    {h \in ((1 .. 2) \X (SUBSET {0, 1}) \X (SUBSET {0, 1}))
           \union ((8 .. 9) \X {{0}} \X {{}, {3}, 0 .. 7}) :
        h[2] \union h[3] \subseteq 0 .. h[1] - 1}

Codec == INSTANCE ReceiptCodec
            WITH Damaged <- {<<2, {1}, {0, 1}>>}, Bytes <- {0, 1, 2, 49, 255}

-----------------------------------------------------------------------------
(* CapabilitySupport: kernels that differ in one group of paths, with all of    *)
(* the others or none. A kernel with filters makes their directories.           *)

Groups == {{"refresh", "avail", "action", "regions", "tried_regions"},
           {"filters", "filters_type", "filters_allow", "core", "core_type", "ops", "ops_type", "ops_allow"},
           {"goals", "metric", "nid", "path"},
           {"probes", "weight", "pfilters", "pfilter", "pfilters_type", "preps", "prep_action"}}

Evidence == INSTANCE CapabilityRules

MCScannedKernels ==
    {k \in UNION {SUBSET group : group \in Groups} \union {Evidence!Paths} :
        "pfilters" \in k <=> "pfilter" \in k}

-----------------------------------------------------------------------------
(* TriedRegions: passes that match up to three regions in an address space of   *)
(* four words: sums up to nine, so that totals overflow, and directories that    *)
(* are sparse.                                                                  *)

MatchedRegions == {[start |-> 0, end |-> 1], [start |-> 1, end |-> 3], [start |-> 2, end |-> 3]}

Passes == UNION {[0 .. n -> MatchedRegions] : n \in 0 .. 2}

Tried == INSTANCE TriedRegions
            WITH MaxWord <- 3, Units <- 1 .. 3, MaxPasses <- 2,
                 todo <- listed, regions <- snapshot

-----------------------------------------------------------------------------
(* One of them *)

Models == {"updates", "staging", "regions", "codec", "scan", "tried"}
Idle == <<>>

Init ==
    /\ model \in Models
    /\ IF model = "updates" THEN Updates!Init
       ELSE draft = Idle /\ managed = Idle /\ live = Idle /\ refused = Idle /\ edits = Idle
    /\ IF model = "staging" THEN Staging!Init
       ELSE kernel = Idle /\ files = Idle /\ last = Idle /\ stagings = Idle /\ faults = Idle
    /\ IF model = "regions" THEN Initial!Init
       ELSE /\ operation = Idle /\ unit = Idle /\ regions = Idle
            /\ asked = [how |-> "none"] /\ aligned = Idle
    /\ IF model = "codec" THEN Codec!Init
       ELSE bytes = Idle /\ captured = Idle /\ offset = Idle /\ phase = Idle /\ todo = Idle /\ out = Idle
    /\ IF model = "scan" THEN Scan!Init
       ELSE shown = Idle /\ schemes = Idle /\ read = -1 /\ told = Idle
    /\ IF model = "tried" THEN Tried!Init
       ELSE /\ exposed = Idle /\ total = Idle /\ dirs = Idle /\ matched = Idle /\ passes = Idle
            /\ pc = Idle /\ listed = Idle /\ start = Idle /\ reported = Idle
            /\ snapshot = Idle /\ sum = Idle /\ calm = Idle

updateVars == <<draft, managed, live, refused, edits>>
stagingVars == <<kernel, files, last, stagings, faults>>
regionVars == <<operation, unit, regions, asked, aligned>>
codecVars == <<bytes, captured, offset, phase, todo, out>>
scanVars == <<shown, schemes, read, told>>
triedVars == <<exposed, total, dirs, matched, passes, pc, listed, start, reported, snapshot, sum, calm>>
vars == <<model, updateVars, stagingVars, regionVars, codecVars, scanVars, triedVars>>

Updating == model = "updates" /\ Updates!Next
Stagings == model = "staging" /\ Staging!Next
MakingRegions == model = "regions" /\ Initial!Next
Decoding == model = "codec" /\ Codec!Next
Scanning == model = "scan" /\ Scan!Next
Reading == model = "tried" /\ Tried!Next

Next ==
    \/ Updating /\ UNCHANGED <<model, stagingVars, regionVars, codecVars, scanVars, triedVars>>
    \/ Stagings /\ UNCHANGED <<model, updateVars, regionVars, codecVars, scanVars, triedVars>>
    \/ MakingRegions /\ UNCHANGED <<model, updateVars, stagingVars, codecVars, scanVars, triedVars>>
    \/ Decoding /\ UNCHANGED <<model, updateVars, stagingVars, regionVars, scanVars, triedVars>>
    \/ Scanning /\ UNCHANGED <<model, updateVars, stagingVars, regionVars, codecVars, triedVars>>
    \/ Reading /\ UNCHANGED <<model, updateVars, stagingVars, regionVars, codecVars, scanVars>>

Spec == Init /\ [][Next]_vars

-----------------------------------------------------------------------------
(* Properties: what the other models promise; those of the parts are there.   *)

\* What a session accepted has counters and sums of weights that the kernel can
\* hold (validate_weighted_probes, SchemeConfig::validate_for).
SumsFitTheKernel ==
    model = "updates" => Updates!HitsFit /\ Updates!DestinationsCanBeDrawn

\* A scheme staged with Ok is read back as it was asked for, whatever the
\* directories held before, its filters run in the order given, and what is
\* read can be staged again (stage_scheme, semantic_filters_match).
StagingKeepsMeaning ==
    model = "staging" =>
        Staging!StagedReadsBack /\ Staging!AdaptiveKeepsOrder /\ Staging!ReadRestages

\* from_bytes accepts what to_bytes wrote and nothing that contradicts itself.
ReceiptsDecode ==
    model = "codec" =>
        Codec!AcceptsOnlyEncodings /\ Codec!VolatileAreTheTuned /\ Codec!FewKdamondsRoundTrip

\* Snapshots read from files that change under the reader add up, and those
\* nobody disturbed are the kernel's (SchemeTriedRegions::snapshot).
SnapshotsAddUp ==
    model = "tried" => Tried!TotalIsTheSum /\ Tried!CalmReadsAreTrue /\ Tried!BytesAddUp
=============================================================================
