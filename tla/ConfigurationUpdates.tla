------------------------- MODULE ConfigurationUpdates -------------------------
(***************************************************************************)
(* A caller that edits a configuration, opens a managed session with it    *)
(* and sends it again, edited or not, as running updates; the targets the  *)
(* running kdamond is left with, by the index rules of the kernel's        *)
(* commit; and the markers of obsolete targets, which an update carries    *)
(* once and the session drops (ManagedHierarchy::stage_and_commit_running).*)
(***************************************************************************)
EXTENDS ConfigurationRules

CONSTANTS
    Baselines,      \* configurations a caller starts from
    Values,         \* for a field, the values a caller puts there
    MaxEdits        \* bound: edits of the caller

VARIABLES
    draft,          \* the configuration in the hands of the caller
    managed,        \* what the session has staged: a sequence of none or one
    live,           \* pids of the targets of the running kdamond
    refused,        \* the kernel refused a commit
    edits

vars == <<draft, managed, live, refused, edits>>

Pids(targets) == [i \in DOMAIN targets |-> targets[i].pid]

-----------------------------------------------------------------------------
\* damon_commit_targets: by index, a marked target goes, an unmarked one takes
\* the new values, targets beyond the list go and new ones are added. A marker
\* on a target that does not run is refused.
KernelRefuses(targets) ==
    \E i \in DOMAIN targets : targets[i].obsolete /\ i \notin DOMAIN live

KernelCommit(c) ==
    IF KernelRefuses(c.targets)
    THEN refused' = TRUE /\ live' = live
    ELSE /\ live' = Pids(Retained(c.targets))
         /\ refused' = refused

\* The kernel counts hits in bytes and adds them up, weighted, in unsigned ints.
KernelHits(c) == 0 .. AtLeastOne(c.aggregation \div AtLeastOne(c.sample))

KernelWeightedSum(c, hits) == Sum([i \in DOMAIN c.probes |-> c.probes[i] * hits[i]])

\* A destination is drawn by a number below the total of the weights, which is
\* an unsigned int: the first one whose running total is above the number.
KernelDraws(weights, i) ==
    \E n \in 0 .. (Sum(weights) % (U32 + 1)) - 1 :
        /\ Sum(SubSeq(weights, 1, i - 1)) <= n
        /\ n < Sum(SubSeq(weights, 1, i))

-----------------------------------------------------------------------------
Init ==
    /\ draft \in Baselines
    /\ managed = <<>>
    /\ live = <<>>
    /\ refused = FALSE
    /\ edits = 0

\* field is a field of a context, or of its first scheme.
Edit(field, value) ==
    /\ edits < MaxEdits
    /\ draft' = IF field \in DOMAIN draft THEN [draft EXCEPT ![field] = value]
                ELSE [draft EXCEPT !.schemes[1][field] = value]
    /\ edits' = edits + 1
    /\ UNCHANGED <<managed, live, refused>>

\* Damon::managed_hierarchy and start_all.
Start ==
    /\ managed = <<>>
    /\ validate_runnable(draft)
    /\ managed' = <<draft>>
    /\ live' = Pids(draft.targets)
    /\ UNCHANGED <<draft, refused, edits>>

\* The hierarchy is staged as it stands, committed, and staged again without
\* the markers; a refused commit is rolled back.
Update ==
    /\ managed # <<>>
    /\ validate_running_update(draft)
    /\ validate_obsolete_target_updates(managed[1], draft)
    /\ KernelCommit(draft)
    /\ managed' = IF refused' /\ ~refused THEN managed
                  ELSE <<without_obsolete_targets(draft)>>
    /\ UNCHANGED <<draft, edits>>

\* The caller goes on from what the session reports (configuration()).
Reload ==
    /\ managed # <<>>
    /\ draft' = managed[1]
    /\ UNCHANGED <<managed, live, refused, edits>>

Next ==
    \/ \E field \in DOMAIN Values : \E value \in Values[field] : Edit(field, value)
    \/ Start
    \/ Update
    \/ Reload

Spec == Init /\ [][Next]_vars

-----------------------------------------------------------------------------
\* Whatever updates a session has accepted, markers and all, what it is left
\* with when the markers are dropped could have been started afresh: it can be
\* sent again, stored in a receipt and restored (validate_running_update,
\* without_obsolete_targets).
UpdatesStayRunnable ==
    managed # <<>> => validate_runnable(managed[1])

\* The indexes of the session and of the running kdamond name the same targets
\* after any sequence of updates, and the kernel never refuses a marker the
\* crate let through.
IndexesAgree == managed # <<>> => live = Pids(managed[1].targets) /\ ~refused

\* The process a marker removes from the running kdamond is the one the caller
\* named, even when the update is an old one sent again
\* (validate_obsolete_target_updates).
MarkersRemoveTheNamed ==
    [][\A i \in DOMAIN live :
            live' # live /\ i \in DOMAIN draft.targets /\ draft.targets[i].obsolete
            => live[i] = draft.targets[i].pid]_vars

\* The weighted hits of the probes fit the kernel's counters, whatever the
\* hits are (ContextConfig::validate_weighted_probes).
HitsFit ==
    managed # <<>> /\ (\E i \in DOMAIN managed[1].probes : managed[1].probes[i] # 0) =>
        LET c == managed[1]
        IN  /\ KernelHits(c) \subseteq 0 .. U8
            /\ \A hits \in [DOMAIN c.probes -> KernelHits(c)] : KernelWeightedSum(c, hits) <= U32

\* A scheme with destinations can draw every one that has a weight, and there
\* is one (SchemeConfig::validate_for).
DestinationsCanBeDrawn ==
    managed # <<>> =>
        \A k \in DOMAIN managed[1].schemes :
            LET weights == managed[1].schemes[k].destinations
            IN  weights # <<>> =>
                    /\ \E i \in DOMAIN weights : KernelDraws(weights, i)
                    /\ \A i \in DOMAIN weights : weights[i] # 0 => KernelDraws(weights, i)

=============================================================================
