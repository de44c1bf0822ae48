------------------------- MODULE UpdateTransaction -------------------------
(***************************************************************************)
(* The two transactions that change running kdamonds:                      *)
(* ManagedHierarchy::update_configuration and update_scheme_quota_goals.   *)
(* Both capture the hierarchy, stage the request leaf by leaf, read it     *)
(* back, have the kernel threads commit it, and adopt what they captured;  *)
(* after a failure they put the written leaves back and commit again.      *)
(* Every write, command and scan of the hierarchy is one step.             *)
(***************************************************************************)
EXTENDS DamonLeaves

CONSTANTS
    Requests,         \* the calls: kind, want (typed leaf -> value), selected
    Goals,            \* the leaves below the goals directory of one scheme
    InitialLeaves,    \* contents of the hierarchy the session staged
    InitialThreads,   \* pids of its kdamonds, 0 for one that is only staged
    RogueWritable,    \* <<leaf, value>>: what a foreign controller writes
    TunedValues,      \* intervals the kernel moves to
    Misstored,        \* what the kernel may store instead of a written value
    MaxPid, MaxCalls, MaxRogue, MaxFaults, MaxExits, MaxTunes   \* bounds

\* A configuration counts what it lists, also when the marked targets are gone.
ASSUME RequestsAssumption ==
    \A r \in Requests :
        /\ r.want \in Configurations /\ Shaped(r.want)
        /\ r.selected \in Seq(K) /\ r.selected # <<>>
        /\ \/ /\ r.kind = "update" /\ DOMAIN r.want = Typed
              /\ LET cleaned == Cleaned(r.want, {r.selected[k] : k \in DOMAIN r.selected})
                 IN  cleaned \in Configurations /\ Shaped(cleaned)
           \/ r.kind = "goals" /\ DOMAIN r.want \subseteq Goals
ASSUME GoalsAssumption ==
    /\ Goals \subseteq Leaves \ Tuned
    /\ \A c \in Goals \cap Counts : Under[c] \subseteq Goals
ASSUME InitialAssumption ==
    /\ \A f \in InitialLeaves : f \in Contents /\ Shaped(f)
    /\ InitialThreads \subseteq [K -> 0 .. N] /\ N <= MaxPid
ASSUME RogueAssumption ==
    /\ RogueWritable \subseteq Leaves \X Values
    /\ TunedValues \subseteq Values
    /\ Misstored \subseteq Values
ASSUME BoundsAssumption ==
    /\ MaxPid \in Nat /\ MaxCalls \in Nat /\ MaxRogue \in Nat
    /\ MaxFaults \in Nat /\ MaxExits \in Nat /\ MaxTunes \in Nat

VARIABLES
    states,    \* Running(pid), or 0 for Staged
    staged,    \* StagedOwnership.configuration
    pc,        \* the next step of the call in progress
    txn,       \* its local variables
    result,    \* how the last call returned
    calls, rogue, faults, exits, tunes   \* budgets

budgets == <<calls, rogue, faults, exits, tunes>>
vars == <<kernelVars, states, staged, pc, txn, result, budgets>>

\* Nothing was written yet; staging and commit; undoing.
CheckPCs == {"owned", "capture", "read", "recheck", "owned_again"}
StagePCs == {"stage_ids", "stage", "staged_ids", "unchanged", "snapshot",
             "compare", "values", "commit_ids"}
CommitPCs == {"commit_id", "commit", "committed"}
RestorePCs == {"restore_ids", "boundary", "restore", "restored", "restored_ids",
               "restored_match", "recapture", "recommitted_match"}
PCs == {"idle", "adopt"} \cup CheckPCs \cup StagePCs \cup CommitPCs \cup RestorePCs

Results == {"none", "ok", "rejected", "failed", "rollback_failed"}

\* config and previous of the staging in progress, the snapshots, the journal of
\* writes and what is left of the loops; and for the properties: what was asked
\* for and observed, the files and what ran when the call began, whether a
\* commit reached another thread.
Nothing == [l \in {} |-> Absent]
NoTxn == [kind |-> "none", goal |-> Nothing, from |-> Nothing, selected |-> <<>>,
          before |-> Nothing, captured |-> Nothing, journal |-> {}, todo |-> {},
          queue |-> <<>>, phase |-> "main", mode |-> "forward",
          asked |-> Nothing, observed |-> Nothing,
          began |-> [leaf |-> Nothing, active |-> Nothing], strayed |-> FALSE]

Locals ==
    [kind : {"update", "goals"}, goal : Configurations, from : Configurations,
     selected : Seq(K), before : Contents \cup {Nothing},
     captured : Contents \cup {Nothing}, journal : SUBSET Typed,
     todo : SUBSET Leaves, queue : Seq(K), phase : {"main", "clean"},
     mode : {"forward", "rollback", "written"},
     asked : Configurations, observed : Configurations,
     began : [leaf : Contents, active : Contents], strayed : BOOLEAN]
Txns == Locals \cup {NoTxn}

Selected == {txn.selected[k] : k \in DOMAIN txn.selected}

-----------------------------------------------------------------------------
(* Ownership checks *)

\* Mutant: any running thread is taken for the recorded one.
IdentityMutant(i) == On(i)

\* verify_running_identity_only
Identity(i) == thread[i] = states[i]

\* verify_owned_identities_only
Identities ==
    \A i \in K : thread[i] = states[i]

\* verify_owned_state
Owned == MatchesExcept(staged, Tuned) /\ Identities

\* Mutant: only the selected kdamonds are read back.
SameTypedMutant(goal, observed) ==
    \A l \in DOMAIN goal \ Tuned :
        Dir[l] \in Selected => goal[l] = observed[l]

\* normalize_running_tuned_intervals, then DamonConfig equality; quota goals
\* are compared as they are.
SameTyped(goal, observed) ==
    \A l \in DOMAIN goal \ Tuned : goal[l] = observed[l]

\* Unselected kdamonds are requested as they are, and only existing targets
\* are marked obsolete.
Acceptable(goal, from) ==
    /\ \A l \in DOMAIN goal \ Tuned :
            Dir[l] \notin Selected => goal[l] = from[l]
    /\ \A l \in DOMAIN goal : goal[l] = Gone => from[l] \notin {Gone, Absent}

\* What the staging of quota goals may change while everything else has to
\* match the owned fingerprint.
GoalScope(goal, from) ==
    IF \A c \in Counts \cap DOMAIN goal : goal[c] = from[c]
    THEN {l \in DOMAIN goal : goal[l] # from[l]}
    ELSE Goals

\* The files a commit command hands to the thread of kdamond i.
Committed(i) == IF txn.kind = "update" THEN LeavesOf(i) ELSE Goals \cap LeavesOf(i)

-----------------------------------------------------------------------------
(* Control *)

Advance(l, t) ==
    /\ pc' = l
    /\ txn' = t
    /\ UNCHANGED result

Return(r) ==
    /\ pc' = "idle"
    /\ txn' = NoTxn
    /\ result' = r

\* A failing step: before the first write the call just returns, later it
\* turns to the rollback, and a failing rollback gives up.
Fail ==
    IF pc \in CheckPCs THEN Return("rejected")
    ELSE IF txn.mode = "forward"
    THEN Advance("restore_ids", [txn EXCEPT !.mode = "rollback", !.todo = {},
                                            !.queue = <<>>, !.captured = Nothing])
    ELSE Return("rollback_failed")

Continue(cond, l, t) == IF cond THEN Advance(l, t) ELSE Fail

\* A step that only reads.
Look(cond, l, t) ==
    /\ Continue(cond, l, t)
    /\ UNCHANGED <<kernelVars, states, staged, budgets>>

-----------------------------------------------------------------------------
(* Before the first write *)

Call ==
    /\ pc = "idle"
    /\ calls < MaxCalls
    /\ calls' = calls + 1
    /\ \E r \in Requests :
        IF \E k \in DOMAIN r.selected : states[r.selected[k]] = 0
        THEN Return("rejected")
        ELSE Advance("owned", [NoTxn EXCEPT !.kind = r.kind,
                                            !.began = [leaf |-> leaf, active |-> active],
                                            !.goal = r.want, !.asked = r.want,
                                            !.selected = r.selected])
    /\ UNCHANGED <<kernelVars, states, staged, rogue, faults, exits, tunes>>

VerifyOwned ==
    /\ pc = "owned"
    /\ Look(Owned, "capture", txn)

CaptureBefore ==
    /\ pc = "capture"
    /\ Look(TRUE, "read", [txn EXCEPT !.before = leaf])

\* A scheme that is not there has no goals to read.
ReadTyped ==
    LET read == [l \in DOMAIN txn.goal |-> leaf[l]]
    IN  /\ pc = "read"
        /\ Look(\A l \in DOMAIN read : Above(l) \cap DOMAIN read = {} => Exists(l),
                "recheck", [txn EXCEPT !.from = read, !.observed = read])

Recheck ==
    /\ pc = "recheck"
    /\ Look(MatchesExcept(txn.before, Tuned), "owned_again", txn)

\* The second ownership check and the checks of the request against what was
\* observed; unselected kdamonds keep what they have.
VerifyRequest ==
    LET effective == [l \in DOMAIN txn.goal |->
            IF Dir[l] \in Selected THEN txn.goal[l] ELSE txn.from[l]]
    IN  /\ pc = "owned_again"
        /\ IF Owned /\ txn.kind = "goals" /\ txn.goal = txn.from
           THEN Return("ok")
           ELSE Continue(Owned /\ Acceptable(txn.goal, txn.from), "stage_ids",
                         [txn EXCEPT !.goal = effective, !.asked = effective])
        /\ UNCHANGED <<kernelVars, states, staged, budgets>>
-----------------------------------------------------------------------------
(* stage_and_commit_running and stage_and_commit_quota_goals *)

StartStaging ==
    /\ pc = "stage_ids"
    /\ Look(Identities, "stage",
            [txn EXCEPT !.todo = ToStage(txn.goal, txn.from)])

\* The write of one leaf; ensure_count skips a count that already matches.
\* The kernel may store something else than what was written.
StageLeaf ==
    LET l == Least(txn.todo)
        rest == txn.todo \ {l}
    IN  /\ pc = "stage"
        /\ txn.todo # {}
        /\ \/ /\ l \in Counts /\ leaf[l] = txn.goal[l]
              /\ Look(TRUE, "stage", [txn EXCEPT !.todo = rest])
           \/ /\ ~(l \in Counts /\ leaf[l] = txn.goal[l])
              /\ Exists(l)
              /\ \/ /\ WriteLeaf(l, txn.goal[l])
                    /\ UNCHANGED faults
                 \/ /\ l \notin Counts
                    /\ faults < MaxFaults
                    /\ faults' = faults + 1
                    /\ \E v \in Misstored \ {txn.goal[l]} : WriteLeaf(l, v)
              /\ Advance("stage", [txn EXCEPT !.todo = rest,
                                              !.journal = @ \cup {l}])
              /\ UNCHANGED <<states, staged, calls, rogue, exits, tunes>>
           \/ /\ ~Exists(l)
              /\ Look(FALSE, "stage", txn)

StagingDone ==
    /\ pc = "stage"
    /\ txn.todo = {}
    /\ Look(TRUE, "staged_ids", txn)

VerifyStagedIdentities ==
    /\ pc = "staged_ids"
    /\ Look(Identities, IF txn.kind = "goals" THEN "unchanged" ELSE "snapshot", txn)

\* Quota goals: nothing else moved away from the owned fingerprint.
VerifyUnchanged ==
    /\ pc = "unchanged"
    /\ Look(MatchesExcept(staged, Tuned \cup GoalScope(txn.goal, txn.from)),
            "snapshot", txn)

CaptureStaged ==
    /\ pc = "snapshot"
    /\ Look(TRUE, "compare", [txn EXCEPT !.captured = leaf])

CompareTyped ==
    /\ pc = "compare"
    /\ Look(SameTyped(txn.goal, leaf), "values", txn)

\* values_match_current ignores no path.
ValuesMatch ==
    /\ pc = "values"
    /\ Look(MatchesExcept(txn.captured, {}), "commit_ids", txn)

StartCommits ==
    /\ pc = "commit_ids"
    /\ Look(Identities,
            IF txn.phase = "main" THEN "commit_id" ELSE "adopt",
            [txn EXCEPT !.queue = txn.selected])

-----------------------------------------------------------------------------
(* The commit loop, of the staging and of the rollback *)

VerifyBeforeCommit ==
    /\ pc = "commit_id"
    /\ Look(Identity(Head(txn.queue)), "commit", txn)

Commit ==
    LET i == Head(txn.queue) IN
    /\ pc = "commit"
    /\ \/ /\ CommitLeaves(i, Committed(i))
          /\ Advance("committed",
                     [txn EXCEPT !.strayed = @ \/ thread[i] # states[i]])
          /\ UNCHANGED <<states, staged, budgets>>
       \/ /\ ~On(i)
          /\ Look(FALSE, "committed", txn)

\* A staging that marked targets obsolete is followed by one that drops them.
VerifyAfterCommit ==
    LET i == Head(txn.queue)
        cleaned == Cleaned(txn.goal, Selected)
        again == txn.mode = "forward" /\ txn.kind = "update"
                 /\ \E l \in DOMAIN txn.goal : txn.goal[l] = Gone
    IN  /\ pc = "committed"
        /\ IF ~Identity(i) THEN Fail
           ELSE IF Len(txn.queue) > 1
           THEN Advance("commit_id", [txn EXCEPT !.queue = Tail(@)])
           ELSE IF again
           THEN Advance("stage_ids", [txn EXCEPT !.queue = <<>>, !.phase = "clean",
                                                 !.from = txn.goal,
                                                 !.goal = cleaned])
           ELSE IF txn.mode = "written" THEN Fail
           ELSE Advance(IF txn.mode = "forward" THEN "adopt"
                        ELSE IF txn.kind = "update" THEN "recapture"
                        ELSE "recommitted_match",
                        [txn EXCEPT !.queue = <<>>])
        /\ UNCHANGED <<kernelVars, states, staged, budgets>>

\* staged.verify of the fingerprint that becomes the owned one.
Adopt ==
    /\ pc = "adopt"
    /\ IF MatchesExcept(txn.captured, Tuned)
       THEN /\ staged' = txn.captured
            /\ Return(IF txn.mode = "forward" THEN "ok" ELSE "failed")
       ELSE Fail /\ UNCHANGED staged
    /\ UNCHANGED <<kernelVars, states, budgets>>

-----------------------------------------------------------------------------
(* restore_and_commit_running and restore_and_commit_quota_goals *)

VerifyBeforeRestore ==
    /\ pc = "restore_ids"
    /\ Look(Identities, "boundary", txn)

\* verify_rollback_boundary: a change outside what was written, or a failing
\* read, lets the rollback continue, but no longer succeed.
VerifyBoundary ==
    LET affected == AffectedBy(txn.before, txn.journal)
        Begin(mode) == Advance("restore",
                [txn EXCEPT !.todo = ToRestore(txn.before, affected), !.mode = mode])
    IN  /\ pc = "boundary"
        /\ \/ /\ Begin(IF MatchesExcept(txn.before, affected \cup Tuned)
                       THEN "rollback" ELSE "written")
              /\ UNCHANGED faults
           \/ /\ faults < MaxFaults
              /\ faults' = faults + 1
              /\ Begin("written")
        /\ UNCHANGED <<kernelVars, states, staged, calls, rogue, exits, tunes>>

RestoreLeaf ==
    LET l == Least(txn.todo)
        rest == [txn EXCEPT !.todo = @ \ {l}]
    IN  /\ pc = "restore"
        /\ txn.todo # {}
        /\ \/ /\ ~MustRestore(txn.before, l)
              /\ Look(TRUE, "restore", rest)
           \/ /\ MustRestore(txn.before, l)
              /\ WriteLeaf(l, txn.before[l])
              /\ Advance("restore", rest)
              /\ UNCHANGED <<states, staged, budgets>>
           \/ /\ ~Exists(l)
              /\ Look(FALSE, "restore", rest)

\* Mutant: the restored files are not committed.
RestoreDoneMutant ==
    /\ pc = "restore"
    /\ txn.todo = {}
    /\ Look(RestoredMatches(txn.before, AffectedBy(txn.before, txn.journal)),
            IF txn.kind = "update" THEN "recapture" ELSE "recommitted_match", txn)

RestoreDone ==
    /\ pc = "restore"
    /\ txn.todo = {}
    /\ Look(RestoredMatches(txn.before, AffectedBy(txn.before, txn.journal)),
            IF txn.mode = "rollback" /\ txn.kind = "update"
            THEN "restored_ids" ELSE "commit_id",
            [txn EXCEPT !.queue = txn.selected])

VerifyRestoredIdentities ==
    /\ pc = "restored_ids"
    /\ Look(Identities, "restored_match", txn)

VerifyRestored ==
    /\ pc = "restored_match"
    /\ Look(MatchesExcept(txn.before, Tuned), "commit_id", txn)

\* update_configuration captures and then compares, quota goals compare and
\* then capture.
Recapture ==
    /\ pc = "recapture"
    /\ Look(TRUE, IF txn.kind = "update" THEN "recommitted_match" ELSE "adopt",
            [txn EXCEPT !.captured = leaf])

VerifyRecommitted ==
    /\ pc = "recommitted_match"
    /\ Look(MatchesExcept(txn.before, Tuned),
            IF txn.kind = "update" THEN "adopt" ELSE "recapture", txn)

-----------------------------------------------------------------------------
(* Failing accesses *)

IoError ==
    /\ pc \notin {"idle", "boundary"}
    /\ faults < MaxFaults
    /\ faults' = faults + 1
    /\ Fail
    /\ UNCHANGED <<kernelVars, states, staged, calls, rogue, exits, tunes>>

\* retry_busy runs its closure again from the start: the staging with the
\* identity check it begins with, the restoration with its first leaf.
TransientBusy ==
    /\ faults < MaxFaults
    /\ faults' = faults + 1
    /\ \/ /\ pc = "stage"
          /\ Advance("stage_ids", [txn EXCEPT !.todo = {}])
       \/ /\ pc = "restore"
          /\ Advance("restore", [txn EXCEPT !.todo =
                ToRestore(txn.before, AffectedBy(txn.before, txn.journal))])
    /\ UNCHANGED <<kernelVars, states, staged, calls, rogue, exits, tunes>>
-----------------------------------------------------------------------------
(* The kernel and a foreign controller that ignores the session lock *)

KernelTunes ==
    /\ tunes < MaxTunes
    /\ tunes' = tunes + 1
    /\ \E l \in Tuned, v \in TunedValues : TuneLeaf(l, v)
    /\ UNCHANGED <<states, staged, pc, txn, result, calls, rogue, faults, exits>>

KdamondExits ==
    /\ exits < MaxExits
    /\ exits' = exits + 1
    /\ \E i \in K : EndThread(i)
    /\ UNCHANGED <<states, staged, pc, txn, result, calls, rogue, faults, tunes>>

RogueActs ==
    /\ rogue < MaxRogue
    /\ rogue' = rogue + 1
    /\ \/ \E w \in RogueWritable : leaf[w[1]] # w[2] /\ WriteLeaf(w[1], w[2])
       \/ \E i \in K : nextPid <= MaxPid /\ StartThread(i)
       \/ \E i \in K : EndThread(i)
    /\ UNCHANGED <<states, staged, pc, txn, result, calls, faults, exits, tunes>>

-----------------------------------------------------------------------------
(* Specification *)

Init ==
    /\ leaf \in InitialLeaves
    /\ active = leaf
    /\ thread \in InitialThreads
    /\ nextPid = N + 1
    /\ states = thread
    /\ staged = leaf
    /\ pc = "idle"
    /\ txn = NoTxn
    /\ result = "none"
    /\ calls = 0 /\ rogue = 0 /\ faults = 0 /\ exits = 0 /\ tunes = 0

Prepare == VerifyOwned \/ CaptureBefore \/ ReadTyped \/ Recheck \/ VerifyRequest
Stage == StartStaging \/ StageLeaf \/ StagingDone \/ VerifyStagedIdentities
         \/ VerifyUnchanged \/ CaptureStaged \/ CompareTyped \/ ValuesMatch
         \/ StartCommits
CommitLoop == VerifyBeforeCommit \/ Commit \/ VerifyAfterCommit \/ Adopt
Restore == VerifyBeforeRestore \/ VerifyBoundary \/ RestoreLeaf \/ RestoreDone
           \/ VerifyRestoredIdentities \/ VerifyRestored \/ Recapture
           \/ VerifyRecommitted
Proceed == Prepare \/ Stage \/ CommitLoop \/ Restore
Faulty == IoError \/ TransientBusy
Environment == KernelTunes \/ KdamondExits \/ RogueActs

Next == Call \/ Proceed \/ Faulty \/ Environment

Spec == Init /\ [][Next]_vars /\ WF_vars(Proceed)

-----------------------------------------------------------------------------
(* Properties *)

\* Every variable has its type; the record of locals exists only during a call.
TypeOK ==
    /\ leaf \in Contents /\ active \in Contents /\ staged \in Contents
    /\ thread \in [K -> 0 .. MaxPid] /\ nextPid \in 1 .. MaxPid + 1
    /\ states \in [K -> 0 .. MaxPid]
    /\ pc \in PCs /\ result \in Results /\ txn \in Txns
    /\ pc = "idle" <=> txn = NoTxn
    /\ calls \in 0 .. MaxCalls /\ rogue \in 0 .. MaxRogue /\ faults \in 0 .. MaxFaults
    /\ exits \in 0 .. MaxExits /\ tunes \in 0 .. MaxTunes

Returns == pc # "idle" /\ pc' = "idle"
Undisturbed == rogue = 0 /\ exits = 0

\* All the leaves the transaction has a reason to touch: what it stages, with
\* everything below a count it may rewrite.
Staging ==
    ToStage(txn.asked, txn.observed)
    \cup (IF txn.phase = "clean" THEN ToStage(txn.goal, txn.from) ELSE {})
Reach == Staging \cup UNION {Under[c] : c \in Staging \cap Counts}

\* The threads ran what the files said when the call began, as they do but
\* after an undoing that failed.
InStep == \A l \in Leaves \ Tuned : txn.began.active[l] = txn.began.leaf[l]

\* A transaction that nobody disturbs happens as a whole or not at all, whatever
\* access fails: when it returns success, the selected kdamonds run the request
\* and the files show it (without the targets it dropped) and nothing else
\* changed; when it returns an ordinary error, every file, unknown attributes
\* included, and every running configuration is what it was (auto-tuned
\* intervals apart). One failing access, or one interval moved by the kernel,
\* never makes the undoing fail.
UpdateAtomic ==
    [][Returns /\ Undisturbed =>
        /\ faults' + tunes <= 1 => result' # "rollback_failed"
        /\ result' = "ok" =>
            /\ \A l \in DOMAIN txn.goal \ Tuned :
                    leaf'[l] = txn.goal[l]
            /\ pc = "adopt" \/ InStep =>
                \A l \in DOMAIN txn.asked \ Tuned :
                    Dir[l] \in Selected => active'[l] = txn.asked[l]
            /\ \A l \in Leaves : Dir[l] \notin Selected =>
                    /\ active'[l] = txn.began.active[l]
                    /\ l \notin Tuned => leaf'[l] = txn.began.leaf[l]
        /\ result' \in {"rejected", "failed"} =>
            \A l \in Leaves \ Tuned :
                /\ leaf'[l] = txn.began.leaf[l]
                /\ InStep => active'[l] = txn.began.active[l]
        /\ result' = "failed" => \A l \in Leaves \ Tuned : leaf'[l] = staged'[l]]_vars

\* When a call returns success, every commit it sent was carried out by a
\* thread the session started, never by another controller's.
OkReachedOwnThreads ==
    [][Returns /\ result' = "ok" => ~txn.strayed]_vars

\* No step of a transaction, staging or undoing, changes a file the request
\* does not reach: what a foreign controller wrote elsewhere survives even a
\* rollback, and so do the intervals the kernel tunes meanwhile.
WritesOnlyRequested ==
    [][(pc' # pc \/ txn' # txn) =>
        \A l \in Leaves : leaf'[l] # leaf[l] => l \in Reach]_vars

\* The session does not take a foreign controller's value of a known attribute
\* into the configuration it owns, unless the request reaches that attribute. A
\* controller that writes, writes back and writes again, each time between two
\* of the session's reads, is beyond what the comparisons can tell.
AdoptsOwn(kind) ==
    pc = "adopt" /\ staged' # staged /\ txn.kind = kind /\ rogue <= 2 =>
        \A l \in Typed \ (Tuned \cup Reach) : staged'[l] = staged[l]

\* update_configuration keeps to that.
UpdateAdoptsOwn == [][AdoptsOwn("update")]_vars

\* update_scheme_quota_goals is said to: "concurrent non-goal change must not
\* become owned" (src/src/monitor/tests/runtime.rs:400).
GoalsAdoptOwn == [][AdoptsOwn("goals")]_vars

=============================================================================
