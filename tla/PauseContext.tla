---------------------------- MODULE PauseContext ----------------------------
(***************************************************************************)
(* KdamondRuntime::pause_context and resume_context (set_context_paused):  *)
(* one file is written, the kernel thread commits the whole kdamond, the   *)
(* owned fingerprint is refreshed; a failure after the write puts the      *)
(* preceding value back and commits again.  No access but the commit is    *)
(* retried.                                                                *)
(***************************************************************************)
EXTENDS DamonLeaves

CONSTANTS
    Pauses,          \* the pause files
    Yes, No,         \* what they hold
    InitialLeaf,     \* the hierarchy the session staged
    InitialThread,   \* and the pids of its kdamonds, 0 when not started
    RogueWritable,   \* <<leaf, value>>: what a foreign controller writes
    TunedValues,     \* intervals the kernel moves to
    MaxPid, MaxCalls, MaxRogue, MaxFaults, MaxExits, MaxTunes   \* bounds

\* A kdamond that runs has exactly one context (validate_runnable), hence one such file.
ASSUME PausesAssumption ==
    /\ Pauses \subseteq Typed \ (Tuned \cup Counts) /\ {Yes, No} \subseteq Values
    /\ \A p, q \in Pauses : Dir[p] = Dir[q] => p = q
ASSUME InitialAssumption ==
    InitialLeaf \in Contents /\ InitialThread \in [K -> 0 .. N] /\ N <= MaxPid
ASSUME RogueAssumption ==
    RogueWritable \subseteq Leaves \X Values /\ TunedValues \subseteq Values
ASSUME BoundsAssumption ==
    /\ MaxPid \in Nat /\ MaxCalls \in Nat /\ MaxRogue \in Nat
    /\ MaxFaults \in Nat /\ MaxExits \in Nat /\ MaxTunes \in Nat

VARIABLES
    states,    \* Running(pid), or 0 for Staged
    staged,    \* StagedOwnership.configuration
    pc,        \* the next step of the call in progress
    txn,       \* its local variables
    result,    \* how the last call returned
    calls, rogue, faults, exits, tunes   \* budgets

budgets == <<calls, rogue, faults, exits, tunes>>
vars == <<kernelVars, states, staged, pc, txn, result, budgets>>

CheckPCs == {"verify", "read", "verify_again", "write"}
OperationPCs == {"commit", "identity", "observe", "refresh", "match",
                 "final_identity"}
UndoPCs == {"undo", "recommit", "reread", "rematch", "undone_identity"}
PCs == {"idle"} \cup CheckPCs \cup OperationPCs \cup UndoPCs
Results == {"none", "ok", "rejected", "failed", "rollback_failed"}

\* path, paused and previous of the code; the fingerprint being refreshed; and
\* for the properties: the files and what ran when the call began, whether a
\* commit reached another thread, whether a check saw another thread's pid.
NoTxn == [path |-> -1, paused |-> No, previous |-> No, refreshed |-> <<>>,
          began |-> [leaf |-> <<>>, active |-> <<>>], strayed |-> FALSE, lost |-> FALSE]

Locals ==
    [path : Pauses, paused : {Yes, No}, previous : Values,
     refreshed : Contents, began : [leaf : Contents, active : Contents],
     strayed : BOOLEAN, lost : BOOLEAN]
Txns == Locals \cup {NoTxn}

Index == Dir[txn.path]

\* Mutant: any running thread is taken for the recorded one.
IdentityMutant == On(Index)

\* verify_running_identity_only
Identity == thread[Index] = states[Index]

-----------------------------------------------------------------------------
(* Control *)

Advance(l, t) ==
    /\ pc' = l
    /\ txn' = t
    /\ UNCHANGED result

Return(r) ==
    /\ pc' = "idle"
    /\ txn' = NoTxn
    /\ result' = r

\* Before and at the write the call just returns, then the operation turns to
\* the rollback, and a failing rollback gives up.
Fail(lost) ==
    IF pc \in CheckPCs THEN Return("rejected")
    ELSE IF pc \in OperationPCs
    THEN Advance("undo", [txn EXCEPT !.lost = lost, !.refreshed = staged])
    ELSE Return("rollback_failed")

Look(cond, l, t) ==
    /\ IF cond THEN Advance(l, t) ELSE Fail(FALSE)
    /\ UNCHANGED <<kernelVars, states, staged, budgets>>

LookIdentity(l) ==
    /\ IF Identity THEN Advance(l, txn) ELSE Fail(On(Index))
    /\ UNCHANGED <<kernelVars, states, staged, budgets>>

-----------------------------------------------------------------------------
(* set_context_paused *)

Call ==
    /\ pc = "idle"
    /\ calls < MaxCalls
    /\ calls' = calls + 1
    /\ \E p \in Pauses, v \in {Yes, No} :
        IF states[Dir[p]] = 0 THEN Return("rejected")
        ELSE Advance("verify", [NoTxn EXCEPT !.path = p, !.paused = v, !.refreshed = staged,
                                             !.began = [leaf |-> leaf, active |-> active]])
    /\ UNCHANGED <<kernelVars, states, staged, rogue, faults, exits, tunes>>

VerifyRunning ==
    /\ pc = "verify"
    /\ Look(MatchesExcept(staged, Tuned) /\ Identity, "read", txn)

ReadPaused ==
    LET previous == leaf[txn.path] IN
    /\ pc = "read"
    /\ Look(Exists(txn.path), IF previous = txn.paused THEN "verify_again" ELSE "write",
            [txn EXCEPT !.previous = previous])

\* Nothing to do, but only a session that still owns the kdamond may say so.
VerifyIdempotent ==
    /\ pc = "verify_again"
    /\ IF MatchesExcept(staged, Tuned) /\ Identity THEN Return("ok") ELSE Fail(FALSE)
    /\ UNCHANGED <<kernelVars, states, staged, budgets>>

SetPaused ==
    /\ pc = "write"
    /\ \/ /\ WriteLeaf(txn.path, txn.paused)
          /\ Advance("commit", txn)
          /\ UNCHANGED <<states, staged, budgets>>
       \/ /\ ~Exists(txn.path)
          /\ Look(FALSE, "commit", txn)

\* The commit command, of the operation and of the rollback.
Committed(l) ==
    \/ /\ CommitLeaves(Index, LeavesOf(Index))
       /\ Advance(l, [txn EXCEPT !.strayed = IF thread[Index] = states[Index]
                                               THEN @ ELSE TRUE])
       /\ UNCHANGED <<states, staged, budgets>>
    \/ /\ ~On(Index)
       /\ Look(FALSE, l, txn)

Commit == pc = "commit" /\ Committed("identity")

VerifyCommitted == pc = "identity" /\ LookIdentity("observe")

Observe ==
    /\ pc = "observe"
    /\ Look(leaf[txn.path] = txn.paused, "refresh", txn)

\* refreshed_paths_except: the pause file is read again, then the refreshed
\* fingerprint is compared with the hierarchy.
Refresh ==
    /\ pc = "refresh"
    /\ Look(TRUE, "match",
            [txn EXCEPT !.refreshed = [staged EXCEPT ![txn.path] = leaf[txn.path]]])

\* Mutant: the pause file alone is looked at.
MatchRefreshedMutant ==
    /\ pc = "match"
    /\ Look(leaf[txn.path] = txn.refreshed[txn.path], "final_identity", txn)

MatchRefreshed ==
    /\ pc = "match"
    /\ Look(MatchesExcept(txn.refreshed, Tuned), "final_identity", txn)

AdoptPaused ==
    /\ pc = "final_identity"
    /\ IF Identity THEN staged' = txn.refreshed /\ Return("ok")
       ELSE Fail(On(Index)) /\ UNCHANGED staged
    /\ UNCHANGED <<kernelVars, states, budgets>>

-----------------------------------------------------------------------------
(* Its rollback, which begins with the write *)

Undo ==
    /\ pc = "undo"
    /\ \/ /\ WriteLeaf(txn.path, txn.previous)
          /\ Advance("recommit", txn)
          /\ UNCHANGED <<states, staged, budgets>>
       \/ /\ ~Exists(txn.path)
          /\ Look(FALSE, "recommit", txn)

\* Mutant: the rollback does not commit.
RecommitMutant == pc = "recommit" /\ Look(TRUE, "reread", txn)

Recommit == pc = "recommit" /\ Committed("reread")

\* Mutant: the refreshed fingerprint still has the value the call wrote.
RereadMutant ==
    /\ pc = "reread"
    /\ Look(TRUE, "rematch",
            [txn EXCEPT !.refreshed = [staged EXCEPT ![txn.path] = txn.paused]])

Reread ==
    /\ pc = "reread"
    /\ Look(TRUE, "rematch",
            [txn EXCEPT !.refreshed = [staged EXCEPT ![txn.path] = leaf[txn.path]]])

MatchRestored ==
    /\ pc = "rematch"
    /\ Look(MatchesExcept(txn.refreshed, Tuned), "undone_identity", txn)

AdoptRestored ==
    /\ pc = "undone_identity"
    /\ IF Identity THEN staged' = txn.refreshed /\ Return("failed")
       ELSE Fail(On(Index)) /\ UNCHANGED staged
    /\ UNCHANGED <<kernelVars, states, budgets>>

IoError ==
    /\ pc # "idle"
    /\ faults < MaxFaults
    /\ faults' = faults + 1
    /\ Fail(FALSE)
    /\ UNCHANGED <<kernelVars, states, staged, calls, rogue, exits, tunes>>
-----------------------------------------------------------------------------
(* The kernel and a foreign controller that ignores the session lock *)

KernelTunes ==
    /\ tunes < MaxTunes
    /\ tunes' = tunes + 1
    /\ \E l \in Tuned, v \in TunedValues : TuneLeaf(l, v)
    /\ UNCHANGED <<states, staged, pc, txn, result, calls, rogue, faults, exits>>

KdamondExits ==
    /\ exits < MaxExits
    /\ exits' = exits + 1
    /\ \E i \in K : EndThread(i)
    /\ UNCHANGED <<states, staged, pc, txn, result, calls, rogue, faults, tunes>>

RogueActs ==
    /\ rogue < MaxRogue
    /\ rogue' = rogue + 1
    /\ \/ \E w \in RogueWritable : leaf[w[1]] # w[2] /\ WriteLeaf(w[1], w[2])
       \/ \E i \in K : nextPid <= MaxPid /\ StartThread(i)
       \/ \E i \in K : EndThread(i)
    /\ UNCHANGED <<states, staged, pc, txn, result, calls, faults, exits, tunes>>

-----------------------------------------------------------------------------
(* Specification *)

Init ==
    /\ leaf = InitialLeaf
    /\ active = InitialLeaf
    /\ thread = InitialThread
    /\ nextPid = N + 1
    /\ states = InitialThread
    /\ staged = InitialLeaf
    /\ pc = "idle"
    /\ txn = NoTxn
    /\ result = "none"
    /\ calls = 0 /\ rogue = 0 /\ faults = 0 /\ exits = 0 /\ tunes = 0

Prepare == VerifyRunning \/ ReadPaused \/ VerifyIdempotent \/ SetPaused
Operation == Commit \/ VerifyCommitted \/ Observe \/ Refresh \/ MatchRefreshed
             \/ AdoptPaused
Rollback == Undo \/ Recommit \/ Reread \/ MatchRestored \/ AdoptRestored
Environment == KernelTunes \/ KdamondExits \/ RogueActs

Next == Call \/ Prepare \/ Operation \/ Rollback \/ IoError \/ Environment

Spec == Init /\ [][Next]_vars

-----------------------------------------------------------------------------
(* Properties *)

\* Every variable has its type; the record of locals exists only during a call.
TypeOK ==
    /\ leaf \in Contents /\ active \in Contents /\ staged \in Contents
    /\ thread \in [K -> 0 .. MaxPid] /\ nextPid \in 1 .. MaxPid + 1
    /\ states \in [K -> 0 .. MaxPid]
    /\ pc \in PCs /\ result \in Results
    /\ txn \in Txns
    /\ pc = "idle" <=> txn = NoTxn

Returns == pc # "idle" /\ pc' = "idle"
Undisturbed == rogue = 0 /\ exits = 0

\* Undisturbed by others, a pause happens as a whole or not at all: success
\* means that the context runs paused and that the session owns exactly that;
\* an error means that file, running state and owned fingerprint are as before,
\* auto-tuned intervals apart.  One failing access never makes the undoing fail.
\* (A call after a failed rollback may start from a
\* thread that does not run what the file says.)
PauseAtomic ==
    [][Returns /\ Undisturbed =>
        /\ faults' <= 1 => result' # "rollback_failed"
        /\ txn.began.active[txn.path] = txn.began.leaf[txn.path] =>
            \A l \in Leaves \ Tuned :
                IF result' = "ok" /\ l = txn.path
                THEN leaf'[l] = txn.paused /\ active'[l] = txn.paused
                     /\ staged'[l] = txn.paused
                ELSE result' # "rollback_failed" =>
                    /\ leaf'[l] = txn.began.leaf[l]
                    /\ active'[l] = txn.began.active[l]
                    /\ staged'[l] = staged[l]]_vars

\* When a pause returns success, its commit was carried out by the session's
\* own thread.
OkReachedOwnThread ==
    [][Returns /\ result' = "ok" => ~txn.strayed]_vars

\* The commit takes over every file of the kdamond, also one that a foreign
\* controller just wrote.  A single foreign write is never reported as success
\* while the kernel thread runs it: what runs is what the session owns.
OkRunsWhatIsOwned ==
    [][Returns /\ result' = "ok" /\ rogue <= 1 =>
        \A l \in LeavesOf(Index) \ (Tuned \cup {txn.path}) : active'[l] = staged'[l]]_vars

\* Every pause and resume that returns success was committed: the kernel thread
\* is in the requested state, unless others interfered.
OkIsCommitted ==
    [][Returns /\ Undisturbed /\ result' = "ok"
        => active'[txn.path] = txn.paused]_vars

=============================================================================
