-------------------------- MODULE ManagedHierarchy --------------------------
(***************************************************************************)
(* One scoped session of the library: Damon::managed_hierarchy stages a    *)
(* configuration for N kdamonds, start_all and stop_all run and stop the   *)
(* kernel threads, close and Drop stop them and put the preceding          *)
(* hierarchy back.  Every sysfs access, or scan of several files that only *)
(* checks, is one step, so that the kernel, a failing access and a         *)
(* controller that ignores the advisory lock (the rogue) act between any   *)
(* two of them.                                                            *)
(***************************************************************************)
EXTENDS DamonSysfs

CONSTANTS
    Target,              \* the configuration the session stages
    InitialHierarchies,  \* the hierarchies the session may find
    RogueValues,         \* what the rogue writes into a kdamond directory
    MaxCalls,            \* bound on start_all and stop_all calls
    MaxRogue,            \* bound on rogue actions
    MaxFaults,           \* bound on failing sysfs accesses
    MaxExits             \* bound on kdamonds ending by themselves

ASSUME TargetAssumption == Target \in [K -> Runnable]
ASSUME InitialAssumption == InitialHierarchies \subseteq Hierarchy
ASSUME RogueAssumption == RogueValues \subseteq Values
ASSUME BoundsAssumption ==
    MaxCalls \in Nat /\ MaxRogue \in Nat /\ MaxFaults \in Nat /\ MaxExits \in Nat

VARIABLES
    \* KdamondSessionState of every kdamond; Running(pid) is the pid itself
    states,
    staged,      \* StagedOwnership.configuration
    previous,    \* the snapshot close restores
    owns,        \* owns_hierarchy
    \* control of the caller's thread
    pc, idx,     \* the next step; the kdamond a loop is at
    err,         \* first_error.is_some() of the loop in progress
    op,          \* the call in progress
    result,      \* how the last call returned
    \* budgets
    calls, rogue, faults, exits,
    \* history
    origin,      \* the hierarchy before the session
    ours,        \* pids of the threads this session's "on" writes started
    touched,     \* kdamonds the rogue acted on
    raced        \* check-then-act windows in which the rogue acted

sessionVars == <<states, staged, previous, owns>>
controlVars == <<pc, idx, err, op, result>>
historyVars == <<origin, ours, touched, raced>>
vars == <<kernelVars, sessionVars, controlVars, calls, rogue, faults, exits,
          historyVars>>

Staged == 0
UnidentifiedRunning == -1
IsRunning(s) == s > 0
AllStaged == \A i \in K : states[i] = Staged

OpenPCs == {"open_stopped", "open_capture", "open_verify", "open_stopped2"}
StagePCs == {"stage_stopped", "stage_count", "stage_write", "stage_stopped2",
             "stage_capture", "stage_verify", "stage_stopped3", "open_new"}
RestorePCs == {"restore_stopped", "restore_count", "restore_shape",
               "restore_write", "restore_check", "restore_stopped2",
               "restore_match"}
StartPCs == {"start_check", "start_on", "start_pid", "start_identity",
             "start_config", "start_final"}
StopOnePCs == {"one_state", "one_pid", "one_off", "one_back"}
ClosePCs == {"close_verify", "close_match"}
PCs == OpenPCs \cup StagePCs \cup RestorePCs \cup StartPCs \cup StopOnePCs
       \cup ClosePCs
       \cup {"none", "idle", "ended", "start_verify", "start_off",
             "rollback_count", "rollback_config",
             "stop_begin", "stop_count", "stop_config", "stop_final"}

\* ConfigurationSnapshot: the writable leaves of every kdamond directory
Snapshot == [hier |-> hier, tune |-> tune]
Snapshots == [hier : [K -> Values \cup {Absent}], tune : [K -> {0, 1}]]
SessionStates == UnidentifiedRunning .. MaxPid
Results == {"none", "ok", "rejected", "open_failed", "open_rollback_failed",
            "start_failed", "rollback_failed", "stop_failed", "close_failed"}
Ops == {"none", "open", "start", "stop", "close", "drop"}

-----------------------------------------------------------------------------
(* Ownership checks *)

\* StagedOwnership::verify_count
VerifyCount == Present(hier) = K

\* StagedOwnership::verify_kdamond_configuration: auto-tuned leaves are
\* volatile and not compared.
VerifyKdamond(i) == hier[i] = staged[i]

\* StagedOwnership::verify
Verify == VerifyCount /\ \A i \in K : VerifyKdamond(i)

\* ConfigurationSnapshot::matches_current and values_match_current
Matches(snapshot) == hier = snapshot.hier /\ tune = snapshot.tune

\* ManagedHierarchy::verify_owned_state
VerifyOwnedState ==
    /\ owns
    /\ Verify
    /\ \A i \in K : /\ states[i] # UnidentifiedRunning
                    /\ thread[i] = states[i]

-----------------------------------------------------------------------------
(* Control *)

Jump(l, i, e) ==
    /\ pc' = l
    /\ idx' = i
    /\ err' = e
    /\ UNCHANGED <<op, result>>

Goto(l) == Jump(l, 0, FALSE)

Return(l, r) ==
    /\ pc' = l
    /\ idx' = 0
    /\ err' = FALSE
    /\ op' = "none"
    /\ result' = r

\* Mutant: Drop does not try again.
CloseFailedMutant ==
    Return("ended", IF op = "close" THEN "close_failed" ELSE result)

\* close_inner failed: close(self) drops the hierarchy, and Drop calls
\* close_inner once more; in Drop the error is discarded.
CloseFailed ==
    IF op = "close"
    THEN /\ pc' = "stop_begin"
         /\ idx' = 0
         /\ err' = FALSE
         /\ op' = "drop"
         /\ result' = "close_failed"
    ELSE Return("ended", result)

\* The end of stop_all, called by the user or by close_inner.
StopReturn(e) ==
    IF op = "stop" THEN Return("idle", IF e THEN "stop_failed" ELSE "ok")
    ELSE IF e THEN CloseFailed
    ELSE Goto("close_verify")

\* rollback_started runs only when some kdamond left the staged state.
StartFailed ==
    IF AllStaged THEN Return("idle", "start_failed")
    ELSE Jump("rollback_count", N - 1, FALSE)

\* The reverse loops of stop_all and rollback_started go on after an error
\* of one kdamond and remember that there was one.
NextKdamond(e) ==
    IF idx > 0
    THEN Jump(IF op = "start" THEN "rollback_config" ELSE "stop_count", idx - 1, e)
    ELSE IF op = "start"
    THEN Return("idle", IF e THEN "rollback_failed" ELSE "start_failed")
    ELSE IF e THEN StopReturn(TRUE)
    ELSE Goto("stop_final")

\* Where an error at the current step leads.
Fail ==
    \/ /\ pc \in OpenPCs
       /\ Return("ended", "open_failed")
    \/ /\ pc \in StagePCs
       /\ Goto("restore_stopped")
    \/ /\ pc \in RestorePCs
       /\ IF op = "open" THEN Return("ended", "open_rollback_failed")
          ELSE CloseFailed
    \/ /\ pc \in {"start_verify", "start_off"}
       /\ Return("idle", "rejected")
    \/ /\ pc \in StartPCs
       /\ StartFailed
    \/ /\ pc = "rollback_count"
       /\ Return("idle", "rollback_failed")
    \/ /\ pc \in {"rollback_config", "stop_config"} \cup StopOnePCs
       /\ NextKdamond(TRUE)
    \/ /\ pc \in {"stop_begin", "stop_count", "stop_final"}
       /\ StopReturn(TRUE)
    \/ /\ pc \in ClosePCs
       /\ CloseFailed

\* Steps that only read sysfs and move on.
Check(l, ok, next) ==
    /\ pc = l
    /\ \/ ok /\ next
       \/ ~ok /\ Fail
    /\ UNCHANGED <<kernelVars, sessionVars, calls, rogue, faults, exits, historyVars>>

\* What every other step of the session leaves alone.
Rest == UNCHANGED <<calls, rogue, faults, exits, origin, touched, raced>>

-----------------------------------------------------------------------------
(* Damon::managed_hierarchy *)

Open ==
    /\ pc = "none"
    /\ pc' = "open_stopped"
    /\ op' = "open"
    /\ UNCHANGED <<idx, err, result>>
    /\ UNCHANGED <<kernelVars, sessionVars, ours>>
    /\ Rest

\* ensure_hierarchy_stopped, at each place it is called
EnsureStopped ==
    \/ Check("open_stopped", AllOff, Goto("open_capture"))
    \/ Check("stage_stopped", AllOff, Goto("stage_count"))
    \/ Check("stage_stopped2", AllOff, Goto("stage_capture"))
    \/ Check("stage_stopped3", AllOff, Goto("open_new"))
    \/ Check("restore_stopped", AllOff, Goto("restore_count"))
    \/ Check("restore_stopped2", AllOff, Goto("restore_match"))

OpenCapture ==
    /\ pc = "open_capture"
    /\ previous' = Snapshot
    /\ Goto("open_verify")
    /\ UNCHANGED <<kernelVars, states, staged, owns, ours>>
    /\ Rest

OpenVerify ==
    Check("open_verify", Matches(previous), Goto("open_stopped2"))

\* An equivalent hierarchy is adopted without a write.
OpenStopped ==
    LET equivalent == previous.hier = Target /\ previous.tune = Untuned IN
    /\ pc = "open_stopped2"
    /\ \/ /\ AllOff
          /\ equivalent
          /\ staged' = previous.hier
          /\ Goto("open_new")
       \/ /\ AllOff
          /\ ~equivalent
          /\ Goto("stage_stopped")
          /\ UNCHANGED staged
       \/ /\ ~AllOff
          /\ Fail
          /\ UNCHANGED staged
    /\ UNCHANGED <<kernelVars, states, previous, owns, ours>>
    /\ Rest

\* ManagedHierarchy::new
OpenNew ==
    /\ pc = "open_new"
    /\ \/ /\ Verify
          /\ states' = NoThread
          /\ owns' = TRUE
          /\ Return("idle", "ok")
       \/ /\ ~Verify
          /\ Fail
          /\ UNCHANGED <<states, owns>>
    /\ UNCHANGED <<kernelVars, staged, previous, ours>>
    /\ Rest

-----------------------------------------------------------------------------
(* stage_and_verify_configuration *)

\* nr_kdamonds is written only when it differs; EBUSY retries from
\* ensure_hierarchy_stopped.
StageCount ==
    /\ pc = "stage_count"
    /\ \/ /\ VerifyCount
          /\ Goto("stage_write")
          /\ UNCHANGED kernelVars
       \/ /\ ~VerifyCount
          /\ SetCount(K)
          /\ Goto("stage_write")
       \/ /\ ~VerifyCount
          /\ ~AllOff
          /\ Goto("stage_stopped")
          /\ UNCHANGED kernelVars
    /\ UNCHANGED <<sessionVars, ours>>
    /\ Rest

\* A directory whose observed configuration equals the request is not
\* accessed at all.
StageSkips(i) ==
    /\ Present(previous.hier) = K
    /\ previous.hier[i] = Target[i]
    /\ previous.tune[i] = 0

\* Only the leaves that differ from the observed configuration are written:
\* if somebody else changed the directory since, the result may be a mixture.
StageOutcome(i) ==
    IF hier[i] \in {previous.hier[i], Target[i]} \/ Present(previous.hier) # K
    THEN {Target[i]}
    ELSE {Target[i], Mixed, hier[i]}
StageTune(i) ==
    IF previous.tune[i] = 1 \/ Present(previous.hier) # K THEN {0} ELSE {0, tune[i]}

\* Mutant: one directory too many.
StageNextMutant ==
    IF idx + 1 <= N THEN Jump("stage_write", idx + 1, FALSE)
    ELSE Goto("stage_stopped2")

StageNext ==
    IF idx + 1 \in K THEN Jump("stage_write", idx + 1, FALSE)
    ELSE Goto("stage_stopped2")

StageWrite ==
    /\ pc = "stage_write"
    /\ \/ /\ StageSkips(idx)
          /\ StageNext
          /\ UNCHANGED kernelVars
       \/ /\ ~StageSkips(idx)
          /\ idx \in Present(hier)
          /\ \E v \in StageOutcome(idx), t \in StageTune(idx) :
                WriteDirectory(idx, v, t)
          /\ StageNext
       \/ /\ ~StageSkips(idx)
          /\ idx \notin Present(hier)
          /\ Fail
          /\ UNCHANGED kernelVars
    /\ UNCHANGED <<sessionVars, ours>>
    /\ Rest

\* The read-back must equal the request.
StageCapture ==
    /\ pc = "stage_capture"
    /\ staged' = hier
    /\ \/ hier = Target /\ tune = Untuned /\ Goto("stage_verify")
       \/ ~(hier = Target /\ tune = Untuned) /\ Fail
    /\ UNCHANGED <<kernelVars, states, previous, owns, ours>>
    /\ Rest

StageVerify ==
    Check("stage_verify", hier = staged /\ tune = Untuned, Goto("stage_stopped3"))

-----------------------------------------------------------------------------
(* restore_configuration *)

\* Mutant: the leaves are not written back.
RestoreValuesMutant(j) == Goto("restore_check")

RestoreValues(j) ==
    IF j \in Present(previous.hier) THEN Jump("restore_write", j, FALSE)
    ELSE Goto("restore_check")

RestoreShapes(j) ==
    IF j \in Present(previous.hier) THEN Jump("restore_shape", j, FALSE)
    ELSE RestoreValues(0)

\* nr_kdamonds is always rewritten and wipes every directory; EBUSY retries
\* from ensure_hierarchy_stopped.
RestoreCount ==
    /\ pc = "restore_count"
    /\ \/ SetCount(Present(previous.hier)) /\ RestoreShapes(0)
       \/ ~AllOff /\ Goto("restore_stopped") /\ UNCHANGED kernelVars
    /\ UNCHANGED <<sessionVars, ours>>
    /\ Rest

\* Entries are written by depth, across the directories (restoration_key):
\* the shallow leaves and counts of every directory come first ...
RestoreShape ==
    /\ pc = "restore_shape"
    /\ \/ /\ idx \in Present(hier)
          /\ WriteDirectory(idx, Mixed, tune[idx])
          /\ RestoreShapes(idx + 1)
       \/ /\ idx \notin Present(hier)
          /\ Fail
          /\ UNCHANGED kernelVars
    /\ UNCHANGED <<sessionVars, ours>>
    /\ Rest

\* ... and the deep leaves last.  If somebody else rewrote the directory in
\* between, a leaf may be missing or the result may be a mixture.
RestoreOutcome(i) ==
    {previous.hier[i]} \cup (IF hier[i] = Mixed THEN {} ELSE {Mixed})

RestoreWrite ==
    /\ pc = "restore_write"
    /\ \/ /\ idx \in Present(hier)
          /\ \E v \in RestoreOutcome(idx) : WriteDirectory(idx, v, previous.tune[idx])
          /\ RestoreValues(idx + 1)
       \/ /\ hier[idx] # Mixed
          /\ Fail
          /\ UNCHANGED kernelVars
    /\ UNCHANGED <<sessionVars, ours>>
    /\ Rest

RestoreCheck ==
    Check("restore_check", Matches(previous), Goto("restore_stopped2"))

RestoreDone ==
    \/ op = "open" /\ Return("ended", "open_failed") /\ UNCHANGED owns
    \/ /\ op # "open"
       /\ owns' = FALSE
       /\ Return("ended", IF op = "close" THEN "ok" ELSE result)

RestoreMatch ==
    /\ pc = "restore_match"
    /\ \/ Matches(previous) /\ RestoreDone
       \/ ~Matches(previous) /\ Fail /\ UNCHANGED owns
    /\ UNCHANGED <<kernelVars, states, staged, previous, ours>>
    /\ Rest

-----------------------------------------------------------------------------
(* ManagedHierarchy::start_all *)

Call(name, l) ==
    /\ pc = "idle"
    /\ pc' = l
    /\ op' = name
    /\ result' = "none"
    /\ UNCHANGED <<idx, err>>
    /\ UNCHANGED <<kernelVars, sessionVars, rogue, faults, exits, historyVars>>

StartAll ==
    /\ calls > 0
    /\ calls' = calls - 1
    /\ \/ AllStaged /\ Call("start", "start_verify")
       \/ /\ ~AllStaged
          /\ pc = "idle"
          /\ Return("idle", "rejected")
          /\ UNCHANGED <<kernelVars, sessionVars, rogue, faults, exits, historyVars>>

StartVerify == Check("start_verify", Verify, Goto("start_off"))

StartOff == Check("start_off", AllOff, Goto("start_check"))

StartCheck ==
    Check("start_check", VerifyCount /\ VerifyKdamond(idx),
          Jump("start_on", idx, FALSE))

\* Mutant: the started thread is recorded only once its pid is known.
StartOnMutant ==
    /\ pc = "start_on"
    /\ \/ /\ CommandOn(idx)
          /\ ours' = ours \cup {nextPid}
          /\ Jump("start_pid", idx, FALSE)
       \/ /\ ~CanStart(idx)
          /\ Fail
          /\ UNCHANGED <<kernelVars, ours>>
    /\ UNCHANGED sessionVars
    /\ Rest

\* start_one: the "on" write.  EBUSY is retried a bounded number of times,
\* so a running kdamond may end while this step waits, or make it give up.
StartOn ==
    /\ pc = "start_on"
    /\ \/ /\ CommandOn(idx)
          /\ states' = [states EXCEPT ![idx] = UnidentifiedRunning]
          /\ ours' = ours \cup {nextPid}
          /\ Jump("start_pid", idx, FALSE)
       \/ /\ ~CanStart(idx)
          /\ Fail
          /\ UNCHANGED <<kernelVars, states, ours>>
    /\ UNCHANGED <<staged, previous, owns>>
    /\ Rest

\* start_one: running_thread_pid
StartPid ==
    /\ pc = "start_pid"
    /\ \/ /\ On(idx)
          /\ states' = [states EXCEPT ![idx] = thread[idx]]
          /\ Jump("start_identity", idx, FALSE)
       \/ /\ ~On(idx)
          /\ Fail
          /\ UNCHANGED states
    /\ UNCHANGED <<kernelVars, staged, previous, owns, ours>>
    /\ Rest

StartIdentity ==
    Check("start_identity", VerifyCount /\ thread[idx] = states[idx],
          Jump("start_config", idx, FALSE))

StartConfig ==
    Check("start_config", VerifyKdamond(idx),
          IF idx + 1 \in K THEN Jump("start_check", idx + 1, FALSE)
          ELSE Goto("start_final"))

StartFinal == Check("start_final", VerifyOwnedState, Return("idle", "ok"))

\* rollback_started
RollbackCount ==
    Check("rollback_count", VerifyCount, Jump("rollback_config", idx, FALSE))

\* Mutant: a kdamond whose configuration changed is skipped silently.
RollbackConfigMutant ==
    \/ /\ states[idx] = Staged \/ ~VerifyKdamond(idx)
       /\ Check("rollback_config", TRUE, NextKdamond(err))
    \/ /\ states[idx] # Staged /\ VerifyKdamond(idx)
       /\ Check("rollback_config", TRUE, Jump("one_state", idx, err))

RollbackConfig ==
    \/ /\ states[idx] = Staged
       /\ Check("rollback_config", TRUE, NextKdamond(err))
    \/ /\ states[idx] # Staged
       /\ Check("rollback_config", VerifyKdamond(idx), Jump("one_state", idx, err))

-----------------------------------------------------------------------------
(* ManagedHierarchy::stop_all *)

StopAll ==
    /\ calls > 0
    /\ calls' = calls - 1
    /\ Call("stop", "stop_begin")

StopBegin == Check("stop_begin", VerifyCount, Jump("stop_count", N - 1, FALSE))

StopCount == Check("stop_count", VerifyCount, Jump("stop_config", idx, err))

\* Mutant: a kdamond whose configuration changed is skipped silently.
StopConfigSilentMutant ==
    Check("stop_config", TRUE,
          IF VerifyKdamond(idx) THEN Jump("one_state", idx, err) ELSE NextKdamond(err))

\* Mutant: the loop ends at the first kdamond whose configuration changed.
StopConfigBreakMutant ==
    Check("stop_config", TRUE,
          IF VerifyKdamond(idx) THEN Jump("one_state", idx, err) ELSE StopReturn(TRUE))

StopConfig ==
    Check("stop_config", VerifyKdamond(idx), Jump("one_state", idx, err))

StopFinal == Check("stop_final", Verify, StopReturn(FALSE))

\* stop_one: the first state read
StopOneState ==
    /\ pc = "one_state"
    /\ \/ /\ ~On(idx)
          /\ states' = [states EXCEPT ![idx] = Staged]
          /\ NextKdamond(err)
       \/ /\ On(idx)
          /\ IsRunning(states[idx])
          /\ Jump("one_pid", idx, err)
          /\ UNCHANGED states
       \/ /\ On(idx)
          /\ ~IsRunning(states[idx])
          /\ Fail
          /\ UNCHANGED states
    /\ UNCHANGED <<kernelVars, staged, previous, owns, ours>>
    /\ Rest

\* Mutant: any running thread is taken for the recorded one.
StopOnePidMutant == Check("one_pid", On(idx), Jump("one_off", idx, err))

\* stop_one: the pid read; a kdamond that ended since is an error here
StopOnePid ==
    Check("one_pid", thread[idx] = states[idx], Jump("one_off", idx, err))

\* stop_one: the "off" write
StopOneOff ==
    /\ pc = "one_off"
    /\ \/ CommandOff(idx) /\ Jump("one_back", idx, err)
       \/ ~On(idx) /\ Fail /\ UNCHANGED kernelVars
    /\ UNCHANGED <<sessionVars, ours>>
    /\ Rest

\* stop_one: the second state read
StopOneBack ==
    /\ pc = "one_back"
    /\ \/ /\ ~On(idx)
          /\ states' = [states EXCEPT ![idx] = Staged]
          /\ NextKdamond(err)
       \/ /\ On(idx)
          /\ Fail
          /\ UNCHANGED states
    /\ UNCHANGED <<kernelVars, staged, previous, owns, ours>>
    /\ Rest

-----------------------------------------------------------------------------
(* ManagedHierarchy::close and Drop *)

Close == Call("close", "stop_begin") /\ UNCHANGED calls

Drop == Call("drop", "stop_begin") /\ UNCHANGED calls

\* Mutant: the hierarchy is not verified again before it is restored.
CloseVerifyMutant == Check("close_verify", TRUE, Goto("close_match"))

CloseVerify == Check("close_verify", Verify, Goto("close_match"))

CloseMatch ==
    /\ pc = "close_match"
    /\ \/ /\ Matches(previous)
          /\ RestoreDone
       \/ /\ ~Matches(previous)
          /\ Goto("restore_stopped")
          /\ UNCHANGED owns
    /\ UNCHANGED <<kernelVars, states, staged, previous, ours>>
    /\ Rest

-----------------------------------------------------------------------------
(* The environment *)

\* Steps of the session that access no file.
SkipsAccess ==
    \/ pc = "rollback_config" /\ states[idx] = Staged
    \/ pc = "stage_write" /\ StageSkips(idx)

\* A sysfs access of the session fails without an effect.
IoError ==
    /\ faults > 0
    /\ faults' = faults - 1
    /\ ~SkipsAccess
    /\ Fail
    /\ UNCHANGED <<kernelVars, sessionVars, calls, rogue, exits, historyVars>>

\* The staging of a directory fails after some of its leaves were written, or
\* the kernel stores something else than was written.
TornWrite ==
    /\ faults > 0
    /\ faults' = faults - 1
    /\ pc = "stage_write"
    /\ ~SkipsAccess
    /\ idx \in Present(hier)
    /\ WriteDirectory(idx, Mixed, tune[idx])
    /\ Fail \/ StageNext
    /\ UNCHANGED <<sessionVars, calls, rogue, exits, historyVars>>

\* A write reports EBUSY once: retry_busy runs the whole closure again,
\* ensure_hierarchy_stopped first.
TransientBusy ==
    /\ faults > 0
    /\ faults' = faults - 1
    /\ ~SkipsAccess
    /\ \/ pc \in {"stage_count", "stage_write"} /\ Goto("stage_stopped")
       \/ /\ pc \in {"restore_count", "restore_shape", "restore_write"}
          /\ Goto("restore_stopped")
    /\ UNCHANGED <<kernelVars, sessionVars, calls, rogue, exits, historyVars>>

KdamondExits(i) ==
    /\ exits > 0
    /\ exits' = exits - 1
    /\ ThreadExit(i)
    /\ UNCHANGED <<sessionVars, controlVars, calls, rogue, faults, historyVars>>

KernelTunes(i) ==
    /\ TuneIntervals(i)
    /\ UNCHANGED <<sessionVars, controlVars, calls, rogue, faults, exits, historyVars>>

\* Between an "on" write and the pid read, and between a pid read and the
\* "off" write, the session acts on what it read before.
IdentityWindow(i) == pc \in {"start_pid", "one_off"} /\ idx = i

\* Between its last check and the end of the writes the session restores
\* over whatever is there.
RestoreWindow == pc = "close_match" \/ pc \in RestorePCs

RogueActs(dirs, windows) ==
    /\ rogue > 0
    /\ rogue' = rogue - 1
    /\ touched' = touched \cup dirs
    /\ raced' = raced \cup windows
    /\ UNCHANGED <<sessionVars, controlVars, calls, faults, exits, origin, ours>>

RogueStarts(i) ==
    /\ CommandOn(i)
    /\ RogueActs({i}, IF IdentityWindow(i) THEN {"identity"} ELSE {})

RogueStops(i) == CommandOff(i) /\ RogueActs({i}, {})

RogueWrites(i) ==
    /\ i \in Present(hier)
    /\ \E v \in RogueValues : v # hier[i] /\ WriteDirectory(i, v, tune[i])
    /\ RogueActs({i}, IF RestoreWindow THEN {"restore"} ELSE {})

RogueResizes(n) ==
    /\ SetCount(0 .. n - 1)
    /\ RogueActs(K, IF RestoreWindow THEN {"restore"} ELSE {})

-----------------------------------------------------------------------------
Init ==
    /\ hier \in InitialHierarchies
    /\ tune = Untuned
    /\ thread = NoThread
    /\ nextPid = 1
    /\ states = NoThread
    /\ staged = hier
    /\ previous = Snapshot
    /\ owns = FALSE
    /\ pc = "none"
    /\ idx = 0
    /\ err = FALSE
    /\ op = "none"
    /\ result = "none"
    /\ calls = MaxCalls
    /\ rogue = MaxRogue
    /\ faults = MaxFaults
    /\ exits = MaxExits
    /\ origin = hier
    /\ ours = {}
    /\ touched = {}
    /\ raced = {}

OpenStep == Open \/ OpenCapture \/ OpenVerify \/ OpenStopped \/ OpenNew
StageStep == StageCount \/ StageWrite \/ StageCapture \/ StageVerify
RestoreStep == RestoreCount \/ RestoreShape \/ RestoreWrite \/ RestoreCheck \/ RestoreMatch
StartStep == \/ StartVerify \/ StartOff \/ StartCheck \/ StartOn \/ StartPid
             \/ StartIdentity \/ StartConfig \/ StartFinal
             \/ RollbackCount \/ RollbackConfig
StopStep == \/ StopBegin \/ StopCount \/ StopConfig \/ StopFinal
            \/ StopOneState \/ StopOnePid \/ StopOneOff \/ StopOneBack
CloseStep == CloseVerify \/ CloseMatch

\* Steps of a call in progress.
Proceed == \/ EnsureStopped \/ OpenStep \/ StageStep \/ RestoreStep
           \/ StartStep \/ StopStep \/ CloseStep

\* The user's next call.
UserCall == StartAll \/ StopAll \/ Close \/ Drop

Environment ==
    \/ IoError
    \/ TornWrite
    \/ TransientBusy
    \/ \E i \in K : \/ KdamondExits(i) \/ KernelTunes(i)
                    \/ RogueStarts(i) \/ RogueStops(i) \/ RogueWrites(i)
    \/ \E n \in 0 .. N : RogueResizes(n)

\* The session object is gone.
Ended == pc = "ended" /\ UNCHANGED vars

Next == Proceed \/ UserCall \/ Environment \/ Ended

\* The caller's thread keeps running while a call is in progress.
Spec == Init /\ [][Next]_vars /\ WF_vars(Proceed)

-----------------------------------------------------------------------------
(* Properties *)

TypeOK ==
    /\ hier \in [K -> Values \cup {Absent}]
    /\ tune \in [K -> {0, 1}]
    /\ thread \in [K -> 0 .. MaxPid]
    /\ nextPid \in 1 .. MaxPid + 1
    /\ states \in [K -> SessionStates]
    /\ staged \in [K -> Values \cup {Absent}]
    /\ previous \in Snapshots
    /\ owns \in BOOLEAN
    /\ pc \in PCs
    /\ idx \in K
    /\ err \in BOOLEAN
    /\ op \in Ops
    /\ result \in Results
    /\ calls \in 0 .. MaxCalls
    /\ rogue \in 0 .. MaxRogue
    /\ faults \in 0 .. MaxFaults
    /\ exits \in 0 .. MaxExits
    /\ origin \in InitialHierarchies
    /\ ours \subseteq 1 .. MaxPid
    /\ touched \subseteq K
    /\ raced \subseteq {"identity", "restore"}

OwnRunning(i) == thread[i] \in ours
NoOwnThread == \A i \in K : ~OwnRunning(i)

\* A kernel thread the session started is never forgotten: as long as it
\* runs, its kdamond is recorded as UnidentifiedRunning or with exactly its
\* pid, whatever errors, exits and foreign writes intervene (states in
\* start_one, stop_one and rollback_started).
OwnThreadTracked ==
    \A i \in K : OwnRunning(i) => states[i] \in {UnidentifiedRunning, thread[i]}

\* The session turns off only threads it started itself.  The exceptions are
\* the two windows the sysfs interface cannot close: another controller
\* replaced the thread between the "on" write and the pid read, or between
\* the pid read and the "off" write (stop_one).
StopsOnlyItsOwn ==
    [][\A i \in K :
         pc = "one_off" /\ pc' = "one_back" /\ On(i) /\ thread'[i] = 0
            => OwnRunning(i) \/ "identity" \in raced]_vars

\* A start_all whose rollback succeeded leaves none of its threads running;
\* otherwise the error is Error::Rollback (with_rollback, rollback_started).
FailedStartUndone == result = "start_failed" => NoOwnThread

\* When close or Drop gave the hierarchy up, or it was never opened, none of
\* the session's threads runs, whatever other controllers did meanwhile
\* (close_inner).
ReleasedLeavesNoThread == pc = "ended" /\ ~owns => NoOwnThread

\* Interference with one kdamond never keeps the thread of another alive:
\* if no access failed, a thread of the session that survives stop_all, a
\* rollback, close or Drop is at a kdamond somebody else acted on.
StopIsolation ==
    /\ faults = MaxFaults
    /\ \/ pc = "ended"
       \/ pc = "idle" /\ result \in {"stop_failed", "rollback_failed"}
    => \A i \in K : OwnRunning(i) => i \in touched

\* A failed managed_hierarchy leaves the hierarchy it found, unless another
\* controller changed it; one failing access, even a torn write, is always
\* undone (stage_validated_configuration_locked, restore_configuration).
FailedOpenUndone ==
    pc = "ended" /\ rogue = MaxRogue =>
        /\ result = "open_failed" => hier = origin /\ tune = Untuned
        /\ MaxFaults - faults <= 1 => result # "open_rollback_failed"

\* Without foreign writes and failing accesses the end of a session finds
\* everything off and the preceding hierarchy back, auto-tuned leaves
\* included, even if a kdamond ends by itself in the middle of close: the
\* second pass in Drop absorbs it.
SessionUndone ==
    /\ pc = "ended"
    /\ rogue = MaxRogue /\ faults = MaxFaults
    /\ \/ exits = MaxExits
       \/ exits >= MaxExits - 1 /\ result \in {"ok", "close_failed"}
    => hier = origin /\ tune = Untuned /\ AllOff

\* However a session began and ended, the hierarchy it found is given back
\* (managed_hierarchy, close, Drop).
HierarchyGivenBack == FailedOpenUndone /\ SessionUndone

\* What a restoration wipes is what the session staged, or what an attempt
\* of this restoration that met EBUSY had written; never another controller's
\* configuration, unless it came after the last check (close_inner,
\* StagedOwnership::verify, retry_busy).
RestoresOnlyItsOwn ==
    [][pc = "restore_count" /\ pc' \in {"restore_shape", "restore_check"}
         /\ op \in {"close", "drop"} /\ "restore" \notin raced
       => \A i \in K : hier[i] \in {staged[i], previous.hier[i], Mixed,
                                  Rebuilt(Present(previous.hier))[i]}]_vars

=============================================================================
