------------------------- MODULE PauseContextProofs -------------------------
(***************************************************************************)
(* Theorems of PauseContext, for every number of kdamonds, every set of     *)
(* files and every bound.  A pause that returns success was committed by   *)
(* the session's own kernel thread (StrayVisible); what a single foreign   *)
(* controller wrote is still there to be seen (SeenInv); and undisturbed,  *)
(* a pause happens as a whole or not at all (AloneInv, CallInv).           *)
(***************************************************************************)
EXTENDS PauseContext, TLAPS

USE NAssumption, LeavesAssumption, ValuesAssumption, PausesAssumption,
    InitialAssumption, RogueAssumption, BoundsAssumption

\* Writing a count or another leaf leaves every file with a value, or absent.
LEMMA WrittenTyped ==
    ASSUME leaf \in Contents, NEW l \in Leaves, NEW v \in Values
    PROVE  Written(l, v) \in Contents
BY DEF Written, Contents

\* A commit hands files to the thread and changes no file.
LEMMA CommitTyped ==
    ASSUME leaf \in Contents, active \in Contents, NEW i, NEW ls,
           CommitLeaves(i, ls)
    PROVE  active' \in Contents /\ UNCHANGED <<leaf, thread, nextPid>>
BY DEF CommitLeaves, Contents

\* The pids of the threads, and those the session recorded, were handed out.
PidsUsed ==
    /\ \A i \in K : thread[i] < nextPid
    /\ \A i \in K : states[i] < nextPid

\* A commit that reached another thread is still visible to the identity check:
\* the session's thread is gone and its pid does not come back.
StrayVisible ==
    /\ pc \in CheckPCs => ~txn.strayed
    /\ pc # "idle" => states[Index] # 0
    /\ pc \in OperationPCs /\ txn.strayed => ~Identity

IInv == TypeOK /\ PidsUsed /\ StrayVisible

LEMMA InitIInv == Init => IInv
<1> SUFFICES ASSUME Init PROVE IInv
    OBVIOUS
<1>1. TypeOK
    BY DEF Init, TypeOK, PCs, Results, Txns, K
<1>2. PidsUsed
    BY DEF Init, PidsUsed, K
<1>3. StrayVisible
    BY DEF Init, StrayVisible, CheckPCs, OperationPCs
<1> QED
    BY <1>1, <1>2, <1>3 DEF IInv

-----------------------------------------------------------------------------

\* The locals of a call are not the locals of no call.
LEMMA LocalsBusy == \A t \in Locals : t # NoTxn
BY DEF Locals, NoTxn

\* A call in progress moves to another of its steps; files, threads and pids
\* are what the step leaves.
LEMMA AdvanceKeeps ==
    ASSUME IInv, pc # "idle", NEW l \in PCs \ {"idle"}, NEW t \in Locals,
           Advance(l, t), t.path = txn.path,
           leaf' \in Contents, active' \in Contents,
           UNCHANGED <<thread, nextPid, states, staged>>,
           l \in CheckPCs => ~t.strayed,
           l \in OperationPCs /\ t.strayed => ~Identity
    PROVE  IInv'
<1>1. TypeOK'
    BY LocalsBusy DEF IInv, TypeOK, Advance, Txns
<1>2. PidsUsed'
    BY DEF IInv, PidsUsed
<1>3. StrayVisible'
    BY DEF IInv, StrayVisible, Advance, Index, Identity
<1> QED
    BY <1>1, <1>2, <1>3 DEF IInv

\* A call that returns leaves no locals behind.
LEMMA ReturnKeeps ==
    ASSUME IInv, NEW r \in Results, Return(r), staged' \in Contents,
           UNCHANGED <<kernelVars, states>>
    PROVE  IInv'
<1>1. TypeOK'
    BY DEF IInv, TypeOK, Return, kernelVars, Txns, PCs
<1>2. PidsUsed'
    BY DEF IInv, PidsUsed, kernelVars
<1>3. StrayVisible'
    BY DEF Return, StrayVisible, CheckPCs, OperationPCs
<1> QED
    BY <1>1, <1>2, <1>3 DEF IInv

\* The locals of a call in progress.
LEMMA Busy == ASSUME IInv, pc # "idle" PROVE txn \in Locals
BY DEF IInv, TypeOK, Txns

\* Every failing step keeps the invariant, whatever it takes for the cause.
LEMMA FailKeeps ==
    ASSUME IInv, pc # "idle", NEW lost \in BOOLEAN, Fail(lost),
           UNCHANGED <<kernelVars, states, staged>>
    PROVE  IInv'
<1>1. CASE pc \in CheckPCs \/ pc \notin OperationPCs
    <2>1. PICK r \in Results : Return(r)
        BY <1>1 DEF Fail, Results, CheckPCs, OperationPCs
    <2> QED
        BY <2>1, ReturnKeeps DEF IInv, TypeOK
<1>2. CASE pc \in OperationPCs
    <2> DEFINE t == [txn EXCEPT !.lost = lost, !.refreshed = staged]
    <2>1. Advance("undo", t)
        BY <1>2 DEF Fail, OperationPCs, CheckPCs
    <2>2. t \in Locals /\ t.path = txn.path
        BY Busy DEF Locals, IInv, TypeOK
    <2> QED
        BY <2>1, <2>2, AdvanceKeeps
        DEF PCs, CheckPCs, OperationPCs, UndoPCs, kernelVars, IInv, TypeOK
<1> QED
    BY <1>1, <1>2

\* A step that only looks, and a failing one, keep the invariant.
LEMMA LookKeeps ==
    ASSUME IInv, pc # "idle", NEW c \in BOOLEAN, NEW l \in PCs \ {"idle"}, NEW t,
           Look(c, l, t), c => t \in Locals /\ t.path = txn.path,
           c /\ l \in CheckPCs => ~t.strayed,
           c /\ l \in OperationPCs /\ t.strayed => ~Identity
    PROVE  IInv'
<1>1. CASE c
    BY <1>1, AdvanceKeeps DEF Look, IInv, TypeOK, kernelVars
<1>2. CASE ~c
    BY <1>2, FailKeeps DEF Look
<1> QED
    BY <1>1, <1>2

\* The same for the identity checks.
LEMMA LookIdentityKeeps ==
    ASSUME IInv, pc \in OperationPCs, NEW l \in OperationPCs, LookIdentity(l)
    PROVE  IInv'
<1>1. CASE Identity
    <2>1. txn.strayed => ~Identity
        BY DEF IInv, StrayVisible
    <2> QED
        BY <1>1, <2>1, Busy, AdvanceKeeps
        DEF LookIdentity, IInv, TypeOK, kernelVars, PCs, CheckPCs, OperationPCs
<1>2. CASE ~Identity
    BY <1>2, FailKeeps DEF LookIdentity, On, OperationPCs
<1> QED
    BY <1>1, <1>2

\* The commit remembers whether it reached another thread, which then still
\* runs; only the fingerprint of the identity check is at stake.
LEMMA CommitKeeps ==
    ASSUME IInv, pc \in OperationPCs \cup UndoPCs,
           NEW l \in (OperationPCs \cup UndoPCs), Committed(l),
           l \in OperationPCs => pc \in OperationPCs
    PROVE  IInv'
<1>1. txn \in Locals /\ pc # "idle"
    BY Busy DEF OperationPCs, UndoPCs
<1>2. l \in PCs \ {"idle"} /\ l \notin CheckPCs
    BY DEF PCs, OperationPCs, UndoPCs, CheckPCs
<1>3. CASE CommitLeaves(Index, LeavesOf(Index))
           /\ Advance(l, [txn EXCEPT !.strayed = IF thread[Index] = states[Index] THEN @ ELSE TRUE])
           /\ UNCHANGED <<states, staged, budgets>>
    <2> DEFINE t == [txn EXCEPT !.strayed = IF thread[Index] = states[Index] THEN @ ELSE TRUE]
    <2>1. active' \in Contents /\ UNCHANGED <<leaf, thread, nextPid>>
        BY <1>3, CommitTyped DEF IInv, TypeOK
    <2>2. t \in Locals /\ t.path = txn.path
        BY <1>1 DEF Locals
    <2>3. CASE Identity
        <3>1. t.strayed = txn.strayed
            BY <1>1, <2>3 DEF Locals, Identity
        <3>2. l \in OperationPCs /\ t.strayed => ~Identity
            BY <3>1 DEF IInv, StrayVisible
        <3>3. Advance(l, t)
            BY <1>3
        <3> HIDE DEF t
        <3> QED
            BY <1>1, <1>2, <1>3, <2>1, <2>2, <3>2, <3>3, AdvanceKeeps DEF IInv, TypeOK
    <2>4. CASE ~Identity
        BY <1>1, <1>2, <1>3, <2>1, <2>2, <2>4, AdvanceKeeps DEF IInv, TypeOK
    <2> QED
        BY <2>3, <2>4
<1>4. CASE Look(FALSE, l, txn)
    BY <1>1, <1>2, <1>4, LookKeeps
<1> QED
    BY <1>3, <1>4 DEF Committed

-----------------------------------------------------------------------------

\* A call begins on a kdamond the session runs, with nothing committed yet.
LEMMA CallStep == ASSUME IInv, Call PROVE IInv'
<1>1. PICK p \in Pauses, v \in {Yes, No} :
        IF states[Dir[p]] = 0 THEN Return("rejected")
        ELSE Advance("verify", [NoTxn EXCEPT !.path = p, !.paused = v, !.refreshed = staged,
                                             !.began = [leaf |-> leaf, active |-> active]])
    BY DEF Call
<1>2. CASE states[Dir[p]] = 0
    BY <1>1, <1>2, ReturnKeeps DEF Call, IInv, TypeOK, Results
<1>3. CASE states[Dir[p]] # 0
    <2> DEFINE t == [NoTxn EXCEPT !.path = p, !.paused = v, !.refreshed = staged,
                                  !.began = [leaf |-> leaf, active |-> active]]
    <2>1. t \in Locals /\ t.path = p /\ ~t.strayed
        BY DEF NoTxn, Locals, IInv, TypeOK
    <2>2. pc' = "verify" /\ txn' = t /\ UNCHANGED <<result, kernelVars, states, staged>>
        BY <1>1, <1>3 DEF Advance, Call
    <2>3. TypeOK'
        BY <2>1, <2>2, LocalsBusy DEF IInv, TypeOK, PCs, CheckPCs, kernelVars, Txns
    <2>4. PidsUsed'
        BY <2>2 DEF IInv, PidsUsed, kernelVars
    <2>5. StrayVisible'
        BY <1>3, <2>1, <2>2 DEF StrayVisible, OperationPCs, Index
    <2> QED
        BY <2>3, <2>4, <2>5 DEF IInv
<1> QED
    BY <1>2, <1>3

\* The checks before the write commit nothing.
LEMMA PrepareStep == ASSUME IInv, Prepare PROVE IInv'
<1>0. ASSUME pc \in CheckPCs
      PROVE  txn \in Locals /\ ~txn.strayed /\ pc # "idle"
    BY <1>0, Busy DEF IInv, StrayVisible, CheckPCs
<1>1. CASE VerifyRunning
    BY <1>0, <1>1, LookKeeps DEF VerifyRunning, PCs, CheckPCs, OperationPCs, Identity, MatchesExcept
<1>2. CASE ReadPaused
    <2> DEFINE l == IF leaf[txn.path] = txn.paused THEN "verify_again" ELSE "write"
               t == [txn EXCEPT !.previous = leaf[txn.path]]
    <2>1. pc = "read" /\ Look(Exists(txn.path), l, t)
        BY <1>2 DEF ReadPaused
    <2>2. txn \in Locals /\ ~txn.strayed /\ pc # "idle"
        BY <1>0, <2>1 DEF CheckPCs
    <2>3. Exists(txn.path) => t \in Locals /\ t.path = txn.path /\ ~t.strayed
        BY <2>2 DEF Locals, Exists, IInv, TypeOK, Contents
    <2>4. l \in PCs \ {"idle"} /\ l \notin OperationPCs
        BY DEF PCs, CheckPCs, OperationPCs
    <2>5. Exists(txn.path) \in BOOLEAN
        BY DEF Exists
    <2> HIDE DEF l, t
    <2> QED
        BY <2>1, <2>2, <2>3, <2>4, <2>5, LookKeeps
<1>3. CASE VerifyIdempotent
    <2>1. CASE Return("ok")
        BY <1>3, <2>1, ReturnKeeps DEF VerifyIdempotent, Results, IInv, TypeOK
    <2>2. CASE Fail(FALSE)
        BY <1>3, <2>2, FailKeeps DEF VerifyIdempotent
    <2> QED
        BY <1>3, <2>1, <2>2 DEF VerifyIdempotent
<1>4. CASE SetPaused
    <2>1. pc = "write" /\ txn \in Locals /\ ~txn.strayed /\ pc # "idle"
        BY <1>0, <1>4 DEF SetPaused, CheckPCs
    <2>2. CASE /\ WriteLeaf(txn.path, txn.paused)
               /\ Advance("commit", txn)
               /\ UNCHANGED <<states, staged, budgets>>
        <3>1. leaf' \in Contents
            BY <2>1, <2>2, WrittenTyped DEF WriteLeaf, IInv, TypeOK, Locals
        <3> QED
            BY <2>1, <2>2, <3>1, AdvanceKeeps
            DEF WriteLeaf, IInv, TypeOK, PCs, CheckPCs, OperationPCs
    <2>3. CASE Look(FALSE, "commit", txn)
        BY <2>1, <2>3, LookKeeps DEF PCs, OperationPCs
    <2> QED
        BY <1>4, <2>2, <2>3 DEF SetPaused
<1> QED
    BY <1>1, <1>2, <1>3, <1>4 DEF Prepare

\* Adopting the refreshed fingerprint, or turning to the rollback.
LEMMA AdoptKeeps ==
    ASSUME IInv, pc # "idle", NEW r \in Results,
           IF Identity THEN staged' = txn.refreshed /\ Return(r)
           ELSE Fail(On(Index)) /\ UNCHANGED staged,
           UNCHANGED <<kernelVars, states, budgets>>
    PROVE  IInv'
<1>1. CASE Identity
    <2>1. txn.refreshed \in Contents
        BY Busy DEF Locals
    <2> QED
        BY <1>1, <2>1, ReturnKeeps
<1>2. CASE ~Identity
    BY <1>2, FailKeeps DEF On
<1> QED
    BY <1>1, <1>2

\* Reading the pause file again into the fingerprint.
LEMMA RefreshKeeps ==
    ASSUME IInv, pc \in OperationPCs \cup UndoPCs, NEW l \in (OperationPCs \cup UndoPCs),
           l \in OperationPCs => pc \in OperationPCs,
           Look(TRUE, l, [txn EXCEPT !.refreshed =
                              [staged EXCEPT ![txn.path] = leaf[txn.path]]])
    PROVE  IInv'
<1> DEFINE t == [txn EXCEPT !.refreshed = [staged EXCEPT ![txn.path] = leaf[txn.path]]]
<1>1. txn \in Locals /\ pc # "idle"
    BY Busy DEF OperationPCs, UndoPCs
<1>2. txn.path \in Leaves /\ staged \in Contents /\ leaf \in Contents
    BY <1>1 DEF Locals, IInv, TypeOK
<1>3. [staged EXCEPT ![txn.path] = leaf[txn.path]] \in Contents
    BY <1>2 DEF Contents
<1>4. t \in Locals /\ t.path = txn.path /\ t.strayed = txn.strayed
    BY <1>1, <1>3 DEF Locals
<1>5. l \in PCs \ {"idle"} /\ l \notin CheckPCs
    BY DEF PCs, OperationPCs, UndoPCs, CheckPCs
<1>6. Look(TRUE, l, t)
    OBVIOUS
<1>7. l \in OperationPCs /\ t.strayed => ~Identity
    BY <1>4 DEF IInv, StrayVisible
<1> HIDE DEF t
<1> QED
    BY <1>1, <1>4, <1>5, <1>6, <1>7, LookKeeps

\* A step of the operation or of the rollback that compares.
LEMMA CompareKeeps ==
    ASSUME IInv, pc \in OperationPCs \cup UndoPCs, NEW l \in (OperationPCs \cup UndoPCs),
           l \in OperationPCs => pc \in OperationPCs, NEW c \in BOOLEAN, Look(c, l, txn)
    PROVE  IInv'
<1>1. txn \in Locals /\ pc # "idle"
    BY Busy DEF OperationPCs, UndoPCs
<1>2. l \in PCs \ {"idle"} /\ l \notin CheckPCs
    BY DEF PCs, OperationPCs, UndoPCs, CheckPCs
<1>3. l \in OperationPCs /\ txn.strayed => ~Identity
    BY DEF IInv, StrayVisible
<1> QED
    BY <1>1, <1>2, <1>3, LookKeeps

\* The steps after the write.
LEMMA OperationStep == ASSUME IInv, Operation PROVE IInv'
<1>1. CASE Commit
    BY <1>1, CommitKeeps DEF Commit, OperationPCs
<1>2. CASE VerifyCommitted
    BY <1>2, LookIdentityKeeps DEF VerifyCommitted, OperationPCs
<1>3. CASE Observe
    BY <1>3, CompareKeeps DEF Observe, OperationPCs
<1>4. CASE Refresh
    BY <1>4, RefreshKeeps DEF Refresh, OperationPCs
<1>5. CASE MatchRefreshed
    BY <1>5, CompareKeeps DEF MatchRefreshed, OperationPCs, MatchesExcept
<1>6. CASE AdoptPaused
    BY <1>6, AdoptKeeps DEF AdoptPaused, Results
<1> QED
    BY <1>1, <1>2, <1>3, <1>4, <1>5, <1>6 DEF Operation

\* The steps of the rollback.
LEMMA RollbackStep == ASSUME IInv, Rollback PROVE IInv'
<1>1. CASE Undo
    <2>1. pc = "undo" /\ txn \in Locals
        BY <1>1, Busy DEF Undo
    <2>2. CASE /\ WriteLeaf(txn.path, txn.previous)
               /\ Advance("recommit", txn)
               /\ UNCHANGED <<states, staged, budgets>>
        <3>1. leaf' \in Contents
            BY <2>1, <2>2, WrittenTyped DEF WriteLeaf, IInv, TypeOK, Locals
        <3> QED
            BY <2>1, <2>2, <3>1, AdvanceKeeps
            DEF WriteLeaf, IInv, TypeOK, PCs, CheckPCs, OperationPCs, UndoPCs
    <2>3. CASE Look(FALSE, "recommit", txn)
        BY <2>1, <2>3, CompareKeeps DEF UndoPCs, OperationPCs
    <2> QED
        BY <1>1, <2>2, <2>3 DEF Undo
<1>2. CASE Recommit
    BY <1>2, CommitKeeps DEF Recommit, UndoPCs, OperationPCs
<1>3. CASE Reread
    BY <1>3, RefreshKeeps DEF Reread, UndoPCs, OperationPCs
<1>4. CASE MatchRestored
    BY <1>4, CompareKeeps DEF MatchRestored, UndoPCs, OperationPCs, MatchesExcept
<1>5. CASE AdoptRestored
    BY <1>5, AdoptKeeps DEF AdoptRestored, Results
<1> QED
    BY <1>1, <1>2, <1>3, <1>4, <1>5 DEF Rollback

\* Writing a file or ending a thread moves no pid back to the session's thread,
\* and a new thread has a new pid.
LEMMA EnvironmentKeeps ==
    ASSUME IInv, leaf' \in Contents, active' \in Contents,
           thread' \in [K -> 0 .. MaxPid], nextPid' \in 1 .. MaxPid + 1,
           \A i \in K : thread'[i] = thread[i] \/ thread'[i] = 0
                        \/ (thread'[i] = nextPid /\ nextPid' = nextPid + 1),
           nextPid' >= nextPid,
           UNCHANGED <<states, staged, pc, txn, result>>
    PROVE  IInv'
<1>1. TypeOK'
    BY DEF IInv, TypeOK
<1>2. PidsUsed'
    BY DEF IInv, PidsUsed, TypeOK
<1>3. StrayVisible'
    <2>1. ASSUME pc # "idle" PROVE Index \in K
        BY <2>1, Busy DEF Locals, Index
    <2>2. ASSUME pc \in OperationPCs, txn.strayed PROVE thread'[Index] # states[Index]
        <3>1. pc # "idle" /\ Index \in K
            BY <2>1, <2>2 DEF OperationPCs
        <3>2. states[Index] # 0 /\ thread[Index] # states[Index] /\ states[Index] < nextPid
            BY <2>2, <3>1 DEF IInv, StrayVisible, PidsUsed, Identity
        <3> QED
            BY <3>1, <3>2 DEF IInv, TypeOK
    <2> QED
        BY <2>1, <2>2 DEF IInv, StrayVisible, Index, Identity
<1> QED
    BY <1>1, <1>2, <1>3 DEF IInv

\* The kernel and the foreign controller.
LEMMA EnvironmentStep == ASSUME IInv, Environment PROVE IInv'
<1>0. leaf \in Contents /\ active \in Contents /\ thread \in [K -> 0 .. MaxPid]
      /\ nextPid \in 1 .. MaxPid + 1
    BY DEF IInv, TypeOK
<1>1. ASSUME NEW l \in Leaves, NEW v \in Values, WriteLeaf(l, v),
             UNCHANGED <<states, staged, pc, txn, result>>
      PROVE  IInv'
    <2>1. leaf' \in Contents /\ UNCHANGED <<active, thread, nextPid>>
        BY <1>0, <1>1, WrittenTyped DEF WriteLeaf
    <2>2. /\ active' \in Contents /\ thread' \in [K -> 0 .. MaxPid]
          /\ nextPid' \in 1 .. MaxPid + 1 /\ nextPid' >= nextPid
          /\ \A i \in K : thread'[i] = thread[i]
        BY <1>0, <2>1
    <2> QED
        <3>1. \A i \in K : thread'[i] = thread[i] \/ thread'[i] = 0
                        \/ (thread'[i] = nextPid /\ nextPid' = nextPid + 1)
            BY <1>0, <2>1
        <3>2. UNCHANGED <<states, staged, pc, txn, result>>
            BY <1>1
        <3>3. IInv /\ leaf' \in Contents
            BY <2>1
        <3> QED
            BY <2>2, <3>1, <3>2, <3>3, EnvironmentKeeps, Zenon
<1>2. ASSUME NEW i \in K, EndThread(i), UNCHANGED <<states, staged, pc, txn, result>>
      PROVE  IInv'
    <2>1. thread' = [thread EXCEPT ![i] = 0] /\ UNCHANGED <<leaf, active, nextPid>>
        BY <1>2 DEF EndThread
    <2>2. /\ leaf' \in Contents /\ active' \in Contents
          /\ nextPid' \in 1 .. MaxPid + 1 /\ nextPid' >= nextPid
        BY <1>0, <2>1
    <2>3. /\ thread' \in [K -> 0 .. MaxPid]
          /\ \A k \in K : thread'[k] = thread[k] \/ thread'[k] = 0
                          \/ (thread'[k] = nextPid /\ nextPid' = nextPid + 1)
        BY <1>0, <2>1
    <2> QED
        BY <1>2, <2>2, <2>3, EnvironmentKeeps, Zenon
<1>3. ASSUME NEW i \in K, StartThread(i), nextPid <= MaxPid,
             UNCHANGED <<states, staged, pc, txn, result>>
      PROVE  IInv'
    <2>1. active' \in Contents
        BY <1>0, <1>3 DEF StartThread, Contents
    <2> QED
        BY <1>0, <1>3, <2>1, EnvironmentKeeps DEF StartThread
<1>4. CASE KernelTunes
    BY <1>1, <1>4 DEF KernelTunes, TuneLeaf
<1>5. CASE KdamondExits
    BY <1>2, <1>5 DEF KdamondExits
<1>6. CASE RogueActs
    BY <1>1, <1>2, <1>3, <1>6 DEF RogueActs
<1> QED
    BY <1>4, <1>5, <1>6 DEF Environment

\* The invariant is inductive.
LEMMA NextKeeps == ASSUME IInv, [Next]_vars PROVE IInv'
<1>1. CASE IoError
    BY <1>1, FailKeeps DEF IoError
<1>2. CASE UNCHANGED vars
    BY <1>2 DEF vars, kernelVars, IInv, TypeOK, PidsUsed, StrayVisible, Index, Identity
<1> QED
    BY <1>1, <1>2, CallStep, PrepareStep, OperationStep, RollbackStep, EnvironmentStep
    DEF Next

\* The invariant holds throughout.
LEMMA Invariance == Spec => []IInv
BY InitIInv, NextKeeps, PTL DEF Spec

\* Files, running state, pids and the locals of set_context_paused always have
\* their types, whatever fails and whatever others do meanwhile.
THEOREM PauseTyped == Spec => []TypeOK
<1>1. IInv => TypeOK
    BY DEF IInv
<1> QED
    BY <1>1, Invariance, PTL

\* A pause or resume that returns success was committed by the kernel thread
\* the session recorded, whatever happened between the checks: the identity
\* check after the commit cannot be deceived, because pids do not come back.
THEOREM PauseOwnThread == Spec => OkReachedOwnThread
<1>1. ASSUME IInv, [Next]_vars
      PROVE  [Returns /\ result' = "ok" => ~txn.strayed]_vars
    <2> SUFFICES ASSUME Next, Returns, result' = "ok" PROVE ~txn.strayed
        BY <1>1
    <2>1. ASSUME NEW r, Fail(r) PROVE FALSE
        BY <2>1 DEF Fail, Return, Advance, Returns
    <2>2. CASE Identity /\ pc \in OperationPCs
        BY <1>1, <2>2 DEF IInv, StrayVisible
    <2>3. CASE pc \in CheckPCs
        BY <1>1, <2>3 DEF IInv, StrayVisible
    <2>4. CASE AdoptPaused
        BY <2>1, <2>2, <2>4 DEF AdoptPaused, OperationPCs
    <2> QED
        BY <2>1, <2>3, <2>4
        DEF Next, Prepare, Operation, Rollback, Environment, Call, VerifyRunning, ReadPaused,
            VerifyIdempotent, SetPaused, Commit, Recommit, Committed, VerifyCommitted, Observe,
            Refresh, MatchRefreshed, Undo, Reread, MatchRestored, AdoptRestored, IoError,
            KernelTunes, KdamondExits, RogueActs, Look, LookIdentity, Advance, Return, Returns,
            CheckPCs
<1> QED
    BY <1>1, Invariance, PTL DEF Spec, OkReachedOwnThread

-----------------------------------------------------------------------------
(* Who else wrote is seen: what runs on success is what the session owns.   *)

Others == Leaves \ (Tuned \cup Pauses)
RefreshedPCs == {"match", "final_identity", "rematch", "undone_identity"}

\* Files and running state are the session's, or a file is not and shows it.
OwnRuns == \A l \in Others : leaf[l] = staged[l] /\ active[l] = staged[l]
Visible == \E l \in Others : staged[l] # Absent /\ leaf[l] # staged[l]
Budgets == rogue \in Nat /\ exits \in Nat /\ faults \in Nat

\* One foreign write that is not noticed yet is still there to be noticed: it
\* takes a second one to hide it.
SeenInv ==
    /\ rogue = 0 => OwnRuns
    /\ rogue <= 1 => OwnRuns \/ Visible
    /\ rogue <= 1 /\ pc = "final_identity" => \A l \in Others : active[l] = staged[l]
    /\ pc \in RefreshedPCs => \A l \in Others : txn.refreshed[l] = staged[l]

-----------------------------------------------------------------------------
(* A pause that nobody disturbs                                            *)

Began == txn.began
Own(l) == leaf[l] = Began.leaf[l] /\ active[l] = Began.active[l]

\* The thread is the recorded one and no file appears or disappears.
AloneInv ==
    Undisturbed =>
        /\ thread = states
        /\ \A l \in Leaves \ Tuned : staged[l] = Absent <=> leaf[l] = Absent

\* Only the pause file differs from what was there when the call began, and it
\* has, and the thread runs, what the step at hand makes of it.
CallInv ==
    Undisturbed /\ pc # "idle" =>
        LET p == txn.path
            Refreshed(v) == txn.refreshed = [staged EXCEPT ![p] = v]
        IN  /\ \A l \in Leaves \ (Tuned \cup {p}) : Own(l)
            /\ pc \in CheckPCs => Own(p)
            /\ pc # "verify" => \A l \in Leaves \ Tuned :
                    staged[l] # Absent => Began.leaf[l] = staged[l]
            /\ pc \notin {"verify", "read"} =>
                    txn.previous = Began.leaf[p] /\ txn.previous # Absent
            /\ pc = "verify_again" => txn.previous = txn.paused
            /\ pc \in OperationPCs => leaf[p] = txn.paused
            /\ pc \in OperationPCs \ {"commit"} => active[p] = txn.paused
            /\ pc \in {"match", "final_identity"} => Refreshed(txn.paused)
            /\ pc \in UndoPCs => faults > 0 /\ leaf[p] # Absent
            /\ pc \in UndoPCs \ {"undo"} => leaf[p] = txn.previous
            /\ pc \in {"reread", "rematch", "undone_identity"} => active[p] = txn.previous
            /\ pc \in {"rematch", "undone_identity"} => Refreshed(txn.previous)

-----------------------------------------------------------------------------
(* The locals, the moves, and the foreign controller                       *)

LEMMA Locally ==
    ASSUME IInv, pc # "idle"
    PROVE  /\ txn \in Locals /\ txn.path \in Leaves \ (Tuned \cup Counts \cup Others)
           /\ txn.paused \in Values \ {Absent}
           /\ Index \in K /\ Dir[txn.path] = Index /\ states[Index] # 0
           /\ \A l \in LeavesOf(Index) : l \in Others \/ l \in Tuned \/ l = txn.path
<1>1. txn \in Locals /\ txn.path \in Pauses /\ txn.paused \in {Yes, No}
  BY Busy DEF Locals
<1>2. txn.path \in Leaves \ (Tuned \cup Counts \cup Others)
  BY <1>1 DEF Others
<1>3. \A l \in LeavesOf(Index) : l \in Others \/ l \in Tuned \/ l = txn.path
  BY <1>1 DEF LeavesOf, Others, Index
<1> QED
  BY <1>1, <1>2, <1>3 DEF Index, IInv, StrayVisible

\* Writing the pause file changes no other.
LEMMA PauseWritten ==
    ASSUME leaf \in Contents, NEW p \in Leaves \ Counts, NEW v, WriteLeaf(p, v)
    PROVE  /\ leaf'[p] = v /\ \A l \in Leaves \ {p} : leaf'[l] = leaf[l]
           /\ UNCHANGED <<active, thread, nextPid>>
  BY DEF WriteLeaf, Written, Contents

LEMMA CommitCommits ==
    ASSUME NEW i, NEW ls, CommitLeaves(i, ls)
    PROVE  /\ \A l \in Leaves : active'[l] = IF l \in ls THEN leaf[l] ELSE active[l]
           /\ UNCHANGED <<leaf, thread, nextPid>>
  BY DEF CommitLeaves

LEMMA FailMoves ==
    ASSUME NEW lost, Fail(lost)
    PROVE  \/ pc' = "idle" /\ pc \in CheckPCs /\ result' = "rejected"
           \/ /\ pc' = "undo" /\ pc \in OperationPCs
              /\ txn' = [txn EXCEPT !.lost = lost, !.refreshed = staged]
           \/ pc' = "idle" /\ pc \notin CheckPCs \cup OperationPCs /\ result' = "rollback_failed"
  BY DEF Fail, Return, Advance

LEMMA LookMoves ==
    ASSUME NEW c \in BOOLEAN, NEW l, NEW t, Look(c, l, t)
    PROVE  /\ UNCHANGED <<leaf, active, thread, nextPid, states, staged, rogue, faults, exits>>
           /\ (c /\ pc' = l /\ txn' = t) \/ (~c /\ Fail(FALSE))
  BY DEF Look, Advance, kernelVars, budgets

LEMMA CommittedMoves ==
    ASSUME NEW l, Committed(l)
    PROVE  /\ UNCHANGED <<leaf, thread, nextPid, states, staged, rogue, faults, exits>>
           /\ \/ /\ pc' = l
                 /\ txn' = [txn EXCEPT !.strayed = IF thread[Index] = states[Index] THEN @ ELSE TRUE]
                 /\ \A m \in Leaves : active'[m] = IF m \in LeavesOf(Index) THEN leaf[m] ELSE active[m]
              \/ ~On(Index) /\ Fail(FALSE) /\ UNCHANGED active
<1>1. CASE Look(FALSE, l, txn) /\ ~On(Index)
  BY <1>1, LookMoves
<1>2. CASE /\ CommitLeaves(Index, LeavesOf(Index))
           /\ Advance(l, [txn EXCEPT !.strayed = IF thread[Index] = states[Index] THEN @ ELSE TRUE])
           /\ UNCHANGED <<states, staged, budgets>>
  BY <1>2, CommitCommits DEF Advance, budgets
<1> QED
  BY <1>1, <1>2 DEF Committed

\* A foreign step.
LEMMA RogueMoves ==
    ASSUME IInv, RogueActs
    PROVE  /\ rogue' = rogue + 1 /\ UNCHANGED <<states, staged, pc, txn, result, faults, exits>>
           /\ \/ /\ \E w \in RogueWritable : leaf[w[1]] # w[2] /\ WriteLeaf(w[1], w[2])
                 /\ UNCHANGED active
              \/ /\ UNCHANGED leaf
                 /\ \A l \in Leaves : active'[l] \in {active[l], leaf[l]}
<1>1. /\ rogue' = rogue + 1 /\ UNCHANGED <<states, staged, pc, txn, result, faults, exits>>
  BY DEF RogueActs
<1>2. CASE \E w \in RogueWritable : leaf[w[1]] # w[2] /\ WriteLeaf(w[1], w[2])
  BY <1>1, <1>2 DEF WriteLeaf
<1>3. CASE \E i \in K : nextPid <= MaxPid /\ StartThread(i)
  BY <1>1, <1>3 DEF StartThread
<1>4. CASE \E i \in K : EndThread(i)
  BY <1>1, <1>4 DEF EndThread
<1> QED
  BY <1>2, <1>3, <1>4 DEF RogueActs

\* The kernel moves a tuned interval, or a kdamond exits.
LEMMA KernelMoves ==
    ASSUME IInv, KernelTunes \/ KdamondExits
    PROVE  /\ \A l \in Leaves \ Tuned : leaf'[l] = leaf[l]
           /\ UNCHANGED <<active, states, staged, pc, txn, result, rogue, faults>>
           /\ UNCHANGED <<thread, exits>> \/ exits' = exits + 1
<1>1. CASE KernelTunes
  <2>1. PICK l \in Tuned, v \in TunedValues : TuneLeaf(l, v)
    BY <1>1 DEF KernelTunes
  <2>2. l \in Leaves \ Counts /\ WriteLeaf(l, v)
    BY <2>1 DEF TuneLeaf
  <2>3. \A m \in Leaves \ {l} : leaf'[m] = leaf[m]
    BY <2>2, PauseWritten DEF IInv, TypeOK
  <2> QED
    BY <1>1, <2>1, <2>2, <2>3 DEF KernelTunes, WriteLeaf
<1>2. CASE KdamondExits
  BY <1>2 DEF KdamondExits, EndThread
<1> QED
  BY <1>1, <1>2

-----------------------------------------------------------------------------
(* What others wrote is seen                                               *)

\* A step that leaves the other files alone, or commits them.
LEMMA SeenFrame ==
    ASSUME SeenInv, pc' \notin RefreshedPCs, rogue' = rogue,
           \A l \in Others : /\ leaf'[l] = leaf[l] /\ staged'[l] = staged[l]
                             /\ active'[l] \in {active[l], leaf[l]}
    PROVE  SeenInv'
<1>1. pc' # "final_identity"
  BY DEF RefreshedPCs
<1>2. OwnRuns => OwnRuns'
  BY DEF OwnRuns
<1>3. Visible => Visible'
  BY DEF Visible
<1> QED
  BY <1>1, <1>2, <1>3 DEF SeenInv

LEMMA LookSeen ==
    ASSUME SeenInv, NEW c \in BOOLEAN, NEW l, NEW t, Look(c, l, t), l \notin RefreshedPCs
    PROVE  SeenInv'
<1>1. pc' \notin RefreshedPCs
  BY LookMoves, FailMoves DEF RefreshedPCs
<1> QED
  BY <1>1, LookMoves, SeenFrame

LEMMA FailSeen ==
    ASSUME SeenInv, NEW lost, Fail(lost), UNCHANGED <<kernelVars, staged, rogue>>
    PROVE  SeenInv'
<1>1. pc' \notin RefreshedPCs
  BY FailMoves DEF RefreshedPCs
<1> QED
  BY <1>1, SeenFrame DEF kernelVars

LEMMA WriteSeen ==
    ASSUME IInv, SeenInv, pc # "idle", NEW v, WriteLeaf(txn.path, v), pc' \notin RefreshedPCs,
           UNCHANGED <<staged, rogue>>
    PROVE  SeenInv'
<1>1. \A l \in Others : l # txn.path
  BY Locally
<1>2. \A l \in Others : leaf'[l] = leaf[l] /\ active' = active
  BY <1>1, Locally, PauseWritten DEF IInv, TypeOK, Others
<1> QED
  BY <1>2, SeenFrame

LEMMA CommitSeen ==
    ASSUME SeenInv, NEW l, Committed(l), l \notin RefreshedPCs
    PROVE  SeenInv'
<1>1. pc' \notin RefreshedPCs
  BY CommittedMoves, FailMoves DEF RefreshedPCs
<1>2. \A m \in Others : active'[m] \in {active[m], leaf[m]}
  BY CommittedMoves DEF Others
<1> QED
  BY <1>1, <1>2, CommittedMoves, SeenFrame

LEMMA RefreshSeen ==
    ASSUME IInv, SeenInv, pc # "idle", NEW l \in {"match", "rematch"},
           Look(TRUE, l, [txn EXCEPT !.refreshed = [staged EXCEPT ![txn.path] = leaf[txn.path]]])
    PROVE  SeenInv'
<1>1. /\ pc' = l /\ UNCHANGED <<leaf, active, staged, rogue>>
      /\ txn'.refreshed = [staged EXCEPT ![txn.path] = leaf[txn.path]]
  BY Locally DEF Look, Advance, kernelVars, budgets, Locals
<1>2. \A m \in Others : txn'.refreshed[m] = staged[m]
  BY <1>1, Locally DEF IInv, TypeOK, Contents, Others
<1> QED
  BY <1>1, <1>2 DEF SeenInv, OwnRuns, Visible

\* A foreign value does not pass the comparison.
LEMMA MatchSeen ==
    ASSUME SeenInv, pc \in {"match", "rematch"}, NEW l \in {"final_identity", "undone_identity"},
           Look(MatchesExcept(txn.refreshed, Tuned), l, txn)
    PROVE  SeenInv'
<1>1. CASE ~MatchesExcept(txn.refreshed, Tuned)
  <2>1. Fail(FALSE) /\ UNCHANGED <<kernelVars, staged, rogue>>
    BY <1>1 DEF Look, budgets
  <2> QED
    BY <2>1, FailSeen
<1>2. CASE MatchesExcept(txn.refreshed, Tuned)
  <2>1. pc' = l /\ txn' = txn /\ UNCHANGED <<leaf, active, staged, rogue>>
    BY <1>2 DEF Look, Advance, kernelVars, budgets
  <2>2. \A m \in Others : txn.refreshed[m] = staged[m]
    BY DEF SeenInv, RefreshedPCs
  <2>3. ~Visible
    BY <1>2, <2>2 DEF Visible, MatchesExcept, Others
  <2> QED
    BY <2>1, <2>2, <2>3 DEF SeenInv, OwnRuns, Visible
<1> QED
  BY <1>1, <1>2

LEMMA AdoptSeen ==
    ASSUME SeenInv, pc \in {"final_identity", "undone_identity"}, NEW r,
           IF Identity THEN staged' = txn.refreshed /\ Return(r)
           ELSE Fail(On(Index)) /\ UNCHANGED staged,
           UNCHANGED <<kernelVars, budgets>>
    PROVE  SeenInv'
<1>1. \A l \in Others : staged'[l] = staged[l]
  BY DEF SeenInv, RefreshedPCs
<1>2. pc' \notin RefreshedPCs
  BY FailMoves DEF Return, RefreshedPCs
<1> QED
  BY <1>1, <1>2, SeenFrame DEF kernelVars, budgets

LEMMA RogueSeen == ASSUME IInv, SeenInv, Budgets, RogueActs PROVE SeenInv'
<1>1. rogue \in Nat /\ rogue' = rogue + 1 /\ UNCHANGED <<staged, pc, txn>>
  BY RogueMoves DEF Budgets
<1>2. pc' \in RefreshedPCs => \A l \in Others : txn'.refreshed[l] = staged'[l]
  BY <1>1 DEF SeenInv
<1>3. CASE rogue # 0
  BY <1>1, <1>2, <1>3 DEF SeenInv
<1>4. CASE rogue = 0
  <2>1. OwnRuns
    BY <1>4 DEF SeenInv
  <2>2. CASE /\ UNCHANGED leaf
             /\ \A l \in Leaves : active'[l] \in {active[l], leaf[l]}
    <3>1. OwnRuns'
      BY <1>1, <2>1, <2>2 DEF OwnRuns, Others
    <3> QED
      BY <1>1, <1>2, <1>4, <3>1 DEF SeenInv, OwnRuns
  <2>3. ASSUME NEW w \in RogueWritable, leaf[w[1]] # w[2], WriteLeaf(w[1], w[2]), UNCHANGED active
        PROVE  SeenInv'
    <3> DEFINE m == w[1]
    <3>1. m \in Leaves /\ w[2] \in Values /\ leaf[m] # Absent /\ leaf \in Contents
      BY <2>3 DEF WriteLeaf, Exists, IInv, TypeOK
    <3>2. leaf'[m] = w[2] /\ (m \notin Counts => \A l \in Leaves \ {m} : leaf'[l] = leaf[l])
      BY <2>3, <3>1 DEF WriteLeaf, Written, Contents
    <3> HIDE DEF m
    <3>3. CASE m \in Others
      <4>1. staged[m] = leaf[m]
        BY <2>1, <3>3 DEF OwnRuns
      <4>2. Visible'
        BY <1>1, <2>3, <3>1, <3>2, <3>3, <4>1 DEF Visible, m
      <4>3. \A l \in Others : active'[l] = staged'[l]
        BY <1>1, <2>1, <2>3 DEF OwnRuns
      <4> QED
        BY <1>1, <1>2, <1>4, <4>2, <4>3 DEF SeenInv
    <3>4. CASE m \notin Others
      <4>1. m \notin Counts
        BY <3>1, <3>4 DEF Others
      <4>2. OwnRuns'
        BY <1>1, <2>1, <2>3, <3>2, <3>4, <4>1 DEF OwnRuns, Others
      <4> QED
        BY <1>1, <1>2, <1>4, <4>2 DEF SeenInv, OwnRuns
    <3> QED
      BY <3>3, <3>4
  <2> QED
    BY <2>2, <2>3, RogueMoves
<1> QED
  BY <1>3, <1>4

LEMMA NextSeen == ASSUME IInv, SeenInv, Budgets, [Next]_vars PROVE SeenInv'
<1>1. CASE Call
  <2>1. pc' \notin RefreshedPCs /\ UNCHANGED <<leaf, active, staged, rogue>>
    BY <1>1 DEF Call, Return, Advance, RefreshedPCs, kernelVars
  <2> QED
    BY <2>1, SeenFrame
<1>2. CASE VerifyRunning
  <2>1. (MatchesExcept(staged, Tuned) /\ Identity) \in BOOLEAN
    BY DEF MatchesExcept, Identity
  <2>2. Look(MatchesExcept(staged, Tuned) /\ Identity, "read", txn)
    BY <1>2 DEF VerifyRunning
  <2>3. "read" \notin RefreshedPCs
    BY DEF RefreshedPCs
  <2> QED
    BY <2>1, <2>2, <2>3, LookSeen
<1>16. CASE ReadPaused
  <2> DEFINE l == IF leaf[txn.path] = txn.paused THEN "verify_again" ELSE "write"
  <2>1. Exists(txn.path) \in BOOLEAN
    BY DEF Exists
  <2>2. Look(Exists(txn.path), l, [txn EXCEPT !.previous = leaf[txn.path]])
    BY <1>16 DEF ReadPaused
  <2>3. l \notin RefreshedPCs
    BY DEF RefreshedPCs
  <2> HIDE DEF l
  <2> QED
    BY <2>1, <2>2, <2>3, LookSeen
<1>3. CASE VerifyIdempotent
  <2>1. UNCHANGED <<leaf, active, staged, rogue>>
    BY <1>3 DEF VerifyIdempotent, kernelVars, budgets
  <2>2. pc' \notin RefreshedPCs
    BY <1>3, FailMoves DEF VerifyIdempotent, Return, RefreshedPCs
  <2> QED
    BY <2>1, <2>2, SeenFrame
<1>4. CASE SetPaused
  <2>1. CASE WriteLeaf(txn.path, txn.paused) /\ Advance("commit", txn) /\ UNCHANGED <<staged, budgets>>
    <3>1. pc # "idle" /\ pc' \notin RefreshedPCs /\ UNCHANGED <<staged, rogue>>
      BY <1>4, <2>1 DEF SetPaused, Advance, RefreshedPCs, budgets
    <3> QED
      BY <2>1, <3>1, WriteSeen
  <2>2. CASE Look(FALSE, "commit", txn)
    BY <2>2, LookSeen DEF RefreshedPCs
  <2> QED
    BY <1>4, <2>1, <2>2 DEF SetPaused
<1>5. CASE Undo
  <2>1. CASE WriteLeaf(txn.path, txn.previous) /\ Advance("recommit", txn) /\ UNCHANGED <<staged, budgets>>
    <3>1. pc # "idle" /\ pc' \notin RefreshedPCs /\ UNCHANGED <<staged, rogue>>
      BY <1>5, <2>1 DEF Undo, Advance, RefreshedPCs, budgets
    <3> QED
      BY <2>1, <3>1, WriteSeen
  <2>2. CASE Look(FALSE, "recommit", txn)
    BY <2>2, LookSeen DEF RefreshedPCs
  <2> QED
    BY <1>5, <2>1, <2>2 DEF Undo
<1>6. CASE Commit \/ Recommit
  BY <1>6, CommitSeen DEF Commit, Recommit, RefreshedPCs
<1>7. CASE VerifyCommitted
  <2>1. pc' \notin RefreshedPCs /\ UNCHANGED <<leaf, active, staged, rogue>>
    BY <1>7, FailMoves DEF VerifyCommitted, LookIdentity, Advance, RefreshedPCs, kernelVars, budgets
  <2> QED
    BY <2>1, SeenFrame
<1>8. CASE Observe
  BY <1>8, LookSeen DEF Observe, RefreshedPCs
<1>9. CASE Refresh \/ Reread
  BY <1>9, RefreshSeen DEF Refresh, Reread
<1>10. CASE MatchRefreshed \/ MatchRestored
  BY <1>10, MatchSeen DEF MatchRefreshed, MatchRestored
<1>11. CASE AdoptPaused \/ AdoptRestored
  BY <1>11, AdoptSeen DEF AdoptPaused, AdoptRestored
<1>12. CASE IoError
  BY <1>12, FailSeen DEF IoError
<1>13. CASE KernelTunes \/ KdamondExits
  BY <1>13, KernelMoves DEF SeenInv, OwnRuns, Visible, Others
<1>14. CASE RogueActs
  BY <1>14, RogueSeen
<1>15. CASE UNCHANGED vars
  BY <1>15 DEF vars, kernelVars, budgets, SeenInv, OwnRuns, Visible
<1> QED
  BY <1>1, <1>2, <1>3, <1>4, <1>5, <1>6, <1>7, <1>8, <1>9, <1>10, <1>11, <1>12, <1>13, <1>14, <1>15,
     <1>16 DEF Next, Prepare, Operation, Rollback, Environment

LEMMA BudgetMoves ==
    ASSUME [Next]_vars
    PROVE  /\ rogue' = rogue \/ rogue' = rogue + 1
           /\ exits' = exits \/ exits' = exits + 1
           /\ faults' = faults \/ faults' = faults + 1
<1>1. CASE Prepare \/ Operation \/ Rollback
  BY <1>1 DEF Prepare, Operation, Rollback, VerifyRunning, ReadPaused, VerifyIdempotent, SetPaused,
     Commit, Recommit, Committed, VerifyCommitted, Observe, Refresh, MatchRefreshed, AdoptPaused,
     Undo, Reread, MatchRestored, AdoptRestored, Look, LookIdentity, budgets
<1>2. CASE Call \/ IoError \/ Environment \/ UNCHANGED vars
  BY <1>2 DEF Call, IoError, Environment, KernelTunes, KdamondExits, RogueActs, vars, budgets
<1> QED
  BY <1>1, <1>2 DEF Next

LEMMA NextBudgets == ASSUME Budgets, [Next]_vars PROVE Budgets'
  BY BudgetMoves DEF Budgets

LEMMA SeenInvariance == Spec => [](IInv /\ SeenInv /\ Budgets)
<1>1. Init => IInv /\ SeenInv /\ Budgets
  BY InitIInv DEF Init, SeenInv, Budgets, OwnRuns, RefreshedPCs
<1>2. IInv /\ SeenInv /\ Budgets /\ [Next]_vars => (IInv /\ SeenInv /\ Budgets)'
  BY NextKeeps, NextSeen, NextBudgets
<1> QED
  BY <1>1, <1>2, PTL DEF Spec

\* Who returns success.
LEMMA Successes ==
    ASSUME Next, Returns, result' = "ok"
    PROVE  /\ UNCHANGED <<leaf, active, thread, states, rogue, exits, faults>>
           /\ \/ AdoptPaused /\ Identity /\ staged' = txn.refreshed
              \/ VerifyIdempotent /\ MatchesExcept(staged, Tuned) /\ Identity /\ UNCHANGED staged
<1>1. ASSUME NEW r, Fail(r) PROVE FALSE
  BY <1>1 DEF Fail, Return, Advance, Returns
<1>2. CASE AdoptPaused
  BY <1>1, <1>2 DEF AdoptPaused, kernelVars, budgets
<1>3. CASE VerifyIdempotent
  BY <1>1, <1>3 DEF VerifyIdempotent, kernelVars, budgets
<1> QED
  BY <1>1, <1>2, <1>3
  DEF Next, Prepare, Operation, Rollback, Environment, Call, VerifyRunning, ReadPaused,
      SetPaused, Commit, Recommit, Committed, VerifyCommitted, Observe,
      Refresh, MatchRefreshed, Undo, Reread, MatchRestored, AdoptRestored, IoError,
      KernelTunes, KdamondExits, RogueActs, Look, LookIdentity, Advance, Return, Returns

\* The commit takes over what others wrote, but success is not returned for it: what
\* runs is what the session owns, unless a second foreign write hid the first
\* (set_context_paused compares the whole hierarchy after its commit).
THEOREM PauseRunsOwned == Spec => OkRunsWhatIsOwned
<1>1. ASSUME IInv, SeenInv, Next, Returns, result' = "ok", rogue <= 1
      PROVE  \A l \in LeavesOf(Index) \ (Tuned \cup {txn.path}) : active'[l] = staged'[l]
  <2>1. \A l \in LeavesOf(Index) \ (Tuned \cup {txn.path}) : l \in Others
    BY <1>1, Locally DEF Returns
  <2>2. CASE AdoptPaused /\ staged' = txn.refreshed
    BY <1>1, <2>1, <2>2, Successes DEF AdoptPaused, SeenInv, RefreshedPCs
  <2>3. CASE MatchesExcept(staged, Tuned) /\ UNCHANGED staged
    <3>1. ~Visible
      BY <2>3 DEF Visible, MatchesExcept, Others
    <3> QED
      BY <1>1, <2>1, <2>3, <3>1, Successes DEF SeenInv, OwnRuns
  <2> QED
    BY <1>1, <2>2, <2>3, Successes
<1>2. IInv /\ SeenInv /\ Budgets /\ [Next]_vars =>
        [Returns /\ result' = "ok" /\ rogue <= 1 =>
            \A l \in LeavesOf(Index) \ (Tuned \cup {txn.path}) : active'[l] = staged'[l]]_vars
  BY <1>1
<1> QED
  BY <1>2, SeenInvariance, PTL DEF Spec, OkRunsWhatIsOwned

-----------------------------------------------------------------------------
(* A pause that nobody disturbs happens as a whole or not at all           *)

All == IInv /\ SeenInv /\ Budgets /\ AloneInv /\ CallInv

LEMMA InitAlone == Init => AloneInv /\ CallInv
  BY DEF Init, AloneInv, CallInv

\* Nobody disturbs later who disturbed before.
LEMMA Still ==
    ASSUME Budgets, [Next]_vars, Undisturbed'
    PROVE  Undisturbed /\ ~RogueActs /\ ~KdamondExits
  BY BudgetMoves DEF Budgets, Undisturbed, RogueActs, KdamondExits

\* An undisturbed step finds what it looks for: only a failing access turns to
\* the rollback, and only another one makes that fail.
LEMMA Undisturbedly ==
    ASSUME All, Undisturbed, pc # "idle"
    PROVE  /\ Identity /\ On(Index)
           /\ OwnRuns
           /\ pc \in OperationPCs \cup UndoPCs => Exists(txn.path)
           /\ pc \in {"match", "rematch"} => MatchesExcept(txn.refreshed, Tuned)
           /\ \A l \in Leaves \ Tuned : staged[l] = Absent <=> leaf[l] = Absent
<1>1. Identity /\ On(Index) /\ OwnRuns
      /\ \A l \in Leaves \ Tuned : staged[l] = Absent <=> leaf[l] = Absent
  BY Locally DEF All, AloneInv, Undisturbed, Identity, On, SeenInv
<1>2. pc \in OperationPCs \cup UndoPCs => Exists(txn.path)
  BY Locally DEF All, CallInv, Exists
<1>3. ASSUME pc \in {"match", "rematch"}
      PROVE  MatchesExcept(txn.refreshed, Tuned)
  <2>1. \E v : txn.refreshed = [staged EXCEPT ![txn.path] = v] /\ leaf[txn.path] = v
    BY <1>3 DEF All, CallInv, OperationPCs, UndoPCs
  <2>2. \A l \in Leaves \ (Tuned \cup {txn.path}) : leaf[l] = Began.leaf[l]
    BY DEF All, CallInv, Own
  <2>3. \A l \in Leaves \ Tuned : staged[l] # Absent => Began.leaf[l] = staged[l]
    BY <1>3 DEF All, CallInv
  <2>4. staged \in Contents /\ txn.path \in Leaves
    BY Locally DEF All, IInv, TypeOK
  <2>5. txn.refreshed[txn.path] = leaf[txn.path]
        /\ \A l \in Leaves \ {txn.path} : txn.refreshed[l] = staged[l]
    BY <2>1, <2>4 DEF Contents
  <2> QED
    BY <2>2, <2>3, <2>5 DEF MatchesExcept
<1> QED
  BY <1>1, <1>2, <1>3

LEMMA CallAlone == ASSUME All, Call PROVE AloneInv' /\ CallInv'
<1>1. /\ UNCHANGED <<leaf, active, thread, states, staged, rogue, exits>> /\ pc' \in {"idle", "verify"}
      /\ pc' = "verify" => txn'.began = [leaf |-> leaf, active |-> active] /\ txn'.path \in Leaves
  BY DEF Call, Return, Advance, NoTxn, kernelVars
<1>2. AloneInv'
  BY <1>1 DEF All, AloneInv, Undisturbed
<1>3. CallInv'
  BY <1>1 DEF CallInv, CheckPCs, OperationPCs, UndoPCs, Own, Began
<1> QED
  BY <1>2, <1>3

\* A step that only looks and goes on.
LEMMA LooksAlone ==
    ASSUME All, Undisturbed, pc # "idle",
           UNCHANGED <<leaf, active, thread, states, staged, rogue, exits, faults>>
    PROVE  /\ AloneInv'
           /\ pc' = "idle" => CallInv'
           /\ txn' = txn /\ pc' # "idle" =>
                    \A l \in Leaves \ (Tuned \cup {txn.path}) : Own(l)'
<1>1. AloneInv'
  BY DEF All, AloneInv, Undisturbed
<1>2. pc' = "idle" => CallInv'
  BY DEF CallInv
<1>3. txn' = txn /\ pc' # "idle" => \A l \in Leaves \ (Tuned \cup {txn.path}) : Own(l)'
  BY DEF All, CallInv, Own, Began
<1> QED
  BY <1>1, <1>2, <1>3

LEMMA PrepareAlone == ASSUME All, Undisturbed, Prepare PROVE AloneInv' /\ CallInv'
<1>0. ASSUME pc \in CheckPCs
      PROVE  /\ pc # "idle"
             /\ \A l \in Leaves \ Tuned : Own(l)
             /\ pc # "verify" => \A l \in Leaves \ Tuned : staged[l] # Absent => Began.leaf[l] = staged[l]
             /\ pc \notin {"verify", "read"} => txn.previous = Began.leaf[txn.path] /\ txn.previous # Absent
             /\ txn \in Locals /\ txn.path \in Leaves \ (Tuned \cup Counts)
  BY <1>0, Locally DEF CheckPCs, All, CallInv
<1>1. CASE VerifyRunning
  <2>1. /\ UNCHANGED <<leaf, active, thread, states, staged, rogue, exits, faults>>
        /\ pc = "verify"
        /\ pc' = "idle" \/ (pc' = "read" /\ txn' = txn /\ MatchesExcept(staged, Tuned))
    BY <1>1 DEF VerifyRunning, Look, Fail, Advance, Return, CheckPCs, kernelVars, budgets
  <2>2. CASE pc' = "read" /\ txn' = txn /\ MatchesExcept(staged, Tuned)
    <3>1. \A l \in Leaves \ Tuned : staged[l] # Absent => Began.leaf[l] = staged[l]
      BY <1>0, <2>1, <2>2 DEF MatchesExcept, Own, CheckPCs
    <3>2. CallInv'
      BY <1>0, <2>1, <2>2, <3>1 DEF CallInv, CheckPCs, OperationPCs, UndoPCs, Own, Began
    <3> QED
      BY <2>1, <2>2, <3>2, LooksAlone
  <2> QED
    BY <2>1, <2>2, LooksAlone
<1>2. CASE ReadPaused
  <2>1. /\ UNCHANGED <<leaf, active, thread, states, staged, rogue, exits, faults>>
        /\ pc = "read"
        /\ \/ pc' = "idle"
           \/ /\ pc' = (IF leaf[txn.path] = txn.paused THEN "verify_again" ELSE "write")
              /\ txn' = [txn EXCEPT !.previous = leaf[txn.path]] /\ Exists(txn.path)
    BY <1>2 DEF ReadPaused, Look, Fail, Advance, Return, CheckPCs, kernelVars, budgets
  <2>2. CASE pc' # "idle"
    <3>1. /\ txn'.path = txn.path /\ txn'.paused = txn.paused /\ txn'.began = txn.began
          /\ txn'.previous = leaf[txn.path] /\ leaf[txn.path] # Absent
          /\ pc' \in {"verify_again", "write"}
          /\ pc' = "verify_again" => leaf[txn.path] = txn.paused
      BY <1>0, <2>1, <2>2 DEF Locals, Exists, CheckPCs
    <3>2. CallInv'
      BY <1>0, <2>1, <2>2, <3>1 DEF CallInv, CheckPCs, OperationPCs, UndoPCs, Own, Began
    <3> QED
      BY <2>1, <3>2, LooksAlone
  <2> QED
    BY <2>1, <2>2, LooksAlone
<1>3. CASE VerifyIdempotent
  <2>1. /\ UNCHANGED <<leaf, active, thread, states, staged, rogue, exits, faults>>
        /\ pc # "idle" /\ pc' = "idle"
    BY <1>3 DEF VerifyIdempotent, Fail, Return, CheckPCs, kernelVars, budgets
  <2> QED
    BY <2>1, LooksAlone
<1>4. CASE SetPaused
  <2>1. CASE WriteLeaf(txn.path, txn.paused) /\ Advance("commit", txn) /\ UNCHANGED <<states, staged, budgets>>
    <3>1. /\ pc = "write" /\ pc' = "commit" /\ txn' = txn
          /\ UNCHANGED <<active, thread, states, staged, rogue, exits, faults>>
          /\ leaf'[txn.path] = txn.paused /\ leaf[txn.path] # Absent
          /\ \A l \in Leaves \ {txn.path} : leaf'[l] = leaf[l]
      BY <1>0, <1>4, <2>1, PauseWritten
         DEF SetPaused, Advance, budgets, All, IInv, TypeOK, WriteLeaf, Exists, CheckPCs
    <3>2. txn.paused # Absent /\ txn.path \in Leaves
      BY <1>0, <3>1, Locally DEF All, CheckPCs
    <3>3. AloneInv'
      BY <3>1, <3>2 DEF All, AloneInv, Undisturbed
    <3>4. CallInv'
      BY <1>0, <3>1 DEF CallInv, CheckPCs, OperationPCs, UndoPCs, Own, Began
    <3> QED
      BY <3>3, <3>4
  <2>2. CASE Look(FALSE, "commit", txn)
    <3>1. /\ UNCHANGED <<leaf, active, thread, states, staged, rogue, exits, faults>>
          /\ pc # "idle" /\ pc' = "idle"
      BY <1>4, <2>2 DEF SetPaused, Look, Fail, Return, CheckPCs, kernelVars, budgets
    <3> QED
      BY <3>1, LooksAlone
  <2> QED
    BY <1>4, <2>1, <2>2 DEF SetPaused
<1> QED
  BY <1>1, <1>2, <1>3, <1>4 DEF Prepare

\* What CallInv says after the write.
LEMMA AfterWrite ==
    ASSUME All, Undisturbed, pc \in OperationPCs \cup UndoPCs
    PROVE  /\ pc # "idle" /\ pc \notin CheckPCs
           /\ txn \in Locals /\ txn.path \in Leaves \ (Tuned \cup Counts)
           /\ \A l \in Leaves \ (Tuned \cup {txn.path}) : Own(l)
           /\ \A l \in Leaves \ Tuned : staged[l] # Absent => Began.leaf[l] = staged[l]
           /\ txn.previous = Began.leaf[txn.path] /\ txn.previous # Absent
           /\ txn.paused # Absent /\ leaf[txn.path] # Absent
           /\ staged[txn.path] # Absent
           /\ pc \in OperationPCs => leaf[txn.path] = txn.paused
           /\ pc \in OperationPCs \ {"commit"} => active[txn.path] = txn.paused
<1>1. pc # "idle" /\ pc \notin CheckPCs /\ pc \notin {"verify", "read"}
  BY DEF OperationPCs, UndoPCs, CheckPCs
<1>2. leaf[txn.path] # Absent
  BY <1>1, Undisturbedly DEF Exists
<1>3. txn \in Locals /\ txn.path \in Leaves \ (Tuned \cup Counts) /\ txn.paused # Absent
  BY <1>1, Locally DEF All
<1>4. staged[txn.path] # Absent
  BY <1>1, <1>2, <1>3, Undisturbedly
<1> QED
  BY <1>1, <1>2, <1>3, <1>4 DEF All, CallInv

\* Turning to the rollback.
LEMMA FailAlone ==
    ASSUME All, Undisturbed, pc # "idle", NEW lost, Fail(lost), faults' > 0,
           UNCHANGED <<kernelVars, states, staged, rogue, exits>>
    PROVE  AloneInv' /\ CallInv'
<1>1. AloneInv'
  BY DEF All, AloneInv, Undisturbed, kernelVars
<1>2. CASE pc' = "idle"
  BY <1>1, <1>2 DEF CallInv
<1>3. CASE pc' # "idle"
  <2>1. pc \in OperationPCs /\ pc' = "undo" /\ txn' = [txn EXCEPT !.lost = lost, !.refreshed = staged]
    BY <1>3, FailMoves
  <2>2. /\ txn'.path = txn.path /\ txn'.paused = txn.paused /\ txn'.began = txn.began
        /\ txn'.previous = txn.previous
    BY <2>1, AfterWrite DEF Locals
  <2>3. CallInv'
    BY <2>1, <2>2, AfterWrite
       DEF CallInv, CheckPCs, OperationPCs, UndoPCs, Own, Began, kernelVars
  <2> QED
    BY <1>1, <2>3
<1> QED
  BY <1>2, <1>3

\* The commit finds every other file already running.
LEMMA CommitAlone ==
    ASSUME All, Undisturbed, Commit \/ Recommit
    PROVE  AloneInv' /\ CallInv'
<1>1. pc \in {"commit", "recommit"} /\ Committed(IF pc = "commit" THEN "identity" ELSE "reread")
  BY DEF Commit, Recommit
<1>2. pc \in OperationPCs \cup UndoPCs
  BY <1>1 DEF OperationPCs, UndoPCs
<1>3. /\ UNCHANGED <<leaf, thread, nextPid, states, staged, rogue, faults, exits>>
      /\ pc' = (IF pc = "commit" THEN "identity" ELSE "reread")
      /\ txn' = [txn EXCEPT !.strayed = IF thread[Index] = states[Index] THEN @ ELSE TRUE]
      /\ \A m \in Leaves : active'[m] = IF m \in LeavesOf(Index) THEN leaf[m] ELSE active[m]
  BY <1>1, <1>2, CommittedMoves, Undisturbedly, AfterWrite
<1>4. /\ txn'.path = txn.path /\ txn'.paused = txn.paused /\ txn'.began = txn.began
      /\ txn'.previous = txn.previous
  BY <1>2, <1>3, AfterWrite DEF Locals
<1>5. \A l \in Leaves \ (Tuned \cup {txn.path}) : active'[l] = active[l]
  <2>1. \A l \in LeavesOf(Index) : l \in Others \/ l \in Tuned \/ l = txn.path
    BY <1>2, AfterWrite, Locally DEF All
  <2>2. \A l \in Others : leaf[l] = active[l]
    BY <1>2, Undisturbedly, AfterWrite DEF OwnRuns
  <2> QED
    BY <1>3, <2>1, <2>2
<1>6. active'[txn.path] = leaf[txn.path]
  BY <1>2, <1>3, AfterWrite, Locally DEF LeavesOf, All
<1>7. pc = "recommit" => leaf[txn.path] = txn.previous
  BY <1>1, Undisturbedly DEF All, CallInv, UndoPCs
<1>8. AloneInv'
  BY <1>3 DEF All, AloneInv, Undisturbed
<1>9. pc = "recommit" => faults > 0
  BY DEF All, CallInv, UndoPCs
<1>10. CallInv'
  BY <1>1, <1>2, <1>3, <1>4, <1>5, <1>6, <1>7, <1>9, AfterWrite
     DEF CallInv, CheckPCs, OperationPCs, UndoPCs, Own, Began
<1> QED
  BY <1>8, <1>10

LEMMA OperationAlone == ASSUME All, Undisturbed, Operation PROVE AloneInv' /\ CallInv'
<1>0. ASSUME pc \in OperationPCs
      PROVE  /\ pc # "idle" /\ Identity /\ leaf[txn.path] = txn.paused
             /\ pc = "match" => MatchesExcept(txn.refreshed, Tuned)
  BY <1>0, Undisturbedly, AfterWrite DEF OperationPCs
<1>1. CASE VerifyCommitted \/ Observe \/ MatchRefreshed
  <2>1. /\ UNCHANGED <<leaf, active, thread, states, staged, rogue, exits, faults>>
        /\ txn' = txn
        /\ <<pc, pc'>> \in {<<"identity", "observe">>, <<"observe", "refresh">>,
                            <<"match", "final_identity">>}
    BY <1>0, <1>1
    DEF VerifyCommitted, Observe, MatchRefreshed, LookIdentity, Look, Advance, OperationPCs,
        kernelVars, budgets
  <2>2. pc \in OperationPCs \cup UndoPCs
    BY <2>1 DEF OperationPCs
  <2>3. pc = "match" => txn.refreshed = [staged EXCEPT ![txn.path] = txn.paused]
    BY DEF All, CallInv
  <2>4. CallInv'
    BY <2>1, <2>2, <2>3, AfterWrite DEF CallInv, CheckPCs, OperationPCs, UndoPCs, Own, Began
  <2> QED
    BY <2>1, <2>2, <2>4, AfterWrite, LooksAlone
<1>2. CASE Refresh
  <2>1. /\ UNCHANGED <<leaf, active, thread, states, staged, rogue, exits, faults>>
        /\ pc = "refresh" /\ pc' = "match"
        /\ txn' = [txn EXCEPT !.refreshed = [staged EXCEPT ![txn.path] = leaf[txn.path]]]
    BY <1>2 DEF Refresh, Look, Advance, kernelVars, budgets
  <2>2. pc \in OperationPCs \cup UndoPCs
    BY <2>1 DEF OperationPCs
  <2>3. /\ txn'.path = txn.path /\ txn'.paused = txn.paused /\ txn'.began = txn.began
        /\ txn'.previous = txn.previous
        /\ txn'.refreshed = [staged EXCEPT ![txn.path] = txn.paused]
    BY <2>1, <2>2, AfterWrite DEF Locals, OperationPCs
  <2>4. CallInv'
    BY <2>1, <2>2, <2>3, AfterWrite DEF CallInv, CheckPCs, OperationPCs, UndoPCs, Own, Began
  <2> QED
    BY <2>1, <2>2, <2>4, AfterWrite, LooksAlone
<1>3. CASE AdoptPaused
  <2>1. /\ UNCHANGED <<leaf, active, thread, states, rogue, exits>>
        /\ pc = "final_identity" /\ pc' = "idle" /\ staged' = txn.refreshed
    BY <1>0, <1>3 DEF AdoptPaused, Return, OperationPCs, kernelVars, budgets
  <2>2. txn.refreshed = [staged EXCEPT ![txn.path] = txn.paused]
    BY <2>1 DEF All, CallInv
  <2>3. pc \in OperationPCs \cup UndoPCs /\ staged \in Contents
    BY <2>1 DEF OperationPCs, All, IInv, TypeOK
  <2>4. \A l \in Leaves : staged'[l] = IF l = txn.path THEN txn.paused ELSE staged[l]
    BY <2>1, <2>2, <2>3 DEF Contents
  <2>5. AloneInv'
    BY <2>1, <2>3, <2>4, AfterWrite DEF All, AloneInv, Undisturbed
  <2> QED
    BY <2>1, <2>5 DEF CallInv
<1> QED
  BY <1>1, <1>2, <1>3, CommitAlone DEF Operation

LEMMA RollbackAlone == ASSUME All, Undisturbed, Rollback PROVE AloneInv' /\ CallInv'
<1>0. ASSUME pc \in UndoPCs
      PROVE  /\ pc # "idle" /\ Identity /\ leaf[txn.path] # Absent /\ faults > 0
             /\ pc # "undo" => leaf[txn.path] = txn.previous
             /\ pc \in {"reread", "rematch", "undone_identity"} => active[txn.path] = txn.previous
             /\ pc = "rematch" => MatchesExcept(txn.refreshed, Tuned)
             /\ pc \in {"rematch", "undone_identity"} =>
                    txn.refreshed = [staged EXCEPT ![txn.path] = txn.previous]
  BY <1>0, Undisturbedly, AfterWrite DEF UndoPCs, All, CallInv
<1>1. CASE Undo
  <2>1. /\ pc = "undo" /\ pc' = "recommit" /\ txn' = txn /\ WriteLeaf(txn.path, txn.previous)
        /\ UNCHANGED <<states, staged, rogue, exits, faults>>
    BY <1>0, <1>1 DEF Undo, Advance, Exists, UndoPCs, budgets
  <2>2. pc \in OperationPCs \cup UndoPCs /\ leaf \in Contents
    BY <2>1 DEF UndoPCs, All, IInv, TypeOK
  <2>3. /\ UNCHANGED <<active, thread>> /\ leaf'[txn.path] = txn.previous
        /\ \A l \in Leaves \ {txn.path} : leaf'[l] = leaf[l]
    BY <2>1, <2>2, AfterWrite, PauseWritten
  <2>4. AloneInv'
    BY <2>1, <2>2, <2>3, AfterWrite DEF All, AloneInv, Undisturbed
  <2>5. CallInv'
    BY <1>0, <2>1, <2>2, <2>3, AfterWrite DEF CallInv, CheckPCs, OperationPCs, UndoPCs, Own, Began
  <2> QED
    BY <2>4, <2>5
<1>2. CASE Reread
  <2>1. /\ UNCHANGED <<leaf, active, thread, states, staged, rogue, exits, faults>>
        /\ pc = "reread" /\ pc' = "rematch"
        /\ txn' = [txn EXCEPT !.refreshed = [staged EXCEPT ![txn.path] = leaf[txn.path]]]
    BY <1>2 DEF Reread, Look, Advance, kernelVars, budgets
  <2>2. pc \in OperationPCs \cup UndoPCs
    BY <2>1 DEF UndoPCs
  <2>3. /\ txn'.path = txn.path /\ txn'.paused = txn.paused /\ txn'.began = txn.began
        /\ txn'.previous = txn.previous
        /\ txn'.refreshed = [staged EXCEPT ![txn.path] = txn.previous]
    BY <1>0, <2>1, <2>2, AfterWrite DEF Locals, UndoPCs
  <2>4. CallInv'
    BY <1>0, <2>1, <2>2, <2>3, AfterWrite DEF CallInv, CheckPCs, OperationPCs, UndoPCs, Own, Began
  <2> QED
    BY <2>1, <2>2, <2>4, AfterWrite, LooksAlone
<1>3. CASE MatchRestored
  <2>1. /\ UNCHANGED <<leaf, active, thread, states, staged, rogue, exits, faults>>
        /\ txn' = txn /\ pc = "rematch" /\ pc' = "undone_identity"
    BY <1>0, <1>3 DEF MatchRestored, Look, Advance, UndoPCs, kernelVars, budgets
  <2>2. pc \in OperationPCs \cup UndoPCs
    BY <2>1 DEF UndoPCs
  <2>3. CallInv'
    BY <1>0, <2>1, <2>2, AfterWrite DEF CallInv, CheckPCs, OperationPCs, UndoPCs, Own, Began
  <2> QED
    BY <2>1, <2>2, <2>3, AfterWrite, LooksAlone
<1>4. CASE AdoptRestored
  <2>1. /\ UNCHANGED <<leaf, active, thread, states, rogue, exits>>
        /\ pc = "undone_identity" /\ pc' = "idle" /\ staged' = txn.refreshed
    BY <1>0, <1>4 DEF AdoptRestored, Return, UndoPCs, kernelVars, budgets
  <2>2. txn.refreshed = [staged EXCEPT ![txn.path] = txn.previous]
    BY <1>0, <2>1 DEF UndoPCs
  <2>3. pc \in OperationPCs \cup UndoPCs /\ staged \in Contents
    BY <2>1 DEF UndoPCs, All, IInv, TypeOK
  <2>4. \A l \in Leaves : staged'[l] = IF l = txn.path THEN txn.previous ELSE staged[l]
    BY <2>1, <2>2, <2>3 DEF Contents
  <2>5. AloneInv'
    BY <2>1, <2>3, <2>4, AfterWrite DEF All, AloneInv, Undisturbed
  <2> QED
    BY <2>1, <2>5 DEF CallInv
<1> QED
  BY <1>1, <1>2, <1>3, <1>4, CommitAlone DEF Rollback

LEMMA NextAlone == ASSUME All, [Next]_vars PROVE AloneInv' /\ CallInv'
<1> SUFFICES ASSUME Undisturbed' PROVE AloneInv' /\ CallInv'
  BY DEF AloneInv, CallInv
<1>1. Undisturbed /\ ~RogueActs /\ ~KdamondExits
  BY Still DEF All
<1>2. CASE IoError
  <2>1. faults' > 0
    BY <1>2 DEF IoError, All, Budgets
  <2> QED
    BY <1>1, <1>2, <2>1, FailAlone DEF IoError
<1>3. CASE KernelTunes
  <2>1. UNCHANGED <<thread, exits>>
    BY <1>3 DEF KernelTunes, TuneLeaf, WriteLeaf
  <2>2. /\ \A l \in Leaves \ Tuned : leaf'[l] = leaf[l]
        /\ UNCHANGED <<active, states, staged, pc, txn, rogue, faults>>
    BY <1>3, KernelMoves DEF All
  <2>3. AloneInv'
    BY <2>1, <2>2 DEF All, AloneInv, Undisturbed
  <2>4. pc # "idle" => txn.path \in Leaves \ Tuned
    BY Locally DEF All
  <2>5. CallInv'
    BY <2>1, <2>2, <2>4 DEF All, CallInv, Undisturbed, Own, Began
  <2> QED
    BY <2>3, <2>5
<1>4. CASE UNCHANGED vars
  BY <1>4 DEF vars, kernelVars, budgets, All, AloneInv, CallInv, Undisturbed, Own, Began
<1> QED
  BY <1>1, <1>2, <1>3, <1>4, CallAlone, PrepareAlone, OperationAlone, RollbackAlone
     DEF Next, Environment

LEMMA AloneInvariance == Spec => []All
<1>1. Init => All
  BY InitIInv, InitAlone DEF All, Init, SeenInv, Budgets, OwnRuns, RefreshedPCs
<1>2. All /\ [Next]_vars => All'
  BY NextKeeps, NextSeen, NextBudgets, NextAlone DEF All
<1> QED
  BY <1>1, <1>2, PTL DEF Spec

\* How an undisturbed call returns.
LEMMA Returned ==
    ASSUME All, Undisturbed, Next, Returns
    PROVE  /\ UNCHANGED <<leaf, active>>
           /\ \/ pc \in CheckPCs /\ result' = "rejected" /\ UNCHANGED staged
              \/ pc = "verify_again" /\ result' = "ok" /\ UNCHANGED staged
                 /\ MatchesExcept(staged, Tuned)
              \/ pc = "final_identity" /\ result' = "ok" /\ staged' = txn.refreshed
              \/ pc = "undone_identity" /\ result' = "failed" /\ staged' = txn.refreshed
              \/ pc \in UndoPCs /\ result' = "rollback_failed" /\ UNCHANGED staged
                 /\ faults' = faults + 1
<1>0. pc # "idle" /\ pc' = "idle"
  BY DEF Returns
<1>1. CASE Prepare
  <2>1. CASE VerifyRunning \/ ReadPaused \/ SetPaused
    <3>1. pc \in CheckPCs /\ UNCHANGED <<leaf, active, staged>> /\ result' = "rejected"
      BY <1>0, <2>1 DEF VerifyRunning, ReadPaused, SetPaused, Look, Fail, Advance, Return, CheckPCs,
         kernelVars
    <3> QED
      BY <3>1
  <2>2. CASE VerifyIdempotent
    BY <1>0, <2>2 DEF VerifyIdempotent, Fail, Return, CheckPCs, kernelVars
  <2> QED
    BY <1>1, <2>1, <2>2 DEF Prepare
<1>2. CASE Operation
  <2>1. pc \in OperationPCs
    BY <1>2 DEF Operation, Commit, VerifyCommitted, Observe, Refresh, MatchRefreshed, AdoptPaused,
       OperationPCs
  <2>2. Identity /\ On(Index)
    BY <1>0, Undisturbedly
  <2>3. ASSUME NEW lost, Fail(lost) PROVE FALSE
    BY <1>0, <2>1, <2>3, FailMoves DEF OperationPCs, CheckPCs
  <2>4. AdoptPaused
    BY <1>0, <1>2, <2>3 DEF Operation, Commit, Committed, VerifyCommitted, Observe, Refresh,
       MatchRefreshed, Look, LookIdentity, Advance
  <2> QED
    BY <2>2, <2>4 DEF AdoptPaused, Return, kernelVars
<1>3. CASE Rollback
  <2>1. pc \in UndoPCs
    BY <1>3 DEF Rollback, Undo, Recommit, Reread, MatchRestored, AdoptRestored, UndoPCs
  <2>2. /\ Identity /\ On(Index) /\ Exists(txn.path)
        /\ pc = "rematch" => MatchesExcept(txn.refreshed, Tuned)
    BY <1>0, <2>1, Undisturbedly
  <2>3. AdoptRestored
    BY <1>0, <1>3, <2>2 DEF Rollback, Undo, Recommit, Committed, Reread, MatchRestored, Look, Advance
  <2> QED
    BY <2>2, <2>3 DEF AdoptRestored, Return, kernelVars
<1>4. CASE IoError
  <2>1. /\ UNCHANGED <<leaf, active, staged>> /\ faults' = faults + 1
        /\ Fail(FALSE)
    BY <1>4 DEF IoError, kernelVars
  <2>2. pc \in PCs
    BY DEF All, IInv, TypeOK
  <2>3. pc \in CheckPCs \/ pc \in OperationPCs \/ pc \in UndoPCs
    BY <1>0, <2>2 DEF PCs
  <2> QED
    BY <1>0, <2>1, <2>3, FailMoves
<1>5. CASE Call \/ Environment
  BY <1>0, <1>5 DEF Call, Environment, KernelTunes, KdamondExits, RogueActs
<1> QED
  BY <1>1, <1>2, <1>3, <1>4, <1>5 DEF Next

\* Undisturbed, a pause happens as a whole or not at all: success means that the
\* context runs paused and the session owns exactly that; after an error file,
\* running state and ownership are as before.  One failing access does not make the
\* rollback fail (set_context_paused, rollback_context_paused).
THEOREM PauseIsAtomic == Spec => PauseAtomic
<1>1. ASSUME All, Undisturbed, Next, Returns
      PROVE  faults' <= 1 => result' # "rollback_failed"
  <2>1. ASSUME pc \in UndoPCs PROVE faults \in Nat /\ faults > 0
    BY <1>1, <2>1 DEF All, Budgets, CallInv, UndoPCs
  <2> QED
    BY <1>1, <2>1, Returned
<1>2. ASSUME All, Undisturbed, Next, Returns,
             txn.began.active[txn.path] = txn.began.leaf[txn.path], NEW l \in Leaves \ Tuned
      PROVE  IF result' = "ok" /\ l = txn.path
             THEN leaf'[l] = txn.paused /\ active'[l] = txn.paused /\ staged'[l] = txn.paused
             ELSE result' # "rollback_failed" =>
                    /\ leaf'[l] = txn.began.leaf[l] /\ active'[l] = txn.began.active[l]
                    /\ staged'[l] = staged[l]
  <2>0. pc # "idle" /\ UNCHANGED <<leaf, active>> /\ staged \in Contents /\ txn.path \in Leaves \ Tuned
    BY <1>2, Returned, Locally DEF Returns, All, IInv, TypeOK
  <2>1. l # txn.path => Own(l)
    BY <1>2, <2>0 DEF All, CallInv
  <2>2. CASE pc \in CheckPCs /\ result' = "rejected" /\ UNCHANGED staged
    <3>1. Own(l)
      BY <1>2, <2>0, <2>1, <2>2 DEF All, CallInv
    <3> QED
      BY <2>0, <2>2, <3>1 DEF Own, Began
  <2>3. CASE /\ pc = "verify_again" /\ result' = "ok" /\ UNCHANGED staged
             /\ MatchesExcept(staged, Tuned)
    <3>1. Own(txn.path) /\ txn.previous = Began.leaf[txn.path] /\ txn.previous # Absent
          /\ txn.previous = txn.paused
      BY <1>2, <2>0, <2>3 DEF All, CallInv, CheckPCs
    <3>2. staged[txn.path] = leaf[txn.path]
      BY <1>2, <2>0, <2>3, <3>1, Undisturbedly DEF MatchesExcept, Own
    <3> QED
      BY <1>2, <2>0, <2>1, <2>3, <3>1, <3>2 DEF Own, Began
  <2>4. CASE pc = "final_identity" /\ result' = "ok" /\ staged' = txn.refreshed
    <3>1. txn.refreshed = [staged EXCEPT ![txn.path] = txn.paused]
          /\ leaf[txn.path] = txn.paused /\ active[txn.path] = txn.paused
      BY <1>2, <2>0, <2>4 DEF All, CallInv, OperationPCs
    <3>2. \A m \in Leaves : staged'[m] = IF m = txn.path THEN txn.paused ELSE staged[m]
      BY <2>0, <2>4, <3>1 DEF Contents
    <3> QED
      BY <2>0, <2>1, <2>4, <3>1, <3>2 DEF Own, Began
  <2>5. CASE pc = "undone_identity" /\ result' = "failed" /\ staged' = txn.refreshed
    <3>1. /\ txn.refreshed = [staged EXCEPT ![txn.path] = txn.previous]
          /\ leaf[txn.path] = txn.previous /\ active[txn.path] = txn.previous
          /\ pc \in OperationPCs \cup UndoPCs
      BY <1>2, <2>0, <2>5 DEF All, CallInv, UndoPCs
    <3>2. \A m \in Leaves : staged'[m] = IF m = txn.path THEN txn.previous ELSE staged[m]
      BY <2>0, <2>5, <3>1 DEF Contents
    <3>3. txn.previous = Began.leaf[txn.path] /\ staged[txn.path] = txn.previous
      BY <1>2, <2>0, <3>1, AfterWrite
    <3> QED
      BY <1>2, <2>0, <2>1, <2>5, <3>1, <3>2, <3>3 DEF Own, Began
  <2>6. CASE result' = "rollback_failed"
    BY <2>6
  <2> QED
    BY <1>2, <2>2, <2>3, <2>4, <2>5, <2>6, Returned
<1>3. All /\ [Next]_vars =>
        [Returns /\ Undisturbed =>
            /\ faults' <= 1 => result' # "rollback_failed"
            /\ txn.began.active[txn.path] = txn.began.leaf[txn.path] =>
                \A l \in Leaves \ Tuned :
                    IF result' = "ok" /\ l = txn.path
                    THEN leaf'[l] = txn.paused /\ active'[l] = txn.paused
                         /\ staged'[l] = txn.paused
                    ELSE result' # "rollback_failed" =>
                        /\ leaf'[l] = txn.began.leaf[l]
                        /\ active'[l] = txn.began.active[l]
                        /\ staged'[l] = staged[l]]_vars
  BY <1>1, <1>2
<1> QED
  BY <1>3, AloneInvariance, PTL DEF Spec, PauseAtomic
=============================================================================
