----------------------- MODULE ManagedHierarchyProofs -----------------------
(***************************************************************************)
(* Theorems of ManagedHierarchy for every number of kdamonds, every        *)
(* configuration and every bound: its types; whose threads run (OpInv,     *)
(* LoopInv, PidInv, IdentityInv); what keeps a thread alive past a stop    *)
(* (IsolationInv), what a closing restoration wipes (RestoringInv), and    *)
(* what a failed or closed session leaves when no other controller acts    *)
(* (QuietInv, FaultInv) and no access fails (StagingInv, ClosingInv).      *)
(***************************************************************************)
EXTENDS ManagedHierarchy, TLAPS

-----------------------------------------------------------------------------
(* Types *)

ControlType ==
    /\ pc \in PCs
    /\ idx \in K
    /\ err \in BOOLEAN
    /\ op \in Ops
    /\ result \in Results

\* The loops over the kdamonds start at 0 (start_all) or N - 1 (stop_all), and
\* both are kdamonds.
LEMMA FirstKdamond == 0 \in K /\ N - 1 \in K
  BY NAssumption DEF K

\* An error at any step leads to a typed control state (the early returns of
\* every call).
LEMMA FailType ==
  ASSUME TypeOK, Fail
  PROVE  ControlType'
<1>. USE FirstKdamond DEF TypeOK, ControlType, PCs, OpenPCs, StagePCs,
        RestorePCs, StartPCs, StopOnePCs, ClosePCs, Ops, Results
<1>1. ASSUME CloseFailed PROVE ControlType'
  BY <1>1 DEF CloseFailed, Return
<1>2. ASSUME NEW e \in BOOLEAN, StopReturn(e) PROVE ControlType'
  BY <1>1, <1>2 DEF StopReturn, Return, Goto, Jump
<1>3. ASSUME StartFailed PROVE ControlType'
  BY <1>3 DEF StartFailed, Return, Jump
<1>4. ASSUME NEW e \in BOOLEAN, NextKdamond(e) PROVE ControlType'
  <2>1. CASE idx > 0
    BY <1>4, <2>1, NAssumption DEF NextKdamond, Jump, K
  <2>2. CASE ~(idx > 0)
    BY <1>4, <1>2, <2>2 DEF NextKdamond, Return, Goto, Jump
  <2>. QED BY <2>1, <2>2
<1>. QED
  BY <1>1, <1>2, <1>3, <1>4 DEF Fail, Return, Goto, Jump

\* The helpers of the loops and returns, used outside Fail.
LEMMA HelperType ==
  ASSUME TypeOK
  PROVE  /\ \A e \in BOOLEAN : NextKdamond(e) => ControlType'
         /\ \A e \in BOOLEAN : StopReturn(e) => ControlType'
<1>. USE FirstKdamond DEF TypeOK, ControlType, PCs, OpenPCs, StagePCs,
        RestorePCs, StartPCs, StopOnePCs, ClosePCs, Ops, Results
<1>1. ASSUME NEW e \in BOOLEAN, StopReturn(e) PROVE ControlType'
  BY <1>1 DEF StopReturn, CloseFailed, Return, Goto, Jump
<1>2. ASSUME NEW e \in BOOLEAN, NextKdamond(e) PROVE ControlType'
  <2>1. CASE idx > 0
    BY <1>2, <2>1, NAssumption DEF NextKdamond, Jump, K
  <2>2. CASE ~(idx > 0)
    BY <1>2, <1>1, <2>2 DEF NextKdamond, Return, Goto, Jump
  <2>. QED BY <2>1, <2>2
<1>. QED BY <1>1, <1>2

KernelType ==
    /\ hier \in [K -> Values \cup {Absent}]
    /\ tune \in [K -> {0, 1}]
    /\ thread \in [K -> 0 .. MaxPid]
    /\ nextPid \in 1 .. MaxPid + 1

SessionType ==
    /\ states \in [K -> SessionStates]
    /\ staged \in [K -> Values \cup {Absent}]
    /\ previous \in Snapshots
    /\ owns \in BOOLEAN
    /\ ours \subseteq 1 .. MaxPid

RestType ==
    /\ calls \in 0 .. MaxCalls
    /\ rogue \in 0 .. MaxRogue
    /\ faults \in 0 .. MaxFaults
    /\ exits \in 0 .. MaxExits
    /\ origin \in InitialHierarchies
    /\ touched \subseteq K
    /\ raced \subseteq {"identity", "restore"}

\* A captured ConfigurationSnapshot is typed.
LEMMA SnapshotType ==
  /\ KernelType => Snapshot \in Snapshots
  /\ \A s \in Snapshots : /\ s.hier \in [K -> Values \cup {Absent}]
                          /\ s.tune \in [K -> {0, 1}]
  BY DEF KernelType, Snapshot, Snapshots

\* What start_one and stop_one record is a KdamondSessionState.
LEMMA StateValues ==
  Staged \in SessionStates /\ UnidentifiedRunning \in SessionStates /\ 0 .. MaxPid \subseteq SessionStates
  BY MaxPidAssumption DEF Staged, UnidentifiedRunning, SessionStates

\* The type invariant in its four parts.
LEMMA TypeSplit == TypeOK <=> ControlType /\ KernelType /\ SessionType /\ RestType
  BY DEF TypeOK, ControlType, KernelType, SessionType, RestType

\* The same of the next state.
LEMMA TypeSplitNext == TypeOK' <=> ControlType' /\ KernelType' /\ SessionType' /\ RestType'
  BY DEF TypeOK, ControlType, KernelType, SessionType, RestType

\* What the kernel operations leave behind is typed.
LEMMA KernelOps ==
  ASSUME KernelType
  PROVE  /\ \A dirs : SetCount(dirs) => KernelType'
         /\ \A i \in K, v \in Values \cup {Absent}, t \in {0, 1} :
                WriteDirectory(i, v, t) => KernelType'
         /\ \A i \in K : CommandOn(i) => KernelType'
         /\ \A i \in K : CommandOff(i) => KernelType'
         /\ \A i \in K : TuneIntervals(i) => KernelType'
         /\ UNCHANGED kernelVars => KernelType'
<1>. USE DEF KernelType
<1>1. ASSUME NEW dirs, SetCount(dirs) PROVE KernelType'
  BY <1>1, ValuesAssumption DEF SetCount, Rebuilt, Untuned
<1>2. ASSUME NEW i \in K, NEW v \in Values \cup {Absent}, NEW t \in {0, 1},
             WriteDirectory(i, v, t)
      PROVE  KernelType'
  BY <1>2 DEF WriteDirectory
<1>3. ASSUME NEW i \in K, CommandOn(i) PROVE KernelType'
  BY <1>3, MaxPidAssumption DEF CommandOn, CanStart
<1>4. ASSUME NEW i \in K, CommandOff(i) PROVE KernelType'
  BY <1>4, MaxPidAssumption DEF CommandOff
<1>5. ASSUME NEW i \in K, TuneIntervals(i) PROVE KernelType'
  BY <1>5 DEF TuneIntervals
<1>6. ASSUME UNCHANGED kernelVars PROVE KernelType'
  BY <1>6 DEF kernelVars
<1>. QED BY <1>1, <1>2, <1>3, <1>4, <1>5, <1>6

\* Steps that leave a part of the state alone keep its type.
LEMMA UnchangedTypes ==
  /\ SessionType /\ UNCHANGED <<sessionVars, ours>> => SessionType'
  /\ RestType /\ Rest => RestType'
  /\ TypeOK /\ UNCHANGED <<kernelVars, sessionVars, calls, rogue, faults, exits, historyVars>>
       => KernelType' /\ SessionType' /\ RestType'
BY DEF TypeOK, KernelType, SessionType, RestType, Rest, sessionVars, kernelVars, historyVars

\* The read-only steps (verify, verify_count, ensure_hierarchy_stopped and the
\* like) keep every type.
LEMMA TypeChecks ==
  ASSUME TypeOK,
         \/ EnsureStopped \/ OpenVerify \/ StageVerify \/ RestoreCheck
         \/ StartVerify \/ StartOff \/ StartCheck \/ StartIdentity \/ StartConfig
         \/ StartFinal \/ RollbackCount \/ RollbackConfig
         \/ StopBegin \/ StopCount \/ StopConfig \/ StopFinal \/ StopOnePid
         \/ CloseVerify
  PROVE  TypeOK'
<1>1. ControlType'
  <2>. USE FailType, HelperType, FirstKdamond DEF Check, Goto, Jump
  <2>. USE DEF TypeOK, ControlType, PCs, OpenPCs, StagePCs, RestorePCs, StartPCs,
               StopOnePCs, ClosePCs, Ops, Results
  <2>1. CASE EnsureStopped BY <2>1 DEF EnsureStopped
  <2>2. CASE OpenVerify \/ StageVerify \/ RestoreCheck
    BY <2>2 DEF OpenVerify, StageVerify, RestoreCheck
  <2>3. CASE StartVerify \/ StartOff \/ StartCheck \/ StartIdentity \/ StartConfig
             \/ StartFinal
    BY <2>3 DEF StartVerify, StartOff, StartCheck, StartIdentity, StartConfig,
                StartFinal, Return
  <2>4. CASE RollbackCount \/ RollbackConfig
    BY <2>4 DEF RollbackCount, RollbackConfig
  <2>5. CASE StopBegin \/ StopCount \/ StopConfig \/ StopFinal \/ StopOnePid
    BY <2>5 DEF StopBegin, StopCount, StopConfig, StopFinal, StopOnePid
  <2>6. CASE CloseVerify BY <2>6 DEF CloseVerify
  <2>. QED BY <2>1, <2>2, <2>3, <2>4, <2>5, <2>6
<1>2. UNCHANGED <<kernelVars, sessionVars, calls, rogue, faults, exits, historyVars>>
  BY DEF Check, EnsureStopped, OpenVerify, StageVerify, RestoreCheck, StartVerify,
         StartOff, StartCheck, StartIdentity, StartConfig, StartFinal, RollbackCount,
         RollbackConfig, StopBegin, StopCount, StopConfig, StopFinal, StopOnePid,
         CloseVerify
<1>. QED BY <1>1, <1>2, UnchangedTypes, TypeSplitNext

\* The steps of the session that write sysfs or record something (staging,
\* restoration, start_one, stop_one, new) keep every type.
LEMMA TypeWrites ==
  ASSUME TypeOK,
         \/ Open \/ OpenCapture \/ OpenStopped \/ OpenNew
         \/ StageCount \/ StageWrite \/ StageCapture
         \/ RestoreCount \/ RestoreShape \/ RestoreWrite \/ RestoreMatch
         \/ StartOn \/ StartPid
         \/ StopOneState \/ StopOneOff \/ StopOneBack \/ CloseMatch
  PROVE  TypeOK'
<1>0. KernelType /\ SessionType /\ RestType /\ ControlType
  BY TypeSplit
<1>1. RestType'
  BY <1>0, UnchangedTypes
  DEF Open, OpenCapture, OpenStopped, OpenNew, StageCount, StageWrite, StageCapture,
      RestoreCount, RestoreShape, RestoreWrite, RestoreMatch, StartOn, StartPid,
      StopOneState, StopOneOff, StopOneBack, CloseMatch
<1>2. ControlType'
  <2>. USE FailType, HelperType, FirstKdamond DEF Goto, Jump, Return
  <2>. USE DEF TypeOK, ControlType, PCs, OpenPCs, StagePCs, RestorePCs, StartPCs,
               StopOnePCs, ClosePCs, Ops, Results
  <2>1. CASE Open \/ OpenCapture \/ OpenStopped \/ OpenNew
    BY <2>1 DEF Open, OpenCapture, OpenStopped, OpenNew
  <2>2. CASE StageCount \/ StageWrite \/ StageCapture
    BY <2>2 DEF StageCount, StageWrite, StageNext, StageCapture
  <2>3. CASE RestoreCount \/ RestoreShape \/ RestoreWrite \/ RestoreMatch \/ CloseMatch
    <3>1. ASSUME NEW j, RestoreShapes(j) \/ RestoreValues(j) PROVE ControlType'
      BY <3>1 DEF RestoreShapes, RestoreValues, Present
    <3>. QED
      BY <2>3, <3>1 DEF RestoreCount, RestoreShape, RestoreWrite, RestoreMatch, RestoreDone, CloseMatch
  <2>4. CASE StartOn \/ StartPid
    BY <2>4 DEF StartOn, StartPid
  <2>5. CASE StopOneState \/ StopOneOff \/ StopOneBack
    BY <2>5 DEF StopOneState, StopOneOff, StopOneBack
  <2>. QED BY <2>1, <2>2, <2>3, <2>4, <2>5
<1>3. KernelType'
  <2>1. idx \in K BY <1>0 DEF ControlType
  <2>2. CASE StageWrite
    <3>1. ASSUME NEW v \in StageOutcome(idx) PROVE v \in Values \cup {Absent}
      BY <1>0, <2>1, TargetAssumption, ValuesAssumption DEF StageOutcome, KernelType
    <3>2. ASSUME NEW t \in StageTune(idx) PROVE t \in {0, 1}
      BY <1>0, <2>1 DEF StageTune, KernelType
    <3>. QED BY <2>1, <2>2, <3>1, <3>2, <1>0, KernelOps DEF StageWrite
  <2>3. CASE RestoreShape \/ RestoreWrite
    <3>1. /\ previous.hier[idx] \in Values \cup {Absent} /\ previous.tune[idx] \in {0, 1}
          /\ tune[idx] \in {0, 1}
      BY <1>0, <2>1, SnapshotType DEF SessionType, KernelType
    <3>2. RestoreOutcome(idx) \subseteq Values \cup {Absent} /\ Mixed \in Values \cup {Absent}
      BY <3>1, ValuesAssumption DEF RestoreOutcome
    <3>. QED BY <2>1, <2>3, <3>1, <3>2, <1>0, KernelOps DEF RestoreShape, RestoreWrite
  <2>4. CASE ~StageWrite /\ ~RestoreShape /\ ~RestoreWrite
    BY <1>0, <2>1, <2>4, KernelOps
    DEF Open, OpenCapture, OpenStopped, OpenNew, StageCount, StageCapture,
        RestoreCount, RestoreMatch, StartOn, StartPid,
        StopOneState, StopOneOff, StopOneBack, CloseMatch
  <2>. QED BY <2>2, <2>3, <2>4
<1>4. SessionType'
  <2>0. idx \in K BY <1>0 DEF ControlType
  <2>1. CASE Open \/ StageCount \/ StageWrite \/ RestoreCount \/ RestoreShape
             \/ RestoreWrite \/ StopOneOff
    BY <2>1, <1>0, UnchangedTypes
    DEF Open, StageCount, StageWrite, RestoreCount, RestoreShape, RestoreWrite, StopOneOff
  <2>2. CASE OpenCapture \/ OpenStopped \/ StageCapture
    <3>1. CASE OpenCapture
      BY <3>1, <1>0, SnapshotType DEF OpenCapture, SessionType
    <3>2. CASE OpenStopped
      BY <3>2, <1>0, SnapshotType DEF OpenStopped, SessionType
    <3>3. CASE StageCapture
      BY <3>3, <1>0 DEF StageCapture, SessionType, KernelType
    <3>. QED BY <2>2, <3>1, <3>2, <3>3
  <2>3. CASE OpenNew
    BY <2>3, <1>0, StateValues DEF OpenNew, NoThread, Staged, SessionType
  <2>4. CASE RestoreMatch \/ CloseMatch
    BY <2>4, <1>0 DEF RestoreMatch, RestoreDone, CloseMatch, SessionType
  <2>5. CASE StartOn
    <3>1. nextPid \in 1 .. MaxPid + 1 BY <1>0 DEF KernelType
    <3>2. CASE UNCHANGED <<states, ours>>
      BY <2>5, <3>2, <1>0 DEF StartOn, SessionType
    <3>3. CASE /\ CanStart(idx)
               /\ states' = [states EXCEPT ![idx] = UnidentifiedRunning]
               /\ ours' = ours \cup {nextPid}
      <4>1. states' \in [K -> SessionStates]
        BY <3>3, <1>0, StateValues DEF SessionType
      <4>2. ours' \subseteq 1 .. MaxPid
        BY <3>1, <3>3, <1>0, MaxPidAssumption DEF SessionType, CanStart
      <4>. QED BY <4>1, <4>2, <2>5, <1>0 DEF StartOn, SessionType
    <3>. QED BY <2>5, <3>2, <3>3 DEF StartOn, CommandOn
  <2>6. CASE StartPid
    <3>1. thread[idx] \in SessionStates BY <2>0, <1>0, StateValues DEF KernelType
    <3>. QED BY <2>6, <3>1, <1>0 DEF StartPid, SessionType
  <2>7. CASE StopOneState \/ StopOneBack
    BY <2>0, <2>7, <1>0, StateValues
    DEF StopOneState, StopOneBack, SessionType
  <2>. QED BY <2>1, <2>2, <2>3, <2>4, <2>5, <2>6, <2>7
<1>. QED BY <1>1, <1>2, <1>3, <1>4, TypeSplitNext

\* The user's calls (managed_hierarchy, start_all, stop_all, close, drop) keep
\* every type.
LEMMA TypeCalls ==
  ASSUME TypeOK, UserCall
  PROVE  TypeOK'
<1>1. ControlType'
  BY FirstKdamond DEF UserCall, StartAll, StopAll, Close, Drop, Call, Return,
     TypeOK, ControlType, PCs, Ops, Results
<1>2. KernelType' /\ SessionType'
  BY DEF UserCall, StartAll, StopAll, Close, Drop, Call, TypeOK, KernelType,
     SessionType, kernelVars, sessionVars, historyVars
<1>3. RestType'
  <2>1. calls' \in 0 .. MaxCalls
    BY BoundsAssumption DEF UserCall, StartAll, StopAll, Close, Drop, TypeOK
  <2>. QED
    BY <2>1 DEF UserCall, StartAll, StopAll, Close, Drop, Call, TypeOK, RestType, historyVars
<1>. QED BY <1>1, <1>2, <1>3, TypeSplitNext

\* Failing accesses, exits, interval tuning and another controller keep every
\* type.
LEMMA TypeEnvironment ==
  ASSUME TypeOK, Environment
  PROVE  TypeOK'
<1>. USE BoundsAssumption
<1>0. KernelType /\ SessionType /\ RestType /\ ControlType
  BY TypeSplit
<1>1. CASE IoError \/ TransientBusy
  <2>1. ControlType'
    BY <1>1, FailType, FirstKdamond
    DEF IoError, TransientBusy, Goto, Jump, TypeOK, ControlType, PCs, StagePCs, RestorePCs
  <2>2. KernelType' /\ SessionType' /\ RestType'
    <3>1. faults' \in 0 .. MaxFaults
      BY <1>0, <1>1 DEF IoError, TransientBusy, RestType
    <3>. QED
      BY <1>1, <1>0, <3>1 DEF IoError, TransientBusy, KernelType, SessionType, RestType,
         kernelVars, sessionVars, historyVars
  <2>. QED BY <2>1, <2>2, TypeSplitNext
<1>2. CASE TornWrite
  <2>1. ControlType'
    BY <1>2, FailType, FirstKdamond
    DEF TornWrite, StageNext, Goto, Jump, TypeOK, ControlType, PCs, StagePCs
  <2>2. KernelType'
    <3>1. idx \in K /\ tune[idx] \in {0, 1} /\ Mixed \in Values \cup {Absent}
      BY <1>0, ValuesAssumption DEF ControlType, KernelType
    <3>. QED BY <1>2, <1>0, <3>1, KernelOps DEF TornWrite
  <2>3. SessionType' /\ RestType'
    BY <1>2, <1>0 DEF TornWrite, SessionType, RestType, sessionVars, historyVars
  <2>. QED BY <2>1, <2>2, <2>3, TypeSplitNext
<1>3. ASSUME NEW i \in K, KdamondExits(i) \/ KernelTunes(i)
      PROVE  TypeOK'
  <2>1. KernelType'
    BY <1>3, <1>0, KernelOps DEF KdamondExits, ThreadExit, KernelTunes
  <2>2. ControlType' /\ SessionType' /\ RestType'
    <3>1. exits' \in 0 .. MaxExits
      BY <1>0, <1>3 DEF KdamondExits, KernelTunes, RestType
    <3>. QED
      BY <1>3, <1>0, <3>1 DEF KdamondExits, KernelTunes, ControlType, SessionType, RestType,
         controlVars, sessionVars, historyVars
  <2>. QED BY <2>1, <2>2, TypeSplitNext
<1>4. ASSUME NEW dirs \in SUBSET K, NEW w \in SUBSET {"identity", "restore"},
             RogueActs(dirs, w)
      PROVE  ControlType' /\ SessionType' /\ RestType'
  BY <1>4, <1>0 DEF RogueActs, ControlType, SessionType, RestType, controlVars,
     sessionVars
<1>5. ASSUME NEW i \in K, RogueStarts(i) \/ RogueStops(i) \/ RogueWrites(i)
      PROVE  TypeOK'
  <2>1. KernelType'
    <3>1. tune[i] \in {0, 1} BY <1>0 DEF KernelType
    <3>. QED BY <1>5, <1>0, <3>1, KernelOps, RogueAssumption
         DEF RogueStarts, RogueStops, RogueWrites
  <2>2. \E dirs \in SUBSET K, w \in SUBSET {"identity", "restore"} : RogueActs(dirs, w)
    BY <1>5 DEF RogueStarts, RogueStops, RogueWrites
  <2>. QED BY <2>1, <2>2, <1>4, TypeSplitNext
<1>6. ASSUME NEW n \in 0 .. N, RogueResizes(n)
      PROVE  TypeOK'
  <2>1. KernelType' BY <1>6, <1>0, KernelOps DEF RogueResizes
  <2>2. \E dirs \in SUBSET K, w \in SUBSET {"identity", "restore"} : RogueActs(dirs, w)
    BY <1>6 DEF RogueResizes
  <2>. QED BY <2>1, <2>2, <1>4, TypeSplitNext
<1>. QED BY <1>1, <1>2, <1>3, <1>5, <1>6 DEF Environment

\* The session starts typed.
LEMMA TypeInit == Init => TypeOK
<1>. SUFFICES ASSUME Init PROVE TypeOK
  OBVIOUS
<1>1. KernelType
  BY InitialAssumption, MaxPidAssumption DEF Init, KernelType, Hierarchy, Untuned, NoThread
<1>2. SessionType
  BY <1>1, SnapshotType, StateValues DEF Init, SessionType, KernelType, NoThread, Staged
<1>3. ControlType
  BY FirstKdamond DEF Init, ControlType, PCs, Ops, Results
<1>4. RestType
  BY BoundsAssumption DEF Init, RestType
<1>. QED BY <1>1, <1>2, <1>3, <1>4, TypeSplit

\* Every step keeps the types.
LEMMA TypeNext == TypeOK /\ [Next]_vars => TypeOK'
<1>1. ASSUME TypeOK, Proceed PROVE TypeOK'
  BY <1>1, TypeChecks, TypeWrites
  DEF Proceed, OpenStep, StageStep, RestoreStep, StartStep, StopStep, CloseStep
<1>2. ASSUME TypeOK, UNCHANGED vars PROVE TypeOK'
  BY <1>2 DEF TypeOK, vars, kernelVars, sessionVars, controlVars, historyVars
<1>. QED BY <1>1, <1>2, TypeCalls, TypeEnvironment DEF Next, Ended

\* Every variable of the session and of the kernel interface keeps its type.
THEOREM TypeCorrect == Spec => []TypeOK
  BY TypeInit, TypeNext, PTL DEF Spec

-----------------------------------------------------------------------------
(* Whose threads run: which call every step belongs to, how far the stop and   *)
(* rollback loops have got, and that pids are never reused                     *)

LoopPCs == {"rollback_config", "stop_count", "stop_config"} \cup StopOnePCs
StopPCs == {"stop_begin", "stop_count", "stop_config", "stop_final"}
StartOps == StartPCs \cup {"start_verify", "start_off", "rollback_count", "rollback_config"}

\* Every step belongs to one of the calls that contain it, and calls other
\* than managed_hierarchy are made on a hierarchy the session owns.  No thread
\* is the session's before managed_hierarchy returned.
OpInv ==
    /\ pc \in OpenPCs \cup StagePCs => op = "open"
    /\ pc \in StartOps => op = "start"
    /\ pc \in StopPCs => op \in {"stop", "close", "drop"}
    /\ pc \in ClosePCs => op \in {"close", "drop"}
    /\ pc \in RestorePCs => op \in {"open", "close", "drop"}
    /\ pc \in StopOnePCs => op \in {"start", "stop", "close", "drop"}
    /\ pc \in {"none", "idle", "ended"} => op = "none"
    /\ pc = "idle" => owns
    /\ op \in {"start", "stop", "close", "drop"} => owns
    /\ result = "start_failed" => pc = "idle"
    /\ pc = "none" \/ op = "open" => ours = {}

\* The control helpers stay within the call in progress (with_rollback, the
\* returns of stop_all and close_inner).
LEMMA OpHelpers ==
  ASSUME TypeOK, OpInv, UNCHANGED <<owns, ours>>
  PROVE  /\ Fail => OpInv'
         /\ \A e \in BOOLEAN : pc \in LoopPCs /\ NextKdamond(e) => OpInv'
         /\ pc = "stop_final" /\ StopReturn(FALSE) => OpInv'
<1>. USE DEF TypeOK, OpInv, OpenPCs, StagePCs, RestorePCs, StartPCs, StopOnePCs, ClosePCs,
        LoopPCs, StopPCs, StartOps
<1>1. ASSUME CloseFailed, op \in {"close", "drop"} PROVE OpInv'
  BY <1>1 DEF CloseFailed, Return
<1>2. ASSUME NEW e \in BOOLEAN, StopReturn(e), op \in {"stop", "close", "drop"},
             e \/ pc = "stop_final"
      PROVE  OpInv'
  <2>1. CASE op = "stop" BY <1>2, <2>1 DEF StopReturn, Return
  <2>2. CASE op # "stop" /\ e BY <1>1, <1>2, <2>2 DEF StopReturn
  <2>3. CASE op # "stop" /\ ~e BY <1>2, <2>3 DEF StopReturn, Goto, Jump
  <2>. QED BY <2>1, <2>2, <2>3
<1>3. ASSUME StartFailed, op = "start" PROVE OpInv'
  BY <1>3 DEF StartFailed, Return, Jump
<1>4. ASSUME NEW e \in BOOLEAN, NextKdamond(e), pc \in LoopPCs PROVE OpInv'
  <2>1. CASE op = "start" BY <1>4, <2>1 DEF NextKdamond, Jump, Return
  <2>2. CASE op # "start" /\ (idx > 0 \/ ~e)
    BY <1>4, <2>2 DEF NextKdamond, Goto, Jump
  <2>3. CASE op # "start" /\ ~(idx > 0) /\ e
    BY <1>2, <1>4, <2>3 DEF NextKdamond
  <2>. QED BY <2>1, <2>2, <2>3
<1>5. ASSUME Fail PROVE OpInv'
  <2>1. CASE pc \in OpenPCs \cup StagePCs BY <1>5, <2>1 DEF Fail, Return, Goto, Jump
  <2>2. CASE pc \in RestorePCs \cup ClosePCs BY <1>1, <1>5, <2>2 DEF Fail, Return
  <2>3. CASE pc \in StartOps
    BY <1>3, <1>4, <1>5, <2>3 DEF Fail, Return
  <2>4. CASE pc \in StopPCs \cup StopOnePCs
    BY <1>2, <1>4, <1>5, <2>4 DEF Fail
  <2>. QED BY <1>5, <2>1, <2>2, <2>3, <2>4 DEF Fail
<1>. QED BY <1>2, <1>4, <1>5

\* Environment steps other than a failing or repeated access leave the
\* session's control alone.
LEMMA EnvironmentSplit ==
  Environment => \/ Fail /\ UNCHANGED <<sessionVars, ours, thread, nextPid, raced>>
                 \/ pc = "stage_write" /\ StageNext
                    /\ UNCHANGED <<sessionVars, ours, thread, nextPid, raced>>
                 \/ TransientBusy /\ UNCHANGED <<sessionVars, ours, thread, nextPid, raced>>
                 \/ UNCHANGED <<sessionVars, controlVars, ours>>
  BY DEF Environment, IoError, TornWrite, TransientBusy, KdamondExits, KernelTunes,
     RogueStarts, RogueStops, RogueWrites, RogueResizes, RogueActs, WriteDirectory,
     historyVars, kernelVars

\* The read-only steps stay within the call in progress.
LEMMA OpChecks ==
  ASSUME TypeOK, OpInv,
         \/ EnsureStopped \/ OpenVerify \/ StageVerify \/ RestoreCheck
         \/ StartVerify \/ StartOff \/ StartCheck \/ StartIdentity \/ StartConfig
         \/ StartFinal \/ RollbackCount \/ RollbackConfig
         \/ StopBegin \/ StopCount \/ StopConfig \/ StopFinal \/ StopOnePid
         \/ CloseVerify
  PROVE  OpInv'
<1>1. UNCHANGED <<owns, ours>>
  BY DEF Check, EnsureStopped, OpenVerify, StageVerify, RestoreCheck, StartVerify,
         StartOff, StartCheck, StartIdentity, StartConfig, StartFinal, RollbackCount,
         RollbackConfig, StopBegin, StopCount, StopConfig, StopFinal, StopOnePid,
         CloseVerify, sessionVars, historyVars
<1>. USE <1>1, OpHelpers DEF Check, Goto, Jump, TypeOK, OpInv, OpenPCs, StagePCs,
         RestorePCs, StartPCs, StopOnePCs, ClosePCs, LoopPCs, StopPCs, StartOps
<1>2. CASE EnsureStopped BY <1>2 DEF EnsureStopped
<1>3. CASE OpenVerify \/ StageVerify \/ RestoreCheck \/ CloseVerify
  BY <1>3 DEF OpenVerify, StageVerify, RestoreCheck, CloseVerify
<1>4. CASE StartVerify \/ StartOff \/ StartCheck \/ StartIdentity \/ StartConfig \/ StartFinal
  BY <1>4 DEF StartVerify, StartOff, StartCheck, StartIdentity, StartConfig, StartFinal, Return
<1>5. CASE RollbackCount \/ RollbackConfig
  BY <1>5 DEF RollbackCount, RollbackConfig
<1>6. CASE StopBegin \/ StopCount \/ StopConfig \/ StopFinal \/ StopOnePid
  BY <1>6 DEF StopBegin, StopCount, StopConfig, StopFinal, StopOnePid
<1>. QED BY <1>2, <1>3, <1>4, <1>5, <1>6

\* The writing steps stay within the call in progress.
LEMMA OpWrites ==
  ASSUME TypeOK, OpInv,
         \/ Open \/ OpenCapture \/ OpenStopped \/ OpenNew
         \/ StageCount \/ StageWrite \/ StageCapture
         \/ RestoreCount \/ RestoreShape \/ RestoreWrite \/ RestoreMatch
         \/ StartOn \/ StartPid
         \/ StopOneState \/ StopOneOff \/ StopOneBack \/ CloseMatch
  PROVE  OpInv'
<1>. USE OpHelpers DEF Goto, Jump, TypeOK, OpInv, OpenPCs, StagePCs,
         RestorePCs, StartPCs, StopOnePCs, ClosePCs, LoopPCs, StopPCs, StartOps, sessionVars
<1>1. CASE Open \/ OpenCapture \/ OpenStopped
  BY <1>1 DEF Open, OpenCapture, OpenStopped
<1>2. CASE OpenNew BY <1>2 DEF OpenNew, Return
<1>3. CASE StageCount \/ StageWrite \/ StageCapture
  BY <1>3 DEF StageCount, StageWrite, StageNext, StageCapture
<1>4. CASE RestoreCount \/ RestoreShape \/ RestoreWrite
  BY <1>4 DEF RestoreCount, RestoreShape, RestoreWrite, RestoreShapes, RestoreValues
<1>5. CASE RestoreMatch \/ CloseMatch
  BY <1>5 DEF RestoreMatch, CloseMatch, RestoreDone, Return
<1>6. CASE StartOn \/ StartPid BY <1>6 DEF StartOn, StartPid
<1>7. CASE StopOneState \/ StopOneOff \/ StopOneBack
  BY <1>7 DEF StopOneState, StopOneOff, StopOneBack
<1>. QED BY <1>1, <1>2, <1>3, <1>4, <1>5, <1>6, <1>7

\* Every step stays within the call in progress: start_all never runs steps of
\* managed_hierarchy or of close_inner, and only a session that owns the
\* hierarchy runs start_all, stop_all, close and Drop.
LEMMA OpNext == TypeOK /\ OpInv /\ [Next]_vars => OpInv'
<1>. SUFFICES ASSUME TypeOK, OpInv, [Next]_vars PROVE OpInv'
  OBVIOUS
<1>1. CASE Proceed
  BY <1>1, OpChecks, OpWrites
  DEF Proceed, OpenStep, StageStep, RestoreStep, StartStep, StopStep, CloseStep
<1>2. CASE UserCall
  BY <1>2 DEF UserCall, StartAll, StopAll, Close, Drop, Call, Return, sessionVars, historyVars,
     OpInv, OpenPCs, StagePCs, RestorePCs, StartPCs, StopOnePCs, ClosePCs, StopPCs, StartOps
<1>3. CASE Environment
  <2>1. CASE Fail /\ UNCHANGED <<sessionVars, ours>>
    BY <2>1, OpHelpers DEF sessionVars
  <2>2. CASE pc = "stage_write" /\ StageNext /\ UNCHANGED <<sessionVars, ours>>
    BY <2>2 DEF StageNext, Goto, Jump, sessionVars, OpInv, OpenPCs, StagePCs, RestorePCs,
       StartPCs, StopOnePCs, ClosePCs, StopPCs, StartOps
  <2>3. CASE TransientBusy /\ UNCHANGED <<sessionVars, ours>>
    BY <2>3 DEF TransientBusy, Goto, Jump, sessionVars, OpInv, OpenPCs, StagePCs,
       RestorePCs, StartPCs, StopOnePCs, ClosePCs, StopPCs, StartOps
  <2>4. CASE UNCHANGED <<sessionVars, controlVars, ours>>
    BY <2>4 DEF sessionVars, controlVars, OpInv
  <2>. QED BY <1>3, <2>1, <2>2, <2>3, <2>4, EnvironmentSplit
<1>4. CASE UNCHANGED vars
  BY <1>4 DEF vars, sessionVars, controlVars, historyVars, OpInv
<1>. QED BY <1>1, <1>2, <1>3, <1>4 DEF Next, Ended

\* Before managed_hierarchy no call is in progress.
LEMMA OpInit == Init => OpInv
  BY DEF Init, OpInv, OpenPCs, StagePCs, RestorePCs, StartPCs, StopOnePCs, ClosePCs,
     StopPCs, StartOps

-----------------------------------------------------------------------------
\* Pids are handed out once.
PidInv ==
    /\ \A i \in K : thread[i] < nextPid
    /\ \A p \in ours : 0 < p /\ p < nextPid

\* The steps of the session that do not touch kernel threads, pids or states.
LEMMA PidFrame ==
  ASSUME TypeOK, OpInv, Proceed
  PROVE  \/ StartOn \/ StartPid \/ StopOneState \/ StopOneBack \/ StopOneOff \/ OpenNew
         \/ UNCHANGED <<thread, nextPid, ours, states>>
<1>. USE DEF sessionVars, kernelVars, historyVars
<1>1. CASE EnsureStopped
  BY <1>1 DEF EnsureStopped, Check
<1>2. CASE OpenStep
  BY <1>2 DEF OpenStep, Open, OpenCapture, OpenVerify, OpenStopped, Check
<1>3. CASE StageStep
  BY <1>3 DEF StageStep, StageCount, StageWrite, StageCapture, StageVerify, Check,
     SetCount, WriteDirectory
<1>4. CASE RestoreStep
  BY <1>4 DEF RestoreStep, RestoreCount, RestoreShape, RestoreWrite, RestoreCheck, RestoreMatch, Check,
     SetCount, WriteDirectory
<1>5. CASE StartStep
  BY <1>5 DEF StartStep, StartVerify, StartOff, StartCheck, StartIdentity, StartConfig,
     StartFinal, RollbackCount, RollbackConfig, Check
<1>6. CASE StopStep
  BY <1>6 DEF StopStep, StopBegin, StopCount, StopConfig, StopFinal, StopOnePid, Check
<1>7. CASE CloseStep
  BY <1>7 DEF CloseStep, CloseVerify, CloseMatch, Check
<1>. QED BY <1>1, <1>2, <1>3, <1>4, <1>5, <1>6, <1>7 DEF Proceed

\* Only start_on adds to the session's threads; the others start and stop
\* threads that are not.
LEMMA PidMoves ==
  ASSUME TypeOK, OpInv, PidInv, [Next]_vars
  PROVE  \/ StartOn /\ CommandOn(idx) /\ ours' = ours \cup {nextPid}
            /\ states' = [states EXCEPT ![idx] = UnidentifiedRunning]
         \/ /\ ours' = ours
            /\ states' = states
            /\ \/ UNCHANGED <<thread, nextPid>>
               \/ \E i \in K : thread' = [thread EXCEPT ![i] = 0] /\ nextPid' = nextPid
               \/ \E i \in K : RogueStarts(i)
         \/ /\ UNCHANGED <<thread, nextPid, ours>>
            /\ \/ StartPid /\ On(idx) /\ states' = [states EXCEPT ![idx] = thread[idx]]
               \/ ~On(idx) /\ states' = [states EXCEPT ![idx] = Staged]
               \/ op = "open" /\ states' = NoThread
<1>. USE DEF kernelVars, sessionVars, historyVars
<1>0. idx \in K BY DEF TypeOK
<1>1. CASE Proceed
  <2>1. CASE StartOn
    BY <2>1 DEF StartOn
  <2>2. CASE StartPid
    BY <2>2 DEF StartPid
  <2>3. CASE StopOneState \/ StopOneBack
    BY <2>3 DEF StopOneState, StopOneBack
  <2>4. CASE StopOneOff
    BY <1>0, <2>4 DEF StopOneOff, CommandOff
  <2>5. CASE OpenNew
    BY <2>5 DEF OpenNew, OpInv, StagePCs
  <2>. QED BY <1>1, <2>1, <2>2, <2>3, <2>4, <2>5, PidFrame
<1>2. CASE UserCall
  BY <1>2 DEF UserCall, StartAll, StopAll, Close, Drop, Call
<1>3. CASE Environment
  <2>1. CASE IoError \/ TransientBusy \/ TornWrite
    BY <2>1 DEF IoError, TransientBusy, TornWrite, WriteDirectory
  <2>2. ASSUME NEW i \in K, KdamondExits(i) \/ KernelTunes(i)
        PROVE  \/ UNCHANGED <<thread, nextPid, ours, states>>
               \/ /\ thread' = [thread EXCEPT ![i] = 0]
                  /\ UNCHANGED <<nextPid, ours, states>>
    BY <2>2 DEF KdamondExits, KernelTunes, ThreadExit, CommandOff, TuneIntervals
  <2>3. ASSUME NEW i \in K, RogueStarts(i) \/ RogueStops(i) \/ RogueWrites(i)
        PROVE  /\ UNCHANGED <<ours, states>>
               /\ \/ UNCHANGED <<thread, nextPid>>
                  \/ thread' = [thread EXCEPT ![i] = 0] /\ nextPid' = nextPid
                  \/ RogueStarts(i)
    BY <2>3 DEF RogueStarts, RogueStops, RogueWrites, RogueActs, CommandOff, WriteDirectory
  <2>4. ASSUME NEW n \in 0 .. N, RogueResizes(n)
        PROVE  UNCHANGED <<thread, nextPid, ours, states>>
    BY <2>4 DEF RogueResizes, RogueActs, SetCount
  <2>. QED BY <1>3, <2>1, <2>2, <2>3, <2>4 DEF Environment
<1>4. CASE UNCHANGED vars
  BY <1>4 DEF vars
<1>. QED BY <1>1, <1>2, <1>3, <1>4 DEF Next, Ended

\* At first no thread runs and no pid was handed out.
LEMMA PidInit == Init => PidInv /\ OwnThreadTracked
  BY DEF Init, PidInv, OwnThreadTracked, OwnRunning, NoThread

\* Every step keeps pids unique and the session's running threads recorded
\* (start_one records before it reads the pid, stop_one forgets only what is off).
LEMMA PidNext ==
  ASSUME TypeOK, OpInv, PidInv, OwnThreadTracked, [Next]_vars
  PROVE  PidInv' /\ OwnThreadTracked'
<1>. USE DEF PidInv, OwnThreadTracked, OwnRunning, On
<1>0. /\ idx \in K
      /\ thread \in [K -> 0 .. MaxPid] /\ states \in [K -> SessionStates]
      /\ nextPid \in 1 .. MaxPid + 1 /\ ours \subseteq 1 .. MaxPid
  BY DEF TypeOK
<1>. USE <1>0, MaxPidAssumption
<1>1. CASE /\ CommandOn(idx) /\ ours' = ours \cup {nextPid}
           /\ states' = [states EXCEPT ![idx] = UnidentifiedRunning]
  BY <1>1 DEF CommandOn
<1>2. CASE ours' = ours /\ states' = states
  <2>1. CASE UNCHANGED <<thread, nextPid>> BY <1>2, <2>1
  <2>2. ASSUME NEW i \in K, thread' = [thread EXCEPT ![i] = 0], nextPid' = nextPid
        PROVE  PidInv' /\ OwnThreadTracked'
    BY <1>2, <2>2
  <2>3. ASSUME NEW i \in K, RogueStarts(i) PROVE PidInv' /\ OwnThreadTracked'
    BY <1>2, <2>3 DEF RogueStarts, CommandOn
  <2>. QED BY <1>1, <1>2, <2>1, <2>2, <2>3, PidMoves
<1>3. CASE UNCHANGED <<thread, nextPid, ours>>
  <2>1. CASE On(idx) /\ states' = [states EXCEPT ![idx] = thread[idx]]
    BY <1>3, <2>1
  <2>2. CASE ~On(idx) /\ states' = [states EXCEPT ![idx] = Staged]
    BY <1>3, <2>2
  <2>3. CASE op = "open" /\ states' = NoThread
    BY <1>3, <2>3 DEF OpInv
  <2>4. CASE states' = states BY <1>3, <2>4
  <2>. QED BY <1>3, <2>1, <2>2, <2>3, <2>4, <1>1, PidMoves
<1>. QED BY <1>1, <1>2, <1>3, PidMoves

\* A running kernel thread of the session is always recorded.
THEOREM ThreadsTracked == Spec => []OwnThreadTracked
<1>1. Init => TypeOK /\ OpInv /\ PidInv /\ OwnThreadTracked
  BY TypeInit, OpInit, PidInit
<1>2. /\ TypeOK /\ OpInv /\ PidInv /\ OwnThreadTracked /\ [Next]_vars
      => (TypeOK /\ OpInv /\ PidInv /\ OwnThreadTracked)'
  BY TypeNext, OpNext, PidNext
<1>. QED BY <1>1, <1>2, PTL DEF Spec

-----------------------------------------------------------------------------
\* What the loops have achieved: behind the cursor everything is staged again
\* unless an error was remembered, and whoever reports success, or restores
\* the hierarchy, found all of it staged.
LoopInv ==
    /\ pc = "none" \/ op = "open" => AllStaged
    /\ pc \in {"stop_final"} \cup ClosePCs \cup RestorePCs => AllStaged
    /\ pc = "rollback_count" => idx = N - 1
    /\ pc \in LoopPCs /\ ~err => \A j \in K : j > idx => states[j] = Staged
    /\ result = "start_failed" => AllStaged
    /\ pc = "ended" /\ ~owns => AllStaged

\* The cursor moves on: the kdamond it leaves is staged, or an error is
\* remembered.
LEMMA LoopAdvances ==
  ASSUME TypeOK, OpInv, LoopInv, UNCHANGED owns, pc \in LoopPCs,
         NEW e \in BOOLEAN, NextKdamond(e), err => e,
         \A j \in K : states[j] = Staged => states'[j] = Staged,
         ~e => states'[idx] = Staged
  PROVE  LoopInv'
<1>. USE DEF LoopInv, LoopPCs, StopOnePCs, RestorePCs, ClosePCs
<1>0. /\ idx \in K /\ op # "open" /\ owns /\ result # "start_failed"
      /\ \A i \in K : i \in Int
  BY NAssumption DEF TypeOK, OpInv, StopPCs, StartOps, K
<1>1. ~e => \A j \in K : j >= idx => states'[j] = Staged
  BY <1>0 DEF LoopPCs
<1>2. CASE idx > 0
  BY <1>0, <1>1, <1>2 DEF NextKdamond, Jump
<1>3. CASE ~(idx > 0)
  <2>1. ~e => AllStaged'
    BY <1>0, <1>1, <1>3 DEF AllStaged, K, Staged
  <2>2. CASE op = "start"
    BY <1>0, <1>3, <2>1, <2>2 DEF NextKdamond, Return
  <2>3. CASE op # "start" /\ e
    BY <1>0, <1>3, <2>3 DEF NextKdamond, StopReturn, CloseFailed, Return
  <2>4. CASE op # "start" /\ ~e
    BY <1>0, <1>3, <2>1, <2>4 DEF NextKdamond, Goto, Jump
  <2>. QED BY <2>2, <2>3, <2>4
<1>. QED BY <1>2, <1>3

\* An error is remembered, or returned, or leads to a rollback that covers every
\* kdamond not staged (first_error in stop_all, rollback_started).
LEMMA LoopFails ==
  ASSUME TypeOK, OpInv, LoopInv, UNCHANGED <<owns, states>>, Fail
  PROVE  LoopInv'
<1>1. CASE pc \in {"rollback_config", "stop_config"} \cup StopOnePCs
  <2>1. NextKdamond(TRUE) /\ pc \in LoopPCs
    BY <1>1 DEF Fail, OpenPCs, StagePCs, RestorePCs, StartPCs, StopOnePCs, ClosePCs, LoopPCs
  <2>. QED BY <2>1, LoopAdvances
<1>2. CASE pc \notin {"rollback_config", "stop_config"} \cup StopOnePCs
  <2>. USE <1>2, FirstKdamond DEF LoopInv, OpInv, AllStaged, TypeOK, LoopPCs, OpenPCs, StagePCs,
           RestorePCs, StartPCs, StopOnePCs, ClosePCs, StopPCs, StartOps
  <2>1. CASE pc \in OpenPCs \cup StagePCs
    BY <2>1 DEF Fail, Return, Goto, Jump
  <2>2. CASE pc \in RestorePCs \cup ClosePCs
    BY <2>2 DEF Fail, CloseFailed, Return
  <2>3. CASE pc \in StartOps
    BY <2>3 DEF Fail, StartFailed, Return, Jump
  <2>4. CASE pc \in StopPCs
    BY <2>4 DEF Fail, StopReturn, CloseFailed, Return
  <2>. QED BY <2>1, <2>2, <2>3, <2>4 DEF Fail
<1>. QED BY <1>1, <1>2

\* The read-only steps keep what the reverse loops have achieved.
LEMMA LoopChecks ==
  ASSUME TypeOK, OpInv, LoopInv,
         \/ EnsureStopped \/ OpenVerify \/ StageVerify \/ RestoreCheck
         \/ StartVerify \/ StartOff \/ StartCheck \/ StartIdentity \/ StartConfig
         \/ StartFinal \/ RollbackCount \/ RollbackConfig
         \/ StopBegin \/ StopCount \/ StopConfig \/ StopFinal \/ StopOnePid
         \/ CloseVerify
  PROVE  LoopInv'
<1>1. UNCHANGED <<owns, states>>
  BY DEF Check, EnsureStopped, OpenVerify, StageVerify, RestoreCheck, StartVerify,
         StartOff, StartCheck, StartIdentity, StartConfig, StartFinal, RollbackCount,
         RollbackConfig, StopBegin, StopCount, StopConfig, StopFinal, StopOnePid,
         CloseVerify, sessionVars
<1>2. CASE RollbackConfig /\ states[idx] = Staged
  BY <1>1, <1>2, LoopAdvances DEF RollbackConfig, Check, LoopPCs, TypeOK
<1>0. \A j \in K : ~(j > N - 1)
  BY NAssumption DEF K
<1>. USE <1>0, <1>1, LoopFails DEF Check, Goto, Jump, LoopInv, OpInv, AllStaged, OpenPCs,
         StagePCs, RestorePCs, StartPCs, StopOnePCs, ClosePCs, LoopPCs, StopPCs, StartOps
<1>3. CASE EnsureStopped BY <1>3 DEF EnsureStopped
<1>4. CASE OpenVerify \/ StageVerify \/ RestoreCheck \/ CloseVerify
  BY <1>4 DEF OpenVerify, StageVerify, RestoreCheck, CloseVerify
<1>5. CASE StartVerify \/ StartOff \/ StartCheck \/ StartIdentity \/ StartConfig \/ StartFinal
  BY <1>5 DEF StartVerify, StartOff, StartCheck, StartIdentity, StartConfig, StartFinal, Return
<1>6. CASE RollbackCount \/ (RollbackConfig /\ states[idx] # Staged)
  BY <1>6 DEF RollbackCount, RollbackConfig
<1>7. CASE StopBegin \/ StopCount \/ StopConfig \/ StopOnePid
  BY <1>7 DEF StopBegin, StopCount, StopConfig, StopOnePid
<1>8. CASE StopFinal
  BY <1>8 DEF StopFinal, StopReturn, Return
<1>. QED BY <1>2, <1>3, <1>4, <1>5, <1>6, <1>7, <1>8

\* The writing steps keep what the reverse loops have achieved.
LEMMA LoopWrites ==
  ASSUME TypeOK, OpInv, LoopInv,
         \/ Open \/ OpenCapture \/ OpenStopped \/ OpenNew
         \/ StageCount \/ StageWrite \/ StageCapture
         \/ RestoreCount \/ RestoreShape \/ RestoreWrite \/ RestoreMatch
         \/ StartOn \/ StartPid
         \/ StopOneState \/ StopOneOff \/ StopOneBack \/ CloseMatch
  PROVE  LoopInv'
<1>1. ASSUME pc \in LoopPCs, NextKdamond(err), UNCHANGED owns,
             states' = [states EXCEPT ![idx] = Staged]
      PROVE  LoopInv'
  <2>1. /\ \A j \in K : states[j] = Staged => states'[j] = Staged
        /\ states'[idx] = Staged
    BY <1>1 DEF TypeOK
  <2>. QED BY <1>1, <2>1, LoopAdvances DEF TypeOK
<1>. USE LoopFails DEF Goto, Jump, TypeOK, LoopInv, OpInv, AllStaged, OpenPCs, StagePCs,
         RestorePCs, StartPCs, StopOnePCs, ClosePCs, LoopPCs, StopPCs, StartOps, sessionVars
<1>2. CASE Open \/ OpenCapture \/ OpenStopped
  BY <1>2 DEF Open, OpenCapture, OpenStopped
<1>3. CASE OpenNew BY <1>3 DEF OpenNew, Return
<1>4. CASE StageCount \/ StageWrite \/ StageCapture
  BY <1>4 DEF StageCount, StageWrite, StageNext, StageCapture
<1>5. CASE RestoreCount \/ RestoreShape \/ RestoreWrite
  BY <1>5 DEF RestoreCount, RestoreShape, RestoreWrite, RestoreShapes, RestoreValues
<1>6. CASE RestoreMatch \/ CloseMatch
  BY <1>6 DEF RestoreMatch, CloseMatch, RestoreDone, Return
<1>7. CASE StartOn \/ StartPid
  <2>1. CASE Fail /\ UNCHANGED <<owns, states>> BY <2>1
  <2>2. CASE pc \in StartPCs /\ pc' \in StartPCs /\ UNCHANGED <<owns, op, result>>
    BY <2>2
  <2>. QED BY <1>7, <2>1, <2>2 DEF StartOn, StartPid
<1>8. CASE StopOneState \/ StopOneOff \/ StopOneBack
  BY <1>1, <1>8 DEF StopOneState, StopOneOff, StopOneBack
<1>. QED BY <1>2, <1>3, <1>4, <1>5, <1>6, <1>7, <1>8

\* Every step keeps what the reverse loops of stop_all and rollback_started have
\* achieved: the kdamonds behind the cursor are staged, or an error is
\* remembered.
LEMMA LoopNext == TypeOK /\ OpInv /\ LoopInv /\ [Next]_vars => LoopInv'
<1>. SUFFICES ASSUME TypeOK, OpInv, LoopInv, [Next]_vars PROVE LoopInv'
  OBVIOUS
<1>. USE DEF sessionVars, OpenPCs, StagePCs, RestorePCs, StartPCs, StopOnePCs, ClosePCs,
         LoopPCs, StopPCs, StartOps
<1>1. CASE Proceed
  BY <1>1, LoopChecks, LoopWrites
  DEF Proceed, OpenStep, StageStep, RestoreStep, StartStep, StopStep, CloseStep
<1>2. CASE UserCall
  BY <1>2 DEF UserCall, StartAll, StopAll, Close, Drop, Call, Return, LoopInv, AllStaged
<1>3. CASE Environment
  <2>1. CASE Fail /\ UNCHANGED sessionVars
    BY <2>1, LoopFails
  <2>2. CASE pc = "stage_write" /\ StageNext /\ UNCHANGED sessionVars
    BY <2>2 DEF StageNext, Goto, Jump, OpInv, LoopInv, AllStaged
  <2>3. CASE TransientBusy /\ UNCHANGED sessionVars
    BY <2>3 DEF TransientBusy, Goto, Jump, OpInv, LoopInv, AllStaged
  <2>4. CASE UNCHANGED <<sessionVars, controlVars>>
    BY <2>4 DEF controlVars, LoopInv, AllStaged
  <2>. QED BY <1>3, <2>1, <2>2, <2>3, <2>4, EnvironmentSplit
<1>4. CASE UNCHANGED vars
  BY <1>4 DEF vars, controlVars, LoopInv, AllStaged
<1>. QED BY <1>1, <1>2, <1>3, <1>4 DEF Next, Ended

\* Before managed_hierarchy no loop runs.
LEMMA LoopInit == Init => LoopInv
  BY DEF Init, LoopInv, LoopPCs, StopOnePCs, ClosePCs, RestorePCs, AllStaged, Staged, NoThread

SessionInv == TypeOK /\ OpInv /\ LoopInv /\ PidInv /\ OwnThreadTracked

\* The session's inductive invariant holds throughout: each step belongs to the
\* call in progress, the loops of stop_all and rollback_started leave staged
\* kdamonds behind, pids are handed out once and the session's threads are
\* recorded.
THEOREM SessionInvariant == Spec => []SessionInv
<1>1. Init => SessionInv
  BY TypeInit, OpInit, LoopInit, PidInit DEF SessionInv
<1>2. SessionInv /\ [Next]_vars => SessionInv'
  BY TypeNext, OpNext, LoopNext, PidNext DEF SessionInv
<1>. QED BY <1>1, <1>2, PTL DEF Spec

\* Where every kdamond is recorded Staged, none of the session's threads runs.
LEMMA StagedHasNoThread ==
  ASSUME OwnThreadTracked, PidInv, TypeOK, AllStaged
  PROVE  NoOwnThread
BY DEF OwnThreadTracked, PidInv, TypeOK, AllStaged, Staged, UnidentifiedRunning, NoOwnThread,
   OwnRunning

\* A start_all that failed and reports no rollback failure left none of the
\* session's threads running.
THEOREM StartUndone == Spec => []FailedStartUndone
<1>1. SessionInv => FailedStartUndone
  BY StagedHasNoThread DEF SessionInv, LoopInv, FailedStartUndone
<1>. QED BY <1>1, SessionInvariant, PTL

\* A session that gave the hierarchy up left none of its threads running.
THEOREM ReleaseLeavesNone == Spec => []ReleasedLeavesNoThread
<1>1. SessionInv => ReleasedLeavesNoThread
  BY StagedHasNoThread DEF SessionInv, LoopInv, ReleasedLeavesNoThread
<1>. QED BY <1>1, SessionInvariant, PTL

-----------------------------------------------------------------------------
\* As long as nobody replaced a thread inside a window, recorded pids are
\* pids of the session's threads, and so is what start_one is about to read
\* and what stop_one is about to turn off.
IdentityInv ==
    "identity" \notin raced =>
        /\ \A i \in K : IsRunning(states[i]) => states[i] \in ours
        /\ pc \in {"start_pid", "one_off"} /\ On(idx) => OwnRunning(idx)

\* Where a step that changes no thread, no pid and no state may lead.
LEMMA WindowsOpen ==
  ASSUME TypeOK, [Next]_vars, pc' \in {"start_pid", "one_off"}
  PROVE  \/ UNCHANGED <<pc, idx>>
         \/ /\ StartOn /\ CommandOn(idx) /\ idx' = idx
            /\ ours' = ours \cup {nextPid}
            /\ states' = [states EXCEPT ![idx] = UnidentifiedRunning]
         \/ StopOnePid /\ thread[idx] = states[idx] /\ UNCHANGED <<thread, states, ours, idx>>
<1>0. ASSUME Fail PROVE FALSE
  <2>1. ASSUME NEW e \in BOOLEAN, NextKdamond(e) PROVE FALSE
    BY <1>0, <2>1 DEF NextKdamond, StopReturn, CloseFailed, Goto, Jump, Return
  <2>. QED
    BY <1>0, <2>1 DEF Fail, StopReturn, StartFailed, CloseFailed, Goto, Jump, Return
<1>. USE <1>0 DEF Goto, Jump, Return, Check
<1>1. CASE EnsureStopped BY <1>1 DEF EnsureStopped
<1>2. CASE OpenStep
  BY <1>2 DEF OpenStep, Open, OpenCapture, OpenVerify, OpenStopped, OpenNew
<1>3. CASE StageStep
  BY <1>3 DEF StageStep, StageCount, StageWrite, StageNext, StageCapture, StageVerify
<1>4. CASE RestoreStep
  BY <1>4 DEF RestoreStep, RestoreCount, RestoreShape, RestoreWrite, RestoreShapes, RestoreValues, RestoreCheck, RestoreMatch,
     RestoreDone
<1>5. CASE StartStep
  BY <1>5 DEF StartStep, StartVerify, StartOff, StartCheck, StartOn, StartPid,
     StartIdentity, StartConfig, StartFinal, RollbackCount, RollbackConfig, NextKdamond,
     StopReturn, CloseFailed
<1>6. CASE StopStep
  BY <1>6 DEF StopStep, StopBegin, StopCount, StopConfig, StopFinal, StopOneState,
     StopOnePid, StopOneOff, StopOneBack, NextKdamond, StopReturn, CloseFailed,
     sessionVars, kernelVars, historyVars
<1>7. CASE CloseStep
  BY <1>7 DEF CloseStep, CloseVerify, CloseMatch, RestoreDone
<1>8. CASE UserCall
  BY <1>8 DEF UserCall, StartAll, StopAll, Close, Drop, Call
<1>9. CASE Environment
  BY <1>9, EnvironmentSplit DEF TransientBusy, StageNext, controlVars
<1>10. CASE UNCHANGED vars
  BY <1>10 DEF vars, controlVars
<1>. QED
  BY <1>1, <1>2, <1>3, <1>4, <1>5, <1>6, <1>7, <1>8, <1>9, <1>10 DEF Next, Proceed, Ended

\* A check-then-act window in which another controller acted is never
\* forgotten.
LEMMA RacesKept ==
  ASSUME [Next]_vars
  PROVE  raced \subseteq raced'
<1>. USE DEF historyVars, Rest, Check, vars
<1>1. CASE Proceed
  BY <1>1 DEF Proceed, EnsureStopped, OpenStep, Open, OpenCapture, OpenVerify, OpenStopped,
     OpenNew, StageStep, StageCount, StageWrite, StageCapture, StageVerify,
     RestoreStep, RestoreCount, RestoreShape, RestoreWrite, RestoreCheck, RestoreMatch,
     StartStep, StartVerify, StartOff, StartCheck, StartOn, StartPid,
     StartIdentity, StartConfig, StartFinal, RollbackCount, RollbackConfig,
     StopStep, StopBegin, StopCount, StopConfig, StopFinal, StopOneState,
     StopOnePid, StopOneOff, StopOneBack, CloseStep, CloseVerify, CloseMatch
<1>2. CASE UserCall
  BY <1>2 DEF UserCall, StartAll, StopAll, Close, Drop, Call
<1>3. CASE Environment
  BY <1>3 DEF Environment, IoError, TornWrite, TransientBusy, KdamondExits, KernelTunes,
     RogueStarts, RogueStops, RogueWrites, RogueResizes, RogueActs
<1>. QED BY <1>1, <1>2, <1>3 DEF Next, Ended

\* At first no pid is recorded.
LEMMA IdentityInit == Init => IdentityInv
  BY DEF Init, IdentityInv, NoThread, IsRunning

\* Outside the raced windows a recorded pid is one the session started
\* (running_thread_pid, verify_running_identity_with).
LEMMA IdentityNext ==
  ASSUME SessionInv, IdentityInv, [Next]_vars
  PROVE  IdentityInv'
<1>. SUFFICES ASSUME "identity" \notin raced'
              PROVE  /\ \A i \in K : IsRunning(states'[i]) => states'[i] \in ours'
                     /\ pc' \in {"start_pid", "one_off"} /\ On(idx)' => OwnRunning(idx)'
  BY DEF IdentityInv
<1>0. /\ \A i \in K : IsRunning(states[i]) => states[i] \in ours
      /\ pc \in {"start_pid", "one_off"} /\ On(idx) => OwnRunning(idx)
  BY RacesKept DEF IdentityInv
<1>1. /\ idx \in K /\ idx' \in K
      /\ thread \in [K -> 0 .. MaxPid] /\ states \in [K -> SessionStates]
      /\ nextPid \in 1 .. MaxPid + 1 /\ TypeOK /\ OpInv /\ PidInv
  BY TypeNext DEF SessionInv, TypeOK
<1>. USE MaxPidAssumption DEF On, OwnRunning, IsRunning
<1>2. \A i \in K : IsRunning(states'[i]) => states'[i] \in ours'
  <2>1. CASE /\ ours' = ours \cup {nextPid}
             /\ states' = [states EXCEPT ![idx] = UnidentifiedRunning]
    BY <1>0, <1>1, <2>1 DEF UnidentifiedRunning
  <2>2. CASE ours' = ours /\ states' = states
    BY <1>0, <2>2
  <2>3. CASE ours' = ours /\ StartPid /\ On(idx)
             /\ states' = [states EXCEPT ![idx] = thread[idx]]
    BY <1>0, <1>1, <2>3 DEF StartPid
  <2>4. CASE ours' = ours /\ states' = [states EXCEPT ![idx] = Staged]
    BY <1>0, <1>1, <2>4 DEF Staged
  <2>5. CASE states' = NoThread
    BY <2>5 DEF NoThread
  <2>. QED BY <1>1, <2>1, <2>2, <2>3, <2>4, <2>5, PidMoves
<1>3. ASSUME pc' \in {"start_pid", "one_off"}, thread'[idx'] # 0
      PROVE  thread'[idx'] \in ours'
  <2>1. CASE UNCHANGED <<pc, idx>>
    <3>1. thread[idx] # 0 => thread[idx] \in ours'
      BY <1>0, <1>3, <2>1, <1>1, PidMoves
    <3>2. CASE thread'[idx] = thread[idx] BY <1>3, <2>1, <3>1, <3>2
    <3>3. ASSUME NEW i \in K, thread' = [thread EXCEPT ![i] = 0]
          PROVE  thread'[idx] \in {thread[idx], 0}
      BY <1>1, <3>3
    <3>4. ASSUME NEW i \in K, RogueStarts(i)
          PROVE  thread'[idx] = thread[idx]
      BY <1>1, <1>3, <2>1, <3>4
      DEF RogueStarts, RogueActs, CommandOn, IdentityWindow
    <3>5. CASE /\ CommandOn(idx) /\ ours' = ours \cup {nextPid}
      BY <1>1, <2>1, <3>5 DEF CommandOn
    <3>. QED BY <1>1, <1>3, <2>1, <3>2, <3>3, <3>4, <3>5, PidMoves
  <2>2. CASE CommandOn(idx) /\ idx' = idx /\ ours' = ours \cup {nextPid}
    BY <1>1, <2>2 DEF CommandOn
  <2>3. CASE thread[idx] = states[idx] /\ UNCHANGED <<thread, states, ours, idx>>
    BY <1>0, <1>1, <1>3, <2>3
  <2>. QED BY <1>1, <1>3, <2>1, <2>2, <2>3, WindowsOpen
<1>. QED BY <1>2, <1>3

\* Only the "off" write of stop_one leads from one_off to one_back.
LEMMA OffWrite ==
  ASSUME TypeOK, [Next]_vars, pc = "one_off", pc' = "one_back"
  PROVE  CommandOff(idx)
<1>0. ASSUME Fail PROVE FALSE
  <2>1. ASSUME NEW e \in BOOLEAN, NextKdamond(e) PROVE FALSE
    BY <1>0, <2>1 DEF NextKdamond, StopReturn, CloseFailed, Goto, Jump, Return
  <2>. QED
    BY <1>0, <2>1 DEF Fail, StopReturn, StartFailed, CloseFailed, Goto, Jump, Return
<1>1. CASE Proceed
  BY <1>0, <1>1 DEF Proceed, EnsureStopped, OpenStep, Open, OpenCapture, OpenVerify,
     OpenStopped, OpenNew, StageStep, StageCount, StageWrite, StageCapture, StageVerify,
     RestoreStep, RestoreCount, RestoreShape, RestoreWrite, RestoreCheck, RestoreMatch,
     StartStep, StartVerify, StartOff, StartCheck, StartOn, StartPid,
     StartIdentity, StartConfig, StartFinal, RollbackCount, RollbackConfig,
     StopStep, StopBegin, StopCount, StopConfig, StopFinal, StopOneState,
     StopOnePid, StopOneOff, StopOneBack, CloseStep, CloseVerify, CloseMatch, Check
<1>2. CASE UserCall
  BY <1>2 DEF UserCall, StartAll, StopAll, Close, Drop, Call
<1>3. CASE Environment
  BY <1>0, <1>3, EnvironmentSplit DEF TransientBusy, controlVars
<1>4. CASE UNCHANGED vars
  BY <1>4 DEF vars, controlVars
<1>. QED BY <1>1, <1>2, <1>3, <1>4 DEF Next, Ended

\* The session turns off only threads it started, except inside the windows
\* in which a foreign controller can replace a thread unnoticed.
THEOREM StopsOwn == Spec => StopsOnlyItsOwn
<1>1. SessionInv /\ IdentityInv /\ [Next]_vars
        => [\A i \in K :
              pc = "one_off" /\ pc' = "one_back" /\ On(i) /\ thread'[i] = 0
                 => OwnRunning(i) \/ "identity" \in raced]_vars
  <2>1. ASSUME SessionInv, IdentityInv, [Next]_vars, NEW i \in K,
               pc = "one_off", pc' = "one_back", On(i), thread'[i] = 0
        PROVE  OwnRunning(i) \/ "identity" \in raced
    <3>1. CommandOff(idx) /\ thread \in [K -> 0 .. MaxPid]
      BY <2>1, OffWrite DEF SessionInv, TypeOK
    <3>2. i = idx
      BY <2>1, <3>1 DEF CommandOff, On
    <3>. QED BY <2>1, <3>2 DEF IdentityInv
  <2>. QED BY <2>1
<1>2. Init => IdentityInv
  BY IdentityInit
<1>3. SessionInv /\ IdentityInv /\ [Next]_vars => IdentityInv'
  BY IdentityNext
<1>. QED BY <1>1, <1>2, <1>3, SessionInvariant, PTL DEF Spec, StopsOnlyItsOwn

-----------------------------------------------------------------------------
(* How a session gives back what it found *)

\* A thread of the session at a kdamond no other controller acted on.
Untouched(i) == OwnRunning(i) /\ i \notin touched

\* What keeps such a thread: its configuration is the staged one, its pid is
\* recorded, and the loops pass it by only once it is off.
IsolationInv ==
    /\ \A i \in K : Untouched(i) => VerifyCount /\ VerifyKdamond(i)
    /\ pc = "start_on" /\ idx \notin touched => VerifyCount /\ VerifyKdamond(idx)
    /\ pc = "one_back" => ~OwnRunning(idx)
    /\ faults = MaxFaults =>
        /\ \A i \in K : OwnRunning(i) => \/ states[i] = thread[i]
                                         \/ pc = "start_pid" /\ idx = i
        /\ pc \in LoopPCs => \A i \in K : i > idx => ~Untouched(i)
        /\ \/ pc \in {"stop_final", "ended"}
           \/ pc = "idle" /\ result \in {"stop_failed", "rollback_failed"}
           => \A i \in K : ~Untouched(i)

\* Where everything is recorded Staged, nothing is left to pass by.
LEMMA StagedLeavesNone ==
  ASSUME SessionInv, AllStaged
  PROVE  \A i \in K : ~OwnRunning(i)
BY StagedHasNoThread DEF SessionInv, NoOwnThread

\* An error leads neither into start_one nor behind an "off" write.
LEMMA FailLeads ==
  ASSUME TypeOK, Fail
  PROVE  pc' \notin {"none", "start_on", "start_pid", "one_pid", "one_off", "one_back", "stage_write"}
<1>1. ASSUME NEW e \in BOOLEAN, NextKdamond(e)
      PROVE pc' \notin {"none", "start_on", "start_pid", "one_pid", "one_off", "one_back", "stage_write"}
  BY <1>1 DEF NextKdamond, StopReturn, CloseFailed, Goto, Jump, Return
<1>. QED
  BY <1>1 DEF Fail, StopReturn, StartFailed, CloseFailed, Goto, Jump, Return

\* The cursor leaves a kdamond on which no untouched thread of the session runs
\* (the end of each turn of the loops in stop_all and rollback_started).
LEMMA IsolationAdvances ==
  ASSUME SessionInv, IsolationInv, UNCHANGED <<kernelVars, staged, ours, touched, faults>>,
         pc \in LoopPCs, NEW e \in BOOLEAN, NextKdamond(e),
         faults = MaxFaults => ~Untouched(idx),
         \A j \in K : OwnRunning(j) => states'[j] = states[j]
  PROVE  IsolationInv'
<1>0. /\ idx \in K /\ \A i \in K : i \in Int /\ i >= 0
      /\ op # "open"
      /\ pc # "start_pid"
  BY NAssumption DEF SessionInv, TypeOK, K, OpInv, StopPCs, StartOps, StopOnePCs, LoopPCs
<1>1. /\ \A i \in K : Untouched(i)' <=> Untouched(i)
      /\ \A i \in K : OwnRunning(i)' <=> OwnRunning(i)
      /\ VerifyCount' <=> VerifyCount
      /\ \A i \in K : VerifyKdamond(i)' <=> VerifyKdamond(i)
  BY DEF kernelVars, Untouched, OwnRunning, VerifyCount, VerifyKdamond
<1>2. pc' \notin {"start_on", "one_back"}
  BY DEF NextKdamond, StopReturn, CloseFailed, Goto, Jump, Return
<1>3. ASSUME faults = MaxFaults PROVE \A i \in K : OwnRunning(i) => states'[i] = thread'[i]
  BY <1>0, <1>3 DEF IsolationInv, kernelVars
<1>4. ASSUME faults = MaxFaults PROVE \A i \in K : i >= idx => ~Untouched(i)
  BY <1>0, <1>4 DEF IsolationInv
<1>5. CASE idx > 0
  <2>1. pc' \in {"rollback_config", "stop_count"} /\ idx' = idx - 1
    BY <1>5 DEF NextKdamond, Jump
  <2>2. \A i \in K : i > idx' => i >= idx
    BY <1>0, <2>1
  <2>. QED BY <1>1, <1>2, <1>3, <1>4, <2>1, <2>2 DEF IsolationInv
<1>6. CASE ~(idx > 0)
  <2>1. ASSUME faults = MaxFaults PROVE \A i \in K : ~Untouched(i)
    BY <1>0, <1>4, <1>6, <2>1
  <2>. QED BY <1>1, <1>2, <1>3, <2>1 DEF IsolationInv
<1>. QED BY <1>5, <1>6

\* An error that is no failing access ends a loop, or passes a kdamond by, only
\* where another controller acted (stop_all, rollback_started).
LEMMA IsolationFails ==
  ASSUME SessionInv, IsolationInv,
         UNCHANGED <<kernelVars, states, staged, ours, owns, touched, faults>>, Fail,
         \/ faults # MaxFaults
         \/ /\ pc \in {"rollback_config", "stop_config"} \cup StopOnePCs => ~Untouched(idx)
            /\ pc \in {"rollback_count", "stop_begin", "stop_count"} => \A i \in K : ~Untouched(i)
            /\ pc = "start_pid" => ~OwnRunning(idx)
  PROVE  IsolationInv'
<1>1. CASE pc \in {"rollback_config", "stop_config"} \cup StopOnePCs
  <2>1. NextKdamond(TRUE) /\ pc \in LoopPCs
    BY <1>1 DEF Fail, OpenPCs, StagePCs, RestorePCs, StartPCs, StopOnePCs, ClosePCs, LoopPCs
  <2>. QED BY <1>1, <2>1, IsolationAdvances
<1>2. CASE pc \notin {"rollback_config", "stop_config"} \cup StopOnePCs
  <2>1. /\ \A i \in K : Untouched(i)' <=> Untouched(i)
        /\ \A i \in K : OwnRunning(i)' <=> OwnRunning(i)
        /\ VerifyCount' <=> VerifyCount
        /\ \A i \in K : VerifyKdamond(i)' <=> VerifyKdamond(i)
        /\ states' = states /\ thread' = thread /\ faults' = faults
        /\ \A i \in K : Untouched(i) => OwnRunning(i)
        /\ \A i \in K : OwnRunning(i) => thread[i] = thread[i]
    BY DEF kernelVars, Untouched, OwnRunning, VerifyCount, VerifyKdamond
  <2>2. pc' \notin {"start_on", "one_back", "start_pid"}
    BY FailLeads DEF SessionInv
  <2>3. ASSUME faults = MaxFaults, pc = "stop_final" \/ pc \in RestorePCs \cup ClosePCs \/ op = "open"
        PROVE  \A i \in K : ~OwnRunning(i)
    BY <2>3, StagedLeavesNone DEF SessionInv, LoopInv
  <2>4. ASSUME faults = MaxFaults PROVE \A i \in K : OwnRunning(i) => states[i] = thread[i]
    BY <2>4 DEF IsolationInv
  <2>5. ASSUME faults = MaxFaults, pc \in OpenPCs \cup StagePCs \cup RestorePCs \cup ClosePCs \cup {"stop_begin", "stop_count", "stop_final", "rollback_count"}
        PROVE  \A i \in K : ~Untouched(i)
    BY <2>5, <2>3, <2>1, <1>2 DEF SessionInv, OpInv
  <2>6. ASSUME faults = MaxFaults, pc \in StartPCs \cup {"start_verify", "start_off"}
        PROVE  /\ pc' \in LoopPCs => \A i \in K : i > idx' => ~Untouched(i)
               /\ ~ \/ pc' \in {"stop_final", "ended"}
                    \/ pc' = "idle" /\ result' \in {"stop_failed", "rollback_failed"}
    <3>1. pc' = "rollback_count" \/ (pc' = "idle" /\ result' \in {"start_failed", "rejected"})
      BY <2>6 DEF Fail, OpenPCs, StagePCs, RestorePCs, StartPCs, StopOnePCs, ClosePCs, StartFailed,
         Jump, Return
    <3>. QED BY <3>1 DEF LoopPCs, StopOnePCs
  <2>7. pc \in OpenPCs \cup StagePCs \cup RestorePCs \cup ClosePCs \cup {"stop_begin", "stop_count", "stop_final", "rollback_count"}
            \cup StartPCs \cup {"start_verify", "start_off"}
    BY <1>2 DEF Fail
  <2>. QED BY <2>1, <2>2, <2>4, <2>5, <2>6, <2>7 DEF IsolationInv
<1>. QED BY <1>1, <1>2

\* A step to a place where nothing is promised of the kdamonds passed, or inside
\* one turn of a loop.
LEMMA IsolationMoves ==
  ASSUME SessionInv, IsolationInv,
         UNCHANGED <<kernelVars, states, staged, ours, touched, faults>>,
         pc' = "start_on" /\ idx' \notin touched => VerifyCount /\ VerifyKdamond(idx'),
         pc' # "one_back", pc # "start_pid" \/ (pc' = pc /\ idx' = idx),
         \/ pc' \notin LoopPCs
         \/ pc \in LoopPCs /\ idx' = idx
         \/ idx' = N - 1,
         \/ /\ pc' \notin {"stop_final", "ended"}
            /\ pc' = "idle" => result' \notin {"stop_failed", "rollback_failed"}
         \/ AllStaged
         \/ pc' = pc /\ result' = result
  PROVE  IsolationInv'
<1>1. /\ \A i \in K : Untouched(i)' <=> Untouched(i)
      /\ \A i \in K : OwnRunning(i)' <=> OwnRunning(i)
      /\ VerifyCount' <=> VerifyCount
      /\ \A i \in K : VerifyKdamond(i)' <=> VerifyKdamond(i)
      /\ states' = states /\ thread' = thread /\ faults' = faults /\ touched' = touched
      /\ \A i \in K : Untouched(i) => OwnRunning(i)
      /\ \A i \in K : ~(i > N - 1)
  BY NAssumption DEF kernelVars, Untouched, OwnRunning, VerifyCount, VerifyKdamond, K
<1>2. AllStaged => \A i \in K : ~OwnRunning(i)
  BY StagedLeavesNone
<1>3. faults = MaxFaults => /\ \A i \in K : OwnRunning(i) => \/ states[i] = thread[i]
                                                             \/ pc' = "start_pid" /\ idx' = i
                            /\ pc' \in LoopPCs => \A i \in K : i > idx' => ~Untouched(i)
  BY <1>1 DEF IsolationInv
<1>4. faults = MaxFaults =>
        /\ \/ pc' \in {"stop_final", "ended"}
           \/ pc' = "idle" /\ result' \in {"stop_failed", "rollback_failed"}
           => \A i \in K : ~Untouched(i)
  BY <1>1, <1>2 DEF IsolationInv
<1>5. (pc = "start_on" /\ idx \notin touched => VerifyCount /\ VerifyKdamond(idx))'
  BY <1>1 DEF VerifyKdamond, kernelVars
<1>6. (\A i \in K : Untouched(i) => VerifyCount /\ VerifyKdamond(i))'
  BY <1>1 DEF IsolationInv
<1>7. (faults = MaxFaults =>
        /\ \A i \in K : OwnRunning(i) => \/ states[i] = thread[i]
                                         \/ pc = "start_pid" /\ idx = i
        /\ pc \in LoopPCs => \A i \in K : i > idx => ~Untouched(i)
        /\ \/ pc \in {"stop_final", "ended"}
           \/ pc = "idle" /\ result \in {"stop_failed", "rollback_failed"}
           => \A i \in K : ~Untouched(i))'
  BY <1>1, <1>3, <1>4
<1>8. (pc = "one_back" => ~OwnRunning(idx))'
  OBVIOUS
<1>. QED BY <1>5, <1>6, <1>7, <1>8 DEF IsolationInv

\* The read-only steps pass by no untouched thread of the session.
LEMMA IsolationChecks ==
  ASSUME SessionInv, IsolationInv,
         \/ EnsureStopped \/ OpenVerify \/ StageVerify \/ RestoreCheck
         \/ StartVerify \/ StartOff \/ StartCheck \/ StartIdentity \/ StartConfig
         \/ StartFinal \/ RollbackCount \/ RollbackConfig
         \/ StopBegin \/ StopCount \/ StopConfig \/ StopFinal \/ StopOnePid
         \/ CloseVerify
  PROVE  IsolationInv'
<1>0. UNCHANGED <<kernelVars, states, staged, ours, owns, touched, faults>>
  BY DEF Check, EnsureStopped, OpenVerify, StageVerify, RestoreCheck, StartVerify,
         StartOff, StartCheck, StartIdentity, StartConfig, StartFinal, RollbackCount,
         RollbackConfig, StopBegin, StopCount, StopConfig, StopFinal, StopOnePid,
         CloseVerify, sessionVars, historyVars
<1>1. /\ idx \in K
      /\ ~VerifyKdamond(idx) => ~Untouched(idx)
      /\ ~VerifyCount => \A i \in K : ~Untouched(i)
      /\ states[idx] = Staged => ~OwnRunning(idx)
      /\ Untouched(idx) => OwnRunning(idx)
      /\ faults = MaxFaults /\ pc # "start_pid" /\ OwnRunning(idx) => thread[idx] = states[idx]
  BY DEF SessionInv, TypeOK, IsolationInv, PidInv, OwnThreadTracked, OwnRunning, Staged, Untouched,
         UnidentifiedRunning
<1>a. ASSUME Fail,
             \/ faults # MaxFaults
             \/ /\ pc \in {"rollback_config", "stop_config"} \cup StopOnePCs => ~Untouched(idx)
                /\ pc \in {"rollback_count", "stop_begin", "stop_count"} => \A i \in K : ~Untouched(i)
                /\ pc = "start_pid" => ~OwnRunning(idx)
      PROVE  IsolationInv'
  BY <1>0, <1>a, IsolationFails
<1>b. ASSUME pc # "start_pid", pc' # "one_back",
             pc' = "start_on" => VerifyCount /\ VerifyKdamond(idx'),
             pc' \in LoopPCs => (pc \in LoopPCs /\ idx' = idx) \/ idx' = N - 1,
             \/ /\ pc' \notin {"stop_final", "ended"}
                /\ pc' = "idle" => result' \notin {"stop_failed", "rollback_failed"}
             \/ AllStaged
      PROVE  IsolationInv'
  BY <1>0, <1>b, IsolationMoves
<1>. USE <1>1, <1>a, <1>b DEF Check, Goto, Jump, LoopPCs, StopOnePCs
<1>2. CASE EnsureStopped BY <1>2 DEF EnsureStopped
<1>3. CASE OpenVerify \/ StageVerify \/ RestoreCheck
  BY <1>3 DEF OpenVerify, StageVerify, RestoreCheck
<1>4. CASE StartVerify \/ StartOff \/ StartCheck
  BY <1>4 DEF StartVerify, StartOff, StartCheck
<1>5. CASE StartIdentity \/ StartConfig \/ StartFinal
  BY <1>5 DEF StartIdentity, StartConfig, StartFinal, Return
<1>6. CASE RollbackCount
  BY <1>6 DEF RollbackCount, SessionInv, LoopInv
<1>7. CASE RollbackConfig
  <2>1. CASE states[idx] = Staged
    <3>1. NextKdamond(err) /\ pc \in LoopPCs /\ err \in BOOLEAN
      BY <1>7, <2>1 DEF RollbackConfig, SessionInv, TypeOK
    <3>. QED BY <1>0, <2>1, <3>1, IsolationAdvances
  <2>2. CASE states[idx] # Staged
    BY <1>7, <2>2 DEF RollbackConfig
  <2>. QED BY <2>1, <2>2
<1>8. CASE StopBegin \/ StopCount \/ StopConfig \/ StopOnePid
  BY <1>8 DEF StopBegin, StopCount, StopConfig, StopOnePid
<1>9. CASE StopFinal \/ CloseVerify
  BY <1>9 DEF StopFinal, CloseVerify, StopReturn, Return
<1>. QED BY <1>2, <1>3, <1>4, <1>5, <1>6, <1>7, <1>8, <1>9

\* Without a thread of the session nothing is left to pass by.
LEMMA IsolationEmpty ==
  ASSUME \A i \in K : ~OwnRunning(i)', idx' \in K, pc' # "start_on"
  PROVE  IsolationInv'
<1>1. \A i \in K : ~Untouched(i)'
  BY DEF Untouched
<1>. QED BY <1>1 DEF IsolationInv

\* managed_hierarchy and the restorations write while no thread of the session
\* runs.
LEMMA IsolationWrites ==
  ASSUME SessionInv, SessionInv', IsolationInv,
         \/ Open \/ OpenCapture \/ OpenStopped \/ OpenNew
         \/ StageCount \/ StageWrite \/ StageCapture
         \/ RestoreCount \/ RestoreShape \/ RestoreWrite \/ RestoreMatch \/ CloseMatch
  PROVE  IsolationInv'
<1>1. pc = "none" \/ op = "open" \/ AllStaged
  BY DEF SessionInv, OpInv, LoopInv, Open, OpenCapture, OpenStopped, OpenNew,
         StageCount, StageWrite, StageCapture, RestoreCount, RestoreShape, RestoreWrite,
         RestoreMatch, CloseMatch, OpenPCs, StagePCs, RestorePCs, ClosePCs
<1>2. \A i \in K : ~OwnRunning(i)
  BY <1>1, StagedLeavesNone DEF SessionInv, LoopInv
<1>3. UNCHANGED <<thread, ours>>
  BY DEF Open, OpenCapture, OpenStopped, OpenNew, StageCount, StageWrite, StageCapture,
         RestoreCount, RestoreShape, RestoreWrite, RestoreMatch, CloseMatch,
         SetCount, WriteDirectory, kernelVars
<1>4. pc' # "start_on"
  BY FailLeads DEF SessionInv, Goto, Jump, Return, Open, OpenCapture, OpenStopped, OpenNew,
         StageCount, StageWrite, StageNext, StageCapture, RestoreCount, RestoreShape,
         RestoreShapes, RestoreValues, RestoreWrite, RestoreMatch, RestoreDone, CloseMatch
<1>. QED BY <1>2, <1>3, <1>4, IsolationEmpty DEF OwnRunning, SessionInv, TypeOK

\* start_one runs a kdamond that is still the staged one.
LEMMA IsolationStarts ==
  ASSUME SessionInv, IsolationInv, StartOn \/ StartPid
  PROVE  IsolationInv'
<1>0. /\ idx \in K /\ thread \in [K -> 0 .. MaxPid] /\ states \in [K -> SessionStates]
      /\ nextPid \in 1 .. MaxPid + 1
      /\ \A i \in K : thread[i] < nextPid
      /\ \A p \in ours : 0 < p /\ p < nextPid
  BY DEF SessionInv, TypeOK, PidInv
<1>1. UNCHANGED <<hier, tune, staged, owns, touched, faults>>
  BY DEF StartOn, StartPid, CommandOn, kernelVars, Rest, historyVars
<1>2. CASE Fail /\ UNCHANGED <<kernelVars, states, ours>> /\ (pc = "start_pid" => ~On(idx))
  <2>1. pc \in {"start_on", "start_pid"} /\ (pc = "start_pid" => ~OwnRunning(idx))
    BY <1>0, <1>2 DEF StartOn, StartPid, On, OwnRunning, Goto, Jump
  <2>. QED BY <1>1, <1>2, <2>1, IsolationFails DEF StopOnePCs
<1>3. CASE StartOn /\ CommandOn(idx)
  <2>1. /\ pc = "start_on" /\ pc' = "start_pid" /\ idx' = idx
        /\ ours' = ours \cup {nextPid} /\ states' = [states EXCEPT ![idx] = UnidentifiedRunning]
        /\ thread' = [thread EXCEPT ![idx] = nextPid]
    BY <1>3 DEF StartOn, CommandOn, Jump
  <2>2. \A i \in K : i # idx => /\ OwnRunning(i)' <=> OwnRunning(i)
                                /\ states'[i] = states[i] /\ thread'[i] = thread[i]
    BY <1>0, <2>1 DEF OwnRunning
  <2>3. VerifyCount' <=> VerifyCount
    BY <1>1 DEF VerifyCount
  <2>4. \A i \in K : VerifyKdamond(i)' <=> VerifyKdamond(i)
    BY <1>1 DEF VerifyKdamond
  <2>5. idx \notin touched => VerifyCount /\ VerifyKdamond(idx)
    BY <2>1 DEF IsolationInv
  <2>6. (\A i \in K : Untouched(i) => VerifyCount /\ VerifyKdamond(i))'
    BY <1>1, <2>2, <2>3, <2>4, <2>5 DEF IsolationInv, Untouched
  <2>7. (faults = MaxFaults =>
          \A i \in K : OwnRunning(i) => \/ states[i] = thread[i]
                                        \/ pc = "start_pid" /\ idx = i)'
    BY <1>1, <2>1, <2>2 DEF IsolationInv
  <2>. QED BY <2>1, <2>6, <2>7 DEF IsolationInv, LoopPCs, StopOnePCs
<1>4. CASE StartPid /\ On(idx) /\ states' = [states EXCEPT ![idx] = thread[idx]]
  <2>2. pc = "start_pid" /\ pc' = "start_identity" /\ idx' = idx /\ thread' = thread /\ ours' = ours
    BY <1>0, <1>4 DEF StartPid, Jump, kernelVars, On
  <2>3. \A i \in K : OwnRunning(i)' <=> OwnRunning(i)
    BY <2>2 DEF OwnRunning
  <2>4. VerifyCount' <=> VerifyCount
    BY <1>1 DEF VerifyCount
  <2>5. \A i \in K : VerifyKdamond(i)' <=> VerifyKdamond(i)
    BY <1>1 DEF VerifyKdamond
  <2>6. (\A i \in K : Untouched(i) => VerifyCount /\ VerifyKdamond(i))'
    BY <1>1, <2>3, <2>4, <2>5 DEF IsolationInv, Untouched
  <2>7. (faults = MaxFaults =>
          \A i \in K : OwnRunning(i) => \/ states[i] = thread[i]
                                        \/ pc = "start_pid" /\ idx = i)'
    BY <1>0, <1>1, <1>4, <2>2, <2>3 DEF IsolationInv
  <2>. QED BY <2>2, <2>6, <2>7 DEF IsolationInv, LoopPCs, StopOnePCs
<1>. QED BY <1>2, <1>3, <1>4 DEF StartOn, StartPid

\* stop_one leaves a kdamond only when it is off or was replaced.
LEMMA IsolationStops ==
  ASSUME SessionInv, IsolationInv, StopOneState \/ StopOneOff \/ StopOneBack
  PROVE  IsolationInv'
<1>0. /\ idx \in K /\ thread \in [K -> 0 .. MaxPid] /\ states \in [K -> SessionStates]
      /\ err \in BOOLEAN /\ ours \subseteq 1 .. MaxPid
      /\ OwnThreadTracked
      /\ pc \in LoopPCs /\ pc \in StopOnePCs
  BY DEF SessionInv, TypeOK, LoopPCs, StopOnePCs, StopOneState, StopOneOff, StopOneBack
<1>1. UNCHANGED <<hier, tune, nextPid, staged, owns, ours, touched, faults>>
  BY DEF StopOneState, StopOneOff, StopOneBack, CommandOff, kernelVars, sessionVars, Rest
<1>2. /\ ~On(idx) => ~OwnRunning(idx)
      /\ Untouched(idx) => OwnRunning(idx)
      /\ faults = MaxFaults /\ pc # "start_pid" /\ OwnRunning(idx) => thread[idx] = states[idx]
      /\ pc = "one_back" => ~OwnRunning(idx)
      /\ On(idx) /\ thread[idx] = states[idx] => IsRunning(states[idx])
  BY <1>0, MaxPidAssumption DEF On, OwnRunning, Untouched, IsolationInv, IsRunning
<1>3. ASSUME UNCHANGED thread, ~On(idx), states' = [states EXCEPT ![idx] = Staged],
             NextKdamond(err)
      PROVE  IsolationInv'
  <2>1. /\ UNCHANGED <<kernelVars, staged, ours, touched, faults>>
        /\ \A j \in K : OwnRunning(j) => states'[j] = states[j]
    BY <1>0, <1>1, <1>2, <1>3 DEF kernelVars
  <2>. QED BY <1>0, <1>2, <1>3, <2>1, IsolationAdvances
<1>4. ASSUME UNCHANGED <<thread, states>>, Fail, faults # MaxFaults \/ ~OwnRunning(idx)
      PROVE  IsolationInv'
  <2>1. UNCHANGED <<kernelVars, states, staged, ours, owns, touched, faults>>
    BY <1>1, <1>4 DEF kernelVars
  <2>2. pc \notin {"rollback_count", "stop_begin", "stop_count", "start_pid"}
    BY <1>0 DEF StopOnePCs
  <2>3. \/ faults # MaxFaults
        \/ /\ pc \in {"rollback_config", "stop_config"} \cup StopOnePCs => ~Untouched(idx)
           /\ pc \in {"rollback_count", "stop_begin", "stop_count"} => \A i \in K : ~Untouched(i)
           /\ pc = "start_pid" => ~OwnRunning(idx)
    BY <1>2, <1>4, <2>2
  <2>. QED BY <1>4, <2>1, <2>3, IsolationFails
<1>5. CASE StopOneState
  <2>1. pc = "one_state" /\ UNCHANGED thread
    BY <1>5 DEF StopOneState, kernelVars
  <2>2. CASE ~On(idx)
    BY <1>3, <1>5, <2>1, <2>2 DEF StopOneState
  <2>3. CASE On(idx) /\ ~IsRunning(states[idx])
    BY <1>2, <1>4, <1>5, <2>1, <2>3 DEF StopOneState
  <2>4. CASE On(idx) /\ IsRunning(states[idx])
    <3>1. pc' = "one_pid" /\ idx' = idx /\ UNCHANGED states
      BY <1>5, <2>4 DEF StopOneState, Jump
    <3>2. UNCHANGED <<kernelVars, states, staged, ours, touched, faults>>
      BY <1>1, <2>1, <3>1 DEF kernelVars
    <3>. QED BY <1>0, <2>1, <3>1, <3>2, IsolationMoves
  <2>. QED BY <2>2, <2>3, <2>4
<1>6. CASE StopOneBack
  <2>1. pc = "one_back" /\ UNCHANGED thread
    BY <1>6 DEF StopOneBack, kernelVars
  <2>. QED BY <1>2, <1>3, <1>4, <1>6, <2>1 DEF StopOneBack
<1>7. CASE StopOneOff /\ ~CommandOff(idx)
  <2>1. pc = "one_off" /\ ~On(idx) /\ Fail /\ UNCHANGED <<thread, states>>
    BY <1>7 DEF StopOneOff, kernelVars, sessionVars
  <2>. QED BY <1>2, <1>4, <2>1
<1>8. CASE StopOneOff /\ CommandOff(idx)
  <2>1. /\ pc = "one_off" /\ pc' = "one_back" /\ idx' = idx /\ UNCHANGED states
        /\ thread' = [thread EXCEPT ![idx] = 0]
    BY <1>8 DEF StopOneOff, CommandOff, Jump, sessionVars, On
  <2>2. \A i \in K : /\ OwnRunning(i)' => OwnRunning(i) /\ i # idx
                     /\ i # idx => thread'[i] = thread[i]
    BY <1>0, <1>1, <2>1 DEF OwnRunning
  <2>3. /\ VerifyCount' <=> VerifyCount
        /\ \A i \in K : VerifyKdamond(i)' <=> VerifyKdamond(i)
        /\ \A i \in K : Untouched(i)' => Untouched(i) /\ OwnRunning(i)' /\ i # idx
    BY <1>1, <2>2 DEF VerifyCount, VerifyKdamond, Untouched
  <2>4. (\A i \in K : Untouched(i) => VerifyCount /\ VerifyKdamond(i))'
    BY <2>3 DEF IsolationInv
  <2>5. (faults = MaxFaults =>
          /\ \A i \in K : OwnRunning(i) => states[i] = thread[i]
          /\ \A i \in K : i > idx => ~Untouched(i))'
    BY <1>0, <1>1, <2>1, <2>2, <2>3 DEF IsolationInv
  <2>6. (~OwnRunning(idx))'
    BY <1>0, <2>1, <2>2
  <2>. QED BY <2>1, <2>4, <2>5, <2>6 DEF IsolationInv
<1>. QED BY <1>5, <1>6, <1>7, <1>8

\* A call begins where no loop is.
LEMMA IsolationCalls ==
  ASSUME SessionInv, IsolationInv, UserCall
  PROVE  IsolationInv'
<1>1. /\ UNCHANGED <<kernelVars, states, staged, ours, touched, faults>>
      /\ pc = "idle" /\ pc' \in {"start_verify", "stop_begin", "idle"}
      /\ pc' = "idle" => result' = "rejected"
  BY DEF UserCall, StartAll, StopAll, Close, Drop, Call, Return, sessionVars, historyVars
<1>. QED BY <1>1, IsolationMoves DEF LoopPCs, StopOnePCs

\* Failing accesses are not promised anything; the kernel ends threads and
\* moves no file that is compared; another controller touches what it changes.
LEMMA IsolationEnvironment ==
  ASSUME SessionInv, SessionInv', IsolationInv, Environment
  PROVE  IsolationInv'
<1>0. /\ idx \in K /\ idx' \in K /\ thread \in [K -> 0 .. MaxPid]
      /\ hier \in [K -> Values \cup {Absent}] /\ touched \subseteq K
      /\ \A p \in ours : p < nextPid
      /\ nextPid \in 1 .. MaxPid + 1 /\ nextPid \notin ours
      /\ faults \in 0 .. MaxFaults /\ 0 \notin ours
  BY DEF SessionInv, TypeOK, PidInv
<1>1. CASE IoError \/ TransientBusy
  <2>1. /\ UNCHANGED <<kernelVars, states, staged, ours, touched>>
        /\ pc' \notin {"start_on", "one_back"} /\ faults' # MaxFaults
    BY <1>0, <1>1, FailLeads, BoundsAssumption
    DEF IoError, TransientBusy, Goto, Jump, sessionVars, historyVars, SessionInv
  <2>2. /\ VerifyCount' <=> VerifyCount
        /\ \A i \in K : VerifyKdamond(i)' <=> VerifyKdamond(i)
        /\ \A i \in K : Untouched(i)' <=> Untouched(i)
    BY <2>1 DEF kernelVars, VerifyCount, VerifyKdamond, Untouched, OwnRunning
  <2>. QED BY <2>1, <2>2 DEF IsolationInv
<1>2. CASE TornWrite
  <2>1. /\ op = "open" /\ ours' = ours
    BY <1>2 DEF TornWrite, historyVars, SessionInv, OpInv, StagePCs
  <2>2. ours' = {} /\ pc' # "start_on"
    BY <1>2, <2>1, FailLeads DEF TornWrite, StageNext, Goto, Jump, SessionInv, OpInv
  <2>. QED BY <1>0, <2>2, IsolationEmpty DEF OwnRunning
\* What every act of the rest of the world is seen as.
<1>3. ASSUME UNCHANGED <<states, staged, ours, faults, pc, idx, result>>,
             touched \subseteq touched',
             \A i \in K : thread'[i] \in ours => thread'[i] = thread[i],
             \A i \in K : i \notin touched' => hier'[i] = hier[i],
             touched' = K \/ (VerifyCount' <=> VerifyCount)
      PROVE  IsolationInv'
  <2>1. \A i \in K : /\ OwnRunning(i)' => OwnRunning(i) /\ thread'[i] = thread[i]
                     /\ Untouched(i)' => Untouched(i) /\ i \notin touched'
    BY <1>3 DEF OwnRunning, Untouched
  <2>2. \A i \in K : i \notin touched' => /\ VerifyKdamond(i)' <=> VerifyKdamond(i)
                                          /\ VerifyCount' <=> VerifyCount
    BY <1>3 DEF VerifyKdamond
  <2>3. (\A i \in K : Untouched(i) => VerifyCount /\ VerifyKdamond(i))'
    BY <2>1, <2>2 DEF IsolationInv
  <2>4. (pc = "start_on" /\ idx \notin touched => VerifyCount /\ VerifyKdamond(idx))'
    <3>. SUFFICES ASSUME pc' = "start_on", idx' \notin touched'
                  PROVE  VerifyCount' /\ VerifyKdamond(idx)'
      OBVIOUS
    <3>1. VerifyCount /\ VerifyKdamond(idx)
      BY <1>3 DEF IsolationInv
    <3>. QED BY <1>0, <1>3, <3>1 DEF VerifyKdamond
  <2>5. (pc = "one_back" => ~OwnRunning(idx))'
    BY <1>0, <1>3, <2>1 DEF IsolationInv, OwnRunning
  <2>6. (faults = MaxFaults =>
          /\ \A i \in K : OwnRunning(i) => \/ states[i] = thread[i]
                                           \/ pc = "start_pid" /\ idx = i
          /\ pc \in LoopPCs => \A i \in K : i > idx => ~Untouched(i)
          /\ \/ pc \in {"stop_final", "ended"}
             \/ pc = "idle" /\ result \in {"stop_failed", "rollback_failed"}
             => \A i \in K : ~Untouched(i))'
    BY <1>3, <2>1 DEF IsolationInv
  <2>. QED BY <2>3, <2>4, <2>5, <2>6 DEF IsolationInv
<1>4. ASSUME NEW i \in K, KdamondExits(i) \/ KernelTunes(i)
      PROVE  IsolationInv'
  <2>1. /\ UNCHANGED <<states, staged, ours, faults, pc, idx, result, touched, hier>>
        /\ \A j \in K : thread'[j] \in ours => thread'[j] = thread[j]
    BY <1>0, <1>4 DEF KdamondExits, KernelTunes, ThreadExit, CommandOff, TuneIntervals, sessionVars,
       controlVars, historyVars
  <2>2. VerifyCount' <=> VerifyCount
    BY <2>1 DEF VerifyCount
  <2>. QED BY <1>3, <2>1, <2>2
<1>5. ASSUME NEW i \in K, RogueStarts(i) \/ RogueStops(i)
      PROVE  IsolationInv'
  <2>1. /\ UNCHANGED <<states, staged, ours, faults, pc, idx, result, hier>>
        /\ touched \subseteq touched'
        /\ \A j \in K : thread'[j] \in ours => thread'[j] = thread[j]
    BY <1>0, <1>5 DEF RogueStarts, RogueStops, RogueActs, CommandOn, CommandOff, sessionVars, controlVars
  <2>2. VerifyCount' <=> VerifyCount
    BY <2>1 DEF VerifyCount
  <2>. QED BY <1>3, <2>1, <2>2
<1>6. ASSUME NEW i \in K, RogueWrites(i)
      PROVE  IsolationInv'
  <2>1. PICK v \in RogueValues : hier' = [hier EXCEPT ![i] = v]
    BY <1>6 DEF RogueWrites, WriteDirectory
  <2>2. /\ UNCHANGED <<states, staged, ours, faults, pc, idx, result, thread>>
        /\ touched' = touched \cup {i} /\ hier[i] # Absent
    BY <1>6 DEF RogueWrites, WriteDirectory, RogueActs, sessionVars, controlVars, Present
  <2>3. v # Absent
    BY RogueAssumption, ValuesAssumption
  <2>4. \A j \in K : hier'[j] # Absent <=> hier[j] # Absent
    BY <1>0, <2>1, <2>2, <2>3
  <2>5. VerifyCount' <=> VerifyCount
    BY <2>4 DEF VerifyCount, Present
  <2>. QED BY <1>0, <1>3, <2>1, <2>2, <2>5
<1>7. ASSUME NEW n \in 0 .. N, RogueResizes(n)
      PROVE  IsolationInv'
  <2>1. /\ UNCHANGED <<states, staged, ours, faults, pc, idx, result, thread>>
        /\ touched' = K
    BY <1>0, <1>7 DEF RogueResizes, SetCount, RogueActs, sessionVars, controlVars
  <2>. QED BY <1>0, <1>3, <2>1
<1>. QED BY <1>1, <1>2, <1>4, <1>5, <1>6, <1>7 DEF Environment

\* Before managed_hierarchy the session has no thread.
LEMMA IsolationInit == Init => IsolationInv
<1>. SUFFICES ASSUME Init PROVE IsolationInv
  OBVIOUS
<1>1. /\ \A i \in K : ~OwnRunning(i) /\ ~Untouched(i)
      /\ pc = "none" /\ idx \in K
  BY FirstKdamond DEF Init, OwnRunning, Untouched
<1>. QED BY <1>1 DEF IsolationInv

\* Every step keeps untouched threads recorded, staged and ahead of the loops.
LEMMA IsolationNext ==
  ASSUME SessionInv, SessionInv', IsolationInv, [Next]_vars
  PROVE  IsolationInv'
<1>1. CASE Proceed
  BY <1>1, IsolationChecks, IsolationWrites, IsolationStarts, IsolationStops
  DEF Proceed, OpenStep, StageStep, RestoreStep, StartStep, StopStep, CloseStep
<1>2. CASE UserCall
  BY <1>2, IsolationCalls
<1>3. CASE Environment
  BY <1>3, IsolationEnvironment
<1>4. CASE UNCHANGED vars
  <2>1. UNCHANGED <<hier, thread, states, staged, ours, touched, faults, pc, idx, result>>
    BY <1>4 DEF vars, kernelVars, sessionVars, controlVars, historyVars
  <2>. QED BY <2>1 DEF IsolationInv, Untouched, OwnRunning, VerifyCount, VerifyKdamond
<1>. QED BY <1>1, <1>2, <1>3, <1>4 DEF Next, Ended

\* Every step of the session keeps its inductive invariant.
LEMMA SessionNext == SessionInv /\ [Next]_vars => SessionInv'
  BY TypeNext, OpNext, LoopNext, PidNext DEF SessionInv

\* Interference with one kdamond never keeps the thread of another alive
\* (stop_all, rollback_started, close_inner go on after an error).
THEOREM StopsAreIsolated == Spec => []StopIsolation
<1>1. Init => IsolationInv
  BY IsolationInit
<1>2. SessionInv /\ SessionInv' /\ IsolationInv /\ [Next]_vars => IsolationInv'
  BY IsolationNext
<1>3. IsolationInv => StopIsolation
  BY DEF IsolationInv, StopIsolation, Untouched
<1>. QED BY <1>1, <1>2, <1>3, SessionInvariant, PTL DEF Spec

-----------------------------------------------------------------------------
\* The steps that write files or record what was read, of the session and of
\* the rest of the world.
LEMMA FileMoves ==
  ASSUME [Next]_vars
  PROVE  /\ origin' = origin
         /\ \/ UNCHANGED <<hier, tune, staged, previous>>
            \/ OpenCapture \/ OpenStopped \/ StageCount \/ StageWrite \/ StageCapture \/ TornWrite
            \/ RestoreCount \/ RestoreShape \/ RestoreWrite
            \/ \E i \in K : KernelTunes(i) \/ RogueWrites(i)
            \/ \E n \in 0 .. N : RogueResizes(n)
<1>. USE DEF kernelVars, sessionVars, historyVars, Rest, Check
<1>1. CASE EnsureStopped BY <1>1 DEF EnsureStopped
<1>2. CASE OpenStep
  BY <1>2 DEF OpenStep, Open, OpenCapture, OpenVerify, OpenStopped, OpenNew
<1>3. CASE StageStep
  BY <1>3 DEF StageStep, StageCount, StageWrite, StageCapture, StageVerify
<1>4. CASE RestoreStep
  BY <1>4 DEF RestoreStep, RestoreCount, RestoreShape, RestoreWrite, RestoreCheck, RestoreMatch
<1>5. CASE StartStep
  BY <1>5 DEF StartStep, StartVerify, StartOff, StartCheck, StartOn, StartPid, StartIdentity,
     StartConfig, StartFinal, RollbackCount, RollbackConfig, CommandOn
<1>6. CASE StopStep
  BY <1>6 DEF StopStep, StopBegin, StopCount, StopConfig, StopFinal, StopOneState, StopOnePid,
     StopOneOff, StopOneBack, CommandOff
<1>7. CASE CloseStep
  BY <1>7 DEF CloseStep, CloseVerify, CloseMatch
<1>8. CASE UserCall
  BY <1>8 DEF UserCall, StartAll, StopAll, Close, Drop, Call
<1>9. CASE IoError \/ TornWrite \/ TransientBusy
  BY <1>9 DEF IoError, TornWrite, TransientBusy
<1>10. ASSUME NEW i \in K,
              KdamondExits(i) \/ KernelTunes(i) \/ RogueStarts(i) \/ RogueStops(i) \/ RogueWrites(i)
       PROVE  /\ origin' = origin
              /\ UNCHANGED <<hier, tune, staged, previous>> \/ KernelTunes(i) \/ RogueWrites(i)
  BY <1>10 DEF KdamondExits, KernelTunes, RogueStarts, RogueStops, RogueWrites, RogueActs,
     ThreadExit, CommandOn, CommandOff
<1>11. ASSUME NEW n \in 0 .. N, RogueResizes(n)
       PROVE  origin' = origin
  BY <1>11 DEF RogueResizes, RogueActs
<1>12. CASE UNCHANGED vars
  BY <1>12 DEF vars
<1>. QED
  BY <1>1, <1>2, <1>3, <1>4, <1>5, <1>6, <1>7, <1>8, <1>9, <1>10, <1>11, <1>12
  DEF Next, Proceed, Environment, Ended

\* A closing restoration is entered from the last check that the hierarchy is
\* the staged one (close_inner).
LEMMA RestorationEntered ==
  ASSUME SessionInv, [Next]_vars, op' \in {"close", "drop"}, pc' \in {"close_match"} \cup RestorePCs
  PROVE  \/ pc \in {"close_match"} \cup RestorePCs /\ op' = op
         \/ Verify /\ UNCHANGED <<kernelVars, staged, previous>>
<1>1. ASSUME Fail PROVE pc \in {"close_match"} \cup RestorePCs /\ op' = op
  <2>1. ASSUME NEW e \in BOOLEAN, NextKdamond(e) PROVE FALSE
    BY <2>1 DEF NextKdamond, StopReturn, CloseFailed, Goto, Jump, Return, RestorePCs
  <2>. QED
    BY <1>1, <2>1 DEF Fail, StopReturn, StartFailed, CloseFailed, Goto, Jump, Return, RestorePCs,
       SessionInv, OpInv
<1>. USE <1>1 DEF Goto, Jump, Return, Check, RestorePCs
<1>2. CASE EnsureStopped BY <1>2 DEF EnsureStopped
<1>3. CASE OpenStep
  BY <1>3 DEF OpenStep, Open, OpenCapture, OpenVerify, OpenStopped, OpenNew
<1>4. CASE StageStep
  BY <1>4 DEF StageStep, StageCount, StageWrite, StageNext, StageCapture, StageVerify
<1>5. CASE RestoreStep
  BY <1>5 DEF RestoreStep, RestoreCount, RestoreShape, RestoreWrite, RestoreShapes, RestoreValues,
     RestoreCheck, RestoreMatch, RestoreDone
<1>6. CASE StartStep
  BY <1>6 DEF StartStep, StartVerify, StartOff, StartCheck, StartOn, StartPid,
     StartIdentity, StartConfig, StartFinal, RollbackCount, RollbackConfig, NextKdamond,
     StopReturn, CloseFailed
<1>7. CASE StopStep
  BY <1>7 DEF StopStep, StopBegin, StopCount, StopConfig, StopFinal, StopOneState,
     StopOnePid, StopOneOff, StopOneBack, NextKdamond, StopReturn, CloseFailed
<1>8. CASE CloseStep
  BY <1>8 DEF CloseStep, CloseVerify, CloseMatch, RestoreDone, sessionVars
<1>9. CASE UserCall
  BY <1>9 DEF UserCall, StartAll, StopAll, Close, Drop, Call
<1>10. CASE Environment
  BY <1>10, EnvironmentSplit DEF TransientBusy, StageNext, controlVars, SessionInv, OpInv, StagePCs
<1>11. CASE UNCHANGED vars
  BY <1>11 DEF vars, controlVars
<1>. QED
  BY <1>2, <1>3, <1>4, <1>5, <1>6, <1>7, <1>8, <1>9, <1>10, <1>11 DEF Next, Proceed, Ended

\* What a closing restoration may find at a kdamond: what the session staged or
\* what an attempt of this restoration left.
Own(i) == {staged[i], previous.hier[i], Mixed, Rebuilt(Present(previous.hier))[i]}

\* From the last check on only the restoration's own writes change what it finds,
\* or another controller acted in the window nothing can close.
RestoringInv ==
    /\ "restore" \notin raced
    /\ op \in {"close", "drop"}
    /\ pc \in {"close_match"} \cup RestorePCs
    => \A i \in K : hier[i] \in Own(i)

\* Every step keeps it.
LEMMA RestoringNext ==
  ASSUME SessionInv, SessionInv', RestoringInv, [Next]_vars
  PROVE  RestoringInv'
<1>. SUFFICES ASSUME "restore" \notin raced', op' \in {"close", "drop"},
                     pc' \in {"close_match"} \cup RestorePCs
              PROVE  \A i \in K : hier'[i] \in Own(i)'
  BY DEF RestoringInv
<1>1. "restore" \notin raced
  BY RacesKept
<1>2. CASE Verify /\ UNCHANGED <<kernelVars, staged, previous>>
  BY <1>2 DEF Verify, VerifyKdamond, Own, kernelVars
<1>3. CASE pc \in {"close_match"} \cup RestorePCs /\ op' = op
  <2>0. \A i \in K : hier[i] \in Own(i)
    BY <1>1, <1>3 DEF RestoringInv
  <2>1. /\ idx \in K /\ hier \in [K -> Values \cup {Absent}]
    BY DEF SessionInv, TypeOK
  <2>2. CASE UNCHANGED <<hier, staged, previous>>
    BY <2>0, <2>2 DEF Own
  <2>3. CASE RestoreCount
    BY <2>0, <2>3 DEF RestoreCount, SetCount, Own, sessionVars, kernelVars
  <2>4. CASE RestoreShape \/ RestoreWrite
    <3>1. /\ UNCHANGED <<staged, previous>>
          /\ hier' = hier \/ \E v \in {Mixed, previous.hier[idx]} : hier' = [hier EXCEPT ![idx] = v]
      BY <2>4 DEF RestoreShape, RestoreWrite, RestoreOutcome, WriteDirectory, sessionVars, kernelVars
    <3>. QED BY <2>0, <2>1, <3>1 DEF Own
  <2>5. ASSUME NEW i \in K, KernelTunes(i) PROVE UNCHANGED <<hier, staged, previous>>
    BY <2>5 DEF KernelTunes, TuneIntervals, sessionVars
  <2>6. RestoreWindow
    BY <1>3 DEF RestoreWindow
  <2>7. ASSUME NEW i \in K, RogueWrites(i) PROVE FALSE
    BY <2>6, <2>7 DEF RogueWrites, RogueActs
  <2>8. ASSUME NEW n \in 0 .. N, RogueResizes(n) PROVE FALSE
    BY <2>6, <2>8 DEF RogueResizes, RogueActs
  <2>9. ~(OpenCapture \/ OpenStopped \/ StageCount \/ StageWrite \/ StageCapture \/ TornWrite)
    BY <1>3 DEF RestorePCs, OpenCapture, OpenStopped, StageCount, StageWrite, StageCapture, TornWrite
  <2>. QED BY <2>2, <2>3, <2>4, <2>5, <2>7, <2>8, <2>9, FileMoves
<1>. QED BY <1>2, <1>3, RestorationEntered

\* A closing restoration wipes the session's own work and nothing else, unless
\* another controller acted after its last check (close_inner, retry_busy).
THEOREM RestoresOwn == Spec => RestoresOnlyItsOwn
<1>1. Init => RestoringInv
  BY DEF Init, RestoringInv, RestorePCs
<1>2. SessionInv /\ SessionInv' /\ RestoringInv /\ [Next]_vars => RestoringInv'
  BY RestoringNext
<1>3. RestoringInv /\ [Next]_vars
      => [pc = "restore_count" /\ pc' \in {"restore_shape", "restore_check"}
            /\ op \in {"close", "drop"} /\ "restore" \notin raced
          => \A i \in K : hier[i] \in {staged[i], previous.hier[i], Mixed,
                                     Rebuilt(Present(previous.hier))[i]}]_vars
  BY DEF RestoringInv, Own, RestorePCs
<1>. QED BY <1>1, <1>2, <1>3, SessionInvariant, PTL DEF Spec, RestoresOnlyItsOwn

-----------------------------------------------------------------------------
\* No other controller has acted, and besides no access has failed.
Quiet == rogue = MaxRogue
Calm == Quiet /\ faults = MaxFaults

\* The hierarchy the session found is there.
IsBack == hier = origin /\ tune = Untuned

\* Left to itself, the session knows what it found and every thread is its own;
\* up to its first write the hierarchy is as it was, and a restoration works
\* its way through the directories: rebuilt, shaped, filled.
QuietInv ==
    Quiet =>
        /\ \A i \in K : On(i) => OwnRunning(i)
        /\ previous.hier = origin /\ previous.tune = Untuned
        /\ pc = "none" \/ op = "open" => tune = Untuned /\ ~owns
        /\ pc \in {"none"} \cup OpenPCs => hier = origin
        /\ pc \in {"restore_shape", "restore_write"} =>
              /\ idx \in Present(origin) /\ tune = Untuned
              /\ Present(hier) = Present(origin)
        /\ pc = "restore_shape" => \A i \in Present(origin) : i < idx => hier[i] = Mixed
        /\ pc = "restore_write" =>
              \A i \in Present(origin) : hier[i] = IF i < idx THEN origin[i] ELSE Mixed
        /\ pc \in {"restore_check", "restore_stopped2", "restore_match"} => IsBack
        /\ result = "open_failed" => pc = "ended" /\ IsBack /\ ours = {}

\* The budget of the rogue only shrinks: a quiet step follows quiet ones.
LEMMA QuietSteps ==
  ASSUME SessionInv, [Next]_vars, Quiet'
  PROVE  /\ Quiet
         /\ \A i \in K : ~RogueStarts(i) /\ ~RogueStops(i) /\ ~RogueWrites(i)
         /\ \A n \in 0 .. N : ~RogueResizes(n)
<1>0. rogue \in 0 .. MaxRogue /\ rogue' = MaxRogue /\ MaxRogue \in Nat
  BY BoundsAssumption DEF SessionInv, TypeOK, Quiet
<1>1. ASSUME NEW dirs, NEW windows, RogueActs(dirs, windows) PROVE FALSE
  BY <1>0, <1>1 DEF RogueActs
<1>2. \A i \in K : ~RogueStarts(i) /\ ~RogueStops(i) /\ ~RogueWrites(i)
  BY <1>1 DEF RogueStarts, RogueStops, RogueWrites
<1>3. \A n \in 0 .. N : ~RogueResizes(n)
  BY <1>1 DEF RogueResizes
<1>4. rogue' = rogue
  <2>. USE DEF Rest, Check
  <2>1. CASE EnsureStopped \/ OpenStep \/ StageStep \/ RestoreStep
    BY <2>1 DEF EnsureStopped, OpenStep, Open, OpenCapture, OpenVerify, OpenStopped, OpenNew,
       StageStep, StageCount, StageWrite, StageCapture, StageVerify,
       RestoreStep, RestoreCount, RestoreShape, RestoreWrite, RestoreCheck, RestoreMatch
  <2>2. CASE StartStep \/ StopStep \/ CloseStep
    BY <2>2 DEF StartStep, StartVerify, StartOff, StartCheck, StartOn, StartPid,
       StartIdentity, StartConfig, StartFinal, RollbackCount, RollbackConfig,
       StopStep, StopBegin, StopCount, StopConfig, StopFinal, StopOneState,
       StopOnePid, StopOneOff, StopOneBack, CloseStep, CloseVerify, CloseMatch
  <2>3. CASE UserCall
    BY <2>3 DEF UserCall, StartAll, StopAll, Close, Drop, Call
  <2>4. CASE Environment
    BY <1>2, <1>3, <2>4 DEF Environment, IoError, TornWrite, TransientBusy, KdamondExits, KernelTunes
  <2>5. CASE UNCHANGED vars
    BY <2>5 DEF vars
  <2>. QED BY <2>1, <2>2, <2>3, <2>4, <2>5 DEF Next, Proceed, Ended
<1>. QED BY <1>0, <1>2, <1>3, <1>4 DEF Quiet

\* In a quiet world nothing runs while everything is recorded Staged.
LEMMA QuietOff ==
  ASSUME SessionInv, QuietInv, Quiet,
         pc = "none" \/ op = "open" \/ AllStaged \/ ours = {}
  PROVE  AllOff
<1>1. \A i \in K : ~OwnRunning(i)
  BY StagedLeavesNone DEF SessionInv, LoopInv, OwnRunning
<1>. QED BY <1>1 DEF QuietInv, AllOff

\* A finished session does nothing more.
LEMMA EndedStays ==
  ASSUME SessionInv, [Next]_vars, pc = "ended"
  PROVE  UNCHANGED <<sessionVars, controlVars, ours>>
<1>1. ~Fail
  BY DEF Fail, OpenPCs, StagePCs, RestorePCs, StartPCs, StopOnePCs, ClosePCs
<1>2. ~Proceed
  BY DEF Proceed, EnsureStopped, OpenStep, Open, OpenCapture, OpenVerify,
     OpenStopped, OpenNew, StageStep, StageCount, StageWrite, StageCapture, StageVerify,
     RestoreStep, RestoreCount, RestoreShape, RestoreWrite, RestoreCheck, RestoreMatch,
     StartStep, StartVerify, StartOff, StartCheck, StartOn, StartPid,
     StartIdentity, StartConfig, StartFinal, RollbackCount, RollbackConfig,
     StopStep, StopBegin, StopCount, StopConfig, StopFinal, StopOneState,
     StopOnePid, StopOneOff, StopOneBack, CloseStep, CloseVerify, CloseMatch, Check
<1>3. ~UserCall
  BY DEF UserCall, StartAll, StopAll, Close, Drop, Call
<1>4. ~TransientBusy
  BY DEF TransientBusy
<1>5. CASE Environment
  BY <1>1, <1>4, <1>5, EnvironmentSplit
<1>6. CASE UNCHANGED vars
  BY <1>6 DEF vars, historyVars
<1>. QED BY <1>2, <1>3, <1>5, <1>6 DEF Next, Ended

\* managed_hierarchy goes from its checks to its writes and never back, and a
\* session is nobody's before it returned.
LEMMA OpenEntered ==
  ASSUME SessionInv, [Next]_vars
  PROVE  /\ pc' \in {"none"} \cup OpenPCs => pc \in {"none"} \cup OpenPCs
         /\ pc' = "none" \/ op' = "open" => (pc = "none" \/ op = "open") /\ owns' = owns
<1>1. ASSUME Fail
      PROVE  /\ pc' \notin {"none"} \cup OpenPCs
             /\ op' = "open" => op = "open"
  <2>1. ASSUME NEW e \in BOOLEAN, NextKdamond(e)
        PROVE  pc' \notin {"none"} \cup OpenPCs /\ (op' = "open" => op = "open")
    BY <2>1 DEF NextKdamond, StopReturn, CloseFailed, Goto, Jump, Return, OpenPCs
  <2>. QED
    BY <1>1, <2>1 DEF Fail, StopReturn, StartFailed, CloseFailed, Goto, Jump, Return, OpenPCs
<1>. USE <1>1 DEF Goto, Jump, Return, Check, OpenPCs, sessionVars
<1>2. CASE EnsureStopped BY <1>2 DEF EnsureStopped
<1>3. CASE OpenStep
  BY <1>3 DEF OpenStep, Open, OpenCapture, OpenVerify, OpenStopped, OpenNew
<1>4. CASE StageStep
  BY <1>4 DEF StageStep, StageCount, StageWrite, StageNext, StageCapture, StageVerify
<1>5. CASE RestoreStep
  BY <1>5 DEF RestoreStep, RestoreCount, RestoreShape, RestoreWrite, RestoreShapes, RestoreValues,
     RestoreCheck, RestoreMatch, RestoreDone
<1>6. CASE StartStep
  BY <1>6 DEF StartStep, StartVerify, StartOff, StartCheck, StartOn, StartPid,
     StartIdentity, StartConfig, StartFinal, RollbackCount, RollbackConfig, NextKdamond,
     StopReturn, CloseFailed
<1>7. CASE StopStep
  BY <1>7 DEF StopStep, StopBegin, StopCount, StopConfig, StopFinal, StopOneState,
     StopOnePid, StopOneOff, StopOneBack, NextKdamond, StopReturn, CloseFailed
<1>8. CASE CloseStep
  BY <1>8 DEF CloseStep, CloseVerify, CloseMatch, RestoreDone
<1>9. CASE UserCall
  BY <1>9 DEF UserCall, StartAll, StopAll, Close, Drop, Call
<1>10. CASE Environment
  BY <1>10, EnvironmentSplit DEF TransientBusy, StageNext, controlVars
<1>11. CASE UNCHANGED vars
  BY <1>11 DEF vars, controlVars
<1>. QED
  BY <1>2, <1>3, <1>4, <1>5, <1>6, <1>7, <1>8, <1>9, <1>10, <1>11 DEF Next, Proceed, Ended

\* Where each stage of a restoration is entered from (restore_configuration).
RestoreStages == {"restore_shape", "restore_write", "restore_check", "restore_stopped2", "restore_match"}
LEMMA RestoreLeads ==
  ASSUME SessionInv, [Next]_vars, pc' \in RestoreStages
  PROVE  \/ /\ UNCHANGED <<pc, idx>>
            /\ ~(RestoreCount \/ RestoreShape \/ RestoreWrite)
         \/ RestoreCount /\ SetCount(Present(previous.hier)) /\ RestoreShapes(0)
         \/ /\ RestoreShape /\ RestoreShapes(idx + 1)
            /\ WriteDirectory(idx, Mixed, tune[idx])
         \/ /\ RestoreWrite /\ RestoreValues(idx + 1)
            /\ \E v \in RestoreOutcome(idx) : WriteDirectory(idx, v, previous.tune[idx])
         \/ pc = "restore_check" /\ Matches(previous) /\ pc' = "restore_stopped2"
            /\ UNCHANGED kernelVars
         \/ pc = "restore_stopped2" /\ pc' = "restore_match" /\ UNCHANGED kernelVars
<1>0. pc \in PCs BY DEF SessionInv, TypeOK
<1>1. ASSUME Fail PROVE FALSE
  <2>1. ASSUME NEW e \in BOOLEAN, NextKdamond(e) PROVE FALSE
    BY <2>1 DEF NextKdamond, StopReturn, CloseFailed, Goto, Jump, Return, RestoreStages
  <2>. QED
    BY <1>1, <2>1 DEF Fail, StopReturn, StartFailed, CloseFailed, Goto, Jump, Return, RestoreStages
<1>. USE <1>1 DEF RestoreStages
<1>2. CASE EnsureStopped BY <1>2 DEF EnsureStopped, Check, Goto, Jump
<1>3. CASE OpenStep
  BY <1>3 DEF OpenStep, Open, OpenCapture, OpenVerify, OpenStopped, OpenNew, Check, Goto, Jump, Return
<1>4. CASE StageStep
  BY <1>4 DEF StageStep, StageCount, StageWrite, StageNext, StageCapture, StageVerify, Check, Goto, Jump
<1>5. CASE RestoreCount
  BY <1>5 DEF RestoreCount, Goto, Jump
<1>6. CASE RestoreShape
  BY <1>6 DEF RestoreShape
<1>7. CASE RestoreWrite
  BY <1>7 DEF RestoreWrite
<1>8. CASE RestoreCheck \/ RestoreMatch
  BY <1>8 DEF RestoreCheck, RestoreMatch, RestoreDone, Check, Goto, Jump, Return
<1>9. CASE StartStep
  BY <1>9 DEF StartStep, StartVerify, StartOff, StartCheck, StartOn, StartPid,
     StartIdentity, StartConfig, StartFinal, RollbackCount, RollbackConfig, NextKdamond,
     StopReturn, CloseFailed, Check, Goto, Jump, Return
<1>10. CASE StopStep
  BY <1>10 DEF StopStep, StopBegin, StopCount, StopConfig, StopFinal, StopOneState,
     StopOnePid, StopOneOff, StopOneBack, NextKdamond, StopReturn, CloseFailed, Check, Goto, Jump, Return
<1>11. CASE CloseStep
  BY <1>11 DEF CloseStep, CloseVerify, CloseMatch, RestoreDone, Check, Goto, Jump, Return
<1>12. CASE UserCall
  BY <1>12 DEF UserCall, StartAll, StopAll, Close, Drop, Call, Return
<1>13. CASE Environment \/ UNCHANGED vars
  <2>1. CASE UNCHANGED <<pc, idx>>
    <3>2. idx + 1 # idx
      BY DEF SessionInv, TypeOK, K
    <3>3. ~RestoreCount
      BY <2>1 DEF RestoreCount, RestoreShapes, RestoreValues, Goto, Jump
    <3>4. ~RestoreShape
      BY <2>1, <3>2 DEF RestoreShape, RestoreShapes, RestoreValues, Goto, Jump
    <3>5. ~RestoreWrite
      BY <2>1, <3>2 DEF RestoreWrite, RestoreValues, Goto, Jump
    <3>. QED BY <2>1, <3>3, <3>4, <3>5
  <2>2. CASE pc = "stage_write" /\ StageNext
    BY <2>2 DEF StageNext, Goto, Jump
  <2>3. CASE TransientBusy
    BY <2>3 DEF TransientBusy, Goto, Jump
  <2>. QED BY <1>13, <2>1, <2>2, <2>3, EnvironmentSplit DEF controlVars, vars
<1>. QED
  BY <1>2, <1>3, <1>4, <1>5, <1>6, <1>7, <1>8, <1>9, <1>10, <1>11, <1>12, <1>13
  DEF Next, Proceed, Ended, RestoreStep

\* A failed managed_hierarchy failed before its first write, or its restoration
\* matched what was found, or failed itself.
LEMMA OpenResults ==
  ASSUME SessionInv, [Next]_vars, result' \in {"open_failed", "open_rollback_failed"}
  PROVE  \/ result' = result
         \/ /\ result' = "open_failed" /\ pc' = "ended"
            /\ UNCHANGED <<kernelVars, ours>> /\ op = "open"
            /\ pc \in OpenPCs \/ (Matches(previous) /\ UNCHANGED previous)
         \/ /\ result' = "open_rollback_failed" /\ op = "open" /\ pc \in RestorePCs /\ pc' = "ended"
            /\ Proceed \/ IoError
<1>1. ASSUME Fail
      PROVE  \/ result' \notin {"open_failed", "open_rollback_failed"} \/ result' = result
             \/ result' = "open_failed" /\ pc' = "ended" /\ pc \in OpenPCs
             \/ result' = "open_rollback_failed" /\ op = "open" /\ pc \in RestorePCs /\ pc' = "ended"
  <2>1. ASSUME NEW e \in BOOLEAN, NextKdamond(e)
        PROVE  result' \notin {"open_failed", "open_rollback_failed"} \/ result' = result
    BY <2>1 DEF NextKdamond, StopReturn, CloseFailed, Goto, Jump, Return
  <2>. QED
    BY <1>1, <2>1 DEF Fail, StopReturn, StartFailed, CloseFailed, Goto, Jump, Return
<1>0. pc \in OpenPCs => op = "open"
  BY DEF SessionInv, OpInv
<1>. USE <1>0, <1>1 DEF Goto, Jump, Return, Check, sessionVars, historyVars
<1>2. CASE EnsureStopped BY <1>2 DEF EnsureStopped, Proceed
<1>3. CASE OpenStep
  BY <1>3 DEF OpenStep, Open, OpenCapture, OpenVerify, OpenStopped, OpenNew, Proceed, RestorePCs
<1>4. CASE StageStep
  BY <1>4 DEF StageStep, StageCount, StageWrite, StageNext, StageCapture, StageVerify, Proceed, RestorePCs, OpenPCs
<1>5. CASE RestoreStep
  BY <1>5 DEF RestoreStep, RestoreCount, RestoreShape, RestoreWrite, RestoreShapes, RestoreValues,
     RestoreCheck, RestoreMatch, RestoreDone, Proceed, OpenPCs
<1>6. CASE StartStep
  BY <1>6 DEF StartStep, StartVerify, StartOff, StartCheck, StartOn, StartPid,
     StartIdentity, StartConfig, StartFinal, RollbackCount, RollbackConfig, NextKdamond,
     StopReturn, CloseFailed, OpenPCs, RestorePCs
<1>7. CASE StopStep
  BY <1>7 DEF StopStep, StopBegin, StopCount, StopConfig, StopFinal, StopOneState,
     StopOnePid, StopOneOff, StopOneBack, NextKdamond, StopReturn, CloseFailed, OpenPCs, RestorePCs
<1>8. CASE CloseStep
  BY <1>8 DEF CloseStep, CloseVerify, CloseMatch, RestoreDone, SessionInv, OpInv, ClosePCs, OpenPCs, RestorePCs
<1>9. CASE UserCall
  BY <1>9 DEF UserCall, StartAll, StopAll, Close, Drop, Call
<1>10. CASE IoError
  BY <1>10 DEF IoError
<1>11. CASE TornWrite \/ TransientBusy
  BY <1>11 DEF TornWrite, TransientBusy, StageNext, OpenPCs, RestorePCs
<1>12. ASSUME NEW i \in K,
              KdamondExits(i) \/ KernelTunes(i) \/ RogueStarts(i) \/ RogueStops(i) \/ RogueWrites(i)
       PROVE  result' = result
  BY <1>12 DEF KdamondExits, KernelTunes, RogueStarts, RogueStops, RogueWrites, RogueActs, controlVars
<1>13. ASSUME NEW n \in 0 .. N, RogueResizes(n)
       PROVE  result' = result
  BY <1>13 DEF RogueResizes, RogueActs, controlVars
<1>14. CASE UNCHANGED vars
  BY <1>14 DEF vars, controlVars
<1>. QED
  BY <1>2, <1>3, <1>4, <1>5, <1>6, <1>7, <1>8, <1>9, <1>10, <1>11, <1>12, <1>13, <1>14
  DEF Next, Proceed, Environment, Ended

\* The hierarchy that was found has no gaps.
LEMMA NoGaps ==
  ASSUME TypeOK
  PROVE  /\ origin \in [K -> Values \cup {Absent}]
         /\ \A i, j \in K : i < j /\ origin[i] = Absent => origin[j] = Absent
         /\ \A i \in K : i \in Int /\ 0 <= i /\ (\A j \in K : j < i + 1 \/ i + 1 \in K)
BY InitialAssumption, NAssumption DEF TypeOK, Hierarchy, K

\* Threads of a quiet world are the session's.
LEMMA QuietThreads ==
  ASSUME SessionInv, QuietInv, [Next]_vars, Quiet'
  PROVE  \A i \in K : On(i)' => OwnRunning(i)'
<1>0. /\ TypeOK /\ OpInv /\ PidInv /\ Quiet
      /\ thread \in [K -> 0 .. MaxPid] /\ idx \in K
      /\ \A i \in K : ~RogueStarts(i)
      /\ \A i \in K : thread[i] # 0 => thread[i] \in ours
  BY QuietSteps DEF SessionInv, TypeOK, QuietInv, On, OwnRunning
<1>. USE <1>0 DEF On, OwnRunning
<1>1. CASE CommandOn(idx) /\ ours' = ours \cup {nextPid}
  BY <1>1 DEF CommandOn
<1>2. CASE ours' = ours /\ \E i \in K : thread' = [thread EXCEPT ![i] = 0]
  BY <1>2
<1>3. CASE UNCHANGED <<thread, ours>>
  BY <1>3
<1>. QED BY <1>1, <1>2, <1>3, PidMoves

\* Quiet steps do not change what was recorded of the hierarchy, and do not
\* touch it up to the first write of managed_hierarchy.
LEMMA QuietFiles ==
  ASSUME SessionInv, QuietInv, [Next]_vars, Quiet'
  PROVE  /\ origin' = origin /\ previous'.hier = origin /\ previous'.tune = Untuned
         /\ pc' = "none" \/ op' = "open" => tune' = Untuned /\ ~owns'
         /\ pc' \in {"none"} \cup OpenPCs => hier' = origin
<1>0. /\ Quiet /\ idx \in K /\ tune \in [K -> {0, 1}]
      /\ \A i \in K : ~RogueWrites(i)
      /\ \A n \in 0 .. N : ~RogueResizes(n)
      /\ previous.hier = origin /\ previous.tune = Untuned
  BY QuietSteps DEF SessionInv, TypeOK, QuietInv
<1>1. origin' = origin /\ (previous' = previous \/ OpenCapture)
  BY <1>0, FileMoves
  DEF OpenStopped, StageCount, StageWrite, StageCapture, TornWrite, RestoreCount, RestoreShape,
      RestoreWrite, KernelTunes, sessionVars
<1>2. OpenCapture => previous' = [hier |-> origin, tune |-> Untuned]
  BY <1>0 DEF OpenCapture, Snapshot, QuietInv, SessionInv, OpInv, OpenPCs
<1>3. ASSUME pc' = "none" \/ op' = "open" PROVE tune' = Untuned /\ ~owns'
  <2>1. (pc = "none" \/ op = "open") /\ owns' = owns /\ tune = Untuned /\ ~owns
    BY <1>0, <1>3, OpenEntered DEF QuietInv
  <2>2. AllOff
    BY <1>0, <2>1, QuietOff
  <2>3. \A i \in K : [Untuned EXCEPT ![i] = 0] = Untuned /\ Untuned[i] = 0
    BY DEF Untuned
  <2>4. ASSUME StageWrite PROVE tune' = tune
    <3>1. \A t \in StageTune(idx) : t = 0
      BY <1>0, <2>1, <2>3 DEF StageTune
    <3>. QED BY <1>0, <2>1, <2>3, <2>4, <3>1 DEF StageWrite, WriteDirectory, kernelVars
  <2>5. ASSUME TornWrite \/ RestoreShape \/ RestoreWrite PROVE tune' = tune
    BY <1>0, <2>1, <2>3, <2>5 DEF TornWrite, RestoreShape, RestoreWrite, WriteDirectory, kernelVars
  <2>6. ASSUME StageCount \/ RestoreCount PROVE tune' = Untuned
    BY <2>1, <2>6 DEF StageCount, RestoreCount, SetCount, kernelVars
  <2>7. ASSUME NEW i \in K, KernelTunes(i) PROVE FALSE
    BY <2>2, <2>7 DEF KernelTunes, TuneIntervals, AllOff
  <2>8. OpenCapture \/ OpenStopped \/ StageCapture => tune' = tune
    BY DEF OpenCapture, OpenStopped, StageCapture, kernelVars
  <2>. QED BY <1>0, <2>1, <2>4, <2>5, <2>6, <2>7, <2>8, FileMoves
<1>4. ASSUME pc' \in {"none"} \cup OpenPCs PROVE hier' = origin
  <2>1. pc \in {"none"} \cup OpenPCs /\ hier = origin
    BY <1>0, <1>4, OpenEntered DEF QuietInv
  <2>2. ~(StageCount \/ StageWrite \/ StageCapture \/ TornWrite
          \/ RestoreCount \/ RestoreShape \/ RestoreWrite)
    BY <2>1 DEF OpenPCs, StageCount, StageWrite, StageCapture, TornWrite, RestoreCount, RestoreShape,
       RestoreWrite
  <2>3. \A i \in K : KernelTunes(i) => hier' = hier
    BY DEF KernelTunes, TuneIntervals
  <2>. QED BY <1>0, <2>1, <2>2, <2>3, FileMoves DEF OpenCapture, OpenStopped, kernelVars
<1>. QED BY <1>0, <1>1, <1>2, <1>3, <1>4

\* What a quiet restoration has to find at its stages.
RestoreShapeInv ==
    /\ pc \in {"restore_shape", "restore_write"} =>
          /\ idx \in Present(origin) /\ tune = Untuned
          /\ Present(hier) = Present(origin)
    /\ pc = "restore_shape" => \A i \in Present(origin) : i < idx => hier[i] = Mixed
    /\ pc = "restore_write" =>
          \A i \in Present(origin) : hier[i] = IF i < idx THEN origin[i] ELSE Mixed
    /\ pc \in {"restore_check", "restore_stopped2", "restore_match"} => IsBack

\* The next stage after directory idx was shaped or filled.
LEMMA RestoreMovesOn ==
  ASSUME SessionInv, SessionInv', [Next]_vars, origin' = origin, previous.hier = origin, UNCHANGED previous,
         tune' = Untuned, Present(hier') = Present(origin), NEW j \in Int, 0 <= j
  PROVE  /\ /\ RestoreShapes(j)
            /\ \A i \in Present(origin) : i < j => hier'[i] = Mixed
            /\ j = 0 \/ j - 1 \in Present(origin)
            => RestoreShapeInv'
         /\ /\ RestoreValues(j)
            /\ \A i \in Present(origin) : hier'[i] = IF i < j THEN origin[i] ELSE Mixed
            /\ j = 0 \/ j - 1 \in Present(origin)
            => RestoreShapeInv'
<1>0. /\ origin \in [K -> Values \cup {Absent}] /\ hier' \in [K -> Values \cup {Absent}]
      /\ \A i, k \in K : i < k /\ origin[i] = Absent => origin[k] = Absent
      /\ \A i \in K : i \in Int /\ 0 <= i /\ (\A k \in K : k < i + 1 \/ i + 1 \in K)
  BY NoGaps DEF SessionInv, TypeOK
<1>1. ASSUME j \notin Present(origin), j = 0 \/ j - 1 \in Present(origin)
      PROVE  \A i \in Present(origin) : i < j
  <2>1. SUFFICES ASSUME NEW i \in Present(origin), ~(i < j) PROVE FALSE
    OBVIOUS
  <2>2. i \in K /\ i \in Int /\ 0 <= i /\ origin[i] # Absent
    BY <1>0 DEF Present
  <2>3. j \in K
    <3>1. CASE j = 0
      BY <3>1, FirstKdamond
    <3>2. CASE j - 1 \in Present(origin)
      <4>1. j - 1 \in K /\ ~(i < (j - 1) + 1) /\ (j - 1) + 1 = j
        BY <2>1, <2>2, <3>2 DEF Present
      <4>. QED BY <1>0, <2>2, <4>1
    <3>. QED BY <1>1, <3>1, <3>2
  <2>4. origin[j] = Absent
    BY <1>1, <2>3 DEF Present
  <2>. QED BY <1>0, <2>1, <2>2, <2>3, <2>4
<1>2. ASSUME RestoreValues(j), j = 0 \/ j - 1 \in Present(origin),
             \A i \in Present(origin) : hier'[i] = IF i < j THEN origin[i] ELSE Mixed
      PROVE  RestoreShapeInv'
  <2>1. CASE j \in Present(origin)
    BY <1>2, <2>1 DEF RestoreValues, Jump, RestoreShapeInv
  <2>2. CASE j \notin Present(origin)
    <3>1. \A i \in K : hier'[i] = origin[i]
      BY <1>1, <1>2, <2>2 DEF Present
    <3>2. hier' = origin
      BY <1>0, <3>1
    <3>. QED BY <1>2, <2>2, <3>2 DEF RestoreValues, Goto, Jump, RestoreShapeInv, IsBack
  <2>. QED BY <2>1, <2>2
<1>3. ASSUME RestoreShapes(j), j = 0 \/ j - 1 \in Present(origin),
             \A i \in Present(origin) : i < j => hier'[i] = Mixed
      PROVE  RestoreShapeInv'
  <2>1. CASE j \in Present(origin)
    BY <1>3, <2>1 DEF RestoreShapes, Jump, RestoreShapeInv
  <2>2. CASE j \notin Present(origin)
    <3>1. RestoreValues(0) /\ \A i \in Present(origin) : hier'[i] = Mixed
      BY <1>1, <1>3, <2>2 DEF RestoreShapes
    <3>2. CASE 0 \in Present(origin)
      <4>1. \A i \in Present(origin) : ~(i < 0)
        <5>1. \A i \in K : ~(i < 0)
          BY NAssumption DEF K
        <5>. QED BY <5>1 DEF Present
      <4>2. 0 \in Present(previous.hier)
        BY <3>2
      <4>3. pc' = "restore_write" /\ idx' = 0
        BY <3>1, <4>2 DEF RestoreValues, Jump
      <4>4. \A i \in Present(origin) : hier'[i] = IF i < 0 THEN origin[i] ELSE Mixed
        BY <3>1, <4>1
      <4>5. 0 \in Present(origin)'
        BY <3>2 DEF Present
      <4>6. Present(origin)' = Present(origin) /\ Present(hier)' = Present(hier')
        BY DEF Present
      <4>. QED BY <3>2, <4>3, <4>4, <4>5, <4>6 DEF RestoreShapeInv
    <3>3. CASE 0 \notin Present(origin)
      <4>1. \A i \in K : i \notin Present(origin)
        BY <1>0, <3>3, FirstKdamond DEF Present
      <4>2. \A i \in K : hier'[i] = origin[i]
        <5>1. \A i \in K : i \notin Present(hier')
          BY <4>1
        <5>. QED BY <4>1, <5>1 DEF Present
      <4>3. hier' = origin
        BY <1>0, <4>2
      <4>. QED BY <3>1, <3>3, <4>3 DEF RestoreValues, Goto, Jump, RestoreShapeInv, IsBack
    <3>. QED BY <3>2, <3>3
  <2>. QED BY <2>1, <2>2
<1>. QED BY <1>2, <1>3

\* In a quiet restoration every directory is where the stage says it is
\* (restore_configuration).
LEMMA QuietShape ==
  ASSUME SessionInv, SessionInv', QuietInv, [Next]_vars, Quiet'
  PROVE  RestoreShapeInv'
<1>0. /\ Quiet /\ origin' = origin /\ previous.hier = origin /\ previous.tune = Untuned
      /\ previous' = previous \/ OpenCapture
      /\ idx \in K /\ idx \in Int /\ 0 <= idx /\ N \in Nat
      /\ hier \in [K -> Values \cup {Absent}] /\ tune \in [K -> {0, 1}]
      /\ origin \in [K -> Values \cup {Absent}]
      /\ Mixed \in Values /\ Default \in Values /\ Absent \notin Values
      /\ RestoreShapeInv
  BY QuietSteps, QuietFiles, NoGaps, FileMoves, NAssumption, ValuesAssumption
  DEF SessionInv, TypeOK, QuietInv, RestoreShapeInv, OpenStopped, StageCount, StageWrite, StageCapture,
      TornWrite, RestoreCount, RestoreShape, RestoreWrite, KernelTunes, sessionVars, K
<1>1. CASE pc' \notin RestoreStages
  BY <1>1 DEF RestoreStages, RestoreShapeInv
<1>2. CASE pc' \in RestoreStages
  <2>0. ASSUME pc \in RestorePCs PROVE AllOff
    BY <1>0, <2>0, QuietOff DEF SessionInv, LoopInv
  <2>1. CASE UNCHANGED <<pc, idx>> /\ ~(RestoreCount \/ RestoreShape \/ RestoreWrite)
    <3>1. pc \in RestorePCs
      BY <1>2, <2>1 DEF RestoreStages, RestorePCs
    <3>2. \A i \in K : ~KernelTunes(i)
      BY <2>0, <3>1 DEF KernelTunes, TuneIntervals, AllOff
    <3>3. ~(OpenCapture \/ OpenStopped \/ StageCount \/ StageWrite \/ StageCapture \/ TornWrite)
      BY <3>1 DEF RestorePCs, OpenCapture, OpenStopped, StageCount, StageWrite, StageCapture, TornWrite
    <3>4. UNCHANGED <<hier, tune>>
      BY <2>1, <3>2, <3>3, QuietSteps, FileMoves
    <3>. QED BY <1>0, <2>1, <3>4 DEF RestoreShapeInv, IsBack, Present
  <2>2. CASE RestoreCount /\ SetCount(Present(previous.hier)) /\ RestoreShapes(0)
    <3>1. /\ hier' = Rebuilt(Present(origin)) /\ tune' = Untuned /\ UNCHANGED previous
      BY <1>0, <2>2 DEF RestoreCount, SetCount, sessionVars
    <3>2. Present(hier') = Present(origin)
      BY <1>0, <3>1 DEF Present, Rebuilt
    <3>3. \A i \in K : ~(i < 0)
      BY NAssumption DEF K
    <3>4. \A i \in Present(origin) : i < 0 => hier'[i] = Mixed
      BY <3>3 DEF Present
    <3>. QED BY <1>0, <2>2, <3>1, <3>2, <3>4, RestoreMovesOn
  <2>3. CASE RestoreShape /\ RestoreShapes(idx + 1) /\ WriteDirectory(idx, Mixed, tune[idx])
    <3>1. /\ hier' = [hier EXCEPT ![idx] = Mixed] /\ tune' = tune /\ UNCHANGED previous
          /\ pc = "restore_shape"
      BY <1>0, <2>3 DEF RestoreShape, WriteDirectory, sessionVars
    <3>2. /\ idx \in Present(origin) /\ tune = Untuned /\ Present(hier) = Present(origin)
          /\ \A i \in Present(origin) : i < idx => hier[i] = Mixed
      BY <1>0, <3>1 DEF RestoreShapeInv
    <3>3. Present(hier') = Present(origin)
      BY <1>0, <3>1, <3>2 DEF Present
    <3>4. \A i \in K : i < idx + 1 => i < idx \/ i = idx
      BY <1>0 DEF K
    <3>5. \A i \in Present(origin) : i < idx + 1 => hier'[i] = Mixed
      BY <1>0, <3>1, <3>2, <3>4 DEF Present
    <3>6. idx + 1 \in Int /\ 0 <= idx + 1 /\ (idx + 1) - 1 \in Present(origin)
      BY <1>0, <3>2
    <3>. QED BY <1>0, <2>3, <3>1, <3>2, <3>3, <3>5, <3>6, RestoreMovesOn
  <2>4. CASE /\ RestoreWrite /\ RestoreValues(idx + 1)
             /\ \E v \in RestoreOutcome(idx) : WriteDirectory(idx, v, previous.tune[idx])
    <3>1. pc = "restore_write" /\ UNCHANGED previous
      BY <2>4 DEF RestoreWrite, sessionVars
    <3>2. /\ idx \in Present(origin) /\ tune = Untuned /\ Present(hier) = Present(origin)
          /\ \A i \in Present(origin) : hier[i] = IF i < idx THEN origin[i] ELSE Mixed
      BY <1>0, <3>1 DEF RestoreShapeInv
    <3>3. hier' = [hier EXCEPT ![idx] = origin[idx]] /\ tune' = [tune EXCEPT ![idx] = Untuned[idx]]
      <4>1. hier[idx] = Mixed
        BY <1>0, <3>2
      <4>2. RestoreOutcome(idx) = {origin[idx]}
        BY <1>0, <4>1 DEF RestoreOutcome
      <4>. QED BY <1>0, <2>4, <4>2 DEF WriteDirectory
    <3>4. tune' = Untuned
      BY <1>0, <3>2, <3>3 DEF Untuned
    <3>5. Present(hier') = Present(origin)
      BY <1>0, <3>2, <3>3 DEF Present
    <3>6. \A i \in K : i < idx + 1 <=> i < idx \/ i = idx
      BY <1>0 DEF K
    <3>7. \A i \in Present(origin) : hier'[i] = IF i < idx + 1 THEN origin[i] ELSE Mixed
      BY <1>0, <3>2, <3>3, <3>6 DEF Present
    <3>8. idx + 1 \in Int /\ 0 <= idx + 1 /\ (idx + 1) - 1 \in Present(origin)
      BY <1>0, <3>2
    <3>. QED BY <1>0, <2>4, <3>1, <3>4, <3>5, <3>7, <3>8, RestoreMovesOn
  <2>5. CASE \/ pc = "restore_check" /\ Matches(previous) /\ pc' = "restore_stopped2" /\ UNCHANGED kernelVars
             \/ pc = "restore_stopped2" /\ pc' = "restore_match" /\ UNCHANGED kernelVars
    BY <1>0, <2>5 DEF RestoreShapeInv, IsBack, kernelVars
  <2>. QED BY <1>2, <2>1, <2>2, <2>3, <2>4, <2>5, RestoreLeads
<1>. QED BY <1>1, <1>2

\* What the session knows of a quiet world stays true.
LEMMA QuietNext ==
  ASSUME SessionInv, SessionInv', QuietInv, [Next]_vars
  PROVE  QuietInv'
<1>. SUFFICES ASSUME Quiet' PROVE QuietInv'
  BY DEF QuietInv
<1>1. Quiet
  BY QuietSteps
<1>2. RestoreShapeInv'
  BY QuietShape
<1>3. ASSUME result' = "open_failed"
      PROVE  pc' = "ended" /\ IsBack' /\ ours' = {}
  <2>1. CASE result' = result
    <3>1. pc = "ended" /\ IsBack /\ ours = {}
      BY <1>1, <1>3, <2>1 DEF QuietInv
    <3>2. UNCHANGED <<sessionVars, controlVars, ours>>
      BY <3>1, EndedStays
    <3>3. AllOff
      BY <1>1, <3>1, QuietOff
    <3>4. \A i \in K : ~KernelTunes(i)
      BY <3>3 DEF KernelTunes, TuneIntervals, AllOff
    <3>5. ~(OpenCapture \/ OpenStopped \/ StageCount \/ StageWrite \/ StageCapture \/ TornWrite
            \/ RestoreCount \/ RestoreShape \/ RestoreWrite)
      BY <3>1 DEF OpenCapture, OpenStopped, StageCount, StageWrite, StageCapture, TornWrite,
         RestoreCount, RestoreShape, RestoreWrite
    <3>6. UNCHANGED <<hier, tune>>
      BY <3>4, <3>5, QuietSteps, FileMoves
    <3>7. origin' = origin
      BY FileMoves
    <3>. QED BY <3>1, <3>2, <3>6, <3>7 DEF IsBack, Untuned, controlVars
  <2>2. CASE /\ pc' = "ended" /\ UNCHANGED <<kernelVars, ours>> /\ op = "open"
             /\ pc \in OpenPCs \/ (Matches(previous) /\ UNCHANGED previous)
    <3>1. hier = origin /\ tune = Untuned
      BY <1>1, <2>2 DEF QuietInv, Matches
    <3>2. ours = {}
      BY <2>2 DEF SessionInv, OpInv
    <3>. QED BY <2>2, <3>1, <3>2, FileMoves DEF IsBack, Untuned, kernelVars
  <2>. QED BY <1>3, <2>1, <2>2, OpenResults
<1>. QED BY <1>2, <1>3, QuietThreads, QuietFiles DEF QuietInv, RestoreShapeInv, Present, Untuned

\* A quiet restoration in which no access fails runs to its end
\* (restore_configuration, retry_busy).
LEMMA QuietRestores ==
  ASSUME SessionInv, QuietInv, Quiet, pc \in RestorePCs, Proceed
  PROVE  \/ pc' \in RestorePCs /\ UNCHANGED <<op, result, owns, exits>>
         \/ RestoreDone /\ IsBack /\ UNCHANGED <<kernelVars, exits>>
<1>0. /\ previous.hier = origin /\ previous.tune = Untuned
      /\ pc \in {"restore_shape", "restore_write"} =>
            idx \in Present(origin) /\ Present(hier) = Present(origin)
      /\ pc = "restore_write" =>
            \A i \in Present(origin) : hier[i] = IF i < idx THEN origin[i] ELSE Mixed
      /\ pc \in {"restore_check", "restore_stopped2", "restore_match"} => IsBack
      /\ idx \in K /\ ~(idx < idx)
  BY NAssumption DEF SessionInv, TypeOK, QuietInv, K
<1>1. AllOff
  BY QuietOff DEF SessionInv, LoopInv
<1>. USE <1>0 DEF Check, Goto, Jump, Rest, RestorePCs, sessionVars
<1>2. CASE EnsureStopped
  BY <1>1, <1>2 DEF EnsureStopped
<1>3. CASE RestoreCount
  BY <1>1, <1>3 DEF RestoreCount, RestoreShapes, RestoreValues
<1>4. CASE RestoreShape
  BY <1>4 DEF RestoreShape, RestoreShapes, RestoreValues
<1>5. CASE RestoreWrite
  <2>1. hier[idx] = Mixed /\ idx \in Present(hier)
    BY <1>5 DEF RestoreWrite
  <2>. QED BY <1>5, <2>1 DEF RestoreWrite, RestoreValues
<1>6. CASE RestoreCheck
  BY <1>6 DEF RestoreCheck, Matches, IsBack
<1>7. CASE RestoreMatch
  BY <1>7 DEF RestoreMatch, Matches, IsBack
<1>8. ~(OpenStep \/ StageStep \/ StartStep \/ StopStep \/ CloseStep)
  BY DEF OpenStep, Open, OpenCapture, OpenVerify, OpenStopped, OpenNew, StageStep, StageCount, StageWrite,
     StageCapture, StageVerify, StartStep, StartVerify, StartOff, StartCheck, StartOn, StartPid,
     StartIdentity, StartConfig, StartFinal, RollbackCount, RollbackConfig,
     StopStep, StopBegin, StopCount, StopConfig, StopFinal, StopOneState,
     StopOnePid, StopOneOff, StopOneBack, CloseStep, CloseVerify, CloseMatch
<1>. QED BY <1>2, <1>3, <1>4, <1>5, <1>6, <1>7, <1>8 DEF Proceed, RestoreStep

\* The budget of failing accesses only shrinks, too, and nothing but a failing
\* access draws on it.
LEMMA FaultSteps ==
  ASSUME SessionInv, [Next]_vars
  PROVE  /\ faults' = faults \/ (faults > 0 /\ faults' = faults - 1)
         /\ Proceed \/ UserCall => faults' = faults
         /\ IoError \/ TornWrite \/ TransientBusy => faults' = faults - 1
         /\ faults \in 0 .. MaxFaults
<1>. USE DEF Rest, Check
<1>1. Proceed => faults' = faults
  <2>1. EnsureStopped \/ OpenStep \/ StageStep \/ RestoreStep => faults' = faults
    BY DEF EnsureStopped, OpenStep, Open, OpenCapture, OpenVerify, OpenStopped, OpenNew,
       StageStep, StageCount, StageWrite, StageCapture, StageVerify,
       RestoreStep, RestoreCount, RestoreShape, RestoreWrite, RestoreCheck, RestoreMatch
  <2>2. StartStep \/ StopStep \/ CloseStep => faults' = faults
    BY DEF StartStep, StartVerify, StartOff, StartCheck, StartOn, StartPid,
       StartIdentity, StartConfig, StartFinal, RollbackCount, RollbackConfig,
       StopStep, StopBegin, StopCount, StopConfig, StopFinal, StopOneState,
       StopOnePid, StopOneOff, StopOneBack, CloseStep, CloseVerify, CloseMatch
  <2>. QED BY <2>1, <2>2 DEF Proceed
<1>2. UserCall => faults' = faults
  BY DEF UserCall, StartAll, StopAll, Close, Drop, Call
<1>3. IoError \/ TornWrite \/ TransientBusy => faults > 0 /\ faults' = faults - 1
  BY DEF IoError, TornWrite, TransientBusy
<1>4. ASSUME Environment
      PROVE  faults' = faults \/ IoError \/ TornWrite \/ TransientBusy
  BY <1>4 DEF Environment, KdamondExits, KernelTunes, RogueStarts, RogueStops,
     RogueWrites, RogueResizes, RogueActs
<1>5. UNCHANGED vars => faults' = faults
  BY DEF vars
<1>. QED BY <1>1, <1>2, <1>3, <1>4, <1>5 DEF Next, Ended, SessionInv, TypeOK

\* A calm step follows calm ones: a step of the session, a call, or a kernel
\* thread that ends or tunes its intervals.
LEMMA CalmSteps ==
  ASSUME SessionInv, [Next]_vars, Calm'
  PROVE  /\ Calm
         /\ \/ Proceed
            \/ UserCall
            \/ \E i \in K : KdamondExits(i) \/ KernelTunes(i)
            \/ UNCHANGED vars
<1>1. /\ faults = MaxFaults /\ ~IoError /\ ~TornWrite /\ ~TransientBusy
  BY FaultSteps, BoundsAssumption DEF Calm
<1>2. Quiet /\ (\A i \in K : ~RogueStarts(i) /\ ~RogueStops(i) /\ ~RogueWrites(i))
      /\ \A n \in 0 .. N : ~RogueResizes(n)
  BY QuietSteps DEF Calm
<1>. QED BY <1>1, <1>2 DEF Calm, Next, Environment, Ended

\* Where nothing interferes, staging replaces the directories one by one, never
\* fails, and a session finds what it staged until it restores.
StagingInv ==
    Calm =>
        /\ pc \in {"stage_stopped", "stage_count"} => hier = origin
        /\ pc = "stage_write" =>
              /\ Present(hier) = K
              /\ \A i \in K : i < idx => hier[i] = Target[i]
              /\ \A i \in K : ~(i < idx) /\ Present(origin) = K => hier[i] = origin[i]
        /\ pc \in {"stage_stopped2", "stage_capture", "stage_verify", "stage_stopped3", "open_new"}
              => hier = Target
        /\ pc \in {"stage_verify", "stage_stopped3", "open_new"} => staged = hier
        /\ owns /\ pc \notin RestorePCs \cup {"ended"} => staged = hier /\ VerifyCount
        /\ pc \in RestorePCs => op # "open"

\* Staging one directory leaves the requested configuration there and goes on
\* to the next.
LEMMA StagingWrites ==
  ASSUME SessionInv, QuietInv, StagingInv, Calm, StageWrite
  PROVE  /\ hier' = [hier EXCEPT ![idx] = Target[idx]]
         /\ StageNext
<1>0. /\ Present(hier) = K /\ idx \in K /\ ~(idx < idx)
      /\ Present(origin) = K => hier[idx] = origin[idx]
      /\ previous.hier = origin
      /\ hier \in [K -> Values \cup {Absent}]
  BY NAssumption DEF StageWrite, StagingInv, QuietInv, SessionInv, TypeOK, Calm, K
<1>1. CASE StageSkips(idx)
  <2>1. hier[idx] = Target[idx]
    BY <1>0, <1>1 DEF StageSkips
  <2>2. hier' = hier /\ StageNext
    BY <1>1 DEF StageWrite, kernelVars
  <2>. QED BY <1>0, <2>1, <2>2
<1>2. CASE ~StageSkips(idx)
  <2>1. StageOutcome(idx) = {Target[idx]}
    BY <1>0 DEF StageOutcome
  <2>. QED BY <1>0, <1>2, <2>1 DEF StageWrite, WriteDirectory
<1>. QED BY <1>1, <1>2

\* The steps of managed_hierarchy keep it.
LEMMA StagingOpens ==
  ASSUME SessionInv, SessionInv', QuietInv, StagingInv, Calm, [Next]_vars,
         EnsureStopped \/ OpenStep \/ StageStep, pc \notin RestorePCs
  PROVE  StagingInv'
<1>0. /\ pc = "none" \/ op = "open"
      /\ previous.hier = origin /\ previous.tune = Untuned
      /\ pc = "none" \/ op = "open" => tune = Untuned /\ ~owns
      /\ pc \in {"none"} \cup OpenPCs => hier = origin
      /\ hier \in [K -> Values \cup {Absent}] /\ staged \in [K -> Values \cup {Absent}]
      /\ idx \in K /\ idx \in Int /\ origin' = origin
      /\ Quiet
  <2>1. pc \in {"none"} \cup OpenPCs \cup StagePCs
    BY DEF EnsureStopped, OpenStep, Open, OpenCapture, OpenVerify, OpenStopped, OpenNew,
       StageStep, StageCount, StageWrite, StageCapture, StageVerify, Check, RestorePCs, OpenPCs, StagePCs
  <2>2. pc = "none" \/ op = "open"
    BY <2>1 DEF SessionInv, OpInv
  <2>3. /\ hier \in [K -> Values \cup {Absent}] /\ staged \in [K -> Values \cup {Absent}]
        /\ idx \in K
    BY DEF SessionInv, TypeOK
  <2>4. origin' = origin /\ idx \in Int
    BY <2>3, FileMoves, NAssumption DEF K
  <2>5. Quiet
    BY DEF Calm
  <2>6. /\ previous.hier = origin /\ previous.tune = Untuned
        /\ pc = "none" \/ op = "open" => tune = Untuned /\ ~owns
        /\ pc \in {"none"} \cup OpenPCs => hier = origin
    BY <2>5 DEF QuietInv
  <2>. QED BY <2>2, <2>3, <2>4, <2>5, <2>6
<1>1. AllOff
  BY <1>0, QuietOff
<1>2. /\ Target \in [K -> Runnable] /\ Present(Target) = K
      /\ \A i \in K : Target[i] \in Values /\ Target[i] # Absent
  BY TargetAssumption, ValuesAssumption DEF Present
<1>. USE <1>0, <1>1 DEF StagingInv, Goto, Jump, Return, Rest, kernelVars, sessionVars, historyVars, RestorePCs, OpenPCs, StagePCs
<1>3. CASE EnsureStopped
  BY <1>3 DEF EnsureStopped, Check
<1>4. CASE Open \/ OpenCapture
  BY <1>4 DEF Open, OpenCapture
<1>5. CASE OpenVerify
  BY <1>5 DEF OpenVerify, Check, Fail, StartPCs, StopOnePCs, ClosePCs
<1>6. CASE OpenStopped
  BY <1>6 DEF OpenStopped
<1>7. CASE OpenNew
  <2>1. Verify
    BY <1>2, <1>7 DEF OpenNew, Verify, VerifyCount, VerifyKdamond, Calm
  <2>2. owns' /\ pc' = "idle" /\ UNCHANGED <<hier, staged, tune>>
    BY <1>7, <2>1 DEF OpenNew
  <2>3. staged = hier /\ VerifyCount
    BY <1>7, <2>1 DEF OpenNew, Verify
  <2>. QED BY <2>2, <2>3 DEF VerifyCount, Present
<1>8. CASE StageCount
  <2>1. CASE VerifyCount
    <3>1. hier' = hier /\ Goto("stage_write") /\ owns' = owns
      BY <1>8, <2>1 DEF StageCount
    <3>2. pc' = "stage_write" /\ idx' = 0 /\ hier' = origin /\ ~owns' /\ Present(hier') = K
      BY <1>8, <2>1, <3>1 DEF StageCount, VerifyCount, Calm
    <3>3. \A i \in K : ~(i < 0)
      BY NAssumption DEF K
    <3>. QED BY <3>2, <3>3 DEF Present
  <2>2. CASE ~VerifyCount
    <3>1. hier' = Rebuilt(K) /\ Goto("stage_write") /\ owns' = owns
      BY <1>8, <2>2 DEF StageCount, SetCount
    <3>2. pc' = "stage_write" /\ idx' = 0 /\ ~owns' /\ Present(hier') = K
      BY <3>1, ValuesAssumption DEF Present, Rebuilt
    <3>3. Present(origin)' # K
      BY <1>8, <2>2 DEF StageCount, VerifyCount, Calm, Present
    <3>4. \A i \in K : ~(i < 0)
      BY NAssumption DEF K
    <3>. QED BY <3>2, <3>3, <3>4 DEF Present
  <2>. QED BY <2>1, <2>2
<1>9. CASE StageWrite
  <2>1. hier' = [hier EXCEPT ![idx] = Target[idx]] /\ StageNext /\ ~owns'
    BY <1>9, StagingWrites DEF StageWrite
  <2>2. /\ Present(hier) = K
        /\ \A i \in K : i < idx => hier[i] = Target[i]
        /\ \A i \in K : ~(i < idx) /\ Present(origin) = K => hier[i] = origin[i]
    BY <1>9 DEF StageWrite, Calm
  <2>3. Present(hier') = K /\ Present(hier)' = Present(hier') /\ Present(origin)' = Present(origin)
    BY <1>2, <2>1, <2>2 DEF Present
  <2>4. /\ \A i \in K : i < idx + 1 <=> i < idx \/ i = idx
    BY NAssumption DEF K
  <2>5. /\ \A i \in K : i < idx + 1 => hier'[i] = Target[i]
        /\ \A i \in K : ~(i < idx + 1) /\ Present(origin) = K => hier'[i] = origin[i]
    BY <2>1, <2>2, <2>4
  <2>6. CASE idx + 1 \in K
    <3>1. pc' = "stage_write" /\ idx' = idx + 1
      BY <2>1, <2>6 DEF StageNext
    <3>. QED BY <2>1, <2>3, <2>5, <3>1
  <2>7. CASE idx + 1 \notin K
    <3>1. \A i \in K : i < idx + 1
      BY <2>7, NAssumption DEF K
    <3>2. hier' = Target
      BY <1>2, <2>1, <2>5, <3>1
    <3>3. pc' = "stage_stopped2"
      BY <2>1, <2>7 DEF StageNext
    <3>. QED BY <2>1, <3>2, <3>3
  <2>. QED BY <2>6, <2>7
<1>10. CASE StageCapture
  BY <1>10 DEF StageCapture
<1>11. CASE StageVerify
  BY <1>11 DEF StageVerify, Check
<1>. QED BY <1>3, <1>4, <1>5, <1>6, <1>7, <1>8, <1>9, <1>10, <1>11 DEF OpenStep, StageStep

\* start_all, stop_all and the checks of close leave the files alone, and
\* keep the hierarchy until its restoration begins.
LEMMA OwnedSteps ==
  ASSUME SessionInv, [Next]_vars, StartStep \/ StopStep \/ CloseStep \/ UserCall
  PROVE  /\ UNCHANGED <<hier, tune, staged, previous, origin, exits>>
         /\ owns /\ pc \notin RestorePCs \cup {"ended"}
         /\ pc' \notin StagePCs
         /\ pc' \in RestorePCs => op \in {"close", "drop"} /\ op' = op
<1>1. ASSUME Fail, pc \notin OpenPCs \cup StagePCs \cup RestorePCs
      PROVE  pc' \notin StagePCs \cup RestorePCs
  <2>1. ASSUME NEW e \in BOOLEAN, NextKdamond(e)
        PROVE  pc' \notin StagePCs \cup RestorePCs
    BY <2>1 DEF NextKdamond, StopReturn, CloseFailed, Goto, Jump, Return, StagePCs, RestorePCs
  <2>. QED
    BY <1>1, <2>1 DEF Fail, StopReturn, StartFailed, CloseFailed, Goto, Jump, Return, StagePCs, RestorePCs
<1>. USE <1>1 DEF Check, Goto, Jump, Return, Rest, kernelVars, sessionVars, historyVars,
     OpenPCs, StagePCs, RestorePCs
<1>2. CASE StartStep
  <2>1. op = "start" /\ owns
    BY <1>2 DEF SessionInv, OpInv, StartOps, StartPCs, StartStep, StartVerify, StartOff, StartCheck,
       StartOn, StartPid, StartIdentity, StartConfig, StartFinal, RollbackCount, RollbackConfig
  <2>2. ASSUME NEW e \in BOOLEAN, NextKdamond(e)
        PROVE  pc' \notin StagePCs \cup RestorePCs
    BY <2>1, <2>2 DEF NextKdamond, StopReturn, CloseFailed
  <2>3. err \in BOOLEAN
    BY DEF SessionInv, TypeOK
  <2>. QED
    BY <1>2, <2>1, <2>2, <2>3 DEF StartStep, StartVerify, StartOff, StartCheck, StartOn, StartPid,
       StartIdentity, StartConfig, StartFinal, RollbackCount, RollbackConfig, CommandOn
<1>3. CASE StopStep
  <2>1. owns
    BY <1>3 DEF SessionInv, OpInv, StopPCs, StopOnePCs, StopStep, StopBegin, StopCount, StopConfig,
       StopFinal, StopOneState, StopOnePid, StopOneOff, StopOneBack
  <2>2. ASSUME NEW e \in BOOLEAN, NextKdamond(e)
        PROVE  pc' \notin StagePCs \cup RestorePCs
    BY <2>2 DEF NextKdamond, StopReturn, CloseFailed
  <2>3. err \in BOOLEAN
    BY DEF SessionInv, TypeOK
  <2>. QED
    BY <1>3, <2>1, <2>2, <2>3 DEF StopStep, StopBegin, StopCount, StopConfig, StopFinal, StopReturn,
       CloseFailed, StopOneState, StopOnePid, StopOneOff, StopOneBack, CommandOff
<1>4. CASE CloseStep
  <2>1. owns /\ op \in {"close", "drop"}
    BY <1>4 DEF SessionInv, OpInv, ClosePCs, CloseStep, CloseVerify, CloseMatch
  <2>. QED
    BY <1>4, <2>1 DEF CloseStep, CloseVerify, CloseMatch, RestoreDone
<1>5. CASE UserCall
  BY <1>5 DEF SessionInv, OpInv, UserCall, StartAll, StopAll, Close, Drop, Call
<1>. QED BY <1>2, <1>3, <1>4, <1>5

\* A calm step keeps what staging achieved.
LEMMA StagingNext ==
  ASSUME SessionInv, SessionInv', QuietInv, StagingInv, [Next]_vars
  PROVE  StagingInv'
<1>. SUFFICES ASSUME Calm' PROVE StagingInv'
  BY DEF StagingInv
<1>1. Calm /\ Quiet
  BY CalmSteps DEF Calm
<1>2. CASE (EnsureStopped \/ OpenStep \/ StageStep) /\ pc \notin RestorePCs
  BY <1>1, <1>2, StagingOpens
<1>3. CASE Proceed /\ pc \in RestorePCs
  BY <1>1, <1>3, QuietRestores DEF StagingInv, RestoreDone, Return, RestorePCs
<1>4. CASE StartStep \/ StopStep \/ CloseStep \/ UserCall
  <2>1. staged = hier /\ VerifyCount
    BY <1>1, <1>4, OwnedSteps DEF StagingInv
  <2>2. /\ UNCHANGED <<hier, staged>> /\ pc' \notin StagePCs
        /\ pc' \in RestorePCs => op' # "open"
    BY <1>4, OwnedSteps
  <2>. QED BY <2>1, <2>2 DEF StagingInv, VerifyCount, Present, StagePCs
<1>5. ASSUME NEW i \in K, KdamondExits(i) \/ KernelTunes(i)
      PROVE  UNCHANGED <<hier, staged, origin, owns, pc, op, idx>>
  BY <1>5 DEF KdamondExits, KernelTunes, ThreadExit, CommandOff, TuneIntervals, sessionVars,
     controlVars, historyVars
<1>6. CASE UNCHANGED <<hier, staged, origin, owns, pc, op, idx>>
  BY <1>1, <1>6 DEF StagingInv, VerifyCount, Present
<1>7. UNCHANGED vars => UNCHANGED <<hier, staged, origin, owns, pc, op, idx>>
  BY DEF vars, kernelVars, sessionVars, controlVars, historyVars
<1>8. RestoreStep => pc \in RestorePCs
  BY DEF RestoreStep, RestoreCount, RestoreShape, RestoreWrite, RestoreCheck, RestoreMatch, Check, RestorePCs
<1>. QED BY <1>2, <1>3, <1>4, <1>5, <1>6, <1>7, <1>8, CalmSteps DEF Proceed

\* A failed managed_hierarchy that could not undo its staging met two failing
\* accesses: one in staging, one in the restoration.
FaultInv == Quiet /\ result = "open_rollback_failed" => faults < MaxFaults - 1

LEMMA FaultNext ==
  ASSUME SessionInv, QuietInv, StagingInv, FaultInv, [Next]_vars
  PROVE  FaultInv'
<1>. SUFFICES ASSUME Quiet', result' = "open_rollback_failed" PROVE faults' < MaxFaults - 1
  BY DEF FaultInv
<1>0. /\ Quiet
      /\ faults \in Int /\ MaxFaults \in Int /\ faults <= MaxFaults
      /\ faults' = faults \/ faults' = faults - 1
  <2>1. faults \in 0 .. MaxFaults /\ MaxFaults \in Nat
    BY FaultSteps, BoundsAssumption
  <2>. QED BY <2>1, QuietSteps, FaultSteps
<1>1. CASE result' = result
  BY <1>0, <1>1 DEF FaultInv
<1>2. CASE op = "open" /\ pc \in RestorePCs /\ (Proceed \/ IoError)
  <2>1. faults < MaxFaults
    BY <1>0, <1>2 DEF StagingInv, Calm
  <2>2. CASE IoError
    BY <1>0, <2>1, <2>2, FaultSteps
  <2>3. CASE Proceed
    <3>1. ~RestoreDone
      BY <1>2 DEF RestoreDone, Return
    <3>. QED BY <1>0, <1>1, <1>2, <2>3, <3>1, QuietRestores
  <2>. QED BY <1>2, <2>2, <2>3
<1>. QED BY <1>1, <1>2, OpenResults

\* Releasing a hierarchy takes two passes at most: close_inner of close, and
\* that of Drop.  Each pass that failed met a kdamond that ended by itself.
Releases == op \in {"close", "drop"}
Spent == MaxExits - exits > (IF op = "drop" /\ result = "close_failed" THEN 1 ELSE 0)

ClosingInv ==
    Calm =>
        /\ pc \in {"one_pid", "one_off"} /\ Releases => (On(idx) /\ thread[idx] = states[idx]) \/ Spent
        /\ pc \in LoopPCs /\ err /\ Releases => Spent
        /\ op = "drop" => result = "none" \/ (result = "close_failed" /\ exits < MaxExits)
        /\ pc = "ended" => \/ IsBack /\ AllOff
                           \/ result = "close_failed" /\ MaxExits - exits > 1
                           \/ result \notin {"ok", "close_failed"} /\ exits < MaxExits

\* The reverse loop of a close goes on, or gives up after an exit.
LEMMA ClosingAdvances ==
  ASSUME SessionInv, ClosingInv, Calm, Releases, NEW e \in BOOLEAN, e => Spent,
         NextKdamond(e), UNCHANGED exits
  PROVE  ClosingInv'
<1>0. /\ exits \in Int /\ MaxExits \in Int /\ exits <= MaxExits
      /\ op = "drop" => result = "none" \/ (result = "close_failed" /\ exits < MaxExits)
  <2>1. exits \in 0 .. MaxExits /\ MaxExits \in Nat
    BY BoundsAssumption DEF SessionInv, TypeOK
  <2>. QED BY <2>1 DEF ClosingInv
<1>. USE DEF Goto, Jump, Return
<1>1. CASE idx > 0
  <2>1. pc' = "stop_count" /\ err' = e /\ UNCHANGED <<op, result>>
    BY <1>1 DEF NextKdamond, Releases
  <2>. QED BY <1>0, <2>1 DEF ClosingInv, Releases, Spent
<1>2. CASE ~(idx > 0) /\ ~e
  <2>1. pc' = "stop_final" /\ err' = FALSE /\ UNCHANGED <<op, result>>
    BY <1>2 DEF NextKdamond, Releases
  <2>. QED BY <1>0, <2>1 DEF ClosingInv
<1>3. CASE ~(idx > 0) /\ e
  <2>1. CloseFailed
    BY <1>3 DEF NextKdamond, StopReturn, Releases
  <2>2. CASE op = "close"
    <3>1. pc' = "stop_begin" /\ op' = "drop" /\ result' = "close_failed"
      BY <2>1, <2>2 DEF CloseFailed
    <3>2. exits < MaxExits
      BY <1>0, <1>3, <2>2 DEF Spent
    <3>. QED BY <3>1, <3>2 DEF ClosingInv, LoopPCs, StopOnePCs
  <2>3. CASE op = "drop"
    <3>1. pc' = "ended" /\ op' = "none" /\ result' = result
      BY <2>1, <2>3 DEF CloseFailed
    <3>2. \/ result = "none" /\ exits < MaxExits
          \/ result = "close_failed" /\ MaxExits - exits > 1
      BY <1>0, <1>3, <2>3 DEF Spent
    <3>. QED BY <3>1, <3>2 DEF ClosingInv, LoopPCs, StopOnePCs
  <2>. QED BY <2>2, <2>3 DEF Releases
<1>. QED BY <1>1, <1>2, <1>3

\* The steps of stop_all under close and Drop fail only where a kdamond ended
\* by itself.
LEMMA ClosingStops ==
  ASSUME SessionInv, IsolationInv, QuietInv, StagingInv, ClosingInv, Calm, StopStep, Releases
  PROVE  ClosingInv'
<1>1. pc \in StopPCs \cup StopOnePCs
  BY DEF StopStep, StopBegin, StopCount, StopConfig, StopFinal, StopOneState, StopOnePid,
     StopOneOff, StopOneBack, Check, StopPCs, StopOnePCs
<1>2. staged = hier /\ VerifyCount /\ Verify
  <2>1. owns /\ pc \notin RestorePCs \cup {"ended"}
    BY <1>1 DEF SessionInv, OpInv, Releases, StopPCs, StopOnePCs, RestorePCs
  <2>. QED BY <2>1 DEF StagingInv, Verify, VerifyKdamond
<1>3. /\ \A i \in K : On(i) => states[i] = thread[i] /\ IsRunning(states[i])
      /\ pc = "one_back" => ~On(idx)
  <2>1. Quiet /\ faults = MaxFaults
    BY DEF Calm
  <2>2. \A i \in K : On(i) => OwnRunning(i)
    BY <2>1 DEF QuietInv
  <2>3. pc # "start_pid"
    BY <1>1 DEF StopPCs, StopOnePCs
  <2>4. \A i \in K : OwnRunning(i) => states[i] = thread[i]
    BY <2>1, <2>3 DEF IsolationInv
  <2>5. \A i \in K : On(i) => thread[i] > 0
    BY MaxPidAssumption DEF SessionInv, TypeOK, On
  <2>6. pc = "one_back" => ~OwnRunning(idx)
    BY DEF IsolationInv
  <2>. QED BY <2>2, <2>4, <2>5, <2>6 DEF IsRunning, SessionInv, TypeOK
<1>4. idx \in K /\ err \in BOOLEAN /\ (pc \in LoopPCs /\ err => Spent)
      /\ (op = "drop" => result = "none" \/ (result = "close_failed" /\ exits < MaxExits))
  BY DEF SessionInv, TypeOK, ClosingInv
<1>5. ASSUME pc \in LoopPCs, NextKdamond(err), UNCHANGED exits PROVE ClosingInv'
  BY <1>4, <1>5, ClosingAdvances
<1>6. ASSUME Spent, NextKdamond(TRUE), UNCHANGED exits PROVE ClosingInv'
  BY <1>6, ClosingAdvances
<1>. USE DEF Check, Goto, Jump, Rest
<1>7. CASE StopBegin \/ StopCount \/ StopConfig
  <2>1. /\ pc' \in {"stop_count", "stop_config", "one_state"} /\ UNCHANGED <<op, result, exits>>
        /\ err' => err /\ pc \in LoopPCs
    BY <1>2, <1>4, <1>7 DEF StopBegin, StopCount, StopConfig, VerifyKdamond, LoopPCs
  <2>. QED BY <1>4, <2>1 DEF ClosingInv, Releases, Spent, LoopPCs, StopOnePCs
<1>8. CASE StopFinal
  <2>1. pc' = "close_verify" /\ UNCHANGED <<op, result, exits>>
    BY <1>2, <1>8 DEF StopFinal, StopReturn, Releases
  <2>. QED BY <1>4, <2>1 DEF ClosingInv, LoopPCs, StopOnePCs
<1>9. CASE StopOneState
  <2>1. CASE On(idx)
    <3>1. /\ pc' = "one_pid" /\ UNCHANGED <<idx, err, op, result, exits, states, thread>>
          /\ pc \in LoopPCs
      BY <1>3, <1>4, <1>9, <2>1 DEF StopOneState, LoopPCs, StopOnePCs, kernelVars
    <3>2. thread[idx] = states[idx]
      BY <1>3, <1>4, <2>1
    <3>. QED BY <1>4, <2>1, <3>1, <3>2 DEF ClosingInv, Releases, Spent, On
  <2>2. CASE ~On(idx)
    BY <1>5, <1>9, <2>2 DEF StopOneState, LoopPCs, StopOnePCs
  <2>. QED BY <2>1, <2>2
<1>10. CASE StopOnePid
  <2>0. pc = "one_pid" /\ pc \in LoopPCs /\ UNCHANGED <<exits, states, thread>>
    BY <1>10 DEF StopOnePid, LoopPCs, StopOnePCs, kernelVars, sessionVars
  <2>1. (On(idx) /\ thread[idx] = states[idx]) \/ Spent
    BY <2>0 DEF ClosingInv
  <2>2. CASE thread[idx] = states[idx] /\ Jump("one_off", idx, err)
    BY <1>4, <2>0, <2>1, <2>2 DEF ClosingInv, Releases, Spent, On
  <2>3. CASE thread[idx] # states[idx] /\ Fail
    <3>1. NextKdamond(TRUE)
      BY <2>0, <2>3 DEF Fail, OpenPCs, StagePCs, RestorePCs, StartPCs, ClosePCs
    <3>. QED BY <1>6, <2>0, <2>1, <2>3, <3>1
  <2>. QED BY <1>10, <2>2, <2>3 DEF StopOnePid
<1>11. CASE StopOneOff
  <2>0. pc = "one_off" /\ pc \in LoopPCs /\ UNCHANGED exits
    BY <1>11 DEF StopOneOff, LoopPCs, StopOnePCs
  <2>1. On(idx) \/ Spent
    BY <2>0 DEF ClosingInv
  <2>2. CASE CommandOff(idx) /\ Jump("one_back", idx, err)
    BY <1>4, <2>0, <2>2 DEF ClosingInv, Releases, Spent
  <2>3. CASE ~On(idx) /\ Fail
    <3>1. NextKdamond(TRUE)
      BY <2>0, <2>3 DEF Fail, OpenPCs, StagePCs, RestorePCs, StartPCs, ClosePCs
    <3>. QED BY <1>6, <2>0, <2>1, <2>3, <3>1
  <2>. QED BY <1>11, <2>2, <2>3 DEF StopOneOff
<1>12. CASE StopOneBack
  BY <1>3, <1>5, <1>12 DEF StopOneBack, LoopPCs, StopOnePCs
<1>. QED BY <1>7, <1>8, <1>9, <1>10, <1>11, <1>12 DEF StopStep

\* So do start_all, stop_all and a failing managed_hierarchy: they do not release.
LEMMA ClosingApart ==
  ASSUME SessionInv, QuietInv, Calm, [Next]_vars,
         \/ (EnsureStopped \/ OpenStep \/ StageStep) /\ pc \notin RestorePCs
         \/ StartStep \/ UserCall
         \/ StopStep /\ ~Releases
  PROVE  ClosingInv'
<1>. USE DEF Check, Goto, Jump, Return, Rest
<1>1. ASSUME pc' \notin LoopPCs \cup {"ended"}, op' = "drop" => result' = "none"
      PROVE  ClosingInv'
  BY <1>1 DEF ClosingInv, LoopPCs, StopOnePCs
<1>2. CASE (EnsureStopped \/ OpenStep \/ StageStep) /\ pc \notin RestorePCs
  <2>1. pc \in {"none"} \cup OpenPCs \cup StagePCs
    BY <1>2 DEF EnsureStopped, OpenStep, Open, OpenCapture, OpenVerify, OpenStopped, OpenNew,
       StageStep, StageCount, StageWrite, StageCapture, StageVerify, RestorePCs, OpenPCs, StagePCs
  <2>2. pc = "none" \/ op = "open"
    BY <2>1 DEF SessionInv, OpInv
  <2>3. ASSUME Fail, pc # "none"
        PROVE  \/ pc' = "restore_stopped" /\ op' = "open"
               \/ pc' = "ended" /\ result' = "open_failed" /\ op' = "none"
    BY <2>1, <2>2, <2>3 DEF Fail, StartPCs, StopOnePCs, ClosePCs, RestorePCs, OpenPCs, StagePCs
  <2>4. /\ pc' \notin LoopPCs /\ op' # "drop"
        /\ pc' = "ended" => result' = "open_failed"
    <3>. USE <2>2, <2>3 DEF LoopPCs, StopOnePCs
    <3>1. CASE EnsureStopped
      BY <1>2, <3>1 DEF EnsureStopped, RestorePCs
    <3>2. CASE OpenStep
      BY <3>2 DEF OpenStep, Open, OpenCapture, OpenVerify, OpenStopped, OpenNew
    <3>3. CASE StageStep
      BY <3>3 DEF StageStep, StageCount, StageWrite, StageNext, StageCapture, StageVerify
    <3>. QED BY <1>2, <3>1, <3>2, <3>3
  <2>5. CASE pc' = "ended"
    <3>1. result' # result
      BY <2>1, <2>4, <2>5 DEF QuietInv, Calm, OpenPCs, StagePCs
    <3>2. /\ UNCHANGED kernelVars /\ op = "open"
          /\ pc \in OpenPCs \/ Matches(previous)
      BY <2>4, <2>5, <3>1, OpenResults
    <3>3. hier = origin /\ tune = Untuned
      BY <3>2 DEF QuietInv, Calm, Matches
    <3>4. IsBack'
      BY <3>2, <3>3, FileMoves DEF IsBack, Untuned, kernelVars
    <3>5. AllOff'
      BY <3>2, QuietOff DEF Calm, AllOff, On, kernelVars
    <3>. QED BY <2>4, <2>5, <3>4, <3>5 DEF ClosingInv, LoopPCs, StopOnePCs
  <2>. QED BY <1>1, <2>4, <2>5
<1>3. CASE StartStep
  <2>1. op = "start"
    BY <1>3 DEF SessionInv, OpInv, StartOps, StartPCs, StartStep, StartVerify, StartOff, StartCheck,
       StartOn, StartPid, StartIdentity, StartConfig, StartFinal, RollbackCount, RollbackConfig
  <2>2. ASSUME NEW e \in BOOLEAN, NextKdamond(e)
        PROVE  pc' # "ended" /\ op' \in {"start", "none"}
    BY <2>1, <2>2 DEF NextKdamond, StopReturn, CloseFailed
  <2>3. err \in BOOLEAN
    BY DEF SessionInv, TypeOK
  <2>4. ASSUME Fail, pc \notin OpenPCs \cup StagePCs \cup RestorePCs \cup ClosePCs
                           \cup {"stop_begin", "stop_count", "stop_final"}
        PROVE  pc' # "ended" /\ op' \in {"start", "none"}
    BY <2>1, <2>2, <2>4 DEF Fail, StartFailed
  <2>5. pc' # "ended" /\ op' \in {"start", "none"}
    BY <1>3, <2>1, <2>2, <2>3, <2>4 DEF StartStep, StartVerify, StartOff, StartCheck, StartOn, StartPid,
       StartIdentity, StartConfig, StartFinal, RollbackCount, RollbackConfig,
       OpenPCs, StagePCs, RestorePCs, ClosePCs
  <2>. QED BY <2>5 DEF ClosingInv, Releases
<1>4. CASE StopStep /\ ~Releases
  <2>1. op \in {"start", "stop"}
    BY <1>4 DEF SessionInv, OpInv, Releases, StopPCs, StopOnePCs, StopStep, StopBegin, StopCount, StopConfig,
       StopFinal, StopOneState, StopOnePid, StopOneOff, StopOneBack
  <2>2. pc \in StopPCs \cup StopOnePCs /\ (pc \in StopPCs => op = "stop")
    BY <1>4, <2>1 DEF SessionInv, OpInv, StopPCs, StopOnePCs, StopStep, StopBegin, StopCount, StopConfig,
       StopFinal, StopOneState, StopOnePid, StopOneOff, StopOneBack
  <2>3. ASSUME NEW e \in BOOLEAN, NextKdamond(e)
        PROVE  pc' # "ended" /\ op' \in {"start", "stop", "none"}
    BY <2>1, <2>3 DEF NextKdamond, StopReturn
  <2>4. ASSUME NEW e \in BOOLEAN, StopReturn(e), op = "stop"
        PROVE  pc' # "ended" /\ op' \in {"start", "stop", "none"}
    BY <2>4 DEF StopReturn
  <2>5. ASSUME Fail
        PROVE  pc' # "ended" /\ op' \in {"start", "stop", "none"}
    BY <2>1, <2>2, <2>3, <2>4, <2>5 DEF Fail, OpenPCs, StagePCs, RestorePCs, StartPCs, ClosePCs,
       StopPCs, StopOnePCs
  <2>6. err \in BOOLEAN
    BY DEF SessionInv, TypeOK
  <2>7. pc' # "ended" /\ op' \in {"start", "stop", "none"}
    BY <1>4, <2>1, <2>2, <2>3, <2>4, <2>5, <2>6 DEF StopStep, StopBegin, StopCount, StopConfig, StopFinal,
       StopOneState, StopOnePid, StopOneOff, StopOneBack, StopPCs
  <2>. QED BY <2>7 DEF ClosingInv, Releases
<1>5. CASE UserCall
  BY <1>1, <1>5 DEF UserCall, StartAll, StopAll, Close, Drop, Call, LoopPCs, StopOnePCs, SessionInv, OpInv
<1>. QED BY <1>2, <1>3, <1>4, <1>5

\* A release ends with the hierarchy back or with the exits that kept it.
LEMMA ClosingNext ==
  ASSUME SessionInv, SessionInv', IsolationInv, QuietInv, StagingInv, ClosingInv, [Next]_vars
  PROVE  ClosingInv'
<1>. SUFFICES ASSUME Calm' PROVE ClosingInv'
  BY DEF ClosingInv
<1>0. /\ Calm /\ Quiet
      /\ exits \in Int /\ MaxExits \in Int /\ exits <= MaxExits
      /\ op = "drop" => result = "none" \/ (result = "close_failed" /\ exits < MaxExits)
  <2>1. Calm /\ Quiet
    BY CalmSteps DEF Calm
  <2>2. exits \in 0 .. MaxExits /\ MaxExits \in Nat
    BY BoundsAssumption DEF SessionInv, TypeOK
  <2>. QED BY <2>1, <2>2 DEF ClosingInv
<1>1. CASE \/ (EnsureStopped \/ OpenStep \/ StageStep) /\ pc \notin RestorePCs
           \/ StartStep \/ UserCall
           \/ StopStep /\ ~Releases
  BY <1>0, <1>1, ClosingApart
<1>2. CASE StopStep /\ Releases
  BY <1>0, <1>2, ClosingStops
<1>3. ASSUME RestoreDone, IsBack, AllOff, UNCHANGED kernelVars
      PROVE  ClosingInv'
  <2>1. pc' = "ended" /\ op' = "none"
    BY <1>3 DEF RestoreDone, Return
  <2>2. IsBack' /\ AllOff'
    BY <1>3, FileMoves DEF IsBack, Untuned, AllOff, On, kernelVars
  <2>. QED BY <2>1, <2>2 DEF ClosingInv, LoopPCs, StopOnePCs
<1>4. ASSUME pc' \notin LoopPCs \cup {"ended"}, UNCHANGED <<op, result, exits>>
      PROVE  ClosingInv'
  BY <1>0, <1>4 DEF ClosingInv, LoopPCs, StopOnePCs
<1>5. CASE Proceed /\ pc \in RestorePCs
  <2>1. AllOff
    BY <1>0, <1>5, QuietOff DEF SessionInv, LoopInv
  <2>2. RestorePCs \cap (LoopPCs \cup {"ended"}) = {}
    BY DEF RestorePCs, LoopPCs, StopOnePCs
  <2>. QED BY <1>0, <1>3, <1>4, <1>5, <2>1, <2>2, QuietRestores
<1>6. CASE CloseStep
  <2>1. /\ staged = hier /\ VerifyCount
        /\ pc \in ClosePCs
    BY <1>0, <1>6, OwnedSteps DEF StagingInv, ClosePCs, CloseStep, CloseVerify, CloseMatch, Check
  <2>2. AllOff /\ Verify
    BY <1>0, <2>1, QuietOff DEF SessionInv, LoopInv, Verify, VerifyKdamond
  <2>3. CASE CloseVerify
    BY <1>4, <2>2, <2>3 DEF CloseVerify, Check, Goto, Jump, LoopPCs, StopOnePCs
  <2>4. CASE CloseMatch /\ Matches(previous)
    BY <1>0, <1>3, <2>2, <2>4 DEF CloseMatch, Matches, QuietInv, IsBack
  <2>5. CASE CloseMatch /\ ~Matches(previous)
    BY <1>4, <2>5 DEF CloseMatch, Goto, Jump, Rest, LoopPCs, StopOnePCs
  <2>. QED BY <1>6, <2>3, <2>4, <2>5 DEF CloseStep
<1>7. ASSUME NEW i \in K, KdamondExits(i) PROVE ClosingInv'
  <2>1. /\ UNCHANGED <<pc, op, result, err, idx>> /\ exits' = exits - 1 /\ ~AllOff
    BY <1>7 DEF KdamondExits, ThreadExit, CommandOff, AllOff, controlVars
  <2>2. Releases => Spent'
    BY <1>0, <2>1 DEF Releases, Spent
  <2>. QED BY <1>0, <2>1, <2>2 DEF ClosingInv, Releases
<1>8. ASSUME NEW i \in K, KernelTunes(i) PROVE ClosingInv'
  <2>1. UNCHANGED <<pc, op, result, err, idx, exits, thread, states>> /\ ~AllOff
    BY <1>8 DEF KernelTunes, TuneIntervals, AllOff, controlVars, sessionVars
  <2>. QED BY <1>0, <2>1 DEF ClosingInv, Releases, Spent, On
<1>9. CASE UNCHANGED vars
  BY <1>0, <1>9 DEF ClosingInv, Releases, Spent, On, IsBack, Untuned, AllOff, vars, kernelVars, sessionVars,
     controlVars, historyVars
<1>10. RestoreStep => pc \in RestorePCs
  BY DEF RestoreStep, RestoreCount, RestoreShape, RestoreWrite, RestoreCheck, RestoreMatch, Check, RestorePCs
<1>. QED
  BY <1>1, <1>2, <1>5, <1>6, <1>7, <1>8, <1>9, <1>10, CalmSteps DEF Proceed

\* Before the first call nothing is known to have changed.
LEMMA GivingBackInit == Init => QuietInv /\ StagingInv /\ FaultInv /\ ClosingInv
<1>1. Init => QuietInv
  BY DEF Init, QuietInv, Snapshot, NoThread, On, OwnRunning, RestorePCs
<1>2. Init => StagingInv /\ FaultInv /\ ClosingInv
  BY DEF Init, StagingInv, FaultInv, ClosingInv, RestorePCs, LoopPCs, StopOnePCs
<1>. QED BY <1>1, <1>2

\* However a session began and ended, the hierarchy it found is given back:
\* after a failed managed_hierarchy unless another controller acted or two
\* accesses failed, after close and Drop unless there was such interference or
\* kdamonds ended under both passes (restore_configuration, close_inner).
THEOREM HierarchyIsGivenBack == Spec => []HierarchyGivenBack
<1>. DEFINE Inv == QuietInv /\ StagingInv /\ FaultInv /\ ClosingInv
<1>1. Init => Inv
  BY GivingBackInit
<1>2. /\ SessionInv /\ SessionInv' /\ IsolationInv /\ Inv /\ [Next]_vars
      => Inv'
  BY QuietNext, StagingNext, FaultNext, ClosingNext
<1>3. SessionInv /\ Inv => HierarchyGivenBack
  <2>. SUFFICES ASSUME SessionInv, Inv, pc = "ended", Quiet PROVE HierarchyGivenBack
    BY DEF HierarchyGivenBack, FailedOpenUndone, SessionUndone, Quiet
  <2>1. faults \in Int /\ MaxFaults \in Int /\ exits \in Int /\ MaxExits \in Int
    BY BoundsAssumption DEF SessionInv, TypeOK
  <2>2. FailedOpenUndone
    BY <2>1 DEF FailedOpenUndone, QuietInv, FaultInv, IsBack
  <2>3. SessionUndone
    BY <2>1 DEF SessionUndone, ClosingInv, Calm, IsBack
  <2>. QED BY <2>2, <2>3 DEF HierarchyGivenBack
<1>4. IsolationInv /\ SessionInv /\ SessionInv' /\ [Next]_vars => IsolationInv'
  BY IsolationNext
<1>5. Init => IsolationInv
  BY IsolationInit
<1>. QED BY <1>1, <1>2, <1>3, <1>4, <1>5, SessionInvariant, PTL DEF Spec
=============================================================================
