----------------------- MODULE UpdateTransactionProofs -----------------------
(***************************************************************************)
(* Theorems of UpdateTransaction, for every number of kdamonds, every tree *)
(* of directories, every request and every bound.                          *)
(***************************************************************************)
EXTENDS UpdateTransaction, UpdatesPart, FiniteSetTheorems, WellFoundedInduction, TLAPS

-----------------------------------------------------------------------------
(* Sets of numbers                                                         *)

\* A set of numbers that is not empty has a first one.
LEMMA HasFirst ==
    ASSUME NEW S, S \subseteq Nat, S # {}
    PROVE  \E x \in S : \A y \in S : x <= y
<1> DEFINE R == OpToRel(<, Nat)
<1>1. IsWellFoundedOn(R, Nat)
    BY NatLessThanWellFounded
<1>2. PICK x \in S : \A y \in S : ~(<<y, x>> \in R)
    BY <1>1, WFMin, Zenon
<1>3. \A y \in S : ~(y < x)
    BY <1>2, Zenon DEF OpToRel
<1> QED
    BY <1>3

\* The places of a finite set of numbers are all taken.
LEMMA EveryPlaceTaken ==
    ASSUME NEW len \in Nat, NEW kept \in SUBSET (1 .. len), NEW n \in 1 .. Cardinality(kept)
    PROVE  \E i \in kept : Cardinality({j \in kept : j <= i}) = n
<1> DEFINE Upto(i) == {j \in kept : j <= i}
           Place(i) == Cardinality(Upto(i))
           Reached == {i \in Nat : n <= Place(i)}
<1>0. kept \subseteq Int /\ \A j \in kept : 1 <= j /\ j <= len
  OBVIOUS
<1>1. IsFiniteSet(kept) /\ Cardinality(kept) \in Nat
  <2>1. IsFiniteSet(1 .. len)
    BY FS_Interval
  <2>2. IsFiniteSet(kept)
    BY <2>1, FS_Subset
  <2> QED
    BY <2>2, FS_CardinalityType
<1>2. \A i : IsFiniteSet(Upto(i)) /\ Place(i) \in Nat
  BY <1>1, FS_Subset, FS_CardinalityType
<1>3. Upto(len) = kept /\ Upto(0) = {}
  <2>1. \A j \in kept : j <= len /\ ~(j <= 0)
    BY <1>0
  <2> QED
    BY <2>1, Zenon
<1>4. ASSUME NEW i \in Nat \ {0}, i \notin kept  PROVE Upto(i) = Upto(i - 1)
  <2>1. \A j \in kept : j <= i <=> j <= i - 1
    BY <1>0, <1>4
  <2> QED
    BY <2>1, Zenon
<1>5. ASSUME NEW i \in kept
      PROVE  Upto(i) = Upto(i - 1) \cup {i} /\ i \notin Upto(i - 1)
  <2>1. /\ \A j \in kept : j <= i <=> j <= i - 1 \/ j = i
        /\ ~(i <= i - 1)
    BY <1>0
  <2> QED
    BY <2>1, Zenon
<1> HIDE DEF Upto
<1>6. Reached \subseteq Nat /\ len \in Reached
  BY <1>1, <1>3
<1>7. PICK i \in Reached : \A j \in Reached : i <= j
  <2> HIDE DEF Reached
  <2> QED
    BY <1>6, HasFirst
<1>8. i \in Nat /\ n <= Place(i)
  BY <1>7
<1>9. i # 0
  BY <1>3, <1>8, FS_EmptySet
<1>10. Place(i - 1) < n
  <2>1. i - 1 \in Nat /\ i - 1 \notin Reached
    BY <1>7, <1>8, <1>9
  <2> QED
    BY <1>2, <2>1
<1>11. i \in kept
  <2>1. ASSUME i \notin kept  PROVE Upto(i) = Upto(i - 1)
    BY <1>4, <1>8, <1>9, <2>1
  <2> QED
    BY <1>2, <1>8, <1>10, <2>1
<1>12. Place(i) = Place(i - 1) + 1
  BY <1>2, <1>5, <1>11, FS_AddElement
<1>13. Place(i) = n
  BY <1>2, <1>8, <1>10, <1>12
<1> QED
  BY <1>11, <1>13 DEF Upto

USE NAssumption, LeavesAssumption, ValuesAssumption, RogueAssumption, BoundsAssumption

-----------------------------------------------------------------------------
(* Values and leaves                                                       *)

\* Writing a count or another leaf leaves every file with a value, or absent.
LEMMA WrittenTyped ==
    ASSUME leaf \in Contents, NEW l \in Leaves, NEW v \in Values
    PROVE  Written(l, v) \in Contents
<1>1. \A m \in Leaves : leaf[m] \in Values \cup {Absent}
    BY DEF Contents
<1>2. \A m \in Leaves : Written(l, v)[m] \in Values \cup {Absent}
    BY <1>1 DEF Written
<1>3. Written(l, v) = [m \in Leaves |-> Written(l, v)[m]]
    BY DEF Written
<1> QED
    BY <1>2, <1>3 DEF Contents

\* What is known of some typed leaves.
LEMMA ConfigurationIs ==
    ASSUME NEW f \in Configurations
    PROVE  /\ DOMAIN f \subseteq Typed /\ DOMAIN f \subseteq Leaves
           /\ \A l \in DOMAIN f : f[l] \in Values \cup {Absent}
<1>1. PICK D \in SUBSET Typed : f \in [D -> Values \cup {Absent}]
    BY DEF Configurations
<1> QED
    BY <1>1

LEMMA ConfigurationOf ==
    ASSUME NEW D \in SUBSET Typed, NEW f \in [D -> Values \cup {Absent}]
    PROVE  f \in Configurations
BY DEF Configurations

\* So has a set of leaves.
LEMMA HasLeast ==
    ASSUME NEW S \in SUBSET Leaves, S # {}
    PROVE  Least(S) \in S /\ \A m \in S : Least(S) <= m
<1>1. S \in SUBSET Nat
    OBVIOUS
<1>2. \E x \in S : \A y \in S : x <= y
    BY <1>1, HasFirst
<1> QED
    BY <1>2 DEF Least

\* The kdamonds a call selects.
SelectedOf(t) == {t.selected[k] : k \in DOMAIN t.selected}

LEMMA StagedOf ==
    ASSUME NEW goal \in Configurations, NEW from, NEW l \in ToStage(goal, from)
    PROVE  l \in DOMAIN goal /\ l \in Typed /\ l \in Leaves /\ goal[l] \in Values
BY ConfigurationIs DEF ToStage

LEMMA RestoredOf ==
    ASSUME NEW f \in Contents, NEW journal \in SUBSET Typed,
           NEW l \in ToRestore(f, AffectedBy(f, journal))
    PROVE  l \in Leaves \ Tuned /\ f[l] \in Values
           /\ (l \in journal \/ \E c \in journal \cap Counts : l \in Under[c])
BY DEF ToRestore, AffectedBy, Contents

\* What is dropped in the selected kdamonds depends on these alone.
Effective(goal, from, sel) ==
    [l \in DOMAIN goal |-> IF Dir[l] \in sel THEN goal[l] ELSE from[l]]

LEMMA CleanedEffective ==
    ASSUME NEW goal, DOMAIN goal = Typed, NEW from, NEW sel
    PROVE  Cleaned(Effective(goal, from, sel), sel)
           = [l \in Typed |-> IF Dir[l] \in sel THEN Cleaned(goal, sel)[l] ELSE from[l]]
<1> DEFINE eff == Effective(goal, from, sel)
<1>1. \A l \in Typed : Dir[l] \in sel => eff[l] = goal[l]
    BY DEF Effective
<1>2. \A l \in Typed : Dir[l] \notin sel => eff[l] = from[l]
    BY DEF Effective
<1>3. DOMAIN eff = Typed
    BY DEF Effective
<1> HIDE DEF eff
<1>4. ASSUME NEW c \in Counts, Dir[c] \in sel
      PROVE  /\ Kept(eff, c) = Kept(goal, c)
             /\ c \in Marked(eff) <=> c \in Marked(goal)
             /\ \A l : Heir(eff, c, l) = Heir(goal, c, l)
             /\ \A x \in Kept(goal, c) : eff[x] = goal[x]
    <2>1. \A x \in Under[c] \cap Typed : eff[x] = goal[x]
        BY <1>1, <1>4, TreeAssumption
    <2>2. Kept(eff, c) = Kept(goal, c)
        BY <2>1 DEF Kept
    <2>3. \A l : Heir(eff, c, l) = Heir(goal, c, l)
        BY <2>2 DEF Heir
    <2> QED
        BY <2>1, <2>2, <2>3 DEF Marked, Kept
<1>5. ASSUME NEW l \in Typed, Dir[l] \in sel
      PROVE  Cleaned(eff, sel)[l] = Cleaned(goal, sel)[l]
    <2>1. \A c \in Counts : l \in Under[c] => Dir[c] \in sel
        BY <1>5, TreeAssumption
    <2>2. MarkedAbove(eff, l) = MarkedAbove(goal, l)
        <3>1. \A c : c \in MarkedAbove(eff, l) <=> c \in MarkedAbove(goal, l)
            BY <2>1, <1>4 DEF MarkedAbove, Marked
        <3> QED
            BY <3>1
    <2>3. l \in Marked(eff) <=> l \in Marked(goal)
        BY <1>4, <1>5 DEF Marked
    <2>4. CASE l \in Marked(goal)
        BY <1>3, <1>4, <1>5, <2>3, <2>4 DEF Cleaned, Marked
    <2>5. CASE l \notin Marked(goal) /\ MarkedAbove(goal, l) = {}
        BY <1>1, <1>3, <1>5, <2>2, <2>3, <2>5 DEF Cleaned
    <2>6. CASE l \notin Marked(goal) /\ MarkedAbove(goal, l) # {}
        <3> DEFINE c == TheOne(MarkedAbove(goal, l))
        <3>1. c \in Counts /\ Dir[c] \in sel
            BY <2>1, <2>6 DEF MarkedAbove, TheOne, Marked
        <3>2. Heir(eff, c, l) = Heir(goal, c, l)
            BY <1>4, <3>1
        <3>3. Heir(goal, c, l) # {} => TheOne(Heir(goal, c, l)) \in Kept(goal, c)
            BY DEF TheOne, Heir
        <3>4. Heir(goal, c, l) # {} => eff[TheOne(Heir(goal, c, l))] = goal[TheOne(Heir(goal, c, l))]
            BY <1>4, <3>1, <3>3
        <3>5. Cleaned(eff, sel)[l] = IF Heir(eff, c, l) = {} THEN Absent
                                     ELSE eff[TheOne(Heir(eff, c, l))]
            BY <1>3, <1>5, <2>2, <2>3, <2>6 DEF Cleaned
        <3>6. Cleaned(goal, sel)[l] = IF Heir(goal, c, l) = {} THEN Absent
                                     ELSE goal[TheOne(Heir(goal, c, l))]
            BY <1>5, <2>6 DEF Cleaned
        <3> HIDE DEF c
        <3> QED
            BY <3>2, <3>4, <3>5, <3>6
    <2> QED
        BY <2>4, <2>5, <2>6
<1>6. \A l \in Typed : Dir[l] \notin sel => Cleaned(eff, sel)[l] = from[l]
    BY <1>2, <1>3 DEF Cleaned
<1>7. Cleaned(eff, sel) = [l \in Typed |-> Cleaned(eff, sel)[l]]
    BY <1>3 DEF Cleaned
<1> QED
    BY <1>5, <1>6, <1>7 DEF eff

-----------------------------------------------------------------------------
(* The locals of a call                                                    *)

StagingOf(t) ==
    ToStage(t.asked, t.observed)
    \cup (IF t.phase = "clean" THEN ToStage(t.goal, t.from) ELSE {})

Captured(l, t) ==
    \/ l \in {"compare", "values", "commit_ids", "adopt"}
    \/ l \in CommitPCs /\ t.mode = "forward"
    \/ l = "recommitted_match" /\ t.kind = "update"

\* What the locals are at step l of a call.
Sound(l, t) ==
    /\ t \in Locals /\ t.selected # <<>>
    /\ l \in CheckPCs => t.mode = "forward" /\ t.phase = "main" /\ t.journal = {}
    /\ l \in StagePCs => t.mode = "forward"
    /\ l \in RestorePCs => t.mode # "forward"
    /\ l \in {"restored_ids", "restored_match", "recapture", "recommitted_match"}
            => t.mode = "rollback"
    /\ l \in {"restored_ids", "restored_match"} => t.kind = "update"
    /\ l = "adopt" => t.mode # "written"
    /\ l = "unchanged" => t.kind = "goals"
    /\ l \in CommitPCs /\ t.mode = "forward" => t.phase = "main"
    /\ t.kind = "goals" => t.phase = "main" /\ DOMAIN t.goal \subseteq Goals
    /\ t.kind = "update" => DOMAIN t.goal = Typed
    /\ t.kind = "update" /\ t.phase = "main"
            => Cleaned(t.goal, SelectedOf(t)) \in Configurations
    /\ DOMAIN t.asked = DOMAIN t.goal
    /\ t.phase = "main" => t.asked = t.goal /\ t.observed = t.from
    /\ l \notin {"owned", "capture", "read"} =>
            DOMAIN t.from = DOMAIN t.goal /\ DOMAIN t.observed = DOMAIN t.goal
    /\ l \notin {"owned", "capture"} => t.before \in Contents
    /\ Captured(l, t) => t.captured \in Contents
    /\ l \in CommitPCs \cup {"restored_ids", "restored_match"} =>
            /\ t.queue # <<>>
            /\ \A k \in DOMAIN t.queue : t.queue[k] \in SelectedOf(t)
    /\ l = "stage" => t.todo \subseteq ToStage(t.goal, t.from)
    /\ l = "restore" => t.todo \subseteq ToRestore(t.before, AffectedBy(t.before, t.journal))
    /\ t.journal \subseteq StagingOf(t)
    /\ t.strayed => l \notin CheckPCs /\ (t.mode = "forward" => l = "committed")

\* The pids of the threads, and those the session recorded, were handed out.
PidsUsed ==
    /\ \A i \in K : thread[i] < nextPid
    /\ \A i \in K : states[i] < nextPid

\* A commit that reached another thread is still visible to the identity check
\* that follows: the session's thread is gone and its pid does not come back.
StrayVisible ==
    pc # "idle" =>
        /\ \A i \in Selected : states[i] # 0
        /\ txn.mode = "forward" /\ txn.strayed => ~Identity(Head(txn.queue))

IInv ==
    /\ TypeOK
    /\ PidsUsed
    /\ pc # "idle" => Sound(pc, txn)
    /\ StrayVisible

-----------------------------------------------------------------------------

LEMMA InitIInv == Init => IInv
<1> SUFFICES ASSUME Init PROVE IInv
    OBVIOUS
<1>1. /\ leaf \in Contents /\ thread \in [K -> 0 .. N] /\ N <= MaxPid
    BY InitialAssumption DEF Init
<1>4. thread \in [K -> 0 .. MaxPid] /\ nextPid \in 1 .. MaxPid + 1
    BY <1>1 DEF Init
<1>2. TypeOK
    BY <1>1, <1>4 DEF Init, TypeOK, PCs, Results, Txns, K
<1>3. PidsUsed
    BY <1>1 DEF Init, PidsUsed, K
<1> QED
    BY <1>2, <1>3 DEF IInv, Init, StrayVisible

\* The locals of a call are not the locals of no call.
LEMMA LocalsBusy == \A t \in Locals : t # NoTxn
BY DEF Locals, NoTxn

LEMMA Busy ==
    ASSUME IInv, pc # "idle"
    PROVE  /\ txn \in Locals /\ Sound(pc, txn) /\ Selected = SelectedOf(txn)
           /\ Selected \subseteq K /\ Selected # {}
<1>1. txn \in Locals /\ Sound(pc, txn)
    BY DEF IInv, Sound
<1>2. txn.selected \in Seq(K) /\ txn.selected # <<>>
    BY <1>1 DEF Sound, Locals
<1>3. 1 \in DOMAIN txn.selected /\ \A k \in DOMAIN txn.selected : txn.selected[k] \in K
    BY <1>2
<1> QED
    BY <1>1, <1>3 DEF Selected, SelectedOf

\* A call in progress moves to another of its steps; files, threads and pids
\* are what the step leaves.
LEMMA AdvanceKeeps ==
    ASSUME IInv, pc # "idle", NEW l \in PCs \ {"idle"}, NEW t,
           Advance(l, t), Sound(l, t), t.selected = txn.selected,
           leaf' \in Contents, active' \in Contents,
           UNCHANGED <<thread, nextPid, states, staged, calls, rogue, exits, tunes>>,
           faults' \in 0 .. MaxFaults,
           t.mode = "forward" /\ t.strayed => ~Identity(Head(t.queue))
    PROVE  IInv'
<1>0. t \in Locals
    BY DEF Sound
<1>1. TypeOK'
    BY <1>0, LocalsBusy DEF IInv, TypeOK, Advance, Txns
<1>2. PidsUsed'
    BY DEF IInv, PidsUsed
<1>3. Selected' = Selected
    BY DEF Advance, Selected
<1>4. StrayVisible'
    BY <1>3 DEF IInv, StrayVisible, Advance, Identity
<1>5. Sound(pc', txn')
    BY DEF Advance
<1> QED
    BY <1>1, <1>2, <1>4, <1>5 DEF IInv

\* A call that returns leaves no locals behind.
LEMMA ReturnKeeps ==
    ASSUME IInv, NEW r \in Results, Return(r), staged' \in Contents,
           UNCHANGED <<kernelVars, states, rogue, exits, tunes>>,
           calls' \in 0 .. MaxCalls, faults' \in 0 .. MaxFaults
    PROVE  IInv'
<1>1. TypeOK'
    BY DEF IInv, TypeOK, Return, kernelVars, Txns, PCs
<1>2. PidsUsed'
    BY DEF IInv, PidsUsed, kernelVars
<1> QED
    BY <1>1, <1>2 DEF IInv, StrayVisible, Return

\* Every failing step keeps the invariant, whatever it takes for the cause.
LEMMA FailKeeps ==
    ASSUME IInv, pc # "idle", Fail,
           UNCHANGED <<kernelVars, states, staged, calls, rogue, exits, tunes>>,
           faults' \in 0 .. MaxFaults
    PROVE  IInv'
<1>0. txn \in Locals /\ Sound(pc, txn)
    BY Busy
<1>1. CASE pc \in CheckPCs \/ txn.mode # "forward"
    <2>1. PICK r \in Results : Return(r)
        BY <1>1 DEF Fail, Results
    <2> QED
        BY <2>1, ReturnKeeps DEF IInv, TypeOK
<1>2. CASE pc \notin CheckPCs /\ txn.mode = "forward"
    <2> DEFINE t == [txn EXCEPT !.mode = "rollback", !.todo = {},
                                !.queue = <<>>, !.captured = Nothing]
    <2>1. Advance("restore_ids", t)
        BY <1>2 DEF Fail
    <2>3. t \in Locals
        <3>1. [txn EXCEPT !.mode = "rollback", !.todo = {}] \in Locals
            BY <1>0 DEF Locals
        <3>2. <<>> \in Seq(K) /\ Nothing \in Contents \cup {Nothing}
            OBVIOUS
        <3>3. \A u \in Locals : [u EXCEPT !.queue = <<>>, !.captured = Nothing] \in Locals
            BY <3>2 DEF Locals
        <3> QED
            BY <3>1, <3>3
    <2>2. /\ t \in Locals /\ t.selected = txn.selected /\ t.mode = "rollback"
          /\ t.todo = {} /\ t.journal = txn.journal /\ t.goal = txn.goal /\ t.from = txn.from
          /\ t.asked = txn.asked /\ t.observed = txn.observed /\ t.kind = txn.kind
          /\ t.phase = txn.phase /\ t.before = txn.before
        BY <1>0, <2>3 DEF Locals
    <2> HIDE DEF t
    <2>4. Sound("restore_ids", t)
        BY <1>0, <1>2, <2>2
        DEF Sound, Captured, StagingOf, SelectedOf, CheckPCs, StagePCs, CommitPCs
    <2> QED
        BY <1>2, <2>1, <2>2, <2>4, AdvanceKeeps
        DEF PCs, RestorePCs, kernelVars, IInv, TypeOK
<1> QED
    BY <1>1, <1>2

\* A step that only looks, and a failing one, keep the invariant.
LEMMA LookKeeps ==
    ASSUME IInv, pc # "idle", NEW c \in BOOLEAN, NEW l \in PCs \ {"idle"}, NEW t,
           Look(c, l, t), c => Sound(l, t) /\ t.selected = txn.selected,
           c /\ t.mode = "forward" /\ t.strayed => ~Identity(Head(t.queue))
    PROVE  IInv'
<1>1. CASE c
    BY <1>1, AdvanceKeeps DEF Look, Continue, IInv, TypeOK, kernelVars, budgets
<1>2. CASE ~c
    BY <1>2, FailKeeps DEF Look, Continue, IInv, TypeOK, budgets
<1> QED
    BY <1>1, <1>2

-----------------------------------------------------------------------------

\* A call begins on kdamonds the session runs, with nothing written yet.
LEMMA CallStep == ASSUME IInv, Call PROVE IInv'
<1>1. PICK r \in Requests :
        IF \E k \in DOMAIN r.selected : states[r.selected[k]] = 0
        THEN Return("rejected")
        ELSE Advance("owned", [NoTxn EXCEPT !.kind = r.kind,
                                            !.began = [leaf |-> leaf, active |-> active],
                                            !.goal = r.want, !.asked = r.want,
                                            !.selected = r.selected])
    BY DEF Call
<1>2. /\ calls' = calls + 1 /\ calls' \in 0 .. MaxCalls
      /\ UNCHANGED <<kernelVars, states, staged, rogue, faults, exits, tunes>>
    BY DEF Call, IInv, TypeOK
<1>3. CASE \E k \in DOMAIN r.selected : states[r.selected[k]] = 0
    BY <1>1, <1>2, <1>3, ReturnKeeps DEF IInv, TypeOK, Results
<1>4. CASE ~\E k \in DOMAIN r.selected : states[r.selected[k]] = 0
    <2> DEFINE t == [NoTxn EXCEPT !.kind = r.kind,
                                  !.began = [leaf |-> leaf, active |-> active],
                                  !.goal = r.want, !.asked = r.want, !.selected = r.selected]
    <2>0. /\ r.want \in Configurations /\ r.selected \in Seq(K) /\ r.selected # <<>>
          /\ r.kind \in {"update", "goals"}
          /\ r.kind = "update" => /\ DOMAIN r.want = Typed
                                  /\ Cleaned(r.want, SelectedOf(r)) \in Configurations
          /\ r.kind = "goals" => DOMAIN r.want \subseteq Goals
        BY RequestsAssumption DEF SelectedOf
    <2>1. Nothing \in Configurations
        <3>1. Nothing \in [{} -> Values \cup {Absent}]
            BY DEF Nothing
        <3> QED
            BY <3>1, ConfigurationOf
    <2>2. /\ t.kind = r.kind /\ t.goal = r.want /\ t.asked = r.want /\ t.from = Nothing
          /\ t.observed = Nothing /\ t.selected = r.selected /\ t.before = Nothing
          /\ t.captured = Nothing /\ t.journal = {} /\ t.todo = {} /\ t.queue = <<>>
          /\ t.phase = "main" /\ t.mode = "forward" /\ t.strayed = FALSE
          /\ t.began = [leaf |-> leaf, active |-> active]
        BY DEF NoTxn
    <2>3. t \in Locals
        <3>1. [leaf |-> leaf, active |-> active] \in [leaf : Contents, active : Contents]
            BY DEF IInv, TypeOK
        <3>2. <<>> \in Seq(K)
            OBVIOUS
        <3>3. [NoTxn EXCEPT !.kind = r.kind, !.began = [leaf |-> leaf, active |-> active]]
              \in Locals
            BY <2>0, <2>1, <3>1, <3>2 DEF Locals, NoTxn
        <3>4. \A u \in Locals : [u EXCEPT !.goal = r.want, !.asked = r.want] \in Locals
            BY <2>0 DEF Locals
        <3>5. \A u \in Locals : [u EXCEPT !.selected = r.selected] \in Locals
            BY <2>0 DEF Locals
        <3> QED
            BY <3>3, <3>4, <3>5
    <2>4. SelectedOf(t) = SelectedOf(r)
        BY <2>2 DEF SelectedOf
    <2>5. pc' = "owned" /\ txn' = t /\ UNCHANGED result
        BY <1>1, <1>4 DEF Advance
    <2> HIDE DEF t
    <2>6. Sound("owned", t)
        BY <2>0, <2>2, <2>3, <2>4
        DEF Sound, Captured, CheckPCs, StagePCs, CommitPCs, RestorePCs
    <2>7. TypeOK'
        BY <1>2, <2>3, <2>5, LocalsBusy DEF IInv, TypeOK, PCs, CheckPCs, kernelVars, Txns
    <2>8. PidsUsed'
        BY <1>2 DEF IInv, PidsUsed, kernelVars
    <2>9. StrayVisible'
        BY <1>2, <1>4, <2>2, <2>5 DEF StrayVisible, Selected
    <2> QED
        BY <2>5, <2>6, <2>7, <2>8, <2>9 DEF IInv
<1> QED
    BY <1>3, <1>4

\* Only the fields named change.
LEMMA PrepareStep == ASSUME IInv, Prepare PROVE IInv'
<1>0. ASSUME pc \in CheckPCs
      PROVE  txn \in Locals /\ ~txn.strayed /\ pc # "idle" /\ Sound(pc, txn)
    BY <1>0, Busy DEF Sound, CheckPCs
<1>1. CASE VerifyOwned
    <2>1. pc = "owned" /\ Look(Owned, "capture", txn)
        BY <1>1 DEF VerifyOwned
    <2>2. Sound(pc, txn) /\ ~txn.strayed
        BY <1>0, <2>1 DEF CheckPCs
    <2>3. Sound("capture", txn)
        BY <2>1, <2>2 DEF Sound, Captured, CheckPCs, StagePCs, CommitPCs, RestorePCs
    <2> QED
        BY <2>1, <2>2, <2>3, LookKeeps DEF PCs, CheckPCs, Owned, MatchesExcept, Identities
<1>2. CASE CaptureBefore
    <2> DEFINE t == [txn EXCEPT !.before = leaf]
    <2>1. pc = "capture" /\ Look(TRUE, "read", t)
        BY <1>2 DEF CaptureBefore
    <2>2. Sound(pc, txn) /\ ~txn.strayed /\ txn \in Locals
        BY <1>0, <2>1 DEF CheckPCs
    <2>3. t \in Locals /\ t.before \in Contents
        BY <2>2 DEF Locals, IInv, TypeOK
    <2>4. SelectedOf(t) = SelectedOf(txn) /\ StagingOf(t) = StagingOf(txn)
        BY <2>2, <2>3 DEF Locals, SelectedOf, StagingOf
    <2>5. Sound("read", t)
        BY <2>1, <2>2, <2>3, <2>4 DEF Sound, Locals, Captured, CheckPCs, StagePCs, CommitPCs, RestorePCs
    <2>6. ~t.strayed /\ t.selected = txn.selected
        BY <2>2 DEF Locals
    <2> HIDE DEF t
    <2> QED
        BY <2>1, <2>5, <2>6, LookKeeps DEF PCs, CheckPCs
<1>3. CASE ReadTyped
    <2> DEFINE read == [l \in DOMAIN txn.goal |-> leaf[l]]
               t == [txn EXCEPT !.from = read, !.observed = read]
               c == \A l \in DOMAIN read : Above(l) \cap DOMAIN read = {} => Exists(l)
    <2>1. pc = "read" /\ Look(c, "recheck", t)
        BY <1>3 DEF ReadTyped
    <2>2. Sound(pc, txn) /\ ~txn.strayed /\ txn \in Locals
        BY <1>0, <2>1 DEF CheckPCs
    <2>3. read \in Configurations
        <3>1. txn.goal \in Configurations /\ leaf \in Contents
            BY <2>2 DEF Locals, IInv, TypeOK
        <3>2. DOMAIN txn.goal \subseteq Typed
            BY <3>1, ConfigurationIs
        <3>3. read \in [DOMAIN txn.goal -> Values \cup {Absent}]
            BY <3>1, <3>2 DEF Contents
        <3> QED
            BY <3>2, <3>3, ConfigurationOf
    <2>4. DOMAIN read = DOMAIN txn.goal
        OBVIOUS
    <2> HIDE DEF read
    <2>5. t \in Locals /\ t.from = read /\ t.observed = read
        BY <2>2, <2>3 DEF Locals
    <2>6. SelectedOf(t) = SelectedOf(txn) /\ t.goal = txn.goal /\ t.asked = txn.asked
          /\ t.journal = txn.journal /\ t.before = txn.before
          /\ t.kind = txn.kind /\ t.mode = txn.mode /\ t.phase = txn.phase
          /\ ~t.strayed /\ t.selected = txn.selected
        BY <2>2, <2>5 DEF Locals, SelectedOf
    <2> HIDE DEF t
    <2>7. Sound("recheck", t)
        BY <2>1, <2>2, <2>4, <2>5, <2>6
        DEF Sound, Captured, CheckPCs, StagePCs, CommitPCs, RestorePCs
    <2>8. c \in BOOLEAN
        OBVIOUS
    <2> HIDE DEF c
    <2> QED
        BY <2>1, <2>2, <2>6, <2>7, <2>8, LookKeeps DEF PCs, CheckPCs
<1>4. CASE Recheck
    <2>1. pc = "recheck" /\ Look(MatchesExcept(txn.before, Tuned), "owned_again", txn)
        BY <1>4 DEF Recheck
    <2>2. Sound(pc, txn) /\ ~txn.strayed
        BY <1>0, <2>1 DEF CheckPCs
    <2>3. Sound("owned_again", txn)
        BY <2>1, <2>2 DEF Sound, Captured, CheckPCs, StagePCs, CommitPCs, RestorePCs
    <2> QED
        BY <2>1, <2>2, <2>3, LookKeeps DEF PCs, CheckPCs, MatchesExcept
<1>5. CASE VerifyRequest
    <2> DEFINE effective == Effective(txn.goal, txn.from, Selected)
               t == [txn EXCEPT !.goal = effective, !.asked = effective]
    <2>1. pc = "owned_again" /\ UNCHANGED <<kernelVars, states, staged, budgets>>
        BY <1>5 DEF VerifyRequest
    <2>2. Sound(pc, txn) /\ ~txn.strayed /\ txn \in Locals /\ Selected = SelectedOf(txn)
          /\ pc # "idle"
        BY <1>0, <2>1, Busy DEF CheckPCs
    <2>3. CASE Return("ok")
        BY <2>1, <2>3, ReturnKeeps DEF IInv, TypeOK, Results, budgets
    <2>4. CASE Fail
        BY <2>1, <2>2, <2>4, FailKeeps DEF IInv, TypeOK, budgets
    <2>5. CASE Advance("stage_ids", t)
        <3>1. /\ txn.goal \in Configurations /\ txn.from \in Configurations
              /\ DOMAIN txn.from = DOMAIN txn.goal /\ DOMAIN txn.goal \subseteq Typed
              /\ \A l \in DOMAIN txn.goal : /\ txn.goal[l] \in Values \cup {Absent}
                                            /\ txn.from[l] \in Values \cup {Absent}
            <4>1. /\ txn.goal \in Configurations /\ txn.from \in Configurations
                  /\ DOMAIN txn.from = DOMAIN txn.goal
                BY <2>1, <2>2 DEF Sound, Locals
            <4> QED
                BY <4>1, ConfigurationIs
        <3>2. effective \in Configurations /\ DOMAIN effective = DOMAIN txn.goal
            <4>1. effective \in [DOMAIN txn.goal -> Values \cup {Absent}]
                BY <3>1 DEF Effective
            <4> QED
                BY <3>1, <4>1, ConfigurationOf
        <3>3. txn.kind = "update" => Cleaned(effective, Selected) \in Configurations
            <4> SUFFICES ASSUME txn.kind = "update"
                         PROVE  Cleaned(effective, Selected) \in Configurations
                OBVIOUS
            <4> DEFINE old == Cleaned(txn.goal, Selected)
            <4>1. DOMAIN txn.goal = Typed /\ old \in Configurations
                BY <2>1, <2>2 DEF Sound, CheckPCs
            <4>2. Cleaned(effective, Selected)
                  = [l \in Typed |-> IF Dir[l] \in Selected THEN old[l] ELSE txn.from[l]]
                BY <4>1, CleanedEffective
            <4>3. DOMAIN old = Typed
                BY <4>1 DEF Cleaned
            <4>4. \A l \in Typed : old[l] \in Values \cup {Absent}
                BY <4>1, <4>3, ConfigurationIs
            <4> HIDE DEF old
            <4>5. Cleaned(effective, Selected) \in [Typed -> Values \cup {Absent}]
                BY <3>1, <4>1, <4>2, <4>4
            <4> QED
                BY <4>5, ConfigurationOf
        <3> HIDE DEF effective
        <3>4. t \in Locals /\ t.goal = effective /\ t.asked = effective
            BY <2>2, <3>2 DEF Locals
        <3>5. SelectedOf(t) = SelectedOf(txn) /\ t.from = txn.from /\ t.observed = txn.observed
              /\ t.journal = txn.journal /\ t.before = txn.before
              /\ t.kind = txn.kind /\ t.mode = txn.mode /\ t.phase = txn.phase
              /\ ~t.strayed /\ t.selected = txn.selected
            BY <2>2, <3>4 DEF Locals, SelectedOf
        <3> HIDE DEF t
        <3>6. Sound("stage_ids", t)
            BY <2>1, <2>2, <3>2, <3>3, <3>4, <3>5
            DEF Sound, Captured, CheckPCs, StagePCs, CommitPCs, RestorePCs
        <3> QED
            BY <2>1, <2>2, <2>5, <3>5, <3>6, AdvanceKeeps
            DEF PCs, StagePCs, IInv, TypeOK, budgets, kernelVars
    <2>6. Return("ok") \/ Fail \/ Advance("stage_ids", t)
        BY <1>5 DEF VerifyRequest, Continue, Effective
    <2> QED
        BY <2>3, <2>4, <2>5, <2>6
<1> QED
    BY <1>1, <1>2, <1>3, <1>4, <1>5 DEF Prepare

\* The locals but for what the loops have left.
Alike(t) ==
    /\ t \in Locals
    /\ t.kind = txn.kind /\ t.goal = txn.goal /\ t.from = txn.from
    /\ t.selected = txn.selected /\ t.before = txn.before /\ t.captured = txn.captured
    /\ t.journal = txn.journal /\ t.phase = txn.phase /\ t.mode = txn.mode
    /\ t.asked = txn.asked /\ t.observed = txn.observed /\ t.began = txn.began
    /\ t.strayed = txn.strayed

LEMMA TodoAlike ==
    ASSUME txn \in Locals, NEW S \in SUBSET Leaves
    PROVE  LET t == [txn EXCEPT !.todo = S] IN Alike(t) /\ t.todo = S /\ t.queue = txn.queue
BY DEF Alike, Locals

LEMMA QueueAlike ==
    ASSUME txn \in Locals, NEW q \in Seq(K)
    PROVE  LET t == [txn EXCEPT !.queue = q] IN Alike(t) /\ t.queue = q /\ t.todo = txn.todo
BY DEF Alike, Locals

\* A step of the staging that leaves the other locals alone.
LEMMA StageLook ==
    ASSUME IInv, pc \in StagePCs, NEW c \in BOOLEAN, NEW l \in StagePCs, NEW t, Look(c, l, t),
           Alike(t), l = "stage" => t.todo \subseteq ToStage(t.goal, t.from),
           l = "unchanged" => t.kind = "goals",
           Captured(l, t) => txn.captured \in Contents
    PROVE  IInv'
<1>1. txn \in Locals /\ pc # "idle" /\ Sound(pc, txn)
    BY Busy DEF StagePCs
<1>2. SelectedOf(t) = SelectedOf(txn) /\ StagingOf(t) = StagingOf(txn)
    BY DEF Alike, SelectedOf, StagingOf
<1>3. ~t.strayed
    BY <1>1 DEF Sound, Alike, StagePCs, Locals
<1>4. Sound(l, t)
    BY <1>1, <1>2, <1>3
    DEF Sound, Alike, CheckPCs, StagePCs, CommitPCs, RestorePCs
<1> QED
    BY <1>1, <1>3, <1>4, LookKeeps DEF Alike, PCs, StagePCs

\* The staging, leaf by leaf, and its checks.
LEMMA StageStep == ASSUME IInv, Stage PROVE IInv'
<1>0. ASSUME pc \in StagePCs
      PROVE  txn \in Locals /\ ~txn.strayed /\ pc # "idle" /\ Sound(pc, txn) /\ Alike(txn)
             /\ txn.mode = "forward"
    BY <1>0, Busy DEF Sound, StagePCs, Alike
<1>1. CASE StartStaging
    <2> DEFINE S == ToStage(txn.goal, txn.from)
    <2>1. pc = "stage_ids" /\ Look(Identities, "stage", [txn EXCEPT !.todo = S])
        BY <1>1 DEF StartStaging
    <2>2. txn \in Locals /\ txn.goal \in Configurations
        BY <1>0, <2>1 DEF StagePCs, Locals
    <2>3. S \subseteq Leaves
        BY <2>2, StagedOf
    <2>4. Alike([txn EXCEPT !.todo = S]) /\ [txn EXCEPT !.todo = S].todo = S
        BY <2>2, <2>3, TodoAlike
    <2> QED
        BY <2>1, <2>4, StageLook DEF StagePCs, Identities, Captured, CommitPCs, Alike
<1>2. CASE StageLeaf
    <2> DEFINE l == Least(txn.todo)
               rest == txn.todo \ {l}
               t == [txn EXCEPT !.todo = rest, !.journal = @ \cup {l}]
    <2>0. pc = "stage" /\ txn.todo # {}
        BY <1>2 DEF StageLeaf
    <2>1. txn \in Locals /\ Sound(pc, txn) /\ ~txn.strayed /\ pc # "idle"
        BY <1>0, <2>0 DEF StagePCs
    <2>2. /\ l \in txn.todo /\ l \in ToStage(txn.goal, txn.from) /\ rest \subseteq Leaves
          /\ rest \subseteq ToStage(txn.goal, txn.from)
        BY <2>0, <2>1, HasLeast DEF Sound, Locals
    <2>3. l \in Typed /\ l \in Leaves /\ txn.goal[l] \in Values
        BY <2>1, <2>2, StagedOf DEF Locals
    <2>4. CASE Look(TRUE, "stage", [txn EXCEPT !.todo = rest])
        <3>1. Alike([txn EXCEPT !.todo = rest]) /\ [txn EXCEPT !.todo = rest].todo = rest
            BY <2>1, <2>2, TodoAlike
        <3> QED
            BY <2>0, <2>2, <2>4, <3>1, StageLook DEF StagePCs, Captured, CommitPCs, Alike
    <2>5. CASE Look(FALSE, "stage", txn)
        BY <2>0, <2>1, <2>5, LookKeeps DEF PCs, StagePCs
    <2>6. ASSUME NEW v \in Values, WriteLeaf(l, v), Advance("stage", t),
                 UNCHANGED <<states, staged, calls, rogue, exits, tunes>>,
                 faults' \in 0 .. MaxFaults
          PROVE  IInv'
        <3>1. leaf' \in Contents /\ UNCHANGED <<active, thread, nextPid>>
            BY <2>3, <2>6, WrittenTyped DEF WriteLeaf, IInv, TypeOK
        <3> HIDE DEF l, rest
        <3>2. /\ t \in Locals /\ t.todo = rest /\ t.journal = txn.journal \cup {l}
              /\ t.kind = txn.kind /\ t.goal = txn.goal /\ t.from = txn.from
              /\ t.selected = txn.selected /\ t.before = txn.before
              /\ t.phase = txn.phase /\ t.mode = txn.mode /\ t.asked = txn.asked
              /\ t.observed = txn.observed /\ t.strayed = txn.strayed
            BY <2>1, <2>2, <2>3 DEF Locals
        <3>3. SelectedOf(t) = SelectedOf(txn) /\ StagingOf(t) = StagingOf(txn)
            BY <3>2 DEF SelectedOf, StagingOf
        <3>4. l \in StagingOf(t)
            BY <2>0, <2>1, <2>2, <3>3 DEF StagingOf, Sound, Locals
        <3> HIDE DEF t
        <3>5. Sound("stage", t)
            BY <2>0, <2>1, <2>2, <3>2, <3>3, <3>4
            DEF Sound, Captured, CheckPCs, StagePCs, CommitPCs, RestorePCs
        <3> QED
            BY <2>1, <2>6, <3>1, <3>2, <3>5, AdvanceKeeps DEF PCs, StagePCs, IInv, TypeOK
    <2>7. CASE /\ Exists(l)
               /\ \/ /\ WriteLeaf(l, txn.goal[l])
                     /\ UNCHANGED faults
                  \/ /\ l \notin Counts
                     /\ faults < MaxFaults
                     /\ faults' = faults + 1
                     /\ \E v \in Misstored \ {txn.goal[l]} : WriteLeaf(l, v)
               /\ Advance("stage", t)
               /\ UNCHANGED <<states, staged, calls, rogue, exits, tunes>>
        <3>1. faults' \in 0 .. MaxFaults
            BY <2>7 DEF IInv, TypeOK
        <3>2. PICK v \in Values : WriteLeaf(l, v)
            BY <2>3, <2>7
        <3> QED
            BY <2>6, <2>7, <3>1, <3>2
    <2> QED
        BY <1>2, <2>4, <2>5, <2>7 DEF StageLeaf
<1>3. CASE StagingDone
    BY <1>0, <1>3, StageLook DEF StagingDone, StagePCs, Captured, CommitPCs
<1>4. CASE VerifyStagedIdentities
    BY <1>0, <1>4, StageLook DEF VerifyStagedIdentities, StagePCs, Captured, CommitPCs, Identities
<1>5. CASE VerifyUnchanged
    BY <1>0, <1>5, StageLook DEF VerifyUnchanged, StagePCs, Captured, CommitPCs, MatchesExcept
<1>6. CASE CaptureStaged
    <2> DEFINE t == [txn EXCEPT !.captured = leaf]
    <2>1. pc = "snapshot" /\ Look(TRUE, "compare", t)
        BY <1>6 DEF CaptureStaged
    <2>2. Sound(pc, txn) /\ ~txn.strayed /\ txn \in Locals /\ pc # "idle"
        BY <1>0, <2>1 DEF StagePCs
    <2>3. t \in Locals /\ t.captured \in Contents
        BY <2>2 DEF Locals, IInv, TypeOK
    <2>4. /\ SelectedOf(t) = SelectedOf(txn) /\ StagingOf(t) = StagingOf(txn)
          /\ t.kind = txn.kind /\ t.goal = txn.goal /\ t.from = txn.from
          /\ t.selected = txn.selected /\ t.before = txn.before
          /\ t.phase = txn.phase /\ t.mode = txn.mode /\ t.asked = txn.asked
          /\ t.observed = txn.observed /\ t.strayed = txn.strayed /\ t.journal = txn.journal
        BY <2>2, <2>3 DEF Locals, SelectedOf, StagingOf
    <2> HIDE DEF t
    <2>5. Sound("compare", t)
        BY <2>1, <2>2, <2>3, <2>4 DEF Sound, Captured, CheckPCs, StagePCs, CommitPCs, RestorePCs
    <2> QED
        BY <2>1, <2>2, <2>4, <2>5, LookKeeps DEF PCs, StagePCs
<1>7. CASE CompareTyped
    <2>1. pc = "compare" /\ Look(SameTyped(txn.goal, leaf), "values", txn)
        BY <1>7 DEF CompareTyped
    <2> QED
        BY <1>0, <2>1, StageLook DEF StagePCs, Sound, Captured, SameTyped
<1>8. CASE ValuesMatch
    <2>1. pc = "values" /\ Look(MatchesExcept(txn.captured, {}), "commit_ids", txn)
        BY <1>8 DEF ValuesMatch
    <2> QED
        BY <1>0, <2>1, StageLook DEF StagePCs, Sound, Captured, MatchesExcept
<1>9. CASE StartCommits
    <2> DEFINE t == [txn EXCEPT !.queue = txn.selected]
               l == IF txn.phase = "main" THEN "commit_id" ELSE "adopt"
    <2>1. pc = "commit_ids" /\ Look(Identities, l, t)
        BY <1>9 DEF StartCommits
    <2>2. Sound(pc, txn) /\ ~txn.strayed /\ txn \in Locals /\ pc # "idle" /\ txn.mode = "forward"
        BY <1>0, <2>1 DEF StagePCs
    <2>3. Alike(t) /\ t.queue = txn.selected
        BY <2>2, QueueAlike DEF Locals
    <2> HIDE DEF t
    <2>4. SelectedOf(t) = SelectedOf(txn) /\ StagingOf(t) = StagingOf(txn)
        BY <2>3 DEF Alike, SelectedOf, StagingOf
    <2>5. Sound(l, t)
        BY <2>1, <2>2, <2>3, <2>4
        DEF Sound, Captured, CheckPCs, StagePCs, CommitPCs, RestorePCs, Alike, SelectedOf
    <2>6. l \in PCs \ {"idle"} /\ ~t.strayed /\ t.selected = txn.selected
        BY <2>2, <2>3 DEF PCs, CommitPCs, Alike
    <2> HIDE DEF l
    <2> QED
        BY <2>1, <2>2, <2>5, <2>6, LookKeeps DEF Identities
<1> QED
    BY <1>1, <1>2, <1>3, <1>4, <1>5, <1>6, <1>7, <1>8, <1>9 DEF Stage

\* A step after the staging that leaves the other locals alone.
LEMMA LaterLook ==
    ASSUME IInv, pc \in CommitPCs \cup RestorePCs, NEW c \in BOOLEAN,
           NEW l \in CommitPCs \cup RestorePCs, NEW t, Look(c, l, t), Alike(t),
           l \in RestorePCs => t.mode # "forward",
           l \in {"restored_ids", "restored_match", "recapture", "recommitted_match"}
                => t.mode = "rollback",
           l \in {"restored_ids", "restored_match"} => t.kind = "update",
           l \in CommitPCs \cup {"restored_ids", "restored_match"} =>
                t.queue # <<>> /\ \A k \in DOMAIN t.queue : t.queue[k] \in SelectedOf(t),
           l \in CommitPCs /\ t.mode = "forward" => ~t.strayed /\ pc \in CommitPCs,
           l = "restore" => t.todo \subseteq ToRestore(t.before, AffectedBy(t.before, t.journal)),
           Captured(l, t) => txn.captured \in Contents
    PROVE  IInv'
<1>1. txn \in Locals /\ pc # "idle" /\ Sound(pc, txn)
    BY Busy DEF CommitPCs, RestorePCs
<1>2. SelectedOf(t) = SelectedOf(txn) /\ StagingOf(t) = StagingOf(txn)
    BY DEF Alike, SelectedOf, StagingOf
<1>3. t.mode = "forward" => ~t.strayed
    BY <1>1 DEF RestorePCs, CommitPCs
<1>4. Sound(l, t)
    BY <1>1, <1>2, <1>3
    DEF Sound, Alike, CheckPCs, StagePCs, CommitPCs, RestorePCs
<1>5. l \in PCs \ {"idle"} /\ t.selected = txn.selected
    BY DEF Alike, PCs, CommitPCs, RestorePCs
<1> QED
    BY <1>1, <1>3, <1>4, <1>5, LookKeeps

\* The commits, and what adopts the captured fingerprint.
LEMMA CommitLoopStep == ASSUME IInv, CommitLoop PROVE IInv'
<1>0. ASSUME pc \in CommitPCs
      PROVE  /\ txn \in Locals /\ pc # "idle" /\ Sound(pc, txn) /\ Alike(txn)
             /\ txn.queue \in Seq(K) /\ txn.queue # <<>>
             /\ \A k \in DOMAIN txn.queue : txn.queue[k] \in SelectedOf(txn)
             /\ Head(txn.queue) \in K
             /\ txn.mode = "forward" => txn.phase = "main" /\ txn.captured \in Contents
    <2>1. txn \in Locals /\ pc # "idle" /\ Sound(pc, txn)
        BY <1>0, Busy DEF CommitPCs
    <2>2. txn.queue \in Seq(K) /\ txn.queue # <<>>
          /\ \A k \in DOMAIN txn.queue : txn.queue[k] \in SelectedOf(txn)
        BY <1>0, <2>1 DEF Sound, Locals
    <2> QED
        BY <1>0, <2>1, <2>2 DEF Alike, Sound, Captured
<1>1. CASE VerifyBeforeCommit
    <2>1. pc = "commit_id" /\ Look(Identity(Head(txn.queue)), "commit", txn)
        BY <1>1 DEF VerifyBeforeCommit
    <2>2. txn.mode = "forward" => ~txn.strayed
        BY <1>0, <2>1 DEF Sound, CommitPCs
    <2> QED
        BY <1>0, <2>1, <2>2, LaterLook DEF CommitPCs, RestorePCs, Captured, Identity
<1>2. CASE Commit
    <2> DEFINE i == Head(txn.queue)
               t == [txn EXCEPT !.strayed = @ \/ thread[i] # states[i]]
    <2>0. pc = "commit"
        BY <1>2 DEF Commit
    <2>1. txn \in Locals /\ pc # "idle" /\ Sound(pc, txn)
        BY <1>0, <2>0 DEF CommitPCs
    <2>2. CASE Look(FALSE, "committed", txn)
        BY <2>1, <2>2, LookKeeps DEF PCs, CommitPCs
    <2>3. CASE /\ CommitLeaves(i, Committed(i))
               /\ Advance("committed", t)
               /\ UNCHANGED <<states, staged, budgets>>
        <3>1. active' \in Contents /\ UNCHANGED <<leaf, thread, nextPid>>
            BY <2>3 DEF CommitLeaves, Contents, IInv, TypeOK
        <3>2. /\ t \in Locals /\ t.queue = txn.queue
              /\ t.kind = txn.kind /\ t.goal = txn.goal /\ t.from = txn.from
              /\ t.selected = txn.selected /\ t.before = txn.before /\ t.captured = txn.captured
              /\ t.phase = txn.phase /\ t.mode = txn.mode /\ t.asked = txn.asked
              /\ t.observed = txn.observed /\ t.journal = txn.journal
            BY <2>1 DEF Locals
        <3>3. t.strayed <=> txn.strayed \/ thread[i] # states[i]
            BY <2>1 DEF Locals
        <3>4. txn.mode = "forward" => ~txn.strayed
            BY <2>0, <2>1 DEF Sound
        <3>5. SelectedOf(t) = SelectedOf(txn) /\ StagingOf(t) = StagingOf(txn)
            BY <3>2 DEF SelectedOf, StagingOf
        <3> HIDE DEF t
        <3>6. Sound("committed", t)
            BY <2>0, <2>1, <3>2, <3>5
            DEF Sound, Captured, CheckPCs, StagePCs, CommitPCs, RestorePCs
        <3>7. t.mode = "forward" /\ t.strayed => ~Identity(Head(t.queue))
            BY <3>2, <3>3, <3>4 DEF Identity
        <3> QED
            BY <2>1, <2>3, <3>1, <3>2, <3>6, <3>7, AdvanceKeeps
            DEF PCs, CommitPCs, IInv, TypeOK, budgets
    <2> QED
        BY <1>2, <2>2, <2>3 DEF Commit
<1>3. CASE VerifyAfterCommit
    <2> DEFINE i == Head(txn.queue)
               cleaned == Cleaned(txn.goal, Selected)
               again == txn.mode = "forward" /\ txn.kind = "update"
                        /\ \E l \in DOMAIN txn.goal : txn.goal[l] = Gone
               next == IF txn.mode = "forward" THEN "adopt"
                       ELSE IF txn.kind = "update" THEN "recapture"
                       ELSE "recommitted_match"
    <2>0. pc = "committed" /\ UNCHANGED <<kernelVars, states, staged, budgets>>
        BY <1>3 DEF VerifyAfterCommit
    <2>1. /\ txn \in Locals /\ pc # "idle" /\ Sound(pc, txn) /\ Alike(txn)
          /\ Selected = SelectedOf(txn)
        BY <1>0, <2>0, Busy DEF CommitPCs
    <2>2. Look(TRUE, pc', txn') \/ Fail
        BY <1>3 DEF VerifyAfterCommit, Look, Continue, Advance
    <2>3. CASE Fail
        BY <2>0, <2>1, <2>3, FailKeeps DEF IInv, TypeOK, budgets
    <2>4. CASE Identity(i) /\ Len(txn.queue) > 1
               /\ Advance("commit_id", [txn EXCEPT !.queue = Tail(@)])
        <3> DEFINE t == [txn EXCEPT !.queue = Tail(txn.queue)]
        <3>1. /\ Tail(txn.queue) \in Seq(K) /\ Tail(txn.queue) # <<>>
              /\ \A k \in DOMAIN Tail(txn.queue) : Tail(txn.queue)[k] \in SelectedOf(txn)
            <4>1. txn.queue \in Seq(K) /\ txn.queue # <<>>
                  /\ \A k \in DOMAIN txn.queue : txn.queue[k] \in SelectedOf(txn)
                BY <1>0, <2>0 DEF CommitPCs
            <4>2. Tail(txn.queue) \in Seq(K) /\ Len(Tail(txn.queue)) = Len(txn.queue) - 1
                BY <4>1
            <4>3. \A k \in DOMAIN Tail(txn.queue) : /\ k + 1 \in DOMAIN txn.queue
                                                   /\ Tail(txn.queue)[k] = txn.queue[k + 1]
                BY <4>1
            <4>4. Tail(txn.queue) # <<>>
                <5>1. Len(Tail(txn.queue)) # 0
                    BY <2>4, <4>1, <4>2
                <5>2. Len(<<>>) = 0
                    OBVIOUS
                <5> QED
                    BY <5>1, <5>2, Zenon
            <4>5. \A k \in DOMAIN Tail(txn.queue) : Tail(txn.queue)[k] \in SelectedOf(txn)
                BY <4>1, <4>3
            <4> QED
                BY <4>2, <4>4, <4>5
        <3>2. Alike(t) /\ t.queue = Tail(txn.queue)
            BY <2>1, <3>1, QueueAlike
        <3>3. Look(TRUE, "commit_id", t)
            BY <2>0, <2>4 DEF Look, Continue, Advance
        <3>4. txn.mode = "forward" => ~txn.strayed
            BY <2>1, <2>4 DEF IInv, StrayVisible
        <3> HIDE DEF t
        <3>5. SelectedOf(t) = SelectedOf(txn) /\ t.mode = txn.mode /\ t.strayed = txn.strayed
            BY <3>2 DEF SelectedOf, Alike
        <3>6. Captured("commit_id", t) => txn.captured \in Contents
            BY <1>0, <2>0, <3>5 DEF Captured, CommitPCs
        <3> QED
            BY <2>0, <3>1, <3>2, <3>3, <3>4, <3>5, <3>6, LaterLook DEF CommitPCs, RestorePCs
    <2>5. CASE Identity(i) /\ again
               /\ Advance("stage_ids", [txn EXCEPT !.queue = <<>>, !.phase = "clean",
                                                   !.from = txn.goal, !.goal = cleaned])
        <3> DEFINE t == [txn EXCEPT !.queue = <<>>, !.phase = "clean",
                                    !.from = txn.goal, !.goal = cleaned]
        <3>1. txn.mode = "forward" /\ txn.kind = "update" /\ txn.phase = "main" /\ ~txn.strayed
            BY <1>0, <2>0, <2>1, <2>5 DEF CommitPCs, IInv, StrayVisible
        <3>2. cleaned \in Configurations /\ DOMAIN txn.goal = Typed
            BY <2>1, <3>1 DEF Sound
        <3>3. DOMAIN cleaned = Typed
            BY <3>2 DEF Cleaned
        <3>4. txn.asked = txn.goal /\ txn.goal \in Configurations
              /\ DOMAIN txn.observed = Typed /\ txn.before \in Contents
              /\ txn.journal \subseteq ToStage(txn.asked, txn.observed)
            BY <2>0, <2>1, <3>1, <3>2 DEF Sound, StagingOf, Locals
        <3> HIDE DEF cleaned
        <3>5. t \in Locals
            <4>1. \A u \in Locals : [u EXCEPT !.queue = <<>>, !.phase = "clean"] \in Locals
                <5>1. <<>> \in Seq(K)
                    OBVIOUS
                <5> QED
                    BY <5>1 DEF Locals
            <4>2. \A u \in Locals : [u EXCEPT !.from = txn.goal, !.goal = cleaned] \in Locals
                BY <3>2, <3>4 DEF Locals
            <4> QED
                BY <2>1, <4>1, <4>2
        <3>6. /\ t.goal = cleaned /\ t.from = txn.goal /\ t.phase = "clean" /\ t.kind = "update"
              /\ t.selected = txn.selected /\ t.before = txn.before /\ t.mode = "forward"
              /\ t.asked = txn.asked /\ t.observed = txn.observed /\ t.journal = txn.journal
              /\ ~t.strayed
            BY <2>1, <3>1, <3>5 DEF Locals
        <3> HIDE DEF t
        <3>7. t.journal \subseteq StagingOf(t)
            BY <3>4, <3>6 DEF StagingOf
        <3>8. Sound("stage_ids", t)
            BY <2>1, <3>2, <3>3, <3>4, <3>5, <3>6, <3>7
            DEF Sound, Captured, CheckPCs, StagePCs, CommitPCs, RestorePCs
        <3> QED
            BY <2>0, <2>1, <2>5, <3>6, <3>8, AdvanceKeeps
            DEF t, PCs, StagePCs, IInv, TypeOK, kernelVars, budgets
    <2>6. CASE Identity(i) /\ txn.mode # "written" /\ Advance(next, [txn EXCEPT !.queue = <<>>])
        <3> DEFINE t == [txn EXCEPT !.queue = <<>>]
        <3>1. <<>> \in Seq(K)
            OBVIOUS
        <3>2. Alike(t) /\ t.queue = <<>>
            BY <2>1, <3>1, QueueAlike
        <3>3. txn.mode = "forward" => ~txn.strayed /\ txn.captured \in Contents
            BY <1>0, <2>0, <2>1, <2>6 DEF IInv, StrayVisible, CommitPCs
        <3> HIDE DEF t
        <3>4. SelectedOf(t) = SelectedOf(txn) /\ StagingOf(t) = StagingOf(txn)
            BY <3>2 DEF SelectedOf, StagingOf, Alike
        <3>5. Sound(next, t)
            BY <2>0, <2>1, <2>6, <3>2, <3>3, <3>4
            DEF Sound, Alike, Captured, CheckPCs, StagePCs, CommitPCs, RestorePCs, Locals
        <3>6. next \in PCs \ {"idle"}
            BY DEF PCs, RestorePCs
        <3>7. t.selected = txn.selected /\ (t.mode = "forward" => ~t.strayed)
            BY <3>2, <3>3 DEF Alike
        <3> HIDE DEF next
        <3> QED
            BY <2>0, <2>1, <2>6, <3>5, <3>6, <3>7, AdvanceKeeps
            DEF t, IInv, TypeOK, kernelVars, budgets
    <2> QED
        BY <1>3, <2>3, <2>4, <2>5, <2>6 DEF VerifyAfterCommit
<1>4. CASE Adopt
    <2>1. pc = "adopt" /\ UNCHANGED <<kernelVars, states, budgets>>
        BY <1>4 DEF Adopt
    <2>2. txn.captured \in Contents
        BY <2>1, Busy DEF Sound, Captured
    <2>3. CASE staged' = txn.captured /\ Return(IF txn.mode = "forward" THEN "ok" ELSE "failed")
        BY <2>1, <2>2, <2>3, ReturnKeeps DEF Results, IInv, TypeOK, budgets
    <2>4. CASE Fail /\ UNCHANGED staged
        BY <2>1, <2>4, FailKeeps DEF IInv, TypeOK, budgets
    <2> QED
        BY <1>4, <2>3, <2>4 DEF Adopt
<1> QED
    BY <1>1, <1>2, <1>3, <1>4 DEF CommitLoop

\* The undoing.
LEMMA RestoreStep == ASSUME IInv, Restore PROVE IInv'
<1>0. ASSUME pc \in RestorePCs
      PROVE  /\ txn \in Locals /\ pc # "idle" /\ Sound(pc, txn) /\ Alike(txn)
             /\ txn.mode # "forward" /\ txn.before \in Contents
             /\ txn.journal \in SUBSET Typed
    BY <1>0, Busy DEF RestorePCs, Sound, Alike, Locals
<1>1. CASE VerifyBeforeRestore
    BY <1>0, <1>1, LaterLook DEF VerifyBeforeRestore, RestorePCs, CommitPCs, Captured, Identities
<1>2. CASE VerifyBoundary
    <2> DEFINE S == ToRestore(txn.before, AffectedBy(txn.before, txn.journal))
    <2>0. pc = "boundary" /\ UNCHANGED <<kernelVars, states, staged, calls, rogue, exits, tunes>>
        BY <1>2 DEF VerifyBoundary
    <2>1. txn \in Locals /\ pc # "idle" /\ Sound(pc, txn) /\ txn.mode # "forward"
          /\ txn.before \in Contents /\ txn.journal \in SUBSET Typed
        BY <1>0, <2>0 DEF RestorePCs
    <2>2. S \subseteq Leaves
        BY <2>1, RestoredOf
    <2>3. PICK m \in {"rollback", "written"} :
                Advance("restore", [txn EXCEPT !.todo = S, !.mode = m])
        BY <1>2 DEF VerifyBoundary
    <2> DEFINE t == [txn EXCEPT !.todo = S, !.mode = m]
    <2>4. faults' \in 0 .. MaxFaults
        BY <1>2 DEF VerifyBoundary, IInv, TypeOK
    <2> HIDE DEF S
    <2>5. /\ t \in Locals /\ t.todo = S /\ t.mode = m
          /\ t.kind = txn.kind /\ t.goal = txn.goal /\ t.from = txn.from
          /\ t.selected = txn.selected /\ t.before = txn.before
          /\ t.phase = txn.phase /\ t.asked = txn.asked
          /\ t.observed = txn.observed /\ t.journal = txn.journal
        BY <2>1, <2>2 DEF Locals
    <2>6. SelectedOf(t) = SelectedOf(txn) /\ StagingOf(t) = StagingOf(txn)
        BY <2>5 DEF SelectedOf, StagingOf
    <2> HIDE DEF t
    <2>7. Sound("restore", t)
        BY <2>0, <2>1, <2>5, <2>6
        DEF S, Sound, Captured, CheckPCs, StagePCs, CommitPCs, RestorePCs
    <2> QED
        BY <2>0, <2>1, <2>3, <2>4, <2>5, <2>7, AdvanceKeeps
        DEF t, PCs, RestorePCs, IInv, TypeOK, kernelVars
<1>3. CASE RestoreLeaf
    <2> DEFINE l == Least(txn.todo)
               t == [txn EXCEPT !.todo = txn.todo \ {l}]
    <2>0. pc = "restore" /\ txn.todo # {}
        BY <1>3 DEF RestoreLeaf
    <2>1. txn \in Locals /\ pc # "idle" /\ Sound(pc, txn) /\ txn.mode # "forward"
          /\ txn.before \in Contents /\ txn.journal \in SUBSET Typed
        BY <1>0, <2>0 DEF RestorePCs
    <2>2. /\ l \in txn.todo /\ txn.todo \ {l} \in SUBSET Leaves
          /\ txn.todo \subseteq ToRestore(txn.before, AffectedBy(txn.before, txn.journal))
        BY <2>0, <2>1, HasLeast DEF Sound, Locals
    <2>3. l \in Leaves /\ txn.before[l] \in Values
        BY <2>1, <2>2, RestoredOf
    <2>4. Alike(t) /\ t.todo = txn.todo \ {l} /\ t.mode = txn.mode /\ t.before = txn.before
          /\ t.journal = txn.journal
        BY <2>1, <2>2, TodoAlike DEF Alike
    <2>5. CASE Look(TRUE, "restore", t)
        BY <2>0, <2>1, <2>2, <2>4, <2>5, LaterLook DEF RestorePCs, CommitPCs, Captured
    <2>6. CASE Look(FALSE, "restore", t)
        BY <2>0, <2>1, <2>6, LookKeeps DEF PCs, RestorePCs
    <2>7. CASE /\ WriteLeaf(l, txn.before[l]) /\ Advance("restore", t)
               /\ UNCHANGED <<states, staged, budgets>>
        <3>1. leaf' \in Contents /\ UNCHANGED <<active, thread, nextPid>>
            BY <2>3, <2>7, WrittenTyped DEF WriteLeaf, IInv, TypeOK
        <3> HIDE DEF t, l
        <3>2. SelectedOf(t) = SelectedOf(txn) /\ StagingOf(t) = StagingOf(txn)
            BY <2>4 DEF Alike, SelectedOf, StagingOf
        <3>3. Sound("restore", t)
            BY <2>0, <2>1, <2>2, <2>4, <3>2
            DEF Sound, Alike, Captured, CheckPCs, StagePCs, CommitPCs, RestorePCs
        <3> QED
            BY <2>1, <2>4, <2>7, <3>1, <3>3, AdvanceKeeps
            DEF PCs, RestorePCs, IInv, TypeOK, budgets, Alike
    <2> QED
        BY <1>3, <2>5, <2>6, <2>7 DEF RestoreLeaf
<1>4. CASE RestoreDone
    <2> DEFINE t == [txn EXCEPT !.queue = txn.selected]
               l == IF txn.mode = "rollback" /\ txn.kind = "update"
                    THEN "restored_ids" ELSE "commit_id"
               c == RestoredMatches(txn.before, AffectedBy(txn.before, txn.journal))
    <2>1. pc = "restore" /\ Look(c, l, t)
        BY <1>4 DEF RestoreDone
    <2>2. txn \in Locals /\ Sound(pc, txn) /\ txn.mode # "forward"
        BY <1>0, <2>1 DEF RestorePCs
    <2>3. Alike(t) /\ t.queue = txn.selected
        BY <2>2, QueueAlike DEF Locals
    <2>4. c \in BOOLEAN
        BY DEF RestoredMatches
    <2>5. t.queue # <<>> /\ \A k \in DOMAIN t.queue : t.queue[k] \in SelectedOf(t)
        BY <2>2, <2>3 DEF Sound, SelectedOf, Alike
    <2>6. l \in CommitPCs \cup RestorePCs /\ pc \in CommitPCs \cup RestorePCs
        BY <2>1 DEF CommitPCs, RestorePCs
    <2>7. l # "commit_id" => t.mode = "rollback" /\ t.kind = "update"
        BY <2>3 DEF Alike
    <2>8. l = "commit_id" \/ l = "restored_ids"
        OBVIOUS
    <2>9. t.mode # "forward"
        BY <2>2, <2>3 DEF Alike
    <2> HIDE DEF t, l, c
    <2> QED
        BY <2>1, <2>3, <2>4, <2>5, <2>6, <2>7, <2>8, <2>9, LaterLook
        DEF CommitPCs, RestorePCs, Captured
<1>5. CASE VerifyRestoredIdentities
    <2>1. pc = "restored_ids" /\ Look(Identities, "restored_match", txn)
        BY <1>5 DEF VerifyRestoredIdentities
    <2> QED
        BY <1>0, <2>1, LaterLook DEF RestorePCs, CommitPCs, Captured, Identities, Sound
<1>6. CASE VerifyRestored
    <2>1. pc = "restored_match" /\ Look(MatchesExcept(txn.before, Tuned), "commit_id", txn)
        BY <1>6 DEF VerifyRestored
    <2>2. txn \in Locals /\ Sound(pc, txn) /\ txn.mode # "forward" /\ Alike(txn) /\ pc # "idle"
        BY <1>0, <2>1 DEF RestorePCs
    <2>3. txn.queue # <<>> /\ \A k \in DOMAIN txn.queue : txn.queue[k] \in SelectedOf(txn)
        BY <2>1, <2>2 DEF Sound
    <2> QED
        BY <2>1, <2>2, <2>3, LaterLook DEF RestorePCs, CommitPCs, Captured, MatchesExcept
<1>7. CASE Recapture
    <2> DEFINE t == [txn EXCEPT !.captured = leaf]
               l == IF txn.kind = "update" THEN "recommitted_match" ELSE "adopt"
    <2>1. pc = "recapture" /\ Look(TRUE, l, t)
        BY <1>7 DEF Recapture
    <2>2. Sound(pc, txn) /\ txn.mode = "rollback" /\ txn \in Locals /\ pc # "idle"
        BY <1>0, <2>1 DEF RestorePCs, Sound
    <2>3. t \in Locals /\ t.captured \in Contents
        BY <2>2 DEF Locals, IInv, TypeOK
    <2>4. /\ SelectedOf(t) = SelectedOf(txn) /\ StagingOf(t) = StagingOf(txn)
          /\ t.kind = txn.kind /\ t.goal = txn.goal /\ t.from = txn.from
          /\ t.selected = txn.selected /\ t.before = txn.before
          /\ t.phase = txn.phase /\ t.mode = txn.mode /\ t.asked = txn.asked
          /\ t.observed = txn.observed /\ t.strayed = txn.strayed /\ t.journal = txn.journal
        BY <2>2, <2>3 DEF Locals, SelectedOf, StagingOf
    <2> HIDE DEF t
    <2>5. Sound(l, t)
        BY <2>1, <2>2, <2>3, <2>4
        DEF Sound, Captured, CheckPCs, StagePCs, CommitPCs, RestorePCs, Locals
    <2>6. l \in PCs \ {"idle"} /\ t.mode = "rollback"
        BY <2>2, <2>4 DEF PCs, RestorePCs
    <2> HIDE DEF l
    <2> QED
        BY <2>1, <2>2, <2>4, <2>5, <2>6, LookKeeps
<1>8. CASE VerifyRecommitted
    <2> DEFINE l == IF txn.kind = "update" THEN "adopt" ELSE "recapture"
    <2>1. pc = "recommitted_match" /\ Look(MatchesExcept(txn.before, Tuned), l, txn)
        BY <1>8 DEF VerifyRecommitted
    <2>2. Sound(pc, txn) /\ txn.mode = "rollback" /\ txn \in Locals /\ pc # "idle"
        BY <1>0, <2>1 DEF RestorePCs, Sound
    <2>3. Sound(l, txn)
        BY <2>1, <2>2 DEF Sound, Captured, CheckPCs, StagePCs, CommitPCs, RestorePCs, Locals
    <2>4. l \in PCs \ {"idle"}
        BY DEF PCs, RestorePCs
    <2> HIDE DEF l
    <2> QED
        BY <2>1, <2>2, <2>3, <2>4, LookKeeps DEF MatchesExcept
<1> QED
    BY <1>1, <1>2, <1>3, <1>4, <1>5, <1>6, <1>7, <1>8 DEF Restore

\* Failing accesses.
LEMMA FaultyStep == ASSUME IInv, Faulty PROVE IInv'
<1>1. CASE IoError
    BY <1>1, FailKeeps DEF IoError, IInv, TypeOK
<1>2. CASE TransientBusy
    <2>0. faults' \in 0 .. MaxFaults
          /\ UNCHANGED <<kernelVars, states, staged, calls, rogue, exits, tunes>>
        BY <1>2 DEF TransientBusy, IInv, TypeOK
    <2>1. ASSUME NEW l \in {"stage_ids", "restore"}, NEW S \in SUBSET Leaves,
                 \/ pc = "stage" /\ l = "stage_ids"
                 \/ /\ pc = "restore" /\ l = "restore"
                    /\ S = ToRestore(txn.before, AffectedBy(txn.before, txn.journal)),
                 Advance(l, [txn EXCEPT !.todo = S])
          PROVE  IInv'
        <3> DEFINE t == [txn EXCEPT !.todo = S]
        <3>1. txn \in Locals /\ pc # "idle" /\ Sound(pc, txn)
            BY <2>1, Busy
        <3>2. Alike(t) /\ t.todo = S
            BY <3>1, TodoAlike
        <3>3. SelectedOf(t) = SelectedOf(txn) /\ StagingOf(t) = StagingOf(txn)
            BY <3>2 DEF SelectedOf, StagingOf, Alike
        <3> HIDE DEF t
        <3>4. Sound(l, t)
            BY <2>1, <3>1, <3>2, <3>3
            DEF Sound, Alike, Captured, CheckPCs, StagePCs, CommitPCs, RestorePCs
        <3>5. t.mode = "forward" => ~t.strayed
            BY <2>1, <3>1, <3>2 DEF Sound, Alike, StagePCs
        <3> QED
            BY <2>0, <2>1, <3>1, <3>2, <3>4, <3>5, AdvanceKeeps
            DEF t, Alike, PCs, StagePCs, RestorePCs, IInv, TypeOK, kernelVars
    <2>2. pc = "restore" => ToRestore(txn.before, AffectedBy(txn.before, txn.journal)) \subseteq Leaves
        BY Busy, RestoredOf DEF Sound, Locals
    <2>3. CASE pc = "stage" /\ Advance("stage_ids", [txn EXCEPT !.todo = {}])
        <3>1. {} \in SUBSET Leaves
            OBVIOUS
        <3> QED
            BY <2>1, <2>3, <3>1
    <2>4. CASE pc = "restore" /\ Advance("restore", [txn EXCEPT !.todo =
                    ToRestore(txn.before, AffectedBy(txn.before, txn.journal))])
        <3> DEFINE S == ToRestore(txn.before, AffectedBy(txn.before, txn.journal))
        <3>1. S \in SUBSET Leaves
            BY <2>2, <2>4
        <3>2. pc = "restore" /\ Advance("restore", [txn EXCEPT !.todo = S])
            BY <2>4
        <3>3. S = ToRestore(txn.before, AffectedBy(txn.before, txn.journal))
            OBVIOUS
        <3> HIDE DEF S
        <3> QED
            BY <2>1, <3>1, <3>2, <3>3
    <2> QED
        BY <1>2, <2>3, <2>4 DEF TransientBusy
<1> QED
    BY <1>1, <1>2 DEF Faulty

\* Files and threads move on; no pid moves back to the session's thread, and a
\* new thread has a new pid.
LEMMA EnvironmentKeeps ==
    ASSUME IInv, leaf' \in Contents, active' \in Contents,
           thread' \in [K -> 0 .. MaxPid], nextPid' \in 1 .. MaxPid + 1,
           \A i \in K : thread'[i] = thread[i] \/ thread'[i] = 0
                        \/ (thread'[i] = nextPid /\ nextPid' = nextPid + 1),
           nextPid' >= nextPid,
           rogue' \in 0 .. MaxRogue, exits' \in 0 .. MaxExits, tunes' \in 0 .. MaxTunes,
           UNCHANGED <<states, staged, pc, txn, result, calls, faults>>
    PROVE  IInv'
<1>1. TypeOK'
    BY DEF IInv, TypeOK
<1>2. PidsUsed'
    BY DEF IInv, PidsUsed, TypeOK
<1>3. pc' # "idle" => Sound(pc', txn')
    BY DEF IInv
<1>4. StrayVisible'
    <2>1. ASSUME pc # "idle" PROVE \A i \in Selected' : states'[i] # 0
        BY <2>1 DEF IInv, StrayVisible, Selected
    <2>2. ASSUME pc # "idle", txn.mode = "forward", txn.strayed
          PROVE  thread'[Head(txn.queue)] # states[Head(txn.queue)]
        <3> DEFINE i == Head(txn.queue)
        <3>1. /\ pc = "committed" /\ txn.queue \in Seq(K) /\ txn.queue # <<>>
              /\ \A k \in DOMAIN txn.queue : txn.queue[k] \in Selected
            BY <2>2, Busy DEF Sound, CommitPCs, Locals
        <3>2. i \in K /\ i \in Selected
            BY <3>1
        <3>3. states[i] # 0 /\ thread[i] # states[i] /\ states[i] < nextPid
            BY <2>2, <3>2 DEF IInv, StrayVisible, PidsUsed, Identity
        <3> QED
            BY <3>2, <3>3 DEF IInv, TypeOK
    <2> QED
        BY <2>1, <2>2 DEF StrayVisible, Identity
<1> QED
    BY <1>1, <1>2, <1>3, <1>4 DEF IInv

\* The kernel and the foreign controller.
LEMMA EnvironmentStep == ASSUME IInv, Environment PROVE IInv'
<1>0. leaf \in Contents /\ active \in Contents /\ thread \in [K -> 0 .. MaxPid]
      /\ nextPid \in 1 .. MaxPid + 1 /\ rogue \in 0 .. MaxRogue
      /\ exits \in 0 .. MaxExits /\ tunes \in 0 .. MaxTunes
    BY DEF IInv, TypeOK
<1>9. /\ rogue' \in 0 .. MaxRogue /\ exits' \in 0 .. MaxExits /\ tunes' \in 0 .. MaxTunes
      /\ UNCHANGED <<states, staged, pc, txn, result, calls, faults>>
    BY <1>0 DEF Environment, KernelTunes, KdamondExits, RogueActs
<1>1. ASSUME NEW l \in Leaves, NEW v \in Values, WriteLeaf(l, v) PROVE IInv'
    <2>1. leaf' \in Contents /\ UNCHANGED <<active, thread, nextPid>>
        BY <1>0, <1>1, WrittenTyped DEF WriteLeaf
    <2>2. /\ active' \in Contents /\ thread' \in [K -> 0 .. MaxPid]
          /\ nextPid' \in 1 .. MaxPid + 1 /\ nextPid' >= nextPid
          /\ \A i \in K : thread'[i] = thread[i]
        BY <1>0, <2>1
    <2>3. \A i \in K : thread'[i] = thread[i] \/ thread'[i] = 0
                       \/ (thread'[i] = nextPid /\ nextPid' = nextPid + 1)
        BY <2>2
    <2> QED
        BY <1>9, <2>1, <2>2, <2>3, EnvironmentKeeps, Zenon
<1>2. ASSUME NEW i \in K, EndThread(i) PROVE IInv'
    <2>1. thread' = [thread EXCEPT ![i] = 0] /\ UNCHANGED <<leaf, active, nextPid>>
        BY <1>2 DEF EndThread
    <2>2. /\ leaf' \in Contents /\ active' \in Contents
          /\ nextPid' \in 1 .. MaxPid + 1 /\ nextPid' >= nextPid
        BY <1>0, <2>1
    <2>3. /\ thread' \in [K -> 0 .. MaxPid]
          /\ \A k \in K : thread'[k] = thread[k] \/ thread'[k] = 0
                          \/ (thread'[k] = nextPid /\ nextPid' = nextPid + 1)
        BY <1>0, <2>1
    <2> QED
        BY <1>9, <2>2, <2>3, EnvironmentKeeps, Zenon
<1>3. ASSUME NEW i \in K, StartThread(i), nextPid <= MaxPid PROVE IInv'
    <2>1. active' \in Contents
        BY <1>0, <1>3 DEF StartThread, Contents
    <2>2. /\ leaf' \in Contents /\ thread' \in [K -> 0 .. MaxPid]
          /\ nextPid' \in 1 .. MaxPid + 1 /\ nextPid' >= nextPid
          /\ \A k \in K : thread'[k] = thread[k] \/ thread'[k] = 0
                          \/ (thread'[k] = nextPid /\ nextPid' = nextPid + 1)
        BY <1>0, <1>3 DEF StartThread
    <2> QED
        BY <1>9, <2>1, <2>2, EnvironmentKeeps, Zenon
<1>4. CASE KernelTunes
    BY <1>1, <1>4 DEF KernelTunes, TuneLeaf
<1>5. CASE KdamondExits
    BY <1>2, <1>5 DEF KdamondExits
<1>6. CASE RogueActs
    BY <1>1, <1>2, <1>3, <1>6 DEF RogueActs
<1> QED
    BY <1>4, <1>5, <1>6 DEF Environment

\* The invariant is inductive.
LEMMA NextKeeps == ASSUME IInv, [Next]_vars PROVE IInv'
<1>1. CASE UNCHANGED vars
    BY <1>1 DEF vars, kernelVars, budgets, IInv, TypeOK, PidsUsed, StrayVisible, Identity,
                Selected
<1> QED
    BY <1>1, CallStep, PrepareStep, StageStep, CommitLoopStep, RestoreStep, FaultyStep,
       EnvironmentStep
    DEF Next, Proceed

\* The invariant holds throughout.
LEMMA Invariance == Spec => []IInv
BY InitIInv, NextKeeps, PTL DEF Spec

\* Files, running configuration, pids, budgets and the locals of a transaction
\* always have their types, whatever fails and whatever others do meanwhile: in
\* particular every value the staging and the undoing write is one to write.
THEOREM UpdateTyped == Spec => []TypeOK
<1>1. IInv => TypeOK
    BY DEF IInv
<1> QED
    BY <1>1, Invariance, PTL

\* How a call returns.
FailReturns ==
    /\ UNCHANGED <<kernelVars, staged>>
    /\ \/ pc \in CheckPCs /\ result' = "rejected"
       \/ pc \notin CheckPCs /\ txn.mode # "forward" /\ result' = "rollback_failed"

LEMMA WhoReturns ==
    ASSUME Next, Returns
    PROVE  \/ FailReturns
           \/ VerifyRequest /\ txn.kind = "goals" /\ txn.goal = txn.from /\ Owned
                            /\ result' = "ok" /\ UNCHANGED <<kernelVars, staged>>
           \/ Adopt /\ MatchesExcept(txn.captured, Tuned) /\ staged' = txn.captured
                    /\ UNCHANGED kernelVars
                    /\ result' = IF txn.mode = "forward" THEN "ok" ELSE "failed"
<1>1. ASSUME Fail, UNCHANGED <<kernelVars, staged>> PROVE FailReturns
    BY <1>1 DEF Fail, Return, Advance, Returns, FailReturns
<1>2. ASSUME NEW c, NEW l \in PCs \ {"idle"}, NEW t, Look(c, l, t) PROVE FailReturns
    BY <1>1, <1>2 DEF Look, Continue, Advance, Returns
<1>3. ASSUME NEW l \in PCs \ {"idle"}, NEW t, Advance(l, t) PROVE FALSE
    BY <1>3 DEF Advance, Returns
<1>4. CASE Prepare
    <2>1. CASE VerifyRequest
        <3> DEFINE t == [txn EXCEPT !.goal = Effective(txn.goal, txn.from, Selected),
                                    !.asked = Effective(txn.goal, txn.from, Selected)]
        <3>1. UNCHANGED <<kernelVars, staged>>
            BY <2>1 DEF VerifyRequest
        <3>2. \/ Owned /\ txn.kind = "goals" /\ txn.goal = txn.from /\ Return("ok")
              \/ Advance("stage_ids", t) \/ Fail
            BY <2>1 DEF VerifyRequest, Continue, Effective
        <3> QED
            BY <1>1, <1>3, <2>1, <3>1, <3>2 DEF PCs, StagePCs, Return
    <2> QED
        BY <1>2, <1>4, <2>1
        DEF Prepare, VerifyOwned, CaptureBefore, ReadTyped, Recheck, PCs, CheckPCs
<1>5. CASE Stage
    <2>1. CASE StageLeaf
        BY <1>2, <1>3, <2>1 DEF StageLeaf, PCs, StagePCs
    <2>2. CASE StartCommits
        BY <1>2, <2>2 DEF StartCommits, PCs, CommitPCs
    <2> QED
        BY <1>2, <1>5, <2>1, <2>2
        DEF Stage, StartStaging, StagingDone, VerifyStagedIdentities, VerifyUnchanged,
            CaptureStaged, CompareTyped, ValuesMatch, PCs, StagePCs
<1>6. CASE CommitLoop
    <2>1. CASE VerifyBeforeCommit
        BY <1>2, <2>1 DEF VerifyBeforeCommit, PCs, CommitPCs
    <2>2. CASE Commit
        BY <1>2, <1>3, <2>2 DEF Commit, PCs, CommitPCs
    <2>3. CASE VerifyAfterCommit
        BY <1>1, <2>3
        DEF VerifyAfterCommit, Advance, Returns
    <2>4. CASE Adopt
        BY <1>1, <2>4 DEF Adopt, Return
    <2> QED
        BY <1>6, <2>1, <2>2, <2>3, <2>4 DEF CommitLoop
<1>7. CASE Restore
    <2>1. CASE VerifyBoundary
        BY <1>3, <2>1 DEF VerifyBoundary, PCs, RestorePCs
    <2>2. CASE RestoreLeaf
        BY <1>2, <1>3, <2>2 DEF RestoreLeaf, PCs, RestorePCs
    <2>3. CASE RestoreDone
        BY <1>2, <2>3 DEF RestoreDone, PCs, RestorePCs, CommitPCs
    <2> QED
        BY <1>2, <1>7, <2>1, <2>2, <2>3
        DEF Restore, VerifyBeforeRestore, VerifyRestoredIdentities, VerifyRestored, Recapture,
            VerifyRecommitted, PCs, RestorePCs, CommitPCs
<1>8. CASE Faulty
    BY <1>1, <1>3, <1>8 DEF Faulty, IoError, TransientBusy, PCs, StagePCs, RestorePCs
<1> QED
    BY <1>4, <1>5, <1>6, <1>7, <1>8
    DEF Next, Proceed, Call, Environment, KernelTunes, KdamondExits, RogueActs, Returns

\* A transaction that returns success was committed by the kernel threads the
\* session recorded, every one of them, whatever happened between the checks:
\* the identity check after each commit cannot be deceived, because pids do not
\* come back.
THEOREM UpdateOwnThreads == Spec => OkReachedOwnThreads
<1>1. ASSUME IInv, [Next]_vars
      PROVE  [Returns /\ result' = "ok" => ~txn.strayed]_vars
    <2> SUFFICES ASSUME Next, Returns, result' = "ok" PROVE ~txn.strayed
        BY <1>1
    <2>1. pc # "idle" /\ Sound(pc, txn)
        BY <1>1, Busy DEF Returns
    <2>2. CASE VerifyRequest
        BY <2>1, <2>2 DEF VerifyRequest, Sound, CheckPCs
    <2>3. CASE Adopt /\ result' = IF txn.mode = "forward" THEN "ok" ELSE "failed"
        BY <2>1, <2>3 DEF Adopt, Sound
    <2> QED
        BY <2>2, <2>3, WhoReturns DEF FailReturns
<1> QED
    BY <1>1, Invariance, PTL DEF Spec, OkReachedOwnThreads

-----------------------------------------------------------------------------
(* What a transaction writes                                               *)

LEMMA StagingIs == Staging = StagingOf(txn)
BY DEF Staging, StagingOf

\* A write changes the leaf, and what lies below it when it is a count.
LEMMA WriteReaches ==
    ASSUME NEW l \in Leaves, NEW v, WriteLeaf(l, v), leaf \in Contents,
           NEW m \in Leaves, leaf'[m] # leaf[m]
    PROVE  m = l \/ (l \in Counts /\ m \in Under[l])
BY DEF WriteLeaf, Written

LEMMA ReachHas ==
    ASSUME NEW l \in Staging, NEW m, m = l \/ (l \in Counts /\ m \in Under[l])
    PROVE  m \in Reach
BY DEF Reach

\* No step of a transaction, staging or undoing, changes a file the request
\* does not reach, for every tree: an undoing writes what the journal names and
\* what lies below a count in it, and that lies below a staged count.
THEOREM UpdateWritesOnlyRequested == Spec => WritesOnlyRequested
<1>1. ASSUME IInv, Next, pc' # pc \/ txn' # txn, NEW m \in Leaves, leaf'[m] # leaf[m]
      PROVE  m \in Reach
    <2>0. leaf \in Contents
        BY <1>1 DEF IInv, TypeOK
    <2>1. CASE StageLeaf
        <3> DEFINE l == Least(txn.todo)
        <3>1. /\ pc = "stage" /\ txn \in Locals /\ Sound(pc, txn)
              /\ l \in txn.todo
            BY <1>1, <2>1, Busy, HasLeast DEF StageLeaf, Locals
        <3>2. l \in ToStage(txn.goal, txn.from)
            BY <3>1 DEF Sound
        <3>3. l \in Leaves
            BY <3>1, <3>2, StagedOf DEF Locals
        <3>4. l \in Staging
            BY <3>1, <3>2 DEF Staging, Sound, Locals
        <3>5. PICK v : WriteLeaf(l, v)
            BY <1>1, <2>1 DEF StageLeaf, Look, kernelVars
        <3> HIDE DEF l
        <3> QED
            BY <1>1, <2>0, <3>3, <3>4, <3>5, WriteReaches, ReachHas
    <2>2. CASE RestoreLeaf
        <3> DEFINE l == Least(txn.todo)
        <3>1. /\ pc = "restore" /\ txn \in Locals /\ Sound(pc, txn)
              /\ l \in txn.todo
            BY <1>1, <2>2, Busy, HasLeast DEF RestoreLeaf, Locals
        <3>2. l \in ToRestore(txn.before, AffectedBy(txn.before, txn.journal))
              /\ txn.before \in Contents /\ txn.journal \in SUBSET Typed
              /\ txn.journal \subseteq Staging
            BY <3>1, StagingIs DEF Sound, Locals
        <3>3. l \in Leaves /\ (l \in Staging \/ \E c \in Staging \cap Counts : l \in Under[c])
            BY <3>2, RestoredOf
        <3>4. PICK v : WriteLeaf(l, v)
            BY <1>1, <2>2 DEF RestoreLeaf, Look, kernelVars
        <3> HIDE DEF l
        <3>5. m = l \/ (l \in Counts /\ m \in Under[l])
            BY <1>1, <2>0, <3>3, <3>4, WriteReaches
        <3>6. CASE l \in Staging
            BY <3>5, <3>6, ReachHas
        <3>7. ASSUME NEW c \in Staging \cap Counts, l \in Under[c] PROVE m \in Reach
            <4>1. m \in Under[c]
                BY <3>5, <3>7, TreeAssumption
            <4> QED
                BY <4>1, ReachHas
        <3> QED
            BY <3>3, <3>6, <3>7
    <2>3. CASE UNCHANGED leaf
        BY <1>1, <2>3
    <2>4. StageLeaf \/ RestoreLeaf \/ UNCHANGED leaf
        <3>1. ASSUME NEW c, NEW l, NEW t, Look(c, l, t) PROVE UNCHANGED leaf
            BY <3>1 DEF Look, kernelVars
        <3>2. CASE Prepare
            BY <3>1, <3>2 DEF Prepare, VerifyOwned, CaptureBefore, ReadTyped, Recheck,
                              VerifyRequest, kernelVars
        <3>3. CASE Stage
            BY <3>1, <3>3 DEF Stage, StartStaging, StagingDone, VerifyStagedIdentities,
                VerifyUnchanged, CaptureStaged, CompareTyped, ValuesMatch, StartCommits
        <3>4. CASE CommitLoop
            BY <3>1, <3>4 DEF CommitLoop, VerifyBeforeCommit, Commit, CommitLeaves,
                              VerifyAfterCommit, Adopt, kernelVars
        <3>5. CASE Restore
            BY <3>1, <3>5 DEF Restore, VerifyBeforeRestore, VerifyBoundary, RestoreDone,
                VerifyRestoredIdentities, VerifyRestored, Recapture, VerifyRecommitted, kernelVars
        <3> QED
            BY <1>1, <3>2, <3>3, <3>4, <3>5
            DEF Next, Proceed, Call, Faulty, IoError, TransientBusy, Environment, KernelTunes,
                KdamondExits, RogueActs, kernelVars
    <2> QED
        BY <2>1, <2>2, <2>3, <2>4
<1>2. ASSUME IInv, [Next]_vars
      PROVE  [(pc' # pc \/ txn' # txn) =>
                \A l \in Leaves : leaf'[l] # leaf[l] => l \in Reach]_vars
    BY <1>1, <1>2
<1> QED
    BY <1>2, Invariance, PTL DEF Spec, WritesOnlyRequested

-----------------------------------------------------------------------------
(* Directories                                                             *)

\* What lies below a count is a later leaf of the same kdamond, and what lies
\* below a count there lies below the outer one.
LEMMA Below ==
    ASSUME NEW c \in Counts, NEW m \in Under[c]
    PROVE  /\ m \in Leaves /\ c < m /\ m # c /\ Dir[m] = Dir[c] /\ c \in Above(m)
           /\ m \in Counts => Under[m] \subseteq Under[c]
           /\ \A d \in Counts : d \in Under[c] /\ m \in Under[d] => d # m
<1>1. m \in Leaves /\ c \in Leaves /\ Leaves \subseteq Nat
    OBVIOUS
<1>2. c < m /\ Dir[m] = Dir[c]
    BY TreeAssumption
<1>3. m \in Counts => Under[m] \subseteq Under[c]
    BY TreeAssumption
<1>4. \A d \in Counts : m \in Under[d] => d < m
    BY TreeAssumption
<1> QED
    BY <1>1, <1>2, <1>3, <1>4 DEF Above

LEMMA NearestIs ==
    ASSUME NEW l \in Leaves, NEW c \in Counts, Nearest(c, l)
    PROVE  /\ l \in Under[c] /\ c < l /\ Dir[l] = Dir[c] /\ Above(l) # {}
           /\ \A d \in Counts : l \in Under[d] => d = c \/ c \in Under[d]
<1>1. l \in Under[c]
    BY DEF Nearest, Above
<1> QED
    BY <1>1, Below DEF Nearest, Above

LEMMA HasNearest ==
    ASSUME NEW l \in Leaves, Above(l) # {}
    PROVE  \E c \in Counts : Nearest(c, l)
BY TreeAssumption

\* A write leaves every directory with the children its count says.
LEMMA WrittenShaped ==
    ASSUME leaf \in Contents, Shaped(leaf), NEW l \in Leaves, Exists(l), NEW v \in Values
    PROVE  Shaped(Written(l, v))
<1> DEFINE f == Written(l, v)
<1>1. DOMAIN f = Leaves /\ DOMAIN leaf = Leaves
    BY DEF Written, Contents
<1>2. \A m \in Leaves : m # l /\ ~(l \in Counts /\ m \in Under[l]) => f[m] = leaf[m]
    BY DEF Written
<1>3. f[l] = v /\ v # Absent /\ Fresh # Absent /\ leaf[l] # Absent
    BY DEF Written, Exists
<1>4. \A m \in Leaves : m # l /\ l \in Counts /\ m \in Under[l]
            => f[m] = IF m \in Made[l][v] THEN Fresh ELSE Absent
    BY DEF Written
<1> HIDE DEF f
<1>5. ASSUME NEW m \in Leaves, Above(m) \cap Leaves = {} PROVE f[m] # Absent
    <2>1. leaf[m] # Absent
        BY <1>1, <1>5 DEF Shaped
    <2>2. ~(l \in Counts /\ m \in Under[l])
        BY <1>5 DEF Above
    <2> QED
        BY <1>2, <1>3, <2>1, <2>2
<1>6. ASSUME NEW m \in Leaves, NEW c \in Counts, Nearest(c, m)
      PROVE  f[m] # Absent <=> f[c] # Absent /\ m \in Made[c][f[c]]
    <2>0. /\ m \in Under[c] /\ c # m /\ Above(m) \cap Leaves # {}
          /\ \A d \in Counts : m \in Under[d] => d = c \/ c \in Under[d]
        BY <1>6, NearestIs, Below DEF Above
    <2>1. leaf[m] # Absent <=> leaf[c] # Absent /\ m \in Made[c][leaf[c]]
        BY <1>1, <1>6, <2>0 DEF Shaped
    <2>2. CASE m = l
        <3>1. ~(l \in Counts /\ c \in Under[l]) /\ c # l
            BY <2>0, <2>2, Below
        <3>2. f[c] = leaf[c]
            BY <1>2, <3>1
        <3> QED
            BY <1>3, <2>1, <2>2, <3>2
    <2>3. CASE m # l /\ ~(l \in Counts /\ m \in Under[l])
        <3>1. c # l /\ ~(l \in Counts /\ c \in Under[l])
            BY <2>0, <2>3, Below
        <3> QED
            BY <1>2, <2>1, <2>3, <3>1
    <2>4. CASE m # l /\ l \in Counts /\ m \in Under[l] /\ l = c
        BY <1>3, <1>4, <2>4
    <2>5. CASE m # l /\ l \in Counts /\ m \in Under[l] /\ l # c
        <3>1. c \in Under[l] /\ c # l
            BY <2>0, <2>5
        <3>2. f[c] # Absent => f[c] = Fresh
            <4>1. c \in Leaves
                OBVIOUS
            <4> QED
                BY <1>4, <2>5, <3>1, <4>1
        <3>3. m \notin Made[c][Fresh]
            BY TreeAssumption
        <3>4. m \notin Made[l][v]
            <4> SUFFICES ASSUME m \in Made[l][v] PROVE FALSE
                OBVIOUS
            <4>1. Nearest(l, m)
                BY <2>5, TreeAssumption
            <4>2. c = l \/ l \in Under[c]
                BY <2>0, <4>1 DEF Nearest, Above
            <4>3. l \in Under[c]
                BY <2>5, <4>2
            <4> QED
                BY <2>5, <3>1, <4>3, Below
        <3>5. f[m] = Absent
            BY <1>4, <2>5, <3>4
        <3> QED
            BY <3>2, <3>3, <3>5
    <2> QED
        BY <2>2, <2>3, <2>4, <2>5
<1>7. \A m \in Leaves : IF Above(m) \cap DOMAIN f = {} THEN f[m] # Absent
            ELSE \A c \in Counts : Nearest(c, m) =>
                /\ c \in DOMAIN f
                /\ f[m] # Absent <=> f[c] # Absent /\ m \in Made[c][f[c]]
    BY <1>1, <1>5, <1>6
<1> QED
    BY <1>1, <1>7 DEF Shaped, f

\* What is read of the leaves a configuration knows has the shape of the files.
LEMMA ReadShaped ==
    ASSUME leaf \in Contents, Shaped(leaf), NEW D \in SUBSET Leaves,
           \A l \in D : Above(l) \cap D = {} => leaf[l] # Absent,
           \A l \in D : Above(l) \cap D # {} => \A c \in Counts : Nearest(c, l) => c \in D
    PROVE  Shaped([l \in D |-> leaf[l]])
<1> DEFINE f == [l \in D |-> leaf[l]]
<1>1. DOMAIN f = D /\ DOMAIN leaf = Leaves /\ \A l \in D : f[l] = leaf[l]
    BY DEF Contents
<1> HIDE DEF f
<1>2. ASSUME NEW l \in D, Above(l) \cap D # {}, NEW c \in Counts, Nearest(c, l)
      PROVE  c \in D /\ (f[l] # Absent <=> f[c] # Absent /\ l \in Made[c][f[c]])
    <2>1. c \in D
        BY <1>2
    <2>2. Above(l) \cap Leaves # {}
        BY <1>2
    <2>3. leaf[l] # Absent <=> leaf[c] # Absent /\ l \in Made[c][leaf[c]]
        BY <1>1, <1>2, <2>2 DEF Shaped
    <2> QED
        BY <1>1, <2>1, <2>3
<1> QED
    BY <1>1, <1>2 DEF Shaped, f

\* Taking some kdamonds from another configuration keeps the shape.
LEMMA MixedShaped ==
    ASSUME NEW D \in SUBSET Leaves, NEW f, NEW g, DOMAIN f = D, DOMAIN g = D,
           Shaped(f), Shaped(g), NEW sel \in SUBSET Leaves, NEW h, DOMAIN h = D,
           \A l \in sel \cap D : h[l] = f[l], \A l \in D \ sel : h[l] = g[l],
           \A c \in Counts : \A l \in D : Nearest(c, l) => (c \in sel <=> l \in sel)
    PROVE  Shaped(h)
<1>2. ASSUME NEW l \in D, Above(l) \cap D # {}, NEW c \in Counts, Nearest(c, l)
      PROVE  c \in D /\ (h[l] # Absent <=> h[c] # Absent /\ l \in Made[c][h[c]])
    <2>1. c \in sel <=> l \in sel
        BY <1>2
    <2>2. c \in D /\ (f[l] # Absent <=> f[c] # Absent /\ l \in Made[c][f[c]])
          /\ (g[l] # Absent <=> g[c] # Absent /\ l \in Made[c][g[c]])
        BY <1>2 DEF Shaped
    <2> QED
        BY <2>1, <2>2
<1>3. \A l \in D : Above(l) \cap D = {} => h[l] # Absent
    BY DEF Shaped
<1> QED
    BY <1>2, <1>3 DEF Shaped

LEMMA EffectiveShaped ==
    ASSUME NEW goal, NEW from, NEW D \in SUBSET Leaves, DOMAIN goal = D, DOMAIN from = D,
           Shaped(goal), Shaped(from), NEW kdamonds
    PROVE  Shaped(Effective(goal, from, kdamonds))
<1> DEFINE effective == Effective(goal, from, kdamonds)
           sel == {l \in Leaves : Dir[l] \in kdamonds}
<1>1. \A c \in Counts : \A l \in D : Nearest(c, l) => (c \in sel <=> l \in sel)
    BY NearestIs
<1>2. /\ DOMAIN effective = D /\ sel \in SUBSET Leaves
      /\ \A l \in sel \cap D : effective[l] = goal[l]
      /\ \A l \in D \ sel : effective[l] = from[l]
    BY DEF Effective
<1>3. DOMAIN goal = D /\ DOMAIN from = D /\ Shaped(goal) /\ Shaped(from) /\ D \in SUBSET Leaves
    OBVIOUS
<1> HIDE DEF effective, sel
<1>4. Shaped(effective)
    BY ONLY <1>1, <1>2, <1>3, MixedShaped
<1> QED
    BY <1>4 DEF effective

\* Where two trees differ, some leaf is there in both with different values: the
\* first leaf that differs, since the counts above it agree.
LEMMA DifferVisibly ==
    ASSUME NEW D \in SUBSET Leaves, NEW f, NEW g, DOMAIN f = D, DOMAIN g = D,
           Shaped(f), Shaped(g), NEW X \in SUBSET D,
           \A m \in X : \A c \in Counts \cap D : m \in Under[c] => c \in X,
           NEW l \in X, f[l] # g[l]
    PROVE  \E m \in X : f[m] # Absent /\ g[m] # Absent /\ f[m] # g[m]
<1> DEFINE S == {x \in X : f[x] # g[x]}
           m == Least(S)
<1>1. m \in S /\ \A x \in S : m <= x
    BY HasLeast
<1>2. m \in X /\ m \in D /\ m \in Leaves /\ f[m] # g[m]
    BY <1>1
<1> HIDE DEF S, m
<1>3. CASE Above(m) \cap D = {}
    BY <1>2, <1>3 DEF Shaped
<1>4. CASE Above(m) \cap D # {}
    <2>1. PICK c \in Counts : Nearest(c, m)
        BY <1>2, <1>4, HasNearest
    <2>2. c \in D /\ (f[m] # Absent <=> f[c] # Absent /\ m \in Made[c][f[c]])
          /\ (g[m] # Absent <=> g[c] # Absent /\ m \in Made[c][g[c]])
        BY <1>2, <1>4, <2>1 DEF Shaped
    <2>3. m \in Under[c] /\ c < m /\ c \in Nat /\ m \in Nat
        BY <1>2, <2>1, NearestIs
    <2>4. c \in X /\ c \notin S
        BY <1>1, <1>2, <2>2, <2>3
    <2>5. f[c] = g[c]
        BY <2>4 DEF S
    <2> QED
        BY <1>2, <2>2, <2>5
<1> QED
    BY <1>3, <1>4

\* Equal but for the intervals the kernel tunes.
Same(f, g) == \A m \in Leaves \ Tuned : f[m] = g[m]

\* A fingerprint that matches tells that nothing changed but tuned intervals.
LEMMA MatchedSame ==
    ASSUME leaf \in Contents, Shaped(leaf), NEW g \in Contents, Shaped(g),
           MatchesExcept(g, Tuned)
    PROVE  Same(leaf, g)
<1> SUFFICES ASSUME NEW l \in Leaves \ Tuned, leaf[l] # g[l] PROVE FALSE
    BY DEF Same
<1>1. \A m \in Leaves \ Tuned : \A c \in Counts \cap Leaves : m \in Under[c] => c \in Leaves \ Tuned
    OBVIOUS
<1>2. DOMAIN leaf = Leaves /\ DOMAIN g = Leaves
    BY DEF Contents
<1>3. \E m \in Leaves \ Tuned : leaf[m] # Absent /\ g[m] # Absent /\ leaf[m] # g[m]
    <2> DEFINE X == Leaves \ Tuned
    <2>1. X \in SUBSET Leaves /\ Leaves \in SUBSET Leaves /\ l \in X
        OBVIOUS
    <2>2. \A m \in X : \A c \in Counts \cap Leaves : m \in Under[c] => c \in X
        BY <1>1
    <2> HIDE DEF X
    <2>3. \E m \in X : leaf[m] # Absent /\ g[m] # Absent /\ leaf[m] # g[m]
        BY <1>2, <2>1, <2>2, DifferVisibly
    <2> QED
        BY <2>3 DEF X
<1> QED
    BY <1>3 DEF MatchesExcept

LEMMA SameMatches ==
    ASSUME NEW g, Same(leaf, g) PROVE MatchesExcept(g, Tuned)
BY DEF Same, MatchesExcept

-----------------------------------------------------------------------------
(* The shape of files and requests                                         *)

\* Every directory has the children its count says, in the files and in
\* everything the call knows of them.
ShapedLocals(t) ==
    /\ Shaped(t.goal) /\ Shaped(t.from) /\ Shaped(t.observed)
    /\ Shaped(t.before) /\ Shaped(t.captured) /\ Shaped(t.began.leaf)
    /\ t.kind = "update" /\ t.phase = "main" => Shaped(Cleaned(t.goal, SelectedOf(t)))

ShapeInv ==
    /\ Shaped(leaf) /\ Shaped(staged)
    /\ pc # "idle" => ShapedLocals(txn)

SInv == IInv /\ ShapeInv

LEMMA NothingShaped == Shaped(Nothing)
BY DEF Shaped, Nothing

LEMMA InitShape == Init => ShapeInv
<1> SUFFICES ASSUME Init PROVE ShapeInv
    OBVIOUS
<1>1. Shaped(leaf)
    BY InitialAssumption DEF Init
<1> QED
    BY <1>1 DEF Init, ShapeInv

LEMMA AlikeShaped ==
    ASSUME ShapedLocals(txn), NEW t, Alike(t) PROVE ShapedLocals(t)
BY DEF ShapedLocals, Alike, SelectedOf

LEMMA FailShape ==
    ASSUME SInv, pc # "idle", Fail, UNCHANGED <<leaf, staged>> PROVE ShapeInv'
<1>1. txn \in Locals /\ ShapedLocals(txn)
    BY Busy DEF SInv, ShapeInv
<1>2. CASE pc' = "idle"
    BY <1>2 DEF SInv, ShapeInv
<1>3. CASE pc' # "idle"
    <2> DEFINE t == [txn EXCEPT !.mode = "rollback", !.todo = {},
                                !.queue = <<>>, !.captured = Nothing]
    <2>1. txn' = t
        BY <1>3 DEF Fail, Return, Advance
    <2>2. /\ t.goal = txn.goal /\ t.from = txn.from /\ t.observed = txn.observed
          /\ t.before = txn.before /\ t.captured = Nothing /\ t.began = txn.began
          /\ t.kind = txn.kind /\ t.phase = txn.phase /\ t.selected = txn.selected
        BY <1>1 DEF Locals
    <2> HIDE DEF t
    <2>3. ShapedLocals(t)
        BY <1>1, <2>2, NothingShaped DEF ShapedLocals, SelectedOf
    <2> QED
        BY <2>1, <2>3 DEF SInv, ShapeInv
<1> QED
    BY <1>2, <1>3

LEMMA LookShape ==
    ASSUME SInv, pc # "idle", NEW c \in BOOLEAN, NEW l, NEW t, Look(c, l, t),
           c => ShapedLocals(t)
    PROVE  ShapeInv'
<1>1. CASE c
    BY <1>1 DEF Look, Continue, Advance, kernelVars, SInv, ShapeInv
<1>2. CASE ~c
    BY <1>2, FailShape DEF Look, Continue, kernelVars
<1> QED
    BY <1>1, <1>2

LEMMA WriteShape ==
    ASSUME SInv, NEW l \in Leaves, NEW v \in Values, WriteLeaf(l, v), UNCHANGED staged,
           pc' # "idle" => ShapedLocals(txn')
    PROVE  ShapeInv'
<1>1. Shaped(leaf')
    BY WrittenShaped DEF WriteLeaf, SInv, IInv, TypeOK, ShapeInv
<1> QED
    BY <1>1 DEF SInv, ShapeInv

\* Nothing is staged that a directory cannot hold, and nothing captured.
LEMMA CallShape == ASSUME SInv, Call PROVE ShapeInv'
<1>1. CASE pc' = "idle"
    BY <1>1 DEF Call, kernelVars, SInv, ShapeInv
<1>2. CASE pc' # "idle"
    <2>1. PICK r \in Requests :
            txn' = [NoTxn EXCEPT !.kind = r.kind, !.began = [leaf |-> leaf, active |-> active],
                                 !.goal = r.want, !.asked = r.want, !.selected = r.selected]
        BY <1>2 DEF Call, Return, Advance
    <2>2. /\ txn'.goal = r.want /\ txn'.from = Nothing /\ txn'.observed = Nothing
          /\ txn'.before = Nothing /\ txn'.captured = Nothing /\ txn'.began.leaf = leaf
          /\ txn'.kind = r.kind /\ txn'.selected = r.selected
        BY <2>1 DEF NoTxn
    <2>3. /\ Shaped(r.want)
          /\ r.kind = "update" => Shaped(Cleaned(r.want, SelectedOf(r)))
        BY RequestsAssumption DEF SelectedOf
    <2>4. ShapedLocals(txn')
        BY <2>2, <2>3, NothingShaped DEF ShapedLocals, SelectedOf, SInv, ShapeInv
    <2> QED
        BY <2>4 DEF Call, kernelVars, SInv, ShapeInv
<1> QED
    BY <1>1, <1>2

LEMMA PrepareShape == ASSUME SInv, Prepare PROVE ShapeInv'
<1>0. pc # "idle" /\ txn \in Locals /\ ShapedLocals(txn) /\ Sound(pc, txn) /\ Selected = SelectedOf(txn)
    <2>1. pc # "idle"
        BY DEF Prepare, VerifyOwned, CaptureBefore, ReadTyped, Recheck, VerifyRequest
    <2> QED
        BY <2>1, Busy DEF SInv, ShapeInv
<1>00. leaf \in Contents /\ Shaped(leaf) /\ staged \in Contents
    BY DEF SInv, IInv, TypeOK, ShapeInv
<1>1. CASE VerifyOwned
    BY <1>0, <1>1, LookShape DEF VerifyOwned, Owned, MatchesExcept, Identities
<1>2. CASE CaptureBefore
    <2> DEFINE t == [txn EXCEPT !.before = leaf]
    <2>1. /\ t.goal = txn.goal /\ t.from = txn.from /\ t.observed = txn.observed
          /\ t.before = leaf /\ t.captured = txn.captured /\ t.began = txn.began
          /\ t.kind = txn.kind /\ t.phase = txn.phase /\ t.selected = txn.selected
        BY <1>0 DEF Locals
    <2>2. Look(TRUE, "read", t)
        BY <1>2 DEF CaptureBefore
    <2> HIDE DEF t
    <2>3. ShapedLocals(t)
        BY <1>0, <1>00, <2>1 DEF ShapedLocals, SelectedOf
    <2> QED
        BY <1>0, <2>2, <2>3, LookShape
<1>3. CASE ReadTyped
    <2> DEFINE read == [l \in DOMAIN txn.goal |-> leaf[l]]
               t == [txn EXCEPT !.from = read, !.observed = read]
               c == \A l \in DOMAIN read : Above(l) \cap DOMAIN read = {} => Exists(l)
    <2>1. Look(c, "recheck", t)
        BY <1>3 DEF ReadTyped
    <2>2. ASSUME c PROVE Shaped(read)
        <3>1. DOMAIN txn.goal \subseteq Leaves
            BY <1>0, ConfigurationIs DEF Locals
        <3>2. \A l \in DOMAIN txn.goal : Above(l) \cap DOMAIN txn.goal = {} => leaf[l] # Absent
            BY <2>2 DEF Exists
        <3>3. \A l \in DOMAIN txn.goal : Above(l) \cap DOMAIN txn.goal # {} =>
                    \A d \in Counts : Nearest(d, l) => d \in DOMAIN txn.goal
            BY <1>0 DEF ShapedLocals, Shaped
        <3> QED
            BY <1>00, <3>1, <3>2, <3>3, ReadShaped
    <2> HIDE DEF read
    <2>3. /\ t.goal = txn.goal /\ t.from = read /\ t.observed = read
          /\ t.before = txn.before /\ t.captured = txn.captured /\ t.began = txn.began
          /\ t.kind = txn.kind /\ t.phase = txn.phase /\ t.selected = txn.selected
        BY <1>0 DEF Locals
    <2>4. c \in BOOLEAN
        OBVIOUS
    <2> HIDE DEF t, c
    <2>5. c => ShapedLocals(t)
        BY <1>0, <2>2, <2>3 DEF ShapedLocals, SelectedOf
    <2> QED
        BY <1>0, <2>1, <2>4, <2>5, LookShape
<1>4. CASE Recheck
    BY <1>0, <1>4, LookShape DEF Recheck, MatchesExcept
<1>5. CASE VerifyRequest
    <2> DEFINE effective == Effective(txn.goal, txn.from, Selected)
               t == [txn EXCEPT !.goal = effective, !.asked = effective]
    <2>0. pc = "owned_again" /\ UNCHANGED <<leaf, staged>>
        BY <1>5 DEF VerifyRequest, kernelVars
    <2>1. CASE Fail
        BY <1>0, <2>0, <2>1, FailShape
    <2>2. CASE pc' = "idle"
        BY <2>0, <2>2 DEF SInv, ShapeInv
    <2>3. CASE Advance("stage_ids", t)
        <3>1. DOMAIN txn.goal \subseteq Leaves /\ DOMAIN txn.from = DOMAIN txn.goal
            BY <1>0, <2>0, ConfigurationIs DEF Locals, Sound
        <3>2. Shaped(effective)
            <4>1. Shaped(txn.goal) /\ Shaped(txn.from) /\ DOMAIN txn.goal \in SUBSET Leaves
                BY <1>0, <3>1 DEF ShapedLocals
            <4> QED
                BY <3>1, <4>1, EffectiveShaped
        <3>3. ASSUME txn.kind = "update" PROVE Shaped(Cleaned(effective, Selected))
            <4> DEFINE old == Cleaned(txn.goal, Selected)
            <4>1. DOMAIN txn.goal = Typed /\ Shaped(old)
                BY <1>0, <2>0, <3>3 DEF Sound, CheckPCs, ShapedLocals
            <4>2. Cleaned(effective, Selected)
                  = [l \in Typed |-> IF Dir[l] \in Selected THEN old[l] ELSE txn.from[l]]
                BY <4>1, CleanedEffective
            <4>3. DOMAIN old = Typed
                BY <4>1 DEF Cleaned
            <4>4. Shaped(txn.from) /\ DOMAIN txn.from = Typed /\ Typed \in SUBSET Leaves
                BY <1>0, <3>1, <4>1 DEF ShapedLocals
            <4> DEFINE new == Cleaned(effective, Selected)
            <4>5. DOMAIN new = Typed /\ \A l \in Typed :
                        new[l] = IF Dir[l] \in Selected THEN old[l] ELSE txn.from[l]
                BY <4>2
            <4> DEFINE sel == {l \in Leaves : Dir[l] \in Selected}
            <4> HIDE DEF old, new
            <4>7. \A c \in Counts : \A l \in Typed : Nearest(c, l) => (c \in sel <=> l \in sel)
                BY <4>4, NearestIs
            <4>8. /\ \A l \in sel \cap Typed : new[l] = old[l]
                  /\ \A l \in Typed \ sel : new[l] = txn.from[l]
                BY <4>4, <4>5
            <4>9. sel \in SUBSET Leaves
                OBVIOUS
            <4> HIDE DEF sel
            <4>6. Shaped(new)
                BY ONLY <4>9, <4>1, <4>3, <4>4, <4>5, <4>7, <4>8, MixedShaped
            <4> QED
                BY <4>6 DEF new
        <3> HIDE DEF effective
        <3>4. /\ t.goal = effective /\ t.from = txn.from /\ t.observed = txn.observed
              /\ t.before = txn.before /\ t.captured = txn.captured /\ t.began = txn.began
              /\ t.kind = txn.kind /\ t.phase = txn.phase /\ t.selected = txn.selected
            BY <1>0 DEF Locals
        <3> HIDE DEF t
        <3>5. ShapedLocals(t)
            BY <1>0, <3>2, <3>3, <3>4 DEF ShapedLocals, SelectedOf
        <3> QED
            BY <2>0, <2>3, <3>5 DEF Advance, SInv, ShapeInv
    <2> QED
        BY <1>5, <2>1, <2>2, <2>3 DEF VerifyRequest, Continue, Effective, Return
<1> QED
    BY <1>1, <1>2, <1>3, <1>4, <1>5 DEF Prepare

\* The names of what the steps of staging and undoing change.
LEMMA StageShape == ASSUME SInv, Stage PROVE ShapeInv'
<1>0. pc # "idle" /\ txn \in Locals /\ ShapedLocals(txn) /\ Sound(pc, txn) /\ Alike(txn)
    <2>1. pc # "idle"
        BY DEF Stage, StartStaging, StageLeaf, StagingDone, VerifyStagedIdentities,
            VerifyUnchanged, CaptureStaged, CompareTyped, ValuesMatch, StartCommits
    <2> QED
        BY <2>1, Busy DEF SInv, ShapeInv, Alike
<1>00. leaf \in Contents /\ Shaped(leaf)
    BY DEF SInv, IInv, TypeOK, ShapeInv
<1>1. ASSUME NEW c \in BOOLEAN, NEW l, NEW S, Look(c, l, [txn EXCEPT !.todo = S])
      PROVE ShapeInv'
    <2> DEFINE t == [txn EXCEPT !.todo = S]
    <2>1. /\ t.goal = txn.goal /\ t.from = txn.from /\ t.observed = txn.observed
          /\ t.before = txn.before /\ t.captured = txn.captured /\ t.began = txn.began
          /\ t.kind = txn.kind /\ t.phase = txn.phase /\ t.selected = txn.selected
        BY <1>0 DEF Locals
    <2> HIDE DEF t
    <2>2. ShapedLocals(t)
        BY <1>0, <2>1 DEF ShapedLocals, SelectedOf
    <2> QED
        BY <1>0, <1>1, <2>2, LookShape DEF t
<1>2. ASSUME NEW c \in BOOLEAN, NEW l, Look(c, l, txn) PROVE ShapeInv'
    BY <1>0, <1>2, LookShape
<1>3. CASE StartStaging
    BY <1>1, <1>3 DEF StartStaging, Identities
<1>4. CASE StageLeaf
    <2> DEFINE l == Least(txn.todo)
               rest == txn.todo \ {l}
               t == [txn EXCEPT !.todo = rest, !.journal = @ \cup {l}]
    <2>1. CASE Look(TRUE, "stage", [txn EXCEPT !.todo = rest])
        BY <1>1, <2>1
    <2>2. CASE Look(FALSE, "stage", txn)
        BY <1>2, <2>2
    <2>3. CASE /\ Exists(l)
               /\ \/ WriteLeaf(l, txn.goal[l])
                  \/ \E v \in Misstored \ {txn.goal[l]} : WriteLeaf(l, v)
               /\ Advance("stage", t)
               /\ UNCHANGED staged
        <3>1. pc = "stage" /\ txn.todo # {}
            BY <1>4 DEF StageLeaf
        <3>2. l \in ToStage(txn.goal, txn.from)
            BY <1>0, <3>1, HasLeast DEF Sound, Locals
        <3>3. l \in Leaves /\ txn.goal[l] \in Values
            BY <1>0, <3>2, StagedOf DEF Locals
        <3>4. PICK v \in Values : WriteLeaf(l, v)
            BY <2>3, <3>3
        <3> HIDE DEF l, rest
        <3>5. /\ t.goal = txn.goal /\ t.from = txn.from /\ t.observed = txn.observed
              /\ t.before = txn.before /\ t.captured = txn.captured /\ t.began = txn.began
              /\ t.kind = txn.kind /\ t.phase = txn.phase /\ t.selected = txn.selected
            BY <1>0 DEF Locals
        <3>6. txn' = t
            BY <2>3 DEF Advance
        <3> HIDE DEF t
        <3>7. ShapedLocals(t)
            BY <1>0, <3>5 DEF ShapedLocals, SelectedOf
        <3> QED
            BY <2>3, <3>3, <3>4, <3>6, <3>7, WriteShape
    <2> QED
        BY <1>4, <2>1, <2>2, <2>3 DEF StageLeaf
<1>5. CASE CaptureStaged
    <2> DEFINE t == [txn EXCEPT !.captured = leaf]
    <2>1. /\ t.goal = txn.goal /\ t.from = txn.from /\ t.observed = txn.observed
          /\ t.before = txn.before /\ t.captured = leaf /\ t.began = txn.began
          /\ t.kind = txn.kind /\ t.phase = txn.phase /\ t.selected = txn.selected
        BY <1>0 DEF Locals
    <2>2. Look(TRUE, "compare", t)
        BY <1>5 DEF CaptureStaged
    <2> HIDE DEF t
    <2>3. ShapedLocals(t)
        BY <1>0, <1>00, <2>1 DEF ShapedLocals, SelectedOf
    <2> QED
        BY <1>0, <2>2, <2>3, LookShape
<1>6. CASE StartCommits
    <2>1. Alike([txn EXCEPT !.queue = txn.selected])
        BY <1>0, QueueAlike DEF Locals
    <2>2. ShapedLocals([txn EXCEPT !.queue = txn.selected])
        BY <1>0, <2>1, AlikeShaped
    <2> QED
        BY <1>0, <1>6, <2>2, LookShape DEF StartCommits, Identities
<1>7. CASE CompareTyped
    <2>1. SameTyped(txn.goal, leaf) \in BOOLEAN
        BY DEF SameTyped
    <2> QED
        BY <1>2, <1>7, <2>1 DEF CompareTyped
<1> QED
    BY <1>2, <1>3, <1>4, <1>5, <1>6, <1>7
    DEF Stage, StagingDone, VerifyStagedIdentities, VerifyUnchanged, ValuesMatch,
        Identities, MatchesExcept

LEMMA CommitLoopShape == ASSUME SInv, CommitLoop PROVE ShapeInv'
<1>0. pc # "idle" /\ txn \in Locals /\ ShapedLocals(txn) /\ Sound(pc, txn) /\ Alike(txn)
      /\ Selected = SelectedOf(txn)
    <2>1. pc # "idle"
        BY DEF CommitLoop, VerifyBeforeCommit, Commit, VerifyAfterCommit, Adopt
    <2> QED
        BY <2>1, Busy DEF SInv, ShapeInv, Alike
<1>1. CASE VerifyBeforeCommit
    BY <1>0, <1>1, LookShape DEF VerifyBeforeCommit, Identity
<1>2. CASE Commit
    <2>1. CASE Look(FALSE, "committed", txn)
        BY <1>0, <2>1, LookShape
    <2>2. CASE /\ CommitLeaves(Head(txn.queue), Committed(Head(txn.queue)))
               /\ Advance("committed", [txn EXCEPT !.strayed = @ \/ thread[Head(txn.queue)] # states[Head(txn.queue)]])
               /\ UNCHANGED staged
        <3> DEFINE t == [txn EXCEPT !.strayed = @ \/ thread[Head(txn.queue)] # states[Head(txn.queue)]]
        <3>1. /\ t.goal = txn.goal /\ t.from = txn.from /\ t.observed = txn.observed
              /\ t.before = txn.before /\ t.captured = txn.captured /\ t.began = txn.began
              /\ t.kind = txn.kind /\ t.phase = txn.phase /\ t.selected = txn.selected
            BY <1>0 DEF Locals
        <3>2. txn' = t /\ UNCHANGED <<leaf, staged>>
            BY <2>2 DEF Advance, CommitLeaves
        <3> HIDE DEF t
        <3>3. ShapedLocals(t)
            BY <1>0, <3>1 DEF ShapedLocals, SelectedOf
        <3> QED
            BY <3>2, <3>3 DEF SInv, ShapeInv
    <2> QED
        BY <1>2, <2>1, <2>2 DEF Commit
<1>3. CASE VerifyAfterCommit
    <2> DEFINE cleaned == Cleaned(txn.goal, Selected)
               t == [txn EXCEPT !.queue = <<>>, !.phase = "clean",
                                !.from = txn.goal, !.goal = cleaned]
    <2>0. pc = "committed" /\ UNCHANGED <<leaf, staged>>
        BY <1>3 DEF VerifyAfterCommit, kernelVars
    <2>1. CASE Fail
        BY <1>0, <2>0, <2>1, FailShape
    <2>2. ASSUME NEW l, NEW q, Advance(l, [txn EXCEPT !.queue = q]) PROVE ShapeInv'
        <3> DEFINE u == [txn EXCEPT !.queue = q]
        <3>1. /\ u.goal = txn.goal /\ u.from = txn.from /\ u.observed = txn.observed
              /\ u.before = txn.before /\ u.captured = txn.captured /\ u.began = txn.began
              /\ u.kind = txn.kind /\ u.phase = txn.phase /\ u.selected = txn.selected
            BY <1>0 DEF Locals
        <3>2. txn' = u
            BY <2>2 DEF Advance
        <3> HIDE DEF u
        <3>3. ShapedLocals(u)
            BY <1>0, <3>1 DEF ShapedLocals, SelectedOf
        <3> QED
            BY <2>0, <3>2, <3>3 DEF SInv, ShapeInv
    <2>3. CASE /\ txn.mode = "forward" /\ txn.kind = "update"
               /\ Advance("stage_ids", t)
        <3>1. txn.phase = "main"
            BY <1>0, <2>0, <2>3 DEF Sound, CommitPCs
        <3>2. Shaped(cleaned)
            BY <1>0, <2>3, <3>1 DEF ShapedLocals
        <3> HIDE DEF cleaned
        <3>3. /\ t.goal = cleaned /\ t.from = txn.goal /\ t.observed = txn.observed
              /\ t.before = txn.before /\ t.captured = txn.captured /\ t.began = txn.began
              /\ t.phase = "clean"
            BY <1>0 DEF Locals
        <3>4. txn' = t
            BY <2>3 DEF Advance
        <3> HIDE DEF t
        <3>5. ShapedLocals(t)
            BY <1>0, <3>2, <3>3 DEF ShapedLocals
        <3> QED
            BY <2>0, <3>4, <3>5 DEF SInv, ShapeInv
    <2> QED
        BY <1>3, <2>1, <2>2, <2>3 DEF VerifyAfterCommit
<1>4. CASE Adopt
    <2>0. UNCHANGED leaf
        BY <1>4 DEF Adopt, kernelVars
    <2>1. CASE Fail /\ UNCHANGED staged
        BY <1>0, <2>0, <2>1, FailShape
    <2>2. CASE staged' = txn.captured /\ pc' = "idle"
        BY <1>0, <2>0, <2>2 DEF ShapedLocals, SInv, ShapeInv
    <2> QED
        BY <1>4, <2>1, <2>2 DEF Adopt, Return
<1> QED
    BY <1>1, <1>2, <1>3, <1>4 DEF CommitLoop

LEMMA RestoreShape == ASSUME SInv, Restore PROVE ShapeInv'
<1>0. pc \in RestorePCs /\ pc # "idle" /\ txn \in Locals /\ ShapedLocals(txn) /\ Sound(pc, txn)
    <2>1. pc \in RestorePCs /\ pc # "idle"
        BY DEF Restore, VerifyBeforeRestore, VerifyBoundary, RestoreLeaf, RestoreDone,
            VerifyRestoredIdentities, VerifyRestored, Recapture, VerifyRecommitted, RestorePCs
    <2> QED
        BY <2>1, Busy DEF SInv, ShapeInv
<1>00. leaf \in Contents /\ Shaped(leaf)
    BY DEF SInv, IInv, TypeOK, ShapeInv
<1>1. ASSUME NEW S, txn' = [txn EXCEPT !.todo = S] \/ txn' = [txn EXCEPT !.queue = S]
      PROVE  ShapedLocals(txn')
    <2>1. /\ txn'.goal = txn.goal /\ txn'.from = txn.from /\ txn'.observed = txn.observed
          /\ txn'.before = txn.before /\ txn'.captured = txn.captured /\ txn'.began = txn.began
          /\ txn'.kind = txn.kind /\ txn'.phase = txn.phase /\ txn'.selected = txn.selected
        BY <1>0, <1>1 DEF Locals
    <2> QED
        BY <1>0, <2>1 DEF ShapedLocals, SelectedOf
<1>2. ASSUME NEW c \in BOOLEAN, NEW l, NEW t, Look(c, l, t), txn' = t => ShapedLocals(txn')
      PROVE  ShapeInv'
    <2>1. CASE c
        BY <1>2, <2>1 DEF Look, Continue, Advance, kernelVars, SInv, ShapeInv
    <2>2. CASE ~c
        BY <1>0, <1>2, <2>2, FailShape DEF Look, Continue, kernelVars
    <2> QED
        BY <2>1, <2>2
<1>3. CASE VerifyBoundary
    <2> DEFINE S == ToRestore(txn.before, AffectedBy(txn.before, txn.journal))
    <2>1. UNCHANGED <<leaf, staged>> /\ \E m : txn' = [txn EXCEPT !.todo = S, !.mode = m]
        BY <1>3 DEF VerifyBoundary, Advance, kernelVars
    <2> HIDE DEF S
    <2>2. PICK m : txn' = [txn EXCEPT !.todo = S, !.mode = m]
        BY <2>1
    <2>4. /\ txn'.goal = txn.goal /\ txn'.from = txn.from /\ txn'.observed = txn.observed
          /\ txn'.before = txn.before /\ txn'.captured = txn.captured /\ txn'.began = txn.began
          /\ txn'.kind = txn.kind /\ txn'.phase = txn.phase /\ txn'.selected = txn.selected
        BY <1>0, <2>2 DEF Locals
    <2>3. ShapedLocals(txn')
        BY <1>0, <2>4 DEF ShapedLocals, SelectedOf
    <2> QED
        BY <2>1, <2>3 DEF SInv, ShapeInv
<1>4. CASE RestoreLeaf
    <2> DEFINE l == Least(txn.todo)
               t == [txn EXCEPT !.todo = @ \ {l}]
    <2>1. ASSUME NEW c \in BOOLEAN, Look(c, "restore", t) PROVE ShapeInv'
        BY <1>1, <1>2, <2>1
    <2>2. CASE WriteLeaf(l, txn.before[l]) /\ Advance("restore", t) /\ UNCHANGED staged
        <3>1. pc = "restore" /\ txn.todo # {}
            BY <1>4 DEF RestoreLeaf
        <3>2. l \in ToRestore(txn.before, AffectedBy(txn.before, txn.journal))
              /\ txn.before \in Contents /\ txn.journal \in SUBSET Typed
            BY <1>0, <3>1, HasLeast DEF Sound, Locals
        <3>3. l \in Leaves /\ txn.before[l] \in Values
            BY <3>2, RestoredOf
        <3>4. ShapedLocals(txn')
            BY <1>1, <2>2 DEF Advance
        <3> HIDE DEF l
        <3> QED
            BY <2>2, <3>3, <3>4, WriteShape
    <2> QED
        BY <1>4, <2>1, <2>2 DEF RestoreLeaf
<1>5. CASE RestoreDone
    <2>1. RestoredMatches(txn.before, AffectedBy(txn.before, txn.journal)) \in BOOLEAN
        BY DEF RestoredMatches
    <2> DEFINE t == [txn EXCEPT !.queue = txn.selected]
               l == IF txn.mode = "rollback" /\ txn.kind = "update"
                    THEN "restored_ids" ELSE "commit_id"
    <2>2. Look(RestoredMatches(txn.before, AffectedBy(txn.before, txn.journal)), l, t)
        BY <1>5 DEF RestoreDone
    <2>3. txn' = t => ShapedLocals(txn')
        BY <1>1, Zenon
    <2> HIDE DEF t, l
    <2> QED
        BY <1>2, <2>1, <2>2, <2>3
<1>6. CASE Recapture
    <2> DEFINE t == [txn EXCEPT !.captured = leaf]
    <2>1. /\ t.goal = txn.goal /\ t.from = txn.from /\ t.observed = txn.observed
          /\ t.before = txn.before /\ t.captured = leaf /\ t.began = txn.began
          /\ t.kind = txn.kind /\ t.phase = txn.phase /\ t.selected = txn.selected
        BY <1>0 DEF Locals
    <2>2. Look(TRUE, IF txn.kind = "update" THEN "recommitted_match" ELSE "adopt", t)
        BY <1>6 DEF Recapture
    <2> HIDE DEF t
    <2>3. ShapedLocals(t)
        BY <1>0, <1>00, <2>1 DEF ShapedLocals, SelectedOf
    <2> QED
        BY <1>0, <2>2, <2>3, LookShape
<1>7. ASSUME NEW c \in BOOLEAN, NEW l, Look(c, l, txn) PROVE ShapeInv'
    BY <1>0, <1>7, LookShape
<1> QED
    BY <1>3, <1>4, <1>5, <1>6, <1>7
    DEF Restore, VerifyBeforeRestore, VerifyRestoredIdentities, VerifyRestored,
        VerifyRecommitted, Identities, MatchesExcept

LEMMA ShapeStep == ASSUME SInv, [Next]_vars PROVE ShapeInv'
<1>1. CASE IoError
    BY <1>1, FailShape DEF IoError, kernelVars
<1>2. CASE TransientBusy
    <2>1. UNCHANGED <<leaf, staged>> /\ \E S : txn' = [txn EXCEPT !.todo = S]
        BY <1>2 DEF TransientBusy, Advance, kernelVars
    <2>2. pc # "idle" /\ txn \in Locals
        BY <1>2, Busy DEF TransientBusy, SInv
    <2>3. /\ txn'.goal = txn.goal /\ txn'.from = txn.from /\ txn'.observed = txn.observed
          /\ txn'.before = txn.before /\ txn'.captured = txn.captured /\ txn'.began = txn.began
          /\ txn'.kind = txn.kind /\ txn'.phase = txn.phase /\ txn'.selected = txn.selected
        BY <2>1, <2>2 DEF Locals
    <2> QED
        BY <2>1, <2>2, <2>3 DEF SInv, ShapeInv, ShapedLocals, SelectedOf
<1>3. CASE Environment
    <2>1. UNCHANGED <<staged, pc, txn>>
        BY <1>3 DEF Environment, KernelTunes, KdamondExits, RogueActs
    <2>2. CASE UNCHANGED leaf
        BY <2>1, <2>2 DEF SInv, ShapeInv
    <2>3. ASSUME NEW l \in Leaves, NEW v \in Values, WriteLeaf(l, v) PROVE ShapeInv'
        BY <2>1, <2>3, WriteShape DEF SInv, ShapeInv
    <2> QED
        BY <1>3, <2>2, <2>3
        DEF Environment, KernelTunes, TuneLeaf, KdamondExits, EndThread, RogueActs, StartThread
<1>4. CASE UNCHANGED vars
    BY <1>4 DEF vars, kernelVars, SInv, ShapeInv
<1> QED
    BY <1>1, <1>2, <1>3, <1>4, CallShape, PrepareShape, StageShape, CommitLoopShape, RestoreShape
    DEF Next, Proceed, Faulty

LEMMA SInvariance == Spec => []SInv
<1>1. Init => SInv
    BY InitIInv, InitShape DEF SInv
<1>2. SInv /\ [Next]_vars => SInv'
    BY NextKeeps, ShapeStep DEF SInv
<1> QED
    BY <1>1, <1>2, PTL DEF Spec

-----------------------------------------------------------------------------
(* A call that nobody disturbs                                             *)

\* What lies in the journal or below a count in it.
Touched(journal) == journal \cup {m \in Leaves : \E c \in journal \cap Counts : m \in Under[c]}

\* The files f at step l of an undisturbed call: as they were, but for what the
\* journal names.
FilesPart(l, t, f, s) ==
    /\ \A m \in Leaves \ Tuned : m \notin Touched(t.journal) => f[m] = t.began.leaf[m]
    /\ \A m \in t.journal : Dir[m] \in SelectedOf(t)
    /\ l \notin CheckPCs => \A m \in ToStage(t.goal, t.from) : Dir[m] \in SelectedOf(t)
    /\ l # "owned" => Same(t.began.leaf, s)
    /\ l \notin {"owned", "capture"} => Same(t.before, t.began.leaf)
    /\ l \notin {"owned", "capture", "read"} =>
            /\ \A m \in DOMAIN t.observed \ Tuned : t.observed[m] = t.began.leaf[m]
            /\ \A m \in DOMAIN t.goal : Above(m) \cap DOMAIN t.goal = {} => f[m] # Absent
    /\ t.mode = "forward" /\ l \in CommitPCs \cup {"values", "commit_ids", "adopt"} =>
            \A m \in DOMAIN t.goal \ Tuned : f[m] = t.goal[m]
    /\ t.mode = "rollback" /\ (l = "adopt" \/ (l = "recapture" /\ t.kind = "goals")) =>
            Same(f, t.before)

\* A kdamond the commit loop has still to visit.
Pending(l, t, i) ==
    /\ l \in CommitPCs \cup {"restored_ids", "restored_match"}
    /\ \E k \in DOMAIN t.queue : t.queue[k] = i /\ (l = "committed" => k # 1)

RecommitPCs == CommitPCs \cup {"restored_ids", "restored_match", "recapture",
                               "recommitted_match", "adopt"}

\* What the threads run.
RunningPart(l, t, f, a) ==
    /\ l \in CheckPCs => a = t.began.active
    /\ \A m \in Leaves : Dir[m] \notin SelectedOf(t) => a[m] = t.began.active[m]
    /\ t.kind = "goals" => \A m \in Leaves \ Goals : a[m] = t.began.active[m]
    /\ t.mode = "forward" /\ (t.phase = "clean" \/ l \in CommitPCs \cup {"adopt"}) =>
            \A m \in DOMAIN t.asked \ Tuned :
                Dir[m] \in SelectedOf(t) /\ ~Pending(l, t, Dir[m]) => a[m] = t.asked[m]
    /\ t.mode # "forward" /\ l \in RecommitPCs =>
            \A m \in Leaves \ Tuned :
                Dir[m] \in SelectedOf(t) /\ ~Pending(l, t, Dir[m])
                /\ (t.kind = "goals" => m \in Goals) => a[m] = f[m]

AloneInv ==
    Undisturbed =>
        /\ thread = states
        /\ pc # "idle" => FilesPart(pc, txn, leaf, staged) /\ RunningPart(pc, txn, leaf, active)

AInv == SInv /\ AloneInv

LEMMA InitAlone == Init => AloneInv
BY DEF Init, AloneInv

LEMMA LocalsAre ==
    ASSUME SInv, pc # "idle"
    PROVE  /\ txn \in Locals /\ Sound(pc, txn) /\ ShapedLocals(txn) /\ Alike(txn)
           /\ leaf \in Contents /\ active \in Contents /\ staged \in Contents
           /\ Shaped(leaf) /\ Shaped(staged)
           /\ txn.began.leaf \in Contents /\ txn.began.active \in Contents
           /\ DOMAIN txn.goal \subseteq Typed /\ DOMAIN txn.goal \subseteq Leaves
           /\ Selected = SelectedOf(txn) /\ Selected \subseteq K
<1>1. txn \in Locals /\ Sound(pc, txn) /\ ShapedLocals(txn) /\ Selected = SelectedOf(txn)
      /\ Selected \subseteq K /\ leaf \in Contents /\ active \in Contents /\ staged \in Contents
      /\ Shaped(leaf) /\ Shaped(staged)
    BY Busy DEF SInv, IInv, TypeOK, ShapeInv
<1>2. txn.goal \in Configurations /\ txn.began \in [leaf : Contents, active : Contents]
      /\ Alike(txn)
    BY <1>1 DEF Locals, Alike
<1> QED
    BY <1>1, <1>2, ConfigurationIs

LEMMA FailAlone ==
    ASSUME SInv, AloneInv, pc # "idle", Fail,
           UNCHANGED <<kernelVars, states, staged, rogue, exits>>
    PROVE  AloneInv'
<1> SUFFICES ASSUME Undisturbed PROVE AloneInv'
    BY DEF AloneInv, Undisturbed
<1>0. txn \in Locals /\ thread' = states' /\ FilesPart(pc, txn, leaf, staged)
      /\ RunningPart(pc, txn, leaf, active)
    BY LocalsAre DEF AloneInv, kernelVars
<1>1. CASE pc' = "idle"
    BY <1>0, <1>1 DEF AloneInv
<1>2. CASE pc \notin CheckPCs /\ txn.mode = "forward"
    <2> DEFINE t == [txn EXCEPT !.mode = "rollback", !.todo = {},
                                !.queue = <<>>, !.captured = Nothing]
    <2>1. pc' = "restore_ids" /\ txn' = t
        BY <1>2 DEF Fail, Advance
    <2>2. /\ t.kind = txn.kind /\ t.goal = txn.goal /\ t.from = txn.from
          /\ t.selected = txn.selected /\ t.before = txn.before
          /\ t.journal = txn.journal /\ t.phase = txn.phase /\ t.mode = "rollback"
          /\ t.asked = txn.asked /\ t.observed = txn.observed /\ t.began = txn.began
        BY <1>0 DEF Locals
    <2> HIDE DEF t
    <2>3. FilesPart("restore_ids", t, leaf, staged)
        BY <1>0, <1>2, <2>2 DEF FilesPart, CheckPCs, SelectedOf
    <2>4. RunningPart("restore_ids", t, leaf, active)
        <3>1. SelectedOf(t) = SelectedOf(txn)
            BY <2>2 DEF SelectedOf
        <3>2. /\ \A m \in Leaves : Dir[m] \notin SelectedOf(t) => active[m] = t.began.active[m]
              /\ t.kind = "goals" => \A m \in Leaves \ Goals : active[m] = t.began.active[m]
            BY <1>0, <2>2, <3>1 DEF RunningPart
        <3> QED
            BY <2>2, <3>2 DEF RunningPart, CheckPCs, CommitPCs, RecommitPCs
    <2> QED
        BY <1>0, <2>1, <2>3, <2>4 DEF AloneInv, kernelVars
<1> QED
    BY <1>1, <1>2 DEF Fail, Return

LEMMA LookAlone ==
    ASSUME SInv, AloneInv, pc # "idle", NEW c \in BOOLEAN, NEW l, NEW t, Look(c, l, t),
           Undisturbed /\ c => /\ FilesPart(l, t, leaf, staged)
                               /\ RunningPart(l, t, leaf, active)
    PROVE  AloneInv'
<1>1. CASE c
    BY <1>1 DEF Look, Continue, Advance, kernelVars, budgets, AloneInv, Undisturbed
<1>2. CASE ~c
    BY <1>2, FailAlone DEF Look, Continue, budgets
<1> QED
    BY <1>1, <1>2

\* From step to step of the staging and the undoing.
LEMMA AlikeFiles ==
    ASSUME NEW l, NEW t, Alike(t), pc \notin CheckPCs, l \notin CheckPCs,
           FilesPart(pc, txn, leaf, staged),
           t.mode = "forward" /\ l \in CommitPCs \cup {"values", "commit_ids", "adopt"}
                => pc \in CommitPCs \cup {"values", "commit_ids", "adopt"},
           t.mode = "rollback" /\ l = "adopt" => pc \in {"adopt", "recapture"} /\ t.kind = "goals",
           t.mode = "rollback" /\ l = "recapture" => t.kind = "update" \/ pc = "recapture"
    PROVE  FilesPart(l, t, leaf, staged)
<1>1. SelectedOf(t) = SelectedOf(txn)
    BY DEF Alike, SelectedOf
<1> QED
    BY <1>1 DEF FilesPart, CheckPCs, Alike, CommitPCs

LEMMA AlikeRunning ==
    ASSUME NEW l, NEW t, Alike(t), l \notin CheckPCs,
           RunningPart(pc, txn, leaf, active),
           t.mode = "forward" /\ l \in CommitPCs \cup {"adopt"} =>
                \/ \A i \in SelectedOf(t) : Pending(l, t, i)
                \/ pc \in CommitPCs \cup {"adopt"} \/ t.phase = "clean",
           t.mode # "forward" /\ l \in RecommitPCs =>
                \/ \A i \in SelectedOf(t) : Pending(l, t, i)
                \/ pc \in RecommitPCs,
           \/ \A i \in SelectedOf(t) : Pending(l, t, i)
           \/ \A i \in SelectedOf(t) : Pending(pc, txn, i) => Pending(l, t, i)
    PROVE  RunningPart(l, t, leaf, active)
<1>1. SelectedOf(t) = SelectedOf(txn)
    BY DEF Alike, SelectedOf
<1>2. t.mode = txn.mode /\ t.phase = txn.phase /\ t.began = txn.began /\ t.kind = txn.kind
      /\ t.asked = txn.asked
    BY DEF Alike
<1> HIDE DEF Pending
<1>3. CASE \A i \in SelectedOf(t) : Pending(l, t, i)
    BY <1>1, <1>2, <1>3 DEF RunningPart
<1>4. CASE ~ \A i \in SelectedOf(t) : Pending(l, t, i)
    <2>1. \A i \in SelectedOf(t) : Pending(pc, txn, i) => Pending(l, t, i)
        BY <1>4
    <2>2. t.mode = "forward" /\ (t.phase = "clean" \/ l \in CommitPCs \cup {"adopt"}) =>
            \A m \in DOMAIN t.asked \ Tuned :
                Dir[m] \in SelectedOf(t) /\ ~Pending(l, t, Dir[m]) => active[m] = t.asked[m]
        BY <1>1, <1>2, <1>4, <2>1 DEF RunningPart
    <2>3. t.mode # "forward" /\ l \in RecommitPCs =>
            \A m \in Leaves \ Tuned :
                Dir[m] \in SelectedOf(t) /\ ~Pending(l, t, Dir[m])
                /\ (t.kind = "goals" => m \in Goals) => active[m] = leaf[m]
        BY <1>1, <1>2, <1>4, <2>1 DEF RunningPart
    <2> QED
        BY <1>1, <1>2, <2>2, <2>3 DEF RunningPart
<1> QED
    BY <1>3, <1>4

LEMMA CallAlone == ASSUME SInv, AloneInv, Call PROVE AloneInv'
<1>1. PICK r \in Requests :
        IF \E k \in DOMAIN r.selected : states[r.selected[k]] = 0
        THEN Return("rejected")
        ELSE Advance("owned", [NoTxn EXCEPT !.kind = r.kind,
                                            !.began = [leaf |-> leaf, active |-> active],
                                            !.goal = r.want, !.asked = r.want,
                                            !.selected = r.selected])
    BY DEF Call
<1>2. UNCHANGED <<kernelVars, states, staged, rogue, exits>>
    BY DEF Call
<1>3. CASE Return("rejected")
    BY <1>2, <1>3 DEF Return, AloneInv, Undisturbed, kernelVars
<1>4. CASE txn' = [NoTxn EXCEPT !.kind = r.kind,
                                !.began = [leaf |-> leaf, active |-> active],
                                !.goal = r.want, !.asked = r.want,
                                !.selected = r.selected] /\ pc' = "owned"
    <2> DEFINE t == [NoTxn EXCEPT !.kind = r.kind,
                                  !.began = [leaf |-> leaf, active |-> active],
                                  !.goal = r.want, !.asked = r.want, !.selected = r.selected]
    <2>1. /\ t.journal = {} /\ t.phase = "main" /\ t.mode = "forward"
          /\ t.began = [leaf |-> leaf, active |-> active]
        BY DEF NoTxn
    <2> HIDE DEF t
    <2>2. FilesPart("owned", t, leaf, staged)
        BY <2>1 DEF FilesPart, Touched, CheckPCs, CommitPCs
    <2>3. RunningPart("owned", t, leaf, active)
        BY <2>1 DEF RunningPart, CommitPCs
    <2> QED
        BY <1>2, <1>4, <2>2, <2>3 DEF AloneInv, Undisturbed, kernelVars, t
<1> QED
    BY <1>1, <1>3, <1>4 DEF Advance

LEMMA PrepareAlone == ASSUME SInv, AloneInv, Prepare PROVE AloneInv'
<1>0. /\ pc \in CheckPCs /\ pc # "idle" /\ txn.mode = "forward" /\ txn.phase = "main"
      /\ txn.journal = {}
    BY LocalsAre DEF Sound, CheckPCs, Prepare, VerifyOwned, CaptureBefore, ReadTyped, Recheck, VerifyRequest
<1>00. /\ txn \in Locals /\ Sound(pc, txn) /\ ShapedLocals(txn)
       /\ leaf \in Contents /\ staged \in Contents /\ Shaped(leaf) /\ Shaped(staged)
       /\ DOMAIN txn.goal \subseteq Leaves /\ Selected = SelectedOf(txn)
    BY <1>0, LocalsAre
<1>000. Undisturbed => FilesPart(pc, txn, leaf, staged) /\ RunningPart(pc, txn, leaf, active)
                       /\ Same(leaf, txn.began.leaf) /\ active = txn.began.active
    BY <1>0 DEF AloneInv, FilesPart, RunningPart, Touched, Same
<1>1. CASE VerifyOwned
    <2>1. pc = "owned" /\ Look(Owned, "capture", txn) /\ Owned \in BOOLEAN
        BY <1>1 DEF VerifyOwned, Owned, MatchesExcept, Identities
    <2>2. Owned /\ Undisturbed => FilesPart("capture", txn, leaf, staged)
        <3> SUFFICES ASSUME Owned, Undisturbed PROVE FilesPart("capture", txn, leaf, staged)
            OBVIOUS
        <3>1. Same(leaf, staged)
            BY <1>00, MatchedSame DEF Owned
        <3>2. Same(txn.began.leaf, staged)
            BY <1>000, <3>1 DEF Same
        <3> QED
            BY <1>0, <1>000, <3>2 DEF FilesPart, CheckPCs, CommitPCs
    <2>3. Undisturbed => RunningPart("capture", txn, leaf, active)
        BY <1>0, <1>000 DEF RunningPart, CommitPCs
    <2> QED
        BY <1>0, <2>1, <2>2, <2>3, LookAlone
<1>2. CASE CaptureBefore
    <2> DEFINE t == [txn EXCEPT !.before = leaf]
    <2>1. pc = "capture" /\ Look(TRUE, "read", t)
        BY <1>2 DEF CaptureBefore
    <2>2. /\ t.kind = txn.kind /\ t.goal = txn.goal /\ t.from = txn.from
          /\ t.selected = txn.selected /\ t.before = leaf
          /\ t.journal = txn.journal /\ t.phase = txn.phase /\ t.mode = txn.mode
          /\ t.asked = txn.asked /\ t.observed = txn.observed /\ t.began = txn.began
        BY <1>00 DEF Locals
    <2> HIDE DEF t
    <2>3. Undisturbed => FilesPart("read", t, leaf, staged)
        BY <1>0, <1>000, <2>1, <2>2 DEF FilesPart, CheckPCs, CommitPCs, SelectedOf
    <2>4. Undisturbed => RunningPart("read", t, leaf, active)
        BY <1>0, <1>000, <2>2 DEF RunningPart, CommitPCs, SelectedOf
    <2> QED
        BY <1>0, <2>1, <2>3, <2>4, LookAlone
<1>3. CASE ReadTyped
    <2> DEFINE read == [l \in DOMAIN txn.goal |-> leaf[l]]
               t == [txn EXCEPT !.from = read, !.observed = read]
               c == \A l \in DOMAIN read : Above(l) \cap DOMAIN read = {} => Exists(l)
    <2>1. pc = "read" /\ Look(c, "recheck", t) /\ c \in BOOLEAN
        BY <1>3 DEF ReadTyped
    <2>2. DOMAIN read = DOMAIN txn.goal /\ \A l \in DOMAIN read : read[l] = leaf[l]
        OBVIOUS
    <2>3. c => \A m \in DOMAIN txn.goal : Above(m) \cap DOMAIN txn.goal = {} => leaf[m] # Absent
        BY <2>2 DEF Exists
    <2> HIDE DEF read, c
    <2>4. /\ t.kind = txn.kind /\ t.goal = txn.goal /\ t.from = read
          /\ t.selected = txn.selected /\ t.before = txn.before
          /\ t.journal = txn.journal /\ t.phase = txn.phase /\ t.mode = txn.mode
          /\ t.asked = txn.asked /\ t.observed = read /\ t.began = txn.began
        BY <1>00 DEF Locals
    <2> HIDE DEF t
    <2>5. Undisturbed /\ c => FilesPart("recheck", t, leaf, staged)
        <3> SUFFICES ASSUME Undisturbed, c PROVE FilesPart("recheck", t, leaf, staged)
            OBVIOUS
        <3>1. \A m \in DOMAIN t.observed \ Tuned : t.observed[m] = t.began.leaf[m]
            BY <1>00, <1>000, <2>2, <2>4 DEF Same
        <3> QED
            BY <1>0, <1>000, <2>1, <2>3, <2>4, <3>1
            DEF FilesPart, CheckPCs, CommitPCs, SelectedOf
    <2>6. Undisturbed => RunningPart("recheck", t, leaf, active)
        BY <1>0, <1>000, <2>4 DEF RunningPart, CommitPCs, SelectedOf
    <2> QED
        BY <1>0, <2>1, <2>5, <2>6, LookAlone
<1>4. CASE Recheck
    <2>1. pc = "recheck" /\ Look(MatchesExcept(txn.before, Tuned), "owned_again", txn)
          /\ MatchesExcept(txn.before, Tuned) \in BOOLEAN
        BY <1>4 DEF Recheck, MatchesExcept
    <2>2. Undisturbed => FilesPart("owned_again", txn, leaf, staged)
        BY <1>0, <1>000, <2>1 DEF FilesPart, CheckPCs, CommitPCs
    <2>3. Undisturbed => RunningPart("owned_again", txn, leaf, active)
        BY <1>0, <1>000 DEF RunningPart, CommitPCs
    <2> QED
        BY <1>0, <2>1, <2>2, <2>3, LookAlone
<1>5. CASE VerifyRequest
    <2> DEFINE effective == Effective(txn.goal, txn.from, Selected)
               t == [txn EXCEPT !.goal = effective, !.asked = effective]
    <2>0. pc = "owned_again" /\ UNCHANGED <<kernelVars, states, staged, budgets>>
        BY <1>5 DEF VerifyRequest
    <2>1. CASE Fail
        BY <1>0, <2>0, <2>1, FailAlone DEF budgets
    <2>2. CASE pc' = "idle"
        BY <2>0, <2>2 DEF AloneInv, Undisturbed, kernelVars, budgets
    <2>3. CASE Advance("stage_ids", t)
        <3>1. /\ DOMAIN effective = DOMAIN txn.goal
              /\ \A l \in DOMAIN txn.goal : Dir[l] \notin Selected => effective[l] = txn.from[l]
            BY DEF Effective
        <3> HIDE DEF effective
        <3>4. /\ t.goal = effective /\ t.from = txn.from /\ t.observed = txn.observed
              /\ t.before = txn.before /\ t.began = txn.began /\ t.mode = txn.mode
              /\ t.kind = txn.kind /\ t.phase = txn.phase /\ t.selected = txn.selected
              /\ t.journal = txn.journal
            BY <1>00 DEF Locals
        <3> HIDE DEF t
        <3>5. \A m \in ToStage(t.goal, t.from) : Dir[m] \in SelectedOf(t)
            BY <1>00, <3>1, <3>4 DEF ToStage, SelectedOf
        <3>6. Undisturbed => FilesPart("stage_ids", t, leaf, staged)
            BY <1>0, <1>000, <2>0, <3>1, <3>4, <3>5 DEF FilesPart, CheckPCs, CommitPCs, SelectedOf
        <3>7. Undisturbed => RunningPart("stage_ids", t, leaf, active)
            BY <1>0, <1>000, <3>4 DEF RunningPart, CommitPCs, CheckPCs, SelectedOf
        <3> QED
            BY <2>0, <2>3, <3>6, <3>7 DEF Advance, AloneInv, Undisturbed, kernelVars, budgets
    <2> QED
        BY <1>5, <2>1, <2>2, <2>3 DEF VerifyRequest, Continue, Effective, Return
<1> QED
    BY <1>1, <1>2, <1>3, <1>4, <1>5 DEF Prepare

\* What lies below a touched count is touched, in the kdamond of that count.
LEMMA TouchedBelow ==
    ASSUME NEW journal \in SUBSET Typed, NEW l \in Touched(journal), l \in Counts,
           NEW m \in Under[l]
    PROVE  m \in Touched(journal)
<1>1. m \in Leaves
    OBVIOUS
<1>2. CASE l \in journal
    BY <1>1, <1>2 DEF Touched
<1>3. ASSUME NEW c \in journal \cap Counts, l \in Under[c] PROVE m \in Touched(journal)
    <2>1. m \in Under[c]
        BY <1>3, Below
    <2> QED
        BY <1>1, <2>1 DEF Touched
<1> QED
    BY <1>2, <1>3 DEF Touched

\* A write of a call: what the journal does not name stays, and what the request
\* begins with stays there.
LEMMA WriteAlone ==
    ASSUME SInv, AloneInv, NEW l \in Leaves, NEW v \in Values, WriteLeaf(l, v),
           NEW p, NEW t, Advance(p, t), Undisturbed,
           UNCHANGED <<states, staged, rogue, exits>>,
           pc = p, pc \in {"stage", "restore"},
           /\ t.kind = txn.kind /\ t.goal = txn.goal /\ t.from = txn.from
           /\ t.selected = txn.selected /\ t.before = txn.before /\ t.phase = txn.phase
           /\ t.mode = txn.mode /\ t.asked = txn.asked /\ t.observed = txn.observed
           /\ t.began = txn.began,
           t.journal \in SUBSET Typed, txn.journal \subseteq t.journal, l \in Touched(t.journal),
           \A m \in t.journal : Dir[m] \in Selected /\ m \in DOMAIN txn.goal
    PROVE  AloneInv'
<1>0. /\ pc # "idle" /\ pc \notin CheckPCs /\ SelectedOf(t) = SelectedOf(txn)
      /\ thread = states /\ FilesPart(pc, txn, leaf, staged)
      /\ RunningPart(pc, txn, leaf, active) /\ Selected = SelectedOf(txn)
      /\ DOMAIN txn.goal \subseteq Leaves /\ leaf \in Contents
    BY LocalsAre DEF AloneInv, CheckPCs, SelectedOf
<1>1. leaf' = Written(l, v) /\ UNCHANGED <<active, thread>>
    BY DEF WriteLeaf
<1>2. \A m \in Leaves : m # l /\ ~(l \in Counts /\ m \in Under[l]) => leaf'[m] = leaf[m]
    BY <1>1 DEF Written
<1>3. leaf'[l] # Absent
    BY <1>1 DEF Written
<1>4. \A m \in Leaves : m \notin Touched(t.journal) => leaf'[m] = leaf[m]
    BY <1>2, TouchedBelow
<1>5. \A m \in Leaves : m \notin Touched(t.journal) => m \notin Touched(txn.journal)
    BY DEF Touched
<1>6. ASSUME NEW m \in DOMAIN t.goal, Above(m) \cap DOMAIN t.goal = {} PROVE leaf'[m] # Absent
    <2>1. leaf[m] # Absent /\ m \in Leaves
        BY <1>0, <1>6 DEF FilesPart, CheckPCs
    <2>2. CASE l \in Counts /\ m \in Under[l]
        <3>1. PICK c \in t.journal : l = c \/ (c \in Counts /\ l \in Under[c])
            BY DEF Touched
        <3>2. c \in Counts /\ m \in Under[c]
            BY <2>2, <3>1, Below
        <3> QED
            BY <1>6, <3>1, <3>2 DEF Above
    <2> QED
        BY <1>2, <1>3, <2>1, <2>2
<1>7. FilesPart(p, t, leaf', staged')
    BY <1>0, <1>4, <1>5, <1>6 DEF FilesPart, CheckPCs, CommitPCs
<1>8. RunningPart(p, t, leaf', active')
    <2>1. /\ \A m \in Leaves : Dir[m] \notin SelectedOf(t) => active[m] = t.began.active[m]
          /\ t.kind = "goals" => \A m \in Leaves \ Goals : active[m] = t.began.active[m]
        BY <1>0 DEF RunningPart
    <2>2. t.mode = "forward" /\ t.phase = "clean" =>
            \A m \in DOMAIN t.asked \ Tuned : Dir[m] \in SelectedOf(t) => active[m] = t.asked[m]
        BY <1>0 DEF RunningPart, Pending, CommitPCs
    <2> QED
        BY <1>0, <1>1, <2>1, <2>2 DEF RunningPart, CommitPCs, CheckPCs, RecommitPCs
<1> QED
    BY <1>0, <1>1, <1>7, <1>8 DEF AloneInv, Advance

LEMMA StageAlone == ASSUME SInv, AloneInv, Stage PROVE AloneInv'
<1>0. /\ pc \in StagePCs /\ pc # "idle" /\ pc \notin CheckPCs /\ pc \notin CommitPCs \cup {"adopt"}
    BY DEF Stage, StartStaging, StageLeaf, StagingDone, VerifyStagedIdentities, VerifyUnchanged,
           CaptureStaged, CompareTyped, ValuesMatch, StartCommits, StagePCs, CheckPCs, CommitPCs
<1>1. /\ txn \in Locals /\ Sound(pc, txn) /\ Alike(txn) /\ leaf \in Contents
      /\ Selected = SelectedOf(txn) /\ txn.mode = "forward"
    BY <1>0, LocalsAre DEF Sound
<1>2. Undisturbed => FilesPart(pc, txn, leaf, staged) /\ RunningPart(pc, txn, leaf, active)
    BY <1>0 DEF AloneInv
<1>3. ASSUME NEW c \in BOOLEAN, NEW l \in StagePCs \ {"values", "commit_ids"}, NEW t, Look(c, l, t), Alike(t)
      PROVE  AloneInv'
    <2>1. l \notin CheckPCs \cup CommitPCs \cup {"adopt"} /\ t.mode = "forward"
        BY <1>1, <1>3 DEF StagePCs, CheckPCs, CommitPCs, Alike
    <2>2. Undisturbed => FilesPart(l, t, leaf, staged)
        BY <1>0, <1>2, <1>3, <2>1, AlikeFiles
    <2>3. Undisturbed => RunningPart(l, t, leaf, active)
        BY <1>0, <1>2, <1>3, <2>1, AlikeRunning DEF Pending, RecommitPCs, StagePCs
    <2> QED
        BY <1>0, <1>3, <2>2, <2>3, LookAlone
<1>4. CASE StartStaging
    <2>1. ToStage(txn.goal, txn.from) \in SUBSET Leaves
        BY <1>1, StagedOf DEF Locals
    <2> QED
        BY <1>1, <1>3, <1>4, <2>1, TodoAlike DEF StartStaging, Identities, StagePCs
<1>5. CASE StageLeaf
    <2> DEFINE l == Least(txn.todo)
               rest == txn.todo \ {l}
               t == [txn EXCEPT !.todo = rest, !.journal = @ \cup {l}]
    <2>0. pc = "stage" /\ txn.todo # {}
        BY <1>5 DEF StageLeaf
    <2>2. /\ l \in txn.todo /\ l \in ToStage(txn.goal, txn.from) /\ rest \subseteq Leaves
        BY <1>1, <2>0, HasLeast DEF Sound, Locals
    <2>3. l \in Typed /\ l \in Leaves /\ txn.goal[l] \in Values /\ l \in DOMAIN txn.goal
        BY <1>1, <2>2, StagedOf DEF Locals
    <2>4. CASE Look(TRUE, "stage", [txn EXCEPT !.todo = rest])
        <3>1. Alike([txn EXCEPT !.todo = rest])
            BY <1>1, <2>2, TodoAlike
        <3> QED
            BY <1>3, <2>4, <3>1 DEF StagePCs
    <2>5. CASE Look(FALSE, "stage", txn)
        BY <1>1, <1>3, <2>5 DEF StagePCs
    <2>6. ASSUME NEW v \in Values, WriteLeaf(l, v), Advance("stage", t),
                 UNCHANGED <<states, staged, rogue, exits>>
          PROVE  AloneInv'
        <3> HIDE DEF l, rest
        <3>2. /\ t.journal = txn.journal \cup {l}
              /\ t.kind = txn.kind /\ t.goal = txn.goal /\ t.from = txn.from
              /\ t.selected = txn.selected /\ t.before = txn.before /\ t.phase = txn.phase
              /\ t.mode = txn.mode /\ t.asked = txn.asked
              /\ t.observed = txn.observed /\ t.began = txn.began
            BY <1>1, <2>3 DEF Locals
        <3> HIDE DEF t
        <3> SUFFICES ASSUME Undisturbed PROVE AloneInv'
            BY <2>6 DEF AloneInv, Undisturbed
        <3>3. Dir[l] \in Selected /\ \A m \in txn.journal : Dir[m] \in Selected
            BY <1>0, <1>1, <1>2, <2>2 DEF FilesPart
        <3>4. txn.journal \subseteq DOMAIN txn.goal
            BY <1>1 DEF Sound, StagingOf, ToStage
        <3>5. \A m \in t.journal : Dir[m] \in Selected /\ m \in DOMAIN txn.goal
            BY <2>3, <3>2, <3>3, <3>4
        <3>6. t.journal \in SUBSET Typed /\ txn.journal \subseteq t.journal /\ l \in Touched(t.journal)
            BY <1>1, <2>3, <3>2 DEF Locals, Touched
        <3> QED
            BY <2>0, <2>3, <2>6, <3>2, <3>5, <3>6, WriteAlone
    <2>7. CASE /\ \/ WriteLeaf(l, txn.goal[l])
                  \/ \E v \in Misstored \ {txn.goal[l]} : WriteLeaf(l, v)
               /\ Advance("stage", t)
               /\ UNCHANGED <<states, staged, rogue, exits>>
        <3>2. PICK v \in Values : WriteLeaf(l, v)
            BY <2>3, <2>7
        <3> QED
            BY <2>6, <2>7, <3>2
    <2> QED
        BY <1>5, <2>4, <2>5, <2>7 DEF StageLeaf
<1>6. CASE CaptureStaged
    <2> DEFINE t == [txn EXCEPT !.captured = leaf]
    <2>1. Look(TRUE, "compare", t)
        BY <1>6 DEF CaptureStaged
    <2>2. /\ t.kind = txn.kind /\ t.goal = txn.goal /\ t.from = txn.from
          /\ t.selected = txn.selected /\ t.before = txn.before /\ t.phase = txn.phase
          /\ t.mode = txn.mode /\ t.asked = txn.asked /\ t.journal = txn.journal
          /\ t.observed = txn.observed /\ t.began = txn.began
        BY <1>1 DEF Locals
    <2> HIDE DEF t
    <2>3. SelectedOf(t) = SelectedOf(txn)
        BY <2>2 DEF SelectedOf
    <2>4. Undisturbed => FilesPart("compare", t, leaf, staged)
        BY <1>0, <1>1, <1>2, <2>2, <2>3 DEF FilesPart, CheckPCs, CommitPCs
    <2>5. Undisturbed => RunningPart("compare", t, leaf, active)
        <3>1. Undisturbed =>
                /\ \A m \in Leaves : Dir[m] \notin SelectedOf(t) => active[m] = t.began.active[m]
                /\ t.kind = "goals" => \A m \in Leaves \ Goals : active[m] = t.began.active[m]
                /\ t.phase = "clean" =>
                    \A m \in DOMAIN t.asked \ Tuned : Dir[m] \in SelectedOf(t) => active[m] = t.asked[m]
            BY <1>0, <1>1, <1>2, <2>2, <2>3 DEF RunningPart, Pending, StagePCs
        <3> QED
            BY <1>1, <2>2, <3>1 DEF RunningPart, CheckPCs, CommitPCs
    <2> QED
        BY <1>0, <2>1, <2>4, <2>5, LookAlone
<1>7. CASE CompareTyped
    <2> DEFINE c == SameTyped(txn.goal, leaf)
    <2>1. Look(c, "values", txn) /\ c \in BOOLEAN
        BY <1>7 DEF CompareTyped, SameTyped
    <2>2. Undisturbed /\ c => FilesPart("values", txn, leaf, staged)
        BY <1>0, <1>2 DEF FilesPart, CheckPCs, CommitPCs, SameTyped
    <2>3. Undisturbed => RunningPart("values", txn, leaf, active)
        BY <1>0, <1>1, <1>2, AlikeRunning DEF CheckPCs, CommitPCs, Pending, StagePCs
    <2> QED
        BY <1>0, <2>1, <2>2, <2>3, LookAlone
<1>8. CASE ValuesMatch
    <2>1. pc = "values" /\ Look(MatchesExcept(txn.captured, {}), "commit_ids", txn)
          /\ MatchesExcept(txn.captured, {}) \in BOOLEAN
        BY <1>8 DEF ValuesMatch, MatchesExcept
    <2>2. Undisturbed => FilesPart("commit_ids", txn, leaf, staged)
        BY <1>0, <1>1, <1>2, <2>1, AlikeFiles DEF CheckPCs, CommitPCs
    <2>3. Undisturbed => RunningPart("commit_ids", txn, leaf, active)
        BY <1>0, <1>1, <1>2, <2>1, AlikeRunning DEF CheckPCs, CommitPCs, Pending
    <2> QED
        BY <1>0, <2>1, <2>2, <2>3, LookAlone
<1>9. CASE StartCommits
    <2> DEFINE t == [txn EXCEPT !.queue = txn.selected]
               l == IF txn.phase = "main" THEN "commit_id" ELSE "adopt"
    <2>1. pc = "commit_ids" /\ Look(Identities, l, t) /\ Identities \in BOOLEAN
        BY <1>9 DEF StartCommits, Identities
    <2>3. Alike(t) /\ t.queue = txn.selected
        BY <1>1, QueueAlike DEF Locals
    <2>4. t.mode = "forward" /\ t.phase = txn.phase /\ SelectedOf(t) = SelectedOf(txn)
        BY <1>1, <2>3 DEF Alike, SelectedOf
    <2>5. txn.phase = "main" \/ txn.phase = "clean"
        BY <1>1 DEF Locals
    <2> HIDE DEF t
    <2>6. Undisturbed => FilesPart(l, t, leaf, staged)
        BY <1>0, <1>2, <2>1, <2>3, <2>4, AlikeFiles DEF CheckPCs, CommitPCs
    <2>7. txn.phase = "main" => \A i \in SelectedOf(t) : Pending(l, t, i)
        BY <2>3, <2>4 DEF Pending, CommitPCs, SelectedOf
    <2>8. \A i : ~Pending(pc, txn, i)
        BY <2>1 DEF Pending, CommitPCs
    <2>9. Undisturbed => RunningPart(l, t, leaf, active)
        BY <1>0, <1>2, <2>3, <2>4, <2>5, <2>7, <2>8, AlikeRunning DEF CheckPCs, CommitPCs
    <2> QED
        BY <1>0, <2>1, <2>6, <2>9, LookAlone
<1> QED
    BY <1>1, <1>3, <1>4, <1>5, <1>6, <1>7, <1>8, <1>9
    DEF Stage, StagingDone, VerifyStagedIdentities, VerifyUnchanged, Identities, MatchesExcept, StagePCs

\* The first kdamond of the queue is committed.
LEMMA CommitAlone ==
    ASSUME SInv, AloneInv, pc = "commit", Undisturbed,
           CommitLeaves(Head(txn.queue), Committed(Head(txn.queue))),
           Advance("committed", [txn EXCEPT !.strayed = @ \/ thread[Head(txn.queue)] # states[Head(txn.queue)]]),
           UNCHANGED <<states, staged, budgets>>
    PROVE  AloneInv'
<1> DEFINE i == Head(txn.queue)
           t == [txn EXCEPT !.strayed = @ \/ thread[i] # states[i]]
<1>1. /\ txn \in Locals /\ Sound(pc, txn) /\ pc # "idle" /\ Selected = SelectedOf(txn)
      /\ FilesPart(pc, txn, leaf, staged) /\ RunningPart(pc, txn, leaf, active)
      /\ thread = states /\ DOMAIN txn.goal \subseteq Leaves
    BY LocalsAre DEF AloneInv
<1>2. i \in SelectedOf(txn) /\ i = txn.queue[1] /\ 1 \in DOMAIN txn.queue
    BY <1>1 DEF Sound, CommitPCs, Locals
<1>3. /\ t.kind = txn.kind /\ t.goal = txn.goal /\ t.from = txn.from
      /\ t.selected = txn.selected /\ t.before = txn.before /\ t.phase = txn.phase
      /\ t.mode = txn.mode /\ t.asked = txn.asked /\ t.journal = txn.journal
      /\ t.observed = txn.observed /\ t.began = txn.began /\ t.queue = txn.queue
    BY <1>1 DEF Locals
<1>4. pc' = "committed" /\ txn' = t
    BY DEF Advance
<1>5. /\ UNCHANGED <<leaf, thread>>
      /\ active' = [m \in Leaves |-> IF m \in Committed(i) THEN leaf[m] ELSE active[m]]
    BY DEF CommitLeaves
<1> HIDE DEF i, t
<1>6. SelectedOf(t) = SelectedOf(txn)
    BY <1>3 DEF SelectedOf
<1>7. \A m \in Leaves : /\ Dir[m] # i => active'[m] = active[m]
                        /\ txn.kind = "goals" /\ m \notin Goals => active'[m] = active[m]
                        /\ Dir[m] = i /\ (txn.kind = "goals" => m \in Goals) => active'[m] = leaf[m]
    BY <1>1, <1>5 DEF Committed, LeavesOf, Locals
<1>8. FilesPart("committed", t, leaf, staged)
    BY <1>1, <1>3, <1>6 DEF FilesPart, CheckPCs, CommitPCs
<1>9. \A k \in K : Pending("commit", txn, k) => k = i \/ Pending("committed", t, k)
    BY <1>2, <1>3 DEF Pending, CommitPCs
<1>10. ASSUME t.mode = "forward", NEW m \in DOMAIN t.asked \ Tuned,
              Dir[m] \in SelectedOf(t), ~Pending("committed", t, Dir[m])
       PROVE  active'[m] = t.asked[m]
    <2>1. t.phase = "main" /\ t.asked = t.goal /\ DOMAIN t.goal \subseteq Leaves
          /\ (t.kind = "goals" => DOMAIN t.goal \subseteq Goals)
        BY <1>1, <1>3, <1>10 DEF Sound, CommitPCs
    <2>2. m \in Leaves /\ (t.kind = "goals" => m \in Goals)
        BY <1>10, <2>1
    <2>3. CASE Dir[m] = i
        <3>1. leaf[m] = t.goal[m]
            BY <1>1, <1>3, <1>10, <2>1 DEF FilesPart, CommitPCs
        <3> QED
            BY <1>3, <1>7, <2>1, <2>2, <2>3, <3>1
    <2>4. CASE Dir[m] # i
        <3>1. ~Pending("commit", txn, Dir[m])
            BY <1>9, <1>10, <2>2, <2>4
        <3>2. active[m] = txn.asked[m]
            BY <1>1, <1>3, <1>6, <1>10, <3>1 DEF RunningPart, CommitPCs
        <3> QED
            BY <1>3, <1>7, <2>2, <2>4, <3>2
    <2> QED
        BY <2>3, <2>4
<1>11. ASSUME t.mode # "forward", NEW m \in Leaves \ Tuned, Dir[m] \in SelectedOf(t),
              ~Pending("committed", t, Dir[m]), t.kind = "goals" => m \in Goals
       PROVE  active'[m] = leaf[m]
    <2>3. CASE Dir[m] = i
        BY <1>3, <1>7, <1>11, <2>3
    <2>4. CASE Dir[m] # i
        <3>1. ~Pending("commit", txn, Dir[m])
            BY <1>9, <1>11, <2>4
        <3>2. active[m] = leaf[m]
            BY <1>1, <1>3, <1>6, <1>11, <3>1 DEF RunningPart, CommitPCs, RecommitPCs
        <3> QED
            BY <1>7, <1>11, <2>4, <3>2
    <2> QED
        BY <2>3, <2>4
<1>12. /\ \A m \in Leaves : Dir[m] \notin SelectedOf(t) => active'[m] = t.began.active[m]
       /\ t.kind = "goals" => \A m \in Leaves \ Goals : active'[m] = t.began.active[m]
    BY <1>1, <1>2, <1>3, <1>6, <1>7 DEF RunningPart
<1>13. RunningPart("committed", t, leaf, active')
    <2>1. "committed" \notin CheckPCs
        BY DEF CheckPCs
    <2> QED
        BY <1>10, <1>11, <1>12, <2>1 DEF RunningPart
<1> QED
    BY <1>1, <1>4, <1>5, <1>8, <1>13 DEF AloneInv

LEMMA CommitLoopAlone == ASSUME SInv, AloneInv, CommitLoop PROVE AloneInv'
<1>0. pc \in CommitPCs \cup {"adopt"} /\ pc # "idle" /\ pc \notin CheckPCs
    BY DEF CommitLoop, VerifyBeforeCommit, Commit, VerifyAfterCommit, Adopt, CommitPCs, CheckPCs
<1>1. /\ txn \in Locals /\ Sound(pc, txn) /\ Alike(txn) /\ leaf \in Contents
      /\ Selected = SelectedOf(txn)
    BY <1>0, LocalsAre
<1>2. Undisturbed => FilesPart(pc, txn, leaf, staged) /\ RunningPart(pc, txn, leaf, active)
                     /\ thread = states
    BY <1>0 DEF AloneInv
<1>3. CASE VerifyBeforeCommit
    <2> DEFINE c == Identity(Head(txn.queue))
    <2>1. pc = "commit_id" /\ Look(c, "commit", txn) /\ c \in BOOLEAN
        BY <1>3 DEF VerifyBeforeCommit, Identity
    <2>2. Undisturbed => FilesPart("commit", txn, leaf, staged)
        BY <1>0, <1>1, <1>2, <2>1, AlikeFiles DEF CheckPCs, CommitPCs
    <2>3. Undisturbed => RunningPart("commit", txn, leaf, active)
        BY <1>0, <1>1, <1>2, <2>1, AlikeRunning DEF CheckPCs, CommitPCs, Pending, RecommitPCs
    <2> HIDE DEF c
    <2> QED
        BY <1>0, <2>1, <2>2, <2>3, LookAlone
<1>4. CASE Commit
    <2>1. CASE Look(FALSE, "committed", txn)
        BY <1>0, <2>1, LookAlone
    <2>2. CASE /\ CommitLeaves(Head(txn.queue), Committed(Head(txn.queue)))
               /\ Advance("committed", [txn EXCEPT !.strayed = @ \/ thread[Head(txn.queue)] # states[Head(txn.queue)]])
               /\ UNCHANGED <<states, staged, budgets>>
        <3>1. CASE Undisturbed
            BY <1>4, <2>2, <3>1, CommitAlone DEF Commit
        <3>2. CASE ~Undisturbed
            BY <2>2, <3>2 DEF AloneInv, Undisturbed, budgets
        <3> QED
            BY <3>1, <3>2
    <2> QED
        BY <1>4, <2>1, <2>2 DEF Commit
<1>5. CASE VerifyAfterCommit
    <2> DEFINE cleaned == Cleaned(txn.goal, Selected)
               t == [txn EXCEPT !.queue = <<>>, !.phase = "clean",
                                !.from = txn.goal, !.goal = cleaned]
    <2>0. pc = "committed" /\ UNCHANGED <<kernelVars, states, staged, budgets>>
        BY <1>5 DEF VerifyAfterCommit
    <2>00. txn.queue \in Seq(K) /\ txn.queue # <<>>
        BY <1>1, <2>0 DEF Locals, Sound, CommitPCs
    <2>1. CASE Fail
        BY <1>0, <2>0, <2>1, FailAlone DEF budgets
    <2>2. CASE Len(txn.queue) > 1 /\ Advance("commit_id", [txn EXCEPT !.queue = Tail(@)])
        <3> DEFINE u == [txn EXCEPT !.queue = Tail(txn.queue)]
        <3>1. Tail(txn.queue) \in Seq(K)
            BY <2>00
        <3>2. Alike(u) /\ u.queue = Tail(txn.queue)
            BY <1>1, <3>1, QueueAlike
        <3> HIDE DEF u
        <3>3. \A i : Pending("committed", txn, i) => Pending("commit_id", u, i)
            <4> SUFFICES ASSUME NEW i, NEW k \in DOMAIN txn.queue, txn.queue[k] = i, k # 1
                         PROVE  \E j \in DOMAIN u.queue : u.queue[j] = i
                BY DEF Pending, CommitPCs
            <4>1. k - 1 \in DOMAIN Tail(txn.queue) /\ Tail(txn.queue)[k - 1] = txn.queue[k]
                BY <2>00
            <4> QED
                BY <3>2, <4>1
        <3>4. Undisturbed => FilesPart("commit_id", u, leaf, staged)
            BY <1>0, <1>1, <1>2, <2>0, <3>2, AlikeFiles DEF CheckPCs, CommitPCs
        <3>5. Undisturbed => RunningPart("commit_id", u, leaf, active)
            BY <1>0, <1>1, <1>2, <2>0, <3>2, <3>3, AlikeRunning DEF CheckPCs, CommitPCs, RecommitPCs
        <3> QED
            BY <1>2, <2>0, <2>2, <3>4, <3>5
            DEF u, Advance, AloneInv, Undisturbed, kernelVars, budgets
    <2>9. ASSUME ~(Len(txn.queue) > 1) PROVE \A i : ~Pending("committed", txn, i)
        <3>1. \A k \in DOMAIN txn.queue : k = 1
            BY <2>00, <2>9
        <3> QED
            BY <3>1 DEF Pending
    <2>3. CASE ~(Len(txn.queue) > 1) /\ txn.mode = "forward" /\ txn.kind = "update" /\ Advance("stage_ids", t)
        <3>1. txn.phase = "main" /\ DOMAIN txn.goal = Typed
            BY <1>1, <2>0, <2>3 DEF Sound, CommitPCs
        <3>2. DOMAIN cleaned = Typed /\ \A m \in Typed : Dir[m] \notin Selected => cleaned[m] = txn.goal[m]
            BY <3>1 DEF Cleaned
        <3> HIDE DEF cleaned
        <3>3. /\ t.kind = txn.kind /\ t.goal = cleaned /\ t.from = txn.goal
              /\ t.selected = txn.selected /\ t.before = txn.before /\ t.phase = "clean"
              /\ t.mode = txn.mode /\ t.asked = txn.asked /\ t.journal = txn.journal
              /\ t.observed = txn.observed /\ t.began = txn.began
            BY <1>1 DEF Locals
        <3> HIDE DEF t
        <3>4. SelectedOf(t) = SelectedOf(txn)
            BY <3>3 DEF SelectedOf
        <3>5. \A m \in ToStage(t.goal, t.from) : Dir[m] \in SelectedOf(t)
            BY <1>1, <3>2, <3>3, <3>4 DEF ToStage
        <3>6. Undisturbed => FilesPart("stage_ids", t, leaf, staged)
            BY <1>0, <1>2, <2>0, <2>3, <3>1, <3>2, <3>3, <3>4, <3>5 DEF FilesPart, CheckPCs, CommitPCs
        <3>7. Undisturbed => RunningPart("stage_ids", t, leaf, active)
            BY <1>0, <1>2, <2>0, <2>3, <2>9, <3>3, <3>4
            DEF RunningPart, CheckPCs, CommitPCs
        <3> QED
            BY <1>2, <2>0, <2>3, <3>6, <3>7
            DEF Advance, AloneInv, Undisturbed, kernelVars, budgets
    <2>4. ASSUME ~(Len(txn.queue) > 1), txn.mode # "written",
                 Advance(IF txn.mode = "forward" THEN "adopt"
                         ELSE IF txn.kind = "update" THEN "recapture"
                         ELSE "recommitted_match", [txn EXCEPT !.queue = <<>>])
          PROVE  AloneInv'
        <3> DEFINE u == [txn EXCEPT !.queue = <<>>]
                   l == IF txn.mode = "forward" THEN "adopt"
                        ELSE IF txn.kind = "update" THEN "recapture" ELSE "recommitted_match"
        <3>1. <<>> \in Seq(K)
            OBVIOUS
        <3>2. Alike(u) /\ u.queue = <<>>
            BY <1>1, <3>1, QueueAlike
        <3>3. l \notin CheckPCs /\ txn.mode \in {"forward", "rollback", "written"}
            BY <1>1 DEF CheckPCs, Locals
        <3>4. u.mode = txn.mode /\ u.kind = txn.kind
            BY <3>2 DEF Alike
        <3> HIDE DEF u
        <3>5. Undisturbed => FilesPart(l, u, leaf, staged)
            BY <1>0, <1>2, <2>0, <3>2, <3>3, <3>4, AlikeFiles DEF CommitPCs
        <3>6. Undisturbed => RunningPart(l, u, leaf, active)
            BY <1>0, <1>2, <2>0, <2>4, <2>9, <3>2, <3>3, <3>4, AlikeRunning DEF CommitPCs, RecommitPCs
        <3> QED
            BY <1>2, <2>0, <2>4, <3>5, <3>6
            DEF u, Advance, AloneInv, Undisturbed, kernelVars, budgets
    <2> QED
        BY <1>5, <2>1, <2>2, <2>3, <2>4 DEF VerifyAfterCommit
<1>6. CASE Adopt
    <2>0. UNCHANGED <<kernelVars, states, budgets>>
        BY <1>6 DEF Adopt
    <2>1. CASE Fail /\ UNCHANGED staged
        BY <1>0, <2>0, <2>1, FailAlone DEF budgets
    <2>2. CASE pc' = "idle"
        BY <2>0, <2>2 DEF AloneInv, Undisturbed, kernelVars, budgets
    <2> QED
        BY <1>6, <2>1, <2>2 DEF Adopt, Return
<1> QED
    BY <1>3, <1>4, <1>5, <1>6 DEF CommitLoop

LEMMA RestoreAlone == ASSUME SInv, AloneInv, Restore PROVE AloneInv'
<1>0. pc \in RestorePCs /\ pc # "idle" /\ pc \notin CheckPCs
    BY DEF Restore, VerifyBeforeRestore, VerifyBoundary, RestoreLeaf, RestoreDone,
        VerifyRestoredIdentities, VerifyRestored, Recapture, VerifyRecommitted, RestorePCs, CheckPCs
<1>1. /\ txn \in Locals /\ Sound(pc, txn) /\ Alike(txn) /\ leaf \in Contents /\ Shaped(leaf)
      /\ Selected = SelectedOf(txn) /\ txn.mode # "forward" /\ ShapedLocals(txn)
    BY <1>0, LocalsAre DEF Sound
<1>2. Undisturbed => FilesPart(pc, txn, leaf, staged) /\ RunningPart(pc, txn, leaf, active)
                     /\ thread = states
    BY <1>0 DEF AloneInv
<1>3. ASSUME NEW c \in BOOLEAN, NEW l \in {"boundary", "restore"}, NEW t, Look(c, l, t), Alike(t)
      PROVE  AloneInv'
    <2>1. l \notin CheckPCs \cup CommitPCs \cup RecommitPCs /\ t.mode # "forward"
        BY <1>1, <1>3 DEF CheckPCs, CommitPCs, RecommitPCs, Alike
    <2>2. Undisturbed => FilesPart(l, t, leaf, staged)
        BY <1>0, <1>2, <1>3, <2>1, AlikeFiles
    <2>3. CASE \A i : ~Pending(pc, txn, i)
        <3>1. Undisturbed => RunningPart(l, t, leaf, active)
            BY <1>0, <1>2, <1>3, <2>1, <2>3, AlikeRunning
        <3> QED
            BY <1>0, <1>3, <2>2, <3>1, LookAlone
    <2>4. CASE ~(\A i : ~Pending(pc, txn, i))
        <3>1. RunningPart(pc, txn, leaf, active) => RunningPart(l, t, leaf, active)
            <4>1. SelectedOf(t) = SelectedOf(txn) /\ t.began = txn.began /\ t.kind = txn.kind
                BY <1>3 DEF Alike, SelectedOf
            <4> QED
                BY <2>1, <4>1 DEF RunningPart
        <3> QED
            BY <1>0, <1>2, <1>3, <2>2, <3>1, LookAlone
    <2> QED
        BY <2>3, <2>4
<1>4. CASE VerifyBoundary
    <2> DEFINE S == ToRestore(txn.before, AffectedBy(txn.before, txn.journal))
    <2>1. PICK m \in {"rollback", "written"} : pc' = "restore" /\ txn' = [txn EXCEPT !.todo = S, !.mode = m]
        BY <1>4 DEF VerifyBoundary, Advance
    <2>2. pc = "boundary" /\ UNCHANGED <<kernelVars, states, staged, rogue, exits>>
        BY <1>4 DEF VerifyBoundary
    <2> HIDE DEF S
    <2> DEFINE t == [txn EXCEPT !.todo = S, !.mode = m]
    <2>3. /\ t.kind = txn.kind /\ t.goal = txn.goal /\ t.from = txn.from
          /\ t.selected = txn.selected /\ t.before = txn.before /\ t.phase = txn.phase
          /\ t.mode = m /\ t.asked = txn.asked /\ t.journal = txn.journal
          /\ t.observed = txn.observed /\ t.began = txn.began
        BY <1>1 DEF Locals
    <2> HIDE DEF t
    <2>4. SelectedOf(t) = SelectedOf(txn)
        BY <2>3 DEF SelectedOf
    <2>5. Undisturbed => FilesPart("restore", t, leaf, staged)
        BY <1>0, <1>2, <2>1, <2>2, <2>3, <2>4 DEF FilesPart, CheckPCs, CommitPCs
    <2>6. Undisturbed => RunningPart("restore", t, leaf, active)
        <3>1. Undisturbed =>
                /\ \A k \in Leaves : Dir[k] \notin SelectedOf(t) => active[k] = t.began.active[k]
                /\ t.kind = "goals" => \A k \in Leaves \ Goals : active[k] = t.began.active[k]
            BY <1>2, <2>3, <2>4 DEF RunningPart
        <3> QED
            BY <2>1, <2>3, <3>1 DEF RunningPart, CheckPCs, RecommitPCs, CommitPCs
    <2> QED
        BY <1>2, <2>1, <2>2, <2>5, <2>6 DEF t, AloneInv, Undisturbed, kernelVars
<1>5. CASE RestoreLeaf
    <2> DEFINE l == Least(txn.todo)
               t == [txn EXCEPT !.todo = txn.todo \ {l}]
    <2>0. pc = "restore" /\ txn.todo # {}
        BY <1>5 DEF RestoreLeaf
    <2>1. txn.before \in Contents /\ txn.journal \in SUBSET Typed
        BY <1>1, <2>0 DEF Sound, Locals
    <2>2. /\ l \in txn.todo /\ txn.todo \ {l} \in SUBSET Leaves
          /\ l \in ToRestore(txn.before, AffectedBy(txn.before, txn.journal))
        BY <1>1, <2>0, HasLeast DEF Sound, Locals
    <2>3. l \in Leaves /\ txn.before[l] \in Values /\ l \in Touched(txn.journal)
        BY <2>1, <2>2, RestoredOf DEF Touched
    <2>4. Alike(t)
        BY <1>1, <2>2, TodoAlike
    <2>5. ASSUME NEW c \in BOOLEAN, Look(c, "restore", t) PROVE AloneInv'
        BY <1>3, <2>4, <2>5
    <2>6. CASE /\ WriteLeaf(l, txn.before[l]) /\ Advance("restore", t)
               /\ UNCHANGED <<states, staged, budgets>>
        <3> SUFFICES ASSUME Undisturbed PROVE AloneInv'
            BY <2>6 DEF AloneInv, Undisturbed, budgets
        <3>1. \A m \in txn.journal : Dir[m] \in Selected
            BY <1>1, <1>2 DEF FilesPart
        <3>2. txn.journal \subseteq DOMAIN txn.goal
            BY <1>1 DEF Sound, StagingOf, ToStage
        <3> HIDE DEF t, l
        <3>3. /\ t.kind = txn.kind /\ t.goal = txn.goal /\ t.from = txn.from
              /\ t.selected = txn.selected /\ t.before = txn.before /\ t.phase = txn.phase
              /\ t.mode = txn.mode /\ t.asked = txn.asked /\ t.observed = txn.observed
              /\ t.began = txn.began /\ t.journal = txn.journal
            BY <2>4 DEF Alike
        <3> QED
            BY <2>0, <2>1, <2>3, <2>6, <3>1, <3>2, <3>3, WriteAlone DEF budgets
    <2> QED
        BY <1>5, <2>5, <2>6 DEF RestoreLeaf
<1>6. CASE RestoreDone
    <2> DEFINE t == [txn EXCEPT !.queue = txn.selected]
               l == IF txn.mode = "rollback" /\ txn.kind = "update"
                    THEN "restored_ids" ELSE "commit_id"
               c == RestoredMatches(txn.before, AffectedBy(txn.before, txn.journal))
    <2>1. pc = "restore" /\ Look(c, l, t) /\ c \in BOOLEAN
        BY <1>6 DEF RestoreDone, RestoredMatches
    <2>3. Alike(t) /\ t.queue = txn.selected
        BY <1>1, QueueAlike DEF Locals
    <2>4. t.mode # "forward" /\ l \in {"restored_ids", "commit_id"} /\ l \notin CheckPCs
        BY <1>1, <2>3 DEF Alike, CheckPCs
    <2> HIDE DEF t, l, c
    <2>5. Undisturbed => FilesPart(l, t, leaf, staged)
        BY <1>0, <1>2, <2>1, <2>3, <2>4, AlikeFiles
    <2>6. \A i \in SelectedOf(t) : Pending(l, t, i)
        <3>1. SelectedOf(t) = SelectedOf(txn)
            BY <2>3 DEF Alike, SelectedOf
        <3> QED
            BY <2>3, <2>4, <3>1 DEF Pending, CommitPCs, SelectedOf
    <2>7. Undisturbed => RunningPart(l, t, leaf, active)
        BY <1>0, <1>2, <2>3, <2>4, <2>6, AlikeRunning
    <2> QED
        BY <1>0, <2>1, <2>5, <2>7, LookAlone
<1>7. ASSUME NEW c \in BOOLEAN, NEW l, Look(c, l, txn),
             \/ pc = "restored_ids" /\ l = "restored_match"
             \/ pc = "restored_match" /\ l = "commit_id"
      PROVE  AloneInv'
    <2>1. l \notin CheckPCs
        BY <1>7 DEF CheckPCs
    <2>2. Undisturbed => FilesPart(l, txn, leaf, staged)
        BY <1>0, <1>1, <1>2, <1>7, <2>1, AlikeFiles
    <2>3. \A i : Pending(pc, txn, i) => Pending(l, txn, i)
        BY <1>7 DEF Pending, CommitPCs
    <2>4. Undisturbed => RunningPart(l, txn, leaf, active)
        BY <1>0, <1>1, <1>2, <1>7, <2>1, <2>3, AlikeRunning DEF RecommitPCs
    <2> QED
        BY <1>0, <1>7, <2>2, <2>4, LookAlone
<1>8. CASE Recapture
    <2> DEFINE t == [txn EXCEPT !.captured = leaf]
               l == IF txn.kind = "update" THEN "recommitted_match" ELSE "adopt"
    <2>1. pc = "recapture" /\ Look(TRUE, l, t)
        BY <1>8 DEF Recapture
    <2>2. /\ t.kind = txn.kind /\ t.goal = txn.goal /\ t.from = txn.from
          /\ t.selected = txn.selected /\ t.before = txn.before /\ t.phase = txn.phase
          /\ t.mode = txn.mode /\ t.asked = txn.asked /\ t.journal = txn.journal
          /\ t.observed = txn.observed /\ t.began = txn.began
        BY <1>1 DEF Locals
    <2> HIDE DEF t
    <2>3. SelectedOf(t) = SelectedOf(txn) /\ l \notin CheckPCs /\ txn.kind \in {"update", "goals"}
        BY <1>1, <2>2 DEF SelectedOf, CheckPCs, Locals
    <2>4. Undisturbed => FilesPart(l, t, leaf, staged)
        BY <1>0, <1>1, <1>2, <2>1, <2>2, <2>3 DEF FilesPart, CheckPCs
    <2>5. Undisturbed => RunningPart(l, t, leaf, active)
        <3>1. \A i : ~Pending(pc, txn, i)
            BY <2>1 DEF Pending, CommitPCs
        <3>2. Undisturbed =>
                /\ \A m \in Leaves : Dir[m] \notin SelectedOf(t) => active[m] = t.began.active[m]
                /\ t.kind = "goals" => \A m \in Leaves \ Goals : active[m] = t.began.active[m]
                /\ \A m \in Leaves \ Tuned :
                        Dir[m] \in SelectedOf(t) /\ (t.kind = "goals" => m \in Goals)
                        => active[m] = leaf[m]
            BY <1>1, <1>2, <2>1, <2>2, <2>3, <3>1 DEF RunningPart, RecommitPCs
        <3> QED
            BY <1>1, <2>2, <2>3, <3>2 DEF RunningPart
    <2> QED
        BY <1>0, <2>1, <2>4, <2>5, LookAlone
<1>9. CASE VerifyRecommitted
    <2> DEFINE l == IF txn.kind = "update" THEN "adopt" ELSE "recapture"
               c == MatchesExcept(txn.before, Tuned)
    <2>1. pc = "recommitted_match" /\ Look(c, l, txn) /\ c \in BOOLEAN
        BY <1>9 DEF VerifyRecommitted, MatchesExcept
    <2>2. l \notin CheckPCs /\ txn.before \in Contents
        BY <1>1, <2>1 DEF CheckPCs, Sound
    <2>3. c => Same(leaf, txn.before)
        BY <1>1, <2>2, MatchedSame DEF ShapedLocals
    <2>4. Undisturbed /\ c => FilesPart(l, txn, leaf, staged)
        BY <1>0, <1>1, <1>2, <2>1, <2>2, <2>3 DEF FilesPart, CheckPCs
    <2>5. \A i : ~Pending(pc, txn, i)
        BY <2>1 DEF Pending, CommitPCs
    <2>6. Undisturbed => RunningPart(l, txn, leaf, active)
        BY <1>0, <1>1, <1>2, <2>1, <2>2, <2>5, AlikeRunning DEF RecommitPCs
    <2> HIDE DEF c, l
    <2> QED
        BY <1>0, <2>1, <2>4, <2>6, LookAlone
<1> QED
    BY <1>1, <1>3, <1>4, <1>5, <1>6, <1>7, <1>8, <1>9
    DEF Restore, VerifyBeforeRestore, VerifyRestoredIdentities, VerifyRestored, Identities,
        MatchesExcept

\* A step that only moves the loop of a call.
LEMMA FaultyAlone == ASSUME SInv, AloneInv, Faulty PROVE AloneInv'
<1>1. CASE IoError
    BY <1>1, FailAlone DEF IoError
<1>2. CASE TransientBusy
    <2>0. UNCHANGED <<kernelVars, states, staged, rogue, exits>> /\ pc # "idle" /\ pc \notin CheckPCs
        BY <1>2 DEF TransientBusy, CheckPCs
    <2>1. /\ txn \in Locals /\ Sound(pc, txn) /\ Alike(txn)
        BY <2>0, LocalsAre
    <2>2. Undisturbed => FilesPart(pc, txn, leaf, staged) /\ RunningPart(pc, txn, leaf, active)
                         /\ thread = states
        BY <2>0 DEF AloneInv
    <2>3. PICK S \in SUBSET Leaves : txn' = [txn EXCEPT !.todo = S]
        <3>1. pc = "restore" => ToRestore(txn.before, AffectedBy(txn.before, txn.journal)) \subseteq Leaves
            BY <2>1, RestoredOf DEF Sound, Locals
        <3>2. {} \in SUBSET Leaves
            OBVIOUS
        <3> QED
            BY <1>2, <3>1, <3>2 DEF TransientBusy, Advance
    <2> DEFINE t == [txn EXCEPT !.todo = S]
    <2>4. Alike(t) /\ t.queue = txn.queue
        BY <2>1, TodoAlike
    <2> HIDE DEF t
    <2>5. \/ pc = "stage" /\ pc' = "stage_ids"
          \/ pc = "restore" /\ pc' = "restore"
        BY <1>2 DEF TransientBusy, Advance
    <2>6. pc' \notin CheckPCs \cup CommitPCs \cup RecommitPCs
        BY <2>5 DEF CheckPCs, CommitPCs, RecommitPCs
    <2>7. Undisturbed => FilesPart(pc', t, leaf, staged)
        BY <2>0, <2>2, <2>4, <2>5, <2>6, AlikeFiles
    <2>8. \A i : ~Pending(pc, txn, i)
        BY <2>5 DEF Pending, CommitPCs
    <2>9. Undisturbed => RunningPart(pc', t, leaf, active)
        BY <2>2, <2>4, <2>6, <2>8, AlikeRunning DEF RecommitPCs
    <2> QED
        BY <2>0, <2>2, <2>3, <2>7, <2>9 DEF t, AloneInv, Undisturbed, kernelVars
<1> QED
    BY <1>1, <1>2 DEF Faulty

\* The kernel moves a tuned interval, and no other file.
LEMMA Tunes ==
    ASSUME leaf \in Contents, KernelTunes
    PROVE  /\ \A m \in Leaves \ Tuned : leaf'[m] = leaf[m]
           /\ \A m \in Leaves : leaf[m] # Absent <=> leaf'[m] # Absent
           /\ UNCHANGED <<active, thread, nextPid, states, staged, pc, txn, result, calls, rogue, faults, exits>>
           /\ tunes' = tunes + 1
<1>1. PICK l \in Tuned, v \in TunedValues : TuneLeaf(l, v)
    BY DEF KernelTunes
<1>2. l \notin Counts /\ v # Absent
    OBVIOUS
<1>3. leaf' = Written(l, v) /\ leaf[l] # Absent /\ UNCHANGED <<active, thread, nextPid>>
    BY <1>1 DEF TuneLeaf, WriteLeaf, Exists
<1>4. \A m \in Leaves : m # l => leaf'[m] = leaf[m]
    BY <1>2, <1>3 DEF Written
<1>5. leaf'[l] = v
    BY <1>3 DEF Written
<1> QED
    BY <1>2, <1>3, <1>4, <1>5 DEF KernelTunes

LEMMA EnvironmentAlone == ASSUME SInv, AloneInv, Environment PROVE AloneInv'
<1> SUFFICES ASSUME Undisturbed' PROVE AloneInv'
    BY DEF AloneInv
<1>0. rogue \in Nat /\ exits \in Nat
    BY DEF SInv, IInv, TypeOK
<1>1. KernelTunes
    BY <1>0 DEF Environment, KdamondExits, RogueActs, Undisturbed
<1>2. leaf \in Contents
    BY DEF SInv, IInv, TypeOK
<1>3. /\ \A m \in Leaves \ Tuned : leaf'[m] = leaf[m]
      /\ \A m \in Leaves : leaf[m] # Absent <=> leaf'[m] # Absent
      /\ UNCHANGED <<active, thread, states, staged, pc, txn, rogue, exits>>
    BY <1>1, <1>2, Tunes
<1>4. Undisturbed
    BY <1>3 DEF Undisturbed
<1>5. CASE pc = "idle"
    BY <1>3, <1>4, <1>5 DEF AloneInv
<1>6. CASE pc # "idle"
    <2>1. FilesPart(pc, txn, leaf, staged) /\ RunningPart(pc, txn, leaf, active)
          /\ DOMAIN txn.goal \subseteq Leaves
        BY <1>4, <1>6, LocalsAre DEF AloneInv
    <2>2. FilesPart(pc, txn, leaf', staged)
        BY <1>3, <2>1 DEF FilesPart, Same
    <2>3. RunningPart(pc, txn, leaf', active)
        BY <1>3, <2>1 DEF RunningPart
    <2> QED
        BY <1>3, <1>4, <2>2, <2>3 DEF AloneInv
<1> QED
    BY <1>5, <1>6

LEMMA AloneInvariance == Spec => []AInv
<1>1. Init => AInv
    BY InitIInv, InitShape, InitAlone DEF AInv, SInv
<1>2. ASSUME AInv, [Next]_vars PROVE AInv'
    <2>1. ASSUME UNCHANGED vars PROVE AloneInv'
        BY <1>2, <2>1 DEF vars, kernelVars, budgets, AInv, AloneInv, Undisturbed
    <2>2. AloneInv'
        BY <1>2, <2>1, CallAlone, PrepareAlone, StageAlone, CommitLoopAlone, RestoreAlone, FaultyAlone,
           EnvironmentAlone DEF AInv, Next, Proceed
    <2>3. IInv /\ SInv
        BY <1>2 DEF AInv, SInv
    <2>4. IInv' /\ ShapeInv'
        BY <1>2, <2>3, NextKeeps, ShapeStep
    <2> QED
        BY <2>2, <2>4 DEF AInv, SInv
<1> QED
    BY <1>1, <1>2, PTL DEF Spec

-----------------------------------------------------------------------------
(* A call in which nothing fails                                           *)

\* Requested as it was observed, in a directory that is not rebuilt.
Settled(t) ==
    {m \in DOMAIN t.goal \ Tuned : /\ t.goal[m] # Absent /\ t.goal[m] = t.from[m]
                                   /\ ~Resized(t.goal, t.from, m)}

\* A staging that nothing disturbs does not fail.
PlainPart(l, t, f) ==
    l \notin CheckPCs =>
        /\ t.mode = "forward"
        /\ l = "stage_ids" => \A m \in DOMAIN t.goal \ Tuned : f[m] = t.from[m]
        /\ l = "stage" =>
                \A p \in ToStage(t.goal, t.from) \ t.todo :
                    (\A q \in t.todo : p < q) /\ (p \notin Tuned => f[p] = t.goal[p])
        /\ l \in {"stage_ids", "stage"} => \A m \in Settled(t) : f[m] = t.goal[m]
        /\ t.kind = "goals" /\ l \in {"stage_ids", "stage", "staged_ids", "unchanged"} =>
                t.journal \cap Counts \cap Settled(t) = {}
        /\ l \in {"staged_ids", "unchanged", "snapshot", "compare"} =>
                \A m \in DOMAIN t.goal \ Tuned : f[m] = t.goal[m]
        /\ l \in {"compare", "values"} => t.captured = f
        /\ l \in CommitPCs \cup {"commit_ids", "adopt"} => Same(f, t.captured)

\* An undoing that nothing disturbs does not fail.
UndonePart(l, t, f) ==
    t.mode # "forward" =>
        /\ t.mode = "rollback"
        /\ l = "restore" =>
                \A p \in ToRestore(t.before, AffectedBy(t.before, t.journal)) \ t.todo :
                    (\A q \in t.todo : p < q) /\ f[p] = t.before[p]
        /\ l \in CommitPCs \cup {"restored_ids", "restored_match", "recapture",
                                 "recommitted_match", "adopt"} =>
                Same(f, t.before)
        /\ l = "adopt" \/ (l = "recommitted_match" /\ t.kind = "update") => Same(f, t.captured)

CalmInv ==
    Undisturbed /\ pc # "idle" =>
        /\ faults + tunes = 0 => PlainPart(pc, txn, leaf)
        /\ faults + tunes <= 1 => UndonePart(pc, txn, leaf)

CInv == AInv /\ CalmInv

\* What an undisturbed call has of its files.
LEMMA AloneFacts ==
    ASSUME AInv, Undisturbed, pc # "idle", pc \notin CheckPCs
    PROVE  /\ thread = states /\ Identities
           /\ \A i \in Selected : Identity(i) /\ On(i)
           /\ \A m \in Leaves \ Tuned : m \notin Touched(txn.journal) => leaf[m] = txn.before[m]
           /\ Same(txn.before, staged) /\ Same(txn.before, txn.began.leaf)
           /\ \A m \in DOMAIN txn.goal : Above(m) \cap DOMAIN txn.goal = {} => leaf[m] # Absent
           /\ txn.before \in Contents /\ Shaped(txn.before) /\ txn.journal \in SUBSET Typed
           /\ Shaped(txn.goal) /\ txn.journal \subseteq DOMAIN txn.goal
<1>0. SInv /\ AloneInv
    BY DEF AInv
<1>1. FilesPart(pc, txn, leaf, staged) /\ thread = states
    BY <1>0 DEF AloneInv
<1>2. /\ txn \in Locals /\ Sound(pc, txn) /\ ShapedLocals(txn) /\ Selected \subseteq K
    BY <1>0, LocalsAre
<1>3. \A i \in Selected : states[i] # 0
    BY <1>0 DEF SInv, IInv, StrayVisible
<1>4. Same(txn.before, txn.began.leaf) /\ Same(txn.began.leaf, staged)
    BY <1>1 DEF FilesPart, CheckPCs
<1>5. \A m \in Leaves \ Tuned : m \notin Touched(txn.journal) => leaf[m] = txn.before[m]
    BY <1>1, <1>4 DEF FilesPart, Same
<1>6. Same(txn.before, staged)
    BY <1>4 DEF Same
<1>7. \A m \in DOMAIN txn.goal : Above(m) \cap DOMAIN txn.goal = {} => leaf[m] # Absent
    BY <1>1 DEF FilesPart, CheckPCs
<1>8. txn.before \in Contents /\ Shaped(txn.before) /\ txn.journal \in SUBSET Typed /\ Shaped(txn.goal)
    BY <1>2 DEF Sound, CheckPCs, ShapedLocals, Locals
<1>9. txn.journal \subseteq DOMAIN txn.goal
    BY <1>2 DEF Sound, StagingOf, ToStage
<1>10. Identities /\ \A i \in Selected : Identity(i) /\ On(i)
    BY <1>1, <1>2, <1>3 DEF Identities, Identity, On
<1> QED
    BY <1>1, <1>4, <1>5, <1>6, <1>7, <1>8, <1>9, <1>10

\* The next leaf to stage is there: the count of its directory was staged.
LEMMA StageExists ==
    ASSUME AInv, Undisturbed, pc = "stage", PlainPart(pc, txn, leaf), txn.todo # {}
    PROVE  Exists(Least(txn.todo))
<1> DEFINE l == Least(txn.todo)
           D == DOMAIN txn.goal
<1>1. /\ txn \in Locals /\ Sound(pc, txn) /\ leaf \in Contents /\ Shaped(leaf)
      /\ D \subseteq Leaves /\ pc \notin CheckPCs /\ pc # "idle"
    BY LocalsAre DEF AInv, CheckPCs
<1>2. l \in txn.todo /\ (\A q \in txn.todo : l <= q) /\ l \in ToStage(txn.goal, txn.from)
    BY <1>1, HasLeast DEF Sound, Locals
<1>3. l \in D /\ l \in Leaves /\ txn.goal[l] # Absent
    BY <1>1, <1>2 DEF ToStage
<1> SUFFICES Exists(l)
    OBVIOUS
<1> HIDE DEF l
<1>4. CASE Above(l) \cap D = {}
    BY <1>1, <1>3, <1>4, AloneFacts DEF Exists
<1>5. CASE Above(l) \cap D # {}
    <2>1. PICK c \in Counts : Nearest(c, l)
        BY <1>3, <1>5, HasNearest
    <2>2. Shaped(txn.goal)
        BY <1>1, AloneFacts
    <2>3. c \in D /\ txn.goal[c] # Absent /\ l \in Made[c][txn.goal[c]]
        BY <1>3, <1>5, <2>1, <2>2 DEF Shaped
    <2>4. Dir[c] = Dir[l] /\ c < l /\ c \in Nat /\ l \in Nat
        BY <1>3, <2>1, NearestIs
    <2>5. c \in ToStage(txn.goal, txn.from)
        BY <1>2, <2>3, <2>4 DEF ToStage
    <2>6. c \notin txn.todo
        BY <1>2, <2>4
    <2>7. leaf[c] = txn.goal[c]
        BY <1>1, <2>5, <2>6 DEF PlainPart
    <2>8. Above(l) \cap Leaves # {} /\ DOMAIN leaf = Leaves
        BY <1>1, <1>5 DEF Contents
    <2>9. leaf[l] # Absent
        BY <1>1, <1>3, <2>1, <2>3, <2>7, <2>8 DEF Shaped
    <2> QED
        BY <2>9 DEF Exists
<1> QED
    BY <1>4, <1>5

\* One leaf more is as requested, and nothing that was is lost.
LEMMA StagedLeaf ==
    ASSUME AInv, Undisturbed, pc = "stage", PlainPart(pc, txn, leaf), txn.todo # {},
           NEW t, t.goal = txn.goal, t.from = txn.from, t.mode = txn.mode, t.kind = txn.kind,
           t.todo = txn.todo \ {Least(txn.todo)},
           \/ /\ leaf' = leaf
              /\ leaf[Least(txn.todo)] = txn.goal[Least(txn.todo)]
              /\ t.journal = txn.journal
           \/ /\ WriteLeaf(Least(txn.todo), txn.goal[Least(txn.todo)])
              /\ ~(Least(txn.todo) \in Counts
                   /\ leaf[Least(txn.todo)] = txn.goal[Least(txn.todo)])
              /\ t.journal = txn.journal \cup {Least(txn.todo)}
    PROVE  PlainPart("stage", t, leaf')
<1> DEFINE l == Least(txn.todo)
           D == DOMAIN txn.goal
           S == ToStage(txn.goal, txn.from)
<1>1. /\ txn \in Locals /\ Sound(pc, txn) /\ leaf \in Contents
      /\ D \subseteq Leaves /\ pc \notin CheckPCs /\ pc # "idle" /\ txn.todo \subseteq S
    BY LocalsAre DEF AInv, CheckPCs, Sound
<1>2. l \in txn.todo /\ (\A q \in txn.todo : l <= q) /\ l \in S
    BY <1>1, HasLeast DEF Locals
<1>3. l \in D /\ l \in Leaves /\ txn.goal[l] # Absent /\ S \subseteq Leaves
    BY <1>1, <1>2 DEF ToStage
<1>4. /\ txn.mode = "forward"
      /\ \A p \in S \ txn.todo : (\A q \in txn.todo : p < q) /\ (p \notin Tuned => leaf[p] = txn.goal[p])
      /\ \A m \in Settled(txn) : leaf[m] = txn.goal[m]
      /\ txn.kind = "goals" => txn.journal \cap Counts \cap Settled(txn) = {}
    BY <1>1 DEF PlainPart
<1>5. Settled(t) = Settled(txn)
    BY DEF Settled
<1>6. \/ leaf' = leaf /\ leaf[l] = txn.goal[l] /\ t.journal = txn.journal
      \/ /\ WriteLeaf(l, txn.goal[l]) /\ ~(l \in Counts /\ leaf[l] = txn.goal[l])
         /\ t.journal = txn.journal \cup {l}
    OBVIOUS
<1>7. t.todo = txn.todo \ {l}
    OBVIOUS
<1> HIDE DEF l, S, D
<1>8. /\ leaf'[l] = txn.goal[l]
      /\ \A m \in Leaves : m # l /\ ~(l \in Counts /\ m \in Under[l]) => leaf'[m] = leaf[m]
    BY <1>3, <1>6 DEF WriteLeaf, Written
<1>9. ASSUME NEW p \in S \ t.todo
      PROVE  (\A q \in t.todo : p < q) /\ (p \notin Tuned => leaf'[p] = txn.goal[p])
    <2>1. CASE p = l
        <3>1. \A q \in t.todo : q # l /\ l <= q /\ q \in Nat /\ l \in Nat
            BY <1>1, <1>2, <1>3, <1>7
        <3> QED
            BY <1>8, <2>1, <3>1
    <2>2. CASE p # l
        <3>1. p \in S \ txn.todo /\ p \in Leaves
            BY <1>3, <1>7, <1>9, <2>2
        <3>2. p < l /\ \A q \in t.todo : p < q
            BY <1>2, <1>4, <1>7, <3>1
        <3>3. ~(l \in Counts /\ p \in Under[l])
            <4> SUFFICES ASSUME l \in Counts, p \in Under[l] PROVE FALSE
                OBVIOUS
            <4>1. l < p
                BY Below
            <4> QED
                BY <1>3, <3>1, <3>2, <4>1
        <3> QED
            BY <1>4, <1>8, <2>2, <3>1, <3>2, <3>3
    <2> QED
        BY <2>1, <2>2
<1>10. ASSUME l \in Counts, NEW m \in Settled(txn), m = l \/ m \in Under[l]
       PROVE  leaf[l] = txn.goal[l]
    <2>1. /\ m \in D \ Tuned /\ ~Resized(txn.goal, txn.from, m) /\ txn.goal[m] = txn.from[m]
        BY <1>10 DEF Settled, D
    <2>2. txn.goal[l] = txn.from[l]
        BY <1>3, <1>10, <2>1 DEF Resized, D
    <2>3. ~Resized(txn.goal, txn.from, l)
        <3> SUFFICES ASSUME NEW c \in Counts \cap D, l \in Under[c], txn.from[c] # txn.goal[c]
                     PROVE  FALSE
            BY DEF Resized, D
        <3>1. m \in Under[c]
            BY <1>10, Below
        <3> QED
            BY <2>1, <3>1 DEF Resized, D
    <2>4. l \in Settled(txn)
        BY <1>3, <1>10, <2>2, <2>3 DEF Settled, D
    <2> QED
        BY <1>4, <2>4
<1>11. \A m \in Settled(txn) : leaf'[m] = txn.goal[m]
    <2> SUFFICES ASSUME NEW m \in Settled(txn) PROVE leaf'[m] = txn.goal[m]
        OBVIOUS
    <2>1. m \in Leaves /\ leaf[m] = txn.goal[m]
        BY <1>1, <1>4 DEF Settled, D
    <2> QED
        BY <1>6, <1>8, <1>10, <2>1
<1>12. txn.kind = "goals" => t.journal \cap Counts \cap Settled(txn) = {}
    BY <1>4, <1>6, <1>10
<1>13. ToStage(t.goal, t.from) = S
    BY DEF S
<1> QED
    BY <1>4, <1>5, <1>9, <1>11, <1>12, <1>13 DEF PlainPart, CommitPCs

\* When all is staged, the files are as requested.
LEMMA StagedAll ==
    ASSUME AInv, Undisturbed, pc = "stage", PlainPart(pc, txn, leaf), txn.todo = {}
    PROVE  \A m \in DOMAIN txn.goal \ Tuned : leaf[m] = txn.goal[m]
<1> DEFINE D == DOMAIN txn.goal
           f == [m \in D |-> leaf[m]]
           X == D \ Tuned
           goal == txn.goal
<1>1. /\ txn \in Locals /\ Sound(pc, txn) /\ leaf \in Contents /\ Shaped(leaf)
      /\ D \in SUBSET Leaves /\ pc \notin CheckPCs /\ pc # "idle"
    BY LocalsAre DEF AInv, CheckPCs
<1>2. /\ Shaped(goal) /\ DOMAIN goal = D
      /\ \A m \in D : Above(m) \cap D = {} => leaf[m] # Absent
    BY <1>1, AloneFacts
<1>3. \A m \in D : Above(m) \cap D # {} => \A c \in Counts : Nearest(c, m) => c \in D
    BY <1>2 DEF Shaped
<1>4. Shaped(f) /\ DOMAIN f = D /\ \A m \in D : f[m] = leaf[m]
    BY <1>1, <1>2, <1>3, ReadShaped
<1>5. X \in SUBSET D /\ \A m \in X : \A c \in Counts \cap D : m \in Under[c] => c \in X
    OBVIOUS
<1> SUFFICES ASSUME NEW l \in X, leaf[l] # goal[l] PROVE FALSE
    OBVIOUS
<1>6. f[l] # goal[l]
    BY <1>4
<1> HIDE DEF f, X, D, goal
<1>7. PICK m \in X : f[m] # Absent /\ goal[m] # Absent /\ f[m] # goal[m]
    BY <1>1, <1>2, <1>4, <1>5, <1>6, DifferVisibly
<1>8. m \in D \ Tuned /\ leaf[m] # goal[m] /\ m \in Leaves
    BY <1>1, <1>4, <1>7 DEF X
<1>9. m \notin ToStage(txn.goal, txn.from)
    BY <1>1, <1>8 DEF PlainPart, goal
<1>10. goal[m] = txn.from[m] /\ ~Resized(goal, txn.from, m)
    <2>1. CASE \E k \in D : Dir[k] = Dir[m] /\ goal[k] # txn.from[k]
        BY <1>7, <1>8, <1>9, <2>1 DEF ToStage, goal, D
    <2>2. CASE \A k \in D : Dir[k] = Dir[m] => goal[k] = txn.from[k]
        <3>1. \A c \in Counts \cap D : m \in Under[c] => Dir[c] = Dir[m]
            BY Below
        <3> QED
            BY <1>2, <1>8, <2>2, <3>1 DEF Resized
    <2> QED
        BY <2>1, <2>2
<1>11. m \in Settled(txn)
    BY <1>7, <1>8, <1>10 DEF Settled, goal, D
<1> QED
    BY <1>1, <1>8, <1>11 DEF PlainPart, goal

\* Nothing but goals moved away from the owned fingerprint.
LEMMA UnchangedHolds ==
    ASSUME AInv, Undisturbed, pc = "unchanged", PlainPart(pc, txn, leaf)
    PROVE  MatchesExcept(staged, Tuned \cup GoalScope(txn.goal, txn.from))
<1> SUFFICES ASSUME NEW l \in Leaves \ Tuned, l \notin GoalScope(txn.goal, txn.from)
             PROVE  leaf[l] = staged[l]
    BY DEF MatchesExcept
<1>1. /\ txn \in Locals /\ Sound(pc, txn) /\ pc \notin CheckPCs /\ pc # "idle"
      /\ DOMAIN txn.goal \subseteq Leaves
    BY LocalsAre DEF AInv, CheckPCs
<1>2. /\ txn.kind = "goals" /\ DOMAIN txn.goal \subseteq Goals
      /\ txn.asked = txn.goal /\ txn.observed = txn.from
      /\ txn.journal \subseteq ToStage(txn.goal, txn.from)
    BY <1>1 DEF Sound, StagingOf
<1>3. /\ \A m \in Leaves \ Tuned : m \notin Touched(txn.journal) => leaf[m] = txn.before[m]
      /\ Same(txn.before, staged) /\ Same(txn.before, txn.began.leaf)
      /\ txn.journal \subseteq DOMAIN txn.goal
    BY <1>1, AloneFacts
<1>4. \A m \in DOMAIN txn.goal \ Tuned : txn.from[m] = txn.began.leaf[m]
    <2>1. FilesPart(pc, txn, leaf, staged)
        BY <1>1 DEF AInv, AloneInv
    <2>2. DOMAIN txn.observed = DOMAIN txn.goal
        BY <1>1 DEF Sound
    <2> QED
        BY <1>2, <2>1, <2>2 DEF FilesPart
<1>5. CASE l \notin Touched(txn.journal)
    BY <1>3, <1>5 DEF Same
<1>6. CASE l \in Touched(txn.journal) /\ ~(\A c \in Counts \cap DOMAIN txn.goal : txn.goal[c] = txn.from[c])
    <2>1. l \notin Goals
        BY <1>6 DEF GoalScope
    <2> QED
        BY <1>2, <1>3, <1>6, <2>1, GoalsAssumption DEF Touched
<1>7. CASE l \in Touched(txn.journal) /\ (\A c \in Counts \cap DOMAIN txn.goal : txn.goal[c] = txn.from[c])
    <2>1. l \in DOMAIN txn.goal => txn.goal[l] = txn.from[l]
        BY <1>7 DEF GoalScope
    <2>2. CASE l \in txn.journal
        <3>1. leaf[l] = txn.goal[l]
            BY <1>1, <1>3, <2>2 DEF PlainPart
        <3> QED
            BY <1>3, <1>4, <2>1, <2>2, <3>1 DEF Same
    <2>3. ASSUME NEW c \in txn.journal \cap Counts, l \in Under[c] PROVE FALSE
        <3>1. c \in DOMAIN txn.goal /\ txn.goal[c] # Absent
            BY <1>2 DEF ToStage
        <3>2. c \in Settled(txn)
            BY <1>7, <3>1 DEF Settled, Resized
        <3> QED
            BY <1>1, <1>2, <2>3, <3>2 DEF PlainPart
    <2> QED
        BY <1>7, <2>2, <2>3 DEF Touched
<1> QED
    BY <1>5, <1>6, <1>7

\* What lies outside the journal is as it was.
LEMMA BoundaryHolds ==
    ASSUME AInv, Undisturbed, pc = "boundary"
    PROVE  MatchesExcept(txn.before, AffectedBy(txn.before, txn.journal) \cup Tuned)
BY AloneFacts DEF CheckPCs, MatchesExcept, AffectedBy, Touched

\* The next leaf to restore is there.
LEMMA RestoreExists ==
    ASSUME AInv, Undisturbed, pc = "restore", txn.mode # "forward", UndonePart(pc, txn, leaf),
           txn.todo # {}
    PROVE  Exists(Least(txn.todo))
<1> DEFINE l == Least(txn.todo)
           S == ToRestore(txn.before, AffectedBy(txn.before, txn.journal))
<1>1. /\ txn \in Locals /\ Sound(pc, txn) /\ leaf \in Contents /\ Shaped(leaf)
      /\ pc \notin CheckPCs /\ pc # "idle" /\ txn.todo \subseteq S
    BY LocalsAre DEF AInv, CheckPCs, Sound
<1>0. /\ txn.before \in Contents /\ Shaped(txn.before) /\ txn.journal \in SUBSET Typed
      /\ \A m \in Leaves \ Tuned : m \notin Touched(txn.journal) => leaf[m] = txn.before[m]
    BY <1>1, AloneFacts
<1>2. l \in txn.todo /\ (\A q \in txn.todo : l <= q) /\ l \in S
    BY <1>1, HasLeast DEF Locals
<1>3. l \in Leaves /\ txn.before[l] # Absent
    BY <1>0, <1>2, RestoredOf
<1>4. DOMAIN leaf = Leaves /\ DOMAIN txn.before = Leaves
    BY <1>0, <1>1 DEF Contents
<1> SUFFICES Exists(l)
    OBVIOUS
<1> HIDE DEF l, S
<1>5. CASE Above(l) \cap Leaves = {}
    BY <1>1, <1>3, <1>4, <1>5 DEF Shaped, Exists
<1>6. CASE Above(l) \cap Leaves # {}
    <2>1. PICK c \in Counts : Nearest(c, l)
        BY <1>3, <1>6, HasNearest
    <2>2. c < l /\ c \in Leaves \ Tuned /\ c \in Nat /\ l \in Nat
        BY <1>3, <2>1, NearestIs
    <2>3. txn.before[c] # Absent /\ l \in Made[c][txn.before[c]]
        BY <1>0, <1>3, <1>4, <1>6, <2>1 DEF Shaped
    <2>4. leaf[c] = txn.before[c]
        <3>1. CASE c \in Touched(txn.journal)
            <4>1. c \in S
                BY <2>2, <2>3, <3>1 DEF S, Touched, ToRestore, AffectedBy
            <4>2. c \notin txn.todo
                BY <1>2, <2>2
            <4> QED
                BY <4>1, <4>2 DEF UndonePart, S
        <3>2. CASE c \notin Touched(txn.journal)
            BY <1>0, <2>2, <3>2
        <3> QED
            BY <3>1, <3>2
    <2>5. leaf[l] # Absent
        BY <1>1, <1>3, <1>4, <1>6, <2>1, <2>3, <2>4 DEF Shaped
    <2> QED
        BY <2>5 DEF Exists
<1> QED
    BY <1>5, <1>6

LEMMA RestoredLeaf ==
    ASSUME AInv, Undisturbed, pc = "restore", txn.mode # "forward", UndonePart(pc, txn, leaf),
           txn.todo # {},
           NEW t, t.before = txn.before, t.journal = txn.journal, t.mode = txn.mode,
           t.todo = txn.todo \ {Least(txn.todo)},
           \/ leaf' = leaf /\ leaf[Least(txn.todo)] = txn.before[Least(txn.todo)]
           \/ WriteLeaf(Least(txn.todo), txn.before[Least(txn.todo)])
    PROVE  UndonePart("restore", t, leaf')
<1> DEFINE l == Least(txn.todo)
           S == ToRestore(txn.before, AffectedBy(txn.before, txn.journal))
<1>1. /\ txn \in Locals /\ Sound(pc, txn) /\ leaf \in Contents
      /\ pc \notin CheckPCs /\ pc # "idle" /\ txn.todo \subseteq S /\ txn.before \in Contents
    BY LocalsAre DEF AInv, CheckPCs, Sound
<1>2. l \in txn.todo /\ (\A q \in txn.todo : l <= q) /\ txn.todo \subseteq Leaves
    BY <1>1, HasLeast DEF Locals
<1>3. l \in Leaves /\ S \subseteq Leaves
    BY <1>1, <1>2, RestoredOf DEF Locals
<1>4. /\ txn.mode = "rollback"
      /\ \A p \in S \ txn.todo : (\A q \in txn.todo : p < q) /\ leaf[p] = txn.before[p]
    BY DEF UndonePart
<1>6. (leaf' = leaf /\ leaf[l] = txn.before[l]) \/ WriteLeaf(l, txn.before[l])
    OBVIOUS
<1>7. t.todo = txn.todo \ {l}
    OBVIOUS
<1> HIDE DEF l, S
<1>8. /\ leaf'[l] = txn.before[l]
      /\ \A m \in Leaves : m # l /\ ~(l \in Counts /\ m \in Under[l]) => leaf'[m] = leaf[m]
    BY <1>3, <1>6 DEF WriteLeaf, Written
<1>9. ASSUME NEW p \in S \ t.todo
      PROVE  (\A q \in t.todo : p < q) /\ leaf'[p] = txn.before[p]
    <2>1. CASE p = l
        <3>1. \A q \in t.todo : q # l /\ l <= q /\ q \in Nat /\ l \in Nat
            BY <1>2, <1>3, <1>7
        <3> QED
            BY <1>8, <2>1, <3>1
    <2>2. CASE p # l
        <3>1. p \in S \ txn.todo /\ p \in Leaves
            BY <1>3, <1>7, <1>9, <2>2
        <3>2. p < l /\ \A q \in t.todo : p < q
            BY <1>2, <1>4, <1>7, <3>1
        <3>3. ~(l \in Counts /\ p \in Under[l])
            <4> SUFFICES ASSUME l \in Counts, p \in Under[l] PROVE FALSE
                OBVIOUS
            <4>1. l < p
                BY Below
            <4> QED
                BY <1>3, <3>1, <3>2, <4>1
        <3> QED
            BY <1>4, <1>8, <2>2, <3>1, <3>2, <3>3
    <2> QED
        BY <2>1, <2>2
<1>13. ToRestore(t.before, AffectedBy(t.before, t.journal)) = S
    BY DEF S
<1> QED
    BY <1>4, <1>9, <1>13 DEF UndonePart, CommitPCs

\* When all is restored, the files are as they were.
LEMMA RestoredAll ==
    ASSUME AInv, Undisturbed, pc = "restore", txn.mode # "forward", UndonePart(pc, txn, leaf),
           txn.todo = {}
    PROVE  /\ RestoredMatches(txn.before, AffectedBy(txn.before, txn.journal))
           /\ Same(leaf, txn.before)
<1> DEFINE S == ToRestore(txn.before, AffectedBy(txn.before, txn.journal))
<1>1. /\ txn \in Locals /\ leaf \in Contents /\ Shaped(leaf) /\ pc \notin CheckPCs /\ pc # "idle"
    BY LocalsAre DEF AInv, CheckPCs
<1>2. /\ txn.before \in Contents /\ Shaped(txn.before) /\ txn.journal \in SUBSET Typed
      /\ \A m \in Leaves \ Tuned : m \notin Touched(txn.journal) => leaf[m] = txn.before[m]
    BY <1>1, AloneFacts
<1>3. \A p \in S : leaf[p] = txn.before[p]
    BY DEF UndonePart
<1>4. MatchesExcept(txn.before, Tuned)
    <2> SUFFICES ASSUME NEW m \in Leaves \ Tuned, txn.before[m] # Absent
                 PROVE  leaf[m] = txn.before[m]
        BY DEF MatchesExcept
    <2>1. CASE m \in Touched(txn.journal)
        <3>1. m \in S
            BY <2>1 DEF Touched, ToRestore, AffectedBy
        <3> QED
            BY <1>3, <3>1
    <2> QED
        BY <1>2, <2>1
<1> QED
    BY <1>1, <1>2, <1>3, <1>4, MatchedSame DEF RestoredMatches

LEMMA InitCalm == Init => CalmInv
BY DEF Init, CalmInv

\* What is undone had a cause.
LEMMA MustFault ==
    ASSUME AInv, CalmInv, Undisturbed, pc # "idle", txn.mode # "forward"
    PROVE  faults + tunes >= 1
<1>1. Sound(pc, txn) /\ faults \in Nat /\ tunes \in Nat
    BY LocalsAre DEF AInv, SInv, IInv, TypeOK
<1>2. pc \notin CheckPCs
    BY <1>1 DEF Sound
<1>3. faults + tunes # 0
    BY <1>2 DEF CalmInv, PlainPart
<1> QED
    BY <1>1, <1>3

LEMMA FailCalm ==
    ASSUME AInv, pc # "idle", Fail,
           (Undisturbed /\ faults + tunes = 0)' => pc \in CheckPCs \/ txn.mode # "forward"
    PROVE  CalmInv'
<1>1. CASE pc' = "idle"
    BY <1>1 DEF CalmInv
<1>2. CASE pc \notin CheckPCs /\ txn.mode = "forward"
    <2> DEFINE t == [txn EXCEPT !.mode = "rollback", !.todo = {},
                                !.queue = <<>>, !.captured = Nothing]
    <2>1. pc' = "restore_ids" /\ txn' = t
        BY <1>2 DEF Fail, Advance
    <2>2. txn \in Locals
        BY LocalsAre DEF AInv
    <2>3. t.mode = "rollback"
        BY <2>2 DEF Locals
    <2> HIDE DEF t
    <2>4. UndonePart("restore_ids", t, leaf')
        BY <2>3 DEF UndonePart, CommitPCs
    <2> QED
        BY <1>2, <2>1, <2>4 DEF CalmInv
<1> QED
    BY <1>1, <1>2 DEF Fail, Return

LEMMA LookCalm ==
    ASSUME AInv, CalmInv, pc # "idle", NEW c \in BOOLEAN, NEW l, NEW t, Look(c, l, t),
           Undisturbed /\ faults + tunes = 0 /\ pc \notin CheckPCs /\ txn.mode = "forward" => c,
           Undisturbed /\ faults + tunes = 0 => PlainPart(l, t, leaf),
           Undisturbed /\ c /\ faults + tunes <= 1 => UndonePart(l, t, leaf)
    PROVE  CalmInv'
<1>1. UNCHANGED <<leaf, faults, tunes, rogue, exits>>
    BY DEF Look, kernelVars, budgets
<1>2. CASE c
    BY <1>1, <1>2 DEF Look, Continue, Advance, CalmInv, Undisturbed
<1>3. CASE ~c
    BY <1>1, <1>3, FailCalm DEF Look, Continue, Undisturbed
<1> QED
    BY <1>2, <1>3

LEMMA CallCalm == ASSUME AInv, CalmInv, Call PROVE CalmInv'
<1>1. PICK r \in Requests :
        \/ pc' = "idle"
        \/ /\ pc' = "owned"
           /\ txn' = [NoTxn EXCEPT !.kind = r.kind,
                                   !.began = [leaf |-> leaf, active |-> active],
                                   !.goal = r.want, !.asked = r.want, !.selected = r.selected]
    BY DEF Call, Advance, Return
<1>2. pc' = "owned" => txn'.mode = "forward"
    BY <1>1 DEF NoTxn
<1> QED
    BY <1>1, <1>2 DEF CalmInv, PlainPart, UndonePart, CheckPCs

LEMMA PrepareCalm == ASSUME AInv, CalmInv, Prepare PROVE CalmInv'
<1>0. pc \in CheckPCs /\ pc # "idle"
    BY DEF CheckPCs, Prepare, VerifyOwned, CaptureBefore, ReadTyped, Recheck, VerifyRequest
<1>1. /\ txn \in Locals /\ Sound(pc, txn) /\ txn.mode = "forward" /\ txn.phase = "main"
      /\ txn.journal = {} /\ DOMAIN txn.goal \subseteq Leaves /\ Selected = SelectedOf(txn)
    BY <1>0, LocalsAre DEF Sound, AInv
<1>2. ASSUME NEW c \in BOOLEAN, NEW l \in CheckPCs, NEW t, Look(c, l, t), t.mode = "forward"
      PROVE  CalmInv'
    BY <1>0, <1>2, LookCalm DEF PlainPart, UndonePart
<1>3. CASE VerifyRequest
    <2> DEFINE effective == Effective(txn.goal, txn.from, Selected)
               t == [txn EXCEPT !.goal = effective, !.asked = effective]
    <2>0. pc = "owned_again" /\ UNCHANGED <<kernelVars, states, staged, budgets>>
        BY <1>3 DEF VerifyRequest
    <2>1. CASE Fail
        BY <1>0, <2>0, <2>1, FailCalm
    <2>2. CASE pc' = "idle"
        BY <2>2 DEF CalmInv
    <2>3. CASE Advance("stage_ids", t)
        <3>1. DOMAIN effective = DOMAIN txn.goal
            BY DEF Effective
        <3> HIDE DEF effective
        <3>4. /\ t.goal = effective /\ t.from = txn.from /\ t.mode = "forward"
              /\ t.kind = txn.kind /\ t.journal = {}
            BY <1>1 DEF Locals
        <3> HIDE DEF t
        <3>5. Undisturbed => \A m \in DOMAIN txn.goal \ Tuned : leaf[m] = txn.from[m]
            <4> SUFFICES ASSUME Undisturbed, NEW m \in DOMAIN txn.goal \ Tuned
                         PROVE  leaf[m] = txn.from[m]
                OBVIOUS
            <4>1. FilesPart(pc, txn, leaf, staged)
                BY <1>0 DEF AInv, AloneInv
            <4>2. txn.observed = txn.from /\ DOMAIN txn.from = DOMAIN txn.goal
                BY <1>1, <2>0 DEF Sound
            <4>3. txn.from[m] = txn.began.leaf[m] /\ leaf[m] = txn.began.leaf[m]
                BY <1>1, <2>0, <4>1, <4>2 DEF FilesPart, Touched
            <4> QED
                BY <4>3
        <3>6. Undisturbed => PlainPart("stage_ids", t, leaf)
            BY <3>1, <3>4, <3>5 DEF PlainPart, Settled, CommitPCs
        <3> QED
            BY <2>0, <2>3, <3>4, <3>6
            DEF Advance, CalmInv, Undisturbed, UndonePart, kernelVars, budgets
    <2> QED
        BY <1>3, <2>1, <2>2, <2>3 DEF VerifyRequest, Continue, Effective, Return
<1>4. CASE CaptureBefore
    BY <1>1, <1>2, <1>4 DEF CaptureBefore, Locals, CheckPCs
<1>5. CASE ReadTyped
    <2> DEFINE read == [l \in DOMAIN txn.goal |-> leaf[l]]
               t == [txn EXCEPT !.from = read, !.observed = read]
               c == \A l \in DOMAIN read : Above(l) \cap DOMAIN read = {} => Exists(l)
    <2>1. Look(c, "recheck", t) /\ c \in BOOLEAN
        BY <1>5 DEF ReadTyped
    <2>2. t.mode = "forward"
        BY <1>1 DEF Locals
    <2> HIDE DEF t, c
    <2> QED
        BY <1>2, <2>1, <2>2 DEF CheckPCs
<1>6. CASE VerifyOwned \/ Recheck
    BY <1>1, <1>2, <1>6 DEF VerifyOwned, Recheck, Owned, MatchesExcept, Identities, CheckPCs
<1> QED
    BY <1>3, <1>4, <1>5, <1>6 DEF Prepare

LEMMA StageCalm == ASSUME AInv, CalmInv, Stage PROVE CalmInv'
<1>0. /\ pc \in StagePCs /\ pc # "idle" /\ pc \notin CheckPCs /\ pc \notin CommitPCs \cup {"adopt"}
    BY DEF Stage, StartStaging, StageLeaf, StagingDone, VerifyStagedIdentities, VerifyUnchanged,
           CaptureStaged, CompareTyped, ValuesMatch, StartCommits, StagePCs, CheckPCs, CommitPCs
<1>1. /\ txn \in Locals /\ Sound(pc, txn) /\ Alike(txn) /\ txn.mode = "forward"
      /\ leaf \in Contents /\ DOMAIN txn.goal \subseteq Leaves
    BY <1>0, LocalsAre DEF Sound, AInv
<1>2. Undisturbed /\ faults + tunes = 0 => PlainPart(pc, txn, leaf)
    BY <1>0 DEF CalmInv
<1>3. Undisturbed => Identities
    BY <1>0, AloneFacts
<1>4. ASSUME NEW c \in BOOLEAN, NEW l, NEW t, Look(c, l, t), t.mode = "forward",
             Undisturbed /\ faults + tunes = 0 => c /\ PlainPart(l, t, leaf)
      PROVE  CalmInv'
    BY <1>0, <1>4, LookCalm DEF UndonePart
<1>5. CASE StartStaging
    <2> DEFINE S == ToStage(txn.goal, txn.from)
               t == [txn EXCEPT !.todo = S]
    <2>1. pc = "stage_ids" /\ Look(Identities, "stage", t) /\ Identities \in BOOLEAN
        BY <1>5 DEF StartStaging, Identities
    <2>2. /\ t.goal = txn.goal /\ t.from = txn.from /\ t.mode = "forward" /\ t.todo = S
          /\ t.kind = txn.kind /\ t.journal = txn.journal
        BY <1>1 DEF Locals
    <2> HIDE DEF t
    <2>3. PlainPart("stage_ids", txn, leaf) => PlainPart("stage", t, leaf)
        BY <2>2 DEF PlainPart, Settled, CheckPCs, CommitPCs
    <2> QED
        BY <1>2, <1>3, <1>4, <2>1, <2>2, <2>3
<1>6. CASE StageLeaf
    <2> DEFINE l == Least(txn.todo)
               rest == txn.todo \ {l}
               t == [txn EXCEPT !.todo = rest, !.journal = @ \cup {l}]
               u == [txn EXCEPT !.todo = rest]
    <2>0. pc = "stage" /\ txn.todo # {}
        BY <1>6 DEF StageLeaf
    <2>1. /\ t.goal = txn.goal /\ t.from = txn.from /\ t.mode = "forward" /\ t.todo = rest
          /\ t.kind = txn.kind /\ t.journal = txn.journal \cup {l}
          /\ u.goal = txn.goal /\ u.from = txn.from /\ u.mode = "forward" /\ u.todo = rest
          /\ u.kind = txn.kind /\ u.journal = txn.journal
        BY <1>1 DEF Locals
    <2>2. l \in Typed /\ l \in Leaves /\ txn.goal[l] \in Values
        <3>1. l \in ToStage(txn.goal, txn.from)
            BY <1>1, <2>0, HasLeast DEF Sound, Locals
        <3> QED
            BY <1>1, <3>1, StagedOf DEF Locals
    <2>3. CASE leaf[l] = txn.goal[l] /\ Look(TRUE, "stage", u)
        <3>1. Undisturbed /\ faults + tunes = 0 => PlainPart("stage", u, leaf')
            BY <1>1, <1>2, <2>0, <2>1, <2>3, StagedLeaf DEF Look, kernelVars
        <3>2. leaf' = leaf
            BY <2>3 DEF Look, kernelVars
        <3> HIDE DEF l, u
        <3> QED
            BY <1>4, <2>1, <2>3, <3>1, <3>2
    <2>4. CASE ~Exists(l) /\ Look(FALSE, "stage", txn)
        <3>1. ~(Undisturbed /\ faults + tunes = 0)
            BY <1>2, <2>0, <2>4, StageExists
        <3> QED
            BY <1>1, <1>4, <2>4, <3>1
    <2>5. CASE /\ ~(l \in Counts /\ leaf[l] = txn.goal[l])
               /\ \/ WriteLeaf(l, txn.goal[l]) /\ UNCHANGED faults
                  \/ faults' = faults + 1
               /\ Advance("stage", t)
               /\ UNCHANGED <<states, staged, calls, rogue, exits, tunes>>
        <3>1. faults \in Nat /\ tunes \in Nat
            BY DEF AInv, SInv, IInv, TypeOK
        <3>2. ASSUME Undisturbed, faults' + tunes' = 0 PROVE PlainPart("stage", t, leaf')
            <4>1. WriteLeaf(l, txn.goal[l]) /\ faults + tunes = 0
                BY <2>5, <3>1, <3>2
            <4>2. PlainPart(pc, txn, leaf)
                BY <1>2, <3>2, <4>1
            <4> QED
                BY <1>1, <2>0, <2>1, <2>5, <3>2, <4>1, <4>2, StagedLeaf
        <3> HIDE DEF t, l
        <3> QED
            BY <2>1, <2>5, <3>2 DEF Advance, CalmInv, Undisturbed, UndonePart
    <2> QED
        BY <1>6, <2>3, <2>4, <2>5 DEF StageLeaf
<1>7. CASE StagingDone
    <2>1. pc = "stage" /\ txn.todo = {} /\ Look(TRUE, "staged_ids", txn)
        BY <1>7 DEF StagingDone
    <2>2. ASSUME Undisturbed, faults + tunes = 0 PROVE PlainPart("staged_ids", txn, leaf)
        <3>1. \A m \in DOMAIN txn.goal \ Tuned : leaf[m] = txn.goal[m]
            BY <1>2, <2>1, <2>2, StagedAll
        <3> QED
            BY <1>2, <2>1, <2>2, <3>1 DEF PlainPart, CheckPCs, CommitPCs
    <2> QED
        BY <1>1, <1>4, <2>1, <2>2
<1>8. CASE VerifyStagedIdentities
    <2> DEFINE l == IF txn.kind = "goals" THEN "unchanged" ELSE "snapshot"
    <2>1. pc = "staged_ids" /\ Look(Identities, l, txn) /\ Identities \in BOOLEAN
        BY <1>8 DEF VerifyStagedIdentities, Identities
    <2>2. PlainPart("staged_ids", txn, leaf) => PlainPart(l, txn, leaf)
        BY DEF PlainPart, CheckPCs, CommitPCs
    <2> HIDE DEF l
    <2> QED
        BY <1>1, <1>2, <1>3, <1>4, <2>1, <2>2
<1>9. CASE VerifyUnchanged
    <2> DEFINE c == MatchesExcept(staged, Tuned \cup GoalScope(txn.goal, txn.from))
    <2>1. pc = "unchanged" /\ Look(c, "snapshot", txn) /\ c \in BOOLEAN
        BY <1>9 DEF VerifyUnchanged, MatchesExcept
    <2>2. PlainPart("unchanged", txn, leaf) => PlainPart("snapshot", txn, leaf)
        BY DEF PlainPart, CheckPCs, CommitPCs
    <2>3. Undisturbed /\ faults + tunes = 0 => c
        BY <1>2, <2>1, UnchangedHolds
    <2> HIDE DEF c
    <2> QED
        BY <1>1, <1>2, <1>4, <2>1, <2>2, <2>3
<1>10. CASE CaptureStaged
    <2> DEFINE t == [txn EXCEPT !.captured = leaf]
    <2>1. pc = "snapshot" /\ Look(TRUE, "compare", t)
        BY <1>10 DEF CaptureStaged
    <2>2. /\ t.goal = txn.goal /\ t.from = txn.from /\ t.mode = "forward" /\ t.captured = leaf
          /\ t.kind = txn.kind /\ t.journal = txn.journal
        BY <1>1 DEF Locals
    <2> HIDE DEF t
    <2>3. PlainPart("snapshot", txn, leaf) => PlainPart("compare", t, leaf)
        BY <2>2 DEF PlainPart, CheckPCs, CommitPCs
    <2> QED
        BY <1>2, <1>4, <2>1, <2>2, <2>3
<1>11. CASE CompareTyped
    <2> DEFINE c == SameTyped(txn.goal, leaf)
    <2>1. pc = "compare" /\ Look(c, "values", txn) /\ c \in BOOLEAN
        BY <1>11 DEF CompareTyped, SameTyped
    <2>2. PlainPart("compare", txn, leaf) => c /\ PlainPart("values", txn, leaf)
        BY DEF PlainPart, CheckPCs, CommitPCs, SameTyped
    <2> HIDE DEF c
    <2> QED
        BY <1>1, <1>2, <1>4, <2>1, <2>2
<1>12. CASE ValuesMatch
    <2> DEFINE c == MatchesExcept(txn.captured, {})
    <2>1. pc = "values" /\ Look(c, "commit_ids", txn) /\ c \in BOOLEAN
        BY <1>12 DEF ValuesMatch, MatchesExcept
    <2>2. PlainPart("values", txn, leaf) => c /\ PlainPart("commit_ids", txn, leaf)
        BY DEF PlainPart, CheckPCs, CommitPCs, MatchesExcept, Same
    <2> HIDE DEF c
    <2> QED
        BY <1>1, <1>2, <1>4, <2>1, <2>2
<1>13. CASE StartCommits
    <2> DEFINE t == [txn EXCEPT !.queue = txn.selected]
               l == IF txn.phase = "main" THEN "commit_id" ELSE "adopt"
    <2>1. pc = "commit_ids" /\ Look(Identities, l, t) /\ Identities \in BOOLEAN
        BY <1>13 DEF StartCommits, Identities
    <2>2. t.mode = "forward" /\ t.captured = txn.captured
        BY <1>1 DEF Locals
    <2> HIDE DEF t
    <2>3. PlainPart("commit_ids", txn, leaf) => PlainPart(l, t, leaf)
        BY <2>2 DEF PlainPart, CheckPCs, CommitPCs
    <2> HIDE DEF l
    <2> QED
        BY <1>2, <1>3, <1>4, <2>1, <2>2, <2>3
<1> QED
    BY <1>5, <1>6, <1>7, <1>8, <1>9, <1>10, <1>11, <1>12, <1>13 DEF Stage

LEMMA CommitLoopCalm == ASSUME AInv, CalmInv, CommitLoop PROVE CalmInv'
<1>0. pc \in CommitPCs \cup {"adopt"} /\ pc # "idle" /\ pc \notin CheckPCs
    BY DEF CommitLoop, VerifyBeforeCommit, Commit, VerifyAfterCommit, Adopt, CommitPCs, CheckPCs
<1>1. /\ txn \in Locals /\ Sound(pc, txn) /\ Selected = SelectedOf(txn)
      /\ DOMAIN txn.goal \subseteq Leaves
    BY <1>0, LocalsAre DEF AInv
<1>2. /\ Undisturbed /\ faults + tunes = 0 => PlainPart(pc, txn, leaf)
      /\ Undisturbed /\ faults + tunes <= 1 => UndonePart(pc, txn, leaf)
    BY <1>0 DEF CalmInv
<1>3. Undisturbed /\ pc # "adopt" => Identity(Head(txn.queue)) /\ On(Head(txn.queue))
    <2>1. pc # "adopt" => Head(txn.queue) \in Selected
        BY <1>0, <1>1 DEF Sound, Locals
    <2> QED
        BY <1>0, <2>1, AloneFacts
\* The captured files are compared as they are, whatever is next.
<1>4. ASSUME pc # "adopt", NEW l \in CommitPCs, NEW t,
             t.mode = txn.mode /\ t.captured = txn.captured /\ t.before = txn.before
      PROVE  /\ PlainPart(pc, txn, leaf) => PlainPart(l, t, leaf)
             /\ UndonePart(pc, txn, leaf) => UndonePart(l, t, leaf)
    BY <1>0, <1>4 DEF PlainPart, UndonePart, CheckPCs, CommitPCs
<1>5. CASE VerifyBeforeCommit
    <2> DEFINE c == Identity(Head(txn.queue))
    <2>1. pc = "commit_id" /\ Look(c, "commit", txn) /\ c \in BOOLEAN /\ "commit" \in CommitPCs
        BY <1>5 DEF VerifyBeforeCommit, Identity, CommitPCs
    <2>2. Undisturbed => c
        BY <1>3, <2>1
    <2> HIDE DEF c
    <2> QED
        BY <1>0, <1>2, <1>4, <2>1, <2>2, LookCalm
<1>6. CASE Commit
    <2>1. CASE ~On(Head(txn.queue)) /\ Look(FALSE, "committed", txn) /\ pc = "commit"
        BY <1>0, <1>2, <1>3, <2>1, LookCalm
    <2>2. CASE /\ CommitLeaves(Head(txn.queue), Committed(Head(txn.queue)))
               /\ Advance("committed", [txn EXCEPT !.strayed = @ \/ thread[Head(txn.queue)] # states[Head(txn.queue)]])
               /\ UNCHANGED <<states, staged, budgets>>
               /\ pc = "commit"
        <3> DEFINE t == [txn EXCEPT !.strayed = @ \/ thread[Head(txn.queue)] # states[Head(txn.queue)]]
        <3>1. t.mode = txn.mode /\ t.captured = txn.captured /\ t.before = txn.before
            BY <1>1 DEF Locals
        <3> HIDE DEF t
        <3>2. /\ PlainPart(pc, txn, leaf) => PlainPart("committed", t, leaf)
              /\ UndonePart(pc, txn, leaf) => UndonePart("committed", t, leaf)
            BY <1>4, <2>2, <3>1 DEF CommitPCs
        <3>3. pc' = "committed" /\ txn' = t /\ UNCHANGED <<leaf, budgets>>
            BY <2>2 DEF t, Advance, CommitLeaves
        <3> QED
            BY <1>2, <3>2, <3>3 DEF CalmInv, Undisturbed, budgets
    <2> QED
        BY <1>6, <2>1, <2>2 DEF Commit
<1>7. CASE VerifyAfterCommit
    <2> DEFINE cleaned == Cleaned(txn.goal, Selected)
               t == [txn EXCEPT !.queue = <<>>, !.phase = "clean",
                                !.from = txn.goal, !.goal = cleaned]
    <2>0. pc = "committed" /\ UNCHANGED <<kernelVars, states, staged, budgets>>
        BY <1>7 DEF VerifyAfterCommit
    <2>1. CASE Fail /\ (~Identity(Head(txn.queue)) \/ txn.mode = "written")
        <3>1. ~(Undisturbed /\ faults + tunes = 0) \/ txn.mode # "forward"
            BY <1>3, <2>0, <2>1
        <3> QED
            BY <1>0, <2>0, <2>1, <3>1, FailCalm DEF budgets, Undisturbed
    <2>2. ASSUME NEW q, Advance("commit_id", [txn EXCEPT !.queue = q]) PROVE CalmInv'
        <3> DEFINE u == [txn EXCEPT !.queue = q]
        <3>1. u.mode = txn.mode /\ u.captured = txn.captured /\ u.before = txn.before
            BY <1>1 DEF Locals
        <3> HIDE DEF u
        <3>2. /\ PlainPart(pc, txn, leaf) => PlainPart("commit_id", u, leaf)
              /\ UndonePart(pc, txn, leaf) => UndonePart("commit_id", u, leaf)
            BY <1>4, <2>0, <3>1 DEF CommitPCs
        <3> QED
            BY <1>2, <2>0, <2>2, <3>2 DEF u, Advance, CalmInv, Undisturbed, kernelVars, budgets
    <2>3. CASE txn.mode = "forward" /\ txn.kind = "update" /\ Advance("stage_ids", t)
        <3>1. DOMAIN txn.goal = Typed
            BY <1>1, <2>3 DEF Sound
        <3>2. DOMAIN cleaned = Typed
            BY <3>1 DEF Cleaned
        <3> HIDE DEF cleaned
        <3>3. t.kind = "update" /\ t.goal = cleaned /\ t.from = txn.goal /\ t.mode = "forward"
            BY <1>1, <2>3 DEF Locals
        <3> HIDE DEF t
        <3>4. Undisturbed => \A m \in DOMAIN txn.goal \ Tuned : leaf[m] = txn.goal[m]
            BY <1>0, <2>0, <2>3 DEF AInv, AloneInv, FilesPart, CommitPCs
        <3>5. Undisturbed => PlainPart("stage_ids", t, leaf)
            BY <3>1, <3>2, <3>3, <3>4 DEF PlainPart, Settled, CommitPCs
        <3> QED
            BY <2>0, <2>3, <3>3, <3>5
            DEF Advance, CalmInv, Undisturbed, UndonePart, kernelVars, budgets
    <2>4. ASSUME NEW l, \/ l = "adopt" /\ txn.mode = "forward"
                        \/ l = "recapture" /\ txn.mode # "forward"
                        \/ l = "recommitted_match" /\ txn.mode # "forward" /\ txn.kind # "update",
                 Advance(l, [txn EXCEPT !.queue = <<>>])
          PROVE  CalmInv'
        <3> DEFINE u == [txn EXCEPT !.queue = <<>>]
        <3>1. u.mode = txn.mode /\ u.captured = txn.captured /\ u.before = txn.before
              /\ u.kind = txn.kind
            BY <1>1 DEF Locals
        <3> HIDE DEF u
        <3>2. /\ PlainPart(pc, txn, leaf) => PlainPart(l, u, leaf)
              /\ UndonePart(pc, txn, leaf) => UndonePart(l, u, leaf)
            BY <1>0, <2>0, <2>4, <3>1 DEF PlainPart, UndonePart, CheckPCs, CommitPCs
        <3> QED
            BY <1>2, <2>0, <2>4, <3>2 DEF u, Advance, CalmInv, Undisturbed, kernelVars, budgets
    <2> QED
        BY <1>7, <2>1, <2>2, <2>3, <2>4 DEF VerifyAfterCommit
<1>8. CASE Adopt
    <2>0. pc = "adopt" /\ UNCHANGED <<kernelVars, states, budgets>>
        BY <1>8 DEF Adopt
    <2>1. CASE Fail /\ ~MatchesExcept(txn.captured, Tuned)
        <3>1. ~(Undisturbed /\ faults + tunes = 0) \/ txn.mode # "forward"
            BY <1>0, <1>2, <2>0, <2>1, SameMatches DEF PlainPart
        <3> QED
            BY <1>0, <2>0, <2>1, <3>1, FailCalm DEF budgets, Undisturbed
    <2>2. CASE pc' = "idle"
        BY <2>2 DEF CalmInv
    <2> QED
        BY <1>8, <2>1, <2>2 DEF Adopt, Return
<1> QED
    BY <1>5, <1>6, <1>7, <1>8 DEF CommitLoop

LEMMA RestoreCalm == ASSUME AInv, CalmInv, Restore PROVE CalmInv'
<1>0. pc \in RestorePCs /\ pc # "idle" /\ pc \notin CheckPCs
    BY DEF Restore, VerifyBeforeRestore, VerifyBoundary, RestoreLeaf, RestoreDone,
        VerifyRestoredIdentities, VerifyRestored, Recapture, VerifyRecommitted, RestorePCs, CheckPCs
<1>1. /\ txn \in Locals /\ Sound(pc, txn) /\ Alike(txn) /\ txn.mode # "forward"
      /\ leaf \in Contents
    BY <1>0, LocalsAre DEF Sound, AInv
<1>2. Undisturbed /\ faults + tunes <= 1 => UndonePart(pc, txn, leaf)
    BY <1>0 DEF CalmInv
<1>20. /\ faults \in Nat /\ tunes \in Nat
       /\ Undisturbed => faults + tunes >= 1
    BY <1>0, <1>1, MustFault DEF AInv, SInv, IInv, TypeOK
<1>3. ASSUME NEW c \in BOOLEAN, NEW l, NEW t, Look(c, l, t),
             Undisturbed /\ c /\ UndonePart(pc, txn, leaf) => UndonePart(l, t, leaf)
      PROVE  CalmInv'
    <2>1. ~(Undisturbed /\ faults + tunes = 0)
        BY <1>20
    <2>2. Undisturbed /\ c /\ faults + tunes <= 1 => UndonePart(l, t, leaf)
        BY <1>2, <1>3
    <2> QED
        BY <1>0, <1>3, <2>1, <2>2, LookCalm
<1>4. CASE VerifyBeforeRestore
    <2>1. pc = "restore_ids" /\ Look(Identities, "boundary", txn) /\ Identities \in BOOLEAN
        BY <1>4 DEF VerifyBeforeRestore, Identities
    <2>2. UndonePart("restore_ids", txn, leaf) => UndonePart("boundary", txn, leaf)
        BY DEF UndonePart, CommitPCs
    <2> QED
        BY <1>3, <2>1, <2>2
<1>5. CASE VerifyBoundary
    <2> DEFINE affected == AffectedBy(txn.before, txn.journal)
               S == ToRestore(txn.before, affected)
               c == MatchesExcept(txn.before, affected \cup Tuned)
    <2>1. pc = "boundary" /\ UNCHANGED <<kernelVars, states, staged, rogue, exits, tunes>>
        BY <1>5 DEF VerifyBoundary
    <2>2. PICK m \in {"rollback", "written"} :
            /\ pc' = "restore" /\ txn' = [txn EXCEPT !.todo = S, !.mode = m]
            /\ \/ m = (IF c THEN "rollback" ELSE "written") /\ UNCHANGED faults
               \/ faults' = faults + 1
        <3>1. CASE UNCHANGED faults
            BY <1>5, <3>1 DEF VerifyBoundary, Advance
        <3>2. CASE faults' = faults + 1
            BY <1>5, <1>20, <3>2 DEF VerifyBoundary, Advance
        <3> QED
            BY <1>5, <3>1, <3>2 DEF VerifyBoundary
    <2>3. Undisturbed => c
        BY <2>1, BoundaryHolds
    <2> HIDE DEF c
    <2>4. Undisturbed /\ faults' + tunes' <= 1 => m = "rollback"
        BY <1>20, <2>1, <2>2, <2>3
    <2> DEFINE t == [txn EXCEPT !.todo = S, !.mode = m]
    <2>5. t.todo = S /\ t.mode = m /\ t.before = txn.before /\ t.journal = txn.journal
        BY <1>1 DEF Locals
    <2> HIDE DEF t
    <2>6. m = "rollback" => UndonePart("restore", t, leaf)
        BY <2>5 DEF UndonePart, CommitPCs
    <2>7. Undisturbed => faults' + tunes' # 0
        BY <1>20, <2>1, <2>2
    <2> QED
        BY <2>1, <2>2, <2>4, <2>6, <2>7 DEF t, CalmInv, Undisturbed, kernelVars
<1>6. CASE RestoreLeaf
    <2> DEFINE l == Least(txn.todo)
               t == [txn EXCEPT !.todo = txn.todo \ {l}]
    <2>0. pc = "restore" /\ txn.todo # {}
        BY <1>6 DEF RestoreLeaf
    <2>1. /\ t.before = txn.before /\ t.journal = txn.journal /\ t.mode = txn.mode
          /\ t.todo = txn.todo \ {l}
        BY <1>1 DEF Locals
    <2>2. CASE leaf[l] = txn.before[l] /\ Look(TRUE, "restore", t)
        <3>1. leaf' = leaf
            BY <2>2 DEF Look, kernelVars
        <3>2. Undisturbed /\ UndonePart(pc, txn, leaf) => UndonePart("restore", t, leaf)
            BY <1>1, <2>0, <2>1, <2>2, <3>1, RestoredLeaf
        <3> HIDE DEF l, t
        <3> QED
            BY <1>3, <2>2, <3>2
    <2>3. CASE WriteLeaf(l, txn.before[l]) /\ Advance("restore", t) /\ UNCHANGED <<states, staged, budgets>>
        <3>1. Undisturbed /\ UndonePart(pc, txn, leaf) => UndonePart("restore", t, leaf')
            BY <1>1, <2>0, <2>1, <2>3, RestoredLeaf
        <3> HIDE DEF l, t
        <3> QED
            BY <1>2, <1>20, <2>3, <3>1 DEF Advance, CalmInv, Undisturbed, budgets
    <2>4. CASE Look(FALSE, "restore", t)
        <3> HIDE DEF l, t
        <3> QED
            BY <1>3, <2>4
    <2> QED
        BY <1>6, <2>2, <2>3, <2>4 DEF RestoreLeaf, MustRestore
<1>7. CASE RestoreDone
    <2> DEFINE t == [txn EXCEPT !.queue = txn.selected]
               l == IF txn.mode = "rollback" /\ txn.kind = "update"
                    THEN "restored_ids" ELSE "commit_id"
               c == RestoredMatches(txn.before, AffectedBy(txn.before, txn.journal))
    <2>1. pc = "restore" /\ txn.todo = {} /\ Look(c, l, t) /\ c \in BOOLEAN
        BY <1>7 DEF RestoreDone, RestoredMatches
    <2>2. /\ t.before = txn.before /\ t.mode = txn.mode
        BY <1>1 DEF Locals
    <2> HIDE DEF c, t
    <2>3. ASSUME Undisturbed, UndonePart(pc, txn, leaf) PROVE UndonePart(l, t, leaf)
        <3>1. Same(leaf, txn.before)
            BY <1>1, <2>1, <2>3, RestoredAll
        <3> QED
            BY <2>2, <2>3, <3>1 DEF UndonePart
    <2> HIDE DEF l
    <2> QED
        BY <1>3, <2>1, <2>3
<1>8. CASE VerifyRestoredIdentities
    <2>1. pc = "restored_ids" /\ Look(Identities, "restored_match", txn) /\ Identities \in BOOLEAN
        BY <1>8 DEF VerifyRestoredIdentities, Identities
    <2>2. UndonePart("restored_ids", txn, leaf) => UndonePart("restored_match", txn, leaf)
        BY DEF UndonePart, CommitPCs
    <2> QED
        BY <1>3, <2>1, <2>2
<1>9. CASE VerifyRestored
    <2> DEFINE c == MatchesExcept(txn.before, Tuned)
    <2>1. pc = "restored_match" /\ Look(c, "commit_id", txn) /\ c \in BOOLEAN
        BY <1>9 DEF VerifyRestored, MatchesExcept
    <2>2. UndonePart("restored_match", txn, leaf) => UndonePart("commit_id", txn, leaf)
        BY DEF UndonePart, CommitPCs
    <2> HIDE DEF c
    <2> QED
        BY <1>3, <2>1, <2>2
<1>10. CASE Recapture
    <2> DEFINE t == [txn EXCEPT !.captured = leaf]
               l == IF txn.kind = "update" THEN "recommitted_match" ELSE "adopt"
    <2>1. pc = "recapture" /\ Look(TRUE, l, t)
        BY <1>10 DEF Recapture
    <2>2. t.before = txn.before /\ t.mode = txn.mode /\ t.captured = leaf
        BY <1>1 DEF Locals
    <2> HIDE DEF t
    <2>3. UndonePart("recapture", txn, leaf) => UndonePart(l, t, leaf)
        BY <2>2 DEF UndonePart, CommitPCs, Same
    <2> HIDE DEF l
    <2> QED
        BY <1>3, <2>1, <2>3
<1>11. CASE VerifyRecommitted
    <2> DEFINE l == IF txn.kind = "update" THEN "adopt" ELSE "recapture"
               c == MatchesExcept(txn.before, Tuned)
    <2>1. pc = "recommitted_match" /\ Look(c, l, txn) /\ c \in BOOLEAN
        BY <1>11 DEF VerifyRecommitted, MatchesExcept
    <2>2. UndonePart("recommitted_match", txn, leaf) => UndonePart(l, txn, leaf)
        BY DEF UndonePart, CommitPCs
    <2> HIDE DEF l, c
    <2> QED
        BY <1>3, <2>1, <2>2
<1> QED
    BY <1>4, <1>5, <1>6, <1>7, <1>8, <1>9, <1>10, <1>11 DEF Restore

LEMMA FaultyCalm == ASSUME AInv, CalmInv, Faulty PROVE CalmInv'
<1>0. faults \in Nat /\ tunes \in Nat /\ faults' = faults + 1
      /\ UNCHANGED <<kernelVars, rogue, exits, tunes>>
    BY DEF AInv, SInv, IInv, TypeOK, Faulty, IoError, TransientBusy
<1>1. CASE IoError
    BY <1>0, <1>1, FailCalm DEF IoError
<1>2. CASE TransientBusy
    <2>1. CASE pc = "stage" /\ pc' = "stage_ids" /\ txn' = [txn EXCEPT !.todo = {}]
        <3>1. txn \in Locals /\ txn.mode = "forward"
            BY <2>1, LocalsAre DEF AInv, Sound, StagePCs
        <3>2. txn'.mode = "forward"
            BY <2>1, <3>1 DEF Locals
        <3> QED
            BY <1>0, <3>2 DEF CalmInv, UndonePart
    <2>2. CASE pc = "restore"
        <3>1. Undisturbed => faults + tunes >= 1
            <4>1. txn.mode # "forward"
                BY <2>2, LocalsAre DEF AInv, Sound, RestorePCs
            <4> QED
                BY <2>2, <4>1, MustFault
        <3> QED
            BY <1>0, <3>1 DEF CalmInv, Undisturbed
    <2> QED
        BY <1>2, <2>1, <2>2 DEF TransientBusy, Advance
<1> QED
    BY <1>1, <1>2 DEF Faulty

LEMMA EnvironmentCalm == ASSUME AInv, CalmInv, Environment PROVE CalmInv'
<1> SUFFICES ASSUME Undisturbed', pc' # "idle" PROVE CalmInv'
    BY DEF CalmInv
<1>0. rogue \in Nat /\ exits \in Nat /\ faults \in Nat /\ tunes \in Nat /\ leaf \in Contents
    BY DEF AInv, SInv, IInv, TypeOK
<1>1. KernelTunes
    BY <1>0 DEF Environment, KdamondExits, RogueActs, Undisturbed
<1>2. /\ UNCHANGED <<pc, txn, rogue, faults, exits>> /\ tunes' = tunes + 1
    BY <1>0, <1>1, Tunes
<1>3. faults' + tunes' # 0
    BY <1>0, <1>2
<1>4. faults' + tunes' <= 1 => txn.mode = "forward"
    BY <1>0, <1>2, MustFault DEF Undisturbed
<1> QED
    BY <1>2, <1>3, <1>4 DEF CalmInv, UndonePart

LEMMA CalmInvariance == Spec => []CInv
<1>1. Init => CInv
    BY InitIInv, InitShape, InitAlone, InitCalm DEF CInv, AInv, SInv
<1>2. ASSUME AInv, CalmInv, [Next]_vars PROVE CalmInv'
    <2>1. ASSUME UNCHANGED vars PROVE CalmInv'
        BY <1>2, <2>1 DEF vars, kernelVars, budgets, CalmInv, Undisturbed
    <2> QED
        BY <1>2, <2>1, CallCalm, PrepareCalm, StageCalm, CommitLoopCalm, RestoreCalm, FaultyCalm,
           EnvironmentCalm DEF Next, Proceed
<1>3. AInv /\ CalmInv /\ [Next]_vars => CalmInv'
    BY <1>2
<1>4. Init => CalmInv
    BY <1>1 DEF CInv
<1>5. AInv /\ CalmInv => CInv
    BY DEF CInv
<1> QED
    BY <1>3, <1>4, <1>5, AloneInvariance, PTL DEF Spec

\* An undoing that nobody disturbs gives up only after a second failure.
LEMMA UndoneInTheEnd ==
    ASSUME CInv, Next, Returns, Undisturbed, result' = "rollback_failed"
    PROVE  ~(faults' + tunes <= 1)
<1>0. result' = "rollback_failed"
    OBVIOUS
<1>1. pc # "idle" /\ pc' = "idle"
    BY DEF Returns
<1>2. AInv /\ CalmInv /\ faults \in Nat /\ tunes \in Nat
    BY DEF CInv, AInv, SInv, IInv, TypeOK
<1>3. pc \notin CheckPCs /\ txn.mode # "forward"
    <2>1. CASE Adopt /\ result' = IF txn.mode = "forward" THEN "ok" ELSE "failed"
        BY <2>1
    <2> QED
        BY <2>1, WhoReturns DEF FailReturns
<1>4. faults + tunes >= 1 /\ txn \in Locals /\ Sound(pc, txn) /\ Selected = SelectedOf(txn)
    BY <1>1, <1>2, <1>3, MustFault, LocalsAre DEF AInv
<1>5. CASE IoError
    BY <1>2, <1>4, <1>5 DEF IoError
<1>6. CASE ~IoError
    <2> SUFFICES ASSUME faults' + tunes <= 1 PROVE FALSE
        OBVIOUS
    <2>0. UNCHANGED faults \/ (pc' = "stage" \/ pc' = "stage_ids" \/ pc' = "restore")
        BY <1>6 DEF Next, Call, Proceed, Prepare, VerifyOwned, CaptureBefore, ReadTyped, Recheck,
            VerifyRequest, Stage, StartStaging, StageLeaf, StagingDone, VerifyStagedIdentities,
            VerifyUnchanged, CaptureStaged, CompareTyped, ValuesMatch, StartCommits, CommitLoop,
            VerifyBeforeCommit, Commit, VerifyAfterCommit, Adopt, Restore, VerifyBeforeRestore,
            VerifyBoundary, RestoreLeaf, RestoreDone, VerifyRestoredIdentities, VerifyRestored,
            Recapture, VerifyRecommitted, Faulty, TransientBusy, Environment, KernelTunes,
            KdamondExits, RogueActs, Look, Advance, budgets
    <2>1. UndonePart(pc, txn, leaf)
        BY <1>1, <1>2, <2>0 DEF CalmInv
    <2>2. /\ Identities /\ \A i \in Selected : Identity(i) /\ On(i)
        BY <1>1, <1>2, <1>3, AloneFacts
    <2>3. pc \in CommitPCs => Head(txn.queue) \in Selected
        BY <1>4 DEF Sound, Locals
    <2>4. ASSUME NEW c, c, NEW l, NEW t, Look(c, l, t), l # "idle" PROVE FALSE
        BY <1>1, <2>4 DEF Look, Continue, Advance
    <2>5. CASE CommitLoop
        <3>1. CASE VerifyBeforeCommit
            BY <1>1, <2>2, <2>3, <3>1 DEF VerifyBeforeCommit, CommitPCs, Look, Continue, Advance
        <3>2. CASE Commit
            BY <1>1, <2>2, <2>3, <3>2 DEF Commit, CommitPCs, Advance
        <3>3. CASE VerifyAfterCommit
            BY <1>1, <1>3, <2>1, <2>2, <2>3, <3>3
            DEF VerifyAfterCommit, CommitPCs, Advance, UndonePart
        <3>4. CASE Adopt
            <4>1. MatchesExcept(txn.captured, Tuned)
                BY <1>3, <2>1, <3>4, SameMatches DEF Adopt, UndonePart
            <4> QED
                BY <3>4, <4>1, <1>0, <1>3 DEF Adopt, Return
        <3> QED
            BY <2>5, <3>1, <3>2, <3>3, <3>4 DEF CommitLoop
    <2>6. CASE Restore
        <3>1. CASE VerifyBeforeRestore
            BY <2>2, <2>4, <3>1 DEF VerifyBeforeRestore
        <3>2. CASE VerifyBoundary
            BY <1>1, <3>2 DEF VerifyBoundary, Advance
        <3>3. CASE RestoreLeaf
            <4>1. pc = "restore" /\ txn.todo # {}
                BY <3>3 DEF RestoreLeaf
            <4>2. Exists(Least(txn.todo))
                BY <1>2, <1>3, <2>1, <4>1, RestoreExists
            <4> QED
                BY <1>1, <3>3, <4>2 DEF RestoreLeaf, Look, Continue, Advance
        <3>4. CASE RestoreDone
            <4>1. RestoredMatches(txn.before, AffectedBy(txn.before, txn.journal))
                BY <1>2, <1>3, <2>1, <3>4, RestoredAll DEF RestoreDone
            <4> QED
                BY <2>4, <3>4, <4>1 DEF RestoreDone
        <3>5. CASE VerifyRestoredIdentities
            BY <2>2, <2>4, <3>5 DEF VerifyRestoredIdentities
        <3>6. CASE VerifyRestored
            <4>1. MatchesExcept(txn.before, Tuned)
                BY <1>3, <2>1, <3>6, SameMatches DEF VerifyRestored, UndonePart
            <4> QED
                BY <2>4, <3>6, <4>1 DEF VerifyRestored
        <3>7. CASE Recapture
            BY <2>4, <3>7 DEF Recapture
        <3>8. CASE VerifyRecommitted
            <4>1. MatchesExcept(txn.before, Tuned)
                BY <1>3, <2>1, <3>8, SameMatches DEF VerifyRecommitted, UndonePart
            <4> QED
                BY <2>4, <3>8, <4>1 DEF VerifyRecommitted
        <3> QED
            BY <2>6, <3>1, <3>2, <3>3, <3>4, <3>5, <3>6, <3>7, <3>8 DEF Restore
    <2>7. ~(Prepare \/ Stage)
        BY <1>3, <1>4
        DEF Prepare, VerifyOwned, CaptureBefore, ReadTyped, Recheck,
            VerifyRequest, Stage, StartStaging, StageLeaf, StagingDone, VerifyStagedIdentities,
            VerifyUnchanged, CaptureStaged, CompareTyped, ValuesMatch, StartCommits,
            Sound, CheckPCs, StagePCs
    <2>8. ~(Call \/ TransientBusy \/ Environment)
        BY <1>1 DEF Call, TransientBusy, Advance, Environment, KernelTunes, KdamondExits, RogueActs
    <2> QED
        BY <1>6, <2>5, <2>6, <2>7, <2>8 DEF Next, Proceed, Faulty
<1> QED
    BY <1>5, <1>6

\* What an undisturbed call leaves alone while it runs.
LEMMA Elsewhere ==
    ASSUME AInv, Undisturbed, pc # "idle"
    PROVE  \A l \in Leaves : Dir[l] \notin Selected =>
                /\ active[l] = txn.began.active[l]
                /\ l \notin Tuned => leaf[l] = txn.began.leaf[l]
<1>1. FilesPart(pc, txn, leaf, staged) /\ RunningPart(pc, txn, leaf, active)
      /\ Selected = SelectedOf(txn)
    BY LocalsAre DEF AInv, AloneInv
<1>2. \A l \in Touched(txn.journal) : Dir[l] \in Selected
    BY <1>1, Below DEF Touched, FilesPart
<1> QED
    BY <1>1, <1>2 DEF FilesPart, RunningPart

\* A transaction that nobody disturbs happens as a whole or not at all, for
\* every tree of directories, every request, any number of kdamonds and of
\* calls before it.
THEOREM UpdateAtomicity == Spec => UpdateAtomic
<1>1. ASSUME CInv, Next, Returns, Undisturbed
      PROVE  /\ faults' + tunes <= 1 => result' # "rollback_failed"
             /\ result' = "ok" =>
                 /\ \A l \in DOMAIN txn.goal \ Tuned : leaf'[l] = txn.goal[l]
                 /\ pc = "adopt" \/ InStep =>
                     \A l \in DOMAIN txn.asked \ Tuned :
                         Dir[l] \in Selected => active'[l] = txn.asked[l]
                 /\ \A l \in Leaves : Dir[l] \notin Selected =>
                         /\ active'[l] = txn.began.active[l]
                         /\ l \notin Tuned => leaf'[l] = txn.began.leaf[l]
             /\ result' \in {"rejected", "failed"} =>
                 \A l \in Leaves \ Tuned :
                     /\ leaf'[l] = txn.began.leaf[l]
                     /\ InStep => active'[l] = txn.began.active[l]
             /\ result' = "failed" => \A l \in Leaves \ Tuned : leaf'[l] = staged'[l]
    <2>1. pc # "idle" /\ AInv /\ SInv
        BY <1>1 DEF Returns, CInv, AInv
    <2>2. /\ txn \in Locals /\ Sound(pc, txn) /\ ShapedLocals(txn) /\ Selected = SelectedOf(txn)
          /\ leaf \in Contents /\ Shaped(leaf) /\ DOMAIN txn.goal \subseteq Leaves
        BY <2>1, LocalsAre
    <2>3. FilesPart(pc, txn, leaf, staged) /\ RunningPart(pc, txn, leaf, active)
        BY <1>1, <2>1 DEF AInv, AloneInv
    <2>4. \A l \in Leaves : Dir[l] \notin Selected =>
                /\ active[l] = txn.began.active[l]
                /\ l \notin Tuned => leaf[l] = txn.began.leaf[l]
        BY <1>1, <2>1, Elsewhere
    <2>5. CASE FailReturns
        <3>1. UNCHANGED <<leaf, active>>
            BY <2>5 DEF FailReturns, kernelVars
        <3>2. CASE result' = "rollback_failed"
            BY <1>1, <3>2, UndoneInTheEnd
        <3>3. CASE pc \in CheckPCs /\ result' = "rejected"
            <4>1. txn.journal = {} /\ active = txn.began.active
                BY <2>2, <2>3, <3>3 DEF Sound, RunningPart
            <4>2. \A l \in Leaves \ Tuned : leaf[l] = txn.began.leaf[l]
                BY <2>3, <4>1 DEF FilesPart, Touched
            <4> QED
                BY <3>1, <3>3, <4>1, <4>2
        <3> QED
            BY <2>5, <3>2, <3>3 DEF FailReturns
    <2>6. CASE /\ VerifyRequest /\ txn.kind = "goals" /\ txn.goal = txn.from /\ Owned
               /\ result' = "ok" /\ UNCHANGED <<kernelVars, staged>>
        <3>1. pc = "owned_again" /\ pc \in CheckPCs /\ UNCHANGED <<leaf, active>>
            BY <2>6 DEF VerifyRequest, CheckPCs, kernelVars
        <3>2. /\ txn.journal = {} /\ active = txn.began.active
              /\ txn.asked = txn.goal /\ txn.observed = txn.goal
            BY <2>2, <2>3, <2>6, <3>1 DEF Sound, RunningPart
        <3>3. \A l \in DOMAIN txn.goal \ Tuned : txn.goal[l] = txn.began.leaf[l]
            BY <2>3, <3>1, <3>2 DEF FilesPart
        <3>4. \A l \in Leaves \ Tuned : leaf[l] = txn.began.leaf[l]
            BY <2>3, <3>2 DEF FilesPart, Touched
        <3>5. InStep => \A l \in DOMAIN txn.goal \ Tuned : active[l] = txn.goal[l]
            BY <2>2, <3>2, <3>3 DEF InStep
        <3> QED
            BY <2>2, <2>4, <2>6, <3>1, <3>2, <3>3, <3>4, <3>5
    <2>7. CASE /\ Adopt /\ MatchesExcept(txn.captured, Tuned) /\ staged' = txn.captured
               /\ UNCHANGED kernelVars
               /\ result' = IF txn.mode = "forward" THEN "ok" ELSE "failed"
        <3>1. pc = "adopt" /\ pc \notin CheckPCs /\ UNCHANGED <<leaf, active>>
              /\ (txn.mode = "forward" \/ txn.mode = "rollback")
            BY <2>2, <2>7 DEF Adopt, CheckPCs, kernelVars, Sound, Locals
        <3>2. CASE txn.mode = "forward"
            <4>1. \A l \in DOMAIN txn.goal \ Tuned : leaf[l] = txn.goal[l]
                BY <2>3, <3>1, <3>2 DEF FilesPart
            <4>2. \A i : ~Pending(pc, txn, i)
                BY <3>1 DEF Pending, CommitPCs
            <4>3. \A l \in DOMAIN txn.asked \ Tuned : Dir[l] \in Selected => active[l] = txn.asked[l]
                BY <2>2, <2>3, <3>1, <3>2, <4>2 DEF RunningPart
            <4> QED
                BY <2>4, <2>7, <3>1, <3>2, <4>1, <4>3
        <3>3. CASE txn.mode = "rollback"
            <4>1. Same(leaf, txn.before) /\ Same(txn.before, txn.began.leaf)
                BY <2>3, <3>1, <3>3 DEF FilesPart
            <4>2. \A l \in Leaves \ Tuned : leaf[l] = txn.began.leaf[l]
                BY <4>1 DEF Same
            <4>3. \A i : ~Pending(pc, txn, i)
                BY <3>1 DEF Pending, CommitPCs
            <4>4. \A l \in Leaves \ Tuned :
                    \/ active[l] = leaf[l]
                    \/ active[l] = txn.began.active[l]
                <5>1. \A l \in Leaves \ Tuned :
                        Dir[l] \in SelectedOf(txn) /\ (txn.kind = "goals" => l \in Goals)
                        => active[l] = leaf[l]
                    BY <2>3, <3>1, <3>3, <4>3 DEF RunningPart, RecommitPCs
                <5> QED
                    BY <2>3, <5>1 DEF RunningPart
            <4>5. InStep => \A l \in Leaves \ Tuned : active[l] = txn.began.active[l]
                BY <4>2, <4>4 DEF InStep
            <4>6. Same(leaf, txn.captured)
                BY <2>2, <2>7, <3>1, MatchedSame DEF Sound, Captured, ShapedLocals
            <4> QED
                BY <2>7, <3>1, <3>3, <4>2, <4>5, <4>6 DEF Same
        <3> QED
            BY <3>1, <3>2, <3>3
    <2> QED
        BY <1>1, <2>5, <2>6, <2>7, WhoReturns
<1>2. ASSUME CInv, [Next]_vars
      PROVE  [Returns /\ Undisturbed =>
        /\ faults' + tunes <= 1 => result' # "rollback_failed"
        /\ result' = "ok" =>
            /\ \A l \in DOMAIN txn.goal \ Tuned :
                    leaf'[l] = txn.goal[l]
            /\ pc = "adopt" \/ InStep =>
                \A l \in DOMAIN txn.asked \ Tuned :
                    Dir[l] \in Selected => active'[l] = txn.asked[l]
            /\ \A l \in Leaves : Dir[l] \notin Selected =>
                    /\ active'[l] = txn.began.active[l]
                    /\ l \notin Tuned => leaf'[l] = txn.began.leaf[l]
        /\ result' \in {"rejected", "failed"} =>
            \A l \in Leaves \ Tuned :
                /\ leaf'[l] = txn.began.leaf[l]
                /\ InStep => active'[l] = txn.began.active[l]
        /\ result' = "failed" => \A l \in Leaves \ Tuned : leaf'[l] = staged'[l]]_vars
    BY <1>1, <1>2
<1> QED
    BY <1>2, CalmInvariance, PTL DEF Spec, UpdateAtomic

-----------------------------------------------------------------------------
(* What the session takes over as its own                                  *)

\* All that a call with the locals t has a reason to touch.
ReachOf(t) == StagingOf(t) \cup UNION {Under[c] : c \in StagingOf(t) \cap Counts}

\* How often another controller must have acted, r, when the contents x read
\* earlier differ at m from what the session owns, s: once for the reading, and
\* once more if the files f show the session's value again; and one more when
\* the files did in between.
Early(x, f, s, r, m) == x[m] # s[m] => r >= IF f[m] = s[m] THEN 2 ELSE 1
Late(x, f, s, r, m) == x[m] # s[m] => r >= IF f[m] = s[m] THEN 2 ELSE 3

\* What is known at step l of a leaf m that the call does not reach.
OwnLeaf(l, t, f, s, r, m) ==
    /\ f[m] # s[m] => r >= 1
    /\ l \in {"read", "recheck", "owned_again"} => Early(t.before, f, s, r, m)
    /\ l \in {"recheck", "owned_again"} /\ m \in Typed => Early(t.observed, f, s, r, m)
    /\ l \notin CheckPCs => Late(t.before, f, s, r, m)
    /\ l \notin CheckPCs /\ m \in Typed => Late(t.observed, f, s, r, m)
    /\ l = "compare" => Early(t.captured, f, s, r, m)
    /\ l = "values" /\ m \in Typed => Late(t.captured, f, s, r, m)
    /\ t.mode = "forward" /\ l \in CommitPCs \cup {"commit_ids", "adopt"} /\ m \in Typed
       /\ t.captured[m] # s[m] => r >= 3
    /\ t.mode = "rollback" /\ l \in CommitPCs \cup {"recapture", "recommitted_match", "adopt"}
       /\ t.before[m] # s[m] => r >= 3
    /\ t.mode = "rollback" /\ l = "recommitted_match" => Early(t.captured, f, s, r, m)
    /\ t.mode = "rollback" /\ l = "adopt" => Late(t.captured, f, s, r, m)

OwnPart(l, t, f, s, r) ==
    /\ t.phase = "clean" => t.from = t.asked
    /\ t.kind = "update" /\ l # "owned" =>
        \A m \in Leaves \ Tuned :
            l \in CheckPCs \/ m \notin ReachOf(t) => OwnLeaf(l, t, f, s, r, m)

OwnInv == pc # "idle" => OwnPart(pc, txn, leaf, staged, rogue)

LEMMA ReachIs == Reach = ReachOf(txn)
BY StagingIs DEF Reach, ReachOf

LEMMA InitOwn == Init => OwnInv
BY DEF Init, OwnInv

\* A leaf that a staging does not reach is requested as it was read.
LEMMA UnreachedIs ==
    ASSUME NEW goal, NEW from, DOMAIN goal = Typed, DOMAIN from = Typed,
           Shaped(goal), Shaped(from), NEW m \in Typed, m \notin ToStage(goal, from),
           \A c \in ToStage(goal, from) \cap Counts : m \notin Under[c]
    PROVE  goal[m] = from[m]
<1> SUFFICES ASSUME goal[m] # from[m] PROVE FALSE
    OBVIOUS
<1> DEFINE X == {x \in Typed : x = m \/ (x \in Counts /\ m \in Under[x])}
<1>1. X \in SUBSET Typed /\ m \in X /\ Typed \in SUBSET Leaves
    OBVIOUS
<1>2. \A x \in X : \A c \in Counts \cap Typed : x \in Under[c] => c \in X
    <2> SUFFICES ASSUME NEW x \in X, NEW c \in Counts, x \in Under[c] PROVE m \in Under[c]
        OBVIOUS
    <2> QED
        BY TreeAssumption
<1>3. \A x \in X : x = m \/ (x \in Counts /\ m \in Under[x])
    OBVIOUS
<1> HIDE DEF X
<1>4. PICK x \in X : goal[x] # Absent /\ from[x] # Absent /\ goal[x] # from[x]
    BY ONLY <1>1, <1>2, goal[m] # from[m], DOMAIN goal = Typed, DOMAIN from = Typed,
            Shaped(goal), Shaped(from), DifferVisibly
<1>5. x \in ToStage(goal, from)
    BY <1>1, <1>4 DEF ToStage
<1> QED
    BY <1>3, <1>5

LEMMA Unreached ==
    ASSUME SInv, pc \in StagePCs \ {"stage_ids"}, txn.kind = "update",
           txn.phase = "clean" => txn.from = txn.asked,
           NEW m \in Typed, m \notin ReachOf(txn)
    PROVE  txn.goal[m] = txn.observed[m]
<1>1. /\ txn \in Locals /\ Sound(pc, txn) /\ ShapedLocals(txn)
    BY LocalsAre DEF StagePCs
<1>2. /\ DOMAIN txn.goal = Typed /\ DOMAIN txn.from = Typed /\ DOMAIN txn.observed = Typed
      /\ txn.phase = "main" => txn.asked = txn.goal /\ txn.observed = txn.from
      /\ txn.phase \in {"main", "clean"}
    BY <1>1 DEF Sound, Locals, StagePCs
<1>3. /\ m \notin StagingOf(txn)
      /\ \A c \in StagingOf(txn) \cap Counts : m \notin Under[c]
    BY DEF ReachOf
<1>4. CASE txn.phase = "main"
    BY <1>1, <1>2, <1>3, <1>4, UnreachedIs DEF StagingOf, ShapedLocals
<1>5. CASE txn.phase = "clean"
    <2>1. txn.from = txn.asked
        BY <1>5
    <2>2. txn.from[m] = txn.observed[m]
        BY <1>1, <1>2, <1>3, <2>1, UnreachedIs DEF StagingOf, ShapedLocals
    <2>3. txn.goal[m] = txn.from[m]
        BY <1>1, <1>2, <1>3, <1>5, UnreachedIs DEF StagingOf, ShapedLocals
    <2> QED
        BY <2>2, <2>3
<1> QED
    BY <1>2, <1>4, <1>5

LEMMA FailOwn ==
    ASSUME SInv, OwnInv, pc # "idle", Fail, UNCHANGED <<leaf, staged, rogue>>
    PROVE  OwnInv'
<1>0. txn \in Locals /\ OwnPart(pc, txn, leaf, staged, rogue)
    BY LocalsAre DEF OwnInv
<1>1. CASE pc' = "idle"
    BY <1>1 DEF OwnInv
<1>2. CASE pc \notin CheckPCs /\ txn.mode = "forward"
    <2> DEFINE t == [txn EXCEPT !.mode = "rollback", !.todo = {},
                                !.queue = <<>>, !.captured = Nothing]
    <2>1. pc' = "restore_ids" /\ txn' = t
        BY <1>2 DEF Fail, Advance
    <2>2. /\ t.kind = txn.kind /\ t.goal = txn.goal /\ t.from = txn.from
          /\ t.before = txn.before /\ t.phase = txn.phase /\ t.mode = "rollback"
          /\ t.asked = txn.asked /\ t.observed = txn.observed
        BY <1>0 DEF Locals
    <2> HIDE DEF t
    <2>3. ReachOf(t) = ReachOf(txn)
        BY <2>2 DEF ReachOf, StagingOf
    <2>4. OwnPart("restore_ids", t, leaf, staged, rogue)
        BY <1>0, <1>2, <2>2, <2>3 DEF OwnPart, OwnLeaf, CheckPCs, CommitPCs, Late
    <2> QED
        BY <2>1, <2>4 DEF OwnInv
<1> QED
    BY <1>1, <1>2 DEF Fail, Return

LEMMA LookOwn ==
    ASSUME SInv, OwnInv, pc # "idle", NEW c \in BOOLEAN, NEW l, NEW t, Look(c, l, t),
           c => OwnPart(l, t, leaf, staged, rogue)
    PROVE  OwnInv'
<1>1. CASE c
    BY <1>1 DEF Look, Continue, Advance, kernelVars, budgets, OwnInv
<1>2. CASE ~c
    BY <1>2, FailOwn DEF Look, Continue, kernelVars, budgets
<1> QED
    BY <1>1, <1>2

\* The locals that tell what the call reaches and has read.
SameReading(t) ==
    /\ t.kind = txn.kind /\ t.goal = txn.goal /\ t.from = txn.from
    /\ t.before = txn.before /\ t.captured = txn.captured /\ t.phase = txn.phase
    /\ t.mode = txn.mode /\ t.asked = txn.asked /\ t.observed = txn.observed

LEMMA ReadingAlike ==
    ASSUME NEW t, Alike(t) PROVE SameReading(t)
BY DEF Alike, SameReading

\* From step to step, when at most files that the call reaches changed.
LEMMA ReadingOwn ==
    ASSUME NEW l, NEW t, SameReading(t), pc \notin CheckPCs, l \notin CheckPCs,
           OwnPart(pc, txn, leaf, staged, rogue),
           NEW f, \A m \in Leaves \ Tuned : m \notin ReachOf(txn) => f[m] = leaf[m],
           l \notin {"compare", "values"},
           t.mode = "forward" /\ l \in CommitPCs \cup {"commit_ids", "adopt"}
                => pc \in CommitPCs \cup {"commit_ids"},
           t.mode = "rollback" /\ l \in CommitPCs \cup {"recapture"} => pc \in CommitPCs,
           t.mode = "rollback" => l \notin {"recommitted_match", "adopt"}
    PROVE  OwnPart(l, t, f, staged, rogue)
<1>1. ReachOf(t) = ReachOf(txn)
    BY DEF ReachOf, StagingOf, SameReading
<1>2. t.phase = "clean" => t.from = t.asked
    BY DEF SameReading, OwnPart
<1>3. ASSUME t.kind = "update", NEW m \in Leaves \ Tuned, m \notin ReachOf(t)
      PROVE  OwnLeaf(l, t, f, staged, rogue, m)
    <2>1. OwnLeaf(pc, txn, leaf, staged, rogue, m) /\ f[m] = leaf[m]
        BY <1>1, <1>3 DEF OwnPart, SameReading, CheckPCs
    <2> QED
        BY <2>1 DEF OwnLeaf, SameReading, CheckPCs, CommitPCs, Early, Late
<1> QED
    BY <1>2, <1>3 DEF OwnPart
LEMMA CallOwn == ASSUME SInv, OwnInv, Call PROVE OwnInv'
<1>1. CASE pc' = "idle"
    BY <1>1 DEF OwnInv
<1>2. ASSUME NEW r \in Requests,
             Advance("owned", [NoTxn EXCEPT !.kind = r.kind,
                                            !.began = [leaf |-> leaf, active |-> active],
                                            !.goal = r.want, !.asked = r.want,
                                            !.selected = r.selected])
      PROVE  OwnInv'
    <2>1. pc' = "owned" /\ txn'.phase = "main"
        BY <1>2 DEF Advance, NoTxn
    <2> QED
        BY <2>1 DEF OwnInv, OwnPart
<1> QED
    BY <1>1, <1>2 DEF Call, Return

LEMMA PrepareOwn == ASSUME SInv, OwnInv, Prepare PROVE OwnInv'
<1>0. pc \in CheckPCs /\ pc # "idle" /\ txn.mode = "forward" /\ txn.phase = "main"
    BY LocalsAre DEF Sound, CheckPCs, Prepare, VerifyOwned, CaptureBefore, ReadTyped, Recheck, VerifyRequest
<1>1. /\ txn \in Locals /\ Sound(pc, txn) /\ ShapedLocals(txn)
      /\ leaf \in Contents /\ staged \in Contents /\ Shaped(leaf) /\ Shaped(staged)
      /\ rogue \in Nat
    BY <1>0, LocalsAre DEF SInv, IInv, TypeOK
<1>2. txn.kind = "update" /\ pc # "owned" =>
        \A m \in Leaves \ Tuned : OwnLeaf(pc, txn, leaf, staged, rogue, m)
    BY <1>0 DEF OwnInv, OwnPart
<1>3. Owned \in BOOLEAN /\ (Owned => Same(leaf, staged))
    BY <1>1, MatchedSame DEF Owned, MatchesExcept, Identities
<1>4. CASE VerifyOwned
    <2>1. pc = "owned" /\ Look(Owned, "capture", txn)
        BY <1>4 DEF VerifyOwned
    <2>2. Owned => OwnPart("capture", txn, leaf, staged, rogue)
        BY <1>0, <1>3 DEF OwnPart, OwnLeaf, CheckPCs, CommitPCs, Same
    <2> QED
        BY <1>0, <1>3, <2>1, <2>2, LookOwn
<1>5. CASE CaptureBefore
    <2> DEFINE t == [txn EXCEPT !.before = leaf]
    <2>1. pc = "capture" /\ Look(TRUE, "read", t)
        BY <1>5 DEF CaptureBefore
    <2>2. t.kind = txn.kind /\ t.phase = txn.phase /\ t.mode = txn.mode /\ t.before = leaf
        BY <1>1 DEF Locals
    <2> HIDE DEF t
    <2>3. OwnPart("read", t, leaf, staged, rogue)
        BY <1>0, <1>2, <2>1, <2>2 DEF OwnPart, OwnLeaf, CheckPCs, CommitPCs, Early
    <2> QED
        BY <1>0, <2>1, <2>3, LookOwn
<1>6. CASE ReadTyped
    <2> DEFINE read == [l \in DOMAIN txn.goal |-> leaf[l]]
               t == [txn EXCEPT !.from = read, !.observed = read]
               c == \A l \in DOMAIN read : Above(l) \cap DOMAIN read = {} => Exists(l)
    <2>1. pc = "read" /\ Look(c, "recheck", t) /\ c \in BOOLEAN
        BY <1>6 DEF ReadTyped
    <2>2. \A m \in DOMAIN txn.goal : read[m] = leaf[m]
        OBVIOUS
    <2> HIDE DEF read, c
    <2>3. /\ t.kind = txn.kind /\ t.phase = txn.phase /\ t.mode = txn.mode
          /\ t.before = txn.before /\ t.observed = read
        BY <1>1 DEF Locals
    <2> HIDE DEF t
    <2>4. txn.kind = "update" => DOMAIN txn.goal = Typed
        BY <1>1 DEF Sound
    <2>5. OwnPart("recheck", t, leaf, staged, rogue)
        BY <1>0, <1>2, <2>1, <2>2, <2>3, <2>4 DEF OwnPart, OwnLeaf, CheckPCs, CommitPCs, Early
    <2> QED
        BY <1>0, <2>1, <2>5, LookOwn
<1>7. CASE Recheck
    <2>1. pc = "recheck" /\ Look(MatchesExcept(txn.before, Tuned), "owned_again", txn)
          /\ MatchesExcept(txn.before, Tuned) \in BOOLEAN
        BY <1>7 DEF Recheck, MatchesExcept
    <2>2. OwnPart("owned_again", txn, leaf, staged, rogue)
        BY <1>0, <1>2, <2>1 DEF OwnPart, OwnLeaf, CheckPCs, CommitPCs
    <2> QED
        BY <1>0, <2>1, <2>2, LookOwn
<1>8. CASE VerifyRequest
    <2> DEFINE effective == Effective(txn.goal, txn.from, Selected)
               t == [txn EXCEPT !.goal = effective, !.asked = effective]
    <2>0. pc = "owned_again" /\ UNCHANGED <<kernelVars, states, staged, budgets>>
        BY <1>8 DEF VerifyRequest
    <2>1. CASE Fail
        BY <1>0, <2>0, <2>1, FailOwn DEF budgets, kernelVars
    <2>2. CASE pc' = "idle"
        BY <2>2 DEF OwnInv
    <2>3. CASE Owned /\ Advance("stage_ids", t)
        <3> HIDE DEF effective
        <3>1. /\ t.kind = txn.kind /\ t.phase = txn.phase /\ t.mode = txn.mode
              /\ t.before = txn.before /\ t.observed = txn.observed
            BY <1>1 DEF Locals
        <3> HIDE DEF t
        <3>2. OwnPart("stage_ids", t, leaf, staged, rogue)
            BY <1>0, <1>2, <1>3, <2>0, <2>3, <3>1
            DEF OwnPart, OwnLeaf, CheckPCs, CommitPCs, Early, Late, Same
        <3> QED
            BY <2>0, <2>3, <3>2 DEF Advance, OwnInv, kernelVars, budgets
    <2> QED
        BY <1>8, <2>1, <2>2, <2>3 DEF VerifyRequest, Continue, Effective, Return
<1> QED
    BY <1>4, <1>5, <1>6, <1>7, <1>8 DEF Prepare

LEMMA StageOwn == ASSUME SInv, OwnInv, Stage PROVE OwnInv'
<1>0. pc \in StagePCs /\ pc # "idle" /\ pc \notin CheckPCs
    BY DEF Stage, StartStaging, StageLeaf, StagingDone, VerifyStagedIdentities, VerifyUnchanged,
        CaptureStaged, CompareTyped, ValuesMatch, StartCommits, StagePCs, CheckPCs
<1>1. /\ txn \in Locals /\ Sound(pc, txn) /\ ShapedLocals(txn) /\ Alike(txn)
      /\ leaf \in Contents /\ Shaped(leaf) /\ txn.mode = "forward" /\ rogue \in Nat
    BY <1>0, LocalsAre DEF Sound, SInv, IInv, TypeOK
<1>2. OwnPart(pc, txn, leaf, staged, rogue)
    BY <1>0 DEF OwnInv
<1>3. txn.kind = "update" =>
        \A m \in Leaves \ Tuned : m \notin ReachOf(txn) => OwnLeaf(pc, txn, leaf, staged, rogue, m)
    BY <1>0, <1>2 DEF OwnPart, CheckPCs
<1>4. ASSUME NEW c \in BOOLEAN, NEW l \in StagePCs \ {"compare", "values", "commit_ids"}, NEW t,
             Look(c, l, t), Alike(t)
      PROVE  OwnInv'
    <2>1. l \notin CheckPCs \cup CommitPCs \cup {"commit_ids", "adopt", "compare", "values"}
        BY DEF StagePCs, CheckPCs, CommitPCs
    <2>2. SameReading(t) /\ t.mode = "forward"
        BY <1>1, <1>4, ReadingAlike DEF SameReading
    <2>3. OwnPart(l, t, leaf, staged, rogue)
        BY <1>0, <1>2, <2>1, <2>2, ReadingOwn
    <2> QED
        BY <1>0, <1>4, <2>3, LookOwn
<1>5. CASE StartStaging
    <2> DEFINE S == ToStage(txn.goal, txn.from)
    <2>1. S \in SUBSET Leaves
        BY <1>1, StagedOf DEF Locals
    <2>2. Look(Identities, "stage", [txn EXCEPT !.todo = S]) /\ Identities \in BOOLEAN
        BY <1>5 DEF StartStaging, Identities
    <2>3. Alike([txn EXCEPT !.todo = S])
        BY <1>1, <2>1, TodoAlike
    <2> QED
        BY <1>4, <2>2, <2>3 DEF StagePCs
<1>6. CASE StageLeaf
    <2> DEFINE l == Least(txn.todo)
               rest == txn.todo \ {l}
    <2>0. pc = "stage" /\ txn.todo # {}
        BY <1>6 DEF StageLeaf
    <2>1. l \in txn.todo /\ l \in ToStage(txn.goal, txn.from) /\ l \in Leaves
          /\ rest \in SUBSET Leaves
        BY <1>1, <2>0, HasLeast DEF Sound, Locals
    <2>2. CASE Look(TRUE, "stage", [txn EXCEPT !.todo = rest])
        <3>1. Alike([txn EXCEPT !.todo = rest])
            BY <1>1, <2>1, TodoAlike
        <3> QED
            BY <1>4, <2>2, <3>1 DEF StagePCs
    <2>3. CASE Look(FALSE, "stage", txn)
        BY <1>1, <1>4, <2>3 DEF StagePCs
    <2>4. ASSUME NEW v, WriteLeaf(l, v),
                 Advance("stage", [txn EXCEPT !.todo = rest, !.journal = @ \cup {l}]),
                 UNCHANGED <<states, staged, calls, rogue, exits, tunes>>
          PROVE  OwnInv'
        <3> DEFINE t == [txn EXCEPT !.todo = rest, !.journal = txn.journal \cup {l}]
        <3>1. SameReading(t)
            BY <1>1 DEF Locals, SameReading
        <3>2. l \in StagingOf(txn)
            BY <1>1, <2>1 DEF StagingOf, Sound, Locals
        <3>3. pc' = "stage" /\ txn' = t
            BY <2>4 DEF Advance
        <3> HIDE DEF l, t
        <3>4. \A m \in Leaves \ Tuned : m \notin ReachOf(txn) => leaf'[m] = leaf[m]
            BY <1>1, <2>1, <2>4, <3>2, WriteReaches DEF ReachOf
        <3>5. OwnPart("stage", t, leaf', staged, rogue)
            BY <1>0, <1>1, <1>2, <3>1, <3>4, ReadingOwn DEF SameReading, CheckPCs, CommitPCs
        <3> QED
            BY <2>4, <3>3, <3>5 DEF OwnInv
    <2> QED
        BY <1>6, <2>2, <2>3, <2>4 DEF StageLeaf
<1>7. CASE CaptureStaged
    <2> DEFINE t == [txn EXCEPT !.captured = leaf]
    <2>1. pc = "snapshot" /\ Look(TRUE, "compare", t)
        BY <1>7 DEF CaptureStaged
    <2>2. /\ t.kind = txn.kind /\ t.goal = txn.goal /\ t.from = txn.from
          /\ t.before = txn.before /\ t.phase = txn.phase /\ t.mode = "forward"
          /\ t.asked = txn.asked /\ t.observed = txn.observed /\ t.captured = leaf
        BY <1>1 DEF Locals
    <2> HIDE DEF t
    <2>3. ReachOf(t) = ReachOf(txn)
        BY <2>2 DEF ReachOf, StagingOf
    <2>4. OwnPart("compare", t, leaf, staged, rogue)
        BY <1>0, <1>2, <1>3, <2>1, <2>2, <2>3 DEF OwnPart, OwnLeaf, CheckPCs, CommitPCs, Early, Late
    <2> QED
        BY <1>0, <2>1, <2>4, LookOwn
<1>8. CASE CompareTyped
    <2> DEFINE c == SameTyped(txn.goal, leaf)
    <2>1. pc = "compare" /\ Look(c, "values", txn) /\ c \in BOOLEAN
        BY <1>8 DEF CompareTyped, SameTyped
    <2>2. ASSUME c, txn.kind = "update", NEW m \in Leaves \ Tuned, m \notin ReachOf(txn)
          PROVE  OwnLeaf("values", txn, leaf, staged, rogue, m)
        <3>1. OwnLeaf("compare", txn, leaf, staged, rogue, m)
            BY <1>3, <2>1, <2>2
        <3>2. m \in Typed => leaf[m] = txn.observed[m]
            <4>1. m \in Typed => txn.goal[m] = txn.observed[m]
                BY <1>2, <2>1, <2>2, Unreached DEF OwnPart, StagePCs
            <4>2. DOMAIN txn.goal = Typed
                BY <1>1, <2>2 DEF Sound
            <4> QED
                BY <2>2, <4>1, <4>2 DEF SameTyped
        <3>3. m \in Typed => Late(txn.captured, leaf, staged, rogue, m)
            BY <1>1, <3>1, <3>2 DEF OwnLeaf, Early, Late, CheckPCs
        <3> QED
            BY <1>1, <2>1, <3>1, <3>3 DEF OwnLeaf, CheckPCs, CommitPCs
    <2> HIDE DEF c
    <2>3. c => OwnPart("values", txn, leaf, staged, rogue)
        BY <1>2, <2>2 DEF OwnPart, CheckPCs
    <2> QED
        BY <1>0, <2>1, <2>3, LookOwn
<1>9. CASE ValuesMatch
    <2> DEFINE c == MatchesExcept(txn.captured, {})
    <2>1. pc = "values" /\ Look(c, "commit_ids", txn) /\ c \in BOOLEAN
        BY <1>9 DEF ValuesMatch, MatchesExcept
    <2>2. c => Same(leaf, txn.captured)
        <3>1. txn.captured \in Contents /\ Shaped(txn.captured)
            BY <1>1, <2>1 DEF Sound, Captured, ShapedLocals
        <3>2. c => MatchesExcept(txn.captured, Tuned)
            BY DEF MatchesExcept
        <3> QED
            BY <1>1, <3>1, <3>2, MatchedSame
    <2> HIDE DEF c
    <2>3. c => OwnPart("commit_ids", txn, leaf, staged, rogue)
        BY <1>0, <1>1, <1>2, <1>3, <2>1, <2>2 DEF OwnPart, OwnLeaf, CheckPCs, CommitPCs, Late, Same
    <2> QED
        BY <1>0, <2>1, <2>3, LookOwn
<1>10. CASE StartCommits
    <2> DEFINE t == [txn EXCEPT !.queue = txn.selected]
               l == IF txn.phase = "main" THEN "commit_id" ELSE "adopt"
    <2>1. pc = "commit_ids" /\ Look(Identities, l, t) /\ Identities \in BOOLEAN
        BY <1>10 DEF StartCommits, Identities
    <2>2. SameReading(t) /\ t.mode = "forward"
        BY <1>1, QueueAlike, ReadingAlike DEF Locals, SameReading
    <2>3. l \notin CheckPCs \cup {"compare", "values"}
        BY DEF CheckPCs
    <2> HIDE DEF t, l
    <2>4. OwnPart(l, t, leaf, staged, rogue)
        BY <1>0, <1>2, <2>1, <2>2, <2>3, ReadingOwn
    <2> QED
        BY <1>0, <2>1, <2>4, LookOwn
<1>11. ASSUME StagingDone \/ VerifyStagedIdentities \/ VerifyUnchanged PROVE OwnInv'
    <2>1. PICK c \in BOOLEAN, l \in {"staged_ids", "unchanged", "snapshot"} : Look(c, l, txn)
        BY <1>11 DEF StagingDone, VerifyStagedIdentities, VerifyUnchanged, Identities, MatchesExcept
    <2> QED
        BY <1>1, <1>4, <2>1 DEF StagePCs
<1> QED
    BY <1>5, <1>6, <1>7, <1>8, <1>9, <1>10, <1>11 DEF Stage

LEMMA CommitLoopOwn == ASSUME SInv, OwnInv, CommitLoop PROVE OwnInv'
<1>0. pc \in CommitPCs \cup {"adopt"} /\ pc # "idle" /\ pc \notin CheckPCs
    BY DEF CommitLoop, VerifyBeforeCommit, Commit, VerifyAfterCommit, Adopt, CommitPCs, CheckPCs
<1>1. txn \in Locals /\ Sound(pc, txn) /\ Alike(txn) /\ rogue \in Nat
    BY <1>0, LocalsAre DEF SInv, IInv, TypeOK
<1>2. OwnPart(pc, txn, leaf, staged, rogue)
    BY <1>0 DEF OwnInv
<1>3. ASSUME NEW l \in CommitPCs, NEW t, SameReading(t), pc \in CommitPCs
      PROVE  OwnPart(l, t, leaf, staged, rogue)
    <2>1. l \notin CheckPCs \cup {"compare", "values", "recommitted_match", "adopt"}
        BY DEF CommitPCs, CheckPCs
    <2> QED
        BY <1>0, <1>2, <1>3, <2>1, ReadingOwn
<1>4. CASE VerifyBeforeCommit
    <2> DEFINE c == Identity(Head(txn.queue))
    <2>1. pc = "commit_id" /\ Look(c, "commit", txn) /\ c \in BOOLEAN
        BY <1>4 DEF VerifyBeforeCommit, Identity
    <2>2. OwnPart("commit", txn, leaf, staged, rogue)
        BY <1>1, <1>3, <2>1, ReadingAlike DEF CommitPCs
    <2> HIDE DEF c
    <2> QED
        BY <1>0, <2>1, <2>2, LookOwn
<1>5. CASE Commit
    <2> DEFINE i == Head(txn.queue)
               t == [txn EXCEPT !.strayed = txn.strayed \/ thread[i] # states[i]]
    <2>0. pc = "commit"
        BY <1>5 DEF Commit
    <2>1. CASE Look(FALSE, "committed", txn)
        BY <1>0, <2>1, LookOwn
    <2>2. CASE CommitLeaves(i, Committed(i)) /\ Advance("committed", t)
               /\ UNCHANGED <<states, staged, budgets>>
        <3>1. SameReading(t)
            BY <1>1 DEF Locals, SameReading
        <3> HIDE DEF t
        <3>2. OwnPart("committed", t, leaf, staged, rogue)
            BY <1>3, <2>0, <3>1 DEF CommitPCs
        <3> QED
            BY <2>2, <3>2 DEF Advance, OwnInv, CommitLeaves, budgets
    <2> QED
        BY <1>5, <2>1, <2>2 DEF Commit
<1>6. CASE VerifyAfterCommit
    <2> DEFINE cleaned == Cleaned(txn.goal, Selected)
               t == [txn EXCEPT !.queue = <<>>, !.phase = "clean",
                                !.from = txn.goal, !.goal = cleaned]
    <2>0. pc = "committed" /\ UNCHANGED <<kernelVars, states, staged, budgets>>
        BY <1>6 DEF VerifyAfterCommit
    <2>00. txn.queue \in Seq(K) /\ txn.queue # <<>>
        BY <1>1, <2>0 DEF Locals, Sound, CommitPCs
    <2>1. CASE Fail
        BY <1>0, <2>0, <2>1, FailOwn DEF budgets, kernelVars
    <2>2. CASE Advance("commit_id", [txn EXCEPT !.queue = Tail(@)])
        <3> DEFINE u == [txn EXCEPT !.queue = Tail(txn.queue)]
        <3>1. Tail(txn.queue) \in Seq(K)
            BY <2>00
        <3>2. SameReading(u)
            BY <1>1, <3>1, QueueAlike, ReadingAlike
        <3> HIDE DEF u
        <3>3. OwnPart("commit_id", u, leaf, staged, rogue)
            BY <1>3, <2>0, <3>2 DEF CommitPCs
        <3> QED
            BY <2>0, <2>2, <3>3 DEF u, Advance, OwnInv, kernelVars, budgets
    <2>3. CASE txn.mode = "forward" /\ Advance("stage_ids", t)
        <3>1. txn.phase = "main" /\ txn.asked = txn.goal
            BY <1>1, <2>0, <2>3 DEF Sound, CommitPCs
        <3> HIDE DEF cleaned
        <3>2. /\ t.kind = txn.kind /\ t.from = txn.goal /\ t.before = txn.before
              /\ t.phase = "clean" /\ t.mode = txn.mode /\ t.asked = txn.asked
              /\ t.observed = txn.observed
            BY <1>1 DEF Locals
        <3> HIDE DEF t
        <3>3. \A m : m \notin ReachOf(t) => m \notin ReachOf(txn)
            <4>1. StagingOf(txn) \subseteq StagingOf(t)
                BY <3>1, <3>2 DEF StagingOf
            <4> QED
                BY <4>1 DEF ReachOf
        <3>4. OwnPart("stage_ids", t, leaf, staged, rogue)
            BY <1>0, <1>2, <2>0, <2>3, <3>1, <3>2, <3>3
            DEF OwnPart, OwnLeaf, CheckPCs, CommitPCs, Late
        <3> QED
            BY <2>0, <2>3, <3>4 DEF Advance, OwnInv, kernelVars, budgets
    <2>4. ASSUME txn.mode # "written",
                 Advance(IF txn.mode = "forward" THEN "adopt"
                         ELSE IF txn.kind = "update" THEN "recapture"
                         ELSE "recommitted_match", [txn EXCEPT !.queue = <<>>])
          PROVE  OwnInv'
        <3> DEFINE u == [txn EXCEPT !.queue = <<>>]
                   l == IF txn.mode = "forward" THEN "adopt"
                        ELSE IF txn.kind = "update" THEN "recapture" ELSE "recommitted_match"
        <3>1. <<>> \in Seq(K)
            OBVIOUS
        <3>2. SameReading(u)
            BY <1>1, <3>1, QueueAlike, ReadingAlike
        <3>3. u.mode = txn.mode /\ u.kind = txn.kind
            BY <3>2 DEF SameReading
        <3> HIDE DEF u
        <3>4. CASE txn.kind = "update" \/ txn.mode = "forward"
            <4>1. l \notin CheckPCs \cup {"compare", "values"}
                  /\ (u.mode = "rollback" => l = "recapture")
                  /\ (u.mode = "forward" => l = "adopt")
                BY <3>3, <3>4 DEF CheckPCs
            <4>2. OwnPart(l, u, leaf, staged, rogue)
                BY <1>0, <1>2, <2>0, <3>2, <4>1, ReadingOwn DEF CommitPCs
            <4> QED
                BY <2>0, <2>4, <4>2 DEF u, Advance, OwnInv, kernelVars, budgets
        <3>5. CASE txn.kind # "update" /\ txn.mode # "forward"
            <4>1. OwnPart(l, u, leaf, staged, rogue)
                BY <1>2, <3>2, <3>5 DEF OwnPart, SameReading
            <4> QED
                BY <2>0, <2>4, <4>1 DEF u, Advance, OwnInv, kernelVars, budgets
        <3> QED
            BY <3>4, <3>5
    <2> QED
        BY <1>6, <2>1, <2>2, <2>3, <2>4 DEF VerifyAfterCommit
<1>7. CASE Adopt
    <2>0. UNCHANGED <<kernelVars, states, budgets>>
        BY <1>7 DEF Adopt
    <2>1. CASE Fail /\ UNCHANGED staged
        BY <1>0, <2>0, <2>1, FailOwn DEF budgets, kernelVars
    <2>2. CASE pc' = "idle"
        BY <2>2 DEF OwnInv
    <2> QED
        BY <1>7, <2>1, <2>2 DEF Adopt, Return
<1> QED
    BY <1>4, <1>5, <1>6, <1>7 DEF CommitLoop

LEMMA RestoreOwn == ASSUME SInv, OwnInv, Restore PROVE OwnInv'
<1>0. pc \in RestorePCs /\ pc # "idle" /\ pc \notin CheckPCs
    BY DEF Restore, VerifyBeforeRestore, VerifyBoundary, RestoreLeaf, RestoreDone,
        VerifyRestoredIdentities, VerifyRestored, Recapture, VerifyRecommitted, RestorePCs, CheckPCs
<1>1. /\ txn \in Locals /\ Sound(pc, txn) /\ Alike(txn) /\ leaf \in Contents /\ Shaped(leaf)
      /\ txn.mode # "forward" /\ ShapedLocals(txn) /\ rogue \in Nat
    BY <1>0, LocalsAre DEF Sound, SInv, IInv, TypeOK
<1>2. OwnPart(pc, txn, leaf, staged, rogue)
    BY <1>0 DEF OwnInv
<1>3. ASSUME NEW c \in BOOLEAN, NEW l \in {"boundary", "restore", "restored_ids", "restored_match"},
             NEW t, Look(c, l, t), SameReading(t)
      PROVE  OwnInv'
    <2>1. l \notin CheckPCs \cup CommitPCs \cup {"compare", "values", "commit_ids", "adopt"}
        BY DEF CheckPCs, CommitPCs
    <2>2. OwnPart(l, t, leaf, staged, rogue)
        BY <1>0, <1>2, <1>3, <2>1, ReadingOwn
    <2> QED
        BY <1>0, <1>3, <2>2, LookOwn
<1>4. CASE VerifyBoundary
    <2> DEFINE S == ToRestore(txn.before, AffectedBy(txn.before, txn.journal))
    <2>1. PICK m \in {"rollback", "written"} : pc' = "restore" /\ txn' = [txn EXCEPT !.todo = S, !.mode = m]
        BY <1>4 DEF VerifyBoundary, Advance
    <2>2. pc = "boundary" /\ UNCHANGED <<kernelVars, states, staged, rogue, exits>>
        BY <1>4 DEF VerifyBoundary
    <2> HIDE DEF S
    <2> DEFINE t == [txn EXCEPT !.todo = S, !.mode = m]
    <2>3. /\ t.kind = txn.kind /\ t.goal = txn.goal /\ t.from = txn.from
          /\ t.before = txn.before /\ t.phase = txn.phase /\ t.mode # "forward"
          /\ t.asked = txn.asked /\ t.observed = txn.observed
        BY <1>1, <2>1 DEF Locals
    <2>4. txn' = t
        BY <2>1
    <2> HIDE DEF t
    <2>5. ReachOf(t) = ReachOf(txn)
        BY <2>3 DEF ReachOf, StagingOf
    <2>6. OwnPart("restore", t, leaf, staged, rogue)
        BY <1>0, <1>2, <2>2, <2>3, <2>5 DEF OwnPart, OwnLeaf, CheckPCs, CommitPCs, Late
    <2> QED
        BY <2>1, <2>2, <2>4, <2>6 DEF OwnInv, kernelVars
<1>5. CASE RestoreLeaf
    <2> DEFINE l == Least(txn.todo)
               t == [txn EXCEPT !.todo = txn.todo \ {l}]
    <2>0. pc = "restore" /\ txn.todo # {}
        BY <1>5 DEF RestoreLeaf
    <2>1. txn.before \in Contents /\ txn.journal \in SUBSET Typed /\ txn.journal \subseteq StagingOf(txn)
        BY <1>1, <2>0 DEF Sound, Locals
    <2>2. /\ l \in txn.todo /\ txn.todo \ {l} \in SUBSET Leaves
          /\ l \in ToRestore(txn.before, AffectedBy(txn.before, txn.journal))
        BY <1>1, <2>0, HasLeast DEF Sound, Locals
    <2>3. l \in Leaves /\ (l \in StagingOf(txn) \/ \E c \in StagingOf(txn) \cap Counts : l \in Under[c])
        BY <2>1, <2>2, RestoredOf
    <2>4. SameReading(t)
        BY <1>1, <2>2, TodoAlike, ReadingAlike
    <2>5. ASSUME NEW c \in BOOLEAN, Look(c, "restore", t) PROVE OwnInv'
        BY <1>3, <2>4, <2>5
    <2>6. CASE /\ WriteLeaf(l, txn.before[l]) /\ Advance("restore", t)
               /\ UNCHANGED <<states, staged, budgets>>
        <3> HIDE DEF t, l
        <3>1. ASSUME NEW m \in Leaves \ Tuned, leaf'[m] # leaf[m] PROVE m \in ReachOf(txn)
            <4>1. m = l \/ (l \in Counts /\ m \in Under[l])
                BY <1>1, <2>3, <2>6, <3>1, WriteReaches
            <4>2. CASE l \in StagingOf(txn)
                BY <4>1, <4>2 DEF ReachOf
            <4>3. ASSUME NEW c \in StagingOf(txn) \cap Counts, l \in Under[c]
                  PROVE  m \in ReachOf(txn)
                <5>1. m \in Under[c]
                    BY <4>1, <4>3, TreeAssumption
                <5> QED
                    BY <5>1 DEF ReachOf
            <4> QED
                BY <2>3, <4>2, <4>3
        <3>2. OwnPart("restore", t, leaf', staged, rogue)
            BY <1>0, <1>1, <1>2, <2>4, <3>1, ReadingOwn DEF SameReading, CheckPCs, CommitPCs
        <3> QED
            BY <2>6, <3>2 DEF Advance, OwnInv, budgets
    <2> QED
        BY <1>5, <2>5, <2>6 DEF RestoreLeaf
<1>6. CASE RestoreDone
    <2> DEFINE t == [txn EXCEPT !.queue = txn.selected]
               l == IF txn.mode = "rollback" /\ txn.kind = "update"
                    THEN "restored_ids" ELSE "commit_id"
               c == RestoredMatches(txn.before, AffectedBy(txn.before, txn.journal))
    <2>1. pc = "restore" /\ Look(c, l, t) /\ c \in BOOLEAN
        BY <1>6 DEF RestoreDone, RestoredMatches
    <2>2. SameReading(t)
        BY <1>1, QueueAlike, ReadingAlike DEF Locals
    <2> HIDE DEF c, t
    <2>3. CASE txn.mode = "rollback" /\ txn.kind = "update"
        BY <1>3, <2>1, <2>2, <2>3
    <2>4. CASE ~(txn.mode = "rollback" /\ txn.kind = "update")
        <3>1. OwnPart("commit_id", t, leaf, staged, rogue)
            <4>1. CASE txn.kind # "update"
                BY <1>2, <2>2, <4>1 DEF OwnPart, SameReading
            <4>2. CASE txn.mode # "rollback"
                BY <1>0, <1>1, <1>2, <2>2, <4>2, ReadingOwn DEF SameReading, CheckPCs
            <4> QED
                BY <2>4, <4>1, <4>2
        <3> QED
            BY <1>0, <2>1, <2>4, <3>1, LookOwn
    <2> QED
        BY <2>3, <2>4
<1>7. CASE VerifyRestored
    <2> DEFINE c == MatchesExcept(txn.before, Tuned)
    <2>1. pc = "restored_match" /\ Look(c, "commit_id", txn) /\ c \in BOOLEAN
        BY <1>7 DEF VerifyRestored, MatchesExcept
    <2>2. c => Same(leaf, txn.before)
        BY <1>1, <2>1, MatchedSame DEF Sound, ShapedLocals
    <2> HIDE DEF c
    <2>3. c => OwnPart("commit_id", txn, leaf, staged, rogue)
        BY <1>0, <1>1, <1>2, <2>1, <2>2 DEF OwnPart, OwnLeaf, CheckPCs, CommitPCs, Late, Same
    <2> QED
        BY <1>0, <2>1, <2>3, LookOwn
<1>8. CASE Recapture
    <2> DEFINE t == [txn EXCEPT !.captured = leaf]
               l == IF txn.kind = "update" THEN "recommitted_match" ELSE "adopt"
    <2>1. pc = "recapture" /\ Look(TRUE, l, t)
        BY <1>8 DEF Recapture
    <2>2. /\ t.kind = txn.kind /\ t.goal = txn.goal /\ t.from = txn.from
          /\ t.before = txn.before /\ t.phase = txn.phase /\ t.mode = txn.mode
          /\ t.asked = txn.asked /\ t.observed = txn.observed /\ t.captured = leaf
        BY <1>1 DEF Locals
    <2> HIDE DEF t
    <2>3. ReachOf(t) = ReachOf(txn) /\ txn.mode = "rollback"
        BY <1>1, <2>1, <2>2 DEF ReachOf, StagingOf, Sound
    <2>4. OwnPart(l, t, leaf, staged, rogue)
        BY <1>0, <1>2, <2>1, <2>2, <2>3 DEF OwnPart, OwnLeaf, CheckPCs, CommitPCs, Early, Late
    <2> QED
        BY <1>0, <2>1, <2>4, LookOwn
<1>9. CASE VerifyRecommitted
    <2> DEFINE l == IF txn.kind = "update" THEN "adopt" ELSE "recapture"
               c == MatchesExcept(txn.before, Tuned)
    <2>1. pc = "recommitted_match" /\ Look(c, l, txn) /\ c \in BOOLEAN
        BY <1>9 DEF VerifyRecommitted, MatchesExcept
    <2>2. c => Same(leaf, txn.before)
        BY <1>1, <2>1, MatchedSame DEF ShapedLocals, Sound
    <2>3. txn.mode = "rollback"
        BY <1>1, <2>1 DEF Sound
    <2> HIDE DEF c
    <2>4. c => OwnPart(l, txn, leaf, staged, rogue)
        BY <1>0, <1>1, <1>2, <2>1, <2>2, <2>3
        DEF OwnPart, OwnLeaf, CheckPCs, CommitPCs, Early, Late, Same
    <2> QED
        BY <1>0, <2>1, <2>4, LookOwn
<1>10. ASSUME VerifyBeforeRestore \/ VerifyRestoredIdentities PROVE OwnInv'
    <2>1. PICK c \in BOOLEAN, l \in {"boundary", "restored_match"} : Look(c, l, txn)
        BY <1>10 DEF VerifyBeforeRestore, VerifyRestoredIdentities, Identities
    <2> QED
        BY <1>1, <1>3, <2>1, ReadingAlike
<1> QED
    BY <1>4, <1>5, <1>6, <1>7, <1>8, <1>9, <1>10 DEF Restore

LEMMA FaultyOwn == ASSUME SInv, OwnInv, Faulty PROVE OwnInv'
<1>1. CASE IoError
    BY <1>1, FailOwn DEF IoError, kernelVars
<1>2. CASE TransientBusy
    <2>0. UNCHANGED <<kernelVars, states, staged, rogue, exits>> /\ pc # "idle" /\ pc \notin CheckPCs
        BY <1>2 DEF TransientBusy, CheckPCs
    <2>1. txn \in Locals /\ OwnPart(pc, txn, leaf, staged, rogue)
        BY <2>0, LocalsAre DEF OwnInv
    <2>2. PICK S : txn' = [txn EXCEPT !.todo = S]
        BY <1>2 DEF TransientBusy, Advance
    <2>3. SameReading(txn')
        BY <2>1, <2>2 DEF Locals, SameReading
    <2>4. pc' \in {"stage_ids", "restore"}
        BY <1>2 DEF TransientBusy, Advance
    <2>5. pc' \notin CheckPCs \cup CommitPCs \cup {"compare", "values", "commit_ids", "adopt",
                                                   "recapture", "recommitted_match"}
        BY <2>4 DEF CheckPCs, CommitPCs
    <2>6. OwnPart(pc', txn', leaf, staged, rogue)
        BY <2>0, <2>1, <2>3, <2>5, ReadingOwn
    <2> QED
        BY <2>0, <2>6 DEF OwnInv, kernelVars
<1> QED
    BY <1>1, <1>2 DEF Faulty

\* Whatever another controller does counts.
LEMMA EnvironmentOwn == ASSUME SInv, OwnInv, Environment PROVE OwnInv'
<1>0. rogue \in Nat /\ leaf \in Contents
    BY DEF SInv, IInv, TypeOK
<1> SUFFICES ASSUME pc' # "idle" PROVE OwnPart(pc', txn', leaf', staged', rogue')
    BY DEF OwnInv
<1>1. UNCHANGED <<staged, pc, txn>>
    BY DEF Environment, KernelTunes, KdamondExits, RogueActs
<1>2. OwnPart(pc, txn, leaf, staged, rogue)
    BY <1>1 DEF OwnInv
<1>3. CASE KernelTunes \/ KdamondExits
    <2>1. rogue' = rogue /\ \A m \in Leaves \ Tuned : leaf'[m] = leaf[m]
        BY <1>0, <1>3, Tunes DEF KdamondExits, EndThread
    <2>2. ASSUME NEW m \in Leaves \ Tuned, OwnLeaf(pc, txn, leaf, staged, rogue, m)
          PROVE  OwnLeaf(pc, txn, leaf', staged, rogue, m)
        BY <2>1, <2>2 DEF OwnLeaf, Early, Late
    <2> QED
        BY <1>1, <1>2, <2>1, <2>2 DEF OwnPart
<1>4. CASE RogueActs
    <2>1. rogue' = rogue + 1
        BY <1>4 DEF RogueActs
    <2>2. ASSUME NEW x, NEW m
          PROVE  /\ Early(x, leaf, staged, rogue, m) => Early(x, leaf', staged, rogue', m)
                 /\ Late(x, leaf, staged, rogue, m) => Late(x, leaf', staged, rogue', m)
        BY <1>0, <2>1 DEF Early, Late
    <2>3. ASSUME NEW m \in Leaves \ Tuned, OwnLeaf(pc, txn, leaf, staged, rogue, m)
          PROVE  OwnLeaf(pc, txn, leaf', staged, rogue', m)
        BY <1>0, <2>1, <2>2, <2>3 DEF OwnLeaf
    <2> QED
        BY <1>1, <1>2, <2>3 DEF OwnPart
<1> QED
    BY <1>3, <1>4 DEF Environment

LEMMA OwnInvariance == Spec => [](SInv /\ OwnInv)
<1>1. Init => SInv /\ OwnInv
    BY InitIInv, InitShape, InitOwn DEF SInv
<1>2. ASSUME SInv, OwnInv, [Next]_vars PROVE SInv' /\ OwnInv'
    <2>1. ASSUME UNCHANGED vars PROVE OwnInv'
        BY <1>2, <2>1 DEF vars, kernelVars, budgets, OwnInv
    <2>2. OwnInv'
        BY <1>2, <2>1, CallOwn, PrepareOwn, StageOwn, CommitLoopOwn, RestoreOwn, FaultyOwn,
           EnvironmentOwn DEF Next, Proceed
    <2>3. IInv
        BY <1>2 DEF SInv
    <2>4. IInv' /\ ShapeInv'
        BY <1>2, <2>3, NextKeeps, ShapeStep
    <2> QED
        BY <2>2, <2>4 DEF SInv
<1> QED
    BY <1>1, <1>2, PTL DEF Spec

\* For every tree and request, what update_configuration takes over as its own
\* configuration, after a success or an undoing, shows no value that another
\* controller gave a known attribute outside the request, unless that
\* controller acted three times during the call: its value was in the files
\* whenever the session captured and compared, and every comparison between
\* those found what had been read before.
THEOREM UpdateAdoptsItsOwn == Spec => UpdateAdoptsOwn
<1>1. ASSUME SInv, OwnInv, Next PROVE AdoptsOwn("update")
    <2> SUFFICES ASSUME pc = "adopt", staged' # staged, txn.kind = "update", rogue <= 2,
                        NEW m \in Typed \ (Tuned \cup Reach)
                 PROVE  staged'[m] = staged[m]
        BY DEF AdoptsOwn
    <2>1. /\ txn \in Locals /\ Sound(pc, txn) /\ ShapedLocals(txn)
          /\ leaf \in Contents /\ Shaped(leaf) /\ rogue \in Nat
        BY <1>1, LocalsAre DEF SInv, IInv, TypeOK
    <2>2. MatchesExcept(txn.captured, Tuned) /\ staged' = txn.captured
        <3>1. Adopt
            <4>1. ASSUME NEW c, NEW l, NEW t, Look(c, l, t) PROVE UNCHANGED staged
                BY <4>1 DEF Look
            <4>2. CASE Prepare
                BY <4>1, <4>2 DEF Prepare, VerifyOwned, CaptureBefore, ReadTyped, Recheck,
                                  VerifyRequest
            <4>3. CASE Stage
                BY <4>1, <4>3 DEF Stage, StartStaging, StageLeaf, StagingDone,
                    VerifyStagedIdentities, VerifyUnchanged, CaptureStaged, CompareTyped,
                    ValuesMatch, StartCommits
            <4>4. CASE CommitLoop
                BY <4>1, <4>4 DEF CommitLoop, VerifyBeforeCommit, Commit, VerifyAfterCommit
            <4>5. CASE Restore
                BY <4>1, <4>5 DEF Restore, VerifyBeforeRestore, VerifyBoundary, RestoreLeaf,
                    RestoreDone, VerifyRestoredIdentities, VerifyRestored, Recapture,
                    VerifyRecommitted
            <4> QED
                BY <1>1, <4>2, <4>3, <4>4, <4>5
                DEF Next, Proceed, Call, Faulty, IoError, TransientBusy, Environment,
                    KernelTunes, KdamondExits, RogueActs
        <3> QED
            BY <3>1 DEF Adopt
    <2>3. leaf[m] = txn.captured[m]
        BY <2>1, <2>2, MatchedSame DEF Sound, Captured, ShapedLocals, Same
    <2>4. OwnLeaf("adopt", txn, leaf, staged, rogue, m)
        BY <1>1, ReachIs DEF OwnInv, OwnPart
    <2>5. txn.mode \in {"forward", "rollback"}
        BY <2>1 DEF Sound, Locals
    <2> QED
        BY <2>1, <2>2, <2>3, <2>4, <2>5 DEF OwnLeaf, Late
<1>2. ASSUME SInv, OwnInv, [Next]_vars PROVE [AdoptsOwn("update")]_vars
    BY <1>1, <1>2
<1> QED
    BY <1>2, OwnInvariance, PTL DEF Spec, UpdateAdoptsOwn

-----------------------------------------------------------------------------
(* The configurations a caller sends: ConfigurationUpdates *)

LEMMA SameCardinality == \A S : Updates!Cardinality(S) = Cardinality(S)
  BY DEF Updates!Cardinality, Cardinality

\* Targets that are kept are those without a marker.
LEMMA RetainedIs ==
    ASSUME NEW s, TargetList(s)
    PROVE  /\ TargetList(Updates!Retained(s))
           /\ \A n \in DOMAIN Updates!Retained(s) :
                \E i \in DOMAIN s : Updates!Retained(s)[n] = s[i] /\ ~s[i].obsolete
<1> DEFINE kept == {i \in DOMAIN s : ~s[i].obsolete}
           At(n) == CHOOSE i \in kept : Updates!Cardinality({j \in kept : j <= i}) = n
           m == Updates!Cardinality(kept)
           r == Updates!Retained(s)
<1>1. r = [n \in 1 .. m |-> s[At(n)]]
  BY Zenon DEF Updates!Retained
<1>2. kept \in SUBSET (1 .. Len(s)) /\ Len(s) \in Nat
  BY DEF TargetList
<1>3. m \in Nat
  <2>1. IsFiniteSet(1 .. Len(s))
    BY <1>2, FS_Interval
  <2>2. IsFiniteSet(kept)
    BY <1>2, <2>1, FS_Subset
  <2> QED
    BY <2>2, FS_CardinalityType, SameCardinality
<1>4. \A i \in kept : i \in DOMAIN s /\ ~s[i].obsolete
  OBVIOUS
<1> HIDE DEF kept, r
<1>5. ASSUME NEW n \in 1 .. m  PROVE At(n) \in kept
  <2>1. m = Cardinality(kept)
    BY SameCardinality
  <2>2. n \in 1 .. Cardinality(kept)
    BY <2>1
  <2>3. PICK i \in kept : Cardinality({j \in kept : j <= i}) = n
    BY ONLY <1>2, <2>2, EveryPlaceTaken
  <2>4. Updates!Cardinality({j \in kept : j <= i}) = n
    BY <2>3, SameCardinality
  <2> QED
    BY <2>4, Zenon
<1> HIDE DEF At, m
<1>6. DOMAIN r = 1 .. m /\ Len(r) = m
  BY <1>1, <1>3
<1>7. \A n \in DOMAIN r : \E i \in DOMAIN s : r[n] = s[i] /\ ~s[i].obsolete
  BY <1>1, <1>4, <1>5, <1>6
<1>8. TargetList(r)
  BY <1>3, <1>6, <1>7 DEF TargetList
<1> QED
  BY <1>7, <1>8 DEF r

LEMMA RetainedAll ==
    ASSUME NEW s, TargetList(s), \A i \in DOMAIN s : ~s[i].obsolete
    PROVE  Len(Updates!Retained(s)) = Len(s)
<1>1. {i \in DOMAIN s : ~s[i].obsolete} = 1 .. Len(s) /\ Len(s) \in Nat
  BY DEF TargetList
<1>2. Cardinality(1 .. Len(s)) = Len(s)
  <2>1. 1 \in Int /\ Len(s) \in Int
    BY <1>1
  <2>2. Cardinality(1 .. Len(s)) = IF 1 > Len(s) THEN 0 ELSE Len(s) - 1 + 1
    BY <2>1, FS_Interval
  <2> QED
    BY <1>1, <2>2
<1>3. DOMAIN Updates!Retained(s) = 1 .. Cardinality(1 .. Len(s))
  BY <1>1, SameCardinality DEF Updates!Retained
<1>4. TargetList(Updates!Retained(s))
  BY RetainedIs
<1> QED
  BY <1>1, <1>2, <1>3, <1>4 DEF TargetList

\* What is left of an update without its markers can be started.
LEMMA UpdateLeavesRunnable ==
    ASSUME NEW c, ContextConfig(c), Updates!validate_running_update(c)
    PROVE  /\ ContextConfig(Updates!without_obsolete_targets(c))
           /\ Updates!validate_runnable(Updates!without_obsolete_targets(c))
           /\ Updates!without_obsolete_targets(c).targets = Updates!Retained(c.targets)
<1> DEFINE d == Updates!without_obsolete_targets(c)
           left == Updates!Retained(c.targets)
<1>1. /\ d = [c EXCEPT !.targets = left]
      /\ TargetList(left)
      /\ \A n \in DOMAIN left : \E i \in DOMAIN c.targets : left[n] = c.targets[i] /\ ~c.targets[i].obsolete
  BY RetainedIs DEF ContextConfig, Updates!without_obsolete_targets
<1>2. /\ DOMAIN d = DOMAIN c /\ d.targets = left
      /\ d.operation = c.operation /\ d.probes = c.probes /\ d.sample = c.sample
      /\ d.aggregation = c.aggregation /\ d.goal = c.goal /\ d.page_table = c.page_table
      /\ d.page_fault = c.page_fault /\ d.sample_filters = c.sample_filters
      /\ d.schemes = c.schemes
  BY <1>1 DEF ContextConfig, ContextFields
<1>3. ContextConfig(d)
  BY <1>1, <1>2 DEF ContextConfig
<1> HIDE DEF d
<1> DEFINE again == Updates!Retained(left)
<1>4. /\ TargetList(again) /\ Len(again) = Len(left)
      /\ \A n \in DOMAIN again : \E i \in DOMAIN left : again[n] = left[i]
      /\ \A n \in DOMAIN left : ~left[n].obsolete
  <2>1. \A n \in DOMAIN left : ~left[n].obsolete
    BY <1>1
  <2> HIDE DEF left
  <2> QED
    BY <1>1, <2>1, RetainedIs, RetainedAll
<1>5. /\ Updates!validate(c) /\ left # <<>> /\ Updates!WeightedProbesAccepted(c)
      /\ Updates!SampleControlRunnable(c) /\ Updates!TargetsRunnable(c)
      /\ \A i \in DOMAIN c.schemes : Updates!SchemeRunnable(c.schemes[i], c.operation, Len(left))
  BY DEF Updates!validate_running_update, Updates!validate_runnable_for_lifecycle,
         Updates!SchemeTargets
<1> HIDE DEF left, again
<1>6. Updates!validate(d)
  BY <1>2, <1>5 DEF Updates!validate, Updates!SchemeRunnable
<1>7. again # <<>>
  BY <1>1, <1>4, <1>5 DEF TargetList
<1>8. Updates!WeightedProbesAccepted(d) /\ Updates!SampleControlRunnable(d)
  BY <1>2, <1>5 DEF Updates!WeightedProbesAccepted, Updates!MaximumHits, Updates!SampleControlRunnable
<1>9. Updates!TargetsRunnable(d)
  <2>1. /\ c.operation \in Updates!Virtual =>
                \A i \in DOMAIN left : left[i].pid # Updates!None
        /\ c.operation = "fvaddr" => \A i \in DOMAIN left : left[i].regions
        /\ c.operation = "paddr" =>
                /\ Len(c.targets) = 1 /\ Len(left) = 1
                /\ c.targets[1].pid = Updates!None /\ c.targets[1].regions
    BY <1>5 DEF Updates!TargetsRunnable, left
  <2>2. c.operation = "paddr" => left[1] = c.targets[1]
    <3> SUFFICES ASSUME c.operation = "paddr"  PROVE left[1] = c.targets[1]
      OBVIOUS
    <3>1. DOMAIN c.targets = {1} /\ 1 \in DOMAIN left
      BY <1>1, <2>1 DEF TargetList, ContextConfig
    <3> QED
      BY <1>1, <3>1
  <2>3. /\ d.operation \in Updates!Virtual =>
                \A i \in DOMAIN again : again[i].pid # Updates!None
        /\ d.operation = "fvaddr" => \A i \in DOMAIN again : again[i].regions
        /\ d.operation = "paddr" =>
                /\ Len(d.targets) = 1 /\ Len(again) = 1
                /\ d.targets[1].pid = Updates!None /\ d.targets[1].regions
    BY <1>2, <1>4, <2>1, <2>2
  <2> QED
    BY <1>2, <2>3 DEF Updates!TargetsRunnable, again
<1>10. \A i \in DOMAIN d.schemes :
            Updates!SchemeRunnable(d.schemes[i], d.operation, Updates!SchemeTargets(d))
  BY <1>2, <1>4, <1>5 DEF Updates!SchemeTargets, again
<1>11. Updates!validate_runnable(d)
  BY <1>2, <1>4, <1>6, <1>7, <1>8, <1>9, <1>10
     DEF Updates!validate_runnable, Updates!validate_runnable_for_lifecycle, again
<1> QED
  BY <1>2, <1>3, <1>11 DEF d, left

\* The running kdamond has the targets of the session at their indexes, and what the
\* session has could be started.
IndexInv ==
    /\ ContextConfig(draft) /\ refused = FALSE
    /\ managed = <<>> => live = <<>>
    /\ managed # <<>> =>
            /\ ContextConfig(managed[1]) /\ Updates!validate_runnable(managed[1])
            /\ live = Updates!Pids(managed[1].targets)

LEMMA EditKeeps ==
    ASSUME IndexInv, NEW field \in DOMAIN Choices, NEW choice \in Choices[field],
           Updates!Edit(field, choice)
    PROVE  IndexInv'
<1>1. managed' = managed /\ live' = live /\ refused' = refused
  BY DEF Updates!Edit
<1>2. ContextConfig(draft')
  <2>1. CASE field \in DOMAIN draft
    <3>1. draft' = [draft EXCEPT ![field] = choice]
      BY <2>1 DEF Updates!Edit
    <3>2. DOMAIN draft' = DOMAIN draft
      BY <3>1
    <3>3. draft'.targets = IF field = "targets" THEN choice ELSE draft.targets
      BY <3>1 DEF IndexInv, ContextConfig, ContextFields
    <3> QED
      BY <3>2, <3>3, TypedDrafts DEF IndexInv, ContextConfig
  <2>2. CASE field \notin DOMAIN draft
    <3>1. draft' = [draft EXCEPT !.schemes[1][field] = choice]
      BY <2>2 DEF Updates!Edit
    <3>2. DOMAIN draft' = DOMAIN draft /\ draft'.targets = draft.targets
      BY <3>1 DEF IndexInv, ContextConfig, ContextFields
    <3> QED
      BY <3>2 DEF IndexInv, ContextConfig
  <2> QED
    BY <2>1, <2>2
<1> QED
  BY <1>1, <1>2 DEF IndexInv, Updates!Pids

LEMMA StartConfigurationKeeps == IndexInv /\ Updates!Start => IndexInv'
<1> SUFFICES ASSUME IndexInv, Updates!Start PROVE IndexInv'
  OBVIOUS
<1>1. /\ managed' = <<draft>> /\ live' = Updates!Pids(draft.targets) /\ draft' = draft /\ refused' = refused
      /\ Updates!validate_runnable(draft)
  BY DEF Updates!Start
<1>2. managed' # <<>> /\ managed'[1] = draft
  BY <1>1
<1> QED
  BY <1>1, <1>2 DEF IndexInv

\* A marker that was let through is on a target that runs, under its own pid.
LEMMA MarkedRuns ==
    ASSUME IndexInv, Updates!Update,
           NEW i \in DOMAIN draft.targets, draft.targets[i].obsolete
    PROVE  i \in DOMAIN live /\ live[i] = draft.targets[i].pid
<1> DEFINE t == draft.targets[i]
           u == managed[1].targets[i]
<1>1. managed # <<>> /\ Updates!validate_obsolete_target_updates(managed[1], draft)
  BY DEF Updates!Update
<1>2. i \in DOMAIN managed[1].targets /\ [t EXCEPT !.obsolete = FALSE] = u
  BY <1>1 DEF Updates!validate_obsolete_target_updates
<1>3. t \in TargetConfigs
  BY DEF IndexInv, ContextConfig, TargetList
<1>4. u.pid = t.pid
  BY <1>2, <1>3 DEF TargetConfigs
<1>5. live = [j \in DOMAIN managed[1].targets |-> managed[1].targets[j].pid]
  BY <1>1 DEF IndexInv, Updates!Pids
<1> QED
  BY <1>2, <1>4, <1>5

LEMMA UpdateConfigurationKeeps == IndexInv /\ Updates!Update => IndexInv'
<1> SUFFICES ASSUME IndexInv, Updates!Update PROVE IndexInv'
  OBVIOUS
<1> DEFINE d == Updates!without_obsolete_targets(draft)
<1>1. ~Updates!KernelRefuses(draft.targets)
  BY MarkedRuns DEF Updates!KernelRefuses
<1>2. /\ live' = Updates!Pids(Updates!Retained(draft.targets))
      /\ refused' = refused /\ draft' = draft
  BY <1>1 DEF Updates!Update, Updates!KernelCommit
<1>3. managed' = <<d>>
  BY <1>2 DEF Updates!Update, IndexInv
<1>4. /\ ContextConfig(d) /\ Updates!validate_runnable(d)
      /\ d.targets = Updates!Retained(draft.targets)
  <2>1. ContextConfig(draft) /\ Updates!validate_running_update(draft)
    BY DEF IndexInv, Updates!Update
  <2> QED
    BY <2>1, UpdateLeavesRunnable
<1>5. live' = Updates!Pids(d.targets)
  BY <1>2, <1>4
<1> HIDE DEF d
<1>6. managed' # <<>> /\ managed'[1] = d
  BY <1>3
<1> QED
  BY <1>2, <1>4, <1>5, <1>6 DEF IndexInv

LEMMA ConfigurationsKeep ==
    ASSUME IndexInv, [Updates!Next]_(Updates!vars)
    PROVE  IndexInv'
<1>1. ASSUME Updates!Reload  PROVE IndexInv'
  BY <1>1 DEF Updates!Reload, IndexInv
<1>2. ASSUME UNCHANGED Updates!vars  PROVE IndexInv'
  BY <1>2 DEF Updates!vars, IndexInv
<1> QED
  BY <1>1, <1>2, EditKeeps, StartConfigurationKeeps, UpdateConfigurationKeeps DEF Updates!Next

\* Whatever a caller edits and sends, in any order, the session is left with a
\* configuration that could have been started afresh, and its indexes name the
\* targets of the running kdamond (validate_running_update, without_obsolete_targets).
THEOREM UpdatesKeepRunnable == Updates!Spec => []UpdatesStayRunnable
<1>1. Updates!Init => IndexInv
  BY TypedDrafts DEF Updates!Init, IndexInv
<1>2. IndexInv /\ [Updates!Next]_(Updates!vars) => IndexInv'
  BY ConfigurationsKeep
<1>3. IndexInv => UpdatesStayRunnable
  BY DEF UpdatesStayRunnable, IndexInv, Updates!UpdatesStayRunnable, Updates!IndexesAgree
<1> QED
  BY <1>1, <1>2, <1>3, PTL DEF Updates!Spec

\* The target a marker removes from the running kdamond is the one the caller named,
\* also when the update is an old one (validate_obsolete_target_updates).
THEOREM MarkersRemoveNamed == Updates!Spec => MarkersRemoveTheNamed
<1> DEFINE Named == \A i \in DOMAIN live :
                        live' # live /\ i \in DOMAIN draft.targets /\ draft.targets[i].obsolete
                        => live[i] = draft.targets[i].pid
<1>1. Updates!Init => IndexInv
  BY TypedDrafts DEF Updates!Init, IndexInv
<1>2. IndexInv /\ [Updates!Next]_(Updates!vars) => IndexInv'
  BY ConfigurationsKeep
<1>3. IndexInv /\ [Updates!Next]_(Updates!vars) => [Named]_(Updates!vars)
  <2> SUFFICES ASSUME IndexInv, Updates!Next PROVE Named
    OBVIOUS
  <2>1. CASE Updates!Start
    BY <2>1 DEF IndexInv, Updates!Start
  <2>2. CASE Updates!Update
    BY <2>2, MarkedRuns
  <2>3. CASE live' = live
    BY <2>3
  <2> QED
    BY <2>1, <2>2, <2>3 DEF Updates!Next, Updates!Edit, Updates!Reload
<1> QED
  BY <1>1, <1>2, <1>3, PTL DEF Updates!Spec, MarkersRemoveTheNamed, Updates!MarkersRemoveTheNamed

=============================================================================
