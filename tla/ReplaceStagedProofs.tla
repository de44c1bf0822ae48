------------------------- MODULE ReplaceStagedProofs -------------------------
(***************************************************************************)
(* Theorems of ReplaceStaged, for every number of kdamonds, every tree of  *)
(* directories, every request and every bound. The lemmas on directories   *)
(* are those of UpdateTransactionProofs, for the files of this module.     *)
(***************************************************************************)
EXTENDS ReplaceStaged, WellFoundedInduction, TLAPS

USE NAssumption, LeavesAssumption, ValuesAssumption, RogueAssumption, BoundsAssumption

-----------------------------------------------------------------------------
(* Leaves and directories                                                  *)

\* Writing a count or another leaf leaves every file with a value, or absent.
LEMMA WrittenTyped ==
    ASSUME leaf \in Contents, NEW l \in Leaves, NEW v \in Values
    PROVE  Written(l, v) \in Contents
<1>1. \A m \in Leaves : leaf[m] \in Values \cup {Absent}
    BY DEF Contents
<1>2. \A m \in Leaves : Written(l, v)[m] \in Values \cup {Absent}
    BY <1>1 DEF Written
<1>3. Written(l, v) = [m \in Leaves |-> Written(l, v)[m]]
    BY DEF Written
<1> QED
    BY <1>2, <1>3 DEF Contents

\* A set of leaves that is not empty has a first one.
LEMMA HasLeast ==
    ASSUME NEW S \in SUBSET Leaves, S # {}
    PROVE  Least(S) \in S /\ \A m \in S : Least(S) <= m
<1> DEFINE R == OpToRel(<, Nat)
<1>1. IsWellFoundedOn(R, Nat)
    BY NatLessThanWellFounded
<1>2. S \in SUBSET Nat
    OBVIOUS
<1>3. PICK x \in S : \A y \in S : ~(<<y, x>> \in R)
    BY <1>1, <1>2, WFMin, Zenon
<1>4. \A y \in S : ~(y < x)
    BY <1>2, <1>3, Zenon DEF OpToRel
<1>5. \A y \in S : x <= y
    BY <1>2, <1>4
<1> QED
    BY <1>5 DEF Least

\* What lies below a count is a later leaf of the same kdamond, and what lies
\* below a count there lies below the outer one.
LEMMA Below ==
    ASSUME NEW c \in Counts, NEW m \in Under[c]
    PROVE  /\ m \in Leaves /\ c < m /\ m # c /\ Dir[m] = Dir[c] /\ c \in Above(m)
           /\ m \in Counts => Under[m] \subseteq Under[c]
           /\ \A d \in Counts : d \in Under[c] /\ m \in Under[d] => d # m
<1>1. m \in Leaves /\ c \in Leaves /\ Leaves \subseteq Nat
    OBVIOUS
<1>2. c < m /\ Dir[m] = Dir[c]
    BY TreeAssumption
<1>3. m \in Counts => Under[m] \subseteq Under[c]
    BY TreeAssumption
<1>4. \A d \in Counts : m \in Under[d] => d < m
    BY TreeAssumption
<1> QED
    BY <1>1, <1>2, <1>3, <1>4 DEF Above

LEMMA NearestIs ==
    ASSUME NEW l \in Leaves, NEW c \in Counts, Nearest(c, l)
    PROVE  /\ l \in Under[c] /\ c < l /\ Dir[l] = Dir[c] /\ Above(l) # {}
           /\ \A d \in Counts : l \in Under[d] => d = c \/ c \in Under[d]
<1>1. l \in Under[c]
    BY DEF Nearest, Above
<1> QED
    BY <1>1, Below DEF Nearest, Above

LEMMA HasNearest ==
    ASSUME NEW l \in Leaves, Above(l) # {}
    PROVE  \E c \in Counts : Nearest(c, l)
BY TreeAssumption

\* A write leaves every directory with the children its count says.
LEMMA WrittenShaped ==
    ASSUME leaf \in Contents, Shaped(leaf), NEW l \in Leaves, Exists(l), NEW v \in Values
    PROVE  Shaped(Written(l, v))
<1> DEFINE f == Written(l, v)
<1>1. DOMAIN f = Leaves /\ DOMAIN leaf = Leaves
    BY DEF Written, Contents
<1>2. \A m \in Leaves : m # l /\ ~(l \in Counts /\ m \in Under[l]) => f[m] = leaf[m]
    BY DEF Written
<1>3. f[l] = v /\ v # Absent /\ Fresh # Absent /\ leaf[l] # Absent
    BY DEF Written, Exists
<1>4. \A m \in Leaves : m # l /\ l \in Counts /\ m \in Under[l]
            => f[m] = IF m \in Made[l][v] THEN Fresh ELSE Absent
    BY DEF Written
<1> HIDE DEF f
<1>5. ASSUME NEW m \in Leaves, Above(m) \cap Leaves = {} PROVE f[m] # Absent
    <2>1. leaf[m] # Absent
        BY <1>1, <1>5 DEF Shaped
    <2>2. ~(l \in Counts /\ m \in Under[l])
        BY <1>5 DEF Above
    <2> QED
        BY <1>2, <1>3, <2>1, <2>2
<1>6. ASSUME NEW m \in Leaves, NEW c \in Counts, Nearest(c, m)
      PROVE  f[m] # Absent <=> f[c] # Absent /\ m \in Made[c][f[c]]
    <2>0. /\ m \in Under[c] /\ c # m /\ Above(m) \cap Leaves # {}
          /\ \A d \in Counts : m \in Under[d] => d = c \/ c \in Under[d]
        BY <1>6, NearestIs, Below DEF Above
    <2>1. leaf[m] # Absent <=> leaf[c] # Absent /\ m \in Made[c][leaf[c]]
        BY <1>1, <1>6, <2>0 DEF Shaped
    <2>2. CASE m = l
        <3>1. ~(l \in Counts /\ c \in Under[l]) /\ c # l
            BY <2>0, <2>2, Below
        <3>2. f[c] = leaf[c]
            BY <1>2, <3>1
        <3> QED
            BY <1>3, <2>1, <2>2, <3>2
    <2>3. CASE m # l /\ ~(l \in Counts /\ m \in Under[l])
        <3>1. c # l /\ ~(l \in Counts /\ c \in Under[l])
            BY <2>0, <2>3, Below
        <3> QED
            BY <1>2, <2>1, <2>3, <3>1
    <2>4. CASE m # l /\ l \in Counts /\ m \in Under[l] /\ l = c
        BY <1>3, <1>4, <2>4
    <2>5. CASE m # l /\ l \in Counts /\ m \in Under[l] /\ l # c
        <3>1. c \in Under[l] /\ c # l
            BY <2>0, <2>5
        <3>2. f[c] # Absent => f[c] = Fresh
            <4>1. c \in Leaves
                OBVIOUS
            <4> QED
                BY <1>4, <2>5, <3>1, <4>1
        <3>3. m \notin Made[c][Fresh]
            BY TreeAssumption
        <3>4. m \notin Made[l][v]
            <4> SUFFICES ASSUME m \in Made[l][v] PROVE FALSE
                OBVIOUS
            <4>1. Nearest(l, m)
                BY <2>5, TreeAssumption
            <4>2. c = l \/ l \in Under[c]
                BY <2>0, <4>1 DEF Nearest, Above
            <4>3. l \in Under[c]
                BY <2>5, <4>2
            <4> QED
                BY <2>5, <3>1, <4>3, Below
        <3>5. f[m] = Absent
            BY <1>4, <2>5, <3>4
        <3> QED
            BY <3>2, <3>3, <3>5
    <2> QED
        BY <2>2, <2>3, <2>4, <2>5
<1>7. \A m \in Leaves : IF Above(m) \cap DOMAIN f = {} THEN f[m] # Absent
            ELSE \A c \in Counts : Nearest(c, m) =>
                /\ c \in DOMAIN f
                /\ f[m] # Absent <=> f[c] # Absent /\ m \in Made[c][f[c]]
    BY <1>1, <1>5, <1>6
<1> QED
    BY <1>1, <1>7 DEF Shaped, f

\* What is read of the leaves a configuration knows has the shape of the files.
LEMMA ReadShaped ==
    ASSUME leaf \in Contents, Shaped(leaf), NEW D \in SUBSET Leaves,
           \A l \in D : Above(l) \cap D = {} => leaf[l] # Absent,
           \A l \in D : Above(l) \cap D # {} => \A c \in Counts : Nearest(c, l) => c \in D
    PROVE  Shaped([l \in D |-> leaf[l]])
<1> DEFINE f == [l \in D |-> leaf[l]]
<1>1. DOMAIN f = D /\ DOMAIN leaf = Leaves /\ \A l \in D : f[l] = leaf[l]
    BY DEF Contents
<1> HIDE DEF f
<1>2. ASSUME NEW l \in D, Above(l) \cap D # {}, NEW c \in Counts, Nearest(c, l)
      PROVE  c \in D /\ (f[l] # Absent <=> f[c] # Absent /\ l \in Made[c][f[c]])
    <2>1. c \in D
        BY <1>2
    <2>2. Above(l) \cap Leaves # {}
        BY <1>2
    <2>3. leaf[l] # Absent <=> leaf[c] # Absent /\ l \in Made[c][leaf[c]]
        BY <1>1, <1>2, <2>2 DEF Shaped
    <2> QED
        BY <1>1, <2>1, <2>3
<1> QED
    BY <1>1, <1>2 DEF Shaped, f

\* Where two trees differ, some leaf is there in both with different values: the
\* first leaf that differs, since the counts above it agree.
LEMMA DifferVisibly ==
    ASSUME NEW D \in SUBSET Leaves, NEW f, NEW g, DOMAIN f = D, DOMAIN g = D,
           Shaped(f), Shaped(g), NEW X \in SUBSET D,
           \A m \in X : \A c \in Counts \cap D : m \in Under[c] => c \in X,
           NEW l \in X, f[l] # g[l]
    PROVE  \E m \in X : f[m] # Absent /\ g[m] # Absent /\ f[m] # g[m]
<1> DEFINE S == {x \in X : f[x] # g[x]}
           m == Least(S)
<1>1. m \in S /\ \A x \in S : m <= x
    BY HasLeast
<1>2. m \in X /\ m \in D /\ m \in Leaves /\ f[m] # g[m]
    BY <1>1
<1> HIDE DEF S, m
<1>3. CASE Above(m) \cap D = {}
    BY <1>2, <1>3 DEF Shaped
<1>4. CASE Above(m) \cap D # {}
    <2>1. PICK c \in Counts : Nearest(c, m)
        BY <1>2, <1>4, HasNearest
    <2>2. c \in D /\ (f[m] # Absent <=> f[c] # Absent /\ m \in Made[c][f[c]])
          /\ (g[m] # Absent <=> g[c] # Absent /\ m \in Made[c][g[c]])
        BY <1>2, <1>4, <2>1 DEF Shaped
    <2>3. m \in Under[c] /\ c < m /\ c \in Nat /\ m \in Nat
        BY <1>2, <2>1, NearestIs
    <2>4. c \in X /\ c \notin S
        BY <1>1, <1>2, <2>2, <2>3
    <2>5. f[c] = g[c]
        BY <2>4 DEF S
    <2> QED
        BY <1>2, <2>2, <2>5
<1> QED
    BY <1>3, <1>4

-----------------------------------------------------------------------------
(* Types and shapes                                                        *)

\* What each step of a call has found out.
Sound(l, t) ==
    /\ Shaped(t.goal)
    /\ l \in CheckPCs => ~t.undoing
    /\ l \notin {"verify", "stopped", "read"} =>
        /\ t.previous \in Known /\ Shaped(t.previous)
        /\ t.from = (IF t.undoing THEN Unobserved ELSE t.previous)
        /\ t.undoing => t.goal = t.previous
    /\ l = "stage" => t.todo \subseteq ToStage(t.goal, t.from)
    /\ l \in {"compare", "values", "adopt"} =>
        t.captured \in Contents /\ Shaped(t.captured)

SInv ==
    /\ TypeOK
    /\ Shaped(leaf)
    /\ pc # "idle" => Sound(pc, txn)

LEMMA NothingShaped == Shaped(Nothing)
BY DEF Shaped, Nothing

LEMMA InitSound == Init => SInv
<1> SUFFICES ASSUME Init PROVE SInv
    OBVIOUS
<1>1. leaf \in Contents /\ Shaped(leaf)
    BY InitialAssumption DEF Init
<1>2. thread \in [K -> 0 .. MaxPid] /\ nextPid \in 1 .. MaxPid + 1
    BY DEF Init
<1> QED
    BY <1>1, <1>2 DEF Init, SInv, TypeOK, PCs, Results

\* The call goes on or returns, and nothing else happens.
LEMMA AdvanceKeeps ==
    ASSUME SInv, NEW l \in PCs \ {"idle"}, NEW t \in Locals, Sound(l, t), Advance(l, t),
           leaf' \in Contents, Shaped(leaf)', UNCHANGED <<active, thread, nextPid, staged>>,
           calls' \in 0 .. MaxCalls, rogue' \in 0 .. MaxRogue, faults' \in 0 .. MaxFaults
    PROVE  SInv'
BY DEF SInv, TypeOK, Advance

LEMMA ReturnKeeps ==
    ASSUME SInv, NEW r \in Results, Return(r), UNCHANGED <<kernelVars, calls, rogue>>,
           staged' \in Contents, faults' \in 0 .. MaxFaults
    PROVE  SInv'
<1>1. Shaped(leaf)'
    BY DEF SInv, kernelVars
<1> QED
    BY <1>1 DEF SInv, TypeOK, Return, kernelVars, PCs

LEMMA FailKeeps ==
    ASSUME SInv, pc # "idle", Fail, UNCHANGED <<kernelVars, staged, calls, rogue>>,
           faults' \in 0 .. MaxFaults
    PROVE  SInv'
<1>1. /\ txn \in Locals /\ Sound(pc, txn) /\ pc \in PCs /\ leaf' \in Contents /\ Shaped(leaf)'
      /\ staged' \in Contents
      /\ calls' \in 0 .. MaxCalls /\ rogue' \in 0 .. MaxRogue
    BY DEF SInv, TypeOK, kernelVars
<1>2. CASE pc \in CheckPCs
    <2>1. Return("rejected")
        BY <1>2 DEF Fail
    <2> QED
        BY <1>1, <2>1, ReturnKeeps DEF Results
<1>3. CASE pc \notin CheckPCs /\ txn.undoing
    <2>1. Return("rollback_failed")
        BY <1>3 DEF Fail
    <2> QED
        BY <1>1, <2>1, ReturnKeeps DEF Results
<1>4. CASE pc \notin CheckPCs /\ ~txn.undoing
    <2> DEFINE t == [txn EXCEPT !.undoing = TRUE, !.goal = txn.previous,
                                !.from = Unobserved, !.todo = {}, !.captured = Nothing]
    <2>1. Advance("stage_stopped", t)
        BY <1>4 DEF Fail
    <2>2. txn.previous \in Known /\ Shaped(txn.previous) /\ Unobserved \in Known
        BY <1>1, <1>4 DEF Sound, CheckPCs, Unobserved, Known
    <2>3. t \in Locals
        BY <1>1, <2>2 DEF Locals
    <2>4. /\ t.undoing /\ t.goal = txn.previous /\ t.from = Unobserved
          /\ t.previous = txn.previous
        BY <1>1 DEF Locals
    <2> HIDE DEF t
    <2>5. Sound("stage_stopped", t)
        BY <2>2, <2>4 DEF Sound, CheckPCs
    <2> QED
        BY <1>1, <2>1, <2>3, <2>5, AdvanceKeeps DEF PCs, StagePCs, kernelVars
<1> QED
    BY <1>2, <1>3, <1>4

LEMMA LookKeeps ==
    ASSUME SInv, pc # "idle", NEW c \in BOOLEAN, NEW l \in PCs \ {"idle"}, NEW t,
           c => t \in Locals /\ Sound(l, t), Look(c, l, t)
    PROVE  SInv'
<1>1. /\ leaf' \in Contents /\ Shaped(leaf)' /\ staged' \in Contents
      /\ calls' \in 0 .. MaxCalls /\ rogue' \in 0 .. MaxRogue /\ faults' \in 0 .. MaxFaults
      /\ UNCHANGED <<kernelVars, staged, calls, rogue>> /\ UNCHANGED <<active, thread, nextPid, staged>>
    BY DEF SInv, TypeOK, Look, kernelVars, budgets
<1>2. CASE c
    BY <1>1, <1>2, AdvanceKeeps DEF Look
<1>3. CASE ~c
    BY <1>1, <1>3, FailKeeps DEF Look
<1> QED
    BY <1>2, <1>3

\* A written leaf leaves the files typed and shaped.
LEMMA WriteKeeps ==
    ASSUME SInv, NEW l \in Leaves, NEW v \in Values, WriteLeaf(l, v)
    PROVE  leaf' \in Contents /\ Shaped(leaf)' /\ UNCHANGED <<active, thread, nextPid>>
<1>1. leaf' = Written(l, v) /\ leaf' \in Contents
    BY WrittenTyped DEF SInv, TypeOK, WriteLeaf
<1>2. Shaped(Written(l, v))
    BY WrittenShaped DEF SInv, TypeOK, WriteLeaf
<1>3. Shaped(leaf)'
    BY <1>1, <1>2
<1> QED
    BY <1>1, <1>3 DEF WriteLeaf

LEMMA CallKeeps == ASSUME SInv, Call PROVE SInv'
<1>1. PICK r \in Requests : Advance("verify", [NoTxn EXCEPT !.goal = r, !.began = leaf])
    BY DEF Call
<1> DEFINE t == [NoTxn EXCEPT !.goal = r, !.began = leaf]
<1>2. r \in Known /\ Shaped(r) /\ leaf \in Contents
    BY RequestsAssumption DEF SInv, TypeOK
<1>3. t \in Locals
    BY <1>2 DEF Locals, NoTxn
<1>4. t.goal = r /\ ~t.undoing
    BY DEF NoTxn
<1>5. Advance("verify", t)
    BY <1>1
<1> HIDE DEF t
<1>6. Sound("verify", t)
    BY <1>2, <1>4 DEF Sound
<1>7. /\ leaf' \in Contents /\ Shaped(leaf)' /\ UNCHANGED <<active, thread, nextPid, staged>>
      /\ calls' \in 0 .. MaxCalls /\ rogue' \in 0 .. MaxRogue /\ faults' \in 0 .. MaxFaults
    BY DEF SInv, TypeOK, Call, kernelVars
<1> QED
    BY <1>3, <1>5, <1>6, <1>7, AdvanceKeeps DEF PCs, CheckPCs

\* What is read of the typed leaves is a configuration.
LEMMA Reading ==
    ASSUME SInv
    PROVE  [l \in Typed |-> leaf[l]] \in Known /\ Shaped([l \in Typed |-> leaf[l]])
<1>1. leaf \in Contents /\ Shaped(leaf) /\ Typed \in SUBSET Leaves
    BY DEF SInv, TypeOK
<1>2. \A l \in Typed : Above(l) \cap Typed = {} => leaf[l] # Absent
    <2>1. \A l \in Leaves : Above(l) \subseteq Typed /\ DOMAIN leaf = Leaves
        BY <1>1 DEF Above, Contents
    <2> QED
        BY <1>1, <2>1 DEF Shaped
<1>3. \A l \in Typed : Above(l) \cap Typed # {} => \A c \in Counts : Nearest(c, l) => c \in Typed
    OBVIOUS
<1>4. Shaped([l \in Typed |-> leaf[l]])
    BY <1>1, <1>2, <1>3, ReadShaped
<1>5. [l \in Typed |-> leaf[l]] \in Known
    BY <1>1 DEF Known, Contents
<1> QED
    BY <1>4, <1>5

LEMMA PrepareKeeps == ASSUME SInv, Prepare PROVE SInv'
<1>1. pc # "idle" /\ txn \in Locals /\ Sound(pc, txn)
    BY DEF Prepare, Verify, VerifyStopped, ReadPrevious, VerifyAgain, SInv, TypeOK
<1>2. CASE Verify
    <2>1. Sound("stopped", txn) /\ Verified \in BOOLEAN
        BY <1>1, <1>2 DEF Verify, Sound, CheckPCs, Verified, MatchesExcept
    <2> QED
        BY <1>1, <1>2, <2>1, LookKeeps DEF Verify, PCs, CheckPCs
<1>3. CASE VerifyStopped
    <2>1. Sound("read", txn) /\ AllStopped \in BOOLEAN
        BY <1>1, <1>3 DEF VerifyStopped, Sound, CheckPCs, AllStopped
    <2> QED
        BY <1>1, <1>3, <2>1, LookKeeps DEF VerifyStopped, PCs, CheckPCs
<1>4. CASE ReadPrevious
    <2> DEFINE p == [l \in Typed |-> leaf[l]]
               t == [txn EXCEPT !.previous = p, !.from = p]
    <2>1. p \in Known /\ Shaped(p)
        BY Reading
    <2>2. Look(TRUE, "verify_again", t) /\ pc = "read"
        BY <1>4 DEF ReadPrevious
    <2> HIDE DEF p
    <2>3. t \in Locals
        BY <1>1, <2>1 DEF Locals
    <2>4. t.previous = p /\ t.from = p /\ t.undoing = txn.undoing /\ t.goal = txn.goal
        BY <1>1 DEF Locals
    <2> HIDE DEF t
    <2>5. Sound("verify_again", t)
        BY <1>1, <2>1, <2>2, <2>4 DEF Sound, CheckPCs
    <2> QED
        BY <1>1, <2>2, <2>3, <2>5, LookKeeps DEF PCs, CheckPCs
<1>5. CASE VerifyAgain
    <2>1. Sound("stage_stopped", txn) /\ Verified \in BOOLEAN
        BY <1>1, <1>5 DEF VerifyAgain, Sound, CheckPCs, Verified, MatchesExcept
    <2> QED
        BY <1>1, <1>5, <2>1, LookKeeps DEF VerifyAgain, PCs, StagePCs
<1> QED
    BY <1>2, <1>3, <1>4, <1>5 DEF Prepare

\* What a staging writes.
LEMMA StagedOf ==
    ASSUME NEW goal \in Known, NEW from, NEW l \in ToStage(goal, from)
    PROVE  l \in Typed /\ l \in Leaves /\ goal[l] \in Values
BY DEF ToStage, Known

\* One leaf less to do.
LEMMA RestOf ==
    ASSUME SInv, pc = "stage", txn.todo # {}
    PROVE  LET l == Least(txn.todo)
               rest == [txn EXCEPT !.todo = @ \ {l}]
           IN  /\ l \in txn.todo /\ (\A q \in txn.todo : l <= q)
               /\ l \in Typed /\ l \in Leaves /\ txn.goal[l] \in Values
               /\ l \in ToStage(txn.goal, txn.from) /\ txn.todo \subseteq ToStage(txn.goal, txn.from)
               /\ rest \in Locals /\ Sound("stage", rest)
               /\ rest.goal = txn.goal /\ rest.from = txn.from /\ rest.undoing = txn.undoing
               /\ rest.previous = txn.previous /\ rest.began = txn.began
               /\ rest.todo = txn.todo \ {l}
<1> DEFINE l == Least(txn.todo)
           rest == [txn EXCEPT !.todo = @ \ {l}]
<1>1. txn \in Locals /\ Sound(pc, txn)
    BY DEF SInv, TypeOK
<1>2. /\ txn.goal \in Known /\ txn.todo \subseteq Typed
      /\ txn.todo \subseteq ToStage(txn.goal, txn.from)
    BY <1>1 DEF Locals, Sound
<1>3. l \in txn.todo /\ \A q \in txn.todo : l <= q
    BY <1>2, HasLeast
<1>4. l \in Typed /\ l \in Leaves /\ txn.goal[l] \in Values
    BY <1>2, <1>3, StagedOf
<1> HIDE DEF l
<1>5. rest \in Locals
    BY <1>1, <1>2 DEF Locals
<1>6. /\ rest.goal = txn.goal /\ rest.from = txn.from /\ rest.undoing = txn.undoing
      /\ rest.previous = txn.previous /\ rest.began = txn.began
      /\ rest.todo = txn.todo \ {l}
    BY <1>1 DEF Locals
<1> HIDE DEF rest
<1>7. Sound("stage", rest)
    BY <1>1, <1>2, <1>6 DEF Sound, CheckPCs
<1> QED
    BY <1>2, <1>3, <1>4, <1>5, <1>6, <1>7 DEF l, rest

LEMMA StageLeafKeeps == ASSUME SInv, StageLeaf PROVE SInv'
<1> DEFINE l == Least(txn.todo)
           rest == [txn EXCEPT !.todo = @ \ {l}]
<1>1. pc = "stage" /\ txn.todo # {}
    BY DEF StageLeaf
<1>2. l \in Leaves /\ txn.goal[l] \in Values /\ rest \in Locals /\ Sound("stage", rest)
    BY <1>1, RestOf
<1>3. \/ Look(TRUE, "stage", rest) \/ Look(FALSE, "stage", rest)
      \/ /\ \E v \in Values : WriteLeaf(l, v)
         /\ faults' \in 0 .. MaxFaults
         /\ Advance("stage", rest)
         /\ UNCHANGED <<staged, calls, rogue>>
    <2>1. faults \in 0 .. MaxFaults
        BY DEF SInv, TypeOK
    <2>2. faults < MaxFaults => faults + 1 \in 0 .. MaxFaults
        BY <2>1
    <2> QED
        BY <1>2, <2>1, <2>2 DEF StageLeaf
<1> HIDE DEF rest, l
<1>4. "stage" \in PCs \ {"idle"}
    BY DEF PCs, StagePCs
<1>5. CASE Look(TRUE, "stage", rest) \/ Look(FALSE, "stage", rest)
    BY <1>1, <1>2, <1>4, <1>5, LookKeeps
<1>6. CASE /\ \E v \in Values : WriteLeaf(l, v)
           /\ faults' \in 0 .. MaxFaults
           /\ Advance("stage", rest)
           /\ UNCHANGED <<staged, calls, rogue>>
    <2>1. leaf' \in Contents /\ Shaped(leaf)' /\ UNCHANGED <<active, thread, nextPid>>
        BY <1>2, <1>6, WriteKeeps
    <2>2. calls' \in 0 .. MaxCalls /\ rogue' \in 0 .. MaxRogue
        BY <1>6 DEF SInv, TypeOK
    <2> QED
        BY <1>2, <1>4, <1>6, <2>1, <2>2, AdvanceKeeps
<1> QED
    BY <1>3, <1>5, <1>6

LEMMA StageAndVerifyKeeps == ASSUME SInv, StageAndVerify PROVE SInv'
<1>1. pc # "idle" /\ txn \in Locals /\ Sound(pc, txn) /\ leaf \in Contents /\ Shaped(leaf)
    BY DEF StageAndVerify, StartStaging, StageLeaf, StagingDone, VerifyStagedStopped,
           CaptureStaged, CompareTyped, ValuesMatch, Adopt, SInv, TypeOK
<1>2. AllStopped \in BOOLEAN /\ MatchesExcept(txn.captured, {}) \in BOOLEAN
      /\ (\A l \in Typed : leaf[l] = txn.goal[l]) \in BOOLEAN
    BY DEF AllStopped, MatchesExcept
<1>3. CASE StartStaging
    <2> DEFINE t == [txn EXCEPT !.todo = ToStage(txn.goal, txn.from)]
    <2>1. Look(AllStopped, "stage", t) /\ pc = "stage_stopped"
        BY <1>3 DEF StartStaging
    <2>2. ToStage(txn.goal, txn.from) \subseteq Typed
        BY <1>1 DEF Locals, ToStage, Known
    <2>3. t \in Locals
        BY <1>1, <2>2 DEF Locals
    <2>4. /\ t.goal = txn.goal /\ t.from = txn.from /\ t.undoing = txn.undoing
          /\ t.previous = txn.previous /\ t.todo = ToStage(txn.goal, txn.from)
        BY <1>1 DEF Locals
    <2> HIDE DEF t
    <2>5. Sound("stage", t)
        BY <1>1, <2>1, <2>4 DEF Sound, CheckPCs
    <2> QED
        BY <1>1, <1>2, <2>1, <2>3, <2>5, LookKeeps DEF PCs, StagePCs
<1>4. CASE StageLeaf
    BY <1>4, StageLeafKeeps
<1>5. CASE StagingDone
    <2>1. Sound("staged_stopped", txn)
        BY <1>1, <1>5 DEF StagingDone, Sound, CheckPCs
    <2> QED
        BY <1>1, <1>5, <2>1, LookKeeps DEF StagingDone, PCs, StagePCs
<1>6. CASE VerifyStagedStopped
    <2>1. Sound("snapshot", txn)
        BY <1>1, <1>6 DEF VerifyStagedStopped, Sound, CheckPCs
    <2> QED
        BY <1>1, <1>2, <1>6, <2>1, LookKeeps DEF VerifyStagedStopped, PCs, StagePCs
<1>7. CASE CaptureStaged
    <2> DEFINE t == [txn EXCEPT !.captured = leaf]
    <2>1. Look(TRUE, "compare", t) /\ pc = "snapshot"
        BY <1>7 DEF CaptureStaged
    <2>2. t \in Locals
        BY <1>1 DEF Locals
    <2>3. /\ t.goal = txn.goal /\ t.from = txn.from /\ t.undoing = txn.undoing
          /\ t.previous = txn.previous /\ t.captured = leaf
        BY <1>1 DEF Locals
    <2> HIDE DEF t
    <2>4. Sound("compare", t)
        BY <1>1, <2>1, <2>3 DEF Sound, CheckPCs
    <2> QED
        BY <1>1, <2>1, <2>2, <2>4, LookKeeps DEF PCs, StagePCs
<1>8. CASE CompareTyped
    <2>1. Sound("values", txn)
        BY <1>1, <1>8 DEF CompareTyped, Sound, CheckPCs
    <2> QED
        BY <1>1, <1>2, <1>8, <2>1, LookKeeps DEF CompareTyped, PCs, StagePCs
<1>9. CASE ValuesMatch
    <2>1. Sound("adopt", txn)
        BY <1>1, <1>9 DEF ValuesMatch, Sound, CheckPCs
    <2> QED
        BY <1>1, <1>2, <1>9, <2>1, LookKeeps DEF ValuesMatch, PCs, StagePCs
<1>10. CASE Adopt
    <2>1. txn.captured \in Contents /\ faults' \in 0 .. MaxFaults /\ UNCHANGED <<kernelVars, calls, rogue>>
        BY <1>1, <1>10 DEF Adopt, Sound, SInv, TypeOK, budgets
    <2>2. CASE AllStopped
        <3>1. staged' \in Contents /\ Return(IF txn.undoing THEN "failed" ELSE "ok")
            BY <1>10, <2>1, <2>2 DEF Adopt
        <3> QED
            BY <2>1, <3>1, ReturnKeeps DEF Results
    <2>3. CASE ~AllStopped
        BY <1>1, <1>10, <2>1, <2>3, FailKeeps DEF Adopt
    <2> QED
        BY <2>2, <2>3
<1> QED
    BY <1>3, <1>4, <1>5, <1>6, <1>7, <1>8, <1>9, <1>10 DEF StageAndVerify

LEMMA FaultyKeeps == ASSUME SInv, IoError \/ TransientBusy PROVE SInv'
<1>1. faults' \in 0 .. MaxFaults /\ UNCHANGED <<kernelVars, staged, calls, rogue>>
    BY DEF IoError, TransientBusy, SInv, TypeOK
<1>2. CASE IoError
    BY <1>1, <1>2, FailKeeps DEF IoError
<1>3. CASE TransientBusy
    <2> DEFINE t == [txn EXCEPT !.todo = {}]
    <2>1. pc = "stage" /\ Advance("stage_stopped", t)
        BY <1>3 DEF TransientBusy
    <2>2. txn \in Locals /\ Sound(pc, txn)
        BY <2>1 DEF SInv, TypeOK
    <2>3. t \in Locals
        BY <2>2 DEF Locals
    <2>4. /\ t.goal = txn.goal /\ t.from = txn.from /\ t.undoing = txn.undoing
          /\ t.previous = txn.previous
        BY <2>2 DEF Locals
    <2> HIDE DEF t
    <2>5. Sound("stage_stopped", t)
        BY <2>1, <2>2, <2>4 DEF Sound, CheckPCs
    <2>6. /\ leaf' \in Contents /\ Shaped(leaf)' /\ UNCHANGED <<active, thread, nextPid, staged>>
          /\ calls' \in 0 .. MaxCalls /\ rogue' \in 0 .. MaxRogue
        BY <1>1 DEF SInv, TypeOK, kernelVars
    <2> QED
        BY <1>1, <2>1, <2>3, <2>5, <2>6, AdvanceKeeps DEF PCs, StagePCs
<1> QED
    BY <1>2, <1>3

LEMMA RogueKeeps == ASSUME SInv, RogueActs PROVE SInv'
<1>1. rogue' \in 0 .. MaxRogue
    BY DEF RogueActs, SInv, TypeOK
<1>2. CASE \E w \in RogueWritable : WriteLeaf(w[1], w[2])
    <2>1. leaf' \in Contents /\ Shaped(leaf)' /\ UNCHANGED <<active, thread, nextPid>>
        BY <1>2, WriteKeeps
    <2> QED
        BY <1>1, <2>1 DEF RogueActs, SInv, TypeOK
<1>3. CASE \E i \in K : (nextPid <= MaxPid /\ StartThread(i)) \/ EndThread(i)
    <2>1. UNCHANGED leaf /\ leaf \in Contents /\ active \in Contents /\ Shaped(leaf)'
        BY <1>3 DEF StartThread, EndThread, SInv, TypeOK
    <2>2. active' \in Contents
        <3>1. \A l \in Leaves : leaf[l] \in Values \cup {Absent} /\ active[l] \in Values \cup {Absent}
            BY <2>1 DEF Contents
        <3> QED
            BY <1>3, <2>1, <3>1 DEF StartThread, EndThread, Contents
    <2>3. thread' \in [K -> 0 .. MaxPid] /\ nextPid' \in 1 .. MaxPid + 1
        BY <1>3 DEF StartThread, EndThread, SInv, TypeOK
    <2> QED
        BY <1>1, <2>1, <2>2, <2>3 DEF RogueActs, SInv, TypeOK
<1> QED
    BY <1>2, <1>3 DEF RogueActs

LEMMA NextKeeps == ASSUME SInv, [Next]_vars PROVE SInv'
<1>1. CASE UNCHANGED vars
    BY <1>1 DEF vars, kernelVars, budgets, SInv, TypeOK
<1> QED
    BY <1>1, CallKeeps, PrepareKeeps, StageAndVerifyKeeps, FaultyKeeps, RogueKeeps DEF Next, Proceed

LEMMA Soundness == Spec => []SInv
BY InitSound, NextKeeps, PTL DEF Spec

\* The files, the threads and the locals of a call keep their types, for every
\* tree of directories, request and bound.
THEOREM ReplaceTyped == Spec => []TypeOK
<1>1. SInv => TypeOK
    BY DEF SInv
<1> QED
    BY <1>1, Soundness, PTL

-----------------------------------------------------------------------------
(* A call that nobody disturbs                                             *)

\* Requested as it was observed, in a directory that is not rebuilt.
Settled(t) ==
    {m \in DOMAIN t.goal : /\ t.goal[m] # Absent /\ t.goal[m] = t.from[m]
                           /\ ~Resized(t.goal, t.from, m)}

\* A staging that nothing disturbs does not fail.
PlainPart(l, t, f) ==
    /\ l \in {"stage_stopped", "stage"} => \A m \in Settled(t) : f[m] = t.goal[m]
    /\ l = "stage" =>
            \A p \in ToStage(t.goal, t.from) \ t.todo :
                (\A q \in t.todo : p < q) /\ f[p] = t.goal[p]
    /\ l \in {"staged_stopped", "snapshot", "compare"} => \A m \in Typed : f[m] = t.goal[m]
    /\ l \in {"compare", "values", "adopt"} => t.captured = f

\* What the call found, and what it returns to.
FoundPart(l, t, f) ==
    /\ l \in CheckPCs => f = t.began
    /\ l \in StagePCs \cup {"verify_again"} => \A m \in Typed : t.previous[m] = t.began[m]
    /\ l \in {"values", "adopt"} => \A m \in Typed : f[m] = t.goal[m]

\* Nothing failed, or one access did and the call undoes its staging.
Calm(t) == faults = 0 \/ (t.undoing /\ faults <= 1)

AloneInv ==
    rogue = 0 =>
        /\ AllStopped
        /\ pc # "idle" =>
            /\ FoundPart(pc, txn, leaf)
            /\ txn.undoing => faults >= 1
            /\ Calm(txn) => PlainPart(pc, txn, leaf)

LEMMA InitAlone == Init => AloneInv
BY DEF Init, AloneInv, AllStopped, On

LEMMA Busy ==
    ASSUME SInv, pc # "idle"
    PROVE  /\ txn \in Locals /\ Sound(pc, txn) /\ pc \in CheckPCs \cup StagePCs
           /\ txn.goal \in Known /\ Shaped(txn.goal) /\ DOMAIN txn.goal = Typed
           /\ leaf \in Contents /\ Shaped(leaf) /\ DOMAIN leaf = Leaves
           /\ faults \in Nat /\ rogue \in Nat /\ txn.undoing \in BOOLEAN
<1>1. txn \in Locals /\ Sound(pc, txn) /\ leaf \in Contents /\ Shaped(leaf) /\ pc \in PCs
      /\ faults \in Nat /\ rogue \in Nat
    BY DEF SInv, TypeOK
<1> QED
    BY <1>1 DEF Locals, Sound, Known, Contents, PCs

\* The next leaf to stage is there: the count of its directory was staged.
LEMMA StageExists ==
    ASSUME SInv, pc = "stage", PlainPart(pc, txn, leaf), txn.todo # {}
    PROVE  Exists(Least(txn.todo))
<1> DEFINE l == Least(txn.todo)
<1>1. /\ txn.goal \in Known /\ Shaped(txn.goal) /\ DOMAIN txn.goal = Typed
      /\ leaf \in Contents /\ Shaped(leaf) /\ DOMAIN leaf = Leaves
    BY Busy
<1>2. /\ l \in txn.todo /\ (\A q \in txn.todo : l <= q) /\ l \in ToStage(txn.goal, txn.from)
      /\ l \in Typed /\ l \in Leaves /\ txn.goal[l] \in Values
    BY RestOf
<1> SUFFICES Exists(l)
    OBVIOUS
<1> HIDE DEF l
<1>3. CASE Above(l) \cap Leaves = {}
    BY <1>1, <1>2, <1>3 DEF Exists, Shaped
<1>4. CASE Above(l) \cap Leaves # {}
    <2>1. PICK c \in Counts : Nearest(c, l)
        BY <1>2, <1>4, HasNearest
    <2>2. Above(l) \cap Typed # {}
        BY <1>4 DEF Above
    <2>3. c \in Typed /\ txn.goal[c] # Absent /\ l \in Made[c][txn.goal[c]]
        BY <1>1, <1>2, <2>1, <2>2 DEF Shaped
    <2>4. Dir[c] = Dir[l] /\ c < l /\ c \in Nat /\ l \in Nat
        BY <1>2, <2>1, NearestIs
    <2>5. c \in ToStage(txn.goal, txn.from)
        BY <1>1, <1>2, <2>3, <2>4 DEF ToStage
    <2>6. c \notin txn.todo
        BY <1>2, <2>4
    <2>7. leaf[c] = txn.goal[c]
        BY <2>5, <2>6 DEF PlainPart
    <2>8. leaf[l] # Absent
        BY <1>1, <1>2, <1>4, <2>1, <2>3, <2>7 DEF Shaped
    <2> QED
        BY <2>8 DEF Exists
<1> QED
    BY <1>3, <1>4

\* One leaf more is as requested, and nothing that was is lost.
LEMMA StagedLeaf ==
    ASSUME SInv, pc = "stage", PlainPart(pc, txn, leaf), txn.todo # {},
           NEW t, t.goal = txn.goal, t.from = txn.from, t.todo = txn.todo \ {Least(txn.todo)},
           \/ leaf' = leaf /\ leaf[Least(txn.todo)] = txn.goal[Least(txn.todo)]
           \/ /\ WriteLeaf(Least(txn.todo), txn.goal[Least(txn.todo)])
              /\ ~(Least(txn.todo) \in Counts
                   /\ leaf[Least(txn.todo)] = txn.goal[Least(txn.todo)])
    PROVE  PlainPart("stage", t, leaf')
<1> DEFINE l == Least(txn.todo)
           S == ToStage(txn.goal, txn.from)
<1>1. /\ txn.goal \in Known /\ DOMAIN txn.goal = Typed /\ leaf \in Contents
    BY Busy
<1>2. /\ l \in txn.todo /\ (\A q \in txn.todo : l <= q) /\ l \in S
      /\ l \in Typed /\ l \in Leaves /\ txn.goal[l] \in Values /\ txn.todo \subseteq S
    BY RestOf
<1>3. S \subseteq Typed /\ S \subseteq Leaves
    BY <1>1 DEF ToStage
<1>4. /\ \A p \in S \ txn.todo : (\A q \in txn.todo : p < q) /\ leaf[p] = txn.goal[p]
      /\ \A m \in Settled(txn) : leaf[m] = txn.goal[m]
    BY DEF PlainPart
<1>5. Settled(t) = Settled(txn)
    BY DEF Settled
<1>6. \/ leaf' = leaf /\ leaf[l] = txn.goal[l]
      \/ WriteLeaf(l, txn.goal[l]) /\ ~(l \in Counts /\ leaf[l] = txn.goal[l])
    OBVIOUS
<1>7. t.todo = txn.todo \ {l} /\ ToStage(t.goal, t.from) = S
    OBVIOUS
<1> HIDE DEF l, S
<1>8. /\ leaf'[l] = txn.goal[l]
      /\ \A m \in Leaves : m # l /\ ~(l \in Counts /\ m \in Under[l]) => leaf'[m] = leaf[m]
    BY <1>2, <1>6 DEF WriteLeaf, Written
<1>9. ASSUME NEW p \in S \ t.todo
      PROVE  (\A q \in t.todo : p < q) /\ leaf'[p] = txn.goal[p]
    <2>1. CASE p = l
        <3>1. \A q \in t.todo : q # l /\ l <= q /\ q \in Nat /\ l \in Nat
            BY <1>2, <1>3, <1>7
        <3> QED
            BY <1>8, <2>1, <3>1
    <2>2. CASE p # l
        <3>1. p \in S \ txn.todo /\ p \in Leaves
            BY <1>3, <1>7, <1>9, <2>2
        <3>2. p < l /\ \A q \in t.todo : p < q
            BY <1>2, <1>4, <1>7, <3>1
        <3>3. ~(l \in Counts /\ p \in Under[l])
            <4> SUFFICES ASSUME l \in Counts, p \in Under[l] PROVE FALSE
                OBVIOUS
            <4>1. l < p
                BY Below
            <4>2. l \in Nat /\ p \in Nat
                BY <1>2, <3>1
            <4> QED
                BY <3>2, <4>1, <4>2
        <3> QED
            BY <1>4, <1>8, <2>2, <3>1, <3>2, <3>3
    <2> QED
        BY <2>1, <2>2
<1>10. ASSUME l \in Counts, NEW m \in Settled(txn), m = l \/ m \in Under[l]
       PROVE  leaf[l] = txn.goal[l]
    <2>1. /\ m \in Typed /\ ~Resized(txn.goal, txn.from, m) /\ txn.goal[m] = txn.from[m]
        BY <1>1, <1>10 DEF Settled
    <2>2. txn.goal[l] = txn.from[l]
        BY <1>1, <1>2, <1>10, <2>1 DEF Resized
    <2>3. ~Resized(txn.goal, txn.from, l)
        <3> SUFFICES ASSUME NEW c \in Counts \cap Typed, l \in Under[c], txn.from[c] # txn.goal[c]
                     PROVE  FALSE
            BY <1>1 DEF Resized
        <3>1. m \in Under[c]
            BY <1>10, Below
        <3> QED
            BY <1>1, <2>1, <3>1 DEF Resized
    <2>4. l \in Settled(txn)
        BY <1>1, <1>2, <2>2, <2>3 DEF Settled
    <2> QED
        BY <1>4, <2>4
<1>11. \A m \in Settled(txn) : leaf'[m] = txn.goal[m]
    <2> SUFFICES ASSUME NEW m \in Settled(txn) PROVE leaf'[m] = txn.goal[m]
        OBVIOUS
    <2>1. m \in Leaves /\ leaf[m] = txn.goal[m]
        BY <1>1, <1>4 DEF Settled
    <2> QED
        BY <1>6, <1>8, <1>10, <2>1
<1> QED
    BY <1>5, <1>7, <1>9, <1>11 DEF PlainPart

\* When all is staged, the files are as requested.
LEMMA StagedAll ==
    ASSUME SInv, pc = "stage", PlainPart(pc, txn, leaf), txn.todo = {}
    PROVE  \A m \in Typed : leaf[m] = txn.goal[m]
<1> DEFINE f == [m \in Typed |-> leaf[m]]
           goal == txn.goal
<1>1. goal \in Known /\ Shaped(goal) /\ DOMAIN goal = Typed /\ Typed \in SUBSET Leaves
    BY Busy
<1>2. Shaped(f) /\ DOMAIN f = Typed /\ \A m \in Typed : f[m] = leaf[m]
    BY Reading
<1>3. Typed \in SUBSET Typed /\ \A m \in Typed : \A c \in Counts \cap Typed : m \in Under[c] => c \in Typed
    OBVIOUS
<1> SUFFICES ASSUME NEW l \in Typed, leaf[l] # goal[l] PROVE FALSE
    OBVIOUS
<1>4. f[l] # goal[l]
    BY <1>2
<1> HIDE DEF f, goal
<1>5. PICK m \in Typed : f[m] # Absent /\ goal[m] # Absent /\ f[m] # goal[m]
    BY <1>1, <1>2, <1>3, <1>4, DifferVisibly
<1>6. leaf[m] # goal[m]
    BY <1>2, <1>5
<1>7. m \notin ToStage(txn.goal, txn.from)
    BY <1>6 DEF PlainPart, goal
<1>8. goal[m] = txn.from[m] /\ ~Resized(goal, txn.from, m)
    <2>1. CASE \E k \in Typed : Dir[k] = Dir[m] /\ goal[k] # txn.from[k]
        BY <1>1, <1>5, <1>7, <2>1 DEF ToStage, goal
    <2>2. CASE \A k \in Typed : Dir[k] = Dir[m] => goal[k] = txn.from[k]
        <3>1. \A c \in Counts : m \in Under[c] => Dir[c] = Dir[m]
            BY Below
        <3> QED
            BY <1>1, <2>2, <3>1 DEF Resized
    <2> QED
        BY <2>1, <2>2
<1>9. m \in Settled(txn)
    BY <1>1, <1>5, <1>8 DEF Settled, goal
<1> QED
    BY <1>6, <1>9 DEF PlainPart, goal

\* No check of a calm staging fails.
LEMMA Holds ==
    ASSUME SInv, AloneInv, rogue = 0, pc # "idle", pc \notin CheckPCs, Calm(txn)
    PROVE  /\ AllStopped
           /\ pc = "stage" /\ txn.todo # {} => Exists(Least(txn.todo))
           /\ pc = "compare" => \A l \in Typed : leaf[l] = txn.goal[l]
           /\ pc = "values" => MatchesExcept(txn.captured, {})
<1>1. AllStopped /\ PlainPart(pc, txn, leaf)
    BY DEF AloneInv
<1>2. pc = "stage" /\ txn.todo # {} => Exists(Least(txn.todo))
    BY <1>1, StageExists
<1> QED
    BY <1>1, <1>2 DEF PlainPart, MatchesExcept

\* A failing staging is paid for with a failing access.
LEMMA FailAlone ==
    ASSUME SInv, AloneInv, pc # "idle", Fail, UNCHANGED <<leaf, thread, rogue>>,
           faults' \in Nat, rogue = 0 /\ pc \notin CheckPCs /\ ~txn.undoing => faults' >= 1
    PROVE  AloneInv'
<1> SUFFICES ASSUME rogue = 0 PROVE AloneInv'
    BY DEF AloneInv
<1>1. txn \in Locals /\ Sound(pc, txn) /\ pc \in CheckPCs \cup StagePCs /\ AllStopped'
    BY Busy DEF AloneInv, AllStopped, On
<1>2. CASE pc' = "idle"
    BY <1>1, <1>2 DEF AloneInv
<1>3. CASE pc' # "idle"
    <2> DEFINE t == [txn EXCEPT !.undoing = TRUE, !.goal = txn.previous,
                                !.from = Unobserved, !.todo = {}, !.captured = Nothing]
    <2>1. Advance("stage_stopped", t) /\ pc \notin CheckPCs /\ ~txn.undoing
        BY <1>3 DEF Fail, Return
    <2>2. /\ t.undoing /\ t.goal = txn.previous /\ t.from = Unobserved
          /\ t.previous = txn.previous /\ t.began = txn.began
        BY <1>1 DEF Locals
    <2>3. pc' = "stage_stopped" /\ txn' = t /\ faults' >= 1
        BY <2>1 DEF Advance
    <2> HIDE DEF t
    <2>4. \A m \in Typed : t.previous[m] = t.began[m]
        BY <1>1, <2>1, <2>2 DEF AloneInv, FoundPart
    <2>5. t.goal \in Known
        BY <1>1, <2>1, <2>2 DEF Sound, CheckPCs
    <2>6. Settled(t) = {}
        BY <2>2, <2>5 DEF Settled, Unobserved, Known
    <2> QED
        BY <1>1, <2>2, <2>3, <2>4, <2>6 DEF AloneInv, FoundPart, PlainPart, CheckPCs, StagePCs
<1> QED
    BY <1>2, <1>3

LEMMA LookAlone ==
    ASSUME SInv, AloneInv, pc # "idle", NEW c \in BOOLEAN, NEW l, NEW t, Look(c, l, t),
           rogue = 0 /\ c => /\ FoundPart(l, t, leaf) /\ t.undoing = txn.undoing
                             /\ Calm(txn) => PlainPart(l, t, leaf),
           rogue = 0 /\ pc \notin CheckPCs /\ Calm(txn) => c
    PROVE  AloneInv'
<1>1. UNCHANGED <<leaf, thread, rogue, faults>> /\ faults \in Nat /\ txn.undoing \in BOOLEAN
    BY Busy DEF Look, kernelVars, budgets
<1>2. CASE c
    <2> SUFFICES ASSUME rogue = 0 PROVE AloneInv'
        BY <1>1 DEF AloneInv
    <2>1. pc' = l /\ txn' = t
        BY <1>2 DEF Look, Advance
    <2>2. AllStopped'
        BY <1>1 DEF AloneInv, AllStopped, On
    <2>3. FoundPart(l, t, leaf) /\ t.undoing = txn.undoing /\ (Calm(txn) => PlainPart(l, t, leaf))
        BY <1>2
    <2>4. txn.undoing => faults >= 1
        BY DEF AloneInv
    <2> QED
        BY <1>1, <2>1, <2>2, <2>3, <2>4 DEF AloneInv, Calm
<1>3. CASE ~c
    <2>1. Fail
        BY <1>3 DEF Look
    <2>2. rogue = 0 /\ pc \notin CheckPCs /\ ~txn.undoing => faults' >= 1
        BY <1>1, <1>3 DEF Calm
    <2> QED
        BY <1>1, <2>1, <2>2, FailAlone
<1> QED
    BY <1>2, <1>3

LEMMA CallAlone == ASSUME SInv, AloneInv, Call PROVE AloneInv'
<1>1. PICK r \in Requests : Advance("verify", [NoTxn EXCEPT !.goal = r, !.began = leaf])
    BY DEF Call
<1> DEFINE t == [NoTxn EXCEPT !.goal = r, !.began = leaf]
<1>2. ~t.undoing /\ t.began = leaf
    BY DEF NoTxn
<1>3. pc' = "verify" /\ txn' = t /\ UNCHANGED <<leaf, thread, rogue, faults>>
    BY <1>1 DEF Advance, Call, kernelVars
<1> HIDE DEF t
<1> QED
    BY <1>2, <1>3 DEF AloneInv, AllStopped, On, FoundPart, PlainPart, CheckPCs, StagePCs

LEMMA PrepareAlone == ASSUME SInv, AloneInv, Prepare PROVE AloneInv'
<1>1. pc # "idle" /\ pc \in CheckPCs
    BY DEF Prepare, Verify, VerifyStopped, ReadPrevious, VerifyAgain, CheckPCs
<1>2. /\ txn \in Locals /\ Sound(pc, txn) /\ leaf \in Contents
      /\ rogue = 0 => FoundPart(pc, txn, leaf) /\ leaf = txn.began
    BY <1>1, Busy DEF AloneInv, FoundPart
<1>3. CASE Verify
    <2>1. FoundPart("stopped", txn, leaf) \/ rogue # 0
        BY <1>2 DEF FoundPart, CheckPCs, StagePCs
    <2>2. PlainPart("stopped", txn, leaf)
        BY DEF PlainPart
    <2>3. Verified \in BOOLEAN
        BY DEF Verified, MatchesExcept
    <2> QED
        BY <1>1, <1>3, <2>1, <2>2, <2>3, LookAlone DEF Verify
<1>4. CASE VerifyStopped
    <2>1. FoundPart("read", txn, leaf) \/ rogue # 0
        BY <1>2 DEF FoundPart, CheckPCs, StagePCs
    <2>2. PlainPart("read", txn, leaf)
        BY DEF PlainPart
    <2>3. AllStopped \in BOOLEAN
        BY DEF AllStopped
    <2> QED
        BY <1>1, <1>4, <2>1, <2>2, <2>3, LookAlone DEF VerifyStopped
<1>5. CASE ReadPrevious
    <2> DEFINE p == [l \in Typed |-> leaf[l]]
               t == [txn EXCEPT !.previous = p, !.from = p]
    <2>1. Look(TRUE, "verify_again", t)
        BY <1>5 DEF ReadPrevious
    <2>2. \A m \in Typed : p[m] = leaf[m]
        OBVIOUS
    <2> HIDE DEF p
    <2>3. t.previous = p /\ t.undoing = txn.undoing /\ t.began = txn.began
        BY <1>2 DEF Locals
    <2> HIDE DEF t
    <2>4. FoundPart("verify_again", t, leaf) \/ rogue # 0
        BY <1>2, <2>2, <2>3 DEF FoundPart, CheckPCs, StagePCs
    <2>5. PlainPart("verify_again", t, leaf)
        BY DEF PlainPart
    <2> QED
        BY <1>1, <2>1, <2>3, <2>4, <2>5, LookAlone
<1>6. CASE VerifyAgain
    <2>0. pc = "verify_again" /\ ~txn.undoing /\ txn.from = txn.previous /\ txn.goal \in Known
        BY <1>2, <1>6 DEF VerifyAgain, Sound, CheckPCs, Locals
    <2>1. FoundPart("stage_stopped", txn, leaf) \/ rogue # 0
        BY <1>2, <2>0 DEF FoundPart, CheckPCs, StagePCs
    <2>2. PlainPart("stage_stopped", txn, leaf) \/ rogue # 0
        <3> SUFFICES ASSUME rogue = 0, NEW m \in Settled(txn) PROVE leaf[m] = txn.goal[m]
            BY DEF PlainPart
        <3>1. m \in Typed /\ txn.goal[m] = txn.previous[m]
            BY <2>0 DEF Settled, Known
        <3>2. txn.previous[m] = txn.began[m]
            BY <1>2, <2>0, <3>1 DEF FoundPart
        <3> QED
            BY <1>2, <3>1, <3>2
    <2>3. Verified \in BOOLEAN
        BY DEF Verified, MatchesExcept
    <2> QED
        BY <1>1, <1>6, <2>1, <2>2, <2>3, LookAlone DEF VerifyAgain
<1> QED
    BY <1>3, <1>4, <1>5, <1>6 DEF Prepare

LEMMA StageLeafAlone == ASSUME SInv, AloneInv, StageLeaf PROVE AloneInv'
<1> DEFINE l == Least(txn.todo)
           rest == [txn EXCEPT !.todo = @ \ {l}]
           matching == l \in Counts /\ leaf[l] = txn.goal[l]
<1>1. pc = "stage" /\ txn.todo # {} /\ pc # "idle" /\ pc \notin CheckPCs
    BY DEF StageLeaf, CheckPCs
<1>2. /\ rest.goal = txn.goal /\ rest.from = txn.from /\ rest.undoing = txn.undoing
      /\ rest.previous = txn.previous /\ rest.began = txn.began
      /\ rest.todo = txn.todo \ {l} /\ l \in Leaves /\ txn.goal[l] \in Values
    BY <1>1, RestOf
<1>3. faults \in Nat /\ txn.undoing \in BOOLEAN
    BY <1>1, Busy
<1>4. rogue = 0 => FoundPart("stage", rest, leaf) /\ FoundPart("stage", rest, leaf')
    BY <1>1, <1>2 DEF AloneInv, FoundPart, CheckPCs, StagePCs
<1>5. CASE matching /\ Look(TRUE, "stage", rest)
    <2>1. leaf' = leaf /\ leaf[l] = txn.goal[l]
        BY <1>5 DEF Look, kernelVars
    <2>2. rogue = 0 /\ Calm(txn) => PlainPart("stage", rest, leaf)
        <3> SUFFICES ASSUME rogue = 0, Calm(txn) PROVE PlainPart("stage", rest, leaf)
            OBVIOUS
        <3>1. PlainPart(pc, txn, leaf)
            BY <1>1 DEF AloneInv
        <3>2. PlainPart("stage", rest, leaf')
            BY <1>1, <1>2, <2>1, <3>1, StagedLeaf
        <3> QED
            BY <2>1, <3>2
    <2> HIDE DEF rest
    <2> QED
        BY <1>1, <1>2, <1>4, <1>5, <2>2, LookAlone
<1>6. CASE ~Exists(l) /\ Look(FALSE, "stage", rest)
    <2>1. rogue = 0 /\ Calm(txn) => FALSE
        BY <1>1, <1>6, Holds
    <2> HIDE DEF rest
    <2> QED
        BY <1>1, <1>6, <2>1, LookAlone
<1>7. ASSUME Advance("stage", rest), NEW v, WriteLeaf(l, v),
             rogue' = rogue, ~matching,
             (faults' = faults /\ v = txn.goal[l]) \/ faults' = faults + 1
      PROVE  AloneInv'
    <2> SUFFICES ASSUME rogue = 0 PROVE AloneInv'
        BY <1>7 DEF AloneInv
    <2>1. pc' = "stage" /\ txn' = rest /\ thread' = thread
        BY <1>7 DEF Advance, WriteLeaf
    <2>2. AllStopped'
        BY <2>1 DEF AloneInv, AllStopped, On
    <2>3. txn.undoing => faults >= 1
        BY <1>1 DEF AloneInv
    <2>4. Calm(txn)' => PlainPart("stage", rest, leaf')
        <3> SUFFICES ASSUME Calm(txn)' PROVE PlainPart("stage", rest, leaf')
            OBVIOUS
        <3>1. faults' = faults /\ v = txn.goal[l] /\ Calm(txn)
            BY <1>2, <1>3, <1>7, <2>1, <2>3 DEF Calm
        <3>2. PlainPart(pc, txn, leaf)
            BY <1>1, <3>1 DEF AloneInv
        <3>3. WriteLeaf(l, txn.goal[l]) /\ ~(l \in Counts /\ leaf[l] = txn.goal[l])
            BY <1>7, <3>1
        <3> QED
            BY <1>1, <1>2, <3>2, <3>3, StagedLeaf
    <2> HIDE DEF rest, l
    <2>5. txn'.undoing => faults' >= 1
        BY <1>2, <1>3, <1>7, <2>1, <2>3
    <2> QED
        BY <1>4, <2>1, <2>2, <2>4, <2>5 DEF AloneInv
<1> HIDE DEF rest
<1>8. \/ matching /\ Look(TRUE, "stage", rest)
      \/ ~Exists(l) /\ Look(FALSE, "stage", rest)
      \/ /\ ~matching /\ Advance("stage", rest) /\ rogue' = rogue
         /\ \E v : WriteLeaf(l, v) /\ ((faults' = faults /\ v = txn.goal[l]) \/ faults' = faults + 1)
    BY DEF StageLeaf, rest
<1> QED
    BY <1>5, <1>6, <1>7, <1>8

LEMMA StageAndVerifyAlone == ASSUME SInv, AloneInv, StageAndVerify PROVE AloneInv'
<1>1. pc # "idle" /\ pc \notin CheckPCs
    BY DEF StageAndVerify, StartStaging, StageLeaf, StagingDone, VerifyStagedStopped,
           CaptureStaged, CompareTyped, ValuesMatch, Adopt, CheckPCs
<1>2. /\ txn \in Locals /\ Sound(pc, txn) /\ leaf \in Contents /\ faults \in Nat
      /\ rogue = 0 => FoundPart(pc, txn, leaf) /\ (Calm(txn) => PlainPart(pc, txn, leaf))
    BY <1>1, Busy DEF AloneInv
<1>3. AllStopped \in BOOLEAN /\ MatchesExcept(txn.captured, {}) \in BOOLEAN
      /\ (\A l \in Typed : leaf[l] = txn.goal[l]) \in BOOLEAN
    BY DEF AllStopped, MatchesExcept
<1>4. rogue = 0 => \A m \in Typed : txn.previous[m] = txn.began[m]
    BY <1>1, <1>2, Busy DEF FoundPart
<1>5. CASE StartStaging
    <2> DEFINE S == ToStage(txn.goal, txn.from)
               t == [txn EXCEPT !.todo = S]
    <2>1. Look(AllStopped, "stage", t) /\ pc = "stage_stopped"
        BY <1>5 DEF StartStaging
    <2>2. /\ t.goal = txn.goal /\ t.from = txn.from /\ t.undoing = txn.undoing
          /\ t.previous = txn.previous /\ t.began = txn.began /\ t.todo = S
        BY <1>2 DEF Locals
    <2> HIDE DEF t
    <2>3. rogue = 0 => FoundPart("stage", t, leaf)
        BY <1>4, <2>2 DEF FoundPart, CheckPCs
    <2>4. rogue = 0 /\ Calm(txn) => PlainPart("stage", t, leaf)
        BY <1>2, <2>1, <2>2 DEF PlainPart, Settled
    <2>5. rogue = 0 /\ Calm(txn) => AllStopped
        BY <1>1, Holds
    <2> QED
        BY <1>1, <1>3, <2>1, <2>2, <2>3, <2>4, <2>5, LookAlone
<1>6. CASE StageLeaf
    BY <1>6, StageLeafAlone
<1>7. CASE StagingDone
    <2>1. Look(TRUE, "staged_stopped", txn) /\ pc = "stage" /\ txn.todo = {}
        BY <1>7 DEF StagingDone
    <2>2. rogue = 0 => FoundPart("staged_stopped", txn, leaf)
        BY <1>4 DEF FoundPart, CheckPCs
    <2>3. rogue = 0 /\ Calm(txn) => PlainPart("staged_stopped", txn, leaf)
        BY <1>2, <2>1, StagedAll DEF PlainPart
    <2> QED
        BY <1>1, <2>1, <2>2, <2>3, LookAlone
<1>8. CASE VerifyStagedStopped
    <2>1. Look(AllStopped, "snapshot", txn) /\ pc = "staged_stopped"
        BY <1>8 DEF VerifyStagedStopped
    <2>2. rogue = 0 => FoundPart("snapshot", txn, leaf)
        BY <1>4 DEF FoundPart, CheckPCs
    <2>3. rogue = 0 /\ Calm(txn) => PlainPart("snapshot", txn, leaf) /\ AllStopped
        BY <1>1, <1>2, <2>1, Holds DEF PlainPart
    <2> QED
        BY <1>1, <1>3, <2>1, <2>2, <2>3, LookAlone
<1>9. CASE CaptureStaged
    <2> DEFINE t == [txn EXCEPT !.captured = leaf]
    <2>1. Look(TRUE, "compare", t) /\ pc = "snapshot"
        BY <1>9 DEF CaptureStaged
    <2>2. /\ t.goal = txn.goal /\ t.from = txn.from /\ t.undoing = txn.undoing
          /\ t.previous = txn.previous /\ t.began = txn.began /\ t.captured = leaf
        BY <1>2 DEF Locals
    <2> HIDE DEF t
    <2>3. rogue = 0 => FoundPart("compare", t, leaf)
        BY <1>4, <2>2 DEF FoundPart, CheckPCs
    <2>4. rogue = 0 /\ Calm(txn) => PlainPart("compare", t, leaf)
        BY <1>2, <2>1, <2>2 DEF PlainPart
    <2> QED
        BY <1>1, <2>1, <2>2, <2>3, <2>4, LookAlone
<1>10. CASE CompareTyped
    <2> DEFINE c == \A l \in Typed : leaf[l] = txn.goal[l]
    <2>1. Look(c, "values", txn) /\ pc = "compare"
        BY <1>10 DEF CompareTyped
    <2>2. rogue = 0 /\ c => FoundPart("values", txn, leaf)
        BY <1>4 DEF FoundPart, CheckPCs
    <2>3. rogue = 0 /\ Calm(txn) => PlainPart("values", txn, leaf) /\ c
        BY <1>2, <2>1 DEF PlainPart
    <2>4. c \in BOOLEAN
        OBVIOUS
    <2> HIDE DEF c
    <2> QED
        BY <1>1, <2>1, <2>2, <2>3, <2>4, LookAlone
<1>11. CASE ValuesMatch
    <2> DEFINE c == MatchesExcept(txn.captured, {})
    <2>1. Look(c, "adopt", txn) /\ pc = "values"
        BY <1>11 DEF ValuesMatch
    <2>2. rogue = 0 => FoundPart("adopt", txn, leaf)
        BY <1>2, <1>4, <2>1 DEF FoundPart, CheckPCs
    <2>3. rogue = 0 /\ Calm(txn) => PlainPart("adopt", txn, leaf) /\ c
        BY <1>1, <1>2, <2>1, Holds DEF PlainPart
    <2>4. c \in BOOLEAN
        BY <1>3
    <2> HIDE DEF c
    <2> QED
        BY <1>1, <2>1, <2>2, <2>3, <2>4, LookAlone
<1>12. CASE Adopt
    <2>1. UNCHANGED <<leaf, thread, rogue, faults>>
        BY <1>12 DEF Adopt, kernelVars, budgets
    <2>2. CASE AllStopped
        <3>1. pc' = "idle"
            BY <1>12, <2>2 DEF Adopt, Return
        <3> QED
            BY <2>1, <3>1 DEF AloneInv, AllStopped, On
    <2>3. CASE ~AllStopped
        <3>1. Fail /\ (rogue = 0 => FALSE)
            BY <1>12, <2>3 DEF Adopt, AloneInv
        <3> QED
            BY <1>1, <1>2, <2>1, <3>1, FailAlone
    <2> QED
        BY <2>2, <2>3
<1> QED
    BY <1>5, <1>6, <1>7, <1>8, <1>9, <1>10, <1>11, <1>12 DEF StageAndVerify

LEMMA FaultyAlone == ASSUME SInv, AloneInv, IoError \/ TransientBusy PROVE AloneInv'
<1>1. /\ UNCHANGED <<leaf, thread, rogue>> /\ faults' = faults + 1 /\ pc # "idle"
      /\ txn \in Locals /\ Sound(pc, txn) /\ faults \in Nat
    BY Busy DEF IoError, TransientBusy, kernelVars
<1>2. CASE IoError
    BY <1>1, <1>2, FailAlone DEF IoError
<1>3. CASE TransientBusy
    <2> SUFFICES ASSUME rogue = 0 PROVE AloneInv'
        BY <1>1 DEF AloneInv
    <2> DEFINE t == [txn EXCEPT !.todo = {}]
    <2>1. pc = "stage" /\ pc' = "stage_stopped" /\ txn' = t
        BY <1>3 DEF TransientBusy, Advance
    <2>2. t.undoing = txn.undoing /\ t.previous = txn.previous /\ t.began = txn.began
        BY <1>1 DEF Locals
    <2> HIDE DEF t
    <2>3. AllStopped'
        BY <1>1 DEF AloneInv, AllStopped, On
    <2>4. txn.undoing => faults >= 1
        BY <1>1 DEF AloneInv
    <2>5. FoundPart("stage_stopped", t, leaf')
        BY <1>1, <2>1, <2>2 DEF AloneInv, FoundPart, CheckPCs, StagePCs
    <2>6. ~Calm(txn)'
        BY <1>1, <2>1, <2>2, <2>4 DEF Calm
    <2> QED
        BY <1>1, <2>1, <2>2, <2>3, <2>4, <2>5, <2>6 DEF AloneInv
<1> QED
    BY <1>2, <1>3

LEMMA AloneStep == ASSUME SInv, AloneInv, [Next]_vars PROVE AloneInv'
<1>1. CASE UNCHANGED vars
    BY <1>1 DEF vars, kernelVars, budgets, AloneInv, AllStopped, On, Calm
<1>2. CASE RogueActs
    BY <1>2 DEF RogueActs, AloneInv, SInv, TypeOK
<1> QED
    BY <1>1, <1>2, CallAlone, PrepareAlone, StageAndVerifyAlone, FaultyAlone DEF Next, Proceed

AInv == SInv /\ AloneInv

LEMMA AloneInvariance == Spec => []AInv
<1>1. Init => AInv
    BY InitSound, InitAlone DEF AInv
<1>2. AInv /\ [Next]_vars => AInv'
    BY NextKeeps, AloneStep DEF AInv
<1> QED
    BY <1>1, <1>2, PTL DEF Spec

\* How a call returns: it fails, or it adopts what it captured.
LEMMA WhoReturns ==
    ASSUME SInv, Next, Returns
    PROVE  /\ leaf' = leaf
           /\ \/ pc \in CheckPCs /\ result' = "rejected"
              \/ Adopt /\ AllStopped /\ result' = IF txn.undoing THEN "failed" ELSE "ok"
              \/ pc \notin CheckPCs /\ result' = "rollback_failed" /\ txn.undoing
<1>1. pc # "idle" /\ pc' = "idle"
    BY DEF Returns
<1> DEFINE Failing == \/ pc \in CheckPCs /\ result' = "rejected"
                      \/ pc \notin CheckPCs /\ result' = "rollback_failed" /\ txn.undoing
<1>2. Fail => Failing
    BY <1>1 DEF Fail, Return, Advance
<1>3. ASSUME NEW c, NEW l, NEW t, Look(c, l, t), l # "idle" PROVE Failing /\ leaf' = leaf
    BY <1>1, <1>2, <1>3 DEF Look, Advance, kernelVars
<1>4. CASE IoError
    BY <1>2, <1>4 DEF IoError, kernelVars
<1>5. CASE Prepare
    <2>1. CASE Verify
        BY <1>3, <2>1 DEF Verify
    <2>2. CASE VerifyStopped
        BY <1>3, <2>2 DEF VerifyStopped
    <2>3. CASE ReadPrevious
        BY <1>3, <2>3 DEF ReadPrevious
    <2>4. CASE VerifyAgain
        BY <1>3, <2>4 DEF VerifyAgain
    <2> QED
        BY <1>5, <2>1, <2>2, <2>3, <2>4 DEF Prepare
<1>6. CASE StageAndVerify
    <2>1. CASE StartStaging
        BY <1>3, <2>1 DEF StartStaging
    <2>2. CASE StageLeaf
        BY <1>1, <1>3, <2>2 DEF StageLeaf, Advance
    <2>3. CASE StagingDone
        BY <1>3, <2>3 DEF StagingDone
    <2>4. CASE VerifyStagedStopped
        BY <1>3, <2>4 DEF VerifyStagedStopped
    <2>5. CASE CaptureStaged
        BY <1>3, <2>5 DEF CaptureStaged
    <2>6. CASE CompareTyped
        BY <1>3, <2>6 DEF CompareTyped
    <2>7. CASE ValuesMatch
        BY <1>3, <2>7 DEF ValuesMatch
    <2>8. CASE Adopt
        BY <1>2, <2>8 DEF Adopt, Return, kernelVars
    <2> QED
        BY <1>6, <2>1, <2>2, <2>3, <2>4, <2>5, <2>6, <2>7, <2>8 DEF StageAndVerify
<1> QED
    BY <1>1, <1>4, <1>5, <1>6 DEF Next, Proceed, Call, TransientBusy, RogueActs, Advance

\* With one failing access the undoing that answers it does not fail.
LEMMA NotGivenUp ==
    ASSUME SInv, AloneInv, Next, Returns, rogue = 0, faults' <= 1
    PROVE  result' # "rollback_failed"
<1> SUFFICES ASSUME result' = "rollback_failed" PROVE FALSE
    OBVIOUS
<1>0. result' = "rollback_failed"
    OBVIOUS
<1>1. pc # "idle" /\ pc' = "idle" /\ pc \notin CheckPCs /\ txn.undoing /\ faults \in Nat
    <2>1. ~(result' = IF txn.undoing THEN "failed" ELSE "ok")
        BY <1>0
    <2> QED
        BY <1>0, <2>1, WhoReturns, Busy DEF Returns
<1>2. faults >= 1
    BY <1>1 DEF AloneInv
<1>3. ~IoError /\ ~TransientBusy
    BY <1>1, <1>2 DEF IoError, TransientBusy
<1>4. ~Call /\ ~RogueActs /\ ~Prepare
    BY <1>1 DEF Call, RogueActs, Prepare, Verify, VerifyStopped, ReadPrevious, VerifyAgain, CheckPCs
<1>5. StageAndVerify
    BY <1>3, <1>4 DEF Next, Proceed
<1>6. faults' = faults \/ pc' = "stage"
    BY <1>5 DEF StageAndVerify, StartStaging, StageLeaf, StagingDone, VerifyStagedStopped,
           CaptureStaged, CompareTyped, ValuesMatch, Adopt, Look, Advance, budgets
<1>7. Calm(txn)
    BY <1>1, <1>6 DEF Calm
<1>8. /\ AllStopped
      /\ pc = "stage" /\ txn.todo # {} => Exists(Least(txn.todo))
      /\ pc = "compare" => \A l \in Typed : leaf[l] = txn.goal[l]
      /\ pc = "values" => MatchesExcept(txn.captured, {})
    BY <1>1, <1>7, Holds
<1>9. ASSUME NEW c, c, NEW l, NEW t, Look(c, l, t), l # "idle" PROVE FALSE
    BY <1>1, <1>9 DEF Look, Advance
<1>10. CASE StartStaging
    BY <1>8, <1>9, <1>10 DEF StartStaging
<1>11. CASE StageLeaf
    <2>1. Exists(Least(txn.todo))
        BY <1>8, <1>11 DEF StageLeaf
    <2> QED
        BY <1>1, <1>11, <2>1 DEF StageLeaf, Advance, Look
<1>12. CASE StagingDone
    BY <1>9, <1>12 DEF StagingDone
<1>13. CASE VerifyStagedStopped
    BY <1>8, <1>9, <1>13 DEF VerifyStagedStopped
<1>14. CASE CaptureStaged
    BY <1>9, <1>14 DEF CaptureStaged
<1>15. CASE CompareTyped
    BY <1>1, <1>8, <1>15 DEF CompareTyped, Look, Advance
<1>16. CASE ValuesMatch
    BY <1>1, <1>8, <1>16 DEF ValuesMatch, Look, Advance
<1>17. CASE Adopt
    BY <1>0, <1>8, <1>17 DEF Adopt, Return
<1> QED
    BY <1>5, <1>10, <1>11, <1>12, <1>13, <1>14, <1>15, <1>16, <1>17 DEF StageAndVerify

\* With at most one failing access and nobody interfering the configuration is
\* replaced, or the preceding known attributes are back, for every tree of
\* directories and every request.
THEOREM ReplaceIsAtomic == Spec => ReplaceAtomic
<1>1. ASSUME AInv, Next, Returns, rogue = 0, faults' <= 1
      PROVE  /\ result' # "rollback_failed"
             /\ \A l \in Typed :
                    leaf'[l] = IF result' = "ok" THEN txn.goal[l] ELSE txn.began[l]
    <2>1. pc # "idle" /\ SInv /\ AloneInv
        BY <1>1 DEF Returns, AInv
    <2>2. FoundPart(pc, txn, leaf) /\ Sound(pc, txn) /\ txn.undoing \in BOOLEAN
        BY <1>1, <2>1, Busy DEF AloneInv
    <2>3. result' # "rollback_failed" /\ leaf' = leaf
        BY <1>1, <2>1, NotGivenUp, WhoReturns
    <2>4. CASE pc \in CheckPCs /\ result' = "rejected"
        BY <2>2, <2>3, <2>4 DEF FoundPart
    <2>5. CASE Adopt /\ AllStopped /\ result' = IF txn.undoing THEN "failed" ELSE "ok"
        <3>1. pc = "adopt"
            BY <2>5 DEF Adopt
        <3>2. \A l \in Typed : leaf[l] = txn.goal[l] /\ txn.previous[l] = txn.began[l]
            BY <2>2, <3>1 DEF FoundPart, StagePCs
        <3>3. txn.undoing => txn.goal = txn.previous
            BY <2>2, <3>1 DEF Sound
        <3> QED
            BY <2>2, <2>3, <2>5, <3>2, <3>3
    <2> QED
        BY <1>1, <2>1, <2>3, <2>4, <2>5, WhoReturns
<1>2. ASSUME AInv, [Next]_vars
      PROVE  [Returns /\ rogue = 0 /\ faults' <= 1 =>
                /\ result' # "rollback_failed"
                /\ \A l \in Typed :
                    leaf'[l] = IF result' = "ok" THEN txn.goal[l] ELSE txn.began[l]]_vars
    BY <1>1, <1>2
<1> QED
    BY <1>2, AloneInvariance, PTL DEF Spec, ReplaceAtomic

-----------------------------------------------------------------------------
(* Whose configuration is adopted                                          *)

\* How often somebody must have interfered for a captured leaf to be another
\* one than was staged, after each comparison.
CountInv ==
    \A l \in Typed : pc \in {"compare", "values", "adopt"} /\ txn.captured[l] # txn.goal[l] =>
        /\ pc = "compare" => rogue + faults >= IF leaf[l] = txn.goal[l] THEN 2 ELSE 1
        /\ pc = "values" => rogue + faults >= IF leaf[l] = txn.goal[l] THEN 2 ELSE 3
        /\ pc = "adopt" /\ txn.captured[l] # Absent => rogue + faults >= 3

LEMMA CountStep == ASSUME AInv, CountInv, [Next]_vars PROVE CountInv'
<1>0. rogue \in Nat /\ faults \in Nat /\ SInv /\ AloneInv
    BY DEF AInv, SInv, TypeOK
<1>1. CASE UNCHANGED vars
    BY <1>1 DEF vars, kernelVars, budgets, CountInv
<1>2. ASSUME pc' \notin {"compare", "values", "adopt"} PROVE CountInv'
    BY <1>2 DEF CountInv
<1>3. CASE Fail
    BY <1>2, <1>3 DEF Fail, Return, Advance
<1>4. CASE RogueActs
    <2>1. rogue' = rogue + 1 /\ UNCHANGED <<pc, txn, faults>>
        BY <1>4 DEF RogueActs
    <2> SUFFICES ASSUME NEW l \in Typed, pc \in {"compare", "values", "adopt"},
                        txn.captured[l] # txn.goal[l]
                 PROVE  /\ pc = "compare" => rogue + faults >= 1
                        /\ pc = "values" => rogue + faults >= 2
                        /\ pc = "adopt" /\ txn.captured[l] # Absent => rogue + faults >= 3
        BY <1>0, <2>1 DEF CountInv
    <2> QED
        BY <1>0 DEF CountInv
<1>5. CASE CaptureStaged
    <2> DEFINE t == [txn EXCEPT !.captured = leaf]
    <2>1. Look(TRUE, "compare", t) /\ pc = "snapshot"
        BY <1>5 DEF CaptureStaged
    <2>2. pc' = "compare" /\ txn' = t /\ UNCHANGED <<leaf, rogue, faults>>
        BY <2>1 DEF Look, Advance, kernelVars, budgets
    <2>3. t.captured = leaf /\ t.goal = txn.goal
        BY <1>0, <2>1, Busy DEF Locals
    <2> HIDE DEF t
    <2>4. rogue + faults = 0 => \A l \in Typed : leaf[l] = txn.goal[l]
        <3> SUFFICES ASSUME rogue + faults = 0 PROVE \A l \in Typed : leaf[l] = txn.goal[l]
            OBVIOUS
        <3>1. rogue = 0 /\ faults = 0
            BY <1>0
        <3> QED
            BY <1>0, <2>1, <3>1 DEF AloneInv, Calm, PlainPart
    <2> QED
        BY <1>0, <2>2, <2>3, <2>4 DEF CountInv
<1>6. CASE CompareTyped
    <2>1. \/ Fail
          \/ /\ pc = "compare" /\ pc' = "values" /\ \A l \in Typed : leaf[l] = txn.goal[l]
             /\ UNCHANGED <<leaf, txn, rogue, faults>>
        BY <1>6 DEF CompareTyped, Look, Advance, kernelVars, budgets
    <2> QED
        BY <1>0, <1>3, <2>1 DEF CountInv
<1>7. CASE ValuesMatch
    <2>1. \/ Fail
          \/ /\ pc = "values" /\ pc' = "adopt" /\ MatchesExcept(txn.captured, {})
             /\ UNCHANGED <<leaf, txn, rogue, faults>>
        BY <1>7 DEF ValuesMatch, Look, Advance, kernelVars, budgets
    <2> QED
        BY <1>0, <1>3, <2>1 DEF CountInv, MatchesExcept
<1>8. CASE Adopt
    BY <1>2, <1>3, <1>8 DEF Adopt, Return
<1>9. CASE Call \/ Prepare \/ StartStaging \/ StageLeaf \/ StagingDone \/ VerifyStagedStopped
           \/ TransientBusy
    <2>1. Fail \/ pc' \notin {"compare", "values", "adopt"}
        BY <1>9 DEF Call, Prepare, Verify, VerifyStopped, ReadPrevious, VerifyAgain, StartStaging,
            StageLeaf, StagingDone, VerifyStagedStopped, TransientBusy, Look, Advance
    <2> QED
        BY <1>2, <1>3, <2>1
<1>10. CASE IoError
    BY <1>3, <1>10 DEF IoError
<1> QED
    BY <1>1, <1>4, <1>5, <1>6, <1>7, <1>8, <1>9, <1>10 DEF Next, Proceed, StageAndVerify

LEMMA CountInvariance == Spec => [](AInv /\ CountInv)
<1>1. Init => CountInv
    BY DEF Init, CountInv
<1> QED
    BY <1>1, CountStep, AloneInvariance, PTL DEF Spec

\* The session takes ownership only of what it staged, whoever interferes and
\* whatever the kernel stores, unless three deviations fall between its reads.
\* A leaf that was captured while it was missing is found out by the count above.
THEOREM ReplaceOwnsStaged == Spec => OwnsWhatItStaged
<1>1. ASSUME AInv, CountInv, Next, staged' # staged, rogue + faults <= 2
      PROVE  \A l \in Typed : staged'[l] = txn.goal[l]
    <2>1. Adopt /\ staged' = txn.captured /\ pc = "adopt" /\ pc # "idle"
        BY <1>1 DEF Next, Call, Proceed, Prepare, Verify, VerifyStopped, ReadPrevious, VerifyAgain,
            StageAndVerify, StartStaging, StageLeaf, StagingDone, VerifyStagedStopped,
            CaptureStaged, CompareTyped, ValuesMatch, Adopt, IoError, TransientBusy, RogueActs, Look
    <2>2. /\ txn.captured \in Contents /\ Shaped(txn.captured) /\ SInv
          /\ txn.goal \in Known /\ Shaped(txn.goal) /\ DOMAIN txn.goal = Typed
          /\ rogue \in Nat /\ faults \in Nat
        BY <1>1, <2>1, Busy DEF AInv, Sound
    <2> SUFFICES ASSUME NEW l \in Typed, txn.captured[l] # txn.goal[l] PROVE FALSE
        BY <2>1
    <2> DEFINE f == [m \in Typed |-> txn.captured[m]]
               goal == txn.goal
    <2>3. DOMAIN f = Typed /\ f[l] # goal[l] /\ \A m \in Typed : f[m] = txn.captured[m]
        OBVIOUS
    <2>4. DOMAIN goal = Typed /\ Shaped(goal)
        BY <2>2
    <2> HIDE DEF f, goal
    <2>5. Shaped(f)
        <3>1. DOMAIN txn.captured = Leaves /\ \A m \in Typed : Above(m) \cap Leaves = Above(m) \cap Typed
            BY <2>2 DEF Contents, Above
        <3>2. \A c \in Counts : c \in Typed
            OBVIOUS
        <3> QED
            BY <2>2, <2>3, <3>1, <3>2 DEF Shaped
    <2>6. PICK m \in Typed : f[m] # Absent /\ goal[m] # Absent /\ f[m] # goal[m]
        <3>1. \A m \in Typed : \A c \in Counts \cap Typed : m \in Under[c] => c \in Typed
            OBVIOUS
        <3> QED
            BY <2>3, <2>4, <2>5, <3>1, DifferVisibly
    <2>7. txn.captured[m] # Absent /\ txn.captured[m] # txn.goal[m]
        BY <2>3, <2>6 DEF goal
    <2>8. rogue + faults >= 3
        BY <1>1, <2>1, <2>7 DEF CountInv
    <2> QED
        BY <1>1, <2>2, <2>8
<1>2. ASSUME AInv, CountInv, [Next]_vars
      PROVE  [staged' # staged /\ rogue + faults <= 2 =>
                    \A l \in Typed : staged'[l] = txn.goal[l]]_vars
    BY <1>1, <1>2
<1> QED
    BY <1>2, CountInvariance, PTL DEF Spec, OwnsWhatItStaged

=============================================================================
