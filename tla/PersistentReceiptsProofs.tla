----------------------- MODULE PersistentReceiptsProofs -----------------------
(***************************************************************************)
(* Theorems of PersistentReceipts, for every number of controllers and     *)
(* kdamonds and every bound.                                               *)
(*                                                                         *)
(* Only the holder of the lock is in a call, so every invariant below says *)
(* what is true of the call a controller is in (CallInv, PidInv, SeenInv), *)
(* and a step of the holder has nobody to disturb.                         *)
(***************************************************************************)
EXTENDS PersistentReceipts, TLAPS

PCs == {"idle", "stage", "start_check", "start_on", "start_pid", "start_final",
        "attach", "attach_state", "read", "read_values", "read_verify",
        "update", "commit", "undo", "stop", "stop_end", "restore", "capture"}
Results == {"none", "busy", "mismatch", "rejected", "rollback_failed", "lost", "ok",
            "failed", "uncertain"}
Pids == 0 .. MaxPid
Txns == [op : {"none", "start", "update", "stop", "read", "attach"},
         goal : Contents, staged : Contents, wasTuned : BOOLEAN, volatile : BOOLEAN,
         states : [K -> Pids \cup {Unidentified}], previous : Contents, i : K,
         err : BOOLEAN, again : BOOLEAN, session : 0 .. MaxCalls, seen : Contents]

\* The steps of start_persistent that no other call contains.
StartOnly == {"stage", "start_check", "start_on", "start_pid", "start_final", "restore"}

\* Every variable has its type.
KernelTypes ==
    /\ conf \in Contents /\ tune \in BOOLEAN /\ boot \in 1 .. MaxBoots
    /\ thread \in [K -> Pids] /\ nextPid \in 1 .. MaxPid + 1
    /\ session \in [K -> 0 .. MaxCalls]
    /\ calls \in 0 .. MaxCalls /\ rogue \in Nat /\ exits \in Nat
CallTypes ==
    /\ lock \in Controllers \cup {Nobody}
    /\ stored \subseteq Receipts /\ held \in [Controllers -> Receipts \cup {NoReceipt}]
    /\ pc \in [Controllers -> PCs] /\ txn \in [Controllers -> Txns]
    /\ result \in [Controllers -> Results] /\ clean \in BOOLEAN

\* SessionLock: who is in a call holds the lock, and only he.
Exclusive ==
    \A c \in Controllers :
        /\ pc[c] # "idle" <=> lock = c
        /\ pc[c] = "idle" => txn[c] = NoTxn
        /\ pc[c] # "idle" => txn[c].op # "none" /\ result[c] = "none"

\* A receipt says whether the kernel tunes its configuration.
Right(r) == r # NoReceipt => (r.volatile <=> r.conf \in Tuned)
ReceiptsRight == (\A r \in stored : Right(r)) /\ (\A c \in Controllers : Right(held[c]))

\* Which call a step l with the locals t belongs to.
OpInv(l, t) ==
    /\ l \in StartOnly => t.op = "start"
    /\ l \in {"attach", "attach_state"} => t.op \in {"update", "stop", "read", "attach"}
    /\ l \in {"read", "read_values", "read_verify"} => t.op = "read"
    /\ l \in {"update", "commit", "undo"} => t.op = "update"
    /\ l \in {"stop", "stop_end"} => t.op \in {"start", "stop"}
    /\ l = "capture" => t.op \in {"start", "update", "stop"}
    /\ t.op \in {"start", "update"} => t.goal \in Configs

\* How far start_persistent is: what it staged, and which kdamonds it started.
StartInv(l, t) ==
    t.op = "start" =>
        /\ l # "stage" => t.staged = t.goal /\ (t.volatile <=> t.goal \in Tuned)
        /\ l \in {"stage", "start_check"} => t.i = 0
        /\ l \in {"start_on", "start_pid"} => \A j \in K : j < t.i => t.states[j] # Staged
        /\ l = "start_pid" => t.states[t.i] # Staged
        /\ l \in {"start_final", "capture"} => \A j \in K : t.states[j] # Staged

\* A hierarchy opened from the receipt r is the one r names, until an update
\* has committed another configuration or a stop has ended its threads.
AttachedInv(l, t, r) ==
    t.op # "start" =>
        /\ r \in Receipts /\ r.boot = boot /\ t.session = r.session
        /\ \/ t.staged = r.conf /\ (t.volatile <=> r.conf \in Tuned)
           \/ /\ l = "capture" /\ t.op = "update" /\ t.staged = t.goal
              /\ t.volatile <=> t.goal \in Tuned
        /\ \A i \in K : \/ t.states[i] = r.ids[i]
                        \/ /\ t.op = "stop" /\ l \in {"stop", "stop_end", "capture"}
                           /\ t.states[i] = Staged
        /\ l = "commit" \/ t.staged # r.conf => \E i \in K : r.ids[i] # Staged

StepInv(l, t, r) == OpInv(l, t) /\ StartInv(l, t) /\ AttachedInv(l, t, r)
CallInv == \A c \in Controllers : pc[c] # "idle" => StepInv(pc[c], txn[c], held[c])

Inv == KernelTypes /\ CallTypes /\ Exclusive /\ ReceiptsRight /\ CallInv

-----------------------------------------------------------------------------
(* Pids *)

\* A receipt, wherever it is kept.
Known(r) == r \in stored \/ \E c \in Controllers : held[c] = r

\* Pids are handed out once in a boot.
PidsFresh ==
    /\ \A i \in K : thread[i] < nextPid
    /\ \A c \in Controllers, i \in K : txn[c].states[i] < nextPid
    /\ \A r \in Receipts : Known(r) =>
        r.boot <= boot /\ (r.boot = boot => \A i \in K : r.ids[i] < nextPid)

\* A pid that a receipt or a call knows is that of a thread of its session.
Named(ids, s) ==
    \A i \in K : ids[i] # Staged /\ thread[i] = ids[i] => session[i] = s
ReceiptNames ==
    \A r \in Receipts : Known(r) /\ r.boot = boot => Named(r.ids, r.session)
CallNames(c) == pc[c] # "idle" => Named(txn[c].states, txn[c].session)
StartNames(c) ==
    pc[c] = "start_pid" =>
        \/ On(txn[c].i) /\ session[txn[c].i] = txn[c].session
        \/ ~On(txn[c].i) /\ rogue + exits = 1
PidsRight ==
    rogue + exits <= 1 =>
        ReceiptNames /\ \A c \in Controllers : CallNames(c) /\ StartNames(c)

\* No receipt names a thread of a start that has not returned.
StartUnnamed ==
    \A c \in Controllers, r \in Receipts :
        pc[c] # "idle" /\ txn[c].op = "start" /\ Known(r) /\ r.boot = boot =>
            /\ \A i \in K : txn[c].states[i] # Staged => r.ids[i] # txn[c].states[i]
            /\ pc[c] = "start_pid" => ~On(txn[c].i) \/ r.ids[txn[c].i] # thread[txn[c].i]

PidInv == PidsFresh /\ PidsRight /\ StartUnnamed

-----------------------------------------------------------------------------
(* What the holder of the lock has seen *)

\* Between the verification and the first write nothing changes unless somebody
\* ignores the lock; what a read has seen is what its receipt records, or the
\* intruder's values are still there.
Seen(l, t, r) ==
    /\ clean /\ l = "update" => conf = r.conf /\ \A i \in K : thread[i] = r.ids[i]
    /\ l = "read_values" => conf \in {r.conf, Foreign}
    /\ l = "read_verify" => t.seen = r.conf \/ conf = Foreign
SeenInv == \A c \in Controllers : Seen(pc[c], txn[c], held[c])

\* A hierarchy that runs between two calls has a receipt that attaches.
Covered ==
    clean /\ ~Changing /\ ~AllOff =>
        \E r \in Receipts : Known(r) /\ Attaches(r)

-----------------------------------------------------------------------------
(* Types and control *)

\* A hierarchy has at least one kdamond.
LEMMA KFacts == 0 \in K /\ N - 1 \in K /\ K \subseteq Nat
  BY NAssumption DEF K

LEMMA NoTxnTyped == NoTxn \in Txns
  BY KFacts, BoundsAssumption DEF NoTxn, Txns, Contents, Pids, Staged

\* The holder goes on: the others are in no call, and the locals of his next
\* step are what that step needs.
LEMMA GotoKeeps ==
  ASSUME Inv, NEW c \in Controllers, pc[c] # "idle",
         NEW l \in PCs \ {"idle"}, NEW t \in Txns, t.op # "none", Goto(c, l, t),
         KernelTypes', boot' = boot, StepInv(l, t, held[c])
  PROVE  Inv'
<1>. USE DEF Inv, Goto, receiptVars
<1>1. CallTypes' BY DEF CallTypes
<1>2. Exclusive' BY DEF CallTypes, Exclusive
<1>3. ReceiptsRight' BY DEF ReceiptsRight, Right
<1>4. CallInv'
  <2>. SUFFICES ASSUME NEW d \in Controllers, pc'[d] # "idle"
                PROVE  StepInv(pc[d], txn[d], held[d])'
    BY DEF CallInv
  <2>1. d = c BY DEF CallTypes, Exclusive
  <2>2. pc'[d] = l /\ txn'[d] = t /\ held'[d] = held[c] BY <2>1 DEF CallTypes
  <2>. QED BY <2>2 DEF StepInv, OpInv, StartInv, AttachedInv
<1>. QED BY <1>1, <1>2, <1>3, <1>4

\* The holder returns.
LEMMA ReleaseKeeps ==
  ASSUME Inv, NEW c \in Controllers, pc[c] # "idle",
         NEW r \in Results, NEW receipt \in Receipts \cup {NoReceipt}, Right(receipt),
         Release(c, r, receipt), KernelTypes', boot' = boot
  PROVE  Inv'
<1>. USE DEF Inv, Release
<1>1. CallTypes' BY NoTxnTyped DEF CallTypes, PCs
<1>2. Exclusive'
  <2>. SUFFICES ASSUME NEW d \in Controllers
                PROVE  pc'[d] = "idle" /\ lock' # d /\ txn'[d] = NoTxn
    BY DEF Exclusive
  <2>1. CASE d = c BY <2>1, NobodyAssumption DEF CallTypes
  <2>2. CASE d # c BY <2>2, NobodyAssumption DEF CallTypes, Exclusive
  <2>. QED BY <2>1, <2>2
<1>3. ReceiptsRight' BY DEF ReceiptsRight, Right, CallTypes
<1>4. CallInv' BY <1>2, NobodyAssumption DEF CallInv, Exclusive
<1>. QED BY <1>1, <1>2, <1>3, <1>4

\* A step of a call leaves the boot alone and the kernel typed.
LEMMA KernelKeeps ==
  ASSUME Inv, NEW c \in Controllers, Proceed(c)
  PROVE  KernelTypes' /\ boot' = boot /\ calls' = calls /\ pc[c] # "idle" /\ txn[c] \in Txns
<1>. USE DEF Inv, KernelTypes, kernelVars
<1>0. txn[c] \in Txns BY DEF CallTypes
<1>1. CASE Stage(c)
  BY <1>0, <1>1 DEF Stage, CallInv, StepInv, OpInv, Contents, Txns
<1>2. CASE StartOn(c)
  BY <1>0, <1>2, BoundsAssumption DEF StartOn, Txns, Pids
<1>3. CASE UpdateWrite(c) \/ Undo(c) \/ Restore(c)
  BY <1>0, <1>3 DEF UpdateWrite, Undo, Restore, Txns
<1>4. CASE StopOne(c)
  BY <1>0, <1>4, BoundsAssumption DEF StopOne, Txns, Pids
<1>5. CASE \/ StartCheck(c) \/ StartPid(c) \/ StartFinal(c) \/ AttachStep(c) \/ ReadStep(c)
           \/ Commit(c) \/ StopEnd(c) \/ CaptureStep(c)
  BY <1>0, <1>5
  DEF Look, StartCheck, StartPid, StartFinal, AttachStep, ReadStep, Attach, AttachState,
      Read, ReadValues, ReadVerify, Commit, StopEnd, CaptureStep
<1>. QED BY <1>1, <1>2, <1>3, <1>4, <1>5 DEF Proceed, StartStep, UpdateStep, StopStep

\* The steps of start_persistent keep the invariant.
LEMMA StartKeeps ==
  ASSUME Inv, NEW c \in Controllers, StartStep(c)
  PROVE  Inv'
<1>. DEFINE t == txn[c]
<1>0. KernelTypes' /\ boot' = boot /\ pc[c] # "idle" /\ t \in Txns /\ t.op = "start" /\ t.goal \in Configs
      /\ StartInv(pc[c], t) /\ held[c] \in Receipts \cup {NoReceipt} /\ Right(held[c])
  BY KernelKeeps
  DEF Proceed, StartStep, Inv, CallInv, StepInv, OpInv, Stage, StartCheck, StartOn, StartPid,
      StartFinal, StartOnly, CallTypes, ReceiptsRight
<1>. USE <1>0, KFacts DEF StepInv, OpInv, StartInv, AttachedInv, StartOnly, Txns, PCs
<1>1. ASSUME NEW u \in Txns, Unwind(c, u), u.op = "start", u.goal = t.goal, u.staged = t.goal,
             u.volatile <=> u.goal \in Tuned
      PROVE  Inv'
  <2>. DEFINE v == [u EXCEPT !.i = N - 1, !.err = TRUE, !.again = TRUE]
  <2>1. v \in Txns /\ v.op = "start" /\ v.goal = t.goal /\ v.staged = t.goal
        /\ (v.volatile <=> v.goal \in Tuned)
    BY <1>1
  <2>2. StepInv("stop", v, held[c]) BY <2>1
  <2>. QED BY <1>1, <2>1, <2>2, GotoKeeps DEF Unwind
<1>2. CASE Stage(c)
  <2>1. CASE Release(c, "rejected", held[c]) \/ Broken(c)
    BY <2>1, ReleaseKeeps DEF Broken, Results
  <2>2. CASE Goto(c, "start_check",
                  [t EXCEPT !.previous = conf, !.wasTuned = FALSE, !.staged = t.goal,
                            !.volatile = (t.goal \in Tuned)])
    <3>. DEFINE d == t.goal \in Tuned
                v == [t EXCEPT !.previous = conf, !.wasTuned = FALSE, !.staged = t.goal,
                              !.volatile = d]
    <3>1. v \in Txns /\ v.op = "start" /\ v.goal = t.goal /\ v.staged = t.goal
          /\ v.volatile = d /\ v.i = t.i
      <4>1. conf \in Contents /\ t.goal \in Contents /\ d \in BOOLEAN
        BY DEF Inv, KernelTypes, Contents
      <4>. HIDE DEF d
      <4>2. v \in Txns BY <4>1
      <4>3. v.volatile = d BY <4>1
      <4>4. v.op = "start" /\ v.goal = t.goal /\ v.staged = t.goal /\ v.i = t.i BY <4>1
      <4>. QED BY <4>2, <4>3, <4>4
    <3>2. StepInv("start_check", v, held[c]) BY <1>2, <3>1 DEF Stage
    <3>. QED BY <2>2, <3>1, <3>2, GotoKeeps
  <2>. QED BY <1>2, <2>1, <2>2 DEF Stage
<1>3. CASE StartCheck(c)
  BY <1>1, <1>3, GotoKeeps DEF StartCheck, Look
<1>4. CASE StartOn(c)
  BY <1>1, <1>4, GotoKeeps DEF StartOn, Staged, Unidentified
<1>5. CASE StartPid(c)
  <2>. DEFINE u == [t EXCEPT !.states[t.i] = thread[t.i]]
              v == [u EXCEPT !.i = @ + 1]
  <2>0. pc[c] = "start_pid" /\ t.i \in K /\ thread[t.i] \in Pids
    BY <1>5 DEF StartPid, Inv, KernelTypes
  <2>1. u \in Txns /\ u.op = "start" /\ u.goal = t.goal /\ u.staged = t.staged
        /\ u.volatile = t.volatile /\ u.i = t.i
        /\ u.states = [t.states EXCEPT ![t.i] = thread[t.i]]
    BY <2>0
  <2>2. CASE Unwind(c, t) BY <1>1, <2>0, <2>2
  <2>3. CASE On(t.i) /\ t.i + 1 \in K /\ Goto(c, "start_on", v)
    <3>1. v \in Txns /\ v.op = "start" /\ v.goal = t.goal /\ v.staged = t.staged
          /\ v.volatile = t.volatile /\ v.i = t.i + 1 /\ v.states = u.states
      BY <2>1, <2>3
    <3>2. \A j \in K : j < v.i => v.states[j] # Staged
      BY <2>0, <2>1, <2>3, <3>1 DEF On, Staged, K
    <3>. QED BY <2>0, <2>3, <3>1, <3>2, GotoKeeps
  <2>4. CASE On(t.i) /\ t.i + 1 \notin K /\ Goto(c, "start_final", u)
    <3>1. \A j \in K : u.states[j] # Staged
      BY <2>0, <2>1, <2>4, NAssumption DEF On, Staged, K
    <3>. QED BY <2>0, <2>1, <2>4, <3>1, GotoKeeps
  <2>. QED BY <1>5, <2>2, <2>3, <2>4 DEF StartPid, Look
<1>6. CASE StartFinal(c)
  BY <1>1, <1>6, GotoKeeps DEF StartFinal, Look
<1>. QED BY <1>2, <1>3, <1>4, <1>5, <1>6 DEF StartStep

\* The steps of a call on a receipt: attach, read and update.
LEMMA OpenedKeeps ==
  ASSUME Inv, NEW c \in Controllers, AttachStep(c) \/ ReadStep(c) \/ UpdateStep(c)
  PROVE  Inv'
<1>. DEFINE t == txn[c]
            r == held[c]
<1>0. KernelTypes' /\ boot' = boot /\ pc[c] # "idle" /\ t \in Txns /\ t.op # "start"
      /\ OpInv(pc[c], t) /\ AttachedInv(pc[c], t, r) /\ r \in Receipts /\ Right(r)
  BY KernelKeeps
  DEF Proceed, AttachStep, ReadStep, UpdateStep, Inv, CallInv, StepInv, OpInv, AttachedInv, Attach,
      AttachState, Read, ReadValues, ReadVerify, UpdateWrite, Commit, Undo, ReceiptsRight
<1>. USE <1>0, KFacts DEF StepInv, OpInv, StartInv, AttachedInv, StartOnly, Txns, PCs, Results
<1>1. ASSUME NEW x \in Results, Release(c, x, r) PROVE Inv'
  BY <1>1, ReleaseKeeps
<1>2. CASE Attach(c)
  BY <1>1, <1>2, GotoKeeps DEF Attach, Look, Lost
<1>3. CASE AttachState(c)
  <2>1. CASE t.op # "attach" /\ Goto(c, t.op, [t EXCEPT !.i = N - 1])
    <3>. DEFINE v == [t EXCEPT !.i = N - 1]
    <3>1. v \in Txns /\ v.op = t.op /\ v.goal = t.goal /\ v.staged = t.staged
          /\ v.volatile = t.volatile /\ v.states = t.states /\ v.session = t.session
      OBVIOUS
    <3>2. t.op \in {"update", "stop", "read"} BY <1>3, <2>1 DEF AttachState
    <3>. QED BY <1>3, <2>1, <3>1, <3>2, GotoKeeps DEF AttachState
  <2>. QED BY <1>1, <1>3, <2>1 DEF AttachState, Look, Lost
<1>4. CASE Read(c)
  BY <1>1, <1>4, GotoKeeps DEF Read, Look, Lost
<1>5. CASE ReadValues(c)
  <2>. DEFINE v == [t EXCEPT !.seen = conf]
  <2>1. CASE Goto(c, "read_verify", v)
    <3>1. conf \in Contents BY DEF Inv, KernelTypes
    <3>2. v \in Txns BY <3>1
    <3>3. v.op = t.op /\ v.goal = t.goal /\ v.staged = t.staged /\ v.volatile = t.volatile
          /\ v.states = t.states /\ v.session = t.session
      BY <3>1
    <3>. QED BY <1>5, <2>1, <3>2, <3>3, GotoKeeps DEF ReadValues
  <2>. QED BY <1>1, <1>5, <2>1 DEF ReadValues, Look, Lost
<1>6. CASE ReadVerify(c)
  BY <1>1, <1>6 DEF ReadVerify, Look, Lost
<1>7. CASE UpdateWrite(c)
  <2>1. CASE Goto(c, "commit", [t EXCEPT !.previous = conf]) /\ \E i \in K : t.states[i] # Staged
    <3>. DEFINE v == [t EXCEPT !.previous = conf]
    <3>1. conf \in Contents BY DEF Inv, KernelTypes
    <3>2. v \in Txns BY <3>1
    <3>3. v.op = t.op /\ v.goal = t.goal /\ v.staged = t.staged /\ v.volatile = t.volatile
          /\ v.states = t.states /\ v.session = t.session
      BY <3>1
    <3>. QED BY <1>7, <2>1, <3>2, <3>3, GotoKeeps DEF UpdateWrite
  <2>2. CASE Goto(c, "capture", [t EXCEPT !.err = TRUE])
    <3>. DEFINE v == [t EXCEPT !.err = TRUE]
    <3>1. v \in Txns OBVIOUS
    <3>2. v.op = t.op /\ v.goal = t.goal /\ v.staged = t.staged /\ v.volatile = t.volatile
          /\ v.states = t.states /\ v.session = t.session
      OBVIOUS
    <3>. QED BY <1>7, <2>2, <3>1, <3>2, GotoKeeps DEF UpdateWrite
  <2>. QED BY <1>7, <2>1, <2>2 DEF UpdateWrite
<1>8. CASE Commit(c)
  <2>. DEFINE d == t.goal \in Tuned
              v == [t EXCEPT !.staged = t.goal, !.wasTuned = tune, !.volatile = d]
              w == [t EXCEPT !.err = TRUE]
  <2>1. CASE Goto(c, "capture", v)
    <3>1. tune \in BOOLEAN /\ d \in BOOLEAN /\ t.goal \in Contents BY DEF Inv, KernelTypes
    <3>2. v \in Txns BY <3>1
    <3>3. v.volatile = d BY <3>1
    <3>4. v.op = t.op /\ v.goal = t.goal /\ v.staged = t.goal /\ v.states = t.states
          /\ v.session = t.session
      BY <3>1
    <3>5. StepInv("capture", v, r) BY <1>8, <3>3, <3>4 DEF Commit
    <3>. QED BY <1>8, <2>1, <3>2, <3>4, <3>5, GotoKeeps DEF Commit
  <2>2. CASE Goto(c, "undo", w)
    <3>1. w \in Txns OBVIOUS
    <3>2. w.op = t.op /\ w.goal = t.goal /\ w.staged = t.staged /\ w.volatile = t.volatile
          /\ w.states = t.states /\ w.session = t.session
      OBVIOUS
    <3>. QED BY <1>8, <2>2, <3>1, <3>2, GotoKeeps DEF Commit
  <2>. QED BY <1>8, <2>1, <2>2 DEF Commit, Look
<1>9. CASE Undo(c)
  <2>. DEFINE v == [t EXCEPT !.wasTuned = tune]
  <2>1. tune \in BOOLEAN BY DEF Inv, KernelTypes
  <2>2. v \in Txns BY <2>1
  <2>3. v.op = t.op /\ v.goal = t.goal /\ v.staged = t.staged /\ v.volatile = t.volatile
        /\ v.states = t.states /\ v.session = t.session
    BY <2>1
  <2>4. CASE Goto(c, "capture", v) BY <1>9, <2>2, <2>3, <2>4, GotoKeeps DEF Undo
  <2>5. CASE Goto(c, "capture", t) BY <1>9, <2>5, GotoKeeps DEF Undo
  <2>. QED BY <1>9, <2>4, <2>5 DEF Undo
<1>. QED BY <1>2, <1>3, <1>4, <1>5, <1>6, <1>7, <1>8, <1>9 DEF AttachStep, ReadStep, UpdateStep

\* Stopping, restoring and capturing.
LEMMA ClosingKeeps ==
  ASSUME Inv, NEW c \in Controllers, StopStep(c) \/ CaptureStep(c)
  PROVE  Inv'
<1>. DEFINE t == txn[c]
            r == held[c]
<1>0. KernelTypes' /\ boot' = boot /\ pc[c] # "idle" /\ t \in Txns
      /\ StepInv(pc[c], t, r) /\ r \in Receipts \cup {NoReceipt} /\ Right(r)
  BY KernelKeeps
  DEF Proceed, StopStep, Inv, CallInv, StopOne, StopEnd, Restore, CaptureStep, ReceiptsRight, CallTypes
<1>. USE <1>0, KFacts DEF StepInv, OpInv, StartInv, AttachedInv, StartOnly, Txns, PCs, Results
<1>1. ASSUME NEW x \in Results, Release(c, x, r) PROVE Inv'
  BY <1>1, ReleaseKeeps
<1>2. CASE StopOne(c)
  <2>. DEFINE failed == [t EXCEPT !.err = TRUE]
              stopped == [t EXCEPT !.states[t.i] = Staged]
  <2>0. pc[c] = "stop" BY <1>2 DEF StopOne
  <2>1. ASSUME NEW v \in Txns, v.op = t.op, v.goal = t.goal, v.staged = t.staged,
               v.volatile = t.volatile, v.session = t.session,
               \A i \in K : v.states[i] \in {t.states[i], Staged}, PassOn(c, v)
        PROVE  Inv'
    <3>. DEFINE j == IF v.i = 0 THEN 0 ELSE v.i - 1
                l == IF v.i = 0 THEN "stop_end" ELSE "stop"
                w == [v EXCEPT !.i = j]
    <3>0. j \in K BY NAssumption DEF K
    <3>1. w \in Txns BY <3>0
    <3>2. /\ w.op = v.op /\ w.goal = v.goal /\ w.staged = v.staged /\ w.volatile = v.volatile
          /\ w.states = v.states /\ w.session = v.session
      BY <3>0
    <3>3. Goto(c, l, w) BY <2>1 DEF PassOn
    <3>4. StepInv(l, w, r) BY <2>0, <2>1, <3>2 DEF Staged
    <3>. HIDE DEF w
    <3>. QED BY <2>0, <2>1, <3>1, <3>2, <3>3, <3>4, GotoKeeps
  <2>2. CASE PassOn(c, failed)
    <3>1. failed \in Txns OBVIOUS
    <3>2. /\ failed.op = t.op /\ failed.goal = t.goal /\ failed.staged = t.staged
          /\ failed.volatile = t.volatile /\ failed.states = t.states /\ failed.session = t.session
      OBVIOUS
    <3>. HIDE DEF failed
    <3>. QED BY <2>1, <2>2, <3>1, <3>2
  <2>3. CASE PassOn(c, stopped)
    <3>0. Staged \in Pids BY BoundsAssumption DEF Pids, Staged
    <3>1. stopped \in Txns BY <3>0
    <3>2. /\ stopped.op = t.op /\ stopped.goal = t.goal /\ stopped.staged = t.staged
          /\ stopped.volatile = t.volatile /\ stopped.session = t.session
          /\ stopped.states = [t.states EXCEPT ![t.i] = Staged]
      BY <3>0
    <3>. HIDE DEF stopped
    <3>. QED BY <2>1, <2>3, <3>1, <3>2
  <2>. QED BY <1>2, <2>2, <2>3 DEF StopOne
<1>3. CASE StopEnd(c)
  <2>0. pc[c] = "stop_end" BY <1>3 DEF StopEnd
  <2>1. CASE t.op = "stop" /\ Goto(c, "capture", t)
    BY <2>0, <2>1, GotoKeeps
  <2>2. CASE t.op = "stop" /\ Goto(c, "capture", [t EXCEPT !.err = TRUE])
    <3>. DEFINE v == [t EXCEPT !.err = TRUE]
    <3>1. v \in Txns OBVIOUS
    <3>2. v.op = t.op /\ v.goal = t.goal /\ v.staged = t.staged /\ v.volatile = t.volatile
          /\ v.states = t.states /\ v.session = t.session
      OBVIOUS
    <3>. QED BY <2>0, <2>2, <3>1, <3>2, GotoKeeps
  <2>3. CASE t.op # "stop" /\ Goto(c, "stop", [t EXCEPT !.i = N - 1, !.again = FALSE])
    <3>. DEFINE v == [t EXCEPT !.i = N - 1, !.again = FALSE]
    <3>1. v \in Txns OBVIOUS
    <3>2. v.op = t.op /\ v.goal = t.goal /\ v.staged = t.staged /\ v.volatile = t.volatile
          /\ v.states = t.states /\ v.session = t.session
      OBVIOUS
    <3>. QED BY <2>0, <2>3, <3>1, <3>2, GotoKeeps
  <2>4. CASE t.op # "stop" /\ Goto(c, "restore", t)
    BY <2>0, <2>4, GotoKeeps
  <2>5. CASE Broken(c) BY <1>1, <2>5 DEF Broken
  <2>. QED BY <1>3, <2>1, <2>2, <2>3, <2>4, <2>5 DEF StopEnd, Look
<1>4. CASE Restore(c) BY <1>1, <1>4 DEF Restore, Broken
<1>5. CASE CaptureStep(c)
  <2>0. pc[c] = "capture" BY <1>5 DEF CaptureStep
  <2>1. CASE OwnedState(t) /\ Release(c, IF t.err THEN "failed" ELSE "ok", Capture(t))
    <3>1. t.states \in [K -> Pids]
      BY <2>1 DEF OwnedState, Inv, KernelTypes
    <3>2. conf \in Configs
      BY <2>0, <2>1 DEF OwnedState, Verify, Receipts
    <3>3. Capture(t) \in Receipts
      BY <3>1, <3>2 DEF Capture, Receipts, Inv, KernelTypes, Pids
    <3>4. Right(Capture(t))
      BY <2>0, <2>1 DEF Capture, Right, OwnedState, Verify
    <3>. QED BY <2>1, <3>3, <3>4, ReleaseKeeps
  <2>2. CASE t.op = "start" /\ Unwind(c, t)
    <3>. DEFINE v == [t EXCEPT !.i = N - 1, !.err = TRUE, !.again = TRUE]
    <3>1. v \in Txns OBVIOUS
    <3>2. v.op = t.op /\ v.goal = t.goal /\ v.staged = t.staged /\ v.volatile = t.volatile
          /\ v.states = t.states /\ v.session = t.session
      OBVIOUS
    <3>. QED BY <2>0, <2>2, <3>1, <3>2, GotoKeeps DEF Unwind
  <2>3. CASE Release(c, "uncertain", r) BY <1>1, <2>3
  <2>. QED BY <1>5, <2>1, <2>2, <2>3 DEF CaptureStep, Look
<1>. QED BY <1>2, <1>3, <1>4, <1>5 DEF StopStep

\* Entering a call: the lock is taken when it is free, and only then.
LEMMA AcquireKeeps ==
  ASSUME Inv, NEW c \in Controllers, NEW l \in PCs \ {"idle"}, NEW t \in Txns, t.op # "none",
         Enter(c), Acquire(c, l, t), StepInv(l, t, held[c])
  PROVE  Inv'
<1>. USE DEF Inv, Enter, Acquire, receiptVars, kernelVars
<1>1. KernelTypes' BY BoundsAssumption DEF KernelTypes
<1>2. CallTypes' BY DEF CallTypes, Results
<1>3. Exclusive' BY NobodyAssumption DEF CallTypes, Exclusive
<1>4. ReceiptsRight' BY DEF ReceiptsRight, Right
<1>5. CallInv'
  <2>. SUFFICES ASSUME NEW d \in Controllers, pc'[d] # "idle"
                PROVE  StepInv(pc[d], txn[d], held[d])'
    BY DEF CallInv
  <2>1. CASE lock = Nobody
    <3>1. d = c BY <2>1, NobodyAssumption DEF CallTypes, Exclusive
    <3>. QED BY <2>1, <3>1 DEF CallTypes, StepInv, OpInv, StartInv, AttachedInv
  <2>2. CASE lock # Nobody
    BY <2>2 DEF CallInv, CallTypes, StepInv, OpInv, StartInv, AttachedInv
  <2>. QED BY <2>1, <2>2
<1>. QED BY <1>1, <1>2, <1>3, <1>4, <1>5

LEMMA CallKeeps ==
  ASSUME Inv, NEW c \in Controllers, CallStep(c)
  PROVE  Inv'
<1>1. CASE StartPersistent(c)
  <2>1. PICK goal \in Configs :
          Acquire(c, "stage", [NoTxn EXCEPT !.op = "start", !.goal = goal, !.session = calls + 1])
    BY <1>1 DEF StartPersistent
  <2>. DEFINE t == [NoTxn EXCEPT !.op = "start", !.goal = goal, !.session = calls + 1]
  <2>2. Enter(c) /\ calls + 1 \in 0 .. MaxCalls
    BY <1>1, BoundsAssumption DEF StartPersistent, Enter, Inv, KernelTypes
  <2>3. t \in Txns BY <2>2, NoTxnTyped DEF Txns, Contents
  <2>4. t.op = "start" /\ t.goal = goal /\ t.i = 0 BY DEF NoTxn
  <2>5. StepInv("stage", t, held[c])
    BY <2>4 DEF StepInv, OpInv, StartInv, AttachedInv, StartOnly
  <2>6. Acquire(c, "stage", t) BY <2>1
  <2>. HIDE DEF t
  <2>. QED BY <2>2, <2>3, <2>4, <2>5, <2>6, AcquireKeeps DEF PCs
<1>2. ASSUME NEW op \in {"update", "stop", "read", "attach"}, NEW goal \in Contents,
             op = "update" => goal \in Configs, Operate(c, op, goal)
      PROVE  Inv'
  <2>. DEFINE r == held[c]
              t == [NoTxn EXCEPT !.op = op, !.goal = goal, !.staged = r.conf,
                                 !.wasTuned = r.tune, !.volatile = r.volatile,
                                 !.states = r.ids, !.session = r.session]
  <2>1. r \in Receipts /\ Right(r) /\ r # NoReceipt /\ Enter(c)
    BY <1>2 DEF Operate, Inv, CallTypes, ReceiptsRight
  <2>2. CASE Bound(r) /\ Acquire(c, "attach", t)
    <3>1. r.conf \in Contents /\ r.tune \in BOOLEAN /\ r.volatile \in BOOLEAN
          /\ r.ids \in [K -> Pids \cup {Unidentified}] /\ r.session \in 0 .. MaxCalls
      BY <2>1 DEF Receipts, Contents, Pids
    <3>2. t \in Txns BY <3>1, NoTxnTyped DEF Txns
    <3>3. t.op = op /\ t.goal = goal /\ t.staged = r.conf /\ t.states = r.ids
          /\ t.session = r.session
      BY DEF NoTxn
    <3>4. t.volatile = r.volatile BY DEF NoTxn
    <3>5. StepInv("attach", t, r)
      BY <1>2, <2>1, <2>2, <3>3, <3>4
      DEF StepInv, OpInv, StartInv, AttachedInv, StartOnly, Bound, Right
    <3>. HIDE DEF t
    <3>. QED BY <2>1, <2>2, <3>2, <3>3, <3>5, AcquireKeeps DEF PCs
  <2>3. CASE result' = [result EXCEPT ![c] = "mismatch"] /\ UNCHANGED <<lock, pc, txn>>
    <3>. USE <2>1, <2>3 DEF Enter, Inv, kernelVars, receiptVars
    <3>1. KernelTypes' BY BoundsAssumption DEF KernelTypes
    <3>2. CallTypes' /\ Exclusive' BY DEF CallTypes, Exclusive, Results
    <3>3. ReceiptsRight' BY DEF ReceiptsRight, Right
    <3>4. CallInv' BY DEF CallInv, StepInv, OpInv, StartInv, AttachedInv
    <3>. QED BY <3>1, <3>2, <3>3, <3>4
  <2>. QED BY <1>2, <2>2, <2>3 DEF Operate
<1>3. CASE Update(c) \/ Stop(c) \/ Configuration(c) \/ AttachHandle(c)
  BY <1>2, <1>3 DEF Update, Stop, Configuration, AttachHandle, Contents
<1>4. CASE Store(c) \/ TakeStored(c)
  <2>1. KernelTypes' /\ CallTypes' /\ Exclusive' /\ ReceiptsRight'
    BY <1>4
    DEF Store, TakeStored, kernelVars, callVars, budgets, Inv, KernelTypes, CallTypes, Exclusive,
        ReceiptsRight, Right
  <2>2. ASSUME NEW d \in Controllers, pc[d] # "idle" PROVE held'[d] = held[d]
    BY <1>4, <2>2 DEF Store, TakeStored, Inv, CallTypes
  <2>3. CallInv'
    BY <1>4, <2>2
    DEF Store, TakeStored, kernelVars, callVars, Inv, CallInv, StepInv, OpInv, StartInv, AttachedInv
  <2>. QED BY <2>1, <2>3 DEF Inv
<1>. QED BY <1>1, <1>3, <1>4 DEF CallStep

\* A process that dies or a machine that boots ends calls; what the kernel and
\* those who ignore the lock do is outside of all calls.
LEMMA OutsideKeeps ==
  ASSUME Inv, Environment \/ \E c \in Controllers : Crash(c)
  PROVE  Inv'
<1>. USE DEF Inv
<1>1. ASSUME NEW c \in Controllers, Crash(c) PROVE Inv'
  <2>. USE <1>1 DEF Crash, kernelVars
  <2>1. KernelTypes' BY DEF KernelTypes
  <2>2. CallTypes' BY NoTxnTyped DEF CallTypes, PCs, Results
  <2>3. Exclusive' BY NobodyAssumption DEF Exclusive, CallTypes
  <2>4. ReceiptsRight' BY DEF ReceiptsRight, Right, CallTypes
  <2>5. CallInv' BY DEF CallInv, CallTypes, StepInv, OpInv, StartInv, AttachedInv
  <2>. QED BY <2>1, <2>2, <2>3, <2>4, <2>5
<1>2. CASE Reboot
  <2>. USE <1>2 DEF Reboot, budgets
  <2>1. KernelTypes'
    <3>1. boot' \in 1 .. MaxBoots /\ nextPid' \in 1 .. MaxPid + 1
      BY BoundsAssumption DEF KernelTypes
    <3>2. thread' \in [K -> Pids] /\ session' \in [K -> 0 .. MaxCalls]
      BY BoundsAssumption DEF Pids
    <3>3. conf' \in Contents /\ tune' \in BOOLEAN BY DEF Contents
    <3>4. calls' \in 0 .. MaxCalls /\ rogue' \in Nat /\ exits' \in Nat BY DEF KernelTypes
    <3>. QED BY <3>1, <3>2, <3>3, <3>4 DEF KernelTypes
  <2>2. CallTypes' BY NoTxnTyped DEF CallTypes, PCs, Results
  <2>3. Exclusive' BY NobodyAssumption DEF Exclusive
  <2>4. ReceiptsRight' /\ CallInv' BY DEF ReceiptsRight, Right, CallInv
  <2>. QED BY <2>1, <2>2, <2>3, <2>4
<1>3. CASE KernelTunes \/ RogueActs \/ \E i \in K : KdamondExits(i)
  <2>. USE <1>3 DEF KernelTunes, RogueActs, KdamondExits, receiptVars, callVars, budgets
  <2>1. KernelTypes'
    <3>. USE BoundsAssumption DEF KernelTypes, Contents, Pids
    <3>1. CASE KernelTunes BY <3>1
    <3>2. CASE RogueActs
      <4>1. conf' \in Contents /\ tune' \in BOOLEAN /\ boot' \in 1 .. MaxBoots BY <3>2
      <4>2. thread' \in [K -> Pids] /\ nextPid' \in 1 .. MaxPid + 1 BY <3>2
      <4>3. session' \in [K -> 0 .. MaxCalls] BY <3>2
      <4>4. calls' \in 0 .. MaxCalls /\ rogue' \in Nat /\ exits' \in Nat BY <3>2
      <4>. QED BY <4>1, <4>2, <4>3, <4>4
    <3>3. ASSUME NEW i \in K, KdamondExits(i) PROVE KernelTypes' BY <3>3
    <3>. QED BY <1>3, <3>1, <3>2, <3>3
  <2>2. CallTypes' /\ Exclusive' /\ ReceiptsRight'
    BY DEF CallTypes, Exclusive, ReceiptsRight, Right
  <2>3. CallInv' BY DEF CallInv, StepInv, OpInv, StartInv, AttachedInv
  <2>. QED BY <2>1, <2>2, <2>3
<1>. QED BY <1>1, <1>2, <1>3 DEF Environment

\* A controller acts only under the lock, in the call it is in, on receipts that
\* say what the kernel tunes: the invariant the theorems below rest on.
THEOREM CallsExclusive == Spec => []Inv
<1>1. Init => Inv
  <2>. SUFFICES ASSUME Init PROVE Inv
    OBVIOUS
  <2>. USE NobodyAssumption DEF Init
  <2>1. KernelTypes
    <3>. USE BoundsAssumption DEF Contents, Pids
    <3>1. conf \in Contents /\ tune \in BOOLEAN
      <4>1. conf \in Contents OBVIOUS
      <4>2. tune \in BOOLEAN OBVIOUS
      <4>. QED BY <4>1, <4>2
    <3>2. boot \in 1 .. MaxBoots /\ thread \in [K -> Pids] /\ session \in [K -> 0 .. MaxCalls] OBVIOUS
    <3>3. nextPid \in 1 .. MaxPid + 1 /\ calls \in 0 .. MaxCalls /\ rogue \in Nat /\ exits \in Nat
      OBVIOUS
    <3>. QED BY <3>1, <3>2, <3>3 DEF KernelTypes
  <2>2. CallTypes BY NoTxnTyped DEF CallTypes, PCs, Results
  <2>3. Exclusive /\ CallInv BY DEF Exclusive, CallInv
  <2>4. ReceiptsRight BY DEF ReceiptsRight, Right
  <2>. QED BY <2>1, <2>2, <2>3, <2>4 DEF Inv
<1>2. Inv /\ [Next]_vars => Inv'
  <2>. SUFFICES ASSUME Inv, [Next]_vars PROVE Inv'
    OBVIOUS
  <2>1. ASSUME NEW c \in Controllers, Proceed(c) PROVE Inv'
    BY <2>1, StartKeeps, OpenedKeeps, ClosingKeeps DEF Proceed
  <2>2. CASE UNCHANGED vars
    BY <2>2
    DEF vars, kernelVars, receiptVars, callVars, budgets, Inv, KernelTypes, CallTypes, Exclusive,
        ReceiptsRight, Right, CallInv, StepInv, OpInv, StartInv, AttachedInv
  <2>. QED BY <2>1, <2>2, CallKeeps, OutsideKeeps DEF Next
<1>. QED BY <1>1, <1>2, PTL DEF Spec

-----------------------------------------------------------------------------
(* What a read returns *)

\* The holder goes on or returns.
LEMMA HolderSteps ==
  ASSUME NEW c \in Controllers, Proceed(c)
  PROVE  (\E l, t : Goto(c, l, t)) \/ (\E r, receipt : Release(c, r, receipt))
  BY DEF Proceed, StartStep, AttachStep, ReadStep, UpdateStep, StopStep, CaptureStep, Stage,
         StartCheck, StartOn, StartPid, StartFinal, Unwind, Attach, AttachState, Lost, Look, Read,
         ReadValues, ReadVerify, UpdateWrite, Commit, Undo, StopOne, PassOn, StopEnd, Restore, Broken

\* The steps of the holder leave the others where they are.
LEMMA OthersStay ==
  ASSUME Inv, NEW c \in Controllers, Proceed(c) \/ CallStep(c),
         NEW d \in Controllers, d # c
  PROVE  /\ pc'[d] = pc[d] /\ txn'[d] = txn[d] /\ held'[d] = held[d] /\ result'[d] = result[d]
         /\ Proceed(c) => pc[d] = "idle"
<1>. USE DEF Inv, CallTypes
<1>1. CASE CallStep(c)
  <2>1. pc'[d] = pc[d] /\ txn'[d] = txn[d] /\ held'[d] = held[d] /\ result'[d] = result[d]
    BY <1>1
    DEF CallStep, StartPersistent, Update, Stop, Configuration, AttachHandle, Operate, Enter,
        Acquire, Store, TakeStored, receiptVars, callVars
  <2>2. Proceed(c) => pc[d] = "idle"
    BY KernelKeeps DEF Exclusive
  <2>. QED BY <2>1, <2>2
<1>2. CASE Proceed(c)
  <2>1. pc[d] = "idle" BY <1>2, KernelKeeps DEF Exclusive
  <2>2. (\E l, t : Goto(c, l, t)) \/ (\E r, receipt : Release(c, r, receipt))
    BY <1>2, HolderSteps
  <2>3. pc'[d] = pc[d] /\ txn'[d] = txn[d] /\ held'[d] = held[d] /\ result'[d] = result[d]
    BY <2>2 DEF Goto, Release, receiptVars
  <2>. QED BY <2>1, <2>3
<1>. QED BY <1>1, <1>2

LEMMA SeenNext == Inv /\ SeenInv /\ [Next]_vars => SeenInv'
<1>. SUFFICES ASSUME Inv, SeenInv, [Next]_vars, NEW d \in Controllers
              PROVE  Seen(pc[d], txn[d], held[d])'
  BY DEF SeenInv
<1>. USE DEF Seen
<1>0. Seen(pc[d], txn[d], held[d]) BY DEF SeenInv
<1>1. ASSUME NEW c \in Controllers, c # d, CallStep(c) \/ Proceed(c)
      PROVE  Seen(pc[d], txn[d], held[d])'
  <2>1. Proceed(c) => pc'[d] = "idle" BY <1>1, OthersStay
  <2>2. CallStep(c) => UNCHANGED <<conf, thread, clean>>
    BY <1>1
    DEF CallStep, StartPersistent, Update, Stop, Configuration, AttachHandle, Operate, Enter,
        Store, TakeStored, kernelVars, callVars
  <2>. QED BY <1>0, <1>1, <2>1, <2>2, OthersStay
<1>2. CASE CallStep(d)
  <2>1. pc'[d] \in {"stage", "attach", "idle"}
        \/ (UNCHANGED <<conf, thread, clean>> /\ pc'[d] = pc[d] /\ txn'[d] = txn[d] /\ held'[d] = held[d])
    BY <1>2
    DEF CallStep, StartPersistent, Update, Stop, Configuration, AttachHandle, Operate, Enter,
        Acquire, Store, TakeStored, kernelVars, callVars, receiptVars, Inv, CallTypes
  <2>. QED BY <1>0, <2>1
<1>3. CASE Proceed(d)
  <2>. DEFINE t == txn[d]
  <2>0. pc[d] # "idle" /\ t \in Txns /\ StepInv(pc[d], t, held[d])
    BY <1>3, KernelKeeps DEF Inv, CallInv
  <2>1. CASE StartStep(d) \/ UpdateStep(d) \/ StopStep(d) \/ CaptureStep(d) \/ Attach(d) \/ ReadVerify(d)
    <3>1. pc'[d] \notin {"update", "read_values", "read_verify"}
      BY <2>1
      DEF StartStep, UpdateStep, StopStep, CaptureStep, Stage, StartCheck, StartOn, StartPid,
          StartFinal, Unwind, Attach, Lost, Look, ReadVerify, UpdateWrite, Commit, Undo, StopOne,
          PassOn, StopEnd, Restore, Broken, Goto, Release, Inv, CallTypes
    <3>. QED BY <3>1
  <2>2. CASE AttachState(d)
    <3>1. CASE Goto(d, t.op, [t EXCEPT !.i = N - 1]) /\ OwnedState(t) /\ t.op # "start"
      <4>1. conf = held[d].conf /\ \A i \in K : thread[i] = held[d].ids[i]
        BY <2>0, <2>2, <3>1 DEF AttachState, OwnedState, Verify, StepInv, AttachedInv
      <4>2. UNCHANGED <<conf, thread, clean, held>> /\ pc'[d] = t.op
        BY <2>2, <3>1 DEF AttachState, Look, kernelVars, Goto, receiptVars, Inv, CallTypes
      <4>. QED BY <2>0, <2>2, <4>1, <4>2 DEF AttachState, StepInv, OpInv
    <3>2. CASE \E x : Release(d, x, held[d])
      BY <3>2 DEF Release, Inv, CallTypes
    <3>. QED BY <2>0, <2>2, <3>1, <3>2 DEF AttachState, Look, Lost, StepInv, OpInv
  <2>3. CASE Read(d) \/ ReadValues(d)
    <3>1. CASE \E x : Release(d, x, held[d])
      BY <3>1 DEF Release, Inv, CallTypes
    <3>2. CASE Read(d) /\ OwnedState(t) /\ Goto(d, "read_values", t)
      <4>0. pc[d] = "read" /\ conf = t.staged BY <3>2 DEF Read, OwnedState, Verify
      <4>1. t.op = "read" BY <2>0, <4>0 DEF StepInv, OpInv
      <4>2. conf = held[d].conf BY <2>0, <4>0, <4>1 DEF StepInv, AttachedInv
      <4>. QED BY <3>2, <4>2 DEF Read, Look, kernelVars, Goto, receiptVars, Inv, CallTypes
    <3>3. CASE ReadValues(d) /\ Goto(d, "read_verify", [t EXCEPT !.seen = conf])
      <4>1. conf' = conf /\ held' = held /\ pc'[d] = "read_verify" /\ txn'[d] = [t EXCEPT !.seen = conf]
        BY <3>3 DEF ReadValues, Look, kernelVars, Goto, receiptVars, Inv, CallTypes
      <4>2. txn'[d].seen = conf BY <2>0, <4>1 DEF Txns
      <4>. QED BY <1>0, <3>3, <4>1, <4>2 DEF ReadValues
    <3>. QED BY <2>3, <3>1, <3>2, <3>3 DEF Read, ReadValues, Look, Lost
  <2>. QED BY <1>3, <2>1, <2>2, <2>3 DEF Proceed, AttachStep, ReadStep
<1>4. CASE Environment \/ (\E c \in Controllers : Crash(c)) \/ UNCHANGED vars
  BY <1>0, <1>4
  DEF Environment, Crash, Reboot, KernelTunes, RogueActs, KdamondExits, vars, kernelVars,
      receiptVars, callVars, budgets, Inv, CallTypes
<1>. QED BY <1>1, <1>2, <1>3, <1>4 DEF Next

LEMMA SeenAlways == Spec => []SeenInv
<1>1. Init => SeenInv BY DEF Init, SeenInv, Seen
<1>. QED BY <1>1, SeenNext, CallsExclusive, PTL DEF Spec

\* AttachedHierarchy::configuration, observed_configuration: a configuration that
\* a read returns is the one its receipt records, for every interference.
THEOREM ReadsAreTrue == Spec => ReadTrue
<1>1. Inv /\ SeenInv /\ [Next]_vars =>
        [\A c \in Controllers :
            pc[c] = "read_verify" /\ result'[c] = "ok" /\ rogue <= 1 =>
                txn[c].seen = held[c].conf]_vars
  <2>. SUFFICES ASSUME Inv, SeenInv, Next, NEW c \in Controllers,
                       pc[c] = "read_verify", result'[c] = "ok"
                PROVE  txn[c].seen = held[c].conf
    OBVIOUS
  <2>1. result[c] = "none" BY DEF Inv, Exclusive
  <2>2. ReadVerify(c)
    <3>1. ASSUME NEW d \in Controllers, CallStep(d) \/ Proceed(d) PROVE d = c
      BY <2>1, <3>1, OthersStay
    <3>2. ~CallStep(c)
      BY <2>1
      DEF CallStep, StartPersistent, Update, Stop, Configuration, AttachHandle, Operate, Enter,
          Store, TakeStored
    <3>3. Proceed(c)
      BY <2>1, <3>1, <3>2
      DEF Next, Environment, Crash, Reboot, KernelTunes, RogueActs, KdamondExits, callVars,
          Inv, CallTypes
    <3>. QED
      BY <3>3
      DEF Proceed, StartStep, AttachStep, ReadStep, UpdateStep, StopStep, CaptureStep, Stage,
          StartCheck, StartOn, StartPid, StartFinal, Attach, AttachState, Read, ReadValues,
          UpdateWrite, Commit, Undo, StopOne, StopEnd, Restore
  <2>3. conf = held[c].conf
    BY <2>1, <2>2
    DEF ReadVerify, Look, OwnedState, Verify, Lost, Release, Inv, CallTypes, CallInv, StepInv, OpInv,
        AttachedInv
  <2>4. held[c].conf # Foreign
    BY <2>2, ConfigsAssumption
    DEF ReadVerify, Inv, CallInv, StepInv, OpInv, AttachedInv, Receipts
  <2>. QED BY <2>3, <2>4 DEF SeenInv, Seen
<1>. QED BY <1>1, CallsExclusive, SeenAlways, PTL DEF Spec, ReadTrue

-----------------------------------------------------------------------------
(* Persistent operations are atomic to whoever respects the lock *)

\* A call at the step l has changed something.
ChangingAt(l, op) ==
    \/ op = "start" /\ l # "stage"
    \/ op = "update" /\ l \in {"commit", "undo", "capture"}
    \/ op = "stop" /\ l \in {"stop", "stop_end", "capture"}

\* The refinement mapping, once it is known who holds the lock.
LEMMA SeenByLock ==
  ASSUME NEW c \in Controllers
  PROVE  /\ lock = c => (Changing <=> ChangingAt(pc[c], txn[c].op)) /\ Holder = c
         /\ lock' = c => (Changing' <=> ChangingAt(pc'[c], txn'[c].op)) /\ Holder' = c
         /\ lock = Nobody => ~Changing
         /\ lock' = Nobody => ~Changing'
<1>1. lock = c => Holder = c BY DEF Holder
<1>2. lock' = c => Holder' = c BY DEF Holder
<1>. QED BY <1>1, <1>2, NobodyAssumption DEF Changing, ChangingAt

\* The holder goes on within a call that is to be taken back or not to be seen,
\* or takes the first step that changes something.
LEMMA GotoUnseen ==
  ASSUME Inv, Inv', clean, NEW c \in Controllers, pc[c] # "idle",
         NEW l \in PCs \ {"idle"}, NEW t, Goto(c, l, t), t.op = txn[c].op,
         \/ /\ ChangingAt(pc[c], t.op) /\ ChangingAt(l, t.op)
            /\ t.op = "start" => t.previous = txn[c].previous
         \/ /\ ~ChangingAt(pc[c], t.op) /\ ~ChangingAt(l, t.op)
            /\ UNCHANGED <<conf, thread>>
         \/ /\ ~ChangingAt(pc[c], t.op) /\ ChangingAt(l, t.op) /\ t.op = "start"
            /\ AllOff /\ t.previous = conf
         \/ /\ ~ChangingAt(pc[c], t.op) /\ ChangingAt(l, t.op) /\ t.op # "start"
            /\ conf = held[c].conf /\ \A i \in K : thread[i] = held[c].ids[i]
  PROVE  UNCHANGED <<SeenRunning, SeenConf, clean>>
<1>1. /\ lock = c /\ lock' = c /\ lock # Nobody
      /\ txn'[c] = t /\ pc'[c] = l /\ held' = held /\ clean' = clean
  BY NobodyAssumption DEF Inv, Exclusive, Goto, CallTypes, receiptVars
<1>2. /\ Changing <=> ChangingAt(pc[c], t.op)
      /\ Changing' <=> ChangingAt(l, t.op)
      /\ Holder = c /\ Holder' = c
  BY <1>1, SeenByLock
<1>. QED BY <1>1, <1>2 DEF SeenRunning, SeenConf, AllOff, On, Staged

\* The holder returns from a call that changed nothing, or took it back.
LEMMA ReleaseUnseen ==
  ASSUME Inv, clean, clean', NEW c \in Controllers, pc[c] # "idle",
         NEW r, NEW receipt, Release(c, r, receipt),
         \/ ~ChangingAt(pc[c], txn[c].op) /\ UNCHANGED <<conf, thread>>
         \/ /\ txn[c].op = "start" /\ ChangingAt(pc[c], "start")
            /\ conf' = txn[c].previous /\ AllOff'
  PROVE  UNCHANGED <<SeenRunning, SeenConf, clean>>
<1>1. lock = c /\ lock' = Nobody /\ lock # Nobody
  BY NobodyAssumption DEF Inv, Exclusive, Release
<1>2. (Changing <=> ChangingAt(pc[c], txn[c].op)) /\ ~Changing' /\ Holder = c
  BY <1>1, SeenByLock
<1>. QED BY <1>1, <1>2 DEF SeenRunning, SeenConf, AllOff, On

\* Taking the lock, being refused, and what callers do with receipts is not seen.
LEMMA CallsUnseen ==
  ASSUME Inv, Inv', NEW c \in Controllers, CallStep(c)
  PROVE  UNCHANGED <<SeenRunning, SeenConf, clean>> /\ (Changing' <=> Changing)
<1>. USE DEF Inv
<1>1. UNCHANGED <<conf, thread, clean>>
  BY DEF CallStep, StartPersistent, Update, Stop, Configuration, AttachHandle, Operate, Enter,
         Store, TakeStored, kernelVars, callVars
<1>2. CASE UNCHANGED <<lock, pc, txn>>
  <2>1. CASE lock \in Controllers
    <3>1. held'[lock] = held[lock]
      <4>1. pc[lock] # "idle" BY <2>1 DEF Exclusive
      <4>. QED
        BY <4>1, <2>1
        DEF CallStep, StartPersistent, Update, Stop, Configuration, AttachHandle, Operate, Enter,
            Store, TakeStored, receiptVars, CallTypes
    <3>2. Holder = lock /\ Holder' = lock BY <1>2, <2>1, SeenByLock
    <3>3. Changing' <=> Changing BY <1>2, <2>1, SeenByLock
    <3>. QED BY <1>1, <1>2, <3>1, <3>2, <3>3 DEF SeenRunning, SeenConf, On
  <2>2. CASE lock = Nobody
    <3>1. ~Changing /\ ~Changing' BY <1>2, <2>2 DEF Changing
    <3>. QED BY <1>1, <3>1 DEF SeenRunning, SeenConf, On
  <2>. QED BY <2>1, <2>2 DEF CallTypes
<1>3. ASSUME lock = Nobody, lock' = c, pc'[c] \in {"stage", "attach"},
             pc'[c] = "stage" <=> txn'[c].op = "start"
      PROVE  UNCHANGED <<SeenRunning, SeenConf, clean>> /\ (Changing' <=> Changing)
  <2>1. ~Changing /\ ~Changing'
    BY <1>3, SeenByLock DEF ChangingAt
  <2>. QED BY <1>1, <2>1 DEF SeenRunning, SeenConf, On
<1>4. CASE StartPersistent(c)
  <2>1. PICK goal \in Configs :
          Acquire(c, "stage", [NoTxn EXCEPT !.op = "start", !.goal = goal, !.session = calls + 1])
    BY <1>4 DEF StartPersistent
  <2>2. [NoTxn EXCEPT !.op = "start", !.goal = goal, !.session = calls + 1].op = "start"
    BY DEF NoTxn
  <2>. QED BY <1>2, <1>3, <2>1, <2>2 DEF Acquire, CallTypes
<1>5. ASSUME NEW op \in {"update", "stop", "read", "attach"}, NEW goal, Operate(c, op, goal)
      PROVE  UNCHANGED <<SeenRunning, SeenConf, clean>> /\ (Changing' <=> Changing)
  <2>. DEFINE t == [NoTxn EXCEPT !.op = op, !.goal = goal, !.staged = held[c].conf,
                              !.wasTuned = held[c].tune, !.volatile = held[c].volatile,
                              !.states = held[c].ids, !.session = held[c].session]
  <2>1. t.op = op BY DEF NoTxn
  <2>2. CASE Acquire(c, "attach", t)
    <3>. HIDE DEF t
    <3>. QED BY <1>2, <1>3, <1>5, <2>1, <2>2 DEF Acquire, CallTypes
  <2>. QED BY <1>2, <1>5, <2>2 DEF Operate
<1>6. CASE Store(c) \/ TakeStored(c)
  BY <1>2, <1>6 DEF Store, TakeStored, callVars
<1>. QED BY <1>4, <1>5, <1>6 DEF CallStep, Update, Stop, Configuration, AttachHandle

\* start_persistent is not seen until it returns.
LEMMA StartUnseen ==
  ASSUME Inv, Inv', clean, clean', NEW c \in Controllers, StartStep(c) \/ Restore(c)
  PROVE  UNCHANGED <<SeenRunning, SeenConf, clean>>
<1>. DEFINE t == txn[c]
<1>0. t \in Txns /\ t.op = "start" /\ pc[c] # "idle" /\ pc[c] \in StartOnly
  BY KernelKeeps
  DEF Proceed, StartStep, StopStep, Inv, CallInv, StepInv, OpInv, Stage, StartCheck, StartOn, StartPid,
      StartFinal, Restore, StartOnly
<1>. USE <1>0, GotoUnseen DEF Txns, ChangingAt, PCs
<1>1. CASE Unwind(c, t) /\ pc[c] # "stage"
  <2>. DEFINE v == [t EXCEPT !.i = N - 1, !.err = TRUE, !.again = TRUE]
  <2>1. v.op = "start" /\ v.previous = t.previous OBVIOUS
  <2>. HIDE DEF v
  <2>. QED BY <1>1, <2>1 DEF Unwind
<1>2. CASE Stage(c)
  <2>1. CASE Release(c, "rejected", held[c]) /\ UNCHANGED <<conf, thread>>
    BY <1>2, <2>1, ReleaseUnseen DEF Stage
  <2>2. CASE Broken(c) BY <2>2 DEF Broken, Release
  <2>3. CASE AllOff /\ Goto(c, "start_check",
                  [t EXCEPT !.previous = conf, !.wasTuned = FALSE, !.staged = t.goal,
                            !.volatile = (t.goal \in Tuned)])
    <3>. DEFINE v == [t EXCEPT !.previous = conf, !.wasTuned = FALSE, !.staged = t.goal,
                              !.volatile = (t.goal \in Tuned)]
    <3>1. v.op = "start" OBVIOUS
    <3>2. v.previous = conf OBVIOUS
    <3>. HIDE DEF v
    <3>. QED BY <1>2, <2>3, <3>1, <3>2 DEF Stage
  <2>. QED BY <1>2, <2>1, <2>2, <2>3 DEF Stage
<1>3. CASE StartCheck(c) \/ StartFinal(c)
  BY <1>1, <1>3 DEF StartCheck, StartFinal, Look
<1>4. CASE StartOn(c)
  <2>. DEFINE v == [t EXCEPT !.states[t.i] = Unidentified]
  <2>1. v.op = "start" /\ v.previous = t.previous OBVIOUS
  <2>2. CASE Goto(c, "start_pid", v)
    <3>. HIDE DEF v
    <3>. QED BY <1>4, <2>1, <2>2 DEF StartOn
  <2>. QED BY <1>1, <1>4, <2>2 DEF StartOn
<1>5. CASE StartPid(c)
  <2>. DEFINE u == [t EXCEPT !.states[t.i] = thread[t.i]]
              v == [u EXCEPT !.i = @ + 1]
  <2>1. u.op = "start" /\ u.previous = t.previous OBVIOUS
  <2>2. v.op = "start" /\ v.previous = t.previous OBVIOUS
  <2>3. u.i = t.i OBVIOUS
  <2>4. \/ Goto(c, "start_on", v) \/ Goto(c, "start_final", u) \/ Unwind(c, t)
    BY <1>5, <2>3 DEF StartPid, Look
  <2>. HIDE DEF u, v
  <2>. QED BY <1>1, <1>5, <2>1, <2>2, <2>4 DEF StartPid
<1>6. CASE Restore(c)
  <2>1. CASE Broken(c) BY <2>1 DEF Broken, Release
  <2>2. CASE AllOff /\ conf' = t.previous /\ Release(c, "failed", held[c])
    <3>1. AllOff' BY <1>6, <2>2 DEF Restore, AllOff, On
    <3>. QED BY <1>6, <2>2, <3>1, ReleaseUnseen DEF Restore
  <2>. QED BY <1>6, <2>1, <2>2 DEF Restore
<1>. QED BY <1>2, <1>3, <1>4, <1>5, <1>6 DEF StartStep

\* Attaching and reading are not seen, an update is not seen before it captures
\* its receipt.
LEMMA OpenedUnseen ==
  ASSUME Inv, Inv', SeenInv, clean, clean', NEW c \in Controllers,
         AttachStep(c) \/ ReadStep(c) \/ UpdateStep(c)
  PROVE  UNCHANGED <<SeenRunning, SeenConf, clean>>
<1>. DEFINE t == txn[c]
            r == held[c]
<1>0. t \in Txns /\ pc[c] # "idle" /\ t.op # "start" /\ OpInv(pc[c], t) /\ AttachedInv(pc[c], t, r)
  BY KernelKeeps
  DEF Proceed, AttachStep, ReadStep, UpdateStep, Inv, CallInv, StepInv, OpInv, Attach, AttachState,
      Read, ReadValues, ReadVerify, UpdateWrite, Commit, Undo
<1>. USE <1>0, GotoUnseen DEF Txns, ChangingAt, PCs, OpInv
<1>1. ASSUME NEW x, Release(c, x, r), UNCHANGED <<conf, thread>>,
             pc[c] \in {"attach", "attach_state", "read", "read_values", "read_verify"}
      PROVE  UNCHANGED <<SeenRunning, SeenConf, clean>>
  BY <1>1, ReleaseUnseen
<1>2. CASE Attach(c)
  BY <1>1, <1>2 DEF Attach, Look, Lost, kernelVars
<1>3. CASE AttachState(c)
  <2>. DEFINE v == [t EXCEPT !.i = N - 1]
  <2>1. v.op = t.op OBVIOUS
  <2>2. CASE OwnedState(t) /\ t.op # "attach" /\ Goto(c, t.op, v)
    <3>1. conf = r.conf /\ \A i \in K : thread[i] = r.ids[i]
      BY <1>3, <2>2 DEF AttachState, OwnedState, Verify, AttachedInv
    <3>2. pc[c] = "attach_state" /\ UNCHANGED <<conf, thread>> /\ t.op \in {"update", "stop", "read"}
      BY <1>3, <2>2 DEF AttachState, Look, kernelVars
    <3>. HIDE DEF v
    <3>3. CASE t.op = "stop" BY <2>1, <2>2, <3>1, <3>2, <3>3
    <3>4. CASE t.op # "stop" BY <2>1, <2>2, <3>2, <3>4
    <3>. QED BY <3>3, <3>4
  <2>. QED BY <1>1, <1>3, <2>2 DEF AttachState, Look, Lost, kernelVars
<1>4. CASE Read(c) \/ ReadVerify(c)
  BY <1>1, <1>4 DEF Read, ReadVerify, Look, Lost, kernelVars
<1>5. CASE ReadValues(c)
  <2>. DEFINE v == [t EXCEPT !.seen = conf]
  <2>1. v.op = t.op OBVIOUS
  <2>2. Goto(c, "read_verify", v) \/ Release(c, "lost", r)
    BY <1>5 DEF ReadValues, Look, Lost
  <2>3. pc[c] = "read_values" /\ UNCHANGED <<conf, thread>> BY <1>5 DEF ReadValues, Look, kernelVars
  <2>. HIDE DEF v
  <2>. QED BY <1>1, <2>1, <2>2, <2>3
<1>6. CASE UpdateWrite(c)
  <2>. DEFINE v == [t EXCEPT !.previous = conf]
              w == [t EXCEPT !.err = TRUE]
  <2>1. v.op = t.op /\ w.op = t.op OBVIOUS
  <2>2. Goto(c, "commit", v) \/ Goto(c, "capture", w) BY <1>6 DEF UpdateWrite
  <2>3. conf = r.conf /\ \A i \in K : thread[i] = r.ids[i]
    BY <1>6 DEF UpdateWrite, SeenInv, Seen
  <2>. HIDE DEF v, w
  <2>. QED BY <1>6, <2>1, <2>2, <2>3 DEF UpdateWrite
<1>7. CASE Commit(c)
  <2>. DEFINE v == [t EXCEPT !.staged = t.goal, !.wasTuned = tune, !.volatile = (t.goal \in Tuned)]
              w == [t EXCEPT !.err = TRUE]
  <2>1. v.op = t.op /\ w.op = t.op OBVIOUS
  <2>2. Goto(c, "capture", v) \/ Goto(c, "undo", w) BY <1>7 DEF Commit, Look
  <2>. HIDE DEF v, w
  <2>. QED BY <1>7, <2>1, <2>2 DEF Commit
<1>8. CASE Undo(c)
  <2>. DEFINE v == [t EXCEPT !.wasTuned = tune]
  <2>1. v.op = t.op OBVIOUS
  <2>2. Goto(c, "capture", v) \/ Goto(c, "capture", t) BY <1>8 DEF Undo
  <2>. HIDE DEF v
  <2>. QED BY <1>8, <2>1, <2>2 DEF Undo
<1>. QED BY <1>2, <1>3, <1>4, <1>5, <1>6, <1>7, <1>8 DEF AttachStep, ReadStep, UpdateStep

\* A stop is not seen before it captures its receipt, nor is a start taken back.
LEMMA StoppingUnseen ==
  ASSUME Inv, Inv', clean, clean', NEW c \in Controllers, StopOne(c) \/ StopEnd(c)
  PROVE  UNCHANGED <<SeenRunning, SeenConf, clean>>
<1>. DEFINE t == txn[c]
<1>0. t \in Txns /\ pc[c] # "idle" /\ OpInv(pc[c], t) /\ pc[c] \in {"stop", "stop_end"}
  BY KernelKeeps DEF Proceed, StopStep, Inv, CallInv, StepInv, StopOne, StopEnd
<1>. USE <1>0 DEF Txns, ChangingAt, PCs, OpInv
<1>1. ASSUME NEW l \in {"stop", "stop_end", "restore", "capture"}, NEW v, Goto(c, l, v),
             v.op = t.op, v.previous = t.previous, l = "restore" => t.op = "start",
             l = "capture" => t.op = "stop"
      PROVE  UNCHANGED <<SeenRunning, SeenConf, clean>>
  BY <1>1, GotoUnseen
<1>2. CASE StopOne(c)
  <2>. DEFINE failed == [t EXCEPT !.err = TRUE]
              stopped == [t EXCEPT !.states[t.i] = Staged]
  <2>1. ASSUME NEW v \in Txns, v.op = t.op, v.previous = t.previous, PassOn(c, v)
        PROVE  UNCHANGED <<SeenRunning, SeenConf, clean>>
    <3>. DEFINE w == [v EXCEPT !.i = IF v.i = 0 THEN 0 ELSE v.i - 1]
    <3>1. w.op = t.op /\ w.previous = t.previous BY <2>1
    <3>2. Goto(c, IF v.i = 0 THEN "stop_end" ELSE "stop", w) BY <2>1 DEF PassOn
    <3>. HIDE DEF w
    <3>. QED BY <1>1, <3>1, <3>2
  <2>2. failed \in Txns /\ failed.op = t.op /\ failed.previous = t.previous OBVIOUS
  <2>3. stopped \in Txns /\ stopped.op = t.op /\ stopped.previous = t.previous
    BY BoundsAssumption DEF Pids, Staged
  <2>4. PassOn(c, failed) \/ PassOn(c, stopped) BY <1>2 DEF StopOne
  <2>. HIDE DEF failed, stopped
  <2>. QED BY <2>1, <2>2, <2>3, <2>4
<1>3. CASE StopEnd(c)
  <2>. DEFINE failed == [t EXCEPT !.err = TRUE]
              second == [t EXCEPT !.i = N - 1, !.again = FALSE]
  <2>1. failed.op = t.op /\ failed.previous = t.previous OBVIOUS
  <2>2. second.op = t.op /\ second.previous = t.previous OBVIOUS
  <2>3. CASE Broken(c) BY <2>3 DEF Broken, Release
  <2>4. \/ t.op = "stop" /\ (Goto(c, "capture", t) \/ Goto(c, "capture", failed))
        \/ t.op = "start" /\ (Goto(c, "stop", second) \/ Goto(c, "restore", t))
        \/ Broken(c)
    BY <1>3 DEF StopEnd, Look
  <2>. HIDE DEF failed, second
  <2>. QED BY <1>1, <2>1, <2>2, <2>3, <2>4
<1>. QED BY <1>2, <1>3

\* A call that returns a receipt takes effect in that step: a start, an update
\* or a stop of the lifecycle.
LEMMA CaptureSeen ==
  ASSUME Inv, Inv', clean, clean', NEW c \in Controllers, CaptureStep(c)
  PROVE  Lifecycle!Next \/ UNCHANGED <<SeenRunning, SeenConf, clean>>
<1>. DEFINE t == txn[c]
            r == held[c]
<1>0. /\ t \in Txns /\ pc[c] = "capture" /\ t.op \in {"start", "update", "stop"}
      /\ StartInv(pc[c], t) /\ AttachedInv(pc[c], t, r)
      /\ t.op = "start" => t.goal \in Configs
      /\ UNCHANGED <<conf, thread>>
  BY KernelKeeps
  DEF Proceed, CaptureStep, Inv, CallInv, StepInv, OpInv, Look, kernelVars
<1>1. CASE t.op = "start" /\ Unwind(c, t)
  <2>. DEFINE v == [t EXCEPT !.i = N - 1, !.err = TRUE, !.again = TRUE]
  <2>1. v.op = "start" /\ v.previous = t.previous BY <1>0, <1>1 DEF Txns
  <2>2. Goto(c, "stop", v) BY <1>1 DEF Unwind
  <2>3. ChangingAt(pc[c], "start") /\ ChangingAt("stop", "start")
        /\ pc[c] # "idle" /\ "stop" \in PCs \ {"idle"}
    BY <1>0 DEF ChangingAt, PCs
  <2>. HIDE DEF v
  <2>4. UNCHANGED <<SeenRunning, SeenConf, clean>> BY <1>1, <2>1, <2>2, <2>3, GotoUnseen
  <2>. QED BY <2>4
<1>2. CASE Release(c, "uncertain", r) BY <1>2 DEF Release
<1>3. CASE OwnedState(t) /\ Release(c, IF t.err THEN "failed" ELSE "ok", Capture(t))
  <2>1. lock = c /\ lock' = Nobody /\ lock # Nobody
    BY <1>0, <1>3, NobodyAssumption DEF Inv, Exclusive, Release
  <2>2. Changing /\ ~Changing' /\ Holder = c
    BY <1>0, <2>1, SeenByLock DEF ChangingAt
  <2>3. SeenRunning' = {i \in K : t.states[i] # Staged} /\ SeenConf' = t.staged /\ clean' = TRUE
    BY <1>0, <1>3, <2>2 DEF SeenRunning, SeenConf, OwnedState, Verify, On, Staged, Inv, CallTypes
  <2>4. CASE t.op = "start"
    <3>1. SeenRunning = {} BY <2>2, <2>4 DEF SeenRunning
    <3>2. SeenRunning' = K /\ SeenConf' \in Configs
      BY <1>0, <2>3, <2>4 DEF StartInv
    <3>. QED BY <2>3, <3>1, <3>2 DEF Lifecycle!Next, Lifecycle!Start
  <2>5. CASE t.op # "start"
    <3>0. r \in Receipts BY <1>0, <2>5 DEF AttachedInv
    <3>1. SeenRunning = {i \in K : r.ids[i] # Staged} /\ SeenConf = r.conf
      BY <2>2, <2>5 DEF SeenRunning, SeenConf
    <3>2. CASE t.op = "stop"
      <4>1. SeenRunning' \subseteq SeenRunning /\ SeenConf' = SeenConf
        BY <1>0, <2>3, <3>1, <3>2 DEF AttachedInv
      <4>. QED BY <2>3, <4>1 DEF Lifecycle!Next, Lifecycle!Stop
    <3>3. CASE t.op = "update"
      <4>1. SeenRunning' = SeenRunning
        BY <1>0, <2>3, <3>1, <3>3 DEF AttachedInv
      <4>2. CASE t.staged = r.conf BY <2>3, <3>1, <4>1, <4>2
      <4>3. CASE t.staged # r.conf
        <5>1. SeenRunning # {} BY <1>0, <3>1, <3>3, <4>3 DEF AttachedInv
        <5>2. SeenConf' \in Configs BY <1>0, <2>3, <3>3, <4>3 DEF AttachedInv, Inv, CallInv, StepInv, OpInv
        <5>. QED BY <2>3, <4>1, <5>1, <5>2 DEF Lifecycle!Next, Lifecycle!Update
      <4>. QED BY <4>2, <4>3
    <3>. QED BY <1>0, <2>5, <3>2, <3>3
  <2>. QED BY <2>4, <2>5
<1>. QED BY <1>0, <1>1, <1>2, <1>3 DEF CaptureStep, Look

\* Damon::start_persistent, AttachedHierarchy::update and stop are atomic to
\* everyone who respects the lock, and a failed call changes nothing unless it
\* reports an unknown state.
THEOREM PersistentIsAtomic == Spec => ImplementsLifecycle
<1>1. Init => Lifecycle!Init
  <2>. SUFFICES ASSUME Init PROVE Lifecycle!Init
    OBVIOUS
  <2>1. ~Changing BY DEF Init, Changing
  <2>. QED BY <2>1 DEF Init, Lifecycle!Init, SeenRunning, SeenConf, On
<1>2. Inv /\ Inv' /\ SeenInv /\ [Next]_vars => [Lifecycle!Next]_(Lifecycle!vars)
  <2>. SUFFICES ASSUME Inv, Inv', SeenInv, [Next]_vars
                PROVE  Lifecycle!Next \/ UNCHANGED <<SeenRunning, SeenConf, clean>>
    BY DEF Lifecycle!vars
  <2>. USE DEF Inv, CallTypes
  <2>1. CASE ~clean'
    BY <2>1 DEF Lifecycle!Next, Lifecycle!Disturb, SeenRunning, SeenConf
  <2>2. CASE Reboot
    <3>1. ~Changing' BY <2>2 DEF Reboot, Changing
    <3>. QED BY <2>2, <3>1 DEF Reboot, Lifecycle!Next, Lifecycle!Reboot, SeenRunning, SeenConf, On
  <2>3. CASE clean' /\ ~Reboot
    <3>1. ASSUME NEW c \in Controllers, Proceed(c) PROVE clean
      <4>1. \/ \E l, t : Goto(c, l, t)
            \/ \E r, receipt : Release(c, r, receipt)
        BY <3>1, HolderSteps
      <4>. QED BY <2>3, <4>1 DEF Goto, Release
    <3>2. ASSUME NEW c \in Controllers, Proceed(c)
          PROVE  Lifecycle!Next \/ UNCHANGED <<SeenRunning, SeenConf, clean>>
      BY <2>3, <3>1, <3>2, StartUnseen, OpenedUnseen, StoppingUnseen, CaptureSeen DEF Proceed, StopStep
    <3>3. ASSUME NEW c \in Controllers, CallStep(c)
          PROVE  UNCHANGED <<SeenRunning, SeenConf, clean>>
      BY <3>3, CallsUnseen
    <3>4. CASE KernelTunes \/ UNCHANGED vars
      <4>1. UNCHANGED <<conf, thread, held, lock, pc, txn, clean>>
        BY <3>4 DEF KernelTunes, vars, kernelVars, receiptVars, callVars
      <4>2. (Changing' <=> Changing) /\ Holder' = Holder BY <4>1 DEF Changing, Holder
      <4>. QED BY <4>1, <4>2 DEF SeenRunning, SeenConf, On
    <3>. QED
      BY <2>3, <3>2, <3>3, <3>4 DEF Next, Environment, Crash, RogueActs, KdamondExits
  <2>. QED BY <2>1, <2>2, <2>3
<1>. QED BY <1>1, <1>2, CallsExclusive, SeenAlways, PTL DEF Spec, ImplementsLifecycle, Lifecycle!Spec

-----------------------------------------------------------------------------
(* A running hierarchy has its receipt *)

\* The steps of a call that changed something already.
Midway == {"start_check", "start_on", "start_pid", "start_final", "restore", "commit", "undo",
           "stop", "stop_end", "capture"}

LEMMA ChangingMidway ==
  ASSUME Inv, Inv', NEW c \in Controllers
  PROVE  /\ pc[c] # "idle" => (Changing <=> pc[c] \in Midway)
         /\ pc'[c] # "idle" => (Changing' <=> pc'[c] \in Midway)
<1>1. ASSUME NEW l \in PCs, NEW t \in Txns, l # "idle", t.op # "none", OpInv(l, t)
      PROVE  ChangingAt(l, t.op) <=> l \in Midway
  <2>1. t.op \in {"start", "update", "stop", "read", "attach"} BY <1>1 DEF Txns
  <2>2. CASE l \in Midway BY <1>1, <2>2 DEF Midway, OpInv, StartOnly, ChangingAt
  <2>3. CASE l \notin Midway BY <1>1, <2>1, <2>3 DEF Midway, OpInv, StartOnly, ChangingAt, PCs
  <2>. QED BY <2>2, <2>3
<1>2. ASSUME pc[c] # "idle" PROVE Changing <=> pc[c] \in Midway
  <2>1. /\ pc[c] \in PCs /\ txn[c] \in Txns /\ txn[c].op # "none"
        /\ OpInv(pc[c], txn[c]) /\ lock = c
    BY <1>2 DEF Inv, CallTypes, Exclusive, CallInv, StepInv
  <2>. QED BY <1>1, <1>2, <2>1, SeenByLock
<1>3. ASSUME pc'[c] # "idle" PROVE Changing' <=> pc'[c] \in Midway
  <2>1. /\ pc'[c] \in PCs /\ txn'[c] \in Txns /\ txn'[c].op # "none"
        /\ OpInv(pc'[c], txn'[c]) /\ lock' = c
    BY <1>3 DEF Inv, CallTypes, Exclusive, CallInv, StepInv, OpInv
  <2>. QED BY <1>1, <1>3, <2>1, SeenByLock
<1>. QED BY <1>2, <1>3

\* While nothing changes the kernel, the receipts that attach are kept.
LEMMA CoveredStays ==
  ASSUME Covered, clean, ~Changing, UNCHANGED <<conf, tune, thread, boot>>,
         \A r \in Receipts : Known(r) => Known(r)'
  PROVE  Covered'
BY DEF Covered, AllOff, On, Attaches, Bound

LEMMA CoveredNext == Inv /\ Inv' /\ Covered /\ [Next]_vars => Covered'
<1>. SUFFICES ASSUME Inv, Inv', Covered, [Next]_vars, clean', ~Changing', ~AllOff'
              PROVE  \E r \in Receipts : Known(r)' /\ Attaches(r)'
  BY DEF Covered
<1>. USE DEF Inv, CallTypes
<1>1. ASSUME NEW c \in Controllers, Proceed(c)
      PROVE  \E r \in Receipts : Known(r)' /\ Attaches(r)'
  <2>0. pc[c] # "idle" /\ clean
    <3>1. pc[c] # "idle" BY <1>1, KernelKeeps
    <3>2. (\E l, t : Goto(c, l, t)) \/ (\E r, receipt : Release(c, r, receipt))
      BY <1>1, HolderSteps
    <3>. QED BY <3>1, <3>2 DEF Goto, Release
  <2>1. pc'[c] \notin Midway
    BY <2>0, ChangingMidway DEF Midway
  <2>2. CASE StartStep(c)
    <3>1. Stage(c)
      BY <2>1, <2>2
      DEF StartStep, StartCheck, StartOn, StartPid, StartFinal, Unwind, Look, Goto, Midway
    <3>2. pc[c] = "stage" /\ Release(c, "rejected", held[c]) /\ UNCHANGED <<conf, tune, thread, boot>>
      BY <2>1, <3>1 DEF Stage, Goto, Midway, Broken, Release
    <3>3. ~Changing BY <3>2, ChangingMidway DEF Midway
    <3>4. \A r \in Receipts : Known(r) => Known(r)' BY <3>2 DEF Known, Release
    <3>. QED BY <2>0, <3>2, <3>3, <3>4, CoveredStays DEF Covered
  <2>3. CASE AttachStep(c) \/ ReadStep(c)
    <3>1. UNCHANGED <<conf, tune, thread, boot>> /\ pc[c] \notin Midway /\ pc[c] # "idle"
      BY <2>3
      DEF AttachStep, ReadStep, Attach, AttachState, Read, ReadValues, ReadVerify, Look, kernelVars,
          Midway
    <3>2. held' = held /\ stored' = stored
      BY <2>3
      DEF AttachStep, ReadStep, Attach, AttachState, Read, ReadValues, ReadVerify, Look, Lost,
          Goto, Release, receiptVars
    <3>3. ~Changing BY <3>1, ChangingMidway
    <3>4. \A r \in Receipts : Known(r) => Known(r)' BY <3>2 DEF Known
    <3>. QED BY <2>0, <3>1, <3>3, <3>4, CoveredStays DEF Covered
  <2>4. CASE UpdateStep(c)
    BY <2>1, <2>4 DEF UpdateStep, UpdateWrite, Commit, Undo, Look, Goto, Midway
  <2>5. CASE StopStep(c)
    <3>1. CASE Restore(c)
      BY <3>1 DEF Restore, Broken, Release, AllOff, On
    <3>2. CASE StopOne(c) \/ StopEnd(c)
      BY <2>1, <3>2 DEF StopOne, PassOn, StopEnd, Look, Goto, Broken, Release, Midway
    <3>. QED BY <2>5, <3>1, <3>2 DEF StopStep
  <2>6. CASE CaptureStep(c)
    <3>. DEFINE r == Capture(txn[c])
    <3>1. \E x : OwnedState(txn[c]) /\ Release(c, x, r)
      BY <2>1, <2>6 DEF CaptureStep, Look, Unwind, Goto, Release, Midway
    <3>2. held'[c] = r BY <3>1 DEF Release
    <3>3. r \in Receipts
      BY <3>2 DEF Capture, NoReceipt
    <3>4. UNCHANGED <<conf, tune, thread, boot>> BY <2>6 DEF CaptureStep, Look, kernelVars
    <3>5. r.boot = boot /\ r.conf = conf /\ r.tune = tune /\ r.ids = txn[c].states /\ r # NoReceipt
      BY <3>3, BoundsAssumption DEF Capture, NoReceipt, KernelTypes, Receipts
    <3>6. thread = r.ids
      BY <3>1, <3>3, <3>5 DEF OwnedState, KernelTypes, Receipts
    <3>. QED BY <3>2, <3>3, <3>4, <3>5, <3>6 DEF Known, Attaches, Bound
  <2>. QED BY <1>1, <2>2, <2>3, <2>4, <2>5, <2>6 DEF Proceed
<1>2. ASSUME NEW c \in Controllers, CallStep(c)
      PROVE  \E r \in Receipts : Known(r)' /\ Attaches(r)'
  <2>1. ~Changing /\ clean BY <1>2, CallsUnseen
  <2>2. UNCHANGED <<conf, tune, thread, boot>>
    BY <1>2
    DEF CallStep, StartPersistent, Update, Stop, Configuration, AttachHandle, Operate, Enter,
        Store, TakeStored, kernelVars
  <2>0. \A r \in Receipts : r # NoReceipt BY DEF Receipts, NoReceipt
  <2>3. \A r \in Receipts : Known(r) => Known(r)'
    BY <1>2, <2>0
    DEF CallStep, StartPersistent, Update, Stop, Configuration, AttachHandle, Operate, Enter,
        Store, TakeStored, receiptVars, Known, Kept
  <2>. QED BY <2>1, <2>2, <2>3, CoveredStays DEF Covered
<1>3. CASE KernelTunes
  <2>1. UNCHANGED <<conf, thread, boot, held, stored, lock, pc, txn, clean>> /\ conf \in Tuned
    BY <1>3 DEF KernelTunes, receiptVars, callVars
  <2>2. ~Changing BY <2>1 DEF Changing, Holder
  <2>3. PICK r \in Receipts : Known(r) /\ Attaches(r)
    BY <2>1, <2>2 DEF Covered, AllOff, On
  <2>4. r.volatile BY <2>1, <2>3 DEF ReceiptsRight, Right, Known, Attaches, Bound
  <2>5. Attaches(r)' BY <2>1, <2>3, <2>4 DEF Attaches, Bound
  <2>6. Known(r)' BY <2>1, <2>3 DEF Known
  <2>. QED BY <2>5, <2>6
<1>4. CASE Reboot
  BY <1>4 DEF Reboot, AllOff, On
<1>5. CASE UNCHANGED vars
  <2>1. UNCHANGED <<conf, tune, thread, boot, held, stored, lock, pc, txn, clean>>
    BY <1>5 DEF vars, kernelVars, receiptVars, callVars
  <2>2. ~Changing BY <2>1 DEF Changing, Holder
  <2>3. \A r \in Receipts : Known(r) => Known(r)' BY <2>1 DEF Known
  <2>. QED BY <2>1, <2>2, <2>3, CoveredStays DEF Covered
<1>. QED BY <1>1, <1>2, <1>3, <1>4, <1>5 DEF Next, Crash, Environment, RogueActs, KdamondExits

\* PersistentReceipt: no hierarchy runs without a receipt that still attaches,
\* unless somebody was told or interfered.
THEOREM NoOrphans == Spec => []OrphanReported
<1>1. Init => Covered BY DEF Init, Covered, AllOff, On
<1>2. Inv /\ Covered => OrphanReported
  <2>. SUFFICES ASSUME Inv, Covered, ~AllOff, Quiet, clean
                PROVE  \E r \in stored \cup {held[c] : c \in Controllers} : Attaches(r)
    BY DEF OrphanReported
  <2>1. lock = Nobody BY DEF Inv, Exclusive, CallTypes, Quiet
  <2>2. ~Changing BY <2>1 DEF Changing
  <2>. QED BY <2>2 DEF Covered, Known
<1>. QED BY <1>1, <1>2, CoveredNext, CallsExclusive, PTL DEF Spec

-----------------------------------------------------------------------------
(* Threads end by right *)

\* What a step of the holder does to the threads.
LEMMA HolderThreads ==
  ASSUME NEW c \in Controllers, Proceed(c)
  PROVE  LET i == txn[c].i IN
         /\ boot' = boot /\ UNCHANGED <<rogue, exits>>
         /\ \/ UNCHANGED <<thread, session, nextPid>>
            \/ /\ StartOn(c) /\ thread' = [thread EXCEPT ![i] = nextPid]
               /\ session' = [session EXCEPT ![i] = txn[c].session] /\ nextPid' = nextPid + 1
            \/ /\ pc[c] = "stop" /\ On(i) /\ thread[i] = txn[c].states[i]
               /\ thread' = [thread EXCEPT ![i] = 0] /\ session' = [session EXCEPT ![i] = 0]
               /\ UNCHANGED nextPid
<1>1. CASE Stage(c) \/ UpdateWrite(c) \/ Undo(c) \/ Restore(c)
  BY <1>1 DEF Stage, UpdateWrite, Undo, Restore
<1>2. CASE StartOn(c)
  BY <1>2 DEF StartOn, Unwind, Goto
<1>3. CASE StopOne(c)
  BY <1>3 DEF StopOne
<1>4. CASE \/ StartCheck(c) \/ StartPid(c) \/ StartFinal(c) \/ AttachStep(c) \/ ReadStep(c)
           \/ Commit(c) \/ StopEnd(c) \/ CaptureStep(c)
  BY <1>4
  DEF Look, StartCheck, StartPid, StartFinal, AttachStep, ReadStep, Attach, AttachState,
      Read, ReadValues, ReadVerify, Commit, StopEnd, CaptureStep, kernelVars
<1>. QED BY <1>1, <1>2, <1>3, <1>4 DEF Proceed, StartStep, UpdateStep, StopStep

\* What it does to the receipts: only a call that verified the whole hierarchy
\* makes a new one.
LEMMA HolderReceipts ==
  ASSUME NEW c \in Controllers, Proceed(c)
  PROVE  /\ stored' = stored
         /\ \/ held' = [held EXCEPT ![c] = held[c]] \/ held' = held
            \/ /\ held' = [held EXCEPT ![c] = Capture(txn[c])]
               /\ \E x : Release(c, x, Capture(txn[c]))
               /\ UNCHANGED <<thread, session>>
<1>1. stored' = stored
  BY HolderSteps DEF Goto, Release, receiptVars
<1>2. CASE CaptureStep(c)
  BY <1>2 DEF CaptureStep, Look, Unwind, Goto, Release, receiptVars, kernelVars
<1>3. CASE StartStep(c) \/ AttachStep(c) \/ ReadStep(c) \/ UpdateStep(c) \/ StopStep(c)
  BY <1>3
  DEF StartStep, AttachStep, ReadStep, UpdateStep, StopStep, Stage,
      StartCheck, StartOn, StartPid, StartFinal, Unwind, Attach, AttachState, Lost, Look, Read,
      ReadValues, ReadVerify, UpdateWrite, Commit, Undo, StopOne, PassOn, StopEnd, Restore, Broken,
      Goto, Release, receiptVars
<1>. QED BY <1>1, <1>2, <1>3 DEF Proceed

\* What it does to the locals that name threads.
LEMMA HolderStates ==
  ASSUME Inv, NEW c \in Controllers, Proceed(c)
  PROVE  LET t == txn[c]
             u == txn'[c]
         IN  \/ pc'[c] = "idle" /\ u = NoTxn
             \/ /\ u.op = t.op /\ u.session = t.session
                /\ \/ pc'[c] # "start_pid" /\ u.states \in {t.states, [t.states EXCEPT ![t.i] = Staged]}
                   \/ /\ StartOn(c) /\ thread' = [thread EXCEPT ![t.i] = nextPid] /\ u.i = t.i
                      /\ u.states = [t.states EXCEPT ![t.i] = Unidentified]
                   \/ /\ StartPid(c) /\ On(t.i) /\ pc'[c] # "start_pid"
                      /\ u.states = [t.states EXCEPT ![t.i] = thread[t.i]]
<1>. DEFINE t == txn[c]
            u == txn'[c]
            Same == u.op = t.op /\ u.session = t.session
<1>0. /\ t \in Txns /\ pc[c] # "idle" /\ t.op # "none" /\ OpInv(pc[c], t)
      /\ pc \in [Controllers -> PCs] /\ txn \in [Controllers -> Txns]
  BY KernelKeeps DEF Inv, Exclusive, CallTypes, CallInv, StepInv
<1>1. ASSUME NEW l, NEW v \in Txns, Goto(c, l, v) PROVE pc'[c] = l /\ u = v
  BY <1>0, <1>1 DEF Goto
<1>2. ASSUME NEW r, NEW receipt, Release(c, r, receipt) PROVE pc'[c] = "idle" /\ u = NoTxn
  BY <1>0, <1>2 DEF Release
<1>3. ASSUME NEW l, NEW i \in K, NEW e \in BOOLEAN, NEW a \in BOOLEAN,
             Goto(c, l, [t EXCEPT !.i = i, !.err = e, !.again = a])
      PROVE  pc'[c] = l /\ Same /\ u.states = t.states
  <2>. DEFINE v == [t EXCEPT !.i = i, !.err = e, !.again = a]
  <2>1. v \in Txns /\ v.op = t.op /\ v.session = t.session /\ v.states = t.states
    BY <1>0 DEF Txns
  <2>2. Goto(c, l, v) BY <1>3
  <2>. HIDE DEF v
  <2>. QED BY <1>1, <2>1, <2>2
<1>4. ASSUME NEW v \in Txns, v.op = t.op, v.session = t.session, PassOn(c, v)
      PROVE  pc'[c] \in {"stop", "stop_end"} /\ Same /\ u.states = v.states
  <2>. DEFINE w == [v EXCEPT !.i = IF v.i = 0 THEN 0 ELSE v.i - 1]
  <2>0. (IF v.i = 0 THEN 0 ELSE v.i - 1) \in K BY NAssumption DEF Txns, K
  <2>1. w \in Txns /\ w.op = v.op /\ w.session = v.session /\ w.states = v.states
    BY <2>0 DEF Txns
  <2>2. Goto(c, IF v.i = 0 THEN "stop_end" ELSE "stop", w) BY <1>4 DEF PassOn
  <2>. HIDE DEF w
  <2>. QED BY <1>1, <1>4, <2>1, <2>2
<1>5. ASSUME Unwind(c, t) PROVE pc'[c] = "stop" /\ Same /\ u.states = t.states
  BY <1>3, <1>5, KFacts DEF Unwind
<1>6. CASE Stage(c)
  <2>1. conf \in Contents /\ t.goal \in Contents /\ (t.goal \in Tuned) \in BOOLEAN
    BY <1>0 DEF Inv, KernelTypes, Txns
  <2>. DEFINE v == [t EXCEPT !.previous = conf, !.wasTuned = FALSE, !.staged = t.goal,
                            !.volatile = (t.goal \in Tuned)]
  <2>2. v \in Txns /\ v.op = t.op /\ v.session = t.session /\ v.states = t.states
    BY <1>0, <2>1 DEF Txns
  <2>3. Goto(c, "start_check", v) \/ \E r : Release(c, r, held[c]) BY <1>6 DEF Stage, Broken
  <2>. HIDE DEF v
  <2>. QED BY <1>1, <1>2, <2>2, <2>3
<1>7. CASE StartCheck(c) \/ StartFinal(c)
  BY <1>0, <1>1, <1>5, <1>7 DEF StartCheck, StartFinal, Look
<1>8. CASE StartOn(c)
  <2>. DEFINE v == [t EXCEPT !.states[t.i] = Unidentified]
  <2>1. v \in Txns /\ v.op = t.op /\ v.session = t.session /\ v.i = t.i
        /\ v.states = [t.states EXCEPT ![t.i] = Unidentified]
    BY <1>0 DEF Txns
  <2>2. \/ thread' = [thread EXCEPT ![t.i] = nextPid] /\ Goto(c, "start_pid", v)
        \/ Unwind(c, t)
    BY <1>8 DEF StartOn
  <2>. HIDE DEF v
  <2>. QED BY <1>1, <1>5, <1>8, <2>1, <2>2
<1>9. CASE StartPid(c)
  <2>. DEFINE v == [t EXCEPT !.states[t.i] = thread[t.i]]
              w == [v EXCEPT !.i = v.i + 1]
  <2>0. thread[t.i] \in Pids BY <1>0 DEF Inv, KernelTypes, Txns
  <2>1. v \in Txns /\ v.op = t.op /\ v.session = t.session /\ v.i = t.i
        /\ v.states = [t.states EXCEPT ![t.i] = thread[t.i]]
    BY <1>0, <2>0 DEF Txns
  <2>2. v.i + 1 \in K =>
          w \in Txns /\ w.op = t.op /\ w.session = t.session /\ w.states = v.states
    BY <2>1 DEF Txns
  <2>3. \/ On(t.i) /\ v.i + 1 \in K /\ Goto(c, "start_on", w)
        \/ On(t.i) /\ Goto(c, "start_final", v)
        \/ Unwind(c, t)
    BY <1>9, <2>1 DEF StartPid, Look
  <2>. HIDE DEF v, w
  <2>. QED BY <1>1, <1>5, <1>9, <2>1, <2>2, <2>3
<1>10. CASE AttachStep(c)
  <2>. DEFINE v == [t EXCEPT !.i = N - 1]
  <2>1. v \in Txns /\ v.op = t.op /\ v.session = t.session /\ v.states = t.states
    BY <1>0, KFacts DEF Txns
  <2>2. \/ Goto(c, t.op, v) /\ t.op # "start_pid"
        \/ Goto(c, "attach_state", t)
        \/ \E r : Release(c, r, held[c])
    BY <1>0, <1>10 DEF AttachStep, Attach, AttachState, Look, Lost, Txns
  <2>. HIDE DEF v
  <2>. QED BY <1>0, <1>1, <1>2, <2>1, <2>2
<1>11. CASE ReadStep(c)
  <2>. DEFINE v == [t EXCEPT !.seen = conf]
  <2>0. conf \in Contents BY DEF Inv, KernelTypes
  <2>1. v \in Txns /\ v.op = t.op /\ v.session = t.session /\ v.states = t.states
    BY <1>0, <2>0 DEF Txns
  <2>2. Goto(c, "read_values", t) \/ Goto(c, "read_verify", v) \/ \E r : Release(c, r, held[c])
    BY <1>11 DEF ReadStep, Read, ReadValues, ReadVerify, Look, Lost
  <2>. HIDE DEF v
  <2>. QED BY <1>0, <1>1, <1>2, <2>1, <2>2
<1>12. CASE UpdateStep(c)
  <2>. DEFINE v == [t EXCEPT !.previous = conf]
              w == [t EXCEPT !.err = TRUE]
              x == [t EXCEPT !.staged = t.goal, !.wasTuned = tune, !.volatile = (t.goal \in Tuned)]
              y == [t EXCEPT !.wasTuned = tune]
  <2>0. conf \in Contents /\ tune \in BOOLEAN /\ t.goal \in Contents /\ (t.goal \in Tuned) \in BOOLEAN
    BY <1>0 DEF Inv, KernelTypes, Txns
  <2>1. v \in Txns /\ v.op = t.op /\ v.session = t.session /\ v.states = t.states
    BY <1>0, <2>0 DEF Txns
  <2>2. w \in Txns /\ w.op = t.op /\ w.session = t.session /\ w.states = t.states
    BY <1>0 DEF Txns
  <2>3. x \in Txns /\ x.op = t.op /\ x.session = t.session /\ x.states = t.states
    BY <1>0, <2>0 DEF Txns
  <2>4. y \in Txns /\ y.op = t.op /\ y.session = t.session /\ y.states = t.states
    BY <1>0, <2>0 DEF Txns
  <2>5. \E l \in {"commit", "undo", "capture"}, z \in {t, v, w, x, y} : Goto(c, l, z)
    BY <1>12 DEF UpdateStep, UpdateWrite, Commit, Undo, Look
  <2>. HIDE DEF v, w, x, y
  <2>. QED BY <1>0, <1>1, <2>1, <2>2, <2>3, <2>4, <2>5
<1>13. CASE StopOne(c)
  <2>. DEFINE v == [t EXCEPT !.err = TRUE]
              w == [t EXCEPT !.states[t.i] = Staged]
  <2>1. v \in Txns /\ v.op = t.op /\ v.session = t.session /\ v.states = t.states
    BY <1>0 DEF Txns
  <2>0. Staged \in Pids BY BoundsAssumption DEF Pids, Staged
  <2>2. w \in Txns /\ w.op = t.op /\ w.session = t.session
        /\ w.states = [t.states EXCEPT ![t.i] = Staged]
    BY <1>0, <2>0 DEF Txns
  <2>3. PassOn(c, v) \/ PassOn(c, w) BY <1>13 DEF StopOne
  <2>. HIDE DEF v, w
  <2>. QED BY <1>4, <2>1, <2>2, <2>3
<1>14. CASE StopEnd(c)
  <2>. DEFINE v == [t EXCEPT !.err = TRUE]
              w == [t EXCEPT !.i = N - 1, !.again = FALSE]
  <2>1. v \in Txns /\ v.op = t.op /\ v.session = t.session /\ v.states = t.states
    BY <1>0 DEF Txns
  <2>2. w \in Txns /\ w.op = t.op /\ w.session = t.session /\ w.states = t.states
    BY <1>0, KFacts DEF Txns
  <2>3. \/ Goto(c, "capture", t) \/ Goto(c, "capture", v) \/ Goto(c, "stop", w)
        \/ Goto(c, "restore", t) \/ \E r : Release(c, r, held[c])
    BY <1>14 DEF StopEnd, Look, Broken
  <2>. HIDE DEF v, w
  <2>. QED BY <1>0, <1>1, <1>2, <2>1, <2>2, <2>3
<1>15. CASE Restore(c)
  BY <1>2, <1>15 DEF Restore, Broken
<1>16. CASE CaptureStep(c)
  BY <1>2, <1>5, <1>16 DEF CaptureStep, Look
<1>. QED
  BY <1>6, <1>7, <1>8, <1>9, <1>10, <1>11, <1>12, <1>13, <1>14, <1>15, <1>16
  DEF Proceed, StartStep, StopStep

\* What entering a call, and what callers do with receipts, changes: no thread
\* and no receipt.
LEMMA CallerStates ==
  ASSUME Inv, NEW c \in Controllers, CallStep(c)
  PROVE  /\ UNCHANGED <<thread, session, nextPid, boot, rogue, exits>>
         /\ \A r \in Receipts : Known(r)' => Known(r)
         /\ \/ pc'[c] = pc[c] /\ txn'[c] = txn[c]
            \/ pc'[c] = "stage" /\ txn'[c].states = NoTxn.states
            \/ /\ pc'[c] = "attach" /\ held'[c] = held[c] /\ held[c] # NoReceipt
               /\ held[c].boot = boot /\ txn'[c].states = held[c].ids
               /\ txn'[c].session = held[c].session /\ txn'[c].op # "start"
<1>. USE DEF Inv, CallTypes
<1>1. UNCHANGED <<thread, session, nextPid, boot, rogue, exits>>
  BY DEF CallStep, StartPersistent, Update, Stop, Configuration, AttachHandle, Operate, Enter,
         Store, TakeStored, kernelVars, budgets
<1>2. \A r \in Receipts : Known(r)' => Known(r)
  BY DEF CallStep, StartPersistent, Update, Stop, Configuration, AttachHandle, Operate, Enter,
         Store, TakeStored, receiptVars, Known
<1>3. CASE StartPersistent(c)
  <2>1. PICK goal \in Configs :
          Acquire(c, "stage", [NoTxn EXCEPT !.op = "start", !.goal = goal, !.session = calls + 1])
    BY <1>3 DEF StartPersistent
  <2>. DEFINE t == [NoTxn EXCEPT !.op = "start", !.goal = goal, !.session = calls + 1]
  <2>2. t.states = NoTxn.states BY DEF NoTxn
  <2>3. Acquire(c, "stage", t) BY <2>1
  <2>. HIDE DEF t
  <2>. QED BY <1>1, <1>2, <2>2, <2>3 DEF Acquire
<1>4. ASSUME NEW op \in {"update", "stop", "read", "attach"}, NEW goal, Operate(c, op, goal)
      PROVE  \/ pc'[c] = pc[c] /\ txn'[c] = txn[c]
             \/ /\ pc'[c] = "attach" /\ held'[c] = held[c] /\ held[c] # NoReceipt
                /\ held[c].boot = boot /\ txn'[c].states = held[c].ids
                /\ txn'[c].session = held[c].session /\ txn'[c].op # "start"
  <2>. DEFINE t == [NoTxn EXCEPT !.op = op, !.goal = goal, !.staged = held[c].conf,
                              !.wasTuned = held[c].tune, !.volatile = held[c].volatile,
                              !.states = held[c].ids, !.session = held[c].session]
  <2>1. t.op = op /\ t.states = held[c].ids /\ t.session = held[c].session BY DEF NoTxn
  <2>2. CASE Bound(held[c]) /\ Acquire(c, "attach", t)
    <3>. HIDE DEF t
    <3>. QED BY <1>4, <2>1, <2>2 DEF Acquire, Bound, Operate, Enter, receiptVars
  <2>. QED BY <1>4, <2>2 DEF Operate
<1>5. CASE Store(c) \/ TakeStored(c)
  BY <1>1, <1>2, <1>5 DEF Store, TakeStored, callVars
<1>. QED BY <1>1, <1>2, <1>3, <1>4, <1>5 DEF CallStep, Update, Stop, Configuration, AttachHandle

\* Pids are numbers.
LEMMA PidTypes ==
  ASSUME Inv, Inv'
  PROVE  /\ nextPid \in Nat \ {0} /\ nextPid' \in Nat \ {0} /\ boot \in Nat
         /\ \A i \in K : NoTxn.states[i] = 0 /\ thread[i] \in Nat
         /\ thread \in [K -> Pids] /\ session \in [K -> 0 .. MaxCalls]
         /\ \A d \in Controllers :
              /\ txn[d].i \in K /\ txn[d].states \in [K -> Pids \cup {Unidentified}]
              /\ \A i \in K : txn[d].states[i] \in Int
         /\ \A r \in Receipts : r.boot \in Nat /\ \A i \in K : r.ids[i] \in Nat
<1>1. nextPid \in Nat \ {0} /\ nextPid' \in Nat \ {0} /\ boot \in Nat
  BY BoundsAssumption DEF Inv, KernelTypes
<1>2. /\ \A i \in K : NoTxn.states[i] = 0 /\ thread[i] \in Nat
      /\ thread \in [K -> Pids] /\ session \in [K -> 0 .. MaxCalls]
  BY BoundsAssumption DEF Inv, KernelTypes, NoTxn, Staged, Pids
<1>3. ASSUME NEW d \in Controllers
      PROVE  /\ txn[d].i \in K /\ txn[d].states \in [K -> Pids \cup {Unidentified}]
             /\ \A i \in K : txn[d].states[i] \in Int
  BY BoundsAssumption DEF Inv, CallTypes, Txns, Pids, Unidentified
<1>4. ASSUME NEW r \in Receipts PROVE r.boot \in Nat /\ \A i \in K : r.ids[i] \in Nat
  BY BoundsAssumption DEF Receipts
<1>. QED BY <1>1, <1>2, <1>3, <1>4

LEMMA FreshNext == Inv /\ Inv' /\ PidsFresh /\ [Next]_vars => PidsFresh'
<1>. SUFFICES ASSUME Inv, Inv', PidsFresh, [Next]_vars PROVE PidsFresh'
  OBVIOUS
<1>. USE DEF PidsFresh
<1>. USE PidTypes
<1>1. ASSUME NEW c \in Controllers, Proceed(c) PROVE PidsFresh'
  <2>1. nextPid' \in {nextPid, nextPid + 1} /\ boot' = boot BY <1>1, HolderThreads
  <2>2. ASSUME NEW i \in K PROVE thread'[i] < nextPid'
    BY <1>1, HolderThreads
  <2>3. ASSUME NEW d \in Controllers, NEW i \in K PROVE txn'[d].states[i] < nextPid'
    <3>1. CASE d # c BY <1>1, <2>1, <3>1, OthersStay
    <3>2. CASE d = c
      <4>1. txn'[c].states \in {NoTxn.states, txn[c].states, [txn[c].states EXCEPT ![txn[c].i] = Staged],
                               [txn[c].states EXCEPT ![txn[c].i] = Unidentified],
                               [txn[c].states EXCEPT ![txn[c].i] = thread[txn[c].i]]}
        BY <1>1, HolderStates
      <4>2. txn'[c].states[i] \in {0, -1, txn[c].states[i], thread[i]}
        BY <4>1 DEF Unidentified, Staged
      <4>. QED BY <2>1, <3>2, <4>2
    <3>. QED BY <3>1, <3>2
  <2>4. ASSUME NEW r \in Receipts, Known(r)'
        PROVE  r.boot <= boot /\ (r.boot = boot => \A i \in K : r.ids[i] < nextPid')
    <3>1. CASE Known(r) BY <2>1, <3>1
    <3>2. CASE ~Known(r)
      <4>1. r = Capture(txn[c])
        BY <1>1, <2>4, <3>2, HolderReceipts DEF Known, Inv, CallTypes
      <4>2. r.boot = boot /\ r.ids = txn[c].states BY <4>1 DEF Capture
      <4>. QED BY <2>1, <4>2
    <3>. QED BY <3>1, <3>2
  <2>. QED BY <2>1, <2>2, <2>3, <2>4
<1>2. ASSUME NEW c \in Controllers, CallStep(c) PROVE PidsFresh'
  <2>1. UNCHANGED <<thread, nextPid, boot>> /\ \A r \in Receipts : Known(r)' => Known(r)
    BY <1>2, CallerStates
  <2>2. ASSUME NEW d \in Controllers, NEW i \in K PROVE txn'[d].states[i] < nextPid'
    <3>1. CASE d # c BY <1>2, <2>1, <3>1, OthersStay
    <3>2. CASE d = c
      BY <1>2, <2>1, <3>2, CallerStates DEF Known, Inv, CallTypes
    <3>. QED BY <3>1, <3>2
  <2>. QED BY <2>1, <2>2
<1>3. ASSUME NEW c \in Controllers, Crash(c) PROVE PidsFresh'
  <2>1. UNCHANGED <<thread, nextPid, boot>> /\ \A r \in Receipts : Known(r)' => Known(r)
    BY <1>3 DEF Crash, kernelVars, Known, Receipts, NoReceipt, Inv, CallTypes
  <2>2. \A d \in Controllers : txn'[d] \in {txn[d], NoTxn}
    BY <1>3 DEF Crash, Inv, CallTypes
  <2>. QED BY <2>1, <2>2
<1>4. CASE Reboot
  <2>1. \A r \in Receipts : Known(r)' => Known(r)
    BY <1>4, BoundsAssumption DEF Reboot, Known, Receipts, NoReceipt
  <2>2. \A d \in Controllers : txn'[d] = NoTxn BY <1>4 DEF Reboot
  <2>3. boot' = boot + 1 /\ nextPid' = 1 /\ \A i \in K : thread'[i] = 0 BY <1>4 DEF Reboot
  <2>. QED BY <2>1, <2>2, <2>3
<1>5. CASE KernelTunes \/ RogueActs \/ (\E i \in K : KdamondExits(i)) \/ UNCHANGED vars
  <2>1. UNCHANGED <<boot, stored, held, txn>>
    BY <1>5
    DEF KernelTunes, RogueActs, KdamondExits, vars, kernelVars, receiptVars, callVars
  <2>2. nextPid <= nextPid' /\ \A i \in K : thread'[i] < nextPid'
    BY <1>5 DEF KernelTunes, RogueActs, KdamondExits, vars, kernelVars
  <2>3. \A r : Known(r)' => Known(r) BY <2>1 DEF Known
  <2>. QED BY <2>1, <2>2, <2>3
<1>. QED BY <1>1, <1>2, <1>3, <1>4, <1>5 DEF Next, Environment

\* Within a boot a thread goes on, ends, or is a new one.
ThreadsGoOn ==
    \A i \in K : \/ thread'[i] = thread[i] /\ session'[i] = session[i]
                 \/ thread'[i] = 0
                 \/ thread'[i] = nextPid

LEMMA ThreadSteps ==
  ASSUME Inv, Inv',
         \/ \E c \in Controllers : Proceed(c) \/ CallStep(c) \/ Crash(c)
         \/ KernelTunes \/ RogueActs \/ (\E i \in K : KdamondExits(i)) \/ UNCHANGED vars
  PROVE  ThreadsGoOn /\ boot' = boot
<1>. USE PidTypes DEF ThreadsGoOn
<1>1. ASSUME NEW c \in Controllers, Proceed(c) PROVE ThreadsGoOn /\ boot' = boot
  BY <1>1, HolderThreads
<1>2. ASSUME NEW c \in Controllers, CallStep(c) \/ Crash(c) PROVE ThreadsGoOn /\ boot' = boot
  BY <1>2, CallerStates DEF Crash, kernelVars
<1>3. CASE KernelTunes \/ RogueActs \/ (\E i \in K : KdamondExits(i)) \/ UNCHANGED vars
  BY <1>3 DEF KernelTunes, RogueActs, KdamondExits, vars, kernelVars
<1>. QED BY <1>1, <1>2, <1>3

\* What names only threads of its session goes on doing so: a new thread has a
\* pid nobody knows.
LEMMA NamedStays ==
  ASSUME Inv, Inv', ThreadsGoOn, NEW ids, NEW s,
         \A i \in K : ids[i] \in Int /\ ids[i] < nextPid, Named(ids, s)
  PROVE  Named(ids, s)'
  BY PidTypes DEF ThreadsGoOn, Named, Staged

\* Interference is counted.
LEMMA Interference ==
  ASSUME Inv, Inv', [Next]_vars, rogue' + exits' <= 1
  PROVE  /\ RogueActs \/ (\E i \in K : KdamondExits(i)) => rogue' + exits' = 1 /\ rogue + exits = 0
         /\ rogue + exits <= 1
<1>1. rogue \in Nat /\ exits \in Nat /\ rogue' \in Nat /\ exits' \in Nat BY DEF Inv, KernelTypes
<1>2. ASSUME NEW c \in Controllers, Proceed(c) \/ CallStep(c) \/ Crash(c)
      PROVE  UNCHANGED <<rogue, exits>>
  BY <1>2, HolderThreads, CallerStates DEF Crash
<1>3. Reboot \/ KernelTunes \/ UNCHANGED vars => UNCHANGED <<rogue, exits>>
  BY DEF Reboot, KernelTunes, vars, budgets
<1>4. RogueActs => rogue' = rogue + 1 /\ exits' = exits BY DEF RogueActs
<1>5. (\E i \in K : KdamondExits(i)) => exits' = exits + 1 /\ rogue' = rogue BY DEF KdamondExits
<1>6. \/ UNCHANGED <<rogue, exits>>
      \/ rogue' = rogue + 1 /\ exits' = exits
      \/ exits' = exits + 1 /\ rogue' = rogue
  BY <1>2, <1>3, <1>4, <1>5 DEF Next, Environment
<1>. DEFINE r == rogue'
            e == exits'
<1>7. r \in Nat /\ e \in Nat /\ r + e <= 1 BY <1>1
<1>8. \/ r = rogue /\ e = exits
      \/ r = rogue + 1 /\ e = exits
      \/ e = exits + 1 /\ r = rogue
  BY <1>6
<1>9. RogueActs \/ (\E i \in K : KdamondExits(i)) =>
        (r = rogue + 1 /\ e = exits) \/ (e = exits + 1 /\ r = rogue)
  BY <1>4, <1>5
<1>. HIDE DEF r, e
<1>10. rogue + exits <= 1 BY <1>1, <1>7, <1>8
<1>11. RogueActs \/ (\E i \in K : KdamondExits(i)) => r + e = 1 /\ rogue + exits = 0
  BY <1>1, <1>7, <1>9
<1>. QED BY <1>10, <1>11 DEF r, e

LEMMA RightNext == Inv /\ Inv' /\ PidsFresh /\ PidsRight /\ [Next]_vars => PidsRight'
<1>. SUFFICES ASSUME Inv, Inv', PidsFresh, PidsRight, [Next]_vars, rogue' + exits' <= 1
              PROVE  ReceiptNames' /\ \A d \in Controllers : CallNames(d)' /\ StartNames(d)'
  BY DEF PidsRight
<1>. USE PidTypes
<1>0. /\ RogueActs \/ (\E i \in K : KdamondExits(i)) => rogue' + exits' = 1 /\ rogue + exits = 0
      /\ rogue + exits <= 1
  BY Interference
<1>1. ReceiptNames /\ \A d \in Controllers : CallNames(d) /\ StartNames(d)
  BY <1>0 DEF PidsRight
<1>2. ASSUME ThreadsGoOn, boot' = boot, NEW r \in Receipts, Known(r), r.boot = boot'
      PROVE  Named(r.ids, r.session)'
  BY <1>1, <1>2, NamedStays DEF PidsFresh, ReceiptNames
<1>3. ASSUME ThreadsGoOn, NEW d \in Controllers, pc[d] # "idle", txn'[d].states = txn[d].states,
             txn'[d].session = txn[d].session
      PROVE  CallNames(d)'
  <2>1. Named(txn[d].states, txn[d].session) BY <1>1, <1>3 DEF CallNames
  <2>. QED BY <1>3, <2>1 DEF PidsFresh, ThreadsGoOn, Named, Staged, CallNames
<1>4. ASSUME NEW c \in Controllers, Proceed(c)
      PROVE  ReceiptNames' /\ \A d \in Controllers : CallNames(d)' /\ StartNames(d)'
  <2>. DEFINE t == txn[c]
              u == txn'[c]
  <2>0. ThreadsGoOn /\ boot' = boot /\ pc[c] # "idle" /\ t.i \in K
    BY <1>4, ThreadSteps, KernelKeeps
  <2>1. Named(t.states, t.session) BY <1>1, <2>0 DEF CallNames
  <2>2. ReceiptNames'
    <3>. SUFFICES ASSUME NEW r \in Receipts, Known(r)', r.boot = boot' PROVE Named(r.ids, r.session)'
      BY DEF ReceiptNames
    <3>1. CASE Known(r) BY <1>2, <2>0, <3>1
    <3>2. CASE ~Known(r)
      <4>1. r = Capture(t) /\ UNCHANGED <<thread, session>>
        BY <1>4, <3>2, HolderReceipts DEF Known, Inv, CallTypes
      <4>2. r.session = t.session /\ r.ids = t.states BY <4>1 DEF Capture
      <4>. QED BY <2>1, <4>1, <4>2 DEF Named
    <3>. QED BY <3>1, <3>2
  <2>3. ASSUME NEW d \in Controllers, d # c PROVE CallNames(d)' /\ StartNames(d)'
    BY <1>4, <2>3, OthersStay DEF CallNames, StartNames
  <2>4. CallNames(c)' /\ StartNames(c)'
    <3>1. CASE pc'[c] = "idle" BY <3>1 DEF CallNames, StartNames
    <3>2. CASE /\ u.session = t.session
               /\ pc'[c] # "start_pid" /\ u.states \in {t.states, [t.states EXCEPT ![t.i] = Staged]}
      <4>1. StartNames(c)' BY <3>2 DEF StartNames
      <4>2. CallNames(c)'
        BY <2>0, <2>1, <3>2 DEF CallNames, Named, ThreadsGoOn, PidsFresh, Staged
      <4>. QED BY <4>1, <4>2
    <3>3. CASE /\ u.session = t.session
               /\ StartOn(c) /\ thread' = [thread EXCEPT ![t.i] = nextPid] /\ u.i = t.i
               /\ u.states = [t.states EXCEPT ![t.i] = Unidentified]
      <4>1. thread'[t.i] = nextPid BY <2>0, <3>3
      <4>2. thread[t.i] < nextPid BY <2>0 DEF PidsFresh
      <4>3. session'[t.i] = t.session
        BY <1>4, <2>0, <3>3, <4>1, <4>2, HolderThreads DEF StartOn
      <4>4. StartNames(c)' BY <2>0, <3>3, <4>1, <4>3 DEF StartNames, On
      <4>5. CallNames(c)'
        BY <2>0, <2>1, <3>3, <4>1 DEF CallNames, Named, ThreadsGoOn, PidsFresh, Staged, Unidentified
      <4>. QED BY <4>4, <4>5
    <3>4. CASE /\ u.session = t.session
               /\ StartPid(c) /\ On(t.i) /\ pc'[c] # "start_pid"
               /\ u.states = [t.states EXCEPT ![t.i] = thread[t.i]]
      <4>1. UNCHANGED <<thread, session>> /\ pc[c] = "start_pid"
        BY <3>4 DEF StartPid, Look, kernelVars
      <4>2. session[t.i] = t.session BY <1>1, <3>4, <4>1 DEF StartNames
      <4>. QED BY <2>0, <2>1, <3>4, <4>1, <4>2 DEF CallNames, StartNames, Named
    <3>5. \/ pc'[c] = "idle"
          \/ /\ u.session = t.session
             /\ \/ pc'[c] # "start_pid" /\ u.states \in {t.states, [t.states EXCEPT ![t.i] = Staged]}
                \/ /\ StartOn(c) /\ thread' = [thread EXCEPT ![t.i] = nextPid] /\ u.i = t.i
                   /\ u.states = [t.states EXCEPT ![t.i] = Unidentified]
                \/ /\ StartPid(c) /\ On(t.i) /\ pc'[c] # "start_pid"
                   /\ u.states = [t.states EXCEPT ![t.i] = thread[t.i]]
      BY <1>4, HolderStates
    <3>. QED BY <3>1, <3>2, <3>3, <3>4, <3>5
  <2>. QED BY <2>2, <2>3, <2>4
<1>5. ASSUME NEW c \in Controllers, CallStep(c)
      PROVE  ReceiptNames' /\ \A d \in Controllers : CallNames(d)' /\ StartNames(d)'
  <2>0. /\ UNCHANGED <<thread, session, nextPid, boot, rogue, exits>>
        /\ \A r \in Receipts : Known(r)' => Known(r)
    BY <1>5, CallerStates
  <2>1. ReceiptNames' BY <1>1, <2>0 DEF ReceiptNames, Named
  <2>2. ASSUME NEW d \in Controllers, pc'[d] = pc[d], txn'[d] = txn[d]
        PROVE  CallNames(d)' /\ StartNames(d)'
    BY <1>1, <2>0, <2>2 DEF CallNames, StartNames, Named, On
  <2>3. ASSUME pc'[c] = "stage", txn'[c].states = NoTxn.states
        PROVE  CallNames(c)' /\ StartNames(c)'
    <3>1. \A i \in K : txn'[c].states[i] = Staged BY <2>3 DEF NoTxn
    <3>. QED BY <2>3, <3>1 DEF CallNames, StartNames, Named
  <2>4. ASSUME pc'[c] = "attach", held'[c] = held[c], held[c] # NoReceipt, held[c].boot = boot,
               txn'[c].states = held[c].ids, txn'[c].session = held[c].session
        PROVE  CallNames(c)' /\ StartNames(c)'
    <3>1. Named(held[c].ids, held[c].session)
      BY <1>1, <2>4 DEF ReceiptNames, Known, Inv, CallTypes
    <3>2. pc'[c] # "start_pid" BY <2>4
    <3>3. Named(txn[c].states, txn[c].session)'
      BY <2>0, <2>4, <3>1 DEF Named
    <3>. QED BY <3>2, <3>3 DEF CallNames, StartNames
  <2>. QED BY <1>5, <2>1, <2>2, <2>3, <2>4, CallerStates, OthersStay
<1>6. ASSUME NEW c \in Controllers, Crash(c)
      PROVE  ReceiptNames' /\ \A d \in Controllers : CallNames(d)' /\ StartNames(d)'
  <2>1. UNCHANGED <<thread, session, boot, rogue, exits>> /\ \A r \in Receipts : Known(r)' => Known(r)
    BY <1>6 DEF Crash, kernelVars, Known, Receipts, NoReceipt, Inv, CallTypes
  <2>2. \A d \in Controllers : pc'[d] = "idle" \/ (pc'[d] = pc[d] /\ txn'[d] = txn[d])
    BY <1>6 DEF Crash, Inv, CallTypes
  <2>. QED BY <1>1, <2>1, <2>2 DEF ReceiptNames, CallNames, StartNames, Named, On
<1>7. CASE Reboot
  <2>1. \A r \in Receipts : Known(r)' => r.boot # boot'
    BY <1>7, BoundsAssumption DEF Reboot, Known, Receipts, NoReceipt, PidsFresh
  <2>2. \A d \in Controllers : pc'[d] = "idle" BY <1>7 DEF Reboot
  <2>. QED BY <2>1, <2>2 DEF ReceiptNames, CallNames, StartNames
<1>8. CASE KernelTunes \/ RogueActs \/ (\E i \in K : KdamondExits(i)) \/ UNCHANGED vars
  <2>0. ThreadsGoOn /\ UNCHANGED <<boot, stored, held, pc, txn>>
    BY <1>8, ThreadSteps
    DEF KernelTunes, RogueActs, KdamondExits, vars, kernelVars, receiptVars, callVars
  <2>1. ReceiptNames' BY <1>2, <2>0 DEF ReceiptNames, Known
  <2>2. ASSUME NEW d \in Controllers PROVE CallNames(d)'
    BY <1>3, <2>0 DEF CallNames
  <2>3. ASSUME NEW d \in Controllers PROVE StartNames(d)'
    <3>1. CASE KernelTunes \/ UNCHANGED vars
      BY <1>1, <2>0, <3>1
      DEF KernelTunes, vars, kernelVars, budgets, StartNames, On
    <3>2. CASE RogueActs \/ (\E i \in K : KdamondExits(i))
      <4>1. rogue' + exits' = 1 /\ rogue + exits = 0 BY <1>0, <3>2
      <4>2. ASSUME pc[d] = "start_pid" PROVE On(txn[d].i) /\ session[txn[d].i] = txn[d].session
        BY <1>1, <4>1, <4>2 DEF StartNames
      <4>3. \A i \in K : On(i) => thread'[i] = 0 \/ (thread'[i] = thread[i] /\ session'[i] = session[i])
        BY <3>2 DEF RogueActs, KdamondExits, On
      <4>. QED BY <2>0, <4>1, <4>2, <4>3 DEF StartNames, On
    <3>. QED BY <1>8, <3>1, <3>2
  <2>. QED BY <2>1, <2>2, <2>3
<1>. QED BY <1>1, <1>4, <1>5, <1>6, <1>7, <1>8 DEF Next, Environment

LEMMA UnnamedNext == Inv /\ Inv' /\ PidsFresh /\ StartUnnamed /\ [Next]_vars => StartUnnamed'
<1>. DEFINE Unnamed(d, r) ==
        pc[d] # "idle" /\ txn[d].op = "start" /\ Known(r) /\ r.boot = boot =>
            /\ \A i \in K : txn[d].states[i] # Staged => r.ids[i] # txn[d].states[i]
            /\ pc[d] = "start_pid" => ~On(txn[d].i) \/ r.ids[txn[d].i] # thread[txn[d].i]
<1>. SUFFICES ASSUME Inv, Inv', PidsFresh, StartUnnamed, [Next]_vars,
                     NEW d \in Controllers, NEW r \in Receipts
              PROVE  Unnamed(d, r)'
  BY DEF StartUnnamed
<1>. USE PidTypes
<1>0. Unnamed(d, r) BY DEF StartUnnamed
<1>1. ASSUME ThreadsGoOn, boot' = boot, Known(r)' => Known(r), pc'[d] = pc[d], txn'[d] = txn[d]
      PROVE  Unnamed(d, r)'
  BY <1>0, <1>1 DEF ThreadsGoOn, On, PidsFresh
<1>2. CASE pc'[d] = "idle" \/ txn'[d].op # "start" BY <1>2
<1>3. ASSUME NEW c \in Controllers, Proceed(c), pc'[d] # "idle" PROVE Unnamed(d, r)'
  <2>. DEFINE t == txn[c]
              u == txn'[c]
  <2>0. ThreadsGoOn /\ boot' = boot /\ t.i \in K /\ pc[c] # "idle"
    BY <1>3, ThreadSteps, KernelKeeps
  <2>1. d = c BY <1>3, OthersStay
  <2>2. Known(r)' => Known(r)
    <3>1. \A x : Release(c, x, Capture(t)) => pc'[c] = "idle" BY DEF Release, Inv, CallTypes
    <3>. QED BY <1>3, <2>1, <3>1, HolderReceipts DEF Known, Inv, CallTypes
  <2>3. CASE pc'[c] # "start_pid" /\ u.op = t.op /\ u.states \in {t.states, [t.states EXCEPT ![t.i] = Staged]}
    BY <1>0, <2>0, <2>1, <2>2, <2>3
  <2>4. CASE /\ thread' = [thread EXCEPT ![t.i] = nextPid] /\ u.i = t.i /\ u.op = t.op
             /\ u.states = [t.states EXCEPT ![t.i] = Unidentified]
    <3>1. ASSUME Known(r), r.boot = boot PROVE \A i \in K : r.ids[i] < nextPid /\ r.ids[i] # Unidentified
      BY <3>1 DEF PidsFresh, Unidentified
    <3>. QED BY <1>0, <2>0, <2>1, <2>2, <2>4, <3>1
  <2>5. CASE /\ StartPid(c) /\ On(t.i) /\ pc'[c] # "start_pid" /\ u.op = t.op
             /\ u.states = [t.states EXCEPT ![t.i] = thread[t.i]]
    <3>1. pc[c] = "start_pid" BY <2>5 DEF StartPid
    <3>. QED BY <1>0, <2>0, <2>1, <2>2, <2>5, <3>1
  <2>6. \/ pc'[c] # "start_pid" /\ u.op = t.op /\ u.states \in {t.states, [t.states EXCEPT ![t.i] = Staged]}
        \/ /\ thread' = [thread EXCEPT ![t.i] = nextPid] /\ u.i = t.i /\ u.op = t.op
           /\ u.states = [t.states EXCEPT ![t.i] = Unidentified]
        \/ /\ StartPid(c) /\ On(t.i) /\ pc'[c] # "start_pid" /\ u.op = t.op
           /\ u.states = [t.states EXCEPT ![t.i] = thread[t.i]]
    BY <1>3, <2>1, HolderStates
  <2>. QED BY <2>3, <2>4, <2>5, <2>6
<1>4. ASSUME NEW c \in Controllers, CallStep(c) PROVE Unnamed(d, r)'
  <2>1. ThreadsGoOn /\ boot' = boot /\ (Known(r)' => Known(r)) BY <1>4, ThreadSteps, CallerStates
  <2>2. CASE pc'[d] = pc[d] /\ txn'[d] = txn[d] BY <1>1, <2>1, <2>2
  <2>3. CASE pc'[d] = "stage" /\ txn'[d].states = NoTxn.states
    BY <2>3 DEF Staged
  <2>. QED BY <1>2, <1>4, <2>2, <2>3, CallerStates, OthersStay
<1>5. ASSUME NEW c \in Controllers, Crash(c) PROVE Unnamed(d, r)'
  <2>1. ThreadsGoOn /\ boot' = boot BY <1>5, ThreadSteps
  <2>2. Known(r)' => Known(r)
    BY <1>5 DEF Crash, Known, Receipts, NoReceipt, Inv, CallTypes
  <2>3. pc'[d] = "idle" \/ (pc'[d] = pc[d] /\ txn'[d] = txn[d])
    BY <1>5 DEF Crash, Inv, CallTypes
  <2>. QED BY <1>1, <1>2, <2>1, <2>2, <2>3
<1>6. CASE Reboot BY <1>2, <1>6 DEF Reboot
<1>7. CASE KernelTunes \/ RogueActs \/ (\E i \in K : KdamondExits(i)) \/ UNCHANGED vars
  <2>1. ThreadsGoOn /\ UNCHANGED <<boot, stored, held, pc, txn>>
    BY <1>7, ThreadSteps
    DEF KernelTunes, RogueActs, KdamondExits, vars, kernelVars, receiptVars, callVars
  <2>2. Known(r)' => Known(r) BY <2>1 DEF Known
  <2>. QED BY <1>1, <2>1, <2>2
<1>. QED BY <1>2, <1>3, <1>4, <1>5, <1>6, <1>7 DEF Next, Environment

LEMMA PidsAlways == Spec => []PidInv
<1>1. Init => PidInv
  <2>. SUFFICES ASSUME Init PROVE PidInv
    OBVIOUS
  <2>1. \A r \in Receipts : ~Known(r) BY BoundsAssumption DEF Init, Known, Receipts, NoReceipt
  <2>2. PidsFresh BY <2>1 DEF Init, PidsFresh, NoTxn, Staged
  <2>3. PidsRight BY <2>1 DEF Init, PidsRight, ReceiptNames, CallNames, StartNames
  <2>4. StartUnnamed BY <2>1 DEF Init, StartUnnamed
  <2>. QED BY <2>2, <2>3, <2>4 DEF PidInv
<1>2. Inv /\ Inv' /\ PidInv /\ [Next]_vars => PidInv'
  BY FreshNext, RightNext, UnnamedNext DEF PidInv
<1>. QED BY <1>1, <1>2, CallsExclusive, PTL DEF Spec

\* ManagedHierarchy::stop_one, rollback_started, PersistentReceipt::verify_binding:
\* a controller ends only threads of the session its receipt descends from, and a
\* thread some receipt names is ended only by a stop, an intruder or a reboot.
THEOREM StopsByRight == Spec => ThreadsEndByRight
<1>. DEFINE Right1(i) ==
              \A c \in Controllers :
                pc[c] = "stop" /\ txn'[c] # txn[c] /\ boot' = boot /\ rogue + exits <= 1
                => session[i] = txn[c].session
            Right2(i) ==
              Recorded(i) =>
                \/ rogue' # rogue \/ exits' # exits \/ boot' # boot
                \/ \E c \in Controllers : pc[c] = "stop" /\ txn[c].op = "stop"
<1>1. Inv /\ Inv' /\ PidInv /\ [Next]_vars =>
        [\A i \in K : Stops(i) =>
            /\ \A c \in Controllers :
                  pc[c] = "stop" /\ txn'[c] # txn[c] /\ boot' = boot /\ rogue + exits <= 1
                  => session[i] = txn[c].session
            /\ Recorded(i) =>
                  \/ rogue' # rogue \/ exits' # exits \/ boot' # boot
                  \/ \E c \in Controllers : pc[c] = "stop" /\ txn[c].op = "stop"]_vars
  <2>. SUFFICES ASSUME Inv, Inv', PidInv, Next, NEW i \in K, On(i), thread'[i] = 0
                PROVE  Right1(i) /\ Right2(i)
    BY DEF Stops
  <2>. USE PidTypes
  <2>1. CASE Reboot
    <3>1. boot' # boot BY <2>1 DEF Reboot
    <3>. QED BY <3>1
  <2>2. CASE RogueActs \/ \E j \in K : KdamondExits(j)
    <3>1. txn' = txn BY <2>2 DEF RogueActs, KdamondExits
    <3>2. rogue' # rogue \/ exits' # exits BY <2>2 DEF RogueActs, KdamondExits, Inv, KernelTypes
    <3>. QED BY <3>1, <3>2
  <2>3. ASSUME NEW c \in Controllers, Proceed(c) PROVE Right1(i) /\ Right2(i)
    <3>0. txn[c].i \in K /\ nextPid # 0 OBVIOUS
    <3>1. pc[c] = "stop" /\ txn[c].i = i /\ thread[i] = txn[c].states[i]
      BY <2>3, <3>0, HolderThreads DEF On
    <3>2. \A d \in Controllers : d # c => pc[d] = "idle" BY <2>3, OthersStay
    <3>3. Right1(i)
      BY <3>1, <3>2 DEF PidInv, PidsRight, CallNames, Named, On, Staged
    <3>4. Right2(i)
      <4>. SUFFICES ASSUME NEW r \in stored \cup {held[d] : d \in Controllers}, r # NoReceipt,
                           r.boot = boot, r.ids[i] = thread[i]
                    PROVE  txn[c].op = "stop"
        BY <3>1 DEF Recorded
      <4>1. r \in Receipts /\ Known(r) BY DEF Known, Inv, CallTypes
      <4>2. txn[c].op \in {"start", "stop"} BY <3>1 DEF Inv, CallInv, StepInv, OpInv
      <4>3. txn[c].op # "start" BY <3>1, <4>1 DEF PidInv, StartUnnamed, On, Staged
      <4>. QED BY <4>2, <4>3
    <3>. QED BY <3>3, <3>4
  <2>4. ASSUME NEW c \in Controllers, CallStep(c) \/ Crash(c) PROVE FALSE
    BY <2>4, CallerStates DEF Crash, kernelVars, On
  <2>5. ~KernelTunes BY DEF KernelTunes, On
  <2>. QED BY <2>1, <2>2, <2>3, <2>4, <2>5 DEF Next, Environment
<1>. QED BY <1>1, CallsExclusive, PidsAlways, PTL DEF Spec, ThreadsEndByRight

=============================================================================
