-------------------------- MODULE PersistentReceipts --------------------------
(***************************************************************************)
(* Persistent hierarchies: Damon::start_persistent leaves its kdamonds     *)
(* running and returns a receipt; later calls, of the same or of another   *)
(* process, take the session lock, compare the receipt with the kernel and *)
(* read, update or stop what it names.  Controllers crash, the machine     *)
(* reboots and hands out the same pids again, receipts are kept and cloned *)
(* by the callers and go stale, and somebody who ignores the lock          *)
(* interferes.                                                             *)
(*                                                                         *)
(* The writable configuration of the whole hierarchy is one value, apart   *)
(* from the intervals the kernel tunes.  What happens between the leaves   *)
(* of one staging is the subject of ManagedHierarchy and UpdateTransaction.*)
(***************************************************************************)
EXTENDS Integers, FiniteSets

CONSTANTS
    Controllers, Nobody,
    N,               \* kdamonds in every configuration asked for
    Configs,         \* the configurations asked for
    Tuned,           \* those with interval auto-tuning
    Original,        \* what a booting kernel has
    Foreign,         \* what a controller that ignores the lock writes
    MaxPid,          \* threads the kernel starts in one boot
    MaxCalls, MaxBoots, MaxCrashes, MaxOutside, MaxFaults   \* bounds

K == 0 .. N - 1
Contents == Configs \cup {Original, Foreign}

ASSUME NAssumption == N \in Nat \ {0}
ASSUME BoundsAssumption ==
    MaxPid \in Nat /\ MaxCalls \in Nat /\ MaxBoots \in Nat \ {0}
ASSUME NobodyAssumption == Nobody \notin Controllers
ASSUME ConfigsAssumption ==
    Tuned \subseteq Configs /\ Original \notin Configs /\ Foreign \notin Configs

VARIABLES
    conf,      \* the writable configuration
    tune,      \* the kernel moved the auto-tuned intervals
    thread,    \* thread[i]: pid of the running kernel thread, 0 when it is off
    nextPid,   \* starts again at 1 with every boot
    boot,      \* the boot id
    lock,      \* who holds the flock on the lock file
    stored,    \* receipts the callers wrote to stable storage
    held,      \* held[c]: the receipt in the memory of process c
    pc, txn,   \* the call process c is in and its local variables
    result,    \* how the last call of c ended
    session,   \* session[i]: which start_persistent began the thread (history)
    clean,     \* since the machine booted no process died, nobody interfered, no
               \* kdamond ended by itself and no call reported an unknown state (history)
    calls, crashes, rogue, exits, faults   \* budgets

kernelVars == <<conf, tune, thread, nextPid, boot, session>>
receiptVars == <<stored, held>>
callVars == <<lock, pc, txn, result, clean>>
budgets == <<calls, crashes, rogue, exits, faults>>
vars == <<kernelVars, receiptVars, callVars, budgets>>

On(i) == thread[i] # 0
AllOff == \A i \in K : ~On(i)

\* KdamondSessionState; a pid stands for Running(pid)
Staged == 0
Unidentified == -1

NoReceipt == [boot |-> 0]
Receipts == [boot : 1 .. MaxBoots, conf : Configs, tune : BOOLEAN, volatile : BOOLEAN,
             ids : [K -> 0 .. MaxPid], session : 0 .. MaxCalls]

\* op: the call; goal: its configuration; staged, volatile, states, previous:
\* the ManagedHierarchy it opened; i: the kdamond at hand; err: the operation
\* failed; again: another close follows a failed one (Drop).
NoTxn == [op |-> "none", goal |-> Original, staged |-> Original, wasTuned |-> FALSE,
          volatile |-> FALSE, states |-> [i \in K |-> Staged], previous |-> Original,
          i |-> 0, err |-> FALSE, again |-> FALSE, session |-> 0, seen |-> Original]

-----------------------------------------------------------------------------
(* What a managed hierarchy verifies *)

\* StagedOwnership::verify and verify_complete
Verify(t) == conf = t.staged /\ (t.volatile \/ tune = t.wasTuned)

\* ManagedHierarchy::verify_owned_state; an unidentified kdamond never passes
OwnedState(t) == Verify(t) /\ \A i \in K : thread[i] = t.states[i]

\* Mutant: the auto-tuned intervals are compared like the other leaves.
CaptureMutant(t) ==
    [boot |-> boot, conf |-> conf, tune |-> tune, volatile |-> FALSE,
     ids |-> t.states, session |-> t.session]

\* PersistentReceipt::capture, once persistent_parts verified the hierarchy
Capture(t) ==
    [boot |-> boot, conf |-> conf, tune |-> tune, volatile |-> t.volatile,
     ids |-> t.states, session |-> t.session]

\* Mutant: the boot id is not compared.
BoundMutant(r) == r # NoReceipt

\* PersistentReceipt::verify_binding
Bound(r) == r # NoReceipt /\ r.boot = boot

\* A receipt that attaches in this state.
Attaches(r) ==
    Bound(r) /\ conf = r.conf /\ (r.volatile \/ tune = r.tune) /\ thread = r.ids

-----------------------------------------------------------------------------
(* Control *)

Goto(c, l, t) ==
    /\ pc' = [pc EXCEPT ![c] = l]
    /\ txn' = [txn EXCEPT ![c] = t]
    /\ UNCHANGED <<lock, result, clean, receiptVars>>

\* The hierarchy is dropped and its lock with it.
Release(c, r, receipt) ==
    /\ pc' = [pc EXCEPT ![c] = "idle"]
    /\ txn' = [txn EXCEPT ![c] = NoTxn]
    /\ result' = [result EXCEPT ![c] = r]
    /\ lock' = Nobody
    /\ held' = [held EXCEPT ![c] = receipt]
    /\ clean' = (clean /\ r \notin {"uncertain", "rollback_failed"})
    /\ UNCHANGED stored

\* A group of reads: Good if cond holds, else Bad; the reads may also fail.
Look(cond, Good, Bad) ==
    /\ \/ cond /\ Good /\ UNCHANGED faults
       \/ ~cond /\ Bad /\ UNCHANGED faults
       \/ cond /\ faults < MaxFaults /\ faults' = faults + 1 /\ Bad
    /\ UNCHANGED <<kernelVars, calls, crashes, rogue, exits>>

\* A failed call of the library whose configuration may have been left behind.
Broken(c) == Release(c, "rollback_failed", held[c])
-----------------------------------------------------------------------------
(* SessionLock::acquire and the entry of a call *)

\* Mutant: the lock is taken whether it is free or not.
AcquireMutant(c, l, t) ==
    /\ lock' = c
    /\ pc' = [pc EXCEPT ![c] = l]
    /\ txn' = [txn EXCEPT ![c] = t]
    /\ result' = [result EXCEPT ![c] = "none"]

Acquire(c, l, t) ==
    \/ /\ lock = Nobody
       /\ lock' = c
       /\ pc' = [pc EXCEPT ![c] = l]
       /\ txn' = [txn EXCEPT ![c] = t]
       /\ result' = [result EXCEPT ![c] = "none"]
    \/ /\ lock # Nobody
       /\ result' = [result EXCEPT ![c] = "busy"]
       /\ UNCHANGED <<lock, pc, txn>>

Enter(c) ==
    /\ pc[c] = "idle"
    /\ calls < MaxCalls
    /\ calls' = calls + 1
    /\ UNCHANGED <<kernelVars, receiptVars, clean, crashes, rogue, exits, faults>>

\* A caller keeps a receipt before it lets go of it.
Kept(c) == held[c] = NoReceipt \/ held[c] \in stored

StartPersistent(c) ==
    /\ Kept(c)
    /\ Enter(c)
    /\ \E goal \in Configs :
        Acquire(c, "stage", [NoTxn EXCEPT !.op = "start", !.goal = goal,
                                          !.session = calls + 1])

\* open_managed: the binding is verified before the lock is taken.
Operate(c, op, goal) ==
    /\ held[c] # NoReceipt
    /\ Enter(c)
    /\ \/ /\ Bound(held[c])
          /\ Acquire(c, "attach",
                [NoTxn EXCEPT !.op = op, !.goal = goal, !.staged = held[c].conf,
                              !.wasTuned = held[c].tune, !.volatile = held[c].volatile,
                              !.states = held[c].ids, !.session = held[c].session])
       \/ /\ ~Bound(held[c])
          /\ result' = [result EXCEPT ![c] = "mismatch"]
          /\ UNCHANGED <<lock, pc, txn>>

Update(c) == \E goal \in Configs : Operate(c, "update", goal)
Stop(c) == Operate(c, "stop", Original)
Configuration(c) == Operate(c, "read", Original)
AttachHandle(c) == Operate(c, "attach", Original)

\* The caller stores a receipt, or takes one of the stored receipts.
Store(c) ==
    /\ pc[c] = "idle"
    /\ held[c] # NoReceipt
    /\ stored' = stored \cup {held[c]}
    /\ UNCHANGED <<kernelVars, held, callVars, budgets>>

TakeStored(c) ==
    /\ pc[c] = "idle"
    /\ Kept(c)
    /\ \E r \in stored : held' = [held EXCEPT ![c] = r]
    /\ UNCHANGED <<kernelVars, stored, callVars, budgets>>

-----------------------------------------------------------------------------
(* start_persistent *)

\* managed_hierarchy: nothing may run; a staging that fails is undone, unless
\* that fails too (one fault that lasts).
Stage(c) ==
    LET t == txn[c] IN
    /\ pc[c] = "stage"
    /\ \/ /\ AllOff
          /\ conf' = t.goal
          /\ tune' = FALSE
          /\ Goto(c, "start_check",
                  [t EXCEPT !.previous = conf, !.wasTuned = FALSE, !.staged = t.goal,
                            !.volatile = (t.goal \in Tuned)])
          /\ UNCHANGED faults
       \/ /\ ~AllOff \/ faults < MaxFaults
          /\ faults' = IF AllOff THEN faults + 1 ELSE faults
          /\ Release(c, "rejected", held[c])
          /\ UNCHANGED <<conf, tune>>
       \/ /\ AllOff
          /\ faults < MaxFaults
          /\ faults' = faults + 1
          /\ conf' = Foreign
          /\ tune' = FALSE
          /\ Broken(c)
    /\ UNCHANGED <<thread, nextPid, boot, session, calls, crashes, rogue, exits>>

\* Where a start that failed goes: what it started is stopped again, and then
\* the hierarchy is dropped, which tries to stop and to restore.
Unwind(c, t) == Goto(c, "stop", [t EXCEPT !.i = N - 1, !.err = TRUE, !.again = TRUE])

StartCheck(c) ==
    /\ pc[c] = "start_check"
    /\ Look(Verify(txn[c]) /\ AllOff, Goto(c, "start_on", txn[c]), Unwind(c, txn[c]))

\* start_one: the kdamond runs, its pid is not known yet.
StartOn(c) ==
    LET t == txn[c]
        i == t.i
    IN  /\ pc[c] = "start_on"
        /\ \/ /\ Verify(t) /\ ~On(i) /\ nextPid <= MaxPid
              /\ thread' = [thread EXCEPT ![i] = nextPid]
              /\ session' = [session EXCEPT ![i] = t.session]
              /\ nextPid' = nextPid + 1
              /\ Goto(c, "start_pid", [t EXCEPT !.states[i] = Unidentified])
              /\ UNCHANGED faults
           \/ /\ ~Verify(t) \/ On(i) \/ nextPid > MaxPid \/ faults < MaxFaults
              /\ faults' = IF Verify(t) /\ ~On(i) /\ nextPid <= MaxPid
                           THEN faults + 1 ELSE faults
              /\ Unwind(c, t)
              /\ UNCHANGED <<thread, session, nextPid>>
        /\ UNCHANGED <<conf, tune, boot, calls, crashes, rogue, exits>>

StartPid(c) ==
    LET t == [txn[c] EXCEPT !.states[txn[c].i] = thread[txn[c].i]] IN
    /\ pc[c] = "start_pid"
    /\ Look(On(t.i),
            IF t.i + 1 \in K THEN Goto(c, "start_on", [t EXCEPT !.i = @ + 1])
            ELSE Goto(c, "start_final", t),
            Unwind(c, txn[c]))

StartFinal(c) ==
    /\ pc[c] = "start_final"
    /\ Look(OwnedState(txn[c]), Goto(c, "capture", txn[c]), Unwind(c, txn[c]))

-----------------------------------------------------------------------------
(* ManagedHierarchy::attach_persistent *)

Lost(c) == Release(c, "lost", held[c])

Attach(c) ==
    /\ pc[c] = "attach"
    /\ Look(Verify(txn[c]), Goto(c, "attach_state", txn[c]), Lost(c))

AttachState(c) ==
    LET t == txn[c]
        next == IF t.op = "attach" THEN Release(c, "ok", held[c])
                ELSE Goto(c, t.op, [t EXCEPT !.i = N - 1])
    IN  pc[c] = "attach_state" /\ Look(OwnedState(t), next, Lost(c))

\* ManagedHierarchy::configuration reads between two verifications.
Read(c) ==
    /\ pc[c] = "read"
    /\ Look(OwnedState(txn[c]), Goto(c, "read_values", txn[c]), Lost(c))

ReadValues(c) ==
    /\ pc[c] = "read_values"
    /\ Look(TRUE, Goto(c, "read_verify", [txn[c] EXCEPT !.seen = conf]), Lost(c))

\* Mutant: what was read is returned without another look.
ReadVerifyMutant(c) ==
    /\ pc[c] = "read_verify"
    /\ Look(TRUE, Release(c, "ok", held[c]), Lost(c))

\* Mutant: the hierarchy is not disarmed, so that dropping it stops it.
ReadArmedMutant(c) ==
    /\ pc[c] = "read_verify"
    /\ Look(OwnedState(txn[c]), Unwind(c, txn[c]), Lost(c))

\* A hierarchy opened from a receipt is disarmed on every path.
ReadVerify(c) ==
    /\ pc[c] = "read_verify"
    /\ Look(OwnedState(txn[c]), Release(c, "ok", held[c]), Lost(c))

-----------------------------------------------------------------------------
(* AttachedHierarchy::update: update_configuration of every running        *)
(* kdamond, as one writing and one committing step; the others must keep   *)
(* their configuration                                                     *)

UpdateWrite(c) ==
    LET t == txn[c]
        running == {i \in K : t.states[i] # Staged}
        possible == /\ OwnedState(t)
                    /\ running # {}
                    /\ running = K \/ t.goal = conf
    IN  /\ pc[c] = "update"
        /\ \/ /\ possible
              /\ conf' = t.goal
              /\ tune' = (tune /\ t.goal \in Tuned)
              /\ Goto(c, "commit", [t EXCEPT !.previous = conf])
              /\ UNCHANGED faults
           \/ /\ ~possible \/ faults < MaxFaults
              /\ faults' = IF possible THEN faults + 1 ELSE faults
              /\ Goto(c, "capture", [t EXCEPT !.err = TRUE])
              /\ UNCHANGED <<conf, tune>>
        /\ UNCHANGED <<thread, nextPid, boot, session, calls, crashes, rogue, exits>>

Commit(c) ==
    LET t == txn[c]
        new == [t EXCEPT !.staged = t.goal, !.wasTuned = tune,
                         !.volatile = (t.goal \in Tuned)]
    IN  /\ pc[c] = "commit"
        /\ Look(conf = t.goal /\ thread = t.states,
                Goto(c, "capture", new),
                Goto(c, "undo", [t EXCEPT !.err = TRUE]))

\* restore_and_commit_running; it gives up when an identity does not match or
\* when something it did not write changed.
Undo(c) ==
    LET t == txn[c]
        possible == thread = t.states /\ conf = t.goal
    IN  /\ pc[c] = "undo"
        /\ \/ /\ possible
              /\ conf' = t.previous
              /\ Goto(c, "capture", [t EXCEPT !.wasTuned = tune])
              /\ UNCHANGED faults
           \/ /\ ~possible \/ faults < MaxFaults
              /\ faults' = IF possible THEN faults + 1 ELSE faults
              /\ Goto(c, "capture", t)
              /\ UNCHANGED conf
        /\ UNCHANGED <<tune, thread, nextPid, boot, session, calls, crashes, rogue, exits>>
-----------------------------------------------------------------------------
(* stop_all, rollback_started and close_inner: one pass from the last to   *)
(* the first kdamond                                                       *)

PassOn(c, t) ==
    Goto(c, IF t.i = 0 THEN "stop_end" ELSE "stop", [t EXCEPT !.i = IF t.i = 0 THEN 0 ELSE @ - 1])

\* stop_one, after the configuration below the kdamond was verified
StopOne(c) ==
    LET t == txn[c]
        i == t.i
        failed == [t EXCEPT !.err = TRUE]
        stopped == [t EXCEPT !.states[i] = Staged]
        possible == Verify(t) /\ On(i) /\ thread[i] = t.states[i]
        refused == ~Verify(t) \/ (On(i) /\ thread[i] # t.states[i])
    IN  /\ pc[c] = "stop"
        /\ \/ /\ possible
              /\ thread' = [thread EXCEPT ![i] = 0]
              /\ session' = [session EXCEPT ![i] = 0]
              /\ PassOn(c, stopped)
              /\ UNCHANGED faults
           \/ /\ Verify(t) /\ ~On(i)
              /\ PassOn(c, stopped)
              /\ UNCHANGED <<thread, session, faults>>
           \/ /\ refused \/ faults < MaxFaults
              /\ faults' = IF refused THEN faults ELSE faults + 1
              /\ PassOn(c, failed)
              /\ UNCHANGED <<thread, session>>
        /\ UNCHANGED <<conf, tune, nextPid, boot, calls, crashes, rogue, exits>>

Idle(t) == \A i \in K : t.states[i] = Staged

\* A stop through a receipt goes on with a new receipt.  A start that failed
\* closes: after the pass of rollback_started comes the one of Drop.
StopEnd(c) ==
    LET t == txn[c] IN
    /\ pc[c] = "stop_end"
    /\ Look(Verify(t),
            IF t.op = "stop" THEN Goto(c, "capture", t)
            ELSE IF t.again /\ ~Idle(t)
                 THEN Goto(c, "stop", [t EXCEPT !.i = N - 1, !.again = FALSE])
            ELSE IF Idle(t) THEN Goto(c, "restore", t)
            ELSE Broken(c),
            IF t.op = "stop" THEN Goto(c, "capture", [t EXCEPT !.err = TRUE])
            ELSE IF t.again THEN Goto(c, "stop", [t EXCEPT !.i = N - 1, !.again = FALSE])
            ELSE Broken(c))

\* close_inner: restore_configuration
Restore(c) ==
    /\ pc[c] = "restore"
    /\ \/ /\ AllOff
          /\ conf' = txn[c].previous
          /\ tune' = FALSE
          /\ Release(c, "failed", held[c])
          /\ UNCHANGED faults
       \/ /\ ~AllOff \/ faults < MaxFaults
          /\ faults' = IF AllOff THEN faults + 1 ELSE faults
          /\ Broken(c)
          /\ UNCHANGED <<conf, tune>>
    /\ UNCHANGED <<thread, nextPid, boot, session, calls, crashes, rogue, exits>>

-----------------------------------------------------------------------------
(* PersistentReceipt::capture and disarm_cleanup *)

\* With a receipt the hierarchy is disarmed and keeps running.  Without one
\* start_persistent closes it; the other calls leave it and say so.
CaptureStep(c) ==
    /\ pc[c] = "capture"
    /\ Look(OwnedState(txn[c]),
            Release(c, IF txn[c].err THEN "failed" ELSE "ok", Capture(txn[c])),
            IF txn[c].op = "start" THEN Unwind(c, txn[c])
            ELSE Release(c, "uncertain", held[c]))

-----------------------------------------------------------------------------
(* The environment *)

\* The process dies: no destructor runs, the kernel drops its lock, and a
\* receipt that was only in its memory is gone.
Crash(c) ==
    /\ crashes < MaxCrashes
    /\ pc[c] # "idle" \/ held[c] # NoReceipt
    /\ crashes' = crashes + 1
    /\ lock' = IF lock = c THEN Nobody ELSE lock
    /\ pc' = [pc EXCEPT ![c] = "idle"]
    /\ txn' = [txn EXCEPT ![c] = NoTxn]
    /\ held' = [held EXCEPT ![c] = NoReceipt]
    /\ result' = [result EXCEPT ![c] = "none"]
    /\ clean' = FALSE
    /\ UNCHANGED <<kernelVars, stored, calls, rogue, exits, faults>>

Reboot ==
    /\ boot < MaxBoots
    /\ boot' = boot + 1
    /\ conf' = Original
    /\ tune' = FALSE
    /\ thread' = [i \in K |-> 0]
    /\ session' = [i \in K |-> 0]
    /\ nextPid' = 1
    /\ lock' = Nobody
    /\ pc' = [c \in Controllers |-> "idle"]
    /\ txn' = [c \in Controllers |-> NoTxn]
    /\ held' = [c \in Controllers |-> NoReceipt]
    /\ result' = [c \in Controllers |-> "none"]
    /\ clean' = TRUE
    /\ UNCHANGED <<stored, budgets>>

KernelTunes ==
    /\ conf \in Tuned
    /\ ~AllOff
    /\ ~tune
    /\ tune' = TRUE
    /\ UNCHANGED <<conf, thread, nextPid, boot, session, receiptVars, callVars, budgets>>

KdamondExits(i) ==
    /\ rogue + exits < MaxOutside
    /\ exits' = exits + 1
    /\ On(i)
    /\ thread' = [thread EXCEPT ![i] = 0]
    /\ session' = [session EXCEPT ![i] = 0]
    /\ clean' = FALSE
    /\ UNCHANGED <<conf, tune, nextPid, boot, receiptVars, lock, pc, txn, result>>
    /\ UNCHANGED <<calls, crashes, rogue, faults>>

\* A controller that ignores the lock writes, starts a thread of its own or
\* ends one.
RogueActs ==
    /\ rogue + exits < MaxOutside
    /\ rogue' = rogue + 1
    /\ \/ /\ conf # Foreign
          /\ conf' = Foreign
          /\ UNCHANGED <<tune, thread, nextPid, session>>
       \/ \E i \in K :
            /\ ~On(i) /\ nextPid <= MaxPid
            /\ thread' = [thread EXCEPT ![i] = nextPid]
            /\ nextPid' = nextPid + 1
            /\ UNCHANGED <<conf, tune, session>>
       \/ \E i \in K :
            /\ On(i)
            /\ thread' = [thread EXCEPT ![i] = 0]
            /\ session' = [session EXCEPT ![i] = 0]
            /\ UNCHANGED <<conf, tune, nextPid>>
    /\ clean' = FALSE
    /\ UNCHANGED <<boot, receiptVars, lock, pc, txn, result, calls, crashes, exits, faults>>
-----------------------------------------------------------------------------
(* Specification *)

Init ==
    /\ conf = Original /\ tune = FALSE
    /\ thread = [i \in K |-> 0] /\ session = [i \in K |-> 0]
    /\ nextPid = 1 /\ boot = 1 /\ lock = Nobody
    /\ stored = {} /\ held = [c \in Controllers |-> NoReceipt]
    /\ pc = [c \in Controllers |-> "idle"] /\ txn = [c \in Controllers |-> NoTxn]
    /\ result = [c \in Controllers |-> "none"] /\ clean = TRUE
    /\ calls = 0 /\ crashes = 0 /\ rogue = 0 /\ exits = 0 /\ faults = 0

StartStep(c) == Stage(c) \/ StartCheck(c) \/ StartOn(c) \/ StartPid(c) \/ StartFinal(c)
AttachStep(c) == Attach(c) \/ AttachState(c)
ReadStep(c) == Read(c) \/ ReadValues(c) \/ ReadVerify(c)
UpdateStep(c) == UpdateWrite(c) \/ Commit(c) \/ Undo(c)
StopStep(c) == StopOne(c) \/ StopEnd(c) \/ Restore(c)
Proceed(c) == \/ StartStep(c) \/ AttachStep(c) \/ ReadStep(c)
              \/ UpdateStep(c) \/ StopStep(c) \/ CaptureStep(c)

CallStep(c) == \/ StartPersistent(c) \/ Update(c) \/ Stop(c) \/ Configuration(c)
               \/ AttachHandle(c) \/ Store(c) \/ TakeStored(c)

Environment == Reboot \/ KernelTunes \/ RogueActs \/ \E i \in K : KdamondExits(i)

Next == \/ \E c \in Controllers : CallStep(c) \/ Proceed(c) \/ Crash(c)
        \/ Environment

\* A process that did not die goes on with the call it is in.
Spec == Init /\ [][Next]_vars /\ \A c \in Controllers : WF_vars(Proceed(c))
-----------------------------------------------------------------------------
(* The promise: what whoever takes the lock finds *)

Holder == CHOOSE c \in Controllers : lock = c

\* A call under way that already changed something, and what was there before.
Changing ==
    /\ lock # Nobody
    /\ LET op == txn[Holder].op
           l == pc[Holder]
       IN  \/ op = "start" /\ l # "stage"
           \/ op = "update" /\ l \in {"commit", "undo", "capture"}
           \/ op = "stop" /\ l \in {"stop", "stop_end", "capture"}

SeenRunning ==
    IF ~clean THEN {}
    ELSE IF ~Changing THEN {i \in K : On(i)}
    ELSE IF txn[Holder].op = "start" THEN {}
    ELSE {i \in K : held[Holder].ids[i] # Staged}

SeenConf ==
    IF ~clean THEN Original
    ELSE IF ~Changing THEN conf
    ELSE IF txn[Holder].op = "start" THEN txn[Holder].previous
    ELSE held[Holder].conf

Lifecycle == INSTANCE HierarchyLifecycle
                WITH Kdamonds <- K, running <- SeenRunning, conf <- SeenConf,
                     known <- clean

-----------------------------------------------------------------------------
(* Properties *)

\* start_persistent, update and stop are atomic to everyone who respects the
\* lock; a failed one changes nothing unless it says so.
ImplementsLifecycle == Lifecycle!Spec

\* Every variable has its type; locals exist only during a call.
TypeOK ==
    /\ conf \in Contents /\ tune \in BOOLEAN /\ boot \in 1 .. MaxBoots
    /\ thread \in [K -> 0 .. MaxPid] /\ nextPid \in 1 .. MaxPid + 1
    /\ lock \in Controllers \cup {Nobody}
    /\ stored \subseteq Receipts /\ held \in [Controllers -> Receipts \cup {NoReceipt}]
    /\ \A c \in Controllers : pc[c] = "idle" <=> txn[c] = NoTxn

Quiet == \A c \in Controllers : pc[c] = "idle"

\* No hierarchy is left running without a receipt that still attaches to it,
\* unless a process died, somebody interfered, a kdamond ended by itself or a
\* call told its caller so (PersistentStateUncertain, Rollback).
OrphanReported ==
    ~AllOff /\ Quiet /\ clean =>
        \E r \in stored \cup {held[c] : c \in Controllers} : Attaches(r)

Stops(i) == On(i) /\ thread'[i] = 0

Recorded(i) ==
    \E r \in stored \cup {held[c] : c \in Controllers} :
        r # NoReceipt /\ r.boot = boot /\ r.ids[i] = thread[i]

\* A controller ends only threads of the session its receipt descends from (or
\* that its own start_persistent began): never one that merely got a recorded
\* pid in a later boot.  (A kdamond that ends and is replaced between the "on"
\* write and the pid read is beyond what the code can tell.)  And a thread named
\* by a receipt that a call returned is ended by a stop, by somebody else or by
\* a reboot; never by a start, an update or a read that returns, fails or dies.
ThreadsEndByRight ==
    [][\A i \in K : Stops(i) =>
        /\ \A c \in Controllers :
              pc[c] = "stop" /\ txn'[c] # txn[c] /\ boot' = boot /\ rogue + exits <= 1
              => session[i] = txn[c].session
        /\ Recorded(i) =>
              \/ rogue' # rogue \/ exits' # exits \/ boot' # boot
              \/ \E c \in Controllers : pc[c] = "stop" /\ txn[c].op = "stop"]_vars

\* A configuration that a read returns is the one its receipt records, even
\* when somebody interfered once while it was read.
ReadTrue ==
    [][\A c \in Controllers :
        pc[c] = "read_verify" /\ result'[c] = "ok" /\ rogue <= 1 =>
            txn[c].seen = held[c].conf]_vars

=============================================================================
