# A TLA+ development of damon-rs

damon-rs is a Rust library over the Linux DAMON sysfs interface. This directory
holds TLA+ modules that model its ownership and lifecycle logic, TLC
configurations that check them on small instances, and TLAPS proofs that hold
for every size.

    tlc -workers 2 -config MCManagedHierarchy.cfg MCManagedHierarchy
    tlapm ManagedHierarchyProofs.tla

## 1. The system

The library writes a *configuration* for a number of *kdamonds* below
`/sys/kernel/mm/damon/admin/kdamonds`, starts a kernel thread for each, reads
results, and puts the preceding configuration back. The interface has no
ownership: any process with the privilege may write the same files at the same
time, kernel threads end when their targets do, and each file is read or
written on its own. An advisory lock keeps cooperating processes apart; against
everybody else the library has only fingerprints and kernel-thread pids, which
it compares before it acts. What can go wrong is therefore almost always
*between two accesses*.

| component | state | operations | hard parts | what makes it correct |
|---|---|---|---|---|
| kernel admin interface (not in the repository; `sysfs/admin.rs`, `sysfs/test_backend`) | `nr_kdamonds`, one directory of writable leaves per kdamond, `state`, `pid` | resize (refused while a kdamond runs), write a leaf, `on`, `off`, `commit`, update commands; threads end by themselves; auto-tuning rewrites intervals | changes under the reader | (environment) |
| scoped session `ManagedHierarchy` (`monitor/hierarchy.rs`, `monitor/session.rs`, `monitor/ownership.rs`) | per-kdamond `KdamondSessionState`, the staged fingerprint, the snapshot to restore, `owns_hierarchy` | `managed_hierarchy`, `start_all`, `stop_all`, `close`, `Drop`, `update_*`, quota goals | check-then-act windows, rollback that itself fails, second pass of `Drop` after a failed `close` | a started thread is never forgotten; only own threads are stopped; failures are undone or reported as `Error::Rollback`; restoration does not wipe a stranger's configuration |
| configuration snapshots (`sysfs/ownership.rs`) | path -> bytes of every writable leaf | capture, compare (volatile leaves apart), restore by depth | auto-tuned leaves, retries over partial restorations | restoring a captured hierarchy gives the same hierarchy |
| staging (`sysfs/configuration/staging.rs`) | the observed configuration it diffs against | write only what differs, verify | torn and repeated attempts | what was verified is what was asked |
| running update and quota goals (`monitor/hierarchy.rs`) | the journal of dirtied paths | stage, commit, verify, roll back | another controller between staging, commit and rollback; several kdamonds partly committed | old or new configuration, never a mixture, unless `Error::Rollback` says so |
| runtime commands and pause (`monitor/runtime.rs`) | none of its own | verified batches of commands, pause with commit | identity before and after each command | no result of a stranger's thread is reported |
| session lock (`monitor/ownership.rs`) | one advisory file lock | acquire without blocking, release at drop | crash of the holder | at most one cooperating session |
| persistent receipts (`monitor/persistent.rs`) | bytes held by the caller: boot id, pids, fingerprint | `start_persistent`, `attach`, `update`, `stop` | process death at any step, pid reuse, stale copies of a receipt | an attached hierarchy is the one the receipt names |
| monitors and on-demand snapshots (`monitor/workflow.rs`) | worker thread, channel, installed query scheme | `materialize_snapshot`, `SnapshotRequest` polling, waiting, finishing, dropping | deadline against a late answer, worker failing to start | the query scheme is always removed; the monitor comes back |
| capability discovery (`sysfs/capabilities`) | a temporary hierarchy | probe, restore | failing half-way | the hierarchy found is put back |
| configuration model, validation, attributes, parsing (`sysfs/configuration`, `sysfs/abi.rs`, `config.rs`) | none | pure | boundaries | no running kernel rejects what validation accepts |
| regions (`region.rs`) | none | unit conversion, completeness | overflow | exact or an error |

A `ManagedHierarchy` is the centre: monitors, exclusive sessions and attached
hierarchies are wrappers around it, the lock is taken by `Damon` before it is
built, and all it shares with the rest of the world is sysfs.

## 2. Modules

### DamonSysfs: the kernel's side

`hier[i]` is the writable configuration of kdamond directory `i`, or `Absent`;
directories are numbered without gaps. Everything below one directory is one
value, because the properties here only ask whether it is the configuration
somebody staged, a half-written one (`Mixed`), the one a fresh directory has
(`Default`) or somebody else's. Two leaves are kept apart in `tune`: the
intervals the kernel itself rewrites while auto-tuning is on. `thread[i]` is
the pid of the running kernel thread or 0, and `nextPid` hands pids out once
(the kernel could reuse a pid; the session's own comparison cannot tell, so
scoped sessions are modelled without reuse). A hierarchy that is found has no more
kdamonds than are requested. Resizing rebuilds all directories
and is refused while a kdamond runs; `on` needs a stopped kdamond with a
runnable configuration.

### ManagedHierarchy: one scoped session

`states`, `staged`, `previous` and `owns` are the fields of the struct
(`KdamondSessionState::Running(pid)` is the pid, `Staged` 0,
`UnidentifiedRunning` -1). The caller's thread is the program counter `pc`, the
loop cursor `idx`, the `first_error` flag `err` and the call `op`. One action
is one sysfs access with the bookkeeping around it, so the rest of the world
acts between any two accesses. `Fail` says where an error of each step leads;
conditions the code checks and accesses that fail by themselves (`IoError`)
share it.

| code | actions |
|---|---|
| `Damon::managed_hierarchy`, `stage_validated_configuration_locked` | `Open`, `OpenCapture`, `OpenVerify`, `OpenStopped`, `OpenNew` |
| `ensure_hierarchy_stopped` | `EnsureStopped` at its six call sites |
| `stage_and_verify_configuration` | `StageCount`, `StageWrite`, `StageCapture`, `StageVerify` |
| `restore_configuration`, `ConfigurationSnapshot::restore_except` | `RestoreCount`, `RestoreShape`, `RestoreWrite`, `RestoreCheck`, `RestoreMatch` |
| `start_all`, `start_one`, `rollback_started` | `StartAll`, `StartVerify`, `StartOff`, `StartCheck`, `StartOn`, `StartPid`, `StartIdentity`, `StartConfig`, `StartFinal`, `RollbackCount`, `RollbackConfig` |
| `stop_all`, `stop_one` | `StopAll`, `StopBegin`, `StopCount`, `StopConfig`, `StopOneState`, `StopOnePid`, `StopOneOff`, `StopOneBack`, `StopFinal` |
| `close`, `close_inner`, `Drop` | `Close`, `Drop`, `CloseVerify`, `CloseMatch`, then `StopAll`'s and the restoration's steps |
| `retry_busy`, failing or torn accesses | `TransientBusy`, `IoError`, `TornWrite` |
| the kernel | `KdamondExits`, `KernelTunes` |
| a controller that ignores the lock | `RogueStarts`, `RogueStops`, `RogueWrites`, `RogueResizes` |

What is abstracted:

- A scan of several files that only checks (a fingerprint comparison) is one
  step. Foreign acts on different kdamonds commute, so each kdamond's own check
  can be moved to one instant; a resize in the middle of a scan is the
  exception, and is seen by the scan or falls before or after it.
- The leaves of a directory are restored by depth: first the counts that create
  sub-directories, for all kdamonds, and then the values (`RestoreShape`,
  `RestoreWrite`).
- Two calls of `ensure_hierarchy_stopped` in a row, before and inside the
  restoration's retried closure, are one.
- The typed read of the previous hierarchy and the snapshot before it are one step
  (`OpenVerify`), and so are the two reads after a staging (`StageCapture`;
  `ReplaceStaged` has them apart).
- A previous hierarchy the typed reader cannot parse is staged like one that
  differs everywhere.
- `start_all` writes `on` with retries on EBUSY; the model lets it fail or
  succeed, as the number of retries decides.

### DamonLeaves: the interface leaf by leaf

The transactions that change existing kdamonds write single files, and what
they promise is about single files. So here a *leaf* is a number, and numbers
follow the order in which a directory is staged and restored, a count before
the leaves below it. `leaf` is what the files hold, `active` what the kernel
threads work with since their start or their last commit, `thread` and
`nextPid` as above. Writing a count (`nr_*`) rebuilds the directory it counts
(`Written`: leaves come to be with the value `Fresh` or vanish), which is what
makes staging and rollback delicate. A leaf is known to `DamonConfig`
(`Typed`) or only found in the directory; the intervals the kernel tunes
(`Tuned`) are the volatile paths of the ownership record.

The module also holds the pure parts the transactions are built from:

| code | operator |
|---|---|
| `stage_validated_configuration_from`, `ensure_count`, `needs_stage` | `ToStage` (which leaves a staging accesses), `Resized` |
| `without_obsolete_targets` | `Cleaned` |
| `matches_current_except` and its relatives | `MatchesExcept` |
| `paths_affected_by_writes` | `AffectedBy` |
| `restore_paths_except` | `ToRestore`, `MustRestore`, `RestoredMatches` |

Directories form a tree of any depth (`Under`, `Made`, `TreeAssumption`): below a
count lie the leaves of its children and the counts of their own directories,
and a rebuilt directory starts with those counts at zero. `Shaped` says that
every directory has exactly the children its count lists, of the files, of a
snapshot or of a typed configuration; requests and hierarchies are shaped, as a
`Vec` and its length are. What `without_obsolete_targets` drops is one leaf per
target, and the set of auto-tuned intervals does not change during a call.

### UpdateTransaction: running updates and quota goals

`states` and `staged` are the fields of the session, `txn` the locals of the
call: the request (`goal`), what was read before (`from`, `before`), the write
journal, the new snapshot (`captured`), the loop cursors. `update_configuration`
and `update_scheme_quota_goals` have the same skeleton and share the actions;
`txn.kind` tells where they differ (what is compared, what the commit command
hands over, whether capture or comparison comes first in the rollback).

| code | actions |
|---|---|
| ownership check, rollback capture, request checks | `VerifyOwned`, `CaptureBefore`, `ReadTyped`, `Recheck`, `VerifyRequest` |
| `stage_and_commit_running`, `stage_and_commit_quota_goals` | `StartStaging`, `StageLeaf`, `StagingDone`, `VerifyStagedIdentities`, `VerifyUnchanged`, `CaptureStaged`, `CompareTyped`, `ValuesMatch`, `StartCommits` |
| the commit loop, obsolete-target cleanup, adoption | `VerifyBeforeCommit`, `Commit`, `VerifyAfterCommit`, `Adopt` |
| `restore_and_commit_*`, `verify_rollback_boundary`, `restore_written_*` | `VerifyBeforeRestore`, `VerifyBoundary`, `RestoreLeaf`, `RestoreDone`, `VerifyRestoredIdentities`, `VerifyRestored`, `Recapture`, `VerifyRecommitted` |
| `retry_busy`, failing accesses | `TransientBusy`, `IoError` |

A write or command is one step, a scan that only reads is one step. The number
of kdamond directories is constant: the kernel refuses to change it while a
kdamond runs. The kernel may store another value than the one written
(`Misstored`), which the read-back has to notice.

Three fields of `txn` are history for the properties: `asked` and `observed`, the
request and what was read before staging, which stay when the second staging
(without the dropped targets) replaces `goal` and `from`; and `began`, the files
and what ran when the call began. `Reach`, what the call has a reason to touch,
is made of the first two.

### PauseContext: pause and resume

`set_context_paused` with its two closures. It differs from an update in that
only one file is written, nothing is retried but the commit, the owned
fingerprint is *refreshed* (one path read again, everything compared), and the
rollback checks identities only at its end. `strayed` is history
for the properties, `lost` the error that led to the rollback.

### ReplaceStaged: another configuration before the start

`replace_staged_configuration`, which the monitors call up to twice while they
find out whether the kernel has the target filter. Its rollback is a staging
of the preceding typed configuration, without an observed one, so it writes
every leaf.

### HierarchyLifecycle and PersistentReceipts: sessions that outlive a process

`HierarchyLifecycle` is the abstract specification: a hierarchy starts, is
updated and stops as a whole, each in one step; a call that fails changes
nothing, or is a `Disturb`, after which nothing is promised until the machine
boots again. `PersistentReceipts` is the code: several controllers, each with a
program counter and the locals of its call, take the session lock and run
`start_persistent`, or attach with a receipt and read, update or stop. Every
access is a step of its own; a receipt (boot, pids, configuration) is a value
the caller keeps, copies and hands to another controller. `Crash` ends a
process anywhere and frees its lock; `Reboot` ends all of them, empties the
kernel and hands out the same pids again, so here a pid may name two threads.
The refinement mapping (`Lifecycle`) takes the *threads that run* and the
configuration while no call holds the lock, and what both were before the call
while one does (`SeenConf` and the lines above it); a call maps to one abstract
step at its release of the lock. A crash, a rogue act and an error that says
`PersistentStateUncertain` or `Rollback` map to `Disturb`.

### ReceiptCodec: the bytes of a receipt

`to_bytes` and `from_bytes` over bytes, with every fixed width kept and a name
shortened to one byte. The decoder goes field by field as the code does, its
bound on counts included, over encodings and over encodings with one damaged or
missing byte.

### RuntimeBatches

A batch verifies the files, the thread, runs the caller's closure (any
operations, in any order, going on after a failure or not) and verifies again
after each operation and at the end. Commands publish values in files that stay
when the thread ends. `refreshed` and `strayed` are history. `counted` lasts
for a batch, as if the closure kept its handle of a kdamond; a new handle would read
the count again.

### SnapshotMonitor: monitors and on-demand snapshots

`start_workflow` up to its fallbacks (no target filter, no offline commit), the
query schemes that are installed, filled and taken away, the worker thread with
its panic, and the request in the caller's hand. The session below is used
through what the modules above show of it: an operation succeeds, fails without
a change, or fails twice and leaves the state unknown. A filter the kernel refuses is
a failure of its own: one failing access in the undoing leaves the state unknown.
`Restores` and `Fails` are the outcomes of one pass of `close_inner`, where a thread
that ends between the reads of its state and its pid is an error. `Monitor::stop` and
a start that fails call `close`, which consumes the session, so that its `Drop` makes
a second pass when the first failed (`Close`, `CloseAgain`). A monitor that is dropped
directly, with a request or by an unwinding worker, has one pass, whose error nobody
sees (`DropSession`). The model follows one monitor: no start comes after one that was
closed, dropped, or torn in its staging. The caller and the worker are two processes; the
channel holds the monitor and its answer.

### Capability discovery

`CapabilityRules` holds what each feature takes to be called supported,
unsupported, unverified or hidden behind a child that is not staged, over the
set of paths a kernel shows; `CapabilitySupport` reads the schemes of a staged
context one by one. `CapabilityProbe` is the active probe: a stopped hierarchy
is replaced by representative nodes, values are tried and undone by one of three
methods, and what was there is put back. The other controller writes counts, which
makes what is below them anew, values under trial, or anything else, and starts the
kdamond. A write of a controller without the lock between the last check and the
restoration is overwritten; the interface offers no way to prevent it. After an
error the probe restores what it captured without looking (`session.rs:233`), so that
whatever another controller wrote by then is lost as well: `KeepsForeign` speaks only
of what is written after the fingerprint of a probe with an answer. A write that
leaves what was there, or what was captured, is none. The last reads, of passive
capabilities, operations and fingerprint, are one step (`Capture`).

### Regions

`InitialRegions` makes regions from bytes or units, validates them with the
context, and lets the kernel align them in its own words. `TriedRegions` reads a
materialised result file by file while another command rebuilds it.

### ConfigurationRules and ConfigurationUpdates

`ConfigurationRules` is validation, as predicates over records with the fields of
`ContextConfig` and one `SchemeConfig`. `ConfigurationUpdates` is a caller that
edits, starts, updates and reloads, against the kernel's rule that targets are
committed by index.

### SchemeStaging

One scheme between `SchemeConfig` and its files: the writes of
`stage_configuration_from` as a sequence that may end anywhere, with what a
kernel lacks, the three filter directories, leftovers of earlier stagings, and
the reader. Leaves that behave alike are one.

### Instances and proofs

`MC*` modules give the constants values. A `*Proofs` module holds the theorems of
the module it is named after. Three of the small models have theorems too. Their
`*Part` modules declare constants and variables, take the model with `INSTANCE`
(`ConfigurationUpdates` as `Updates`, `InitialRegions` as `Initial`,
`CapabilitySupport` as `Scan`) and name what is assumed and promised; both
`MCSmallModels` and a `*Proofs` module extend them. A line of dashes with a heading
begins each argument.

## 3. What the runs check

**hierarchy** (`MCManagedHierarchy.cfg`): two kdamonds, two user calls before
the close, two acts of the rogue, one failing access, one kdamond ending by
itself, four hierarchies to start from (none, fewer directories, the requested
one, another one), kdamond 0 auto-tuned. Two acts are what the ABA hazards need
(stop a thread and start another in its place); two kdamonds are what the
rollback of a partial start needs. Properties:

- `OwnThreadTracked`: a thread the session started is recorded while it runs.
- `StopsOnlyItsOwn`: the session never turns off a thread it did not start,
  outside the two windows the interface cannot close (`on` to pid read, pid
  read to `off`). Those are exactly the windows for which the lock exists.
- `FailedStartUndone`: a failed `start_all` left nothing running, unless it
  says `Error::Rollback`.
- `ReleasedLeavesNoThread`: a session that gave the hierarchy up has no thread
  left, whatever happened.
- `StopIsolation`: without failing accesses, whatever of the session's threads
  survives a stop, a rollback, `close` or `Drop` is on a kdamond somebody else
  acted on.
- `HierarchyGivenBack`: a failed `managed_hierarchy` leaves what it found, and a
  single failing or torn access is always undone (`FailedOpenUndone`); in a quiet
  world a session ends with everything off and the preceding hierarchy back, even
  when a kdamond ends in the middle of `close`, which the second pass in `Drop`
  repairs (`SessionUndone`).
- `RestoresOnlyItsOwn`: what a closing restoration wipes is the session's own
  work, unless the change came after the last check.

**update** (`MCUpdateTransaction.cfg`): kdamond 0 with a count of at most two
children, an unknown attribute below the first, and a plain value; kdamond 1
with a plain value, an auto-tuned interval and an unknown attribute, started or
only staged. Five requests: one child more, new values in both kdamonds
(committed in the order 1, 0), the only child marked obsolete, an update of
kdamond 1 that would also change kdamond 0, and one of two children marked
obsolete; and three requests for the quota goals of one scheme (one changed, one
more, none). Two foreign acts, one failing, repeated or misstored access, one
kdamond ending by itself, one tuned interval. The rogue writes one leaf of each
role: a count, a leaf under it, an unknown leaf, a requested and an unrequested
plain value.

- `UpdateAtomic`: undisturbed, an update happens as a whole or not at all, in
  the files *and* in what the threads run, unknown attributes included; and one
  failing access, or one tuned interval, never ends in `Error::Rollback`, which
  needs the journal to cover what lies below a count. What the threads run is
  compared where they ran the files before (`InStep`): after an undoing that failed they
  need not, and a later call that fails does not repair that.
- `OkReachedOwnThreads`: success means every commit was carried out by the
  session's own thread, although pid comparison and command are separate.
- `WritesOnlyRequested`: neither staging nor rollback changes a file the
  request does not reach, so a stranger's change survives a rollback.
- `UpdateAdoptsOwn`: a stranger's value of a known attribute does not
  become owned by a whole update (for quota goals see below). Two acts are within it; with three (write, undo, write again,
  each between two reads) no comparison of values can tell.

**pause** (`MCPauseContext.cfg`): two calls, two foreign acts, two failing
accesses, one exit, one tuned interval; the second call starts from whatever
the first left, a failed rollback included.

- `PauseAtomic`, `OkReachedOwnThread`: as above, over file,
  running state and owned fingerprint.
- `OkRunsWhatIsOwned`: the commit takes over every file of the kdamond; a single
  foreign write among them is never run and reported as success.

**replace_staged** (`MCReplaceStaged.cfg`): two calls, two foreign acts, two
faults. `ReplaceAtomic`: known attributes are replaced or back.
`OwnsWhatItStaged`: what the kernel stored differently or a stranger wrote does
not become owned (again up to two deviations).

**receipts** (`MCPersistentReceipts.cfg`): two controllers, two kdamonds, two
configurations of which one is auto-tuned, three calls, two boots, one crash,
one act of a stranger or one kdamond that ends by itself, one failing access (a
fault that fails a staging may last and fail its undoing), pids up to 4 (the
second boot hands out the pids of the first). Two calls are needed to use a
receipt, three to use a stale one; the controllers are symmetric.

- `ImplementsLifecycle`: the refinement above.
- `OrphanReported`: no hierarchy is left running without a receipt that still
  attaches to it, unless a process died, somebody interfered, or a call said so.
- `ThreadsEndByRight`: a controller ends only threads its receipt descends from,
  never one that got a recorded pid in a later boot; and a thread a returned
  receipt names is ended by a stop, a stranger or a reboot, never by a start, an
  update or a read, whether it returns, fails or dies.
- `ReadTrue`: a configuration that is returned is the recorded one.

**batches** (`MCRuntimeBatches.cfg`): two kdamonds, one batch of up to two
operations, two rogue acts, one exit, one fault. `FreshValues`: a value a
successful batch refreshed was published by the session's own thread for that
command or a later one. `StrayReported`: when a command reached a stranger's
thread the caller learns it, whatever the closure made of the error.
`ActsOnOwnFiles`: to read or hand over foreign files takes a controller that
writes *and* puts back. `CallsEnd`.

**snapshots** (`MCSnapshotMonitor.cfg`): one custom scheme, two targets, five
calls, two faults, one exit, one rogue act, one panic. `NothingLeft`: no worker
and no open session outlives a request unseen (`NothingHidden`), and unless another
controller wrote (`RestoredAtEnd`), a monitor that was dropped has put back what was
there when no access failed and no thread ended; one that was closed has also when the
thread ended meanwhile, and after one failing access it has stopped the thread and
left at worst a hierarchy torn by the failing restoration. A drop promises nothing
once an access failed, as the documentation's "best effort" says; the thread may then
run on. `InstalledIsTrue`: the monitor knows whether its query is part of what the
session owns. `ReturnedSnapshots`: each snapshot names
the target whose filter the kernel applied. `SnapshotsAreSettled`: the query is
gone when snapshots are returned, by a call that returns other ones than the last did.
`CallsReturn`.

**capability_probe** (`MCCapabilityProbe.cfg`): three kernels; four trials, one of
two values at two paths undone by new children, one so undone at a path below a probe,
one whose value is read and written again, and the operations; two faults, two rogue
acts at any time. `LeavesHierarchy`: with an answer or a plain error what was there is
back unless another controller wrote (`PreviousIsBack`), and what one changed after
the capture is not written over when there is an answer (`KeepsForeign`).
`ReportsKernel`: whoever writes, support is never reported without a kernel that has
the paths and took the value, or lists it (`NothingInvented`); if nobody wrote between
the staging and the capture, no trial outlives its question (`TrialsUndone`) and no
support is denied or left to be staged (`NothingDenied`). A controller that takes a
child away while the probe asks does make the kernel look poorer, with success: the
fingerprint is taken afterwards.

**small_models** (`MCSmallModels.cfg`): the six models without a second process
of their own share one run. A behaviour belongs to one of them, chosen at the
start; the variables of the others stay idle. Each property names the parts that
the module defines:

| model | instance | property: parts |
|---|---|---|
| `ConfigurationUpdates` | words of 15 and hit counts of 3 in place of `u32` and `u8`; three edits, each from values on both sides of a limit; up to three targets, of which the last of three may be marked | `UpdatesStayRunnable`: what a session is left with when markers are dropped could be started afresh (`UpdatesStayRunnable`), session and kernel number their targets alike (`IndexesAgree`). `SumsFitTheKernel`: the kernel's own arithmetic does not wrap (`HitsFit`, `DestinationsCanBeDrawn`). `MarkersRemoveTheNamed`: a marker never removes another process, old updates sent again included |
| `SchemeStaging` | three stagings, one torn, of twenty-five requests on five kernels | `StagingKeepsMeaning`: what was staged is read back whatever lay in the directories (`StagedReadsBack`), filters keep their order on every kernel (`AdaptiveKeepsOrder`), a configuration that was read makes the same scheme of fresh files (`ReadRestages`) |
| `InitialRegions` | every one or two regions in twelve words with a page of four; units 1 to 5: below, at and above a page, dividing it and not | `RegionsStayApart`: regions cover the bytes they were made for (`CoversTheBytes`) and the kernel's alignment keeps them apart (`StayApartInKernel`) |
| `ReceiptCodec` | hierarchies of one, two, eight and nine kdamonds (eight is where a length of eight bytes matters); damage to a receipt that has every kind of field | `ReceiptsDecode`: `AcceptsOnlyEncodings`, `VolatileAreTheTuned`, `FewKdamondsRoundTrip` |
| `CapabilitySupport` | every combination of paths in four groups, up to two schemes | `ScanTellsTheKernel`: `AbsenceIsReal`, `EvidenceIsReal`, `StagingWouldTell` |
| `TriedRegions` | words of two bits so that sums overflow, up to three regions with gaps in their numbers, two commands during a read | `SnapshotsAddUp`: `TotalIsTheSum`, `CalmReadsAreTrue`, `BytesAddUp` |

Definitions that end in `Mutant` are the bugs the properties were tried against;
PROJECT.json names one for each property, and where a property has several parts
the modules hold one for each part.

Except for the session, every cfg says `CHECK_DEADLOCK FALSE`: calls are bounded,
and a system that is not called any more rests. That a call in progress does not
get stuck is what `CallsReturn` and `CallsEnd` say.

### Where code and documentation disagree

Three runs show a behaviour the documentation or a test excludes; PROJECT.json
quotes the lines.

- **goals_adopt**: in a quota-goal update, what is no goal is compared with the
  owned fingerprint *before* the new snapshot; a change in between is adopted.
  A full update compares everything after the snapshot.
- **pause_resume**: after a pause whose rollback commit failed, `resume` finds
  the file already right and returns success while the thread stays paused.
- **codec_round_trip**: a receipt of nine or more kdamonds of which none runs is
  written by `to_bytes` and refused by `from_bytes`.

Other disagreements met while modelling, without a run:

- `values_match_current` ignores no path, so an interval tuned between the
  snapshot and its comparison makes an update fail and roll back, although tuned
  intervals are documented as volatile. The test for it tunes during the staging
  only.
- The rollback of a pause commits on a thread that the operation has just found
  not to be its own.
- The rollback of a staged replacement restores the typed attributes only;
  unknown ones under a rebuilt count are lost and the result becomes owned.
  (Closing the session still restores the hierarchy it found.)
- `AttachedHierarchy::stop` is documented to stop every kdamond that still matches
  its receipt; once one has ended, attaching fails and the others are left
  running.
- The ends of physical regions are checked for scaling before they are aligned,
  and the aligned end may no longer scale to a byte address.

Smaller observations: when a selected kdamond ends by itself in
the middle of an update, the rollback gives up at its first identity check with
nothing restored; an update adopts a foreign change of an *unknown* attribute
made while it stages; a foreign flip of the pause file between the observation
and the refresh is adopted by a pause. Validation accepts a quota goal with a
node or path its metric does not read, a disabled one without the node its
metric reads, and a filter of an unknown type without payload; none of these is
read back as it was staged, so a session refuses them after staging. An adaptive
filter that already lies in the unified directory of a kernel with split ones
stays there.

### Fairness

The liveness properties `CallsEnd` (runtime batches) and `CallsReturn`
(monitors) rest on `WF_vars(Proceed)`: the caller's thread goes on while a call is in
progress. The library never blocks inside a call of a session (the lock is not
waited for, there are no channels, `retry_busy` is bounded), so the scheduler's
fairness to that thread is all that is assumed; nothing is assumed of the
environment. In `PersistentReceipts` the same holds of each controller that does
not crash. `SnapshotMonitor` has two threads and a channel: fairness is stated
for each step of the worker and of the caller, and that the kernel returns from a
command is part of it, as no write in the library has a deadline of its own.

Two limits the model makes visible and the documentation calls best effort: a
direct `Drop` in which a kdamond ends between the state and the pid read, or one
access fails, leaves the hierarchy unrestored (a `close` gets the second pass), and
a restoration torn during `close` makes the second pass give up, since the hierarchy
no longer matches what was staged. `SnapshotMonitor` has both.

## 4. What is proved

TLAPS checks the theorems below for every value of the constants: any number of
kdamonds, controllers, schemes, targets, calls, faults, exits and foreign acts.

| module | theorem | property |
|---|---|---|
| `ManagedHierarchyProofs` | `TypeCorrect` | `TypeOK` |
| | `SessionInvariant` | the inductive invariant |
| | `ThreadsTracked` | `OwnThreadTracked` |
| | `StartUndone` | `FailedStartUndone` |
| | `ReleaseLeavesNone` | `ReleasedLeavesNoThread` |
| | `StopsOwn` | `StopsOnlyItsOwn` |
| | `StopsAreIsolated` | `StopIsolation` |
| | `RestoresOwn` | `RestoresOnlyItsOwn` |
| | `HierarchyIsGivenBack` | `HierarchyGivenBack` |
| `UpdateTransactionProofs` | `UpdateTyped` | `TypeOK` of `UpdateTransaction` |
| | `UpdateOwnThreads` | `OkReachedOwnThreads` |
| | `UpdateWritesOnlyRequested` | `WritesOnlyRequested` |
| | `UpdateAtomicity` | `UpdateAtomic` |
| | `UpdateAdoptsItsOwn` | `UpdateAdoptsOwn` |
| | `UpdatesKeepRunnable` | `UpdatesStayRunnable` and `IndexesAgree` of `ConfigurationUpdates` |
| | `MarkersRemoveNamed` | `MarkersRemoveTheNamed` of `ConfigurationUpdates` |
| `ReplaceStagedProofs` | `ReplaceTyped` | `TypeOK` of `ReplaceStaged` |
| | `ReplaceIsAtomic` | `ReplaceAtomic` |
| | `ReplaceOwnsStaged` | `OwnsWhatItStaged` |
| `PersistentReceiptsProofs` | `CallsExclusive` | the inductive invariant |
| | `PersistentIsAtomic` | `ImplementsLifecycle`: the refinement of `HierarchyLifecycle` |
| | `ReadsAreTrue` | `ReadTrue` |
| | `NoOrphans` | `OrphanReported` |
| | `StopsByRight` | `ThreadsEndByRight` |
| `PauseContextProofs` | `PauseTyped` | `TypeOK` of `PauseContext` |
| | `PauseOwnThread` | `OkReachedOwnThread` |
| | `PauseRunsOwned` | `OkRunsWhatIsOwned` |
| | `PauseIsAtomic` | `PauseAtomic` |
| `RuntimeBatchesProofs` | `BatchesKeepInv` | the inductive invariant |
| | `RefreshedIsFresh` | `FreshValues` |
| | `StraysAreReported` | `StrayReported` |
| | `ActsOnStaged` | `ActsOnOwnFiles` |
| `SnapshotMonitorProofs` | `MonitorsKeepInv` | the inductive invariant |
| | `NothingIsLeft` | `NothingLeft` |
| | `InstalledStaysTrue` | `InstalledIsTrue` |
| | `SnapshotsNameTargets` | `ReturnedSnapshots` |
| | `SettledBeforeReturn` | `SnapshotsAreSettled` |
| | `InitialRegionsStayApart` | `RegionsStayApart` of `InitialRegions` |
| `CapabilityProbeProofs` | `ProbeKeepsInv` | the inductive invariant |
| | `ProbeLeavesHierarchy` | `LeavesHierarchy` |
| | `ProbeReportsKernel` | `ReportsKernel` |
| | `ScanIsTrue` | `ScanTellsTheKernel` of `CapabilitySupport` |

### Assumptions

Each is named and stated where its constants are declared; every run evaluates
those of its module.

- There is at least one kdamond (at least one target for a monitor), bounds are
  naturals, and the values that stand for a missing, a fresh or a half-written
  file are what they say.
- Session: the requested configuration is one the kernel starts with, and a
  hierarchy that is found has its directories numbered without gaps.
- Leaves: a count is no interval the kernel tunes. Directories form a tree: every
  leaf below a count has an innermost one, what lies below a count comes after it
  in staging order and belongs to the same kdamond, and a rebuilt directory has
  its own files and no grandchildren (`TreeAssumption`).
- Updates and staged replacements: requests and the hierarchies found are
  `Shaped`, an update names every typed leaf, also once marked targets are dropped
  from it, and a quota-goal call names leaves below the goals directory of one
  scheme (`RequestsAssumption`, `GoalsAssumption`, `InitialAssumption`).
- Pause: pause files are known, neither tuned nor counts, and no kdamond has two
  of them. DAMON runs one context per kdamond, and the library refuses to start
  more (`src/src/sysfs/configuration/model/hierarchy.rs:46`).
- Receipts: nobody is no controller; the original and a foreign configuration are
  none that is requested.
- Probe: a filter of a probe appears with the count of such filters
  (`KernelsAssumption`); no value that is tried is the default or another
  controller's; trials undone by new children are at files of filters, the others
  have one path; the trials of the operation set name only that file, and no other
  trial tries its values (`JobsAssumption`).
- Capability scan: a filter of a probe appears with the count of such filters, and
  the number of schemes is bounded by a natural (`ScannedAssumption`).
- Regions: the largest word is a natural, page size and address units are naturals
  other than zero (`SizesAssumption`; `AddressUnit::new` refuses zero).
- Configurations a caller sends: drafts have the fields of a context, and their
  targets are lists of records with a pid and two flags (`TypedDrafts`), which is
  what the types of the library say. Every other field is arbitrary.

### The arguments

None of the properties is inductive by itself.

**The session: whose threads run.** `OwnThreadTracked` could be broken by a
thread that gets a recorded pid again, or by a step of `managed_hierarchy` on a
running session; so `PidInv` (pids in use and pids of the session are below
`nextPid`) and `OpInv` (which call each step belongs to, and that only a session
that owns the hierarchy starts and stops) come first. `LoopInv` says how far the
reverse loops have got: behind the cursor everything is staged or an error is
remembered; from it and `OwnThreadTracked` follow `FailedStartUndone` and
`ReleasedLeavesNoThread`. `IdentityInv` adds, outside the raced windows, that
recorded pids are the session's own and that at `one_off` the thread is still
the recorded one, which gives `StopsOnlyItsOwn`.

**The session: what a stop leaves.** For `StopIsolation` the loops have to be
followed kdamond by kdamond. `IsolationInv`: where no other controller acted, a
running thread of the session still lies on the staged configuration, so no
comparison of `stop_all` or `rollback_started` skips it; without failing accesses
its pid is recorded but for the one step between the `on` write and the pid read;
and behind the cursor of a loop there is no such thread. The first part needs
that the session never writes files while it has a thread.

**The session: what a restoration wipes.** `RestoringInv` starts at the last
check of `close_inner`, where every directory is the staged one. From there on
directories change by the restoration's own hand only, so each is what was
staged, what will be restored, rebuilt or half-written, over any number of
attempts `retry_busy` makes, unless a controller acted in the window
(`raced`).

**The session: giving the hierarchy back.** Four invariants under `Quiet` (no
other controller) and `Calm` (besides, no failing access). `QuietInv`: all
threads are the session's, what was recorded is what was found, nothing is
written before the last check of `managed_hierarchy`, and a restoration has
shaped the directories below its cursor, then filled them; that a stage is
entered with its predecessor complete needs the hierarchy to have no gaps, since
the loops go up to the first missing directory. Hence a quiet restoration whose
accesses succeed always completes (`QuietRestores`), which is the reason for
`FaultInv`: an `open_rollback_failed` costs two failing accesses. `StagingInv`
does the same for staging, so that a calm `managed_hierarchy` never fails after
its first write, and a session finds what it staged until it restores.
`ClosingInv` accounts for kdamonds that end under a `close`: an error that the
loop remembers was paid for with an exit, and the second pass of `Drop` with
another one.

**Updates: threads and writes.** `Sound` says of each step which locals are set and
what is left of the loops. `StrayVisible`: a commit that reached another thread
means that the session's thread is gone, and as pids are handed out once
(`PidsUsed`), the identity check after the commit fails; so success is not
reached. The journal holds staged leaves only and an undoing writes what it names
or what lies below a count in it, which is below a staged count by the tree:
`UpdateWritesOnlyRequested`.

**Updates: shapes.** A fingerprint skips leaves it has captured as missing, so what
a comparison shows follows only from `ShapeInv`: files, snapshots and
configurations are shaped at every step. Then, where two trees differ, some leaf
is there in both with different values (`DifferVisibly`: the first leaf that
differs, whose counts agree), and a fingerprint that matches means equal files,
tuned intervals apart (`MatchedSame`).

**Updates: atomicity.** Two invariants of calls nobody disturbs. `AloneInv` relates
the files and what runs to the beginning of the call: outside the journal and
what lies below its counts the files are as they were (`FilesPart`), and each
selected kdamond the commit loop has passed runs the request, or the restored
files (`RunningPart`). `CalmInv` says that such a call does not fail by itself:
with nothing failing every staged leaf before the cursor has its value and every
leaf still to come exists (`PlainPart`), and with one cause of failure the same
holds of the undoing (`UndonePart`). A rollback thus has one cause behind it
(`MustFault`), and one that fails has two.

**Updates: what becomes owned.** `OwnInv` counts, for a leaf outside the reach, how
often a foreign controller must have acted when what was captured, read or found
there is not the session's value: once when the files show the foreign value,
twice when they show the session's again, a third time when the comparison that
lies between two reads saw the session's value. That an unreached leaf is
requested as it was read is `Unreached`, by the tree again. At adoption a foreign
value has cost three acts.

**Staged replacements.** As for updates, without threads: `AloneInv` follows the
staging and its undoing leaf by leaf, and `CountInv` counts deviations. A leaf
captured while it was missing is not compared any more; its absence shows in the
count above it, which was captured too.

**Receipts.** `CallsExclusive` says that only the holder of the lock is inside a
call, and what each step of a call knows: how many kdamonds a start has recorded,
and that a hierarchy opened from a receipt is the one the receipt names until its
update has committed or its stop has ended something. `PersistentIsAtomic` then
maps every step: those inside a call stutter, as the abstract state is what the
call found, and the release of the lock is one abstract step. For `ReadTrue`
`SeenInv` remembers what was seen between two checks while at most one act of a
stranger can have happened. `PidInv` (pids are new within a boot, a recorded pid
names a thread of the receipt's own session, and no receipt names a thread of a
start that has not returned) gives `ThreadsEndByRight`; that a pid may name
another thread after a reboot is why receipts carry the boot. `Covered` is the
inductive form of `OrphanReported`.

**Pause.** For `PauseOwnThread` the point is a commit that reached another thread:
`StrayVisible` says that from then on the thread of that kdamond is not the
recorded one until the operation ends, because a new thread gets a new pid
(`PidsUsed`); so the identity check before success cannot be deceived.
`OkRunsWhatIsOwned` needs that a single foreign write, if it is not noticed yet,
is still in the file to be noticed (`SeenInv`). For `PauseAtomic`, `CallInv`
compares every file and what the thread runs with their values at the beginning
of the call, step by step.

**Batches.** `StrayInv` keeps a witness: after a command that reached a stranger's
thread some kdamond of the batch has lost its thread, and the last verification
has not passed it yet. `FreshInv` relates published values to commands and pids.
`FilesInv` counts: foreign files that were used are still there, or were put back
by a second act.

**Monitors.** Who holds the monitor determines who may work with it (`PlaceInv`),
what the session owns is what the monitor believes (`QueryInv`), and up to one
failed access that is what is there, but for a hierarchy torn on the way out, where
no thread is left (`OwnInv`); `ResultInv` follows results from the read to the
caller. A pass of `close_inner` is a lemma of its own (`Passes`): while nobody wrote,
a pass that failed without a failing access was one whose thread ended, and so the
second succeeds.

**Probe.** Children are staged parents first (`StageInv`), so at the end a path is
there when the kernel has it and everything above it; a trial leaves values on the
paths of its own job only (`TrialInv`); every question asked so far has its answer
in the verdicts (`VerdictInv`). These hold for any list of trials, of a probe nobody
disturbs. `SoundInv` holds whoever writes: children lie in their parents and in no
kernel without them, and a value found in a file, kept to be written again, or called
supported, is one the kernel took.

**Scan.** `TreeTells` is about one tree: each rule of `CapabilityRules` gives a
verdict that is true of it, because a path is hidden only behind a count of zero.
Merging needs more than that each scheme's answer is true, since "unsupported" of
one scheme and "supported" of another are different claims about one kernel:
`ScanInv` says that what is known of a feature is the answer of one tree read so
far and at least that of every other. Features of the context are read once; the
context's paths are alike in all trees (`SharedPaths`), so the first answers for
all.

**Regions.** `CoversTheBytes` is arithmetic of quotients: whole units below and
above (`WholeUnits`, `CeilUnits`). `StayApartInKernel` is decided in the step that
stages: validation has seen that aligned ends fit in a word, so the kernel's wrapping
changes nothing, that alignment only grows a region, and that neighbours, compared
aligned, are apart. `RegionsInv` adds the types that arithmetic needs.

**Configurations a caller sends.** The running kdamond has the targets of the
session at their indexes, and the session's configuration is runnable
(`IndexInv`). A marker that is let through stands on a target that equals the
session's at its index, hence runs with that pid (`MarkedRuns`), so the kernel
refuses none. `UpdateLeavesRunnable` relates two validations: what
`validate_running_update` accepts is, without its marked targets, what
`validate_runnable` accepts, because goals and limits that name targets are checked
against those that remain.

### What the proof attempts showed

- `UpdateAtomic` was stated for every call and holds for the first only: after an
  undoing that failed, the threads may run something else than the files, and a
  later call that fails, or a quota-goal call that finds the goals as requested
  and returns at once, leaves it so. The property now says what running
  configurations are compared with (`InStep`), and that a rejected call leaves the
  files as they were rather than as owned.
- `Reach` took the snapshot for what had been read before staging. With an interval
  tuned in between, and two kdamonds of which one drops targets, the two
  differ, and a write the request asks for lay outside the reach: hence `observed`.
- Reading the goals of a scheme that is not there fails before anything else; the
  model took it for an empty directory.
- Most of the theorems about updates need that a typed configuration lists what
  its counts say. That is no assumption about the kernel: the library's types
  cannot say anything else, and the model's requests now are no other.
- `PauseAtomic` is false where a kdamond has several pause files: the commit of
  one takes the others over. The library excludes it, and the model now says so.
- `OkRunsWhatIsOwned` is stated for every file of the kdamond but the paused one
  and the tuned intervals; the proof shows that nothing else has to be excepted.
- A foreign controller of the probe that wrote the same hierarchy once more was
  counted as a second change; the guard of `RogueWrites` excludes the empty act.
- That support is never invented needs the value a trial keeps to write again
  (`OriginalSound`): another controller's value, written back, must not become the
  kernel's answer to a later question.
- `Retained` filtered the targets with an operator on sequences that the provers
  cannot look into. It now says where each remaining target stands: behind as many
  as remain before it (`RetainedIs`, `EveryPlaceTaken`).
- A failed second pass of `Drop` needs two exits or one failing access;
  `ClosingInv` states the exact price, of which `SessionUndone` is a consequence.

### Model-checked only

- Liveness (`CallsEnd`, `CallsReturn`): fairness and `ENABLED` are out of the
  prover's reach.
- `SumsFitTheKernel`, `StagingKeepsMeaning`, `ReceiptsDecode` and `SnapshotsAddUp`
  of `small_models`: they are about what recursive definitions and folds compute
  over data (weights, staging sequences, decoders, sums), which needs induction
  over the data.

The types of `UpdateTransaction`, `ReplaceStaged` and `PauseContext` are proved and
no run lists them; the runs' properties stand on their own.

## 5. What could come next

1. An abstract atomic update, in the manner of `HierarchyLifecycle`, that
   `UpdateTransaction` implements. `UpdateAtomic` says what its steps would be for
   calls nobody disturbs; the abstract module would have to name what the others
   may leave, which is what `WritesOnlyRequested` and `UpdateAdoptsOwn` bound.
2. `SnapshotMonitor` over the session of `ManagedHierarchy` itself, in place of the
   summary it uses.
3. Sample control and monitoring probes in `SchemeStaging`.

## 6. Not modelled, and why

- Formatting and parsing of single files and the one-file getters and setters:
  no state, and no property here tells their results apart.
- Sample control, operation attributes and monitoring probes are staged and read
  by the pattern `SchemeStaging` has for schemes (optional attributes, counted
  children); their leaves are values in `DamonLeaves`.
- Builders, iterators, accessors, error texts, exports.
- The location of the first difference in a mismatch error.
- Memory ordering inside the process: the library shares nothing between threads
  but a channel.
