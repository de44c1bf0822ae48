---------------------------- MODULE SnapshotMonitor ----------------------------
(***************************************************************************)
(* High-level monitors: start_workflow stages a hierarchy, finds out how   *)
(* snapshots can be queried and starts it; materialize_snapshots installs  *)
(* the private query schemes, has the kernel fill them in, and takes them  *)
(* away again; request_snapshot moves the monitor to a worker thread that  *)
(* does this, and the SnapshotRequest is polled, waited for, finished or   *)
(* dropped meanwhile.                                                      *)
(*                                                                         *)
(* The session below is used through what ManagedHierarchy, ReplaceStaged  *)
(* and UpdateTransaction show of it: an operation succeeds, fails and      *)
(* changes nothing, or fails twice and leaves something unknown.           *)
(***************************************************************************)
EXTENDS Integers, Sequences

CONSTANTS
    CustomSchemes,  \* schemes given to the builder
    Targets,        \* processes to monitor, or 1 for a whole address space
    MaxCalls, MaxFaults, MaxExits, MaxRogue, MaxPanics   \* bounds

ASSUME CountAssumption == CustomSchemes \in Nat /\ Targets \in Nat \ {0}

VARIABLES
    kernel,    \* what it supports, what discovery says of the target filter
    conf,      \* schemes of the hierarchy
    thread,    \* the kdamond of the session runs
    staged,    \* the configuration the session owns
    session,   \* the ExclusiveSession: "none", "open", "unidentified", "closed", "dropped",
               \* "abandoned", "torn"
    monitor,   \* the Monitor, and where it is
    caller,    \* the call the program is in
    worker,    \* the thread of the SnapshotRequest
    job,       \* the step of materialize_snapshots, whoever runs it
    got,       \* what that read, or how it failed
    outcome,   \* what the last call returned
    calls, faults, exits, rogue, panics

kernelVars == <<kernel, conf, thread>>
sessionVars == <<staged, session>>
workVars == <<worker, job, got>>
environment == <<exits, rogue, panics>>
vars == <<kernelVars, sessionVars, monitor, caller, workVars, outcome, calls, faults, environment>>

-----------------------------------------------------------------------------
(* Configurations and queries *)

Custom == <<"custom", 0>>
MatchAll == <<"all", 0>>
Isolated(t) == <<"target", t>>
Previous == <<<<"previous", 0>>>>
Foreign == <<<<"foreign", 0>>>>

\* prepare_workflow: base_config, and the one capabilities are discovered with
Base == [i \in 1 .. CustomSchemes |-> Custom]
Probed == Append(Base, MatchAll)

\* snapshot_query_configuration: the configuration and where each result is
QuerySchemes(isolate) ==
    IF Targets > 1 /\ isolate THEN [t \in 1 .. Targets |-> Isolated(t)] ELSE <<MatchAll>>
QueryConfig(isolate) == Base \o QuerySchemes(isolate)
Scope(isolate, i) ==
    IF Targets = 1 THEN <<"target", 1>> ELSE IF isolate THEN <<"target", i>> ELSE <<"scheme", 0>>

\* Mutant: the private schemes are counted from the first scheme on.
DescriptorsMutant(isolate) ==
    [i \in DOMAIN QuerySchemes(isolate) |-> [index |-> i, scope |-> Scope(isolate, i)]]

Descriptors(isolate) ==
    [i \in DOMAIN QuerySchemes(isolate) |->
        [index |-> CustomSchemes + i, scope |-> Scope(isolate, i)]]

NoMonitor == [place |-> "none", query |-> "unsupported", config |-> <<>>,
              descriptors |-> <<>>, installed |-> FALSE]
Nothing == [how |-> "none", results |-> <<>>]
Failed(how) == [how |-> how, results |-> <<>>]
Done(results) == [how |-> "ok", results |-> results]

-----------------------------------------------------------------------------
(* The session *)

NoFault == UNCHANGED faults
Fault == faults < MaxFaults /\ faults' = faults + 1
TwoFaults == faults + 1 < MaxFaults /\ faults' = faults + 2

Owned == conf = staged /\ session = "open"

\* The hierarchy becomes new, or stays as it was, or is left in an unknown state.
Changed(new) == Owned /\ NoFault /\ conf' = new /\ staged' = new
Unchanged == (IF Owned THEN Fault ELSE NoFault) /\ UNCHANGED <<conf, staged>>
Broken == Owned /\ TwoFaults /\ conf' = Foreign /\ UNCHANGED staged

\* One pass of close_inner.  An identified or absent thread can be stopped, an
\* unidentified one not.
CanClose == conf = staged /\ (session = "open" \/ ~thread)
Restores == CanClose /\ NoFault /\ conf' = Previous /\ thread' = FALSE /\ UNCHANGED exits

\* A failing access leaves all as it was, or the thread stopped, or tears what is put
\* back, or keeps it from being seen to be back.  A thread that exits on its own
\* between the reads of its state and its pid is an error as well.
Fails ==
    \/ ~CanClose /\ NoFault /\ UNCHANGED <<conf, thread, exits>>
    \/ CanClose /\ Fault /\ UNCHANGED <<conf, thread, exits>>
    \/ CanClose /\ Fault /\ conf' \in {conf, Foreign, Previous} /\ thread' = FALSE /\ UNCHANGED exits
    \/ CanClose /\ thread /\ exits < MaxExits /\ exits' = exits + 1
       /\ NoFault /\ thread' = FALSE /\ UNCHANGED conf

\* Dropped, a session has one pass, and nobody hears of its error.
DropSession ==
    /\ Restores \/ Fails
    /\ session' = "dropped"
    /\ UNCHANGED <<kernel, staged>>

-----------------------------------------------------------------------------
(* start_workflow: stage, discover, choose the query, settle and start *)

Step(from) == caller = from /\ UNCHANGED <<workVars, calls, environment>>
Goto(to) == caller' = to /\ UNCHANGED outcome
Return(result) == caller' = "free" /\ outcome' = result
Called(to) ==
    /\ caller = "free" /\ calls < MaxCalls
    /\ calls' = calls + 1
    /\ Goto(to)
    /\ UNCHANGED <<kernelVars, sessionVars, faults, environment>>

Start ==
    /\ Called("start") /\ session = "none"
    /\ UNCHANGED <<monitor, workVars>>

Stage ==
    /\ Step("start")
    /\ \/ ~thread /\ NoFault
          /\ conf' = Probed /\ staged' = Probed /\ session' = "open" /\ Goto("discover")
       \/ (IF thread THEN NoFault ELSE Fault)
          /\ UNCHANGED <<conf, sessionVars>> /\ Return(Failed("failed"))
       \/ ~thread /\ TwoFaults /\ conf' = Foreign /\ session' = "torn"
          /\ UNCHANGED staged /\ Return(Failed("failed"))
    /\ UNCHANGED <<kernel, thread, monitor>>

\* capabilities_for_schemes, between two verifications of ownership
Inspect(Good, to) ==
    /\ \/ Owned /\ Good /\ NoFault /\ Goto(to)
       \/ ~(Owned /\ Good) /\ NoFault /\ Goto("undo")
       \/ Owned /\ Good /\ Fault /\ Goto("undo")
    /\ UNCHANGED <<kernelVars, sessionVars, monitor>>

Discover == Step("discover") /\ Inspect(kernel.operation, "query")

Chosen(isolate) ==
    monitor' = [NoMonitor EXCEPT
        !.query = IF ~kernel.tried THEN "unsupported"
                  ELSE IF kernel.online THEN "on_demand" ELSE "permanent",
        !.config = QueryConfig(isolate), !.descriptors = Descriptors(isolate)]

\* Several targets are told apart by filters, which discovery cannot always
\* promise: they are staged to find out.
TryFilters == kernel.tried /\ Targets > 1 /\ kernel.filter # "unsupported"

\* prepare_snapshot_query without filters
Choose ==
    /\ Step("query") /\ ~TryFilters
    /\ Chosen(FALSE) /\ Goto("settle")
    /\ UNCHANGED <<kernelVars, sessionVars, faults>>

\* The kernel's refusal of a filter is no error once the replacement is undone, and
\* one when an access of the undoing fails.
TryFiltered ==
    /\ Step("query") /\ TryFilters
    /\ \/ kernel.accepts /\ Changed(QueryConfig(TRUE)) /\ Chosen(TRUE) /\ Goto("recheck")
       \/ ~kernel.accepts /\ Changed(staged) /\ Chosen(FALSE) /\ Goto("settle")
       \/ ~kernel.accepts /\ Owned /\ Fault /\ conf' \in {conf, Foreign} /\ Goto("undo")
          /\ UNCHANGED <<staged, monitor>>
       \/ (Unchanged \/ Broken) /\ Goto("undo") /\ UNCHANGED monitor
    /\ UNCHANGED <<kernel, thread, session>>

Recheck == Step("recheck") /\ Inspect(TRUE, "settle")

\* Only a kernel without online commit keeps the query in the hierarchy.
Settled == IF monitor.query = "permanent" THEN monitor.config ELSE Base
Settle ==
    /\ Step("settle")
    /\ \/ Changed(Settled) /\ Goto("run")
       \/ (Unchanged \/ Broken) /\ Goto("undo")
    /\ UNCHANGED <<kernel, thread, session, monitor>>

\* session.start(): a thread whose identity cannot be read is left running.
Run ==
    /\ Step("run")
    /\ \/ Owned /\ ~thread /\ NoFault /\ thread' = TRUE /\ UNCHANGED session
          /\ Return(Done(<<>>)) /\ monitor' = [monitor EXCEPT !.place = "caller"]
       \/ (~Owned \/ thread) /\ NoFault /\ Goto("undo") /\ UNCHANGED <<thread, session, monitor>>
       \/ Owned /\ ~thread /\ Fault /\ Goto("undo") /\ UNCHANGED monitor
          /\ \/ UNCHANGED <<thread, session>>
             \/ thread' = TRUE /\ session' = "unidentified"
    /\ UNCHANGED <<kernel, conf, staged>>

\* A start that failed, like Monitor::stop, calls close, which consumes the session:
\* dropping it then repeats a pass that failed.
Close ==
    /\ caller \in {"undo", "stop"}
    /\ \/ Restores /\ session' = "closed" /\ Return(Failed("closed"))
       \/ Fails /\ UNCHANGED session /\ Goto("close_again")
    /\ monitor' = NoMonitor
    /\ UNCHANGED <<kernel, staged, workVars, calls, rogue, panics>>

\* Mutant: close forgets the session when it fails.
CloseAgainMutant ==
    /\ caller = "close_again" /\ Return(Failed("closed")) /\ session' = "closed"
    /\ UNCHANGED <<kernelVars, staged, monitor, workVars, calls, faults, environment>>

CloseAgain ==
    /\ caller = "close_again" /\ Return(Failed("closed"))
    /\ Restores \/ Fails
    /\ session' = IF session = "unidentified" /\ thread' THEN "abandoned" ELSE "closed"
    /\ UNCHANGED <<kernel, staged, monitor, workVars, calls, rogue, panics>>

-----------------------------------------------------------------------------
(* materialize_snapshots, by the caller or the worker *)

Holds(who) == monitor.place = who
Work(step) ==
    /\ job = step
    /\ UNCHANGED <<kernel, session, caller, worker, outcome, calls, environment>>
Advance(step, result) == job' = step /\ got' = result

\* Why a verification fails: the hierarchy is not the session's, or no thread.
Verdict == IF conf # staged THEN "lost" ELSE "failed"
Running == Owned /\ thread

Begin ==
    /\ Work("begin")
    /\ CASE monitor.query = "unsupported" -> Advance("end", Failed("unsupported"))
         [] monitor.query = "on_demand" /\ ~monitor.installed -> Advance("install", Nothing)
         [] OTHER -> Advance("command", Nothing)
    /\ UNCHANGED <<conf, thread, staged, monitor, faults>>

\* session.update_configuration(query_config)
Install ==
    /\ Work("install")
    /\ \/ Running /\ Changed(monitor.config) /\ Advance("command", Nothing)
          /\ monitor' = [monitor EXCEPT !.installed = TRUE]
       \/ ~Running /\ NoFault /\ UNCHANGED <<conf, staged, monitor>> /\ Advance("end", Failed(Verdict))
       \/ Running /\ (Unchanged \/ Broken) /\ UNCHANGED monitor /\ Advance("end", Failed("failed"))
    /\ UNCHANGED thread

\* Mutant: a query that succeeded is left in the hierarchy.
AfterBatchMutant(result) ==
    Advance(IF monitor.query = "on_demand" /\ result.how = "failed" THEN "restore" ELSE "end", result)

\* A lost hierarchy is left alone; any other end takes the query away.
AfterBatch(result) ==
    Advance(IF monitor.query = "on_demand" /\ result.how # "lost" THEN "restore" ELSE "end", result)

\* materialize_scoped_snapshots: runtime_batch verifies, the command fills in
\* all schemes of the kdamond, the results are read, runtime_batch verifies again.
Results == [i \in DOMAIN monitor.descriptors |->
    [scope |-> monitor.descriptors[i].scope,
     of |-> IF monitor.descriptors[i].index \in DOMAIN conf
            THEN conf[monitor.descriptors[i].index] ELSE <<"none", 0>>]]
Command ==
    /\ Work("command")
    /\ \/ Running /\ NoFault /\ Advance("read", Nothing)
       \/ ~Running /\ NoFault /\ AfterBatch(Failed(Verdict))
       \/ Running /\ Fault /\ AfterBatch(Failed("failed"))
    /\ UNCHANGED <<conf, thread, staged, monitor>>
ReadResults ==
    /\ Work("read")
    /\ \/ NoFault /\ Advance("verify", Done(Results))
       \/ Fault /\ Advance("verify", Failed("failed"))
    /\ UNCHANGED <<conf, thread, staged, monitor>>
Verify ==
    /\ Work("verify")
    /\ \/ Running /\ NoFault /\ AfterBatch(got)
       \/ ~Running /\ NoFault /\ AfterBatch(Failed(IF got.how = "failed" THEN "failed" ELSE Verdict))
       \/ Running /\ Fault /\ AfterBatch(Failed("failed"))
    /\ UNCHANGED <<conf, thread, staged, monitor>>

\* session.update_configuration(base_config)
RestoreFailure == IF got.how = "ok" THEN Failed(Verdict) ELSE Failed("rollback")

\* Mutant: the query is taken for removed whether or not the update succeeded.
RestoreMutant ==
    /\ Work("restore")
    /\ \/ Running /\ Changed(Base) /\ Advance("end", got)
       \/ ~Running /\ NoFault /\ UNCHANGED <<conf, staged>> /\ Advance("end", RestoreFailure)
       \/ Running /\ (Unchanged \/ Broken) /\ Advance("end", RestoreFailure)
    /\ monitor' = [monitor EXCEPT !.installed = FALSE]
    /\ UNCHANGED thread

Restore ==
    /\ Work("restore")
    /\ \/ Running /\ Changed(Base) /\ Advance("end", got)
          /\ monitor' = [monitor EXCEPT !.installed = FALSE]
       \/ ~Running /\ NoFault /\ UNCHANGED <<conf, staged, monitor>> /\ Advance("end", RestoreFailure)
       \/ Running /\ (Unchanged \/ Broken) /\ UNCHANGED monitor /\ Advance("end", RestoreFailure)
    /\ UNCHANGED thread

MaterializeStep == Begin \/ Install \/ Command \/ ReadResults \/ Verify \/ Restore

\* Called by the program itself; materialize_snapshot insists on one result.
Materialize(single) ==
    /\ Called("materialize") /\ Holds("caller")
    /\ IF single /\ monitor.query # "unsupported" /\ Len(monitor.descriptors) # 1
       THEN job' = "end" /\ got' = Failed("multiple")
       ELSE job' = "begin" /\ got' = Nothing
    /\ UNCHANGED <<monitor, worker>>
Materialized ==
    /\ caller = "materialize" /\ job = "end"
    /\ job' = "none" /\ Return(got)
    /\ UNCHANGED <<kernelVars, sessionVars, monitor, worker, got, calls, faults, environment>>

-----------------------------------------------------------------------------
(* The worker, and the SnapshotRequest: alive while worker # "none" *)

\* request_snapshot: the worker is spawned and the monitor handed to it.
Request ==
    /\ Called("free") /\ Holds("caller") /\ worker = "none"
    /\ worker' = "running" /\ monitor' = [monitor EXCEPT !.place = "worker"]
    /\ job' = "begin" /\ got' = Nothing
\* SnapshotStartError gives the monitor back.
SpawnFails ==
    /\ caller = "free" /\ calls < MaxCalls /\ Holds("caller") /\ worker = "none"
    /\ Fault /\ calls' = calls + 1 /\ Return(Failed("spawn"))
    /\ UNCHANGED <<kernelVars, sessionVars, monitor, workVars, environment>>

WorkerStep ==
    /\ worker \in {"running", "sent"} /\ UNCHANGED <<caller, outcome, calls, environment>>

\* Mutant: the worker returns without a message when there are no snapshots.
SendMutant ==
    /\ WorkerStep /\ worker = "running" /\ job = "end"
    /\ worker' = "sent" /\ job' = "none" /\ UNCHANGED got
    /\ monitor' = [monitor EXCEPT !.place = IF got.how = "ok" THEN "channel" ELSE "worker"]
    /\ UNCHANGED <<kernelVars, sessionVars, faults>>

Send ==
    /\ WorkerStep /\ worker = "running" /\ job = "end"
    /\ worker' = "sent" /\ job' = "none" /\ UNCHANGED got
    /\ monitor' = [monitor EXCEPT !.place = "channel"]
    /\ UNCHANGED <<kernelVars, sessionVars, faults>>
Exit ==
    /\ WorkerStep /\ worker = "sent" /\ worker' = "ended"
    /\ UNCHANGED <<kernelVars, sessionVars, faults, monitor, job, got>>

\* Unwinding drops the monitor, and with it the session, before the sender.
Panic ==
    /\ worker = "running" /\ panics < MaxPanics /\ panics' = panics + 1
    /\ worker' = "panicked" /\ job' = "none" /\ monitor' = NoMonitor
    /\ DropSession
    /\ UNCHANGED <<got, caller, outcome, calls, rogue>>

\* The three calls that look for the message; is_ready is a wait_until whose
\* deadline has passed.
Look(call) ==
    /\ Called(call) /\ worker # "none"
    /\ UNCHANGED <<monitor, workVars>>
Waiting == {"wait", "finish", "drop"}
Joining == [wait |-> "wait_join", finish |-> "finish_join", drop |-> "drop_join"]
Waits == caller \in Waiting /\ UNCHANGED <<kernelVars, sessionVars, workVars, calls, faults, environment>>

Receive ==
    /\ Waits /\ Holds("channel")
    /\ monitor' = [monitor EXCEPT !.place = "request"]
    /\ Goto(Joining[caller])
AlreadyReceived ==
    /\ Waits /\ Holds("request")
    /\ IF caller = "wait" THEN Return(Failed("ready")) ELSE Goto(Joining[caller])
    /\ UNCHANGED monitor
Pending ==
    /\ Waits /\ caller = "wait" /\ Holds("worker")
    /\ Return(Failed("pending")) /\ UNCHANGED monitor
Disconnected ==
    /\ Waits /\ worker = "panicked"
    /\ Goto(Joining[caller]) /\ UNCHANGED monitor

\* join_worker, and what the call does after it.
Joins(call) == caller = call /\ UNCHANGED <<got, job, calls, rogue, panics>>
Ended == worker \in {"ended", "panicked"}
WaitJoined ==
    /\ Joins("wait_join") /\ Ended
    /\ Return(Failed(IF worker = "panicked" THEN "disconnected" ELSE "ready"))
    /\ UNCHANGED <<kernelVars, sessionVars, monitor, worker, faults, exits>>
FinishJoined ==
    /\ Joins("finish_join") /\ Ended
    /\ worker' = "none"
    /\ IF worker = "panicked"
       THEN Return(Failed("disconnected")) /\ UNCHANGED monitor
       ELSE Return(got) /\ monitor' = [monitor EXCEPT !.place = "caller"]
    /\ UNCHANGED <<kernelVars, sessionVars, faults, exits>>

\* Drop: the monitor in the outcome goes last, and with it the session.
DropJoined ==
    /\ Joins("drop_join") /\ Ended
    /\ worker' = "none" /\ Return(Failed("dropped")) /\ monitor' = NoMonitor
    /\ IF worker = "panicked" THEN UNCHANGED <<kernelVars, sessionVars, faults, exits>> ELSE DropSession

Drop == Look("drop")

\* Monitor::stop, and dropping the monitor instead
Stop ==
    /\ Called("stop") /\ Holds("caller")
    /\ monitor' = NoMonitor /\ UNCHANGED workVars
DropMonitor ==
    /\ caller = "free" /\ calls < MaxCalls /\ Holds("caller")
    /\ calls' = calls + 1 /\ Return(Failed("dropped")) /\ monitor' = NoMonitor
    /\ DropSession
    /\ UNCHANGED <<workVars, rogue, panics>>

-----------------------------------------------------------------------------
(* The environment and the specification *)

Outside == UNCHANGED <<kernel, sessionVars, monitor, caller, workVars, outcome, calls, faults, panics>>
ThreadExits ==
    /\ thread /\ exits < MaxExits
    /\ exits' = exits + 1 /\ thread' = FALSE
    /\ UNCHANGED <<conf, rogue>> /\ Outside
RogueActs ==
    /\ session \in {"open", "unidentified"} /\ rogue < MaxRogue
    /\ rogue' = rogue + 1 /\ conf' = Foreign
    /\ UNCHANGED <<thread, exits>> /\ Outside

Kernels == [operation : BOOLEAN, tried : BOOLEAN, online : BOOLEAN, accepts : BOOLEAN,
            filter : {"supported", "unsupported", "unknown"}]

Init ==
    /\ kernel \in Kernels /\ conf = Previous /\ thread = FALSE
    /\ staged = <<>> /\ session = "none"
    /\ monitor = NoMonitor /\ caller = "free" /\ worker = "none"
    /\ job = "none" /\ got = Nothing /\ outcome = Nothing
    /\ calls = 0 /\ faults = 0 /\ exits = 0 /\ rogue = 0 /\ panics = 0

StartStep == Stage \/ Discover \/ Choose \/ TryFiltered \/ Recheck \/ Settle \/ Run
Closing == Close \/ CloseAgain
Received == Receive \/ AlreadyReceived \/ Pending \/ Disconnected
Joined == WaitJoined \/ FinishJoined \/ DropJoined
Calls == Start \/ (\E single \in BOOLEAN : Materialize(single)) \/ Request \/ SpawnFails
         \/ Look("wait") \/ Look("finish") \/ Drop \/ Stop \/ DropMonitor
Next == \/ Calls \/ StartStep \/ Closing \/ MaterializeStep \/ Materialized
        \/ Send \/ Exit \/ Panic \/ Received \/ Joined \/ ThreadExits \/ RogueActs

\* Threads run on, and the kernel answers a command some day.
Fairness == /\ WF_vars(StartStep) /\ WF_vars(Closing) /\ WF_vars(MaterializeStep) /\ WF_vars(Materialized)
            /\ WF_vars(Send \/ Exit) /\ WF_vars(Received) /\ WF_vars(Joined)
Spec == Init /\ [][Next]_vars /\ Fairness

-----------------------------------------------------------------------------
(* Properties *)

\* Whatever is done to a request, no worker and no open session outlives it
\* unseen: between calls, without a request there is no job, and a session that
\* was not closed belongs to a monitor the program can still reach.
NothingHidden ==
    caller = "free" =>
        /\ worker = "none" => job = "none"
        /\ session \in {"open", "unidentified"} =>
               monitor.place \in IF worker = "none" THEN {"caller"}
                                 ELSE {"worker", "channel", "request"}

\* The monitor knows whether its query is part of what the session owns, after
\* any sequence of installs, commands and restorations that failed or not.
InstalledIsTrue ==
    monitor.place # "none" /\ session = "open" /\ Base # monitor.config =>
        staged = IF monitor.query = "permanent" \/ monitor.installed THEN monitor.config ELSE Base

\* Snapshots are returned only with the query taken away again, and each names
\* the target whose filter the kernel applied to it (one target needs none).
ReturnedSnapshots ==
    \A i \in DOMAIN outcome.results :
        LET result == outcome.results[i] IN
        \/ result.of = MatchAll /\ result.scope = (IF Targets = 1 THEN <<"target", 1>> ELSE <<"scheme", 0>>)
        \/ result.of = result.scope /\ Targets > 1
SnapshotsAreSettled ==
    [][outcome'.results # <<>> /\ outcome' # outcome /\ rogue = 0 => conf' = Settled]_vars

\* When nothing disturbs it, the end of a session, whichever it is, puts back what
\* was there and stops the thread.  A close does so over a thread that exits while
\* it is stopped.  Nor does one failing access, wherever it hits, make a close leave
\* the thread, or what the monitor staged: the worst is a hierarchy torn by the
\* failing restoration.
Restored == conf = Previous /\ ~thread
RestoredAtEnd ==
    rogue = 0 =>
        /\ session = "dropped" /\ faults = 0 /\ exits = 0 => Restored
        /\ session = "closed" /\ faults = 0 => Restored
        /\ session = "closed" /\ faults = 1 => ~thread /\ (exits = 0 => conf \in {Previous, Foreign})

\* A program is done with a monitor it dropped or closed (SnapshotRequest::drop,
\* ProcessMonitor::stop): nothing of it stays behind unseen.
NothingLeft == NothingHidden /\ RestoredAtEnd

\* Every call returns.
CallsReturn == caller # "free" ~> caller = "free"

=============================================================================
