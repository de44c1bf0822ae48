---------------------------- MODULE RuntimeBatches ----------------------------
(***************************************************************************)
(* Runtime access to the kdamonds of a running hierarchy: batches over one *)
(* kdamond (ManagedKdamond::runtime_batch, read_batch and the one-operation*)
(* methods made of them), batches over the hierarchy, cached reads, commit,*)
(* and reads of the whole configuration.  The caller's closure performs    *)
(* any operations in any order, goes on after a failure or gives up; the   *)
(* batch verifies before it, after each operation and after it, whatever   *)
(* the closure returned.                                                   *)
(*                                                                         *)
(* A command makes the thread publish values in files; the files stay when *)
(* the thread ends.  An access may fail or be busy between any two steps,  *)
(* and the thread may end or be replaced.                                  *)
(***************************************************************************)
EXTENDS Integers, FiniteSets

CONSTANTS
    N,                                              \* kdamonds of the hierarchy
    MaxPid, MaxOps, MaxCalls, MaxRogue, MaxExits, MaxFaults   \* bounds

K == 0 .. N - 1
ASSUME NAssumption == N \in Nat \ {0}
ASSUME OpsAssumption == MaxOps \in Nat

VARIABLES
    thread,     \* pid of the running thread, 0 when it is off
    nextPid,
    foreign,    \* the writable configuration is not the staged one
    published,  \* published[i]: the command and the thread the files of i are from
    committed,  \* committed[i]: the thread of i runs a foreign configuration
    commands,   \* commands issued so far
    own,        \* KdamondSessionState: the pid the session knows, 0 for Staged
    pc, txn, result,
    strayed,    \* a command of this call reached a thread that is not the session's
    calls, rogue, exits, faults

kernelVars == <<thread, nextPid, foreign, published, committed, commands>>
budgets == <<calls, rogue, exits, faults>>
vars == <<kernelVars, own, pc, txn, result, strayed, budgets>>

\* call, scope: the call and the kdamonds it verifies; again: the verification
\* after the closure; at: the kdamond it is at; outcome: what the closure
\* returned; ops: operations left; op, i: the operation at hand; asked: the
\* number of its command; read: what it read; counted: the kdamond whose
\* context and scheme counts the batch remembers; values: what it delivered.
Nothing == [command |-> 0, pid |-> 0]
NoTxn == [call |-> "none", scope |-> {}, again |-> FALSE, at |-> 0, outcome |-> "ok",
          ops |-> 0, op |-> "none", i |-> 0, asked |-> 0, read |-> Nothing,
          counted |-> N, values |-> {}, seen |-> FALSE]

Running == {i \in K : own[i] # 0}
Closures == {"runtime_batch", "read_batch"}

-----------------------------------------------------------------------------
(* Control *)

Goto(l, t) == pc' = l /\ txn' = t /\ UNCHANGED <<result, strayed>>

Return(r) ==
    /\ pc' = "idle"
    /\ txn' = [txn EXCEPT !.op = "none"]
    /\ result' = r
    /\ UNCHANGED strayed

\* The operation of a closure fails into the closure, any other call returns.
OpFailed(r) ==
    IF txn.call \in Closures THEN Goto("closure", [txn EXCEPT !.op = "none"])
    ELSE Return(r)

\* A group of reads: Good if cond holds, else Bad; the reads may also fail.
Look(cond, Good, Bad, Error) ==
    /\ \/ cond /\ Good /\ UNCHANGED faults
       \/ ~cond /\ Bad /\ UNCHANGED faults
       \/ faults < MaxFaults /\ faults' = faults + 1 /\ Error
    /\ UNCHANGED <<kernelVars, own, calls, rogue, exits>>

-----------------------------------------------------------------------------
(* The calls *)

Begin(t) ==
    /\ pc = "idle"
    /\ calls < MaxCalls
    /\ calls' = calls + 1
    /\ pc' = "files" /\ txn' = t /\ result' = "none" /\ strayed' = FALSE
    /\ UNCHANGED <<kernelVars, own, rogue, exits, faults>>

Call(name, S, i) == [NoTxn EXCEPT !.call = name, !.scope = S, !.at = i, !.i = i]

\* ManagedKdamond::runtime_batch and read_batch; ManagedHierarchy::runtime_batch
\* and read_batch.
Batch(name) ==
    \/ \E i \in Running : Begin([Call(name, {i}, i) EXCEPT !.ops = MaxOps])
    \/ Begin([Call(name, K, 0) EXCEPT !.ops = MaxOps])

\* cached_scheme_stats and the like; commit; is_running
OneKdamond(name) == \E i \in Running : Begin(Call(name, {i}, i))
IsRunning == \E i \in K : Begin(Call("is_running", {i}, i))

\* configuration, observed_configuration, capabilities
Inspect == Begin(Call("inspect", K, 0))

-----------------------------------------------------------------------------
(* verify_owned_state, verify_running and verify_running_identity: the     *)
(* files first, then the threads in scope one after the other              *)

\* Mutant: after the work only the identity is looked at.
CheckFilesMutant ==
    /\ pc = "files"
    /\ Look(~foreign \/ txn.again, Goto("threads", [txn EXCEPT !.at = txn.i]),
            Return("lost"), Return("error"))

CheckFiles ==
    /\ pc = "files"
    /\ Look(~foreign, Goto("threads", [txn EXCEPT !.at = txn.i]), Return("lost"), Return("error"))

\* What follows a verification that succeeded.
Verified ==
    IF txn.again THEN Return(txn.outcome)
    ELSE CASE txn.call \in Closures -> Goto("closure", txn)
           [] txn.call = "cached" -> Goto("lookup", txn)
           [] txn.call = "commit" -> Goto("command", [txn EXCEPT !.op = "commit"])
           [] txn.call = "inspect" -> Goto("inspect", txn)
           [] txn.call = "is_running" -> Return(IF thread[txn.i] = 0 THEN "stopped" ELSE "running")

\* A kdamond the session did not start has to be off; is_running takes one that
\* ended for an answer.
Passes(i) ==
    thread[i] = own[i] \/ (txn.call = "is_running" /\ thread[i] = 0)

CheckThread ==
    /\ pc = "threads"
    /\ Look(Passes(txn.at),
            IF txn.scope = K /\ txn.at + 1 \in K THEN Goto("threads", [txn EXCEPT !.at = @ + 1])
            ELSE Verified,
            Return("lost"), Return("error"))

\* Mutant: the closure's own error is returned without another look.
FinishMutant(outcome) ==
    IF outcome = "failed" THEN Return(outcome)
    ELSE Goto("files", [txn EXCEPT !.again = TRUE, !.outcome = outcome,
                                   !.i = IF txn.scope = K THEN 0 ELSE @])

\* The verification after the work; its error replaces the outcome.
Finish(outcome) ==
    Goto("files", [txn EXCEPT !.again = TRUE, !.outcome = outcome,
                              !.i = IF txn.scope = K THEN 0 ELSE @])

ReadInspected ==
    /\ pc = "inspect"
    /\ Look(TRUE, Goto("files", [txn EXCEPT !.again = TRUE, !.seen = foreign]),
            Return("error"), Return("error"))

-----------------------------------------------------------------------------
(* The closure and the operations of RuntimeBatch and RuntimeReadBatch     *)

\* A hierarchy batch gives access to running kdamonds only.
Operate ==
    /\ pc = "closure" /\ txn.ops > 0
    /\ \E i \in Running \cap txn.scope,
          op \in IF txn.call = "read_batch" THEN {"cached"} ELSE {"refresh", "cached", "command"} :
        Goto(IF op = "command" THEN "identity" ELSE "lookup",
             [txn EXCEPT !.ops = @ - 1, !.op = op, !.i = i])
    /\ UNCHANGED <<kernelVars, own, budgets>>

EndClosure ==
    /\ pc = "closure"
    /\ \E outcome \in {"ok", "failed"} : Finish(outcome)
    /\ UNCHANGED <<kernelVars, own, budgets>>

\* Mutant: a cached read where a refreshed one was asked for.
LookupMutant ==
    /\ pc = "lookup"
    /\ Goto("read", [txn EXCEPT !.counted = txn.i])
    /\ UNCHANGED <<kernelVars, own, budgets>>

\* cached_scheme: the counts are read once for the kdamond at hand; below a
\* foreign configuration there may be no such scheme.
Lookup ==
    LET next == Goto(IF txn.op = "refresh" THEN "identity" ELSE "read",
                     [txn EXCEPT !.counted = txn.i])
    IN  /\ pc = "lookup"
        /\ \/ txn.counted = txn.i /\ next /\ UNCHANGED <<kernelVars, own, budgets>>
           \/ txn.counted # txn.i /\ Look(~foreign, next, next \/ OpFailed("error"), OpFailed("error"))

\* issue_command: verify_identity
VerifyIdentity ==
    /\ pc = "identity"
    /\ Look(thread[txn.i] = own[txn.i], Goto("command", txn), OpFailed("lost"), OpFailed("error"))

\* What a command makes the thread of txn.i do.
Effect ==
    /\ commands' = commands + 1
    /\ IF txn.op = "commit"
       THEN committed' = [committed EXCEPT ![txn.i] = foreign] /\ UNCHANGED published
       ELSE /\ published' = [published EXCEPT ![txn.i] =
                                [command |-> commands + 1, pid |-> thread[txn.i]]]
            /\ UNCHANGED committed
    /\ strayed' = (strayed \/ thread[txn.i] # own[txn.i])
    /\ UNCHANGED <<thread, nextPid, foreign>>

AfterCommand ==
    CASE txn.op = "refresh" -> pc' = "read" /\ txn' = [txn EXCEPT !.asked = commands + 1]
      [] txn.op = "command" -> pc' = "confirm" /\ UNCHANGED txn
      [] txn.op = "commit" -> pc' = "files" /\ txn' = [txn EXCEPT !.again = TRUE]

\* Mutant: a command without a thread counts as busy.
CommandMutant ==
    /\ pc = "command"
    /\ \/ thread[txn.i] # 0 /\ Effect /\ AfterCommand
       \/ thread[txn.i] = 0 /\ Goto("command", txn) /\ UNCHANGED kernelVars
    /\ UNCHANGED <<own, result, budgets>>

\* retry_busy(command): a busy kdamond gets the command again, whoever runs it
\* then; without a thread the command is refused.
Command ==
    /\ pc = "command"
    /\ \/ /\ thread[txn.i] # 0
          /\ Effect
          /\ AfterCommand
          /\ UNCHANGED <<own, result, faults>>
       \/ /\ thread[txn.i] = 0
          /\ OpFailed("error")
          /\ UNCHANGED <<kernelVars, own, faults>>
       \/ /\ faults < MaxFaults
          /\ faults' = faults + 1
          /\ OpFailed("error") \/ Goto("command", txn)
          /\ UNCHANGED <<kernelVars, own>>
    /\ UNCHANGED <<calls, rogue, exits>>

\* scheme.stats() and the like; without the scheme there is no file.
ReadValue ==
    LET next == Goto(IF txn.call = "cached" THEN "files" ELSE "confirm",
                     [txn EXCEPT !.read = published[txn.i], !.again = (txn.call = "cached")])
    IN  /\ pc = "read"
        /\ Look(~foreign, next, next \/ OpFailed("error"), OpFailed("error"))

Delivered ==
    IF txn.op = "command" THEN txn.values
    ELSE txn.values \cup {[op |-> txn.op, i |-> txn.i, asked |-> txn.asked, read |-> txn.read]}

\* verify_identity at the end of the operation; then the closure has the value.
Confirm ==
    /\ pc = "confirm"
    /\ Look(thread[txn.i] = own[txn.i],
            Goto("closure", [txn EXCEPT !.op = "none", !.values = Delivered]),
            OpFailed("lost"), OpFailed("error"))

-----------------------------------------------------------------------------
(* The environment *)

ThreadExits(i) ==
    /\ exits < MaxExits
    /\ exits' = exits + 1
    /\ thread[i] # 0
    /\ thread' = [thread EXCEPT ![i] = 0]
    /\ UNCHANGED <<nextPid, foreign, published, committed, commands>>
    /\ UNCHANGED <<own, pc, txn, result, strayed, calls, rogue, faults>>

\* Another controller starts a thread, has values published, or writes the
\* configuration; it may also put that back.
RogueActs ==
    /\ rogue < MaxRogue
    /\ rogue' = rogue + 1
    /\ \/ /\ \E i \in K :
                /\ thread[i] = 0 /\ nextPid <= MaxPid
                /\ thread' = [thread EXCEPT ![i] = nextPid]
          /\ nextPid' = nextPid + 1
          /\ UNCHANGED <<foreign, published, commands>>
       \/ /\ \E i \in K :
                /\ thread[i] # 0
                /\ published' = [published EXCEPT ![i] =
                                    [command |-> commands + 1, pid |-> thread[i]]]
          /\ commands' = commands + 1
          /\ UNCHANGED <<thread, nextPid, foreign>>
       \/ /\ foreign' = ~foreign
          /\ UNCHANGED <<thread, nextPid, published, commands>>
    /\ UNCHANGED <<committed, own, pc, txn, result, strayed, calls, exits, faults>>

-----------------------------------------------------------------------------
Init ==
    /\ own \in {f \in [K -> 0 .. N] : \A i \in K : f[i] \in {0, i + 1}}
    /\ thread = own /\ nextPid = N + 1 /\ foreign = FALSE
    /\ published = [i \in K |-> Nothing]
    /\ committed = [i \in K |-> FALSE] /\ commands = 0
    /\ pc = "idle" /\ txn = NoTxn /\ result = "none" /\ strayed = FALSE
    /\ calls = 0 /\ rogue = 0 /\ exits = 0 /\ faults = 0

Calls == \/ \E name \in Closures : Batch(name)
         \/ \E name \in {"cached", "commit"} : OneKdamond(name)
         \/ IsRunning \/ Inspect

Proceed == \/ CheckFiles \/ CheckThread \/ ReadInspected \/ Operate \/ EndClosure
           \/ Lookup \/ VerifyIdentity \/ Command \/ ReadValue \/ Confirm

Next == Calls \/ Proceed \/ RogueActs \/ \E i \in K : ThreadExits(i)

\* A thread of the program that is in a call goes on with it.
Spec == Init /\ [][Next]_vars /\ WF_vars(Proceed)

-----------------------------------------------------------------------------
(* Properties *)

Succeeded == pc = "idle" /\ result = "ok"

\* RuntimeBatch: a value a successful batch refreshed was published by the
\* session's own thread, for the command of that operation or a later one.
FreshValues ==
    Succeeded => \A v \in txn.values :
        v.op = "refresh" => v.read.pid = own[v.i] /\ v.read.command >= v.asked

\* runtime_batch, commit: when a command reached somebody else's thread, the
\* caller learns that it lost the kdamond (or that the look failed), whatever
\* the closure made of it.
StrayReported == pc = "idle" /\ strayed => result \notin {"ok", "failed"}

\* configuration, capabilities and commit act on the staged files: reading or
\* handing over foreign files takes a controller that writes and puts back.
ActsOnOwnFiles ==
    Succeeded /\ rogue < 2 =>
        /\ ~txn.seen
        /\ txn.call = "commit" => \A i \in txn.scope : ~committed[i]

\* A call ends, however often a kdamond is busy and whatever the closure does.
CallsEnd == pc # "idle" ~> pc = "idle"
=============================================================================
