---------------------------- MODULE ReplaceStaged ----------------------------
(***************************************************************************)
(* ManagedHierarchy::replace_staged_configuration: a session that has not  *)
(* started its kdamonds stages another configuration.  The high-level      *)
(* monitors do so while they look for the target filter.  A failure is     *)
(* answered by staging the configuration that was read before.             *)
(***************************************************************************)
EXTENDS DamonLeaves

CONSTANTS
    Requests,        \* the configurations asked for: typed leaf -> value
    InitialLeaves,   \* the hierarchies the session staged
    RogueWritable,   \* <<leaf, value>>: what a foreign controller writes
    Misstored,       \* what the kernel may store instead of a written value
    MaxPid, MaxCalls, MaxRogue, MaxFaults   \* bounds

\* A configuration counts what it lists, and so does a hierarchy.
Known == [Typed -> Values \cup {Absent}]
ASSUME RequestsAssumption == \A r \in Requests : r \in Known /\ Shaped(r)
ASSUME InitialAssumption ==
    \A f \in InitialLeaves : f \in Contents /\ Shaped(f)
ASSUME RogueAssumption ==
    RogueWritable \subseteq Leaves \X Values /\ Misstored \subseteq Values
ASSUME BoundsAssumption ==
    MaxPid \in Nat /\ MaxCalls \in Nat /\ MaxRogue \in Nat /\ MaxFaults \in Nat

VARIABLES
    staged,    \* StagedOwnership.configuration
    pc,        \* the next step of the call in progress
    txn,       \* its local variables
    result,    \* how the last call returned
    calls, rogue, faults   \* budgets

budgets == <<calls, rogue, faults>>
vars == <<kernelVars, staged, pc, txn, result, budgets>>

CheckPCs == {"verify", "stopped", "read", "verify_again"}
StagePCs == {"stage_stopped", "stage", "staged_stopped", "snapshot", "compare",
             "values", "adopt"}
PCs == {"idle"} \cup CheckPCs \cup StagePCs
Results == {"none", "ok", "rejected", "failed", "rollback_failed"}

Nothing == [l \in {} |-> Absent]

\* Staging without an observed configuration writes every leaf.
Unobserved == [l \in Typed |-> Absent]

NoTxn == [goal |-> Nothing, from |-> Nothing, previous |-> Nothing, todo |-> {},
          captured |-> Nothing, undoing |-> FALSE, began |-> Nothing]

Locals ==
    [goal : Known, from : Known \cup {Nothing}, previous : Known \cup {Nothing},
     todo : SUBSET Typed, captured : Contents \cup {Nothing}, undoing : BOOLEAN,
     began : Contents]

\* ensure_hierarchy_stopped
AllStopped == \A i \in K : ~On(i)

Verified == MatchesExcept(staged, Tuned)

-----------------------------------------------------------------------------
(* Control *)

Advance(l, t) ==
    /\ pc' = l
    /\ txn' = t
    /\ UNCHANGED result

Return(r) ==
    /\ pc' = "idle"
    /\ txn' = NoTxn
    /\ result' = r

\* Mutant: the preceding configuration is staged like an update of itself.
FailMutant ==
    IF pc \in CheckPCs THEN Return("rejected")
    ELSE IF txn.undoing THEN Return("rollback_failed")
    ELSE Advance("stage_stopped",
                 [txn EXCEPT !.undoing = TRUE, !.goal = txn.previous,
                             !.from = txn.previous, !.todo = {},
                             !.captured = Nothing])

\* Before the staging the call just returns; a failing staging is followed by
\* one of the preceding configuration, and that one failing ends the call.
Fail ==
    IF pc \in CheckPCs THEN Return("rejected")
    ELSE IF txn.undoing THEN Return("rollback_failed")
    ELSE Advance("stage_stopped",
                 [txn EXCEPT !.undoing = TRUE, !.goal = txn.previous,
                             !.from = Unobserved, !.todo = {},
                             !.captured = Nothing])

Look(cond, l, t) ==
    /\ IF cond THEN Advance(l, t) ELSE Fail
    /\ UNCHANGED <<kernelVars, staged, budgets>>

-----------------------------------------------------------------------------
(* replace_staged_configuration *)

Call ==
    /\ pc = "idle"
    /\ calls < MaxCalls
    /\ calls' = calls + 1
    /\ \E r \in Requests :
            Advance("verify", [NoTxn EXCEPT !.goal = r, !.began = leaf])
    /\ UNCHANGED <<kernelVars, staged, rogue, faults>>

Verify ==
    /\ pc = "verify"
    /\ Look(Verified, "stopped", txn)

VerifyStopped ==
    /\ pc = "stopped"
    /\ Look(AllStopped, "read", txn)

ReadPrevious ==
    LET previous == [l \in Typed |-> leaf[l]] IN
    /\ pc = "read"
    /\ Look(TRUE, "verify_again", [txn EXCEPT !.previous = previous,
                                              !.from = previous])

VerifyAgain ==
    /\ pc = "verify_again"
    /\ Look(Verified, "stage_stopped", txn)

-----------------------------------------------------------------------------
(* stage_and_verify_configuration *)

StartStaging ==
    /\ pc = "stage_stopped"
    /\ Look(AllStopped, "stage",
            [txn EXCEPT !.todo = ToStage(txn.goal, txn.from)])

StageLeaf ==
    LET l == Least(txn.todo)
        rest == [txn EXCEPT !.todo = @ \ {l}]
        matching == l \in Counts /\ leaf[l] = txn.goal[l]
    IN  /\ pc = "stage"
        /\ txn.todo # {}
        /\ \/ /\ matching
              /\ Look(TRUE, "stage", rest)
           \/ /\ ~matching
              /\ \/ /\ WriteLeaf(l, txn.goal[l])
                    /\ UNCHANGED faults
                 \/ /\ l \notin Counts
                    /\ faults < MaxFaults
                    /\ faults' = faults + 1
                    /\ \E v \in Misstored \ {txn.goal[l]} : WriteLeaf(l, v)
              /\ Advance("stage", rest)
              /\ UNCHANGED <<staged, calls, rogue>>
           \/ /\ ~Exists(l)
              /\ Look(FALSE, "stage", rest)

StagingDone ==
    /\ pc = "stage"
    /\ txn.todo = {}
    /\ Look(TRUE, "staged_stopped", txn)

VerifyStagedStopped ==
    /\ pc = "staged_stopped"
    /\ Look(AllStopped, "snapshot", txn)

CaptureStaged ==
    /\ pc = "snapshot"
    /\ Look(TRUE, "compare", [txn EXCEPT !.captured = leaf])

\* Mutant: the staged configuration is not read back.
CompareTypedMutant == pc = "compare" /\ Look(TRUE, "values", txn)

CompareTyped ==
    /\ pc = "compare"
    /\ Look(\A l \in Typed : leaf[l] = txn.goal[l], "values", txn)

ValuesMatch ==
    /\ pc = "values"
    /\ Look(MatchesExcept(txn.captured, {}), "adopt", txn)

\* The last look at the kdamonds, then the captured hierarchy becomes the
\* owned one.
Adopt ==
    /\ pc = "adopt"
    /\ IF AllStopped
       THEN /\ staged' = txn.captured
            /\ Return(IF txn.undoing THEN "failed" ELSE "ok")
       ELSE Fail /\ UNCHANGED staged
    /\ UNCHANGED <<kernelVars, budgets>>

-----------------------------------------------------------------------------
(* Failing accesses and a foreign controller *)

IoError ==
    /\ pc # "idle"
    /\ faults < MaxFaults
    /\ faults' = faults + 1
    /\ Fail
    /\ UNCHANGED <<kernelVars, staged, calls, rogue>>

TransientBusy ==
    /\ pc = "stage"
    /\ faults < MaxFaults
    /\ faults' = faults + 1
    /\ Advance("stage_stopped", [txn EXCEPT !.todo = {}])
    /\ UNCHANGED <<kernelVars, staged, calls, rogue>>

RogueActs ==
    /\ rogue < MaxRogue
    /\ rogue' = rogue + 1
    /\ \/ \E w \in RogueWritable : leaf[w[1]] # w[2] /\ WriteLeaf(w[1], w[2])
       \/ \E i \in K : nextPid <= MaxPid /\ StartThread(i)
       \/ \E i \in K : EndThread(i)
    /\ UNCHANGED <<staged, pc, txn, result, calls, faults>>
-----------------------------------------------------------------------------
(* Specification *)

Init ==
    /\ leaf \in InitialLeaves
    /\ active = leaf
    /\ thread = [i \in K |-> 0]
    /\ nextPid = 1
    /\ staged = leaf
    /\ pc = "idle"
    /\ txn = NoTxn
    /\ result = "none"
    /\ calls = 0 /\ rogue = 0 /\ faults = 0

Prepare == Verify \/ VerifyStopped \/ ReadPrevious \/ VerifyAgain
StageAndVerify == StartStaging \/ StageLeaf \/ StagingDone \/ VerifyStagedStopped
                  \/ CaptureStaged \/ CompareTyped \/ ValuesMatch \/ Adopt
Proceed == Prepare \/ StageAndVerify

Next == Call \/ Proceed \/ IoError \/ TransientBusy \/ RogueActs

Spec == Init /\ [][Next]_vars /\ WF_vars(Proceed)

-----------------------------------------------------------------------------
(* Properties *)

\* Every variable has its type; the record of locals exists only during a call.
TypeOK ==
    /\ leaf \in Contents /\ active \in Contents /\ staged \in Contents
    /\ thread \in [K -> 0 .. MaxPid] /\ nextPid \in 1 .. MaxPid + 1
    /\ pc \in PCs /\ result \in Results
    /\ IF pc = "idle" THEN txn = NoTxn ELSE txn \in Locals
    /\ calls \in 0 .. MaxCalls /\ rogue \in 0 .. MaxRogue /\ faults \in 0 .. MaxFaults

Returns == pc # "idle" /\ pc' = "idle"

\* With at most one failing access and nobody interfering the configuration is
\* replaced, or the preceding known attributes are back; never neither.
ReplaceAtomic ==
    [][Returns /\ rogue = 0 /\ faults' <= 1 =>
        /\ result' # "rollback_failed"
        /\ \A l \in Typed :
            leaf'[l] = IF result' = "ok" THEN txn.goal[l] ELSE txn.began[l]]_vars

\* Whoever interferes and whatever the kernel stores instead of a value, the
\* session takes ownership only of what it staged.  Three deviations between its
\* reads (away, back and away again) are beyond what the comparisons can tell.
OwnsWhatItStaged ==
    [][staged' # staged /\ rogue + faults <= 2 => \A l \in Typed : staged'[l] = txn.goal[l]]_vars

=============================================================================
