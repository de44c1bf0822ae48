---------------------------- MODULE CapabilityProbe ----------------------------
(***************************************************************************)
(* Damon::capabilities: under the lock a stopped hierarchy is replaced by  *)
(* representative nodes, values the paths do not speak for are written to  *)
(* see whether the kernel takes them, and what was there before is put     *)
(* back.  Any access may fail, and another controller that ignores the     *)
(* lock may write counts and values or start the kdamond at any time: it   *)
(* can take a child away that is being asked, or write over a value before *)
(* it is read back.  Retries of EBUSY are not visible here: an access      *)
(* fails when they are exhausted.                                          *)
(***************************************************************************)
EXTENDS CapabilityRules, Sequences

CONSTANTS
    Kernels,              \* sets of paths a kernel may have
    Jobs,                 \* values to try: where, which, and how it is undone
    MaxFaults, MaxRogue   \* bounds

VARIABLES
    has,        \* the paths of this kernel
    verdicts,   \* what it did with each value tried: <<path, value, verdict>>
    whole,      \* whose hierarchy this is: "previous", "probe", "torn", a foreign mark
    count,      \* the children staged in it
    value,      \* what the value paths hold
    on,         \* somebody started a kdamond
    pc, step,   \* the program, and how far it is in a list
    trial,      \* candidate and path of the current job
    original,   \* what the job's path held, when it is to be written again
    tested,     \* the semantic capabilities found so far
    features,   \* the capabilities returned
    fingerprint,
    intruder,   \* when another controller last wrote
    faults, rogue

hierarchy == <<whole, count, value, on>>
found == <<verdicts, tested, features>>
vars == <<has, hierarchy, found, pc, step, trial, original, fingerprint, intruder, faults, rogue>>

Tree == [has |-> has, count |-> count]
NoCount == [c \in Counts |-> 0]
ValuePaths == UNION {{Jobs[j].paths[i] : i \in DOMAIN Jobs[j].paths} : j \in DOMAIN Jobs}
Values(j) == {Jobs[j].values[i] : i \in DOMAIN Jobs[j].values}
AllValues == UNION {Values(j) : j \in DOMAIN Jobs}
Defaults == [p \in ValuePaths |-> "default"]
Foreign == {"foreign", "foreign again"}

\* A numbered child appears with its count.  The names of operations are written
\* to one file, and are no values of another.  Values tried at several paths are
\* undone by making the filters they are in anew.
ASSUME KernelsAssumption == \A k \in Kernels : "pfilters" \in k => "pfilter" \in k
ASSUME JobsAssumption ==
    /\ Jobs \in Seq([paths : Seq(STRING), values : Seq(STRING), how : STRING])
    /\ AllValues \cap ({"default"} \cup Foreign) = {}
    /\ \A j \in DOMAIN Jobs :
          IF Jobs[j].how = "reset"
          THEN \A p \in {Jobs[j].paths[i] : i \in DOMAIN Jobs[j].paths} :
                    p \in Paths /\ Below[p] \in {"filters", "core", "ops", "pfilters"}
          ELSE Len(Jobs[j].paths) = 1
    /\ \A j \in DOMAIN Jobs : Jobs[j].how = "operation" =>
          /\ \A i \in DOMAIN Jobs[j].paths : Jobs[j].paths[i] = "operations"
          /\ \A k \in DOMAIN Jobs : Jobs[k].how # "operation" => Values(j) \cap Values(k) = {}

Goto(to) == pc' = to /\ step' = 1 /\ trial' = [value |-> 1, path |-> 1]
NoFault == UNCHANGED faults
Fault == faults < MaxFaults /\ faults' = faults + 1

\* A kdamond that runs, or a failing access, keeps the counts from being written.
Hindered == \/ on /\ NoFault
            \/ ~on /\ Fault
Step(at) == pc = at /\ UNCHANGED <<has, on, intruder, rogue>>

\* A count that is written, the same as before or not, makes what is below it anew.
Within(p, c) == p \in Paths /\ (Below[p] = c \/ (Below[p] \in Paths /\ Below[Below[p]] = c))
Written(c, n) ==
    /\ count' = [d \in Counts |-> IF d = c THEN n ELSE IF Within(d, c) THEN 0 ELSE count[d]]
    /\ value' = [p \in ValuePaths |-> IF Within(p, c) THEN "default" ELSE value[p]]

-----------------------------------------------------------------------------
(* Staging *)

\* ensure_hierarchy_stopped, the snapshot, and its second look
Open ==
    /\ Step("open")
    /\ \/ ~on /\ NoFault /\ Goto("reconstruct")
       \/ Hindered /\ Goto("failed")
    /\ UNCHANGED <<whole, count, value, found, original, fingerprint>>

Reconstruct ==
    /\ Step("reconstruct")
    /\ \/ ~on /\ NoFault /\ whole' = "probe" /\ count' = NoCount /\ value' = Defaults /\ Goto("stage")
       \/ Hindered /\ UNCHANGED <<whole, count, value>> /\ Goto("undo")
    /\ UNCHANGED <<found, original, fingerprint>>

\* stage_capability_probe: one child of everything that can have one
Order == <<"target", "goals", "core", "ops", "filters", "probes", "pfilters", "preps">>
CanStage(c) == c = "target" \/ Exists(Tree, c)
StageChild ==
    /\ Step("stage") /\ step <= Len(Order)
    /\ \/ NoFault /\ step' = step + 1 /\ UNCHANGED <<pc, trial>>
          /\ IF CanStage(Order[step]) THEN Written(Order[step], 1) ELSE UNCHANGED <<count, value>>
       \/ Fault /\ Goto("undo") /\ UNCHANGED <<count, value>>
    /\ UNCHANGED <<whole, found, original, fingerprint>>
Staged == Step("stage") /\ step = Len(Order) + 1 /\ Goto("job")
          /\ UNCHANGED <<whole, count, value, found, original, fingerprint, faults>>

-----------------------------------------------------------------------------
(* Trying values: probe_accepted_values, probe_accepted_values_preserving, *)
(* probe_operations.                                                       *)

Job == Jobs[step]
Candidate == Job.values[trial.value]
Path == Job.paths[trial.path]
JobPaths == {Job.paths[i] : i \in DOMAIN Job.paths}
Ask == pc' = "try" /\ trial' = [value |-> 1, path |-> 1]
NextJob == pc' = "job" /\ step' = step + 1 /\ trial' = [value |-> 1, path |-> 1]
\* operations can always be written, and are tried on kernels without a list.
There(p) == IF p = "operations" THEN "avail" \notin has ELSE Exists(Tree, p)
Renewed == {Below[p] : p \in JobPaths} \cap {c \in Counts : Exists(Tree, c)}
Trying == Step("try") /\ trial.value <= Len(Job.values)
Accepted == IF Job.how = "operation" THEN Unverified ELSE Supported
Found(support) == tested' = [tested EXCEPT ![Candidate] = support]
NextValue == trial' = [value |-> trial.value + 1, path |-> 1]

\* Mutant: a kernel that refuses a value at one path is not asked elsewhere.
TryNextMutant(p) == NextValue
TryNext(p) == trial' = [trial EXCEPT !.path = @ + 1]

\* A single path is read before it is written, and skipped when it is not there.
StartJob ==
    /\ Step("job") /\ step <= Len(Jobs)
    /\ \/ Job.how = "reset" /\ NoFault /\ Ask /\ UNCHANGED <<step, original>>
       \/ /\ Job.how # "reset" /\ NoFault
          /\ IF There(Job.paths[1])
             THEN Ask /\ original' = value[Job.paths[1]] /\ UNCHANGED step
             ELSE NextJob /\ UNCHANGED original
       \/ Job.how # "reset" /\ There(Job.paths[1]) /\ Fault /\ Goto("undo") /\ UNCHANGED original
    /\ UNCHANGED <<whole, count, value, found, fingerprint>>

\* Written and to be read back, written but not kept, or refused with EINVAL.
\* A path of several that is not there is passed over, the only one is an error.
TryValue ==
    /\ Trying /\ trial.path <= Len(Job.paths)
    /\ \/ /\ There(Path) /\ NoFault
          /\ \E verdict \in {"taken", "ignored", "refused"} :
              /\ \A v \in verdicts : v[1] = Path /\ v[2] = Candidate => v[3] = verdict
              /\ verdicts' = verdicts \cup {<<Path, Candidate, verdict>>}
              /\ value' = IF verdict = "taken" THEN [value EXCEPT ![Path] = Candidate] ELSE value
              /\ IF verdict = "refused" THEN TryNext(Path) /\ UNCHANGED pc
                                        ELSE pc' = "read_back" /\ UNCHANGED trial
       \/ There(Path) /\ Fault /\ pc' = "reset_failed" /\ UNCHANGED <<verdicts, value, trial>>
       \/ /\ ~There(Path) /\ NoFault /\ UNCHANGED <<verdicts, value>>
          /\ IF Job.how = "reset" THEN TryNext(Path) /\ UNCHANGED pc
                                  ELSE pc' = "reset_failed" /\ UNCHANGED trial
    /\ UNCHANGED <<whole, count, tested, features, step, original, fingerprint>>
ReadBack ==
    /\ Step("read_back")
    /\ \/ There(Path) /\ NoFault /\ pc' = "try"
          /\ IF value[Path] = Candidate THEN Found(Accepted) /\ NextValue
                                       ELSE UNCHANGED tested /\ TryNext(Path)
       \/ (IF There(Path) THEN Fault ELSE NoFault) /\ pc' = "reset_failed" /\ UNCHANGED <<tested, trial>>
    /\ UNCHANGED <<whole, count, value, verdicts, features, step, original, fingerprint>>
ValueExhausted ==
    /\ Trying /\ trial.path = Len(Job.paths) + 1
    /\ NextValue
    /\ UNCHANGED <<whole, count, value, found, pc, step, original, fingerprint, faults>>
ValuesTried ==
    /\ Step("try") /\ trial.value = Len(Job.values) + 1
    /\ pc' = "reset"
    /\ UNCHANGED <<whole, count, value, found, step, trial, original, fingerprint, faults>>

\* The children are made anew, or what was read is written again.
WriteBack ==
    IF Job.how = "reset"
    THEN /\ count' = [c \in Counts |-> IF c \in Renewed THEN 1 ELSE count[c]]
         /\ value' = [p \in ValuePaths |->
                IF p \in Paths /\ Below[p] \in Renewed THEN "default" ELSE value[p]]
    ELSE value' = [value EXCEPT ![Job.paths[1]] = original] /\ UNCHANGED count

CanWriteBack == Job.how = "reset" \/ There(Job.paths[1])
Reset ==
    /\ \/ Step("reset") /\ CanWriteBack /\ NoFault /\ WriteBack /\ NextJob
       \/ Step("reset_failed") /\ CanWriteBack /\ NoFault /\ WriteBack /\ Goto("undo")
       \/ /\ Step("reset") \/ Step("reset_failed")
          /\ IF CanWriteBack THEN Job.how = "reset" => Renewed # {} ELSE TRUE
          /\ IF CanWriteBack THEN Fault ELSE NoFault
          /\ Goto("undo") /\ UNCHANGED <<count, value>>
    /\ UNCHANGED <<whole, found, original, fingerprint>>

-----------------------------------------------------------------------------
(* The answer, and the way back *)

\* The passive capabilities, the fingerprint of what they were read from, and the
\* operations of the kernel's list when it has one.
OperationNames == UNION {Values(j) : j \in {k \in DOMAIN Jobs : Jobs[k].how = "operation"}}
ListedIn(listed) ==
    [v \in AllValues |-> IF v \notin OperationNames THEN tested[v]
                         ELSE IF v \in listed THEN Supported ELSE Unsupported]
Capture ==
    /\ Step("job") /\ step = Len(Jobs) + 1
    /\ \/ NoFault /\ features' = all_capabilities(Tree) /\ fingerprint' = <<whole, count, value>>
          /\ Goto("check")
          /\ IF "avail" \in has THEN \E listed \in SUBSET OperationNames : tested' = ListedIn(listed)
                                ELSE UNCHANGED tested
       \/ Fault /\ Goto("undo") /\ UNCHANGED <<features, tested, fingerprint>>
    /\ UNCHANGED <<whole, count, value, verdicts, original>>

\* Mutant: only the state of the kdamond is looked at.
CheckMutant ==
    /\ Step("check")
    /\ ~on /\ NoFault /\ Goto("restore")
    /\ UNCHANGED <<whole, count, value, found, original, fingerprint>>

\* restore_after_capability_probe
Untouched == fingerprint = <<whole, count, value>> /\ ~on
Check ==
    /\ Step("check")
    /\ \/ Untouched /\ NoFault /\ Goto("restore")
       \/ ~Untouched /\ NoFault /\ Goto("lost")
       \/ Fault /\ Goto("unrestored")
    /\ UNCHANGED <<whole, count, value, found, original, fingerprint>>

\* restore_configuration
PutBack == ~on /\ NoFault /\ whole' = "previous" /\ count' = NoCount /\ value' = Defaults
Stuck == /\ Hindered
         /\ whole' \in {whole, "torn"} /\ UNCHANGED <<count, value>>
Restore ==
    /\ Step("restore")
    /\ \/ PutBack /\ Goto("ok")
       \/ Stuck /\ Goto("unrestored")
    /\ UNCHANGED <<found, original, fingerprint>>

Undo ==
    /\ Step("undo")
    /\ \/ PutBack /\ Goto("failed")
       \/ Stuck /\ Goto("rollback_failed")
    /\ UNCHANGED <<found, original, fingerprint>>

-----------------------------------------------------------------------------
(* The environment and the specification *)

Ends == {"ok", "failed", "lost", "unrestored", "rollback_failed"}
When == CASE pc \in {"open", "reconstruct"} -> "before"
          [] pc = "check" -> "captured"
          [] pc \in {"restore", "undo"} -> "late"
          [] OTHER -> "probing"
Outside ==
    /\ rogue < MaxRogue /\ pc \notin Ends
    /\ rogue' = rogue + 1 /\ intruder' = When
    /\ UNCHANGED <<has, found, pc, step, trial, original, fingerprint, faults>>
\* Any file, a count among them or a value under trial.  A write that leaves
\* what was there before, or was captured, is none.
RogueWrites ==
    /\ Outside /\ UNCHANGED on
    /\ whole' = (IF whole = "foreign" THEN "foreign again" ELSE "foreign")
    /\ pc = "check" => whole' # fingerprint[1]
    /\ \/ UNCHANGED <<count, value>>
       \/ \E c \in Counts, n \in {0, 1} : (c = "target" \/ Exists(Tree, c)) /\ Written(c, n)
       \/ \E p \in ValuePaths : There(p) /\ value' = [value EXCEPT ![p] = "foreign"] /\ UNCHANGED count
RogueStarts == Outside /\ on' = TRUE /\ UNCHANGED <<whole, count, value>>

Init ==
    /\ has \in Kernels /\ verdicts = {}
    /\ whole = "previous" /\ count = NoCount /\ value = Defaults /\ on \in BOOLEAN
    /\ pc = "open" /\ step = 1 /\ trial = [value |-> 1, path |-> 1] /\ original = "default"
    /\ tested = [v \in AllValues |-> Unsupported]
    /\ features = [f \in Features |-> Unsupported] /\ fingerprint = <<>>
    /\ intruder = "never" /\ faults = 0 /\ rogue = 0

Program == Open \/ Reconstruct \/ StageChild \/ Staged \/ StartJob \/ TryValue \/ ReadBack
           \/ ValueExhausted \/ ValuesTried \/ Reset \/ Capture \/ Check \/ Restore \/ Undo
Next == Program \/ RogueWrites \/ RogueStarts

Spec == Init /\ [][Next]_vars

-----------------------------------------------------------------------------
(* Properties *)

\* A call that ends with an answer or a plain error has put back what was there,
\* whatever step failed, unless another controller wrote.
PreviousIsBack ==
    pc \in {"ok", "failed"} /\ intruder = "never" => whole = "previous" /\ value = Defaults

\* A change another controller made to the probed nodes after they were captured
\* is never written over.
KeepsForeign ==
    intruder = "captured" => whole \in Foreign \/ on

\* Whoever writes when, the probe leaves the hierarchy to those it belongs to.
LeavesHierarchy == PreviousIsBack /\ KeepsForeign

\* What another controller does before the probe counts its kdamond is wiped, and
\* what it does after the capture comes too late for the answer.
Undisturbed == intruder \in {"never", "before"}

\* The values tried do not outlive their trial: what is captured, and what the
\* paths are read from, is the hierarchy that was staged.
TrialsUndone == pc = "check" /\ Undisturbed => value = Defaults

\* Whoever writes when, support is never invented: the kernel has what a supported
\* feature needs, and a place took, or a list names, each supported value.
NothingInvented ==
    pc = "check" =>
        /\ \A f \in Features : features[f] \in {Unverified, Supported} => Has(has, f)
        /\ \A v \in AllValues : tested[v] # Unsupported =>
                \/ v \in OperationNames /\ "avail" \in has
                \/ \E p \in ValuePaths : <<p, v, "taken">> \in verdicts

\* Undisturbed, the answer is complete as well: nothing is left to be staged, a path
\* feature the kernel has is not denied, and a value is refused only after every
\* place that could take it was asked and did not.
NothingDenied ==
    pc = "check" /\ Undisturbed =>
        /\ \A f \in Features :
            /\ features[f] # RequiresStaging
            /\ features[f] # Unsupported <=> Has(has, f)
        /\ \A j \in DOMAIN Jobs : \A v \in Values(j), i \in DOMAIN Jobs[j].paths :
            LET p == Jobs[j].paths[i]
                Verdict(w) == <<p, v, w>> \in verdicts
            IN  /\ Verdict("taken") => tested[v] # Unsupported
                /\ tested[v] = Unsupported /\ There(p) => Verdict("ignored") \/ Verdict("refused")

\* What the active probe reports is the kernel's doing and not its own, nor that
\* of another controller: that one can hide support, but not feign it.
ReportsKernel == TrialsUndone /\ NothingInvented /\ NothingDenied

=============================================================================
