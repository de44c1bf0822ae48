----------------------------- MODULE DamonLeaves -----------------------------
(***************************************************************************)
(* The admin interface leaf by leaf, for the transactions that change the  *)
(* configuration of kdamonds that already exist: which leaves a staging    *)
(* writes, what a fingerprint compares, which paths a rollback restores,   *)
(* and what the commit commands hand to the kernel thread.                 *)
(*                                                                         *)
(* A leaf is a number; numbers follow the order in which a directory is    *)
(* staged and restored, a count before the leaves below it.                *)
(***************************************************************************)
EXTENDS Integers, FiniteSets, Sequences

CONSTANTS
    N,        \* number of kdamonds
    Leaves,   \* writable configuration leaves, a set of numbers
    Dir,      \* Dir[l]: the kdamond l belongs to
    Typed,    \* the leaves DamonConfig knows
    Tuned,    \* typed leaves the kernel rewrites (StagedOwnership.volatile_paths)
    Counts,   \* typed leaves whose write rebuilds a directory (nr_*)
    Under,    \* Under[c]: the leaves of the directory c rebuilds
    Made,     \* Made[c][v]: those that exist when c is v
    Values,
    Fresh,    \* the value of a rebuilt leaf
    Gone,     \* a child marked for removal (obsolete_target)
    Absent    \* "no such file"

K == 0 .. N - 1

ASSUME NAssumption == N \in Nat \ {0}
ASSUME LeavesAssumption ==
    /\ Leaves \subseteq Nat
    /\ Dir \in [Leaves -> K]
    /\ Typed \subseteq Leaves
    /\ Tuned \subseteq Typed
    /\ Counts \subseteq Typed \ Tuned
    /\ Under \in [Counts -> SUBSET Leaves]
    /\ Made \in [Counts -> [Values -> SUBSET Leaves]]
\* The counts of the directories that l lies in, and the innermost of them.
Above(l) == {c \in Counts : l \in Under[c]}
Nearest(c, l) == c \in Above(l) /\ \A d \in Above(l) : d = c \/ c \in Under[d]

\* Directories form a tree; a rebuilt directory has the files and the empty
\* directories of its own, and nothing below those.
ASSUME TreeAssumption ==
    /\ \A c \in Counts : \A l \in Under[c] : c < l /\ Dir[l] = Dir[c]
    /\ \A c \in Counts : \A d \in Counts \cap Under[c] : Under[d] \subseteq Under[c]
    /\ \A l \in Leaves : Above(l) # {} => \E c \in Counts : Nearest(c, l)
    /\ \A c \in Counts : Made[c][Fresh] = {}
    /\ \A c \in Counts : \A v \in Values : \A l \in Made[c][v] : Nearest(c, l)
ASSUME ValuesAssumption == Fresh \in Values /\ Gone \in Values /\ Absent \notin Values

VARIABLES
    leaf,     \* leaf[l]: the value of the file
    active,   \* active[l]: the value the kernel thread of Dir[l] works with
    thread,   \* thread[i]: pid of the running kernel thread, 0 when it is off
    nextPid   \* the pid the next kernel thread gets

kernelVars == <<leaf, active, thread, nextPid>>

Contents == [Leaves -> Values \cup {Absent}]
On(i) == thread[i] # 0
Exists(l) == leaf[l] # Absent
LeavesOf(i) == {l \in Leaves : Dir[l] = i}

\* What is known of some leaves (a configuration) or of all.
Configurations == UNION {[D -> Values \cup {Absent}] : D \in SUBSET Typed}

\* Every directory has exactly the children its count says; f may begin below
\* a counted directory, which is there.
Shaped(f) ==
    \A l \in DOMAIN f :
        IF Above(l) \cap DOMAIN f = {} THEN f[l] # Absent
        ELSE \A c \in Counts : Nearest(c, l) =>
                /\ c \in DOMAIN f
                /\ f[l] # Absent <=> f[c] # Absent /\ l \in Made[c][f[c]]

-----------------------------------------------------------------------------
(* Kernel operations *)

\* Writing a count rebuilds the directory it counts.
Written(l, v) ==
    [m \in Leaves |->
        IF m = l THEN v
        ELSE IF l \in Counts /\ m \in Under[l]
        THEN IF m \in Made[l][v] THEN Fresh ELSE Absent
        ELSE leaf[m]]

WriteLeaf(l, v) ==
    /\ Exists(l)
    /\ leaf' = Written(l, v)
    /\ UNCHANGED <<active, thread, nextPid>>

\* The thread of kdamond i takes over the files in ls.
CommitLeaves(i, ls) ==
    /\ On(i)
    /\ active' = [l \in Leaves |-> IF l \in ls THEN leaf[l] ELSE active[l]]
    /\ UNCHANGED <<leaf, thread, nextPid>>

StartThread(i) ==
    /\ ~On(i)
    /\ thread' = [thread EXCEPT ![i] = nextPid]
    /\ nextPid' = nextPid + 1
    /\ active' = [l \in Leaves |-> IF Dir[l] = i THEN leaf[l] ELSE active[l]]
    /\ UNCHANGED leaf

EndThread(i) ==
    /\ On(i)
    /\ thread' = [thread EXCEPT ![i] = 0]
    /\ UNCHANGED <<leaf, active, nextPid>>

\* An auto-tuning kdamond publishes an interval.
TuneLeaf(l, v) ==
    /\ l \in Tuned
    /\ On(Dir[l])
    /\ leaf[l] # v
    /\ WriteLeaf(l, v)

-----------------------------------------------------------------------------
(* Staging *)

\* Where the child m is, among the children c counts.
Position(c, m) == Cardinality({x \in Under[c] \cap Typed : x <= m})

\* A count that differs from the observed one leaves no child to compare with.
Resized(goal, from, l) ==
    \E c \in Counts \cap DOMAIN goal : l \in Under[c] /\ from[c] # goal[c]

\* The leaves a staging of goal accesses, when from was observed before.
\* Counts are read even when they do not change; a kdamond whose observed
\* configuration equals the request is not accessed at all.
ToStage(goal, from) ==
    {l \in DOMAIN goal :
        /\ goal[l] # Absent
        /\ \E m \in DOMAIN goal : Dir[m] = Dir[l] /\ goal[m] # from[m]
        /\ l \in Counts \/ goal[l] # from[l] \/ Resized(goal, from, l)}

\* The element of a set that has just one.
TheOne(S) == CHOOSE x \in S : TRUE

\* The targets below c that stay, and the one that moves to where l was.
Kept(goal, c) == {x \in Under[c] \cap Typed : goal[x] \notin {Gone, Absent}}
Heir(goal, c, l) ==
    {x \in Kept(goal, c) : Cardinality({y \in Kept(goal, c) : y <= x}) = Position(c, l)}

\* The counts with a marked target, and those of them that list l.
Marked(goal) == {c \in Counts : \E x \in Under[c] \cap Typed : goal[x] = Gone}
MarkedAbove(goal, l) == {c \in Marked(goal) : l \in Under[c]}

\* without_obsolete_targets: in the kdamonds of sel the children marked Gone
\* go, the others close up, and the count follows. A child is one typed leaf.
Cleaned(goal, sel) ==
    [l \in DOMAIN goal |->
        IF Dir[l] \notin sel THEN goal[l]
        ELSE IF l \in Marked(goal) THEN Cardinality(Kept(goal, l))
        ELSE IF MarkedAbove(goal, l) = {} THEN goal[l]
        ELSE LET heir == Heir(goal, TheOne(MarkedAbove(goal, l)), l)
             IN  IF heir = {} THEN Absent ELSE goal[TheOne(heir)]]

Least(ls) == CHOOSE l \in ls : \A m \in ls : l <= m

-----------------------------------------------------------------------------
(* Fingerprints and restoration *)

\* ConfigurationFingerprint::matches_current_except: the captured leaves are
\* read one by one; a leaf that appeared since is not noticed.
MatchesExcept(snapshot, ignored) ==
    \A l \in Leaves \ ignored : snapshot[l] # Absent => leaf[l] = snapshot[l]

\* Mutant: what lies below a written count is forgotten.
AffectedByMutant(snapshot, writes) == writes

\* ConfigurationSnapshot::paths_affected_by_writes
AffectedBy(snapshot, writes) ==
    writes \cup
    {l \in Leaves : snapshot[l] # Absent
                    /\ \E c \in writes \cap Counts : l \in Under[c]}

\* Mutant: everything captured is restored.
ToRestoreMutant(snapshot, paths) == {l \in Leaves : snapshot[l] # Absent}

\* What restore_paths_except visits.
ToRestore(snapshot, paths) ==
    {l \in paths \ Tuned : snapshot[l] # Absent}

\* A count is written even when it matches.
MustRestore(snapshot, l) == l \in Counts \/ leaf[l] # snapshot[l]

RestoredMatches(snapshot, paths) ==
    \A l \in ToRestore(snapshot, paths) : leaf[l] = snapshot[l]
=============================================================================
