----------------------------- MODULE DamonSysfs -----------------------------
(***************************************************************************)
(* The kernel side of the DAMON admin interface as the library sees it:    *)
(* kdamonds/nr_kdamonds, the writable configuration of every kdamond       *)
(* directory, and the state and pid files that show its kernel thread.     *)
(* The kernel is not part of the repository; its behaviour is taken from   *)
(* how the library uses the files and from the in-memory model that the    *)
(* library's own tests run against (src/src/sysfs/test_backend).           *)
(*                                                                         *)
(* A kdamond's writable configuration is one value, except for the leaves  *)
(* that the kernel itself rewrites while interval auto-tuning is on        *)
(* (sample_us and aggr_us), which are kept apart in tune.                  *)
(***************************************************************************)
EXTENDS Integers

CONSTANTS
    N,              \* number of kdamonds the session's configuration asks for
    MaxPid,         \* the kernel can start at most this many threads
    Values,         \* writable configurations of one kdamond directory
    Default,        \* the configuration of a directory nr_kdamonds created
    Mixed,          \* a directory that was only partly written
    Runnable,       \* the configurations the "on" command accepts
    Absent,         \* "no such kdamond directory"
    AutoTuned       \* kdamonds whose requested intervals are auto-tuned

K == 0 .. N - 1

ASSUME NAssumption == N \in Nat \ {0}
ASSUME MaxPidAssumption == MaxPid \in Nat
ASSUME ValuesAssumption ==
    /\ Default \in Values
    /\ Mixed \in Values
    /\ Runnable \subseteq Values
    /\ Absent \notin Values
ASSUME AutoTunedAssumption == AutoTuned \subseteq K

VARIABLES
    hier,     \* hier[i]: the writable configuration of kdamond i
    tune,     \* tune[i] = 1 iff the kernel moved i's auto-tuned intervals
    thread,   \* thread[i]: pid of the running kernel thread, 0 when it is off
    nextPid   \* the pid the next kernel thread gets

kernelVars == <<hier, tune, thread, nextPid>>

\* Directories are numbered from zero without gaps.
Hierarchy ==
    {h \in [K -> Values \cup {Absent}] :
        \A i, j \in K : i < j /\ h[i] = Absent => h[j] = Absent}

NoThread == [i \in K |-> 0]
Untuned == [i \in K |-> 0]

Present(h) == {i \in K : h[i] # Absent}
On(i) == thread[i] # 0
AllOff == \A i \in K : ~On(i)

\* The result of writing nr_kdamonds: every directory is rebuilt.
Rebuilt(dirs) == [i \in K |-> IF i \in dirs THEN Default ELSE Absent]

-----------------------------------------------------------------------------
\* Writing nr_kdamonds is refused with EBUSY while any kdamond runs.
SetCount(dirs) ==
    /\ AllOff
    /\ hier' = Rebuilt(dirs)
    /\ tune' = Untuned
    /\ UNCHANGED <<thread, nextPid>>

\* The writes below one kdamond directory leave value v there.
WriteDirectory(i, v, t) ==
    /\ hier' = [hier EXCEPT ![i] = v]
    /\ tune' = [tune EXCEPT ![i] = t]
    /\ UNCHANGED <<thread, nextPid>>

CanStart(i) == ~On(i) /\ hier[i] \in Runnable /\ nextPid <= MaxPid

\* state <- "on"
CommandOn(i) ==
    /\ CanStart(i)
    /\ thread' = [thread EXCEPT ![i] = nextPid]
    /\ nextPid' = nextPid + 1
    /\ UNCHANGED <<hier, tune>>

\* state <- "off"; EPERM unless the kdamond runs.
CommandOff(i) ==
    /\ On(i)
    /\ thread' = [thread EXCEPT ![i] = 0]
    /\ UNCHANGED <<hier, tune, nextPid>>

\* A kdamond ends by itself, for example when its last target exits.
ThreadExit(i) == CommandOff(i)

\* A running kdamond publishes auto-tuned intervals.
TuneIntervals(i) ==
    /\ i \in AutoTuned
    /\ On(i)
    /\ tune[i] = 0
    /\ tune' = [tune EXCEPT ![i] = 1]
    /\ UNCHANGED <<hier, thread, nextPid>>
=============================================================================
