------------------------- MODULE SnapshotMonitorProofs -------------------------
(***************************************************************************)
(* Theorems of SnapshotMonitor, for every number of schemes and targets    *)
(* and every bound.                                                        *)
(*                                                                         *)
(* Four facts hold together.  Who has the monitor determines who may work  *)
(* with it (PlaceInv); what the session owns is what the monitor believes  *)
(* it has installed (QueryInv); while nobody interferes, the hierarchy is  *)
(* the one the session owns, but where one failing access tore it on the   *)
(* way out, without a thread (OwnInv); and results that survive the        *)
(* verification were read from the query's own schemes (ResultInv).        *)
(***************************************************************************)
EXTENDS SnapshotMonitor, RegionsPart, TLAPS, SequenceTheorems

Sessions == {"none", "open", "unidentified", "closed", "dropped", "abandoned", "torn"}
\* A session is open, and no monitor holds it: before there is one, and after.
Hidden == {"discover", "query", "recheck", "settle", "run", "undo", "stop", "close_again"}
Joins3 == {"wait_join", "finish_join", "drop_join"}
Callers == {"free", "start", "materialize"} \cup Hidden \cup Waiting \cup Joins3
Workers == {"none", "running", "sent", "ended", "panicked"}
JobSteps == {"none", "begin", "install", "command", "read", "verify", "restore", "end"}
Places == {"none", "caller", "worker", "channel", "request"}
Queries == {"unsupported", "on_demand", "permanent"}
Monitors == [place : Places, query : Queries,
             config : {<<>>} \cup {QueryConfig(b) : b \in BOOLEAN},
             descriptors : {<<>>} \cup {Descriptors(b) : b \in BOOLEAN}, installed : BOOLEAN]

Stageable == {Probed, Base, QueryConfig(TRUE), QueryConfig(FALSE)}
Live == session \in {"open", "unidentified"}
There == monitor.place # "none"
Chose == \E b \in BOOLEAN : monitor.config = QueryConfig(b) /\ monitor.descriptors = Descriptors(b)
Good(results) ==
    \A i \in DOMAIN results :
        \/ /\ results[i].of = MatchAll
           /\ results[i].scope = (IF Targets = 1 THEN <<"target", 1>> ELSE <<"scheme", 0>>)
        \/ results[i].of = results[i].scope /\ Targets > 1

Types ==
    /\ kernel \in Kernels /\ thread \in BOOLEAN /\ session \in Sessions
    /\ monitor \in Monitors /\ caller \in Callers /\ worker \in Workers /\ job \in JobSteps
    /\ faults \in Nat /\ rogue \in Nat /\ exits \in Nat

\* Who has the monitor, and who works with it.
PlaceInv ==
    /\ worker = "none" => monitor.place \in {"none", "caller"}
    /\ worker = "running" => monitor.place = "worker"
    /\ worker \in {"sent", "ended"} => monitor.place \in {"channel", "request"}
    /\ worker = "panicked" => monitor.place = "none"
    /\ There => session = "open" /\ caller \notin Hidden
    /\ Live /\ ~There => caller \in Hidden
    /\ caller \in Hidden => Live /\ worker = "none"
    /\ caller \in Hidden \ {"undo", "close_again"} => session = "open"
    /\ caller = "start" \/ session = "none" => session = "none" /\ worker = "none"
    /\ job # "none" <=> worker = "running" \/ caller = "materialize"
    /\ caller = "materialize" => monitor.place = "caller"
    /\ caller \in Waiting \cup Joins3 => worker # "none"
    /\ caller \in Joins3 => monitor.place = "request" \/ worker = "panicked"

\* What the monitor believes of the query, against what the session owns.
QueryInv ==
    /\ There \/ caller \in {"recheck", "settle", "run"} => Chose
    /\ caller \in {"recheck", "settle", "run"} => ~monitor.installed
    /\ caller = "run" => staged = Settled
    /\ There => staged = IF monitor.query = "permanent" \/ monitor.installed
                         THEN monitor.config ELSE Base
    /\ job \in {"install", "restore"} \/ (There /\ monitor.installed) => monitor.query = "on_demand"
    /\ job \in {"command", "read", "verify"} => monitor.query = "permanent" \/ monitor.installed

\* What the session owns, against what is there.
OwnInv ==
    /\ Live => staged \in Stageable
    /\ session = "none" \/ caller \in Hidden \ {"undo", "stop", "close_again"} => ~thread
    /\ session = "unidentified" => faults > 0
    /\ rogue = 0 =>
        /\ Live /\ faults = 0 => conf = staged
        /\ Live /\ faults = 1 =>
               \/ conf = staged
               \/ conf \in {Foreign, Previous} /\ ~thread /\ caller \in {"undo", "close_again"}
        /\ caller = "close_again" /\ faults = 0 => ~thread /\ exits > 0
    /\ RestoredAtEnd

\* What was read, and what becomes of it.
ResultInv ==
    /\ Good(outcome.results)
    /\ There /\ (job = "verify" => conf = staged) => Good(got.results)
    /\ There /\ got.results # <<>> => got.how = "ok"
    /\ session = "none" \/ caller \in Hidden \ {"undo", "stop", "close_again"} => got.results = <<>>
    /\ /\ rogue = 0 /\ got.results # <<>>
       /\ (job = "end" \/ monitor.place \in {"channel", "request"})
       => conf = Settled

Inv == Types /\ PlaceInv /\ QueryInv /\ OwnInv /\ ResultInv

-----------------------------------------------------------------------------
(* Data *)

\* m is the monitor, but for its place and for what it has installed.
SameBut(m, place, installed) ==
    /\ m \in Monitors /\ m.place = place /\ m.installed = installed
    /\ m.query = monitor.query /\ m.config = monitor.config
    /\ m.descriptors = monitor.descriptors

LEMMA Moved ==
    ASSUME Types, NEW p \in Places
    PROVE  SameBut([monitor EXCEPT !.place = p], p, monitor.installed)
  BY DEF Types, Monitors, SameBut

LEMMA Marked ==
    ASSUME Types, NEW b \in BOOLEAN
    PROVE  SameBut([monitor EXCEPT !.installed = b], monitor.place, b)
  BY DEF Types, Monitors, SameBut

LEMMA NoMonitorType ==
    NoMonitor \in Monitors /\ NoMonitor.place = "none" /\ NoMonitor.installed = FALSE
  BY DEF NoMonitor, Monitors, Places, Queries

LEMMA ChosenType ==
    ASSUME NEW b \in BOOLEAN, Chosen(b)
    PROVE  /\ monitor' \in Monitors /\ Chose' /\ monitor'.place = "none"
           /\ monitor'.installed = FALSE
<1> DEFINE q == IF ~kernel.tried THEN "unsupported"
                ELSE IF kernel.online THEN "on_demand" ELSE "permanent"
<1> DEFINE c == QueryConfig(b)
<1> DEFINE d == Descriptors(b)
<1> DEFINE m == [NoMonitor EXCEPT !.query = q, !.config = c, !.descriptors = d]
<1>1. q \in Queries
  BY DEF Queries
<1>2. monitor' = m
  BY DEF Chosen
<1> HIDE DEF q
<1>3. m \in Monitors
  BY <1>1 DEF NoMonitor, Monitors, Places
<1>4. m.config = c /\ m.descriptors = d /\ m.place = "none" /\ m.installed = FALSE
  BY DEF NoMonitor
<1>5. Chose'
  BY <1>2, <1>4 DEF Chose
<1> QED
  BY <1>2, <1>3, <1>4, <1>5

LEMMA NothingIsGood == Good(<<>>)
  BY DEF Good

LEMMA BaseIsCustom ==
    /\ Base \in Seq({Custom}) /\ Len(Base) = CustomSchemes
    /\ \A i \in 1 .. CustomSchemes : Base[i] = Custom
  BY CountAssumption DEF Base

Schemes == {Custom, MatchAll} \cup {Isolated(t) : t \in 1 .. Targets}

\* A query has a scheme of its own for every result: one for all, or one for each
\* target.
LEMMA Queried ==
    ASSUME NEW b \in BOOLEAN
    PROVE  /\ QuerySchemes(b) \in Seq(Schemes)
           /\ Len(QuerySchemes(b)) > 0 /\ DOMAIN QuerySchemes(b) = 1 .. Len(QuerySchemes(b))
           /\ \/ /\ ~(Targets > 1 /\ b)
                 /\ DOMAIN QuerySchemes(b) = {1} /\ QuerySchemes(b)[1] = MatchAll
              \/ /\ Targets > 1 /\ b
                 /\ \A i \in DOMAIN QuerySchemes(b) : QuerySchemes(b)[i] = Isolated(i)
<1>1. CASE Targets > 1 /\ b
  <2> DEFINE q == [t \in 1 .. Targets |-> Isolated(t)]
  <2>1. QuerySchemes(b) = q
    BY <1>1 DEF QuerySchemes
  <2>2. \A t \in 1 .. Targets : Isolated(t) \in Schemes
    BY DEF Schemes
  <2>3. q \in [1 .. Targets -> Schemes]
    BY <2>2
  <2>4. DOMAIN q = 1 .. Targets
    BY Zenon
  <2>5. \A i \in 1 .. Targets : q[i] = Isolated(i)
    BY Zenon
  <2> HIDE DEF q
  <2>6. q \in Seq(Schemes) /\ Len(q) = Targets
    BY <2>3, CountAssumption
  <2>7. Len(q) > 0 /\ DOMAIN q = 1 .. Len(q)
    BY <2>4, <2>6, CountAssumption
  <2> QED
    BY <1>1, <2>1, <2>6, <2>4, <2>5, <2>7, Zenon
<1>2. CASE ~(Targets > 1 /\ b)
  <2>1. QuerySchemes(b) = <<MatchAll>> /\ MatchAll \in Schemes
    BY <1>2 DEF QuerySchemes, Schemes
  <2>2. /\ <<MatchAll>> \in Seq(Schemes) /\ Len(<<MatchAll>>) = 1
        /\ DOMAIN <<MatchAll>> = 1 .. 1 /\ <<MatchAll>>[1] = MatchAll
    BY <2>1
  <2> QED
    BY <1>2, <2>1, <2>2
<1> QED
  BY <1>1, <1>2

\* The private schemes follow those of the builder.
LEMMA QueryFollows ==
    ASSUME NEW b \in BOOLEAN
    PROVE  /\ Len(QueryConfig(b)) = CustomSchemes + Len(QuerySchemes(b))
           /\ DOMAIN QueryConfig(b) = 1 .. Len(QueryConfig(b))
           /\ \A i \in 1 .. CustomSchemes : QueryConfig(b)[i] = Custom
           /\ \A i \in DOMAIN QuerySchemes(b) :
                 /\ CustomSchemes + i \in DOMAIN QueryConfig(b)
                 /\ QueryConfig(b)[CustomSchemes + i] = QuerySchemes(b)[i]
<1> DEFINE q == QuerySchemes(b)
<1>1. Base \in Seq(Schemes) /\ Len(Base) = CustomSchemes /\ CustomSchemes \in Nat
      /\ \A i \in 1 .. CustomSchemes : Base[i] = Custom
  BY BaseIsCustom, CountAssumption DEF Schemes
<1>2. q \in Seq(Schemes) /\ DOMAIN q = 1 .. Len(q) /\ Len(q) \in Nat
  BY Queried, LenProperties
<1> DEFINE c == QueryConfig(b)
<1>3. /\ c \in Seq(Schemes) /\ Len(c) = CustomSchemes + Len(q)
      /\ \A i \in 1 .. CustomSchemes + Len(q) :
            c[i] = IF i <= CustomSchemes THEN Base[i] ELSE q[i - CustomSchemes]
  BY <1>1, <1>2, ConcatProperties DEF QueryConfig
<1> HIDE DEF q, c
<1>4. DOMAIN c = 1 .. Len(c)
  BY <1>3, LenProperties
<1>5. ASSUME NEW i \in 1 .. CustomSchemes PROVE c[i] = Custom
  BY <1>1, <1>2, <1>3
<1>6. ASSUME NEW i \in DOMAIN q PROVE CustomSchemes + i \in DOMAIN c /\ c[CustomSchemes + i] = q[i]
  <2>1. i \in Nat /\ 1 <= i /\ i <= Len(q)
    BY <1>2
  <2>2. CustomSchemes + i \in 1 .. CustomSchemes + Len(q) /\ ~(CustomSchemes + i <= CustomSchemes)
        /\ (CustomSchemes + i) - CustomSchemes = i
    BY <1>1, <1>2, <2>1
  <2> QED
    BY <1>3, <1>4, <2>2
<1> QED
  BY <1>3, <1>4, <1>5, <1>6 DEF q, c

\* The first scheme of what the session stages is never another controller's.
LEMMA NotForeign == \A c \in Stageable : c # Foreign
<1> DEFINE alien == <<"foreign", 0>>
<1>1. /\ Foreign = <<alien>> /\ Custom # alien /\ MatchAll # alien
      /\ \A t \in 1 .. Targets : Isolated(t) # alien
  BY DEF Foreign, Custom, MatchAll, Isolated
<1> HIDE DEF alien
<1>2. Len(Foreign) = 1 /\ Foreign[1] = alien
  BY <1>1
<1>3. Base # Foreign
  BY <1>1, <1>2, BaseIsCustom
<1>4. Probed # Foreign
  <2>1. Len(Probed) = CustomSchemes + 1 /\ Probed[CustomSchemes + 1] = MatchAll
    BY BaseIsCustom, CountAssumption DEF Probed
  <2> QED
    BY <1>1, <1>2, <2>1, CountAssumption
<1>5. ASSUME NEW b \in BOOLEAN PROVE QueryConfig(b) # Foreign
  <2> DEFINE c == QueryConfig(b)
  <2>1. 1 \in DOMAIN QuerySchemes(b) /\ QuerySchemes(b)[1] # alien
    <3>1. 1 \in DOMAIN QuerySchemes(b)
      BY Queried
    <3>2. QuerySchemes(b)[1] = MatchAll \/ (QuerySchemes(b)[1] = Isolated(1) /\ Targets > 1)
      BY <3>1, Queried
    <3> QED
      BY <1>1, <3>1, <3>2, CountAssumption
  <2>2. c[CustomSchemes + 1] # alien
    BY <2>1, QueryFollows
  <2>3. \A i \in 1 .. CustomSchemes : c[i] = Custom
    BY QueryFollows
  <2> HIDE DEF c
  <2>4. c[1] # alien
    <3>1. CASE CustomSchemes = 0
      BY <2>2, <3>1
    <3>2. CASE CustomSchemes # 0
      BY <1>1, <2>3, <3>2, CountAssumption
    <3> QED
      BY <3>1, <3>2
  <2> QED
    BY <1>2, <2>4 DEF c
<1> QED
  BY <1>3, <1>4, <1>5 DEF Stageable

\* What is read from the hierarchy the query is installed in names its source.
LEMMA ReadsItsOwn ==
    ASSUME Chose, conf = monitor.config
    PROVE  Good(Results)
<1>1. PICK b \in BOOLEAN : monitor.config = QueryConfig(b) /\ monitor.descriptors = Descriptors(b)
  BY DEF Chose
<1> DEFINE d == Descriptors(b)
<1>2. /\ DOMAIN d = DOMAIN QuerySchemes(b)
      /\ \A i \in DOMAIN d : d[i].index = CustomSchemes + i /\ d[i].scope = Scope(b, i)
  BY DEF Descriptors
<1> HIDE DEF d
<1>3. /\ DOMAIN Results = DOMAIN d
      /\ \A i \in DOMAIN d : Results[i].scope = Scope(b, i) /\ Results[i].of = QuerySchemes(b)[i]
  BY <1>1, <1>2, QueryFollows DEF Results, d
<1>4. ASSUME NEW i \in DOMAIN Results
      PROVE  \/ /\ Results[i].of = MatchAll
                /\ Results[i].scope = (IF Targets = 1 THEN <<"target", 1>> ELSE <<"scheme", 0>>)
             \/ Results[i].of = Results[i].scope /\ Targets > 1
  <2>1. i \in DOMAIN QuerySchemes(b)
    BY <1>2, <1>3, <1>4
  <2>2. Results[i].scope = Scope(b, i) /\ Results[i].of = QuerySchemes(b)[i]
    BY <1>3, <1>4
  <2>3. CASE Targets > 1 /\ b
    <3>1. Results[i].of = Isolated(i)
      BY <2>1, <2>2, <2>3, Queried
    <3>2. Targets # 1 /\ b
      BY <2>3, CountAssumption
    <3>3. Scope(b, i) = <<"target", i>>
      BY <3>2, Zenon DEF Scope
    <3> QED
      BY <2>2, <2>3, <3>1, <3>3 DEF Isolated
  <2>4. CASE ~(Targets > 1 /\ b)
    <3>1. i = 1 /\ Results[i].of = MatchAll
      BY <2>1, <2>2, <2>4, Queried
    <3>2. Scope(b, i) = (IF Targets = 1 THEN <<"target", 1>> ELSE <<"scheme", 0>>)
      BY <2>4, CountAssumption DEF Scope
    <3> QED
      BY <2>2, <3>1, <3>2
  <2> QED
    BY <2>3, <2>4
<1> QED
  BY <1>4 DEF Good

-----------------------------------------------------------------------------
(* The session *)

\* What only moves on in the program, and what one access does to the hierarchy.
Kept ==
    /\ UNCHANGED <<conf, thread, staged, session, rogue, exits>>
    /\ faults' \in Nat /\ faults <= faults'
    /\ \/ caller' = caller
       \/ /\ caller \notin {"undo", "close_again"} /\ caller' # "close_again"
          /\ caller' \in Hidden \ {"undo", "stop"} => caller \in Hidden \ {"undo", "stop", "close_again"}

LEMMA OwnStays == ASSUME OwnInv, Types, Kept PROVE OwnInv'
<1>0. faults \in Nat /\ faults' \in Nat /\ faults <= faults'
  BY DEF Types, Kept
<1>1. faults' = 0 => faults = 0
  BY <1>0
<1>2. faults' = 1 => faults \in {0, 1}
  BY <1>0
<1>3. RestoredAtEnd'
  BY <1>1, <1>2 DEF OwnInv, RestoredAtEnd, Restored, Kept
<1>4. faults > 0 => faults' > 0
  BY <1>0
<1>5. ASSUME rogue' = 0
      PROVE  /\ Live' /\ faults' = 0 => conf' = staged'
             /\ Live' /\ faults' = 1 =>
                   \/ conf' = staged'
                   \/ conf' \in {Foreign, Previous} /\ ~thread' /\ caller' \in {"undo", "close_again"}
             /\ caller' = "close_again" /\ faults' = 0 => ~thread' /\ exits' > 0
  BY <1>1, <1>2, <1>5 DEF OwnInv, Kept, Live
<1> QED
  BY <1>3, <1>4, <1>5 DEF OwnInv, Kept, Live, Hidden

LEMMA OwnChanges ==
    ASSUME Inv, session = "open", NEW c \in Stageable, UNCHANGED <<session, thread, rogue, exits>>,
           Changed(c) \/ Unchanged \/ Broken,
           caller \notin {"undo", "close_again"}, caller' # "close_again",
           caller' \in Hidden \ {"undo", "stop"} => caller \in Hidden \ {"undo", "stop", "close_again"}
    PROVE  OwnInv' /\ faults' \in Nat /\ (staged' = c \/ staged' = staged)
<1>1. faults' \in Nat /\ faults <= faults'
  BY DEF Inv, Types, Changed, Unchanged, Broken, NoFault, Fault, TwoFaults
<1>2. session' = "open" /\ RestoredAtEnd' /\ (caller' \in Hidden \ {"undo", "stop", "close_again"} => ~thread')
  BY DEF Inv, OwnInv, RestoredAtEnd
<1>3. CASE Changed(c) \/ Unchanged
  <2>1. (conf' = c /\ staged' = c) \/ (conf' = conf /\ staged' = staged)
    BY <1>3 DEF Changed, Unchanged
  <2>2. rogue' = 0 /\ faults' \in {0, 1} => conf' = staged'
    BY <1>1, <2>1 DEF Inv, Types, OwnInv, Live
  <2>3. staged' \in Stageable
    BY <2>1 DEF Inv, OwnInv, Live
  <2> QED
    BY <1>1, <1>2, <2>1, <2>2, <2>3 DEF OwnInv, Live
<1>4. CASE Broken
  <2>1. faults' # 0 /\ faults' # 1 /\ staged' = staged
    BY <1>4 DEF Broken, TwoFaults, Inv, Types
  <2> QED
    BY <1>1, <1>2, <2>1 DEF Inv, OwnInv, Live
<1> QED
  BY <1>3, <1>4

\* A pass of close_inner, whichever: while nobody interferes it restores, or has a
\* reason not to.
LEMMA Passes ==
    ASSUME Inv, Live, Restores \/ Fails
    PROVE  /\ faults' \in Nat /\ exits' \in Nat /\ thread' \in BOOLEAN
           /\ faults <= faults' /\ exits <= exits' /\ (thread' => thread)
           /\ faults' = 0 => faults = 0
           /\ faults' = 1 => faults \in {0, 1}
           /\ rogue = 0 /\ faults' = 0 /\ Fails => exits' > 0 /\ ~thread'
           /\ rogue = 0 /\ faults' = 1 /\ Fails =>
                 \/ conf' = staged
                 \/ conf' \in {Foreign, Previous} /\ ~thread'
           /\ Restores => conf' = Previous /\ ~thread'
<1>1. faults' \in Nat /\ exits' \in Nat /\ faults <= faults' /\ exits <= exits'
  BY DEF Inv, Types, Restores, Fails, NoFault, Fault
<1>2. thread' \in BOOLEAN /\ (thread' => thread)
  <2>1. thread' = FALSE \/ thread' = thread
    BY Zenon DEF Restores, Fails
  <2>2. thread \in BOOLEAN
    BY DEF Inv, Types
  <2>3. CASE thread' = FALSE
    BY <2>3
  <2>4. CASE thread' = thread
    BY <2>2, <2>4
  <2> QED
    BY <2>1, <2>3, <2>4
<1>3. (faults' = 0 => faults = 0) /\ (faults' = 1 => faults \in {0, 1})
  BY <1>1 DEF Inv, Types
<1>4. ASSUME rogue = 0, faults' = 0, Fails PROVE exits' > 0 /\ ~thread'
  <2>1. faults = 0 /\ conf = staged /\ session = "open"
    BY <1>3, <1>4 DEF Inv, OwnInv, Live
  <2>2. CanClose /\ ~Fault
    BY <1>4, <2>1 DEF CanClose, Fault, Inv, Types
  <2> QED
    BY <1>4, <2>2 DEF Fails, Inv, Types
<1>5. ASSUME rogue = 0, faults' = 1, Fails
      PROVE  conf' = staged \/ (conf' \in {Foreign, Previous} /\ ~thread')
  <2>1. faults \in {0, 1}
    BY <1>3, <1>5
  <2>2. conf = staged \/ (conf \in {Foreign, Previous} /\ ~thread)
    BY <1>5, <2>1 DEF Inv, OwnInv, Live
  <2> QED
    BY <1>5, <2>2 DEF Fails
<1>6. Restores => conf' = Previous /\ ~thread'
  BY DEF Restores
<1> QED
  BY <1>1, <1>2, <1>3, <1>4, <1>5, <1>6

\* A dropped session.
LEMMA Drops ==
    ASSUME Inv, session = "open", DropSession, UNCHANGED rogue,
           caller' \notin Hidden
    PROVE  /\ OwnInv' /\ session' = "dropped" /\ thread' \in BOOLEAN
           /\ faults' \in Nat /\ exits' \in Nat /\ UNCHANGED <<kernel, staged>>
<1>1. (Restores \/ Fails) /\ session' = "dropped" /\ UNCHANGED <<kernel, staged>> /\ Live
  BY DEF DropSession, Live
<1>2. /\ faults' \in Nat /\ exits' \in Nat /\ thread' \in BOOLEAN
      /\ rogue = 0 /\ faults' = 0 /\ Fails => exits' > 0
      /\ Restores => conf' = Previous /\ ~thread'
  BY <1>1, Passes
<1>3. RestoredAtEnd'
  BY <1>1, <1>2 DEF RestoredAtEnd, Restored
<1>4. OwnInv'
  BY <1>1, <1>3 DEF OwnInv, Live, Hidden
<1> QED
  BY <1>1, <1>2, <1>4

-----------------------------------------------------------------------------
(* Starting a monitor                                                      *)

LEMMA StartKeeps == ASSUME Inv, Start PROVE Inv'
<1>1. Kept
  BY DEF Inv, Types, Hidden, Kept, Start, Step, Goto, Return, Called, kernelVars, sessionVars,
     workVars, environment, NoFault, Fault, TwoFaults, Waiting
<1>2. OwnInv'
  BY <1>1, OwnStays DEF Inv
<1>3. Types'
  BY DEF Inv, Types, Sessions, Callers, Hidden, Joins3, Workers, JobSteps, Places, Start,
     Step, Goto, Return, Called, kernelVars, sessionVars, workVars, environment, NoFault,
     Fault, TwoFaults, Waiting
<1>4. PlaceInv'
  BY DEF Inv, Types, PlaceInv, There, Live, Sessions, Callers, Hidden, Joins3, Workers,
     JobSteps, Places, Start, Step, Goto, Return, Called, kernelVars, sessionVars, workVars,
     environment, NoFault, Fault, TwoFaults, Waiting
<1>5. QueryInv'
  BY DEF Inv, PlaceInv, QueryInv, There, Chose, Hidden, Settled, Start, Step, Goto, Return,
     Called, kernelVars, sessionVars, workVars, environment, NoFault, Fault, TwoFaults, Waiting
<1>6. ResultInv'
  BY NothingIsGood DEF Inv, Types, PlaceInv, QueryInv, ResultInv, There, Settled, Hidden,
     Start, Step, Goto, Return, Called, kernelVars, sessionVars, workVars, environment,
     NoFault, Fault, TwoFaults, Waiting
<1> QED
  BY <1>2, <1>3, <1>4, <1>5, <1>6 DEF Inv

LEMMA StageKeeps == ASSUME Inv, Stage PROVE Inv'
<1>1. /\ faults' \in Nat /\ faults <= faults' /\ UNCHANGED <<rogue, exits, thread>>
      /\ caller = "start" /\ session = "none" /\ ~thread
      /\ \/ /\ conf' = Probed /\ staged' = Probed /\ session' = "open" /\ caller' = "discover"
         \/ UNCHANGED <<conf, staged, session>> /\ caller' = "free"
         \/ session' = "torn" /\ caller' = "free"
  BY DEF Inv, Types, PlaceInv, OwnInv, Stage, Step, Goto, Return, NoFault, Fault, TwoFaults,
     environment, sessionVars
<1>2. OwnInv'
  <2>1. RestoredAtEnd'
    BY <1>1 DEF RestoredAtEnd
  <2> QED
    BY <1>1, <2>1 DEF OwnInv, Live, Stageable, Hidden
<1>3. Types'
  BY DEF Inv, Types, Sessions, Callers, Hidden, Joins3, Workers, JobSteps, Places,
     Stage, Step, Goto, Return, Called, kernelVars, sessionVars, workVars, environment,
     NoFault, Fault, TwoFaults, Waiting, Failed
<1>4. PlaceInv'
  BY DEF Inv, Types, PlaceInv, There, Live, Sessions, Callers, Hidden, Joins3, Workers,
     JobSteps, Places, Stage, Step, Goto, Return, Called, kernelVars, sessionVars, workVars,
     environment, NoFault, Fault, TwoFaults, Waiting, Failed
<1>5. QueryInv'
  BY DEF Inv, PlaceInv, QueryInv, There, Chose, Hidden, Settled, Stage, Step, Goto,
     Return, Called, kernelVars, sessionVars, workVars, environment, NoFault, Fault, TwoFaults,
     Waiting, Failed
<1>6. ResultInv'
  BY <1>2, NothingIsGood DEF Inv, Types, PlaceInv, QueryInv, ResultInv, There, Settled,
     Hidden, Stage, Step, Goto, Return, Called, kernelVars, sessionVars, workVars,
     environment, NoFault, Fault, TwoFaults, Waiting, Failed
<1> QED
  BY <1>2, <1>3, <1>4, <1>5, <1>6 DEF Inv

LEMMA DiscoverKeeps == ASSUME Inv, Discover PROVE Inv'
<1>1. Kept
  BY DEF Inv, Types, Hidden, Kept, Discover, Step, Goto, Return, Called, kernelVars, sessionVars,
     workVars, environment, NoFault, Fault, TwoFaults, Inspect, Waiting
<1>2. OwnInv'
  BY <1>1, OwnStays DEF Inv
<1>3. Types'
  BY DEF Inv, Types, Sessions, Callers, Hidden, Joins3, Workers, JobSteps, Places, Discover,
     Step, Goto, Return, Called, kernelVars, sessionVars, workVars, environment, NoFault,
     Fault, TwoFaults, Inspect, Waiting
<1>4. PlaceInv'
  BY DEF Inv, Types, PlaceInv, There, Live, Sessions, Callers, Hidden, Joins3, Workers,
     JobSteps, Places, Discover, Step, Goto, Return, Called, kernelVars, sessionVars, workVars,
     environment, NoFault, Fault, TwoFaults, Inspect, Waiting
<1>5. QueryInv'
  BY DEF Inv, PlaceInv, QueryInv, There, Chose, Hidden, Settled, Discover, Step, Goto,
     Return, Called, kernelVars, sessionVars, workVars, environment, NoFault, Fault, TwoFaults,
     Inspect, Waiting
<1>6. ResultInv'
  BY NothingIsGood DEF Inv, Types, PlaceInv, QueryInv, ResultInv, There, Settled, Hidden,
     Discover, Step, Goto, Return, Called, kernelVars, sessionVars, workVars, environment,
     NoFault, Fault, TwoFaults, Inspect, Waiting
<1> QED
  BY <1>2, <1>3, <1>4, <1>5, <1>6 DEF Inv

LEMMA RecheckKeeps == ASSUME Inv, Recheck PROVE Inv'
<1>1. Kept
  BY DEF Inv, Types, Hidden, Kept, Recheck, Step, Goto, Return, Called, kernelVars, sessionVars,
     workVars, environment, NoFault, Fault, TwoFaults, Inspect, Waiting
<1>2. OwnInv'
  BY <1>1, OwnStays DEF Inv
<1>3. Types'
  BY DEF Inv, Types, Sessions, Callers, Hidden, Joins3, Workers, JobSteps, Places, Recheck,
     Step, Goto, Return, Called, kernelVars, sessionVars, workVars, environment, NoFault,
     Fault, TwoFaults, Inspect, Waiting
<1>4. PlaceInv'
  BY DEF Inv, Types, PlaceInv, There, Live, Sessions, Callers, Hidden, Joins3, Workers,
     JobSteps, Places, Recheck, Step, Goto, Return, Called, kernelVars, sessionVars, workVars,
     environment, NoFault, Fault, TwoFaults, Inspect, Waiting
<1>5. QueryInv'
  BY DEF Inv, PlaceInv, QueryInv, There, Chose, Hidden, Settled, Recheck, Step, Goto, Return,
     Called, kernelVars, sessionVars, workVars, environment, NoFault, Fault, TwoFaults,
     Inspect, Waiting
<1>6. ResultInv'
  BY NothingIsGood DEF Inv, Types, PlaceInv, QueryInv, ResultInv, There, Settled, Hidden,
     Recheck, Step, Goto, Return, Called, kernelVars, sessionVars, workVars, environment,
     NoFault, Fault, TwoFaults, Inspect, Waiting
<1> QED
  BY <1>2, <1>3, <1>4, <1>5, <1>6 DEF Inv

LEMMA SettleKeeps == ASSUME Inv, Settle PROVE Inv'
<1>1. /\ session = "open" /\ UNCHANGED <<session, thread, rogue, exits>> /\ Chose
      /\ Settled \in Stageable /\ caller = "settle"
  BY DEF Inv, PlaceInv, QueryInv, Settle, Step, Hidden, environment, Chose, Settled, Stageable
<1>2. /\ OwnInv' /\ faults' \in Nat /\ monitor' = monitor
      /\ \/ staged' = Settled /\ caller' = "run"
         \/ caller' = "undo"
  <2>1. Changed(Settled) \/ Unchanged \/ Broken
    BY DEF Settle
  <2>2. (Changed(Settled) /\ caller' = "run") \/ caller' = "undo"
    BY DEF Settle, Goto
  <2> QED
    BY <1>1, <2>1, <2>2, OwnChanges DEF Changed, Settle, Hidden
<1>3. Types'
  BY <1>1, <1>2 DEF Inv, Types, Sessions, Callers, Hidden, Joins3, Workers, JobSteps, Places,
     Settle, Step, Goto, Return, Called, kernelVars, sessionVars, workVars, environment,
     NoFault, Fault, TwoFaults, Waiting
<1>4. PlaceInv'
  BY <1>1, <1>2 DEF Inv, Types, PlaceInv, There, Live, Sessions, Callers, Hidden, Joins3,
     Workers, JobSteps, Places, Settle, Step, Goto, Return, Called, kernelVars, sessionVars,
     workVars, environment, NoFault, Fault, TwoFaults, Waiting
<1>5. QueryInv'
  BY <1>1, <1>2 DEF Inv, PlaceInv, QueryInv, There, Chose, Hidden, Settled, Settle, Step,
     Goto, Return, Called, kernelVars, sessionVars, workVars, environment, NoFault, Fault,
     TwoFaults, Waiting
<1>6. ResultInv'
  BY <1>1, <1>2, NothingIsGood DEF Inv, Types, PlaceInv, QueryInv, ResultInv, There, Settled,
     Hidden, Settle, Step, Goto, Return, Called, kernelVars, sessionVars, workVars,
     environment, NoFault, Fault, TwoFaults, Waiting
<1> QED
  BY <1>2, <1>3, <1>4, <1>5, <1>6 DEF Inv

LEMMA CloseKeeps == ASSUME Inv, Close PROVE Inv'
<1>1. /\ Live /\ worker = "none" /\ job = "none" /\ ~There /\ caller \in {"undo", "stop"}
      /\ UNCHANGED <<kernel, staged, worker, job, got, rogue>> /\ monitor' = NoMonitor
  BY DEF Inv, PlaceInv, Live, There, Close, workVars, Hidden
<1>2. \/ /\ Restores /\ session' = "closed" /\ caller' = "free" /\ outcome'.results = <<>>
      \/ /\ Fails /\ session' = session /\ caller' = "close_again" /\ outcome' = outcome
  BY DEF Close, Return, Goto, Failed
<1>3. /\ faults' \in Nat /\ exits' \in Nat /\ thread' \in BOOLEAN /\ faults <= faults'
      /\ faults' = 0 => faults = 0
      /\ rogue = 0 /\ faults' = 0 /\ Fails => exits' > 0 /\ ~thread'
      /\ rogue = 0 /\ faults' = 1 /\ Fails =>
            conf' = staged \/ (conf' \in {Foreign, Previous} /\ ~thread')
      /\ Restores => conf' = Previous /\ ~thread'
  BY <1>1, <1>2, Passes
<1>4. OwnInv'
  <2>1. CASE Restores /\ session' = "closed" /\ caller' = "free"
    <3>1. RestoredAtEnd'
      BY <1>3, <2>1 DEF RestoredAtEnd, Restored
    <3> QED
      BY <2>1, <3>1 DEF OwnInv, Live, Hidden
  <2>2. CASE Fails /\ session' = session /\ caller' = "close_again"
    <3>1. RestoredAtEnd'
      BY <1>1, <2>2 DEF RestoredAtEnd, Live
    <3>2. staged' \in Stageable /\ session' # "none" /\ (session' = "unidentified" => faults' > 0)
      BY <1>1, <1>3, <2>2 DEF Inv, Types, OwnInv, Live
    <3>3. ASSUME rogue' = 0, faults' = 0 PROVE conf' = staged'
      <4>1. faults = 0 /\ conf = staged /\ session = "open"
        BY <1>1, <1>3, <3>3 DEF Inv, OwnInv, Live
      <4>2. CanClose /\ ~Fault
        BY <3>3, <4>1 DEF CanClose, Fault, Inv, Types
      <4> QED
        BY <1>1, <2>2, <4>1, <4>2 DEF Fails
    <3> QED
      BY <1>1, <1>3, <2>2, <3>1, <3>2, <3>3 DEF OwnInv, Hidden
  <2> QED
    BY <1>2, <2>1, <2>2
<1>5. session' \in {"closed", "open", "unidentified"}
  BY <1>1, <1>2 DEF Live
<1>6. Types'
  BY NoMonitorType, <1>1, <1>2, <1>3, <1>5 DEF Inv, Types, Sessions, Callers, Hidden
<1>7. PlaceInv'
  BY NoMonitorType, <1>1, <1>2 DEF Inv, PlaceInv, There, Live, Hidden, Waiting, Joins3
<1>8. QueryInv'
  BY NoMonitorType, <1>1, <1>2 DEF Inv, QueryInv, There
<1>9. ResultInv'
  BY NoMonitorType, <1>1, <1>2, <1>5, NothingIsGood DEF Inv, ResultInv, There, Hidden
<1> QED
  BY <1>4, <1>6, <1>7, <1>8, <1>9 DEF Inv

LEMMA CloseAgainKeeps == ASSUME Inv, CloseAgain PROVE Inv'
<1>1. /\ Live /\ worker = "none" /\ job = "none" /\ ~There /\ caller = "close_again"
      /\ caller' = "free" /\ outcome'.results = <<>> /\ (Restores \/ Fails)
      /\ session' = (IF session = "unidentified" /\ thread' THEN "abandoned" ELSE "closed")
      /\ UNCHANGED <<kernel, staged, worker, job, got, rogue, monitor>>
  BY DEF Inv, PlaceInv, Live, There, CloseAgain, Return, Failed, workVars, Hidden
<1>2. /\ faults' \in Nat /\ exits' \in Nat /\ thread' \in BOOLEAN
      /\ faults <= faults' /\ exits <= exits' /\ (thread' => thread)
      /\ faults' = 0 => faults = 0
      /\ faults' = 1 => faults \in {0, 1}
      /\ Restores => conf' = Previous /\ ~thread'
  BY <1>1, Passes
<1>3. ASSUME rogue = 0, faults' = 0, session' = "closed" PROVE conf' = Previous /\ ~thread'
  <2>1. faults = 0 /\ conf = staged /\ session = "open" /\ ~thread
    BY <1>1, <1>2, <1>3 DEF Inv, OwnInv, Live
  <2>2. ~Fails
    BY <1>3, <2>1 DEF Fails, CanClose, Fault, Inv, Types
  <2> QED
    BY <1>1, <1>2, <2>2
<1>4. ASSUME rogue = 0, faults' = 1, session' = "closed"
      PROVE  ~thread' /\ (exits' = 0 => conf' \in {Previous, Foreign})
  <2>1. CASE Restores
    BY <1>2, <2>1
  <2>2. CASE Fails /\ faults = 0
    <3>1. ~thread /\ exits > 0
      BY <1>1, <1>4, <2>2 DEF Inv, OwnInv
    <3> QED
      BY <1>2, <3>1 DEF Inv, Types
  <2>3. CASE Fails /\ faults = 1
    <3>1. NoFault /\ ~Fault
      BY <1>4, <2>3 DEF NoFault, Fault
    <3>2. conf = staged \/ (conf \in {Foreign, Previous} /\ ~thread)
      BY <1>1, <1>4, <2>3 DEF Inv, OwnInv
    <3>3. CASE CanClose
      <4>1. thread' = FALSE /\ exits' = exits + 1
        BY <2>3, <3>1, <3>3 DEF Fails
      <4> QED
        BY <4>1 DEF Inv, Types
    <3>4. CASE ~CanClose
      <4>1. conf' = conf /\ thread' = thread
        BY <2>3, <3>4 DEF Fails
      <4>2. conf # staged \/ (session = "unidentified" /\ thread)
        BY <1>1, <3>4 DEF CanClose, Live
      <4>3. ~(session = "unidentified" /\ thread)
        BY <1>1, <1>4, <4>1
      <4> QED
        BY <3>2, <4>1, <4>2, <4>3
    <3> QED
      BY <3>3, <3>4
  <2> QED
    BY <1>1, <1>2, <1>4, <2>1, <2>2, <2>3
<1>5. OwnInv'
  <2>1. RestoredAtEnd'
    BY <1>1, <1>3, <1>4 DEF RestoredAtEnd, Restored
  <2> QED
    BY <1>1, <2>1 DEF OwnInv, Live, Hidden
<1>6. Types'
  BY <1>1, <1>2 DEF Inv, Types, Sessions, Callers
<1>7. PlaceInv'
  BY <1>1 DEF Inv, PlaceInv, There, Live, Hidden, Waiting, Joins3
<1>8. QueryInv'
  BY <1>1 DEF Inv, QueryInv, There
<1>9. ResultInv'
  BY <1>1, NothingIsGood DEF Inv, ResultInv, There, Hidden
<1> QED
  BY <1>5, <1>6, <1>7, <1>8, <1>9 DEF Inv

LEMMA ChooseKeeps == ASSUME Inv, Choose PROVE Inv'
<1>1. Kept /\ UNCHANGED <<kernel, worker, job, got, outcome>> /\ caller = "query" /\ caller' = "settle"
  BY DEF Inv, Types, Hidden, Kept, Choose, Step, Goto, kernelVars, sessionVars, workVars, environment
<1>2. OwnInv'
  BY <1>1, OwnStays DEF Inv
<1>3. monitor' \in Monitors /\ Chose' /\ monitor'.place = "none" /\ monitor'.installed = FALSE
  BY ChosenType DEF Choose
<1>4. Types'
  BY <1>1, <1>3 DEF Inv, Types, Sessions, Callers, Hidden, Joins3, Workers, JobSteps, Places,
     Kept, Waiting
<1>5. PlaceInv'
  BY <1>1, <1>3 DEF Inv, Types, PlaceInv, There, Live, Sessions, Callers, Hidden, Joins3,
     Workers, JobSteps, Places, Kept, Waiting
<1>6. QueryInv'
  BY <1>1, <1>3 DEF Inv, PlaceInv, QueryInv, There, Chose, Hidden, Settled, Kept, Waiting
<1>7. ResultInv'
  BY <1>1, <1>3, NothingIsGood DEF Inv, Types, PlaceInv, QueryInv, ResultInv, There, Settled,
     Hidden, Kept, Waiting
<1> QED
  BY <1>2, <1>4, <1>5, <1>6, <1>7 DEF Inv

LEMMA TryFilteredKeeps == ASSUME Inv, TryFiltered PROVE Inv'
<1>1. /\ UNCHANGED <<kernel, thread, session, rogue, exits, worker, job, got, outcome>>
      /\ caller = "query" /\ session = "open" /\ ~thread
      /\ QueryConfig(TRUE) \in Stageable /\ staged \in Stageable
  BY DEF Inv, PlaceInv, OwnInv, Live, Hidden, TryFiltered, Step, Goto, workVars, environment, Stageable
<1>2. /\ OwnInv' /\ faults' \in Nat
      /\ \/ /\ caller' \in {"recheck", "settle"} /\ monitor' \in Monitors /\ Chose'
            /\ monitor'.place = "none" /\ monitor'.installed = FALSE
         \/ caller' = "undo" /\ monitor' = monitor
  <2>1. CASE Changed(QueryConfig(TRUE)) /\ Chosen(TRUE) /\ Goto("recheck")
    BY <1>1, <2>1, OwnChanges, ChosenType DEF Goto, Hidden
  <2>2. CASE Changed(staged) /\ Chosen(FALSE) /\ Goto("settle")
    BY <1>1, <2>2, OwnChanges, ChosenType DEF Goto, Hidden
  <2>3. CASE (Unchanged \/ Broken) /\ Goto("undo") /\ UNCHANGED monitor
    BY <1>1, <2>3, OwnChanges DEF Goto, Hidden
  <2>4. CASE Owned /\ Fault /\ conf' \in {conf, Foreign} /\ Goto("undo") /\ UNCHANGED <<staged, monitor>>
    <3>1. faults' \in Nat /\ faults' > 0 /\ conf = staged
      BY <2>4 DEF Fault, Owned, Inv, Types
    <3>2. RestoredAtEnd'
      BY <1>1 DEF RestoredAtEnd
    <3>3. OwnInv'
      BY <1>1, <2>4, <3>1, <3>2 DEF OwnInv, Live, Goto, Hidden
    <3> QED
      BY <2>4, <3>1, <3>3 DEF Goto
  <2> QED
    BY <2>1, <2>2, <2>3, <2>4 DEF TryFiltered
<1>3. Types'
  BY <1>1, <1>2 DEF Inv, Types, Sessions, Callers, Hidden, Joins3, Workers, JobSteps, Places,
     Waiting
<1>4. PlaceInv'
  BY <1>1, <1>2 DEF Inv, Types, PlaceInv, There, Live, Sessions, Callers, Hidden, Joins3,
     Workers, JobSteps, Places, Waiting
<1>5. QueryInv'
  BY <1>1, <1>2 DEF Inv, PlaceInv, QueryInv, There, Chose, Hidden, Settled, Waiting
<1>6. ResultInv'
  BY <1>1, <1>2, NothingIsGood DEF Inv, Types, PlaceInv, QueryInv, ResultInv, There, Settled,
     Hidden, Waiting
<1> QED
  BY <1>2, <1>3, <1>4, <1>5, <1>6 DEF Inv

LEMMA RunKeeps == ASSUME Inv, Run PROVE Inv'
<1>1. /\ UNCHANGED <<kernel, conf, staged, rogue, exits, worker, job, got>>
      /\ faults' \in Nat /\ faults <= faults' /\ caller = "run" /\ session = "open" /\ ~thread
  BY DEF Inv, Types, PlaceInv, OwnInv, Hidden, Run, Step, NoFault, Fault, workVars, environment
<1>2. \/ /\ caller' = "free" /\ outcome' = Done(<<>>) /\ thread' = TRUE /\ session' = session
         /\ SameBut(monitor', "caller", monitor.installed)
      \/ /\ caller' = "undo" /\ outcome' = outcome /\ monitor' = monitor
         /\ \/ UNCHANGED <<thread, session>>
            \/ thread' = TRUE /\ session' = "unidentified" /\ faults' = faults + 1
  BY Moved DEF Inv, Run, Goto, Return, Places, Fault
<1>3. OwnInv'
  <2>1. session' \in {"open", "unidentified"} /\ RestoredAtEnd'
    BY <1>1, <1>2 DEF RestoredAtEnd
  <2>2. rogue' = 0 /\ faults' \in {0, 1} => conf' = staged'
    BY <1>1 DEF Inv, Types, OwnInv, Live
  <2>3. staged' \in Stageable /\ (session' = "unidentified" => faults' > 0)
    BY <1>1, <1>2 DEF Inv, Types, OwnInv, Live
  <2> QED
    BY <1>1, <1>2, <2>1, <2>2, <2>3 DEF OwnInv, Hidden
<1>4. Types'
  BY <1>1, <1>2 DEF Inv, Types, Sessions, Callers, Hidden, Joins3, Workers, JobSteps, Places,
     SameBut, Done, Waiting
<1>5. PlaceInv'
  BY <1>1, <1>2 DEF Inv, Types, PlaceInv, There, Live, Sessions, Callers, Hidden, Joins3,
     Workers, JobSteps, Places, SameBut, Done, Waiting
<1>6. QueryInv'
  BY <1>1, <1>2 DEF Inv, PlaceInv, QueryInv, There, Chose, Hidden, Settled, SameBut, Done,
     Waiting
<1>7. ResultInv'
  BY <1>1, <1>2, NothingIsGood DEF Inv, Types, PlaceInv, QueryInv, ResultInv, There, Settled,
     Hidden, SameBut, Done, Waiting
<1> QED
  BY <1>3, <1>4, <1>5, <1>6, <1>7 DEF Inv

-----------------------------------------------------------------------------
(* materialize_snapshots                                                  *)

LEMMA CommandKeeps == ASSUME Inv, Command PROVE Inv'
<1>1. Kept
  BY DEF Inv, Types, Hidden, Kept, Command, Work, Advance, Failed, Done, Nothing, Holds, kernelVars,
     sessionVars, environment, NoFault, Fault, TwoFaults, Running, Verdict, AfterBatch, Owned,
     Waiting
<1>2. OwnInv'
  BY <1>1, OwnStays DEF Inv
<1>3. Types'
  BY DEF Inv, Types, Sessions, Callers, Hidden, Joins3, Workers, JobSteps, Places, Command,
     Work, Advance, Failed, Done, Nothing, Holds, kernelVars, sessionVars, environment,
     NoFault, Fault, TwoFaults, Running, Verdict, AfterBatch, Owned, Waiting
<1>4. PlaceInv'
  BY DEF Inv, Types, PlaceInv, There, Live, Sessions, Callers, Hidden, Joins3, Workers,
     JobSteps, Places, Command, Work, Advance, Failed, Done, Nothing, Holds, kernelVars,
     sessionVars, environment, NoFault, Fault, TwoFaults, Running, Verdict, AfterBatch, Owned,
     Waiting
<1>5. QueryInv'
  BY DEF Inv, PlaceInv, QueryInv, There, Chose, Hidden, Settled, Command, Work, Advance,
     Failed, Done, Nothing, Holds, kernelVars, sessionVars, environment, NoFault, Fault,
     TwoFaults, Running, Verdict, AfterBatch, Owned, Waiting
<1>6. ResultInv'
  BY NothingIsGood DEF Inv, Types, PlaceInv, QueryInv, ResultInv, There, Settled, Hidden,
     Command, Work, Advance, Failed, Done, Nothing, Holds, kernelVars, sessionVars,
     environment, NoFault, Fault, TwoFaults, Running, Verdict, AfterBatch, Owned, Waiting
<1> QED
  BY <1>2, <1>3, <1>4, <1>5, <1>6 DEF Inv

LEMMA ReadResultsKeeps == ASSUME Inv, ReadResults PROVE Inv'
<1>1. Kept
  BY DEF Inv, Types, Hidden, Kept, ReadResults, Work, Advance, Failed, Done, Nothing, Holds,
     kernelVars, sessionVars, environment, NoFault, Fault, TwoFaults, Waiting
<1>2. OwnInv'
  BY <1>1, OwnStays DEF Inv
<1>3. Types'
  BY ReadsItsOwn DEF Inv, Types, Sessions, Callers, Hidden, Joins3, Workers, JobSteps,
     Places, ReadResults, Work, Advance, Failed, Done, Nothing, Holds, kernelVars, sessionVars,
     environment, NoFault, Fault, TwoFaults, Waiting
<1>4. PlaceInv'
  BY ReadsItsOwn DEF Inv, Types, PlaceInv, There, Live, Sessions, Callers, Hidden, Joins3,
     Workers, JobSteps, Places, ReadResults, Work, Advance, Failed, Done, Nothing, Holds,
     kernelVars, sessionVars, environment, NoFault, Fault, TwoFaults, Waiting
<1>5. QueryInv'
  BY ReadsItsOwn DEF Inv, PlaceInv, QueryInv, There, Chose, Hidden, Settled, ReadResults,
     Work, Advance, Failed, Done, Nothing, Holds, kernelVars, sessionVars, environment,
     NoFault, Fault, TwoFaults, Waiting
<1>6. ResultInv'
  BY ReadsItsOwn, NothingIsGood DEF Inv, Types, PlaceInv, QueryInv, ResultInv, There, Settled,
     Hidden, ReadResults, Work, Advance, Failed, Done, Nothing, Holds, kernelVars,
     sessionVars, environment, NoFault, Fault, TwoFaults, Waiting
<1> QED
  BY <1>2, <1>3, <1>4, <1>5, <1>6 DEF Inv

LEMMA BeginKeeps == ASSUME Inv, Begin PROVE Inv'
<1>1. Kept /\ UNCHANGED <<kernel, caller, worker, monitor, outcome>> /\ job = "begin" /\ There
  BY DEF Inv, Types, PlaceInv, There, Kept, Begin, Work, sessionVars, environment
<1>2. /\ job' \in {"end", "install", "command"} /\ got'.results = <<>>
      /\ job' = "install" => monitor.query = "on_demand"
      /\ job' = "command" => monitor.query = "permanent" \/ monitor.installed
  <2>1. monitor.query \in Queries /\ monitor.installed \in BOOLEAN
    BY DEF Inv, Types, Monitors
  <2>2. CASE monitor.query = "unsupported"
    BY <2>2 DEF Begin, Advance, Failed
  <2>3. CASE monitor.query = "on_demand" /\ ~monitor.installed
    BY <2>3 DEF Begin, Advance, Nothing
  <2>4. CASE monitor.query # "unsupported" /\ ~(monitor.query = "on_demand" /\ ~monitor.installed)
    <3>1. job' = "command" /\ got' = Nothing
      BY <2>4 DEF Begin, Advance
    <3> QED
      BY <2>1, <2>4, <3>1 DEF Nothing, Queries
  <2> QED
    BY <2>2, <2>3, <2>4
<1>3. OwnInv'
  BY <1>1, OwnStays DEF Inv
<1>4. Types'
  BY <1>1, <1>2 DEF Inv, Types, Sessions, Callers, Hidden, Joins3, Workers, JobSteps, Places,
     Kept, Waiting
<1>5. PlaceInv'
  BY <1>1, <1>2 DEF Inv, Types, PlaceInv, There, Live, Sessions, Callers, Hidden, Joins3,
     Workers, JobSteps, Places, Kept, Waiting
<1>6. QueryInv'
  BY <1>1, <1>2 DEF Inv, PlaceInv, QueryInv, There, Chose, Hidden, Settled, Kept, Waiting
<1>7. ResultInv'
  BY <1>1, <1>2, NothingIsGood DEF Inv, Types, PlaceInv, QueryInv, ResultInv, There, Settled,
     Hidden, Kept, Waiting
<1> QED
  BY <1>3, <1>4, <1>5, <1>6, <1>7 DEF Inv

LEMMA InstallKeeps == ASSUME Inv, Install PROVE Inv'
<1>1. /\ UNCHANGED <<kernel, caller, worker, session, thread, rogue, exits, outcome>>
      /\ job = "install" /\ There /\ session = "open" /\ monitor.config \in Stageable
      /\ monitor.query = "on_demand" /\ caller \notin Hidden
  BY DEF Inv, PlaceInv, QueryInv, There, Chose, Stageable, Install, Work, environment
<1>2. \/ /\ Changed(monitor.config) /\ staged' = monitor.config /\ job' = "command" /\ got' = Nothing
         /\ SameBut(monitor', monitor.place, TRUE)
      \/ /\ monitor' = monitor /\ staged' = staged /\ job' = "end" /\ got'.results = <<>>
         /\ Unchanged \/ Broken \/ (NoFault /\ UNCHANGED conf)
  <2>1. CASE /\ Changed(monitor.config) /\ Advance("command", Nothing)
             /\ monitor' = [monitor EXCEPT !.installed = TRUE]
    BY <2>1, Marked DEF Inv, Advance, Changed
  <2>2. CASE NoFault /\ UNCHANGED <<conf, staged, monitor>> /\ Advance("end", Failed(Verdict))
    BY <2>2 DEF Advance, Failed
  <2>3. CASE (Unchanged \/ Broken) /\ UNCHANGED monitor /\ Advance("end", Failed("failed"))
    BY <2>3 DEF Advance, Failed, Unchanged, Broken
  <2> QED
    BY <2>1, <2>2, <2>3 DEF Install
<1>3. OwnInv' /\ faults' \in Nat
  <2>1. CASE Changed(monitor.config) \/ Unchanged \/ Broken
    BY <1>1, <2>1, OwnChanges DEF Hidden
  <2>2. CASE NoFault /\ UNCHANGED <<conf, staged>>
    <3>1. Kept
      BY <1>1, <2>2 DEF Kept, NoFault, Inv, Types
    <3> QED
      BY <3>1, OwnStays DEF Inv, Kept
  <2> QED
    BY <1>2, <2>1, <2>2
<1>4. Types'
  BY <1>1, <1>2, <1>3 DEF Inv, Types, Sessions, Callers, Hidden, Joins3, Workers, JobSteps,
     Places, SameBut, Nothing, Waiting
<1>5. PlaceInv'
  BY <1>1, <1>2, <1>3 DEF Inv, Types, PlaceInv, There, Live, Sessions, Callers, Hidden,
     Joins3, Workers, JobSteps, Places, SameBut, Nothing, Waiting
<1>6. QueryInv'
  BY <1>1, <1>2, <1>3 DEF Inv, PlaceInv, QueryInv, There, Chose, Hidden, Settled, SameBut,
     Nothing, Waiting
<1>7. ResultInv'
  BY <1>1, <1>2, <1>3, NothingIsGood DEF Inv, Types, PlaceInv, QueryInv, ResultInv, There,
     Settled, Hidden, SameBut, Nothing, Waiting
<1> QED
  BY <1>3, <1>4, <1>5, <1>6, <1>7 DEF Inv

LEMMA VerifyKeeps == ASSUME Inv, Verify PROVE Inv'
<1>1. /\ Kept /\ UNCHANGED <<kernel, caller, worker, monitor, outcome>> /\ job = "verify" /\ There
      /\ monitor.query = "permanent" \/ monitor.installed
  BY DEF Inv, Types, PlaceInv, QueryInv, There, Kept, Verify, Work, sessionVars, environment,
     NoFault, Fault
<1>2. \/ got' = got /\ Running
      \/ got'.results = <<>>
  BY DEF Verify, AfterBatch, Advance, Failed
<1>3. /\ job' \in {"restore", "end"}
      /\ job' = "restore" => monitor.query = "on_demand"
      /\ job' = "end" /\ got'.how = "ok" => monitor.query # "on_demand"
  BY DEF Verify, AfterBatch, Advance
<1>4. monitor.query # "on_demand" /\ got'.how = "ok" /\ Running => conf = Settled
  BY <1>1 DEF Inv, Types, Monitors, QueryInv, PlaceInv, Running, Owned, Settled, Queries
<1>5. OwnInv'
  BY <1>1, OwnStays DEF Inv
<1>6. Types'
  BY <1>1, <1>2, <1>3, <1>4 DEF Inv, Types, Sessions, Callers, Hidden, Joins3, Workers,
     JobSteps, Places, Kept, Running, Owned, Waiting
<1>7. PlaceInv'
  BY <1>1, <1>2, <1>3, <1>4 DEF Inv, Types, PlaceInv, There, Live, Sessions, Callers, Hidden,
     Joins3, Workers, JobSteps, Places, Kept, Running, Owned, Waiting
<1>8. QueryInv'
  BY <1>1, <1>2, <1>3, <1>4 DEF Inv, PlaceInv, QueryInv, There, Chose, Hidden, Settled, Kept,
     Running, Owned, Waiting
<1>9. ResultInv'
  BY <1>1, <1>2, <1>3, <1>4, NothingIsGood DEF Inv, Types, PlaceInv, QueryInv, ResultInv,
     There, Settled, Hidden, Kept, Running, Owned, Waiting
<1> QED
  BY <1>5, <1>6, <1>7, <1>8, <1>9 DEF Inv

LEMMA RestoreKeeps == ASSUME Inv, Restore PROVE Inv'
<1>1. /\ UNCHANGED <<kernel, caller, worker, session, thread, rogue, exits, outcome>>
      /\ job = "restore" /\ There /\ session = "open" /\ Base \in Stageable
      /\ monitor.query = "on_demand" /\ caller \notin Hidden
  BY DEF Inv, PlaceInv, QueryInv, There, Stageable, Restore, Work, environment
<1>2. /\ job' = "end"
      /\ \/ /\ Changed(Base) /\ staged' = Base /\ conf' = Base /\ got' = got
            /\ SameBut(monitor', monitor.place, FALSE)
         \/ /\ monitor' = monitor /\ staged' = staged /\ got'.results = <<>>
            /\ Unchanged \/ Broken \/ (NoFault /\ UNCHANGED conf)
  <2>1. CASE /\ Changed(Base) /\ Advance("end", got)
             /\ monitor' = [monitor EXCEPT !.installed = FALSE]
    BY <2>1, Marked DEF Inv, Advance, Changed
  <2>2. CASE NoFault /\ UNCHANGED <<conf, staged, monitor>> /\ Advance("end", RestoreFailure)
    BY <2>2 DEF Advance, RestoreFailure, Failed
  <2>3. CASE (Unchanged \/ Broken) /\ UNCHANGED monitor /\ Advance("end", RestoreFailure)
    BY <2>3 DEF Advance, RestoreFailure, Failed, Unchanged, Broken
  <2> QED
    BY <2>1, <2>2, <2>3 DEF Restore
<1>3. OwnInv' /\ faults' \in Nat
  <2>1. CASE Changed(Base) \/ Unchanged \/ Broken
    BY <1>1, <2>1, OwnChanges DEF Hidden
  <2>2. CASE NoFault /\ UNCHANGED <<conf, staged>>
    <3>1. Kept
      BY <1>1, <2>2 DEF Kept, NoFault, Inv, Types
    <3> QED
      BY <3>1, OwnStays DEF Inv, Kept
  <2> QED
    BY <1>2, <2>1, <2>2
<1>4. Types'
  BY <1>1, <1>2, <1>3 DEF Inv, Types, Sessions, Callers, Hidden, Joins3, Workers, JobSteps,
     Places, SameBut, Waiting
<1>5. PlaceInv'
  BY <1>1, <1>2, <1>3 DEF Inv, Types, PlaceInv, There, Live, Sessions, Callers, Hidden,
     Joins3, Workers, JobSteps, Places, SameBut, Waiting
<1>6. QueryInv'
  BY <1>1, <1>2, <1>3 DEF Inv, PlaceInv, QueryInv, There, Chose, Hidden, Settled, SameBut,
     Waiting
<1>7. ResultInv'
  BY <1>1, <1>2, <1>3, NothingIsGood DEF Inv, Types, PlaceInv, QueryInv, ResultInv, There,
     Settled, Hidden, SameBut, Waiting
<1> QED
  BY <1>3, <1>4, <1>5, <1>6, <1>7 DEF Inv

-----------------------------------------------------------------------------
(* The calls, the worker and the request                                  *)

LEMMA MaterializedKeeps == ASSUME Inv, Materialized PROVE Inv'
<1>1. Kept
  BY DEF Inv, Types, Hidden, Kept, Materialized, Step, Goto, Return, Called, kernelVars, sessionVars,
     workVars, environment, NoFault, Fault, TwoFaults, Waits, Waiting, Joining, Joins, Ended,
     WorkerStep, Holds, Failed, Done, Nothing
<1>2. OwnInv'
  BY <1>1, OwnStays DEF Inv
<1>3. Types'
  BY DEF Inv, Types, Sessions, Callers, Hidden, Joins3, Workers, JobSteps, Places,
     Materialized, Step, Goto, Return, Called, kernelVars, sessionVars, workVars, environment,
     NoFault, Fault, TwoFaults, Waits, Waiting, Joining, Joins, Ended, WorkerStep, Holds,
     Failed, Done, Nothing
<1>4. PlaceInv'
  BY DEF Inv, Types, PlaceInv, There, Live, Sessions, Callers, Hidden, Joins3, Workers,
     JobSteps, Places, Materialized, Step, Goto, Return, Called, kernelVars, sessionVars,
     workVars, environment, NoFault, Fault, TwoFaults, Waits, Waiting, Joining, Joins, Ended,
     WorkerStep, Holds, Failed, Done, Nothing
<1>5. QueryInv'
  BY DEF Inv, PlaceInv, QueryInv, There, Chose, Hidden, Settled, Materialized, Step, Goto,
     Return, Called, kernelVars, sessionVars, workVars, environment, NoFault, Fault, TwoFaults,
     Waits, Waiting, Joining, Joins, Ended, WorkerStep, Holds, Failed, Done, Nothing
<1>6. ResultInv'
  BY NothingIsGood DEF Inv, Types, PlaceInv, QueryInv, ResultInv, There, Settled, Hidden,
     Materialized, Step, Goto, Return, Called, kernelVars, sessionVars, workVars, environment,
     NoFault, Fault, TwoFaults, Waits, Waiting, Joining, Joins, Ended, WorkerStep, Holds,
     Failed, Done, Nothing
<1> QED
  BY <1>2, <1>3, <1>4, <1>5, <1>6 DEF Inv

LEMMA RequestKeeps == ASSUME Inv, Request PROVE Inv'
<1>1. Kept
  BY DEF Inv, Types, Hidden, Kept, Request, Step, Goto, Return, Called, kernelVars, sessionVars,
     workVars, environment, NoFault, Fault, TwoFaults, Waits, Waiting, Joining, Joins, Ended,
     WorkerStep, Holds, Failed, Done, Nothing, SameBut
<1>2. OwnInv'
  BY <1>1, OwnStays DEF Inv
<1>3. Types'
  BY Moved DEF Inv, Types, Sessions, Callers, Hidden, Joins3, Workers, JobSteps, Places,
     Request, Step, Goto, Return, Called, kernelVars, sessionVars, workVars, environment,
     NoFault, Fault, TwoFaults, Waits, Waiting, Joining, Joins, Ended, WorkerStep, Holds,
     Failed, Done, Nothing, SameBut
<1>4. PlaceInv'
  BY Moved DEF Inv, Types, PlaceInv, There, Live, Sessions, Callers, Hidden, Joins3, Workers,
     JobSteps, Places, Request, Step, Goto, Return, Called, kernelVars, sessionVars, workVars,
     environment, NoFault, Fault, TwoFaults, Waits, Waiting, Joining, Joins, Ended, WorkerStep,
     Holds, Failed, Done, Nothing, SameBut
<1>5. QueryInv'
  BY Moved DEF Inv, PlaceInv, QueryInv, There, Chose, Hidden, Settled, Request, Step, Goto,
     Return, Called, kernelVars, sessionVars, workVars, environment, NoFault, Fault, TwoFaults,
     Waits, Waiting, Joining, Joins, Ended, WorkerStep, Holds, Failed, Done, Nothing, SameBut
<1>6. ResultInv'
  BY Moved, NothingIsGood DEF Inv, Types, PlaceInv, QueryInv, ResultInv, There, Settled,
     Hidden, Request, Step, Goto, Return, Called, kernelVars, sessionVars, workVars,
     environment, NoFault, Fault, TwoFaults, Waits, Waiting, Joining, Joins, Ended, WorkerStep,
     Holds, Failed, Done, Nothing, SameBut
<1> QED
  BY <1>2, <1>3, <1>4, <1>5, <1>6 DEF Inv

LEMMA SpawnFailsKeeps == ASSUME Inv, SpawnFails PROVE Inv'
<1>1. Kept
  BY DEF Inv, Types, Hidden, Kept, SpawnFails, Step, Goto, Return, Called, kernelVars, sessionVars,
     workVars, environment, NoFault, Fault, TwoFaults, Waits, Waiting, Joining, Joins, Ended,
     WorkerStep, Holds, Failed, Done, Nothing
<1>2. OwnInv'
  BY <1>1, OwnStays DEF Inv
<1>3. Types'
  BY DEF Inv, Types, Sessions, Callers, Hidden, Joins3, Workers, JobSteps, Places,
     SpawnFails, Step, Goto, Return, Called, kernelVars, sessionVars, workVars, environment,
     NoFault, Fault, TwoFaults, Waits, Waiting, Joining, Joins, Ended, WorkerStep, Holds,
     Failed, Done, Nothing
<1>4. PlaceInv'
  BY DEF Inv, Types, PlaceInv, There, Live, Sessions, Callers, Hidden, Joins3, Workers,
     JobSteps, Places, SpawnFails, Step, Goto, Return, Called, kernelVars, sessionVars,
     workVars, environment, NoFault, Fault, TwoFaults, Waits, Waiting, Joining, Joins, Ended,
     WorkerStep, Holds, Failed, Done, Nothing
<1>5. QueryInv'
  BY DEF Inv, PlaceInv, QueryInv, There, Chose, Hidden, Settled, SpawnFails, Step, Goto,
     Return, Called, kernelVars, sessionVars, workVars, environment, NoFault, Fault, TwoFaults,
     Waits, Waiting, Joining, Joins, Ended, WorkerStep, Holds, Failed, Done, Nothing
<1>6. ResultInv'
  BY NothingIsGood DEF Inv, Types, PlaceInv, QueryInv, ResultInv, There, Settled, Hidden,
     SpawnFails, Step, Goto, Return, Called, kernelVars, sessionVars, workVars, environment,
     NoFault, Fault, TwoFaults, Waits, Waiting, Joining, Joins, Ended, WorkerStep, Holds,
     Failed, Done, Nothing
<1> QED
  BY <1>2, <1>3, <1>4, <1>5, <1>6 DEF Inv

LEMMA SendKeeps == ASSUME Inv, Send PROVE Inv'
<1>1. Kept
  BY DEF Inv, Types, Hidden, Kept, Send, Step, Goto, Return, Called, kernelVars, sessionVars, workVars,
     environment, NoFault, Fault, TwoFaults, Waits, Waiting, Joining, Joins, Ended, WorkerStep,
     Holds, Failed, Done, Nothing, SameBut
<1>2. OwnInv'
  BY <1>1, OwnStays DEF Inv
<1>3. Types'
  BY Moved DEF Inv, Types, Sessions, Callers, Hidden, Joins3, Workers, JobSteps, Places,
     Send, Step, Goto, Return, Called, kernelVars, sessionVars, workVars, environment, NoFault,
     Fault, TwoFaults, Waits, Waiting, Joining, Joins, Ended, WorkerStep, Holds, Failed, Done,
     Nothing, SameBut
<1>4. PlaceInv'
  BY Moved DEF Inv, Types, PlaceInv, There, Live, Sessions, Callers, Hidden, Joins3, Workers,
     JobSteps, Places, Send, Step, Goto, Return, Called, kernelVars, sessionVars, workVars,
     environment, NoFault, Fault, TwoFaults, Waits, Waiting, Joining, Joins, Ended, WorkerStep,
     Holds, Failed, Done, Nothing, SameBut
<1>5. QueryInv'
  BY Moved DEF Inv, PlaceInv, QueryInv, There, Chose, Hidden, Settled, Send, Step, Goto,
     Return, Called, kernelVars, sessionVars, workVars, environment, NoFault, Fault, TwoFaults,
     Waits, Waiting, Joining, Joins, Ended, WorkerStep, Holds, Failed, Done, Nothing, SameBut
<1>6. ResultInv'
  BY Moved, NothingIsGood DEF Inv, Types, PlaceInv, QueryInv, ResultInv, There, Settled,
     Hidden, Send, Step, Goto, Return, Called, kernelVars, sessionVars, workVars,
     environment, NoFault, Fault, TwoFaults, Waits, Waiting, Joining, Joins, Ended, WorkerStep,
     Holds, Failed, Done, Nothing, SameBut
<1> QED
  BY <1>2, <1>3, <1>4, <1>5, <1>6 DEF Inv

LEMMA ExitKeeps == ASSUME Inv, Exit PROVE Inv'
<1>1. Kept
  BY DEF Inv, Types, Hidden, Kept, Exit, Step, Goto, Return, Called, kernelVars, sessionVars, workVars,
     environment, NoFault, Fault, TwoFaults, Waits, Waiting, Joining, Joins, Ended, WorkerStep,
     Holds, Failed, Done, Nothing
<1>2. OwnInv'
  BY <1>1, OwnStays DEF Inv
<1>3. Types'
  BY DEF Inv, Types, Sessions, Callers, Hidden, Joins3, Workers, JobSteps, Places, Exit,
     Step, Goto, Return, Called, kernelVars, sessionVars, workVars, environment, NoFault,
     Fault, TwoFaults, Waits, Waiting, Joining, Joins, Ended, WorkerStep, Holds, Failed, Done,
     Nothing
<1>4. PlaceInv'
  BY DEF Inv, Types, PlaceInv, There, Live, Sessions, Callers, Hidden, Joins3, Workers,
     JobSteps, Places, Exit, Step, Goto, Return, Called, kernelVars, sessionVars, workVars,
     environment, NoFault, Fault, TwoFaults, Waits, Waiting, Joining, Joins, Ended, WorkerStep,
     Holds, Failed, Done, Nothing
<1>5. QueryInv'
  BY DEF Inv, PlaceInv, QueryInv, There, Chose, Hidden, Settled, Exit, Step, Goto, Return,
     Called, kernelVars, sessionVars, workVars, environment, NoFault, Fault, TwoFaults, Waits,
     Waiting, Joining, Joins, Ended, WorkerStep, Holds, Failed, Done, Nothing
<1>6. ResultInv'
  BY NothingIsGood DEF Inv, Types, PlaceInv, QueryInv, ResultInv, There, Settled, Hidden,
     Exit, Step, Goto, Return, Called, kernelVars, sessionVars, workVars, environment, NoFault,
     Fault, TwoFaults, Waits, Waiting, Joining, Joins, Ended, WorkerStep, Holds, Failed, Done,
     Nothing
<1> QED
  BY <1>2, <1>3, <1>4, <1>5, <1>6 DEF Inv

LEMMA ReceiveKeeps == ASSUME Inv, Receive PROVE Inv'
<1>1. Kept
  BY DEF Inv, Types, Hidden, Kept, Receive, Step, Goto, Return, Called, kernelVars, sessionVars,
     workVars, environment, NoFault, Fault, TwoFaults, Waits, Waiting, Joining, Joins, Ended,
     WorkerStep, Holds, Failed, Done, Nothing, SameBut
<1>2. OwnInv'
  BY <1>1, OwnStays DEF Inv
<1>3. Types'
  BY Moved DEF Inv, Types, Sessions, Callers, Hidden, Joins3, Workers, JobSteps, Places,
     Receive, Step, Goto, Return, Called, kernelVars, sessionVars, workVars, environment,
     NoFault, Fault, TwoFaults, Waits, Waiting, Joining, Joins, Ended, WorkerStep, Holds,
     Failed, Done, Nothing, SameBut
<1>4. PlaceInv'
  BY Moved DEF Inv, Types, PlaceInv, There, Live, Sessions, Callers, Hidden, Joins3, Workers,
     JobSteps, Places, Receive, Step, Goto, Return, Called, kernelVars, sessionVars, workVars,
     environment, NoFault, Fault, TwoFaults, Waits, Waiting, Joining, Joins, Ended, WorkerStep,
     Holds, Failed, Done, Nothing, SameBut
<1>5. QueryInv'
  BY Moved DEF Inv, PlaceInv, QueryInv, There, Chose, Hidden, Settled, Receive, Step, Goto,
     Return, Called, kernelVars, sessionVars, workVars, environment, NoFault, Fault, TwoFaults,
     Waits, Waiting, Joining, Joins, Ended, WorkerStep, Holds, Failed, Done, Nothing, SameBut
<1>6. ResultInv'
  BY Moved, NothingIsGood DEF Inv, Types, PlaceInv, QueryInv, ResultInv, There, Settled,
     Hidden, Receive, Step, Goto, Return, Called, kernelVars, sessionVars, workVars,
     environment, NoFault, Fault, TwoFaults, Waits, Waiting, Joining, Joins, Ended, WorkerStep,
     Holds, Failed, Done, Nothing, SameBut
<1> QED
  BY <1>2, <1>3, <1>4, <1>5, <1>6 DEF Inv

LEMMA AlreadyReceivedKeeps == ASSUME Inv, AlreadyReceived PROVE Inv'
<1>1. Kept
  BY DEF Inv, Types, Hidden, Kept, AlreadyReceived, Step, Goto, Return, Called, kernelVars,
     sessionVars, workVars, environment, NoFault, Fault, TwoFaults, Waits, Waiting, Joining,
     Joins, Ended, WorkerStep, Holds, Failed, Done, Nothing
<1>2. OwnInv'
  BY <1>1, OwnStays DEF Inv
<1>3. Types'
  BY DEF Inv, Types, Sessions, Callers, Hidden, Joins3, Workers, JobSteps, Places,
     AlreadyReceived, Step, Goto, Return, Called, kernelVars, sessionVars, workVars,
     environment, NoFault, Fault, TwoFaults, Waits, Waiting, Joining, Joins, Ended, WorkerStep,
     Holds, Failed, Done, Nothing
<1>4. PlaceInv'
  BY DEF Inv, Types, PlaceInv, There, Live, Sessions, Callers, Hidden, Joins3, Workers,
     JobSteps, Places, AlreadyReceived, Step, Goto, Return, Called, kernelVars, sessionVars,
     workVars, environment, NoFault, Fault, TwoFaults, Waits, Waiting, Joining, Joins, Ended,
     WorkerStep, Holds, Failed, Done, Nothing
<1>5. QueryInv'
  BY DEF Inv, PlaceInv, QueryInv, There, Chose, Hidden, Settled, AlreadyReceived, Step, Goto,
     Return, Called, kernelVars, sessionVars, workVars, environment, NoFault, Fault, TwoFaults,
     Waits, Waiting, Joining, Joins, Ended, WorkerStep, Holds, Failed, Done, Nothing
<1>6. ResultInv'
  BY NothingIsGood DEF Inv, Types, PlaceInv, QueryInv, ResultInv, There, Settled, Hidden,
     AlreadyReceived, Step, Goto, Return, Called, kernelVars, sessionVars, workVars,
     environment, NoFault, Fault, TwoFaults, Waits, Waiting, Joining, Joins, Ended, WorkerStep,
     Holds, Failed, Done, Nothing
<1> QED
  BY <1>2, <1>3, <1>4, <1>5, <1>6 DEF Inv

LEMMA PendingKeeps == ASSUME Inv, Pending PROVE Inv'
<1>1. Kept
  BY DEF Inv, Types, Hidden, Kept, Pending, Step, Goto, Return, Called, kernelVars, sessionVars,
     workVars, environment, NoFault, Fault, TwoFaults, Waits, Waiting, Joining, Joins, Ended,
     WorkerStep, Holds, Failed, Done, Nothing
<1>2. OwnInv'
  BY <1>1, OwnStays DEF Inv
<1>3. Types'
  BY DEF Inv, Types, Sessions, Callers, Hidden, Joins3, Workers, JobSteps, Places, Pending,
     Step, Goto, Return, Called, kernelVars, sessionVars, workVars, environment, NoFault,
     Fault, TwoFaults, Waits, Waiting, Joining, Joins, Ended, WorkerStep, Holds, Failed, Done,
     Nothing
<1>4. PlaceInv'
  BY DEF Inv, Types, PlaceInv, There, Live, Sessions, Callers, Hidden, Joins3, Workers,
     JobSteps, Places, Pending, Step, Goto, Return, Called, kernelVars, sessionVars, workVars,
     environment, NoFault, Fault, TwoFaults, Waits, Waiting, Joining, Joins, Ended, WorkerStep,
     Holds, Failed, Done, Nothing
<1>5. QueryInv'
  BY DEF Inv, PlaceInv, QueryInv, There, Chose, Hidden, Settled, Pending, Step, Goto, Return,
     Called, kernelVars, sessionVars, workVars, environment, NoFault, Fault, TwoFaults, Waits,
     Waiting, Joining, Joins, Ended, WorkerStep, Holds, Failed, Done, Nothing
<1>6. ResultInv'
  BY NothingIsGood DEF Inv, Types, PlaceInv, QueryInv, ResultInv, There, Settled, Hidden,
     Pending, Step, Goto, Return, Called, kernelVars, sessionVars, workVars, environment,
     NoFault, Fault, TwoFaults, Waits, Waiting, Joining, Joins, Ended, WorkerStep, Holds,
     Failed, Done, Nothing
<1> QED
  BY <1>2, <1>3, <1>4, <1>5, <1>6 DEF Inv

LEMMA DisconnectedKeeps == ASSUME Inv, Disconnected PROVE Inv'
<1>1. Kept
  BY DEF Inv, Types, Hidden, Kept, Disconnected, Step, Goto, Return, Called, kernelVars, sessionVars,
     workVars, environment, NoFault, Fault, TwoFaults, Waits, Waiting, Joining, Joins, Ended,
     WorkerStep, Holds, Failed, Done, Nothing
<1>2. OwnInv'
  BY <1>1, OwnStays DEF Inv
<1>3. Types'
  BY DEF Inv, Types, Sessions, Callers, Hidden, Joins3, Workers, JobSteps, Places,
     Disconnected, Step, Goto, Return, Called, kernelVars, sessionVars, workVars, environment,
     NoFault, Fault, TwoFaults, Waits, Waiting, Joining, Joins, Ended, WorkerStep, Holds,
     Failed, Done, Nothing
<1>4. PlaceInv'
  BY DEF Inv, Types, PlaceInv, There, Live, Sessions, Callers, Hidden, Joins3, Workers,
     JobSteps, Places, Disconnected, Step, Goto, Return, Called, kernelVars, sessionVars,
     workVars, environment, NoFault, Fault, TwoFaults, Waits, Waiting, Joining, Joins, Ended,
     WorkerStep, Holds, Failed, Done, Nothing
<1>5. QueryInv'
  BY DEF Inv, PlaceInv, QueryInv, There, Chose, Hidden, Settled, Disconnected, Step, Goto,
     Return, Called, kernelVars, sessionVars, workVars, environment, NoFault, Fault, TwoFaults,
     Waits, Waiting, Joining, Joins, Ended, WorkerStep, Holds, Failed, Done, Nothing
<1>6. ResultInv'
  BY NothingIsGood DEF Inv, Types, PlaceInv, QueryInv, ResultInv, There, Settled, Hidden,
     Disconnected, Step, Goto, Return, Called, kernelVars, sessionVars, workVars, environment,
     NoFault, Fault, TwoFaults, Waits, Waiting, Joining, Joins, Ended, WorkerStep, Holds,
     Failed, Done, Nothing
<1> QED
  BY <1>2, <1>3, <1>4, <1>5, <1>6 DEF Inv

LEMMA WaitJoinedKeeps == ASSUME Inv, WaitJoined PROVE Inv'
<1>1. Kept
  BY DEF Inv, Types, Hidden, Kept, WaitJoined, Step, Goto, Return, Called, kernelVars, sessionVars,
     workVars, environment, NoFault, Fault, TwoFaults, Waits, Waiting, Joining, Joins, Ended,
     WorkerStep, Holds, Failed, Done, Nothing
<1>2. OwnInv'
  BY <1>1, OwnStays DEF Inv
<1>3. Types'
  BY DEF Inv, Types, Sessions, Callers, Hidden, Joins3, Workers, JobSteps, Places,
     WaitJoined, Step, Goto, Return, Called, kernelVars, sessionVars, workVars, environment,
     NoFault, Fault, TwoFaults, Waits, Waiting, Joining, Joins, Ended, WorkerStep, Holds,
     Failed, Done, Nothing
<1>4. PlaceInv'
  BY DEF Inv, Types, PlaceInv, There, Live, Sessions, Callers, Hidden, Joins3, Workers,
     JobSteps, Places, WaitJoined, Step, Goto, Return, Called, kernelVars, sessionVars,
     workVars, environment, NoFault, Fault, TwoFaults, Waits, Waiting, Joining, Joins, Ended,
     WorkerStep, Holds, Failed, Done, Nothing
<1>5. QueryInv'
  BY DEF Inv, PlaceInv, QueryInv, There, Chose, Hidden, Settled, WaitJoined, Step, Goto,
     Return, Called, kernelVars, sessionVars, workVars, environment, NoFault, Fault, TwoFaults,
     Waits, Waiting, Joining, Joins, Ended, WorkerStep, Holds, Failed, Done, Nothing
<1>6. ResultInv'
  BY NothingIsGood DEF Inv, Types, PlaceInv, QueryInv, ResultInv, There, Settled, Hidden,
     WaitJoined, Step, Goto, Return, Called, kernelVars, sessionVars, workVars, environment,
     NoFault, Fault, TwoFaults, Waits, Waiting, Joining, Joins, Ended, WorkerStep, Holds,
     Failed, Done, Nothing
<1> QED
  BY <1>2, <1>3, <1>4, <1>5, <1>6 DEF Inv

LEMMA PanicKeeps == ASSUME Inv, Panic PROVE Inv'
<1>1. /\ session = "open" /\ caller \notin Hidden \cup {"start", "materialize"} /\ DropSession
      /\ UNCHANGED <<rogue, caller, outcome, got>>
      /\ worker' = "panicked" /\ job' = "none" /\ monitor' = NoMonitor
  BY DEF Inv, PlaceInv, There, Panic
<1>2. /\ OwnInv' /\ session' = "dropped" /\ thread' \in BOOLEAN /\ faults' \in Nat /\ exits' \in Nat
      /\ UNCHANGED <<kernel, staged>>
  BY <1>1, Drops
<1>3. Types'
  BY NoMonitorType, <1>1, <1>2 DEF Inv, Types, Sessions, Workers, JobSteps
<1>4. PlaceInv'
  BY NoMonitorType, <1>1, <1>2 DEF Inv, PlaceInv, There, Live
<1>5. QueryInv'
  BY NoMonitorType, <1>1, <1>2 DEF Inv, QueryInv, There, Hidden
<1>6. ResultInv'
  BY NoMonitorType, <1>1, <1>2, NothingIsGood DEF Inv, ResultInv, There
<1> QED
  BY <1>2, <1>3, <1>4, <1>5, <1>6 DEF Inv

LEMMA DropMonitorKeeps == ASSUME Inv, DropMonitor PROVE Inv'
<1>1. /\ session = "open" /\ worker = "none" /\ job = "none" /\ DropSession
      /\ caller = "free" /\ caller' = "free" /\ outcome'.results = <<>>
      /\ UNCHANGED <<rogue, got, worker, job>> /\ monitor' = NoMonitor
  BY DEF Inv, Types, Workers, PlaceInv, There, DropMonitor, Holds, Return, Failed, workVars
<1>2. /\ OwnInv' /\ session' = "dropped" /\ thread' \in BOOLEAN /\ faults' \in Nat /\ exits' \in Nat
      /\ UNCHANGED <<kernel, staged>>
  BY <1>1, Drops DEF Hidden
<1>3. Types'
  BY NoMonitorType, <1>1, <1>2 DEF Inv, Types, Sessions
<1>4. PlaceInv'
  BY NoMonitorType, <1>1, <1>2 DEF Inv, PlaceInv, There, Live, Hidden, Waiting, Joins3
<1>5. QueryInv'
  BY NoMonitorType, <1>1, <1>2 DEF Inv, QueryInv, There
<1>6. ResultInv'
  BY NoMonitorType, <1>1, <1>2, NothingIsGood DEF Inv, ResultInv, There, Hidden
<1> QED
  BY <1>2, <1>3, <1>4, <1>5, <1>6 DEF Inv

LEMMA StopKeeps == ASSUME Inv, Stop PROVE Inv'
<1>1. /\ session = "open" /\ worker = "none" /\ job = "none" /\ caller = "free" /\ caller' = "stop"
      /\ UNCHANGED <<kernel, worker, job, got, outcome>> /\ Kept /\ monitor' = NoMonitor
  BY DEF Inv, Types, Workers, PlaceInv, There, Stop, Called, Goto, Holds, Kept, Hidden, kernelVars,
     sessionVars, workVars, environment
<1>2. OwnInv'
  BY <1>1, OwnStays DEF Inv
<1>3. Types'
  BY NoMonitorType, <1>1 DEF Inv, Types, Kept, Callers, Hidden
<1>4. PlaceInv'
  BY NoMonitorType, <1>1 DEF Inv, PlaceInv, There, Live, Kept, Hidden, Waiting, Joins3
<1>5. QueryInv'
  BY NoMonitorType, <1>1 DEF Inv, QueryInv, There
<1>6. ResultInv'
  BY NoMonitorType, <1>1, NothingIsGood DEF Inv, ResultInv, There, Hidden, Kept
<1> QED
  BY <1>2, <1>3, <1>4, <1>5, <1>6 DEF Inv

LEMMA LookKeeps == ASSUME Inv, NEW call \in Waiting, Look(call) PROVE Inv'
<1>1. /\ Kept /\ UNCHANGED <<kernel, monitor, worker, job, got, outcome>>
      /\ caller = "free" /\ caller' = call /\ worker # "none"
  BY DEF Inv, Types, Hidden, Waiting, Kept, Look, Called, Goto, kernelVars, sessionVars, workVars,
     environment
<1>2. OwnInv'
  BY <1>1, OwnStays DEF Inv
<1>3. Types'
  BY <1>1 DEF Inv, Types, Sessions, Callers, Hidden, Joins3, Workers, JobSteps, Places, Kept,
     Waiting
<1>4. PlaceInv'
  BY <1>1 DEF Inv, Types, PlaceInv, There, Live, Sessions, Callers, Hidden, Joins3, Workers,
     JobSteps, Places, Kept, Waiting
<1>5. QueryInv'
  BY <1>1 DEF Inv, PlaceInv, QueryInv, There, Chose, Hidden, Settled, Kept, Waiting
<1>6. ResultInv'
  BY <1>1, NothingIsGood DEF Inv, Types, PlaceInv, QueryInv, ResultInv, There, Settled,
     Hidden, Kept, Waiting
<1> QED
  BY <1>2, <1>3, <1>4, <1>5, <1>6 DEF Inv

LEMMA MaterializeKeeps == ASSUME Inv, NEW single \in BOOLEAN, Materialize(single) PROVE Inv'
<1>1. /\ Kept /\ UNCHANGED <<kernel, monitor, worker, outcome>> /\ monitor.place = "caller"
      /\ caller = "free" /\ caller' = "materialize" /\ job' \in {"begin", "end"}
      /\ got'.results = <<>>
  BY DEF Inv, Types, Hidden, Kept, Materialize, Called, Goto, Holds, Failed, Nothing, kernelVars,
     sessionVars, environment
<1>2. OwnInv'
  BY <1>1, OwnStays DEF Inv
<1>3. Types'
  BY <1>1 DEF Inv, Types, Sessions, Callers, Hidden, Joins3, Workers, JobSteps, Places, Kept,
     Waiting
<1>4. PlaceInv'
  BY <1>1 DEF Inv, Types, PlaceInv, There, Live, Sessions, Callers, Hidden, Joins3, Workers,
     JobSteps, Places, Kept, Waiting
<1>5. QueryInv'
  BY <1>1 DEF Inv, PlaceInv, QueryInv, There, Chose, Hidden, Settled, Kept, Waiting
<1>6. ResultInv'
  BY <1>1, NothingIsGood DEF Inv, Types, PlaceInv, QueryInv, ResultInv, There, Settled,
     Hidden, Kept, Waiting
<1> QED
  BY <1>2, <1>3, <1>4, <1>5, <1>6 DEF Inv

LEMMA FinishJoinedKeeps == ASSUME Inv, FinishJoined PROVE Inv'
<1>1. /\ Kept /\ UNCHANGED <<kernel, job, got>> /\ worker \in {"ended", "panicked"}
      /\ caller = "finish_join" /\ caller' = "free" /\ worker' = "none"
  BY DEF Inv, Types, Hidden, Kept, FinishJoined, Joins, Return, Ended, kernelVars, sessionVars, environment
<1>2. \/ worker = "panicked" /\ monitor' = monitor /\ outcome'.results = <<>>
      \/ worker # "panicked" /\ SameBut(monitor', "caller", monitor.installed) /\ outcome' = got
  BY Moved DEF Inv, FinishJoined, Return, Failed, Places
<1>3. OwnInv'
  BY <1>1, OwnStays DEF Inv
<1>4. Types'
  BY <1>1, <1>2 DEF Inv, Types, Sessions, Callers, Hidden, Joins3, Workers, JobSteps, Places,
     SameBut, Kept, Waiting
<1>5. PlaceInv'
  BY <1>1, <1>2 DEF Inv, Types, PlaceInv, There, Live, Sessions, Callers, Hidden, Joins3,
     Workers, JobSteps, Places, SameBut, Kept, Waiting
<1>6. QueryInv'
  BY <1>1, <1>2 DEF Inv, PlaceInv, QueryInv, There, Chose, Hidden, Settled, SameBut, Kept,
     Waiting
<1>7. ResultInv'
  BY <1>1, <1>2, NothingIsGood DEF Inv, Types, PlaceInv, QueryInv, ResultInv, There, Settled,
     Hidden, SameBut, Kept, Waiting
<1> QED
  BY <1>3, <1>4, <1>5, <1>6, <1>7 DEF Inv

LEMMA DropJoinedKeeps == ASSUME Inv, DropJoined PROVE Inv'
<1>1. /\ UNCHANGED <<kernel, job, got, rogue>> /\ worker \in {"ended", "panicked"}
      /\ caller = "drop_join" /\ caller' = "free" /\ worker' = "none"
      /\ monitor' = NoMonitor /\ outcome'.results = <<>>
  BY DEF DropJoined, Joins, Return, Ended, Failed, DropSession, kernelVars
<1>2. /\ OwnInv' /\ thread' \in BOOLEAN /\ faults' \in Nat /\ exits' \in Nat
      /\ session' \in {"closed", "dropped", "abandoned", "torn"}
  <2>1. CASE worker = "panicked"
    <3>1. Kept /\ session = session'
      BY <1>1, <2>1 DEF DropJoined, Kept, kernelVars, sessionVars, Hidden, Inv, Types
    <3>2. session \in {"closed", "dropped", "abandoned", "torn"}
      BY <1>1, <2>1 DEF Inv, Types, PlaceInv, Sessions, Live, There, Hidden
    <3> QED
      BY <3>1, <3>2, OwnStays DEF Inv, Types, Kept
  <2>2. CASE worker # "panicked"
    <3>1. session = "open" /\ DropSession /\ caller' \notin Hidden
      BY <1>1, <2>2 DEF DropJoined, Inv, PlaceInv, There, Hidden
    <3> QED
      BY <1>1, <3>1, Drops
  <2> QED
    BY <1>1, <2>1, <2>2
<1>3. Types'
  BY <1>1, <1>2, NoMonitorType DEF Inv, Types, Sessions, Callers, Hidden, Joins3, Workers,
     JobSteps, Places, Waiting
<1>4. PlaceInv'
  BY <1>1, <1>2, NoMonitorType DEF Inv, Types, PlaceInv, There, Live, Sessions, Callers,
     Hidden, Joins3, Workers, JobSteps, Places, Waiting
<1>5. QueryInv'
  BY <1>1, <1>2, NoMonitorType DEF Inv, PlaceInv, QueryInv, There, Chose, Hidden, Settled,
     Waiting
<1>6. ResultInv'
  BY <1>1, <1>2, NoMonitorType, NothingIsGood DEF Inv, Types, PlaceInv, QueryInv, ResultInv,
     There, Settled, Hidden, Waiting
<1> QED
  BY <1>2, <1>3, <1>4, <1>5, <1>6 DEF Inv

-----------------------------------------------------------------------------
(* The environment, and the theorems                                      *)

LEMMA ThreadExitsKeeps == ASSUME Inv, ThreadExits PROVE Inv'
<1>1. /\ thread' = FALSE /\ exits' = exits + 1
      /\ UNCHANGED <<kernel, conf, staged, session, rogue, faults, monitor, caller, worker, job, got, outcome>>
  BY DEF ThreadExits, Outside, sessionVars, workVars
<1>2. exits' \in Nat /\ exits' > 0
  BY <1>1 DEF Inv, Types
<1>3. OwnInv'
  BY <1>1, <1>2 DEF Inv, OwnInv, Live, RestoredAtEnd, Restored
<1>4. Types'
  BY <1>1, <1>2 DEF Inv, Types, Sessions, Callers, Hidden, Joins3, Workers, JobSteps, Places,
     Waiting
<1>5. PlaceInv'
  BY <1>1 DEF Inv, Types, PlaceInv, There, Live, Sessions, Callers, Hidden, Joins3, Workers,
     JobSteps, Places, Waiting
<1>6. QueryInv'
  BY <1>1 DEF Inv, PlaceInv, QueryInv, There, Chose, Hidden, Settled, Waiting
<1>7. ResultInv'
  BY <1>1, NothingIsGood DEF Inv, Types, PlaceInv, QueryInv, ResultInv, There, Settled,
     Hidden, Waiting
<1> QED
  BY <1>3, <1>4, <1>5, <1>6, <1>7 DEF Inv

LEMMA RogueActsKeeps == ASSUME Inv, RogueActs PROVE Inv'
<1>1. /\ Live /\ rogue' = rogue + 1 /\ conf' = Foreign
      /\ UNCHANGED <<kernel, thread, staged, session, faults, exits, monitor, caller, worker, job, got, outcome>>
  BY DEF RogueActs, Outside, Live, sessionVars, workVars
<1>2. rogue' \in Nat /\ rogue' # 0
  BY <1>1 DEF Inv, Types
<1>3. conf' # staged'
  BY <1>1, NotForeign DEF Inv, OwnInv
<1>4. OwnInv'
  BY <1>1, <1>2 DEF Inv, OwnInv, Live, RestoredAtEnd
<1>5. Types'
  BY <1>1, <1>2, <1>3 DEF Inv, Types, Sessions, Callers, Hidden, Joins3, Workers, JobSteps,
     Places, Waiting
<1>6. PlaceInv'
  BY <1>1, <1>2, <1>3 DEF Inv, Types, PlaceInv, There, Live, Sessions, Callers, Hidden,
     Joins3, Workers, JobSteps, Places, Waiting
<1>7. QueryInv'
  BY <1>1, <1>2, <1>3 DEF Inv, PlaceInv, QueryInv, There, Chose, Hidden, Settled, Waiting
<1>8. ResultInv'
  BY <1>1, <1>2, <1>3, NothingIsGood DEF Inv, Types, PlaceInv, QueryInv, ResultInv, There,
     Settled, Hidden, Waiting
<1> QED
  BY <1>4, <1>5, <1>6, <1>7, <1>8 DEF Inv

LEMMA InitHolds == ASSUME Init PROVE Inv
<1>1. /\ kernel \in Kernels /\ conf = Previous /\ thread = FALSE /\ session = "none"
      /\ monitor = NoMonitor /\ caller = "free" /\ worker = "none" /\ job = "none"
      /\ got.results = <<>> /\ outcome.results = <<>> /\ faults = 0 /\ rogue = 0 /\ exits = 0
  BY DEF Init, Nothing
<1>2. Types
  BY <1>1, NoMonitorType DEF Types, Sessions, Callers, Workers, JobSteps
<1>3. PlaceInv
  BY <1>1, NoMonitorType DEF PlaceInv, There, Live, Hidden, Waiting, Joins3
<1>4. QueryInv /\ OwnInv
  BY <1>1, NoMonitorType DEF QueryInv, OwnInv, There, Live, Hidden, RestoredAtEnd
<1>5. ResultInv
  BY <1>1, NoMonitorType, NothingIsGood DEF ResultInv, There, Hidden
<1> QED
  BY <1>2, <1>3, <1>4, <1>5 DEF Inv

LEMMA StepHolds == ASSUME Inv, [Next]_vars PROVE Inv'
<1>1. CASE Calls
  BY <1>1, StartKeeps, MaterializeKeeps, RequestKeeps, SpawnFailsKeeps, LookKeeps, StopKeeps,
     DropMonitorKeeps DEF Calls, Drop, Waiting
<1>2. CASE StartStep
  BY <1>2, StageKeeps, DiscoverKeeps, ChooseKeeps, TryFilteredKeeps, RecheckKeeps, SettleKeeps,
     RunKeeps DEF StartStep
<1>3. CASE MaterializeStep
  BY <1>3, BeginKeeps, InstallKeeps, CommandKeeps, ReadResultsKeeps, VerifyKeeps, RestoreKeeps
     DEF MaterializeStep
<1>4. CASE Received \/ Joined
  BY <1>4, ReceiveKeeps, AlreadyReceivedKeeps, PendingKeeps, DisconnectedKeeps, WaitJoinedKeeps,
     FinishJoinedKeeps, DropJoinedKeeps DEF Received, Joined
<1>5. CASE Materialized \/ Send \/ Exit \/ Panic \/ ThreadExits \/ RogueActs \/ Closing
  BY <1>5, MaterializedKeeps, SendKeeps, ExitKeeps, PanicKeeps, ThreadExitsKeeps, RogueActsKeeps,
     CloseKeeps, CloseAgainKeeps DEF Closing
<1>6. CASE UNCHANGED vars
  <2>1. /\ Kept
        /\ UNCHANGED <<kernel, monitor, caller, worker, job, got, outcome>>
    BY <1>6 DEF vars, kernelVars, sessionVars, workVars, environment, Kept, Inv, Types
  <2>2. OwnInv'
    BY <2>1, OwnStays DEF Inv
  <2>3. Types' /\ PlaceInv'
    BY <2>1 DEF Inv, Types, PlaceInv, There, Live, Kept
  <2>4. QueryInv'
    BY <2>1 DEF Inv, QueryInv, There, Chose, Settled, Kept
  <2>5. ResultInv'
    BY <2>1 DEF Inv, ResultInv, There, Settled, Kept
  <2> QED
    BY <2>2, <2>3, <2>4, <2>5 DEF Inv
<1> QED
  BY <1>1, <1>2, <1>3, <1>4, <1>5, <1>6 DEF Next

\* In every reachable state the monitor, its workers and its session agree.
THEOREM MonitorsKeepInv == Spec => []Inv
<1>1. Init => Inv
  BY InitHolds
<1>2. Inv /\ [Next]_vars => Inv'
  BY StepHolds
<1> QED
  BY <1>1, <1>2, PTL DEF Spec

\* No worker and no session outlives the monitor unseen.  Undisturbed, every ending
\* restores what was there; a close does so although the thread exits under it, and
\* leaves neither the thread nor the monitor's configuration for one failing access
\* (SnapshotRequest::drop, ProcessMonitor::stop, start_workflow's rollback).
THEOREM NothingIsLeft == Spec => []NothingLeft
<1>1. Inv => NothingHidden
  BY DEF Inv, Types, PlaceInv, NothingHidden, Live, There, Hidden, Workers, Places, Monitors
<1>2. Inv => RestoredAtEnd
  BY DEF Inv, OwnInv, RestoredAtEnd
<1>3. Inv => NothingLeft
  BY <1>1, <1>2 DEF NothingLeft
<1> QED
  BY <1>3, MonitorsKeepInv, PTL

\* What the monitor remembers of its private query is what the session owns
\* (OnDemandSnapshotQuery.installed).
THEOREM InstalledStaysTrue == Spec => []InstalledIsTrue
<1>1. Inv => InstalledIsTrue
  BY DEF Inv, QueryInv, There, InstalledIsTrue
<1> QED
  BY <1>1, MonitorsKeepInv, PTL

\* A snapshot that is returned names the target whose filter the kernel applied
\* to it (materialize_scoped_snapshots).
THEOREM SnapshotsNameTargets == Spec => []ReturnedSnapshots
<1>1. Inv => ReturnedSnapshots
  BY DEF Inv, ResultInv, Good, ReturnedSnapshots
<1> QED
  BY <1>1, MonitorsKeepInv, PTL

\* Results are returned by the two calls that hand over what was read.
LEMMA WhoReturns ==
    ASSUME Inv, [Next]_vars, outcome'.results # <<>>, outcome' # outcome, rogue = 0
    PROVE  conf' = Settled
<1>1. CASE Materialized
  BY <1>1 DEF Materialized, Return, kernelVars, Inv, ResultInv
<1>2. CASE FinishJoined
  BY <1>2 DEF FinishJoined, Joins, Return, Failed, kernelVars, Inv, PlaceInv, ResultInv, Joins3
<1>3. Materialized \/ FinishJoined
  <2>1. Calls => outcome' = outcome \/ outcome'.results = <<>>
    BY DEF Calls, Start, Materialize, Request, SpawnFails, Look, Drop, Stop, DropMonitor, Called,
       Goto, Return, Failed
  <2>2. StartStep => outcome' = outcome \/ outcome'.results = <<>>
    <3>1. Stage => outcome' = outcome \/ outcome'.results = <<>>
      BY DEF Stage, Goto, Return, Failed
    <3>2. Discover \/ Choose \/ TryFiltered \/ Recheck \/ Settle => outcome' = outcome
      BY DEF Discover, Choose, TryFiltered, Recheck, Settle, Inspect, Goto
    <3>3. Run => outcome' = outcome \/ outcome' = Done(<<>>)
      BY DEF Run, Goto, Return
    <3> QED
      BY <3>1, <3>2, <3>3 DEF StartStep, Done
  <2>3. MaterializeStep \/ Send \/ Exit \/ Panic \/ ThreadExits \/ RogueActs \/ UNCHANGED vars
            => outcome' = outcome
    BY DEF MaterializeStep, Begin, Install, Command, ReadResults, Verify, Restore, Work, Send, Exit,
       WorkerStep, Panic, ThreadExits, RogueActs, Outside, vars
  <2>4. Received \/ WaitJoined \/ DropJoined \/ Closing => outcome' = outcome \/ outcome'.results = <<>>
    BY DEF Closing, Close, CloseAgain, Received, Receive, AlreadyReceived, Pending, Disconnected, WaitJoined, DropJoined, Goto,
       Return, Failed
  <2> QED
    BY <2>1, <2>2, <2>3, <2>4 DEF Next, Joined
<1> QED
  BY <1>1, <1>2, <1>3

\* Snapshots are returned with the private query taken away again
\* (materialize_snapshots restores the base configuration before it returns).
THEOREM SettledBeforeReturn == Spec => SnapshotsAreSettled
<1>1. Inv /\ [Next]_vars =>
        [outcome'.results # <<>> /\ outcome' # outcome /\ rogue = 0 => conf' = Settled]_vars
  BY WhoReturns
<1> QED
  BY <1>1, MonitorsKeepInv, PTL DEF Spec, SnapshotsAreSettled

-----------------------------------------------------------------------------
(* The initial regions of a target: InitialRegions *)

\* A region ends after it starts, and has whatever address unit the code lets a
\* caller make: a number that is not zero (AddressUnit::new).
RegionsInv ==
    /\ operation \in Initial!Operations /\ unit \in Nat \ {0}
    /\ regions \in Seq([start : Nat, end : Nat])
    /\ asked.how \notin {"none", "units"} => regions # <<>>
    /\ Initial!CoversTheBytes /\ Initial!StayApartInKernel

\* The whole units under and over a number of bytes.
LEMMA WholeUnits ==
    ASSUME NEW u \in Nat \ {0}, NEW n \in Nat
    PROVE  /\ n \div u \in Nat /\ n % u \in 0 .. u - 1
           /\ n = (u * (n \div u)) + (n % u)
  BY SMT

LEMMA CeilUnits ==
    ASSUME NEW u \in Nat \ {0}, NEW n \in Nat
    PROVE  /\ Initial!ceil_units(u, n) \in Nat
           /\ n <= u * Initial!ceil_units(u, n)
           /\ u * (Initial!ceil_units(u, n) - 1) < n
<1> DEFINE q == n \div u
<1>1. q \in Nat /\ n % u \in 0 .. u - 1 /\ n = (u * q) + (n % u)
  BY WholeUnits
<1> HIDE DEF q
<1>2. u * (q + 1) = u * q + u /\ u * (q - 1) = u * q - u /\ u * q \in Nat
  BY <1>1
<1>3. CASE n % u = 0
  BY <1>1, <1>2, <1>3 DEF Initial!ceil_units, q
<1>4. CASE n % u # 0
  BY <1>1, <1>2, <1>4 DEF Initial!ceil_units, q
<1> QED
  BY <1>3, <1>4

LEMMA FloorUnits ==
    ASSUME NEW u \in Nat \ {0}, NEW n \in Nat
    PROVE  /\ n \div u \in Nat
           /\ u * (n \div u) <= n /\ n < u * ((n \div u) + 1)
           /\ n % u = 0 => u * (n \div u) = n
<1> DEFINE q == n \div u
<1>1. q \in Nat /\ n % u \in 0 .. u - 1 /\ n = (u * q) + (n % u)
  BY WholeUnits
<1> HIDE DEF q
<1>2. u * (q + 1) = u * q + u /\ u * q \in Nat
  BY <1>1
<1>3. u * q <= n /\ n < u * (q + 1) /\ (n % u = 0 => u * q = n)
  BY <1>1, <1>2
<1> QED
  BY <1>1, <1>3 DEF q

LEMMA RegionsInit == Initial!Init => RegionsInv
  BY SizesAssumption DEF Initial!Init, RegionsInv, Initial!CoversTheBytes, Initial!StayApartInKernel, Initial!NotStaged

LEMMA RegionAdded ==
    ASSUME RegionsInv, NEW how, NEW lo, NEW hi, NEW start \in Nat, NEW end \in Nat,
           Initial!Add(how, lo, hi, start, end),
           how \notin {"none", "units"} =>
                /\ unit * start <= lo /\ hi <= unit * end
                /\ lo < unit * (start + 1) /\ unit * (end - 1) < hi
                /\ how = "exact" => unit * start = lo /\ unit * end = hi
    PROVE  RegionsInv'
<1> DEFINE r == [start |-> start, end |-> end]
<1>1. /\ regions' = Append(regions, r) /\ asked' = [how |-> how, lo |-> lo, hi |-> hi]
      /\ aligned = Initial!NotStaged /\ aligned' = aligned
      /\ operation' = operation /\ unit' = unit
  BY DEF Initial!Add
<1>2. /\ regions' \in Seq([start : Nat, end : Nat]) /\ regions' # <<>>
      /\ Initial!Last(regions') = r
  <2>1. regions \in Seq([start : Nat, end : Nat]) /\ r \in [start : Nat, end : Nat]
    BY DEF RegionsInv
  <2> HIDE DEF r
  <2>2. /\ regions' \in Seq([start : Nat, end : Nat]) /\ regions' # <<>>
        /\ Len(regions') = Len(regions) + 1 /\ regions'[Len(regions) + 1] = r
    BY <1>1, <2>1, AppendProperties
  <2> QED
    BY <2>2 DEF Initial!Last
<1>3. Initial!CoversTheBytes'
  BY <1>1, <1>2 DEF Initial!CoversTheBytes
<1>4. Initial!StayApartInKernel'
  BY <1>1 DEF Initial!StayApartInKernel
<1> QED
  BY <1>1, <1>2, <1>3, <1>4 DEF RegionsInv

LEMMA RegionsStaged ==
    ASSUME RegionsInv, Initial!Stage
    PROVE  RegionsInv'
<1> DEFINE a == Initial!minimum_region_units
<1>1. /\ regions' = regions /\ asked' = asked /\ operation' = operation /\ unit' = unit
      /\ Initial!Accepted
      /\ aligned' = [i \in DOMAIN regions |->
                        IF a = 0 THEN regions[i] ELSE Initial!KernelRegion(regions[i], a)]
  BY DEF Initial!Stage
<1>2. ASSUME operation # "unknown"  PROVE a \in Nat \ {0}
  <2>1. CASE operation = "paddr"
    <3>1. PageSize \div unit \in Nat
      BY WholeUnits, SizesAssumption DEF RegionsInv
    <3> QED
      BY <2>1, <3>1, SizesAssumption DEF Initial!minimum_region_units
  <2>2. CASE operation \in {"vaddr", "fvaddr"}
    BY <2>2, SizesAssumption DEF Initial!minimum_region_units
  <2> QED
    BY <1>2, <2>1, <2>2 DEF RegionsInv, Initial!Operations
<1> HIDE DEF a
<1>3. ASSUME operation # "unknown"  PROVE Initial!StayApartInKernel'
  <2>1. a \in Nat \ {0} /\ Initial!ApartWhenAligned(a)
    BY <1>1, <1>2, <1>3 DEF Initial!Accepted, a
  <2>2. \A i \in DOMAIN regions : regions[i].start \in Nat /\ regions[i].end \in Nat
    <3> DEFINE S == [start : Nat, end : Nat]
    <3>1. regions \in Seq(S)
      BY DEF RegionsInv
    <3>2. \A r \in S : r.start \in Nat /\ r.end \in Nat
      OBVIOUS
    <3> HIDE DEF S
    <3>3. \A i \in DOMAIN regions : regions[i] \in S
      BY <3>1
    <3> QED
      BY <3>2, <3>3
  <2>3. ASSUME NEW i \in DOMAIN regions
        PROVE  /\ aligned'[i].start = Initial!AlignedStart(regions[i], a)
               /\ aligned'[i].end = Initial!AlignedEnd(regions[i], a)
               /\ aligned'[i].start <= regions[i].start /\ regions[i].end <= aligned'[i].end
    <3>1. /\ regions[i].start % a \in 0 .. a - 1 /\ regions[i].end % a \in 0 .. a - 1
      BY <2>1, <2>2, WholeUnits
    <3>2. /\ Initial!AlignedEnd(regions[i], a) \in 0 .. MaxWord
          /\ regions[i].end <= Initial!AlignedEnd(regions[i], a)
          /\ Initial!AlignedStart(regions[i], a) <= regions[i].start
      BY <2>1, <2>2, <3>1, SizesAssumption DEF Initial!ApartWhenAligned, Initial!AlignedEnd, Initial!AlignedStart
    <3>3. Initial!AlignedEnd(regions[i], a) % (MaxWord + 1) = Initial!AlignedEnd(regions[i], a)
      BY <3>2, SizesAssumption
    <3>4. aligned'[i] = Initial!KernelRegion(regions[i], a)
      BY <1>1, <2>1
    <3> QED
      BY <3>2, <3>3, <3>4 DEF Initial!KernelRegion
  <2>4. /\ DOMAIN aligned' = DOMAIN regions
        /\ DOMAIN regions = 1 .. Len(regions) /\ Len(regions) \in Nat
    BY <1>1 DEF RegionsInv
  <2>5. Len(aligned') = Len(regions)
    BY <2>4, <1>1
  <2>6. \A i \in 2 .. Len(aligned') : aligned'[i - 1].end <= aligned'[i].start
    <3> SUFFICES ASSUME NEW i \in 2 .. Len(regions)
                 PROVE  aligned'[i - 1].end <= aligned'[i].start
      BY <2>5
    <3>1. i \in DOMAIN regions /\ i - 1 \in DOMAIN regions
      BY <2>4
    <3> QED
      BY <2>1, <2>3, <3>1 DEF Initial!ApartWhenAligned
  <2> QED
    BY <1>1, <2>3, <2>4, <2>6 DEF Initial!StayApartInKernel
<1>4. Initial!CoversTheBytes'
  BY <1>1 DEF RegionsInv, Initial!CoversTheBytes
<1>5. Initial!StayApartInKernel'
  BY <1>1, <1>3 DEF Initial!StayApartInKernel
<1> QED
  BY <1>1, <1>4, <1>5 DEF RegionsInv

LEMMA RegionsStep ==
    ASSUME RegionsInv, [Initial!Next]_(Initial!vars)
    PROVE  RegionsInv'
<1>1. unit \in Nat \ {0} /\ Initial!Word \subseteq Nat
  BY SizesAssumption DEF RegionsInv, Initial!Word
<1>2. ASSUME NEW start \in Initial!Word, NEW end \in Initial!Word, Initial!New(start, end)
      PROVE  RegionsInv'
  BY <1>1, <1>2, RegionAdded DEF Initial!New
<1>3. ASSUME NEW lo \in Initial!Word, NEW hi \in Initial!Word, Initial!FromExact(lo, hi)
      PROVE  RegionsInv'
  <2> DEFINE p == lo \div unit
             q == hi \div unit
  <2>1. /\ lo % unit = 0 /\ hi % unit = 0 /\ Initial!Add("exact", lo, hi, p, q)
        /\ lo \in Nat /\ hi \in Nat
    BY <1>1, <1>3 DEF Initial!FromExact, Initial!exact
  <2>2. p \in Nat /\ q \in Nat /\ unit * p = lo /\ unit * q = hi /\ lo < unit * (p + 1)
    BY <1>1, <2>1, FloorUnits
  <2> HIDE DEF p, q
  <2>3. unit * (q - 1) = (unit * q) - unit
    BY <1>1, <2>2
  <2>4. unit * (q - 1) < hi /\ unit * p <= lo /\ hi <= unit * q
    BY <1>1, <2>1, <2>2, <2>3
  <2> QED
    BY <2>1, <2>2, <2>4, RegionAdded
<1>4. ASSUME NEW lo \in Initial!Word, NEW hi \in Initial!Word, Initial!FromCovering(lo, hi)
      PROVE  RegionsInv'
  <2> DEFINE p == lo \div unit
             q == Initial!ceil_units(unit, hi)
  <2>1. Initial!Add("covering", lo, hi, p, q) /\ lo \in Nat /\ hi \in Nat
    BY <1>1, <1>4 DEF Initial!FromCovering, Initial!floor_units
  <2>2. /\ p \in Nat /\ unit * p <= lo /\ lo < unit * (p + 1)
        /\ q \in Nat /\ hi <= unit * q /\ unit * (q - 1) < hi
    BY <1>1, <2>1, FloorUnits, CeilUnits
  <2> HIDE DEF p, q
  <2> QED
    BY <2>1, <2>2, RegionAdded
<1>5. ASSUME UNCHANGED Initial!vars  PROVE RegionsInv'
  BY <1>5 DEF Initial!vars, RegionsInv, Initial!CoversTheBytes, Initial!StayApartInKernel
<1> QED
  BY <1>2, <1>3, <1>4, <1>5, RegionsStaged DEF Initial!Next

\* Initial regions made from bytes cover them with the fewest whole units, and
\* regions that pass validation are still regions, sorted and apart, when the
\* kernel aligns them: for every word, page and address unit that is not zero
\* (InitialRegionConfig, validate_kernel_aligned_initial_regions).
THEOREM InitialRegionsStayApart == Initial!Spec => []RegionsStayApart
<1>1. Initial!Init => RegionsInv
  BY RegionsInit
<1>2. RegionsInv /\ [Initial!Next]_(Initial!vars) => RegionsInv'
  BY RegionsStep
<1>3. RegionsInv => RegionsStayApart
  BY DEF RegionsStayApart, RegionsInv, Initial!RegionsStayApart
<1> QED
  BY <1>1, <1>2, <1>3, PTL DEF Initial!Spec

================================================================================
