----------------------------- MODULE UpdatesPart -----------------------------
(***************************************************************************)
(* ConfigurationUpdates beside other models: its constants and variables   *)
(* here, its definitions under Updates, and what is promised of it.        *)
(***************************************************************************)
EXTENDS Integers, Sequences

CONSTANTS
    MaxU32, MaxU8, BasisPoints, PerThousand,  \* the limits of ConfigurationRules
    Baselines, Choices,                       \* what a caller starts from and puts in
    MaxEdits                                  \* bound

VARIABLES draft, managed, live, refused, edits

Updates == INSTANCE ConfigurationUpdates
              WITH U32 <- MaxU32, U8 <- MaxU8, Values <- Choices

TargetConfigs == [pid : Int, obsolete : BOOLEAN, regions : BOOLEAN]
ContextFields == {"operation", "targets", "probes", "sample", "aggregation", "goal", "page_table",
                  "page_fault", "sample_filters", "schemes"}
TargetList(s) ==
    /\ Len(s) \in Nat /\ DOMAIN s = 1 .. Len(s)
    /\ \A i \in DOMAIN s : s[i] \in TargetConfigs
ContextConfig(c) == ContextFields \subseteq DOMAIN c /\ TargetList(c.targets)

\* What a caller has and puts there are values of the types of ContextConfig.
ASSUME TypedDrafts ==
    /\ \A c \in Baselines : ContextConfig(c)
    /\ "targets" \in DOMAIN Choices => \A s \in Choices["targets"] : TargetList(s)

\* Updates a session accepted leave it with a configuration that could have been
\* started afresh, with the indexes of the running kdamond (validate_running_update).
UpdatesStayRunnable == Updates!UpdatesStayRunnable /\ Updates!IndexesAgree

\* The process a marker removes is the one the caller named
\* (validate_obsolete_target_updates).
MarkersRemoveTheNamed == Updates!MarkersRemoveTheNamed

=============================================================================
