----------------------------- MODULE TriedRegions -----------------------------
(***************************************************************************)
(* Reading the materialized result of a scheme (Scheme::tried_regions)     *)
(* file by file, while another user of the low-level interface, which      *)
(* takes no lock, may have the kernel materialize or clear it again; and   *)
(* what the snapshot then says of its totals, completeness and bytes.      *)
(* Addresses and totals are words of MaxWord + 1 values, in the code u64.  *)
(***************************************************************************)
EXTENDS Integers, Sequences, SequencesExt, FiniteSetsExt, Functions

CONSTANTS
    MaxWord,        \* the largest word
    Units,          \* address units a snapshot is scaled by
    Passes,         \* what a pass of the kernel can match: functions from indexes to regions
    MaxPasses       \* bound: commands of the kernel

VARIABLES
    exposed,        \* the kernel has total_bytes
    total,          \* tried_regions/total_bytes
    dirs,           \* tried_regions/<N>: a function from indexes to regions
    matched,        \* every region the last pass matched
    passes,         \* commands the kernel has carried out
    pc,             \* step of the reader
    todo,           \* indexes it has listed and not read yet
    start,          \* start of the region it is reading
    reported,       \* reported_total_units, or NoTotal
    regions,        \* what it has read
    sum,            \* computed_total_units
    calm            \* no command since the reader began

kernelVars == <<exposed, total, dirs, matched, passes>>
readerVars == <<pc, todo, start, reported, regions, sum>>
vars == <<kernelVars, readerVars, calm>>

NoTotal == -1
NoStart == -1
Word == 0 .. MaxWord
Length(r) == r.end - r.start
SumOf(f) == MapThenFoldSet(+, 0, LAMBDA i : Length(f[i]), LAMBDA s : CHOOSE i \in s : TRUE, DOMAIN f)

-----------------------------------------------------------------------------
(* The kernel *)

\* Directories can be fewer than the regions matched, and sparse; the total
\* counts them all in the words of the kernel.
Materialize(pass, shown) ==
    /\ passes < MaxPasses
    /\ matched' = pass
    /\ dirs' = Restrict(pass, shown)
    /\ total' = SumOf(pass) % (MaxWord + 1)
    /\ passes' = passes + 1
    /\ calm' = FALSE
    /\ UNCHANGED <<exposed, readerVars>>

\* update_schemes_tried_bytes leaves no directories.
UpdateTriedBytes(pass) == Materialize(pass, {})

Clear ==
    /\ passes < MaxPasses
    /\ matched' = <<>> /\ dirs' = <<>> /\ total' = 0
    /\ passes' = passes + 1
    /\ calm' = FALSE
    /\ UNCHANGED <<exposed, readerVars>>

-----------------------------------------------------------------------------
(* Scheme::tried_regions *)

Begin ==
    /\ pc = "idle"
    /\ reported' = IF exposed THEN total ELSE NoTotal
    /\ regions' = <<>> /\ sum' = 0
    /\ calm' = TRUE
    /\ pc' = "list"
    /\ UNCHANGED <<kernelVars, todo, start>>

\* numeric_directory_indices_into: directories in numeric order.
List ==
    /\ pc = "list"
    /\ todo' = SetToSortSeq(DOMAIN dirs, <)
    /\ pc' = "start"
    /\ UNCHANGED <<kernelVars, start, reported, regions, sum, calm>>

Fail ==
    /\ pc' = "failed"
    /\ UNCHANGED <<kernelVars, todo, start, reported, regions, sum, calm>>

ReadStart ==
    /\ pc = "start" /\ todo # <<>>
    /\ IF Head(todo) \notin DOMAIN dirs THEN Fail
       ELSE /\ start' = dirs[Head(todo)].start
            /\ pc' = "end"
            /\ UNCHANGED <<kernelVars, todo, reported, regions, sum, calm>>

\* Mutant: the total wraps.
AddedMutant(region) == (sum + Length(region)) % (MaxWord + 1)

\* checked_add
Added(region) == sum + Length(region)

\* RawRegion::from_kernel rejects a region that ends before it starts.
ReadEnd ==
    /\ pc = "end"
    /\ IF Head(todo) \notin DOMAIN dirs THEN Fail
       ELSE LET region == [start |-> start, end |-> dirs[Head(todo)].end]
            IN  IF region.end < region.start \/ Added(region) > MaxWord THEN Fail
                ELSE /\ regions' = Append(regions, region)
                     /\ sum' = Added(region)
                     /\ todo' = Tail(todo)
                     /\ start' = NoStart
                     /\ pc' = "start"
                     /\ UNCHANGED <<kernelVars, reported, calm>>

Return ==
    /\ pc = "start" /\ todo = <<>>
    /\ pc' = "done"
    /\ UNCHANGED <<kernelVars, todo, start, reported, regions, sum, calm>>

-----------------------------------------------------------------------------
(* RawSnapshot and Snapshot *)

\* Mutant: any total that was reported is taken for reached.
completenessMutant ==
    CASE reported = NoTotal -> "Unverifiable"
      [] reported >= sum -> "Complete"
      [] OTHER -> "Inconsistent"

completeness ==
    CASE reported = NoTotal -> "Unverifiable"
      [] reported = sum -> "Complete"
      [] reported > sum -> "Partial"
      [] OTHER -> "Inconsistent"

Overflow == -1

\* Mutant: the product wraps.
to_bytesMutant(unit, units) == (units * unit) % (MaxWord + 1)

\* AddressUnit::to_bytes
to_bytes(unit, units) == IF units * unit > MaxWord THEN Overflow ELSE units * unit

\* Region::start_bytes, end_bytes and len_bytes.
BytesOf(unit, r) ==
    [start |-> to_bytes(unit, r.start), end |-> to_bytes(unit, r.end),
     len |-> to_bytes(unit, Length(r))]

-----------------------------------------------------------------------------
Init ==
    /\ exposed \in BOOLEAN
    /\ total = 0 /\ dirs = <<>> /\ matched = <<>> /\ passes = 0
    /\ pc = "idle" /\ todo = <<>> /\ start = NoStart
    /\ reported = NoTotal /\ regions = <<>> /\ sum = 0
    /\ calm = TRUE

Next ==
    \/ \E pass \in Passes : \E shown \in SUBSET DOMAIN pass : Materialize(pass, shown)
    \/ \E pass \in Passes : UpdateTriedBytes(pass)
    \/ Clear
    \/ Begin
    \/ List
    \/ ReadStart
    \/ ReadEnd
    \/ Return

Spec == Init /\ [][Next]_vars

-----------------------------------------------------------------------------
\* However the files change under the reader, a snapshot it returns holds
\* regions that end after they start, and a total that is their sum as numbers:
\* a region put together from two passes, or a sum that does not fit, is an
\* error (RawRegion::from_kernel, SnapshotSizeOverflow).
TotalIsTheSum ==
    pc = "done" =>
        /\ \A i \in DOMAIN regions : regions[i].start <= regions[i].end
        /\ sum = SumOf(regions) /\ sum \in Word

\* A snapshot nobody disturbed has the regions of the directories in the order
\* of their indexes, and where the total of the kernel did not wrap it is
\* Complete when, and Partial unless, every region matched has a directory.
CalmReadsAreTrue ==
    pc = "done" /\ calm =>
        /\ regions = [n \in 1 .. Len(regions) |-> dirs[SetToSortSeq(DOMAIN dirs, <)[n]]]
        /\ Len(regions) = Cardinality(DOMAIN dirs)
        /\ (completeness = "Unverifiable") = ~exposed
        /\ exposed /\ SumOf(matched) <= MaxWord =>
              completeness = IF dirs = matched THEN "Complete" ELSE "Partial"

\* Scaled views agree with each other in every unit: where the end of a region
\* fits, so do its start and its length, and they add up.
BytesAddUp ==
    pc = "done" =>
        \A unit \in Units, i \in DOMAIN regions :
            LET b == BytesOf(unit, regions[i])
            IN  b.end # Overflow => b.len # Overflow /\ b.start + b.len = b.end

=============================================================================
