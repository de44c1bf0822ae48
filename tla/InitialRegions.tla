---------------------------- MODULE InitialRegions ----------------------------
(***************************************************************************)
(* The initial regions of a target: made from byte ranges in the address   *)
(* unit of a context (InitialRegionConfig, AddressUnit), validated with    *)
(* the context before anything is written (ContextConfig::validate), and   *)
(* what the kernel makes of them when it aligns them to its smallest       *)
(* region.  Addresses are words of MaxWord + 1 values, in the code u64.        *)
(***************************************************************************)
EXTENDS Integers, Sequences, SequencesExt

CONSTANTS
    MaxWord,        \* the largest word; MaxWord + 1 is a multiple of PageSize
    PageSize,       \* host_page_size()
    Units,          \* address units tried
    MaxRegions      \* bound: regions of the target

VARIABLES
    operation,      \* Operation of the context
    unit,           \* ContextConfig::address_unit
    regions,        \* TargetConfig::initial_regions
    asked,          \* how the caller made the last region: [how, lo, hi]
    kernel          \* the regions of the kernel once they are staged

vars == <<operation, unit, regions, asked, kernel>>

Word == 0 .. MaxWord
Operations == {"vaddr", "fvaddr", "paddr", "unknown"}
NotStaged == <<>>

-----------------------------------------------------------------------------
(* AddressUnit *)

to_bytes_overflows(u, units) == units * u > MaxWord

exact(u, bytes) == bytes % u = 0

floor_units(u, bytes) == bytes \div u

\* Mutant: always one unit more.
ceil_unitsMutant(u, bytes) == bytes \div u + 1

ceil_units(u, bytes) == IF bytes % u = 0 THEN bytes \div u ELSE bytes \div u + 1

-----------------------------------------------------------------------------
(* ContextConfig::validate, as far as it is about regions *)

SortedAndApart ==
    /\ \A i \in DOMAIN regions : regions[i].start < regions[i].end
    /\ \A i \in 2 .. Len(regions) : regions[i - 1].end <= regions[i].start

UnitAccepted ==
    CASE operation \in {"vaddr", "fvaddr"} -> unit = 1
      [] operation = "paddr" ->
            /\ unit < PageSize => \E k \in 0 .. PageSize : 2 ^ k = unit
            /\ \A i \in DOMAIN regions :
                  /\ ~to_bytes_overflows(unit, regions[i].start)
                  /\ ~to_bytes_overflows(unit, regions[i].end)
      [] OTHER -> TRUE

\* Zero when the operation is unknown to the crate.
minimum_region_units ==
    CASE operation \in {"vaddr", "fvaddr"} -> PageSize
      [] operation = "paddr" -> IF PageSize \div unit = 0 THEN 1 ELSE PageSize \div unit
      [] OTHER -> 0

AlignedStart(r, alignment) == r.start - (r.start % alignment)

AlignedEnd(r, alignment) ==
    IF r.end % alignment = 0 THEN r.end ELSE r.end + (alignment - (r.end % alignment))

\* Mutant: the addition is not checked for overflow.
ApartWhenAlignedMutant(alignment) ==
    \A i \in 2 .. Len(regions) :
        AlignedEnd(regions[i - 1], alignment) <= AlignedStart(regions[i], alignment)

ApartWhenAligned(alignment) ==
    /\ \A i \in DOMAIN regions : AlignedEnd(regions[i], alignment) <= MaxWord
    /\ \A i \in 2 .. Len(regions) :
          AlignedEnd(regions[i - 1], alignment) <= AlignedStart(regions[i], alignment)

Accepted ==
    /\ SortedAndApart
    /\ UnitAccepted
    /\ minimum_region_units # 0 => ApartWhenAligned(minimum_region_units)

-----------------------------------------------------------------------------
Init ==
    /\ operation \in Operations
    /\ unit \in Units
    /\ regions = <<>>
    /\ asked = [how |-> "none", lo |-> 0, hi |-> 0]
    /\ kernel = NotStaged

Add(how, lo, hi, start, end) ==
    /\ kernel = NotStaged
    /\ Len(regions) < MaxRegions
    /\ start < end
    /\ regions' = Append(regions, [start |-> start, end |-> end])
    /\ asked' = [how |-> how, lo |-> lo, hi |-> hi]
    /\ UNCHANGED <<operation, unit, kernel>>

New(start, end) == Add("units", 0, 0, start, end)

FromExact(lo, hi) ==
    /\ exact(unit, lo) /\ exact(unit, hi)
    /\ Add("exact", lo, hi, lo \div unit, hi \div unit)

FromCovering(lo, hi) ==
    /\ lo < hi
    /\ Add("covering", lo, hi, floor_units(unit, lo), ceil_units(unit, hi))

\* The kernel rounds a region out to its smallest one, in words that wrap.
KernelRegion(r, alignment) ==
    [start |-> AlignedStart(r, alignment),
     end |-> AlignedEnd(r, alignment) % (MaxWord + 1)]

\* A context is validated, then staged; a kernel the crate does not know
\* takes the regions as they are.
Stage ==
    /\ kernel = NotStaged /\ regions # <<>>
    /\ Accepted
    /\ kernel' = [i \in DOMAIN regions |->
                    IF minimum_region_units = 0 THEN regions[i]
                    ELSE KernelRegion(regions[i], minimum_region_units)]
    /\ UNCHANGED <<operation, unit, regions, asked>>

Next ==
    \/ \E start, end \in Word : New(start, end)
    \/ \E lo, hi \in Word : FromExact(lo, hi)
    \/ \E lo, hi \in Word : FromCovering(lo, hi)
    \/ Stage

Spec == Init /\ [][Next]_vars

-----------------------------------------------------------------------------
\* from_byte_range_covering gives the smallest region of whole units over the
\* bytes, up to both ends of the address space, and from_byte_range_exact
\* gives just the bytes it was asked for.
CoversTheBytes ==
    asked.how # "none" /\ asked.how # "units" =>
        LET r == Last(regions)
        IN  /\ unit * r.start <= asked.lo /\ asked.hi <= unit * r.end
            /\ asked.lo < unit * (r.start + 1) /\ unit * (r.end - 1) < asked.hi
            /\ asked.how = "exact" => unit * r.start = asked.lo /\ unit * r.end = asked.hi

\* Regions that validate_kernel_aligned_initial_regions lets through are still
\* regions, sorted and apart, when the kernel has rounded them out in its own
\* words, and each holds what the caller asked for.
StayApartInKernel ==
    kernel # NotStaged /\ operation # "unknown" =>
        /\ \A i \in DOMAIN kernel :
              /\ kernel[i].start <= regions[i].start
              /\ regions[i].end <= kernel[i].end
        /\ \A i \in 2 .. Len(kernel) : kernel[i - 1].end <= kernel[i].start

\* What the byte ranges of a caller become, in the crate and in the kernel.
RegionsStayApart == CoversTheBytes /\ StayApartInKernel

=============================================================================
