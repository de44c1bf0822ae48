----------------------------- MODULE ReceiptCodec -----------------------------
(***************************************************************************)
(* PersistentReceipt::to_bytes and from_bytes.  A receipt outlives the     *)
(* process that wrote it, so from_bytes reads whatever a file holds: the   *)
(* bytes of a receipt, a torn or damaged copy of them, the bytes of a      *)
(* receipt nobody captured.                                                *)
(*                                                                         *)
(* A byte is a number below 256.  A name (a path, a boot id, the text of   *)
(* a value) is one byte; paths are compared as byte strings.  Every width  *)
(* the format fixes is kept: eight bytes for a count, four for a pid.      *)
(***************************************************************************)
EXTENDS Integers, Sequences, SequencesExt, FiniteSetsExt

CONSTANTS
    Hierarchies,   \* <<kdamonds, the ones with auto-tuning, the ones that run>>
    Damaged,       \* those of them whose bytes are damaged, too
    Bytes          \* what a damaged byte may turn into

VARIABLES
    bytes,     \* what from_bytes is given
    captured,  \* the receipt they are the encoding of, or NoReceipt
    offset,    \* Decoder::offset
    phase,     \* the field that is read next, or how the call returned
    todo,      \* elements of the field left to read
    out        \* the receipt read so far

vars == <<bytes, captured, offset, phase, todo, out>>

-----------------------------------------------------------------------------
(* Names *)

Magic == 77
Version == 1
Root == 47       \* the / an absolute path starts with
Nul == 0
BootId == <<66>>
Admin == <<Root, 65>>
Lock == <<Root, 76>>

\* Paths below the admin directory, in their order, and what values they have.
Aggr(k) == <<100 + 10 * k + 1>>
Goal(k) == <<100 + 10 * k + 2>>
Sample(k) == <<100 + 10 * k + 3>>
CountPath == <<200>>
Text(n) == <<48 + n>>
IsNumber(text) == Len(text) = 1 /\ text[1] \in 48 .. 57
ValueOf(text) == text[1] - 48

Absolute(path) == path # <<>> /\ Head(path) = Root
HasNul(path) == Nul \in ToSet(path)

\* validate_relative_path
Relative(path) == path # <<>> /\ ~Absolute(path) /\ ~HasNul(path)

\* p < q; a byte string comes before the ones it is a prefix of.
Before(p, q) ==
    \E n \in 0 .. Len(p) :
        /\ n < Len(q) /\ SubSeq(p, 1, n) = SubSeq(q, 1, n)
        /\ n = Len(p) \/ p[n + 1] < q[n + 1]

Ordered(paths) == \A i \in 1 .. Len(paths) - 1 : Before(paths[i], paths[i + 1])

-----------------------------------------------------------------------------
(* to_bytes *)

Word(n, width) == [i \in 1 .. width |-> IF i > 4 THEN 0 ELSE (n \div 256 ^ (i - 1)) % 256]
U64(n) == Word(n, 8)
U32(n) == Word(n, 4)

\* Mutant: the length of a name is written in the width of a pid.
EncodeBytesMutant(s) == U32(Len(s)) \o s

\* encode_bytes: a length of eight bytes, as read_bytes expects
EncodeBytes(s) == U64(Len(s)) \o s
EncodeAll(encoded) == U64(Len(encoded)) \o FlattenSeq(encoded)
EncodeValue(v) == EncodeBytes(v.path) \o EncodeBytes(v.value)
EncodeIdentity(identity) == U64(identity.index) \o U32(identity.pid)

ToBytes(r) ==
    <<Magic>> \o U32(Version) \o EncodeBytes(r.admin) \o EncodeBytes(r.lock)
    \o EncodeBytes(r.boot)
    \o EncodeAll([i \in DOMAIN r.values |-> EncodeValue(r.values[i])])
    \o EncodeAll([i \in DOMAIN r.volatile |-> EncodeBytes(r.volatile[i])]) \o U64(r.count)
    \o EncodeAll([i \in DOMAIN r.identities |-> EncodeIdentity(r.identities[i])])

-----------------------------------------------------------------------------
(* The inputs *)

NoReceipt == [admin |-> <<>>, lock |-> <<>>, boot |-> <<>>, values |-> <<>>,
              volatile |-> <<>>, count |-> 0, identities |-> <<>>]

\* The first two kdamonds have a context, and so intervals; the kernel numbers
\* its threads from 1.
Capture(h) ==
    LET Sorted(S) == SelectSeq([k \in 1 .. h[1] |-> k - 1], LAMBDA k : k \in S)
        running == Sorted(h[3])
        Leaves(k) == <<[path |-> Aggr(k), value |-> Text(5)],
                       [path |-> Goal(k), value |-> Text(IF k \in h[2] THEN 3 ELSE 0)],
                       [path |-> Sample(k), value |-> Text(1)]>>
        tuned == Sorted(h[2])
    IN  [admin |-> Admin, lock |-> Lock, boot |-> BootId,
         values |-> FlattenSeq([k \in 1 .. Min({h[1], 2}) |-> Leaves(k - 1)])
                    \o <<[path |-> CountPath, value |-> Text(h[1])]>>,
         volatile |-> FlattenSeq([i \in DOMAIN tuned |-> <<Aggr(tuned[i]), Sample(tuned[i])>>]),
         count |-> h[1],
         identities |-> [i \in DOMAIN running |-> [index |-> running[i], pid |-> i]]]

\* Receipts nobody captured: a field contradicts another one.
Contradicting(r) ==
    LET first == r.identities[1]
        Without(path) == SelectSeq(r.values, LAMBDA v : v.path # path)
    IN
    {[r EXCEPT !.volatile = <<>>],
     [r EXCEPT !.volatile = Append(@, CountPath)],
     [r EXCEPT !.volatile = Reverse(@)],
     [r EXCEPT !.values = Without(Aggr(1))],
     [r EXCEPT !.values = Without(Aggr(1)), !.volatile = Tail(@)],
     [r EXCEPT !.values = Without(CountPath)],
     [r EXCEPT !.values = Reverse(@)],
     [r EXCEPT !.identities = Reverse(@)],
     [r EXCEPT !.identities = <<first>> \o @],
     [r EXCEPT !.identities[1].index = r.count],
     [r EXCEPT !.identities[1].pid = 0],
     [r EXCEPT !.count = @ + 1]}

\* A torn copy, one wrong byte, something behind the end.
Damage(s) ==
    {SubSeq(s, 1, n) : n \in 0 .. Len(s) - 1}
    \cup {ReplaceAt(s, i, b) : i \in DOMAIN s, b \in Bytes}
    \cup {Append(s, b) : b \in Bytes}

-----------------------------------------------------------------------------
(* Decoder *)

Failed == [next |-> -1, value |-> <<>>]
Good(f) == f.next >= 0

\* take
Take(o, n) ==
    IF o + n <= Len(bytes) THEN [next |-> o + n, value |-> SubSeq(bytes, o + 1, o + n)]
    ELSE Failed

\* Numbers of more than 31 bits stand for one, which no field accepts.
Huge == 2147483647
Number(s) ==
    IF (\E i \in 5 .. Len(s) : s[i] # 0) \/ s[4] > 127 THEN Huge
    ELSE s[1] + 256 * s[2] + 65536 * s[3] + 16777216 * s[4]

\* read_u32, read_u64
ReadWord(o, width) ==
    LET f == Take(o, width) IN IF ~Good(f) THEN f ELSE [f EXCEPT !.value = Number(@)]

\* read_count: no more elements than bytes are left
ReadCount(o) ==
    LET f == ReadWord(o, 8) IN
    IF Good(f) /\ f.value <= Len(bytes) - f.next THEN f ELSE Failed

\* read_bytes, read_path
ReadBytes(o) ==
    LET f == ReadCount(o) IN IF ~Good(f) THEN f ELSE Take(f.next, f.value)

\* The bytes at o and, behind them, those at the place where they end.
ReadTwo(o) ==
    LET f == ReadBytes(o)
        g == ReadBytes(f.next)
    IN  IF ~Good(f) \/ ~Good(g) THEN Failed
        ELSE [next |-> g.next, value |-> <<f.value, g.value>>]

-----------------------------------------------------------------------------
(* validate_receipt_configuration *)

PathsOf(r) == {r.values[i].path : i \in DOMAIN r.values}
TextAt(r, path) == (CHOOSE v \in ToSet(r.values) : v.path = path).value

\* tuned_intervals_path: goals of a kdamond that exists
GoalsOf(r) == {k \in 0 .. 9 : k < r.count /\ Goal(k) \in PathsOf(r)}
TunedOf(r) == {k \in GoalsOf(r) : ValueOf(TextAt(r, Goal(k))) # 0}

\* expected_volatile_paths
ExpectedVolatile(r) == UNION {{Aggr(k), Sample(k)} : k \in TunedOf(r)}

ValidConfiguration(r) ==
    /\ Ordered([i \in DOMAIN r.values |-> r.values[i].path])
    /\ Ordered(r.volatile)
    /\ CountPath \in PathsOf(r)
    /\ IsNumber(TextAt(r, CountPath)) /\ ValueOf(TextAt(r, CountPath)) = r.count
    /\ \A k \in GoalsOf(r) : IsNumber(TextAt(r, Goal(k)))
    /\ ExpectedVolatile(r) \subseteq PathsOf(r)
    /\ ToSet(r.volatile) = ExpectedVolatile(r)

-----------------------------------------------------------------------------
(* from_bytes: one action for each field *)

Return(how) ==
    /\ phase' = how
    /\ UNCHANGED <<bytes, captured, offset, todo, out>>

\* f was read: the receipt is r so far, n elements are left before field next.
Accept(f, r, next, n) ==
    /\ offset' = f.next
    /\ phase' = next
    /\ todo' = n
    /\ out' = r
    /\ UNCHANGED <<bytes, captured>>

Header ==
    LET marker == Take(offset, 1)
        version == ReadWord(marker.next, 4)
    IN  /\ phase = "header"
        /\ IF marker.value = <<Magic>> /\ Good(version) /\ version.value = Version
           THEN Accept(version, out, "names", 0) ELSE Return("invalid")

Names ==
    LET paths == ReadTwo(offset)
        boot == ReadBytes(paths.next)
        r == [out EXCEPT !.admin = paths.value[1], !.lock = paths.value[2],
                         !.boot = boot.value]
        valid == \A path \in {r.admin, r.lock} : Absolute(path) /\ ~HasNul(path)
    IN  /\ phase = "names"
        /\ IF Good(paths) /\ Good(boot) /\ valid /\ boot.value = BootId
           THEN Accept(boot, r, "value_count", 0) ELSE Return("invalid")

\* The number of elements of a list; element is the phase that reads one.
List(counting, element) ==
    LET f == ReadCount(offset) IN
    /\ phase = counting
    /\ IF Good(f) THEN Accept(f, out, element, f.value) ELSE Return("invalid")

Value ==
    LET f == ReadTwo(offset)
        v == [path |-> f.value[1], value |-> f.value[2]]
    IN  /\ phase = "value" /\ todo > 0
        /\ IF Good(f) /\ Relative(v.path)
           THEN Accept(f, [out EXCEPT !.values = Append(@, v)], "value", todo - 1)
           ELSE Return("invalid")

Volatile ==
    LET f == ReadBytes(offset) IN
    /\ phase = "volatile" /\ todo > 0
    /\ IF Good(f) /\ Relative(f.value)
       THEN Accept(f, [out EXCEPT !.volatile = Append(@, f.value)], "volatile", todo - 1)
       ELSE Return("invalid")

ListRead(element, counting) == phase = element /\ todo = 0 /\ Return(counting)
ValuesRead == ListRead("value", "volatile_count")
VolatileRead == ListRead("volatile", "count")

\* kdamond_count, read as if elements followed it
KdamondCount ==
    LET f == ReadCount(offset)
        r == [out EXCEPT !.count = f.value]
    IN  /\ phase = "count"
        /\ IF Good(f) /\ f.value # 0 /\ ValidConfiguration(r)
           THEN Accept(f, r, "identity_count", 0) ELSE Return("invalid")

IdentityCount ==
    LET f == ReadCount(offset) IN
    /\ phase = "identity_count"
    /\ IF Good(f) /\ f.value <= out.count THEN Accept(f, out, "identity", f.value)
       ELSE Return("invalid")

Identity ==
    LET index == ReadWord(offset, 8)
        pid == ReadWord(index.next, 4)
        identity == [index |-> index.value, pid |-> pid.value]
        valid == /\ index.value < out.count
                 /\ out.identities # <<>> => Last(out.identities).index < index.value
                 /\ pid.value \in 1 .. Huge - 1
    IN  /\ phase = "identity" /\ todo > 0
        /\ IF Good(index) /\ Good(pid) /\ valid
           THEN Accept(pid, [out EXCEPT !.identities = Append(@, identity)], "identity", todo - 1)
           ELSE Return("invalid")

Finish ==
    /\ phase = "identity" /\ todo = 0
    /\ Return(IF offset = Len(bytes) THEN "ok" ELSE "invalid")

-----------------------------------------------------------------------------
Start(s, r) ==
    /\ bytes = s /\ captured = r
    /\ offset = 0 /\ phase = "header" /\ todo = 0 /\ out = NoReceipt

Init ==
    \/ \E h \in Hierarchies : Start(ToBytes(Capture(h)), Capture(h))
    \/ \E h \in Damaged : \E r \in Contradicting(Capture(h)) : Start(ToBytes(r), NoReceipt)
    \/ \E h \in Damaged : \E s \in Damage(ToBytes(Capture(h))) :
            s # ToBytes(Capture(h)) /\ Start(s, NoReceipt)

Next ==
    \/ Header \/ Names
    \/ List("value_count", "value") \/ Value \/ ValuesRead
    \/ List("volatile_count", "volatile") \/ Volatile \/ VolatileRead
    \/ KdamondCount \/ IdentityCount \/ Identity \/ Finish

Spec == Init /\ [][Next]_vars

-----------------------------------------------------------------------------
(* Properties *)

Done == phase \in {"ok", "invalid"}

\* from_bytes: the bytes it accepts are exactly the ones to_bytes gives for the
\* receipt it returns, so that no damaged byte is read as something harmless.
AcceptsOnlyEncodings == phase = "ok" => ToBytes(out) = bytes

\* validate_receipt_configuration: an accepted receipt names exactly the
\* intervals the kernel tunes in the configuration it records (the others are
\* compared), and kdamonds of that configuration.
VolatileAreTheTuned ==
    phase = "ok" =>
        LET texts == [path \in PathsOf(out) |-> TextAt(out, path)]
            Tunes(k) == Goal(k) \in DOMAIN texts /\ texts[Goal(k)] # Text(0)
        IN  /\ \A k \in 0 .. out.count - 1 :
                   \A path \in {Aggr(k), Sample(k)} :
                       Tunes(k) <=> path \in ToSet(out.volatile)
            /\ ToSet(out.volatile) \subseteq DOMAIN texts
            /\ texts[CountPath] = Text(out.count)
            /\ \A i \in DOMAIN out.identities : out.identities[i].index < out.count
            /\ IsInjective([i \in DOMAIN out.identities |-> out.identities[i].index])

\* from_bytes gives back what to_bytes was given, for every captured receipt of
\* at most eight kdamonds: the count of the identities alone takes eight bytes.
FewKdamondsRoundTrip ==
    Done /\ captured # NoReceipt /\ captured.count <= 8 => phase = "ok" /\ out = captured

\* The documentation of from_bytes: it parses a receipt serialized by to_bytes.
RoundTrip == Done /\ captured # NoReceipt => phase = "ok" /\ out = captured
=============================================================================
