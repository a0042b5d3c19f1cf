--------------------------- MODULE VendorRegistry ---------------------------
(***************************************************************************)
(* The vendor of a MAC address: genoui compiles the three IEEE registries  *)
(* into sorted tables (vendor_registry_gen.go), and LookupMACVendor        *)
(* searches them, longest prefix first, inside the bucket of the address.  *)
(*                                                                         *)
(* Addresses are numbers of AddressBits bits.  All widths are constants,   *)
(* so that a small instance has every prefix, bucket and boundary.         *)
(***************************************************************************)
EXTENDS Integers, Sequences, SequencesExt, FiniteSetsExt, TLC

CONSTANTS
    AddressBits,   \* 48
    FirstBits,     \* 8: the first octet, whose last two bits are flags
    BucketBits,    \* 12
    L, M, S        \* 24, 28 and 36: the prefixes of MA-L, MA-M and MA-S

VARIABLES
    csv,           \* the rows of the three registries: [L |-> Seq([prefix, name]), ...]
    registry,      \* the generated tables, and the arena of names
    asked,         \* the address looked up last
    vendor         \* what LookupMACVendor said of it
registryVars == <<csv, registry, asked, vendor>>

-----------------------------------------------------------------------------
(* genoui.  The empty name stands for a row without an organization.        *)

\* A row whose assignment is wider than its registry makes genoui fail.
Compiles(tables) ==
    \A bits \in {L, M, S} : \A i \in DOMAIN tables[bits] :
        tables[bits][i].name = "" \/ tables[bits][i].prefix < 2^bits

\* Rows without a name are skipped; of several rows for a prefix the last counts.
byPrefix(rows) ==
    FoldLeft(LAMBDA seen, row : IF row.name = "" THEN seen ELSE (row.prefix :> row.name) @@ seen,
             <<>>, rows)
readRegistry(rows) ==
    LET names == byPrefix(rows)
        sorted == SetToSortSeq(DOMAIN names, LAMBDA p, q : p < q)
    IN  [i \in DOMAIN sorted |-> [prefix |-> sorted[i], name |-> names[sorted[i]]]]

\* A name is written to the arena once and referred to by offset and length.
intern(arena, name) ==
    IF name \in DOMAIN arena.refs THEN arena
    ELSE [data |-> arena.data \o name,
          refs |-> (name :> <<Len(arena.data), Len(name)>>) @@ arena.refs]
arenaOf(groups) ==
    FoldLeft(intern, [data |-> "", refs |-> <<>>],
             [i \in DOMAIN groups[L] |-> groups[L][i].name]
             \o [i \in DOMAIN groups[M] |-> groups[M][i].name]
             \o [i \in DOMAIN groups[S] |-> groups[S][i].name])

\* How far the entries of bucket b reach from entry first on.
pastBucket(entries, bits, b, first) ==
    Min({i \in first..Len(entries) :
            i = Len(entries) \/ entries[i + 1].prefix \div 2^(bits - BucketBits) # b})

\* Mutant: a bucket starts behind its first entry.
writeBucketsLate(entries, bits) ==
    [b \in 0..2^BucketBits |-> Cardinality({i \in DOMAIN entries :
        entries[i].prefix \div 2^(bits - BucketBits) <= b}) % 65536]

\* Bucket b starts where the one before it ends; the last entry is the number
\* of all.  An entry is a uint16.
writeBuckets(entries, bits) ==
    LET start[b \in 0..2^BucketBits] ==
            IF b = 0 THEN 0 ELSE pastBucket(entries, bits, b - 1, start[b - 1])
    IN  [b \in 0..2^BucketBits |-> (IF b = 2^BucketBits THEN Len(entries) ELSE start[b]) % 65536]

genouiMain(tables) ==
    LET groups == [bits \in {L, M, S} |-> readRegistry(tables[bits])]
        arena == arenaOf(groups)
    IN  [data |-> arena.data,
         prefixes |-> [bits \in {L, M, S} |-> [i \in DOMAIN groups[bits] |-> groups[bits][i].prefix]],
         refs |-> [bits \in {L, M, S} |->
                      [i \in DOMAIN groups[bits] |-> arena.refs[groups[bits][i].name]]],
         buckets |-> [bits \in {L, M, S} |-> writeBuckets(groups[bits], bits)]]

-----------------------------------------------------------------------------
(* The generated tables.                                                   *)

vendorNameData   == registry.data
vendor24Prefixes == registry.prefixes[L]
vendor24NameRefs == registry.refs[L]
vendor24Buckets  == registry.buckets[L]
vendor28Prefixes == registry.prefixes[M]
vendor28NameRefs == registry.refs[M]
vendor28Buckets  == registry.buckets[M]
vendor36Prefixes == registry.prefixes[S]
vendor36NameRefs == registry.refs[S]
vendor36Buckets  == registry.buckets[S]

-----------------------------------------------------------------------------
(* LookupMACVendor.                                                        *)

FirstOctet(mac) == mac \div 2^(AddressBits - FirstBits)
IsZero(mac) == mac = 0
IsMulticast(mac) == FirstOctet(mac) % 2 = 1
IsUnicast(mac) == ~ IsZero(mac) /\ ~ IsMulticast(mac)
IsLocal(mac) == (FirstOctet(mac) \div 2) % 2 = 1
Prefix(mac, bits) == mac \div 2^(AddressBits - bits)

MACVendorResult(name, bits, source) == [name |-> name, bits |-> bits, source |-> source]
Unknown == MACVendorResult("", 0, "Unknown")

\* Binary search for the first value that is not smaller.  Indexes count from 0.
RECURSIVE lowerBound(_, _, _, _)
lowerBound(values, target, lo, hi) ==
    IF lo >= hi THEN lo
    ELSE LET mid == (lo + hi) \div 2
         IN  IF values[mid + 1] < target THEN lowerBound(values, target, mid + 1, hi)
             ELSE lowerBound(values, target, lo, mid)
foundAt(values, target, i) == IF i < Len(values) /\ values[i + 1] = target THEN i ELSE -1
searchUint32(values, target, lo, hi) == foundAt(values, target, lowerBound(values, target, lo, hi))

searchIn(values, buckets, prefix, bits) ==
    LET b == prefix \div 2^(bits - BucketBits)
    IN  searchUint32(values, prefix, buckets[b], buckets[b + 1])

vendorResult(ref, bits, source) ==
    IF ref[2] = 0 \/ ref[1] + ref[2] > Len(vendorNameData) THEN Unknown
    ELSE MACVendorResult(SubSeq(vendorNameData, ref[1] + 1, ref[1] + ref[2]), bits, source)

LookupMACVendor(mac) ==
    IF IsZero(mac) THEN Unknown
    ELSE IF IsMulticast(mac) THEN MACVendorResult("", 0, "Multicast")
    ELSE IF IsLocal(mac) THEN MACVendorResult("", 0, "LocallyAdministered")
    ELSE LET inS == searchIn(vendor36Prefixes, vendor36Buckets, Prefix(mac, S), S)
             inM == searchIn(vendor28Prefixes, vendor28Buckets, Prefix(mac, M), M)
             inL == searchIn(vendor24Prefixes, vendor24Buckets, Prefix(mac, L), L)
         IN  CASE inS >= 0 -> vendorResult(vendor36NameRefs[inS + 1], S, "MA-S")
               [] inS < 0 /\ inM >= 0 -> vendorResult(vendor28NameRefs[inM + 1], M, "MA-M")
               [] inS < 0 /\ inM < 0 /\ inL >= 0 -> vendorResult(vendor24NameRefs[inL + 1], L, "MA-L")
               [] OTHER -> Unknown

-----------------------------------------------------------------------------
NotAsked == -1

\* The tables are those genoui makes of some registries.
RegistryInit(tables) ==
    /\ Compiles(tables)
    /\ csv = tables
    /\ registry = genouiMain(tables)
    /\ asked = NotAsked
    /\ vendor = Unknown

Ask(mac) ==
    /\ asked' = mac
    /\ vendor' = LookupMACVendor(mac)
    /\ UNCHANGED <<csv, registry>>

RegistryNext == \E mac \in 0..(2^AddressBits - 1) : asked = NotAsked /\ Ask(mac)

-----------------------------------------------------------------------------
(* Property.                                                               *)

\* The rows that name the owner of an address: no later row of the registry
\* gives the prefix to somebody else.
Assignments(mac) ==
    {<<bits, i>> \in {L, M, S} \X (1..Max({Len(csv[bits]) : bits \in {L, M, S}})) :
        /\ i \in DOMAIN csv[bits] /\ csv[bits][i].name # "" /\ csv[bits][i].prefix = Prefix(mac, bits)
        /\ \A j \in DOMAIN csv[bits] :
              j > i /\ csv[bits][j].name # "" => csv[bits][j].prefix # Prefix(mac, bits)}

\* "LookupMACVendor performs longest-prefix matching" (vendor.go:23): of the
\* assignments that contain the address it names the longest, whichever buckets,
\* tables and name references lead there; and it names nobody for an address
\* that is nobody's, local or a group's.
LookupIsLongestPrefix ==
    asked = NotAsked \/
        LET assigned == Assignments(asked)
        IN  IF IsZero(asked) \/ IsMulticast(asked) \/ IsLocal(asked) \/ assigned = {}
            THEN vendor.name = "" /\ vendor.bits = 0
            ELSE \E a \in assigned : /\ \A other \in assigned : other[1] <= a[1]
                                     /\ vendor.bits = a[1]
                                     /\ vendor.name = csv[a[1]][a[2]].name
=============================================================================
