------------------------------ MODULE Decoders ------------------------------
(***************************************************************************)
(* The decode worker of a protocol and its decoder: DecodeLLDPDU,          *)
(* DecodeCDP, DecodeMNDP and DecodeMDNS (lldp.go, cdp.go, mndp.go,         *)
(* mdns.go), with the message a worker reuses for packet after packet.     *)
(*                                                                         *)
(* A packet is its sequence of TLVs or records.  A TLV has a type, a value *)
(* and whether its length suits its type; type Cut is one that the packet  *)
(* is too short for, BadLength one whose length field is out of range.     *)
(* Offsets are positions in the sequence.  A slice keeps the elements      *)
(* beyond its length, as its backing array does.                           *)
(***************************************************************************)
EXTENDS Integers, Sequences, SequencesExt, FiniteSets

CONSTANTS
    Packets,           \* what each protocol's worker may receive
    Earlier,           \* of these, what it may receive before
    MaxLabels,         \* maxDNSLabels, which also bounds the jumps
    MaxNameSize,       \* maxDNSNameSize
    MaxRecords,        \* maxDNSRecordsPerMessage
    MaxDecodes         \* bound: packets a worker decodes

VARIABLES
    protocol,          \* the worker's protocol
    message,           \* its message
    status,            \* the DecodeStatus, with every issue that was added
    packet,            \* the packet decoded last
    decodes            \* packets decoded, at most MaxDecodes
decoderVars == <<protocol, message, status, packet, decodes>>

-----------------------------------------------------------------------------
(* DecodeStatus and slices.                                                *)

Clean == 0
Ignored == 1
Partial == 2
Fatal == 3

NoIssue == [severity |-> Clean, code |-> "none", at |-> 0, added |-> <<>>]

\* Mutant: an issue as severe as the one that is kept replaces it.
addIssueLast(st, severity, code, at) ==
    [(IF severity >= st.severity \/ st.code = "none"
      THEN [st EXCEPT !.severity = severity, !.code = code, !.at = at] ELSE st)
     EXCEPT !.added = Append(@, <<severity, code, at>>)]

addIssue(st, severity, code, at) ==
    [(IF severity > st.severity \/ st.code = "none"
      THEN [st EXCEPT !.severity = severity, !.code = code, !.at = at] ELSE st)
     EXCEPT !.added = Append(@, <<severity, code, at>>)]

Usable(st) == st.severity \in {Clean, Partial}

Nothing == [n |-> 0, cells |-> <<>>]
Visible(slice) == SubSeq(slice.cells, 1, slice.n)
Grown(slice, zero) ==
    [n |-> slice.n + 1,
     cells |-> IF slice.n < Len(slice.cells) THEN slice.cells ELSE Append(slice.cells, zero)]
appendUnique(addrs, a) == IF Contains(addrs, a) THEN addrs ELSE Append(addrs, a)

\* A decoder's loop: its status, the types seen, how many mandatory TLVs came,
\* whether it goes on, and the message.
Loop(st, dst) == [st |-> st, seen |-> {}, mandatory |-> 0, at |-> "loop", dst |-> dst]
Fails(s, code, i) == [s EXCEPT !.st = addIssue(@, Fatal, code, i), !.at = "returned"]
Notes(s, code, i) == [s EXCEPT !.st = addIssue(@, Partial, code, i)]

Cut == 1000
BadLength == 1001

-----------------------------------------------------------------------------
(* DecodeLLDPDU.                                                           *)

lldpOrganizational == 9
isLLDPSingleton(t) == t \in 1..7
ZeroAddress == [subtype |-> "", address |-> "", oid |-> ""]
NoLLDP == [field |-> [t \in 1..7 |-> ""], addresses |-> Nothing, vlans |-> Nothing, pvid |-> ""]

\* Reset cuts the slices and keeps what is behind them.
ResetLLDP(m) ==
    [field |-> [t \in 1..7 |-> ""], pvid |-> "",
     addresses |-> [n |-> 0,
                    cells |-> [i \in DOMAIN m.addresses.cells |->
                        IF i <= m.addresses.n
                        THEN [m.addresses.cells[i] EXCEPT !.address = "", !.oid = ""]
                        ELSE m.addresses.cells[i]]],
     vlans |-> [m.vlans EXCEPT !.n = 0]]

Management(slice, v) ==
    [slice EXCEPT !.cells[slice.n] = [subtype |-> v.subtype, address |-> v.address, oid |-> v.oid]]
decodeLLDPManagement(m, v) ==
    [m EXCEPT !.addresses = Management(Grown(@, ZeroAddress), v)]

VLANNamed(slice, v) == [slice EXCEPT !.cells[slice.n] = v]
\* Of the organizational TLVs, one that is a scalar and one that is a list.
decodeLLDPOrganizational(m, v) ==
    IF v[1] = "pvid" THEN [m EXCEPT !.pvid = v[2]]
    ELSE IF v[1] = "vlan" THEN [m EXCEPT !.vlans = VLANNamed(Grown(@, ""), v[2])]
    ELSE m

LLDPValue(s, tlv) ==
    [s EXCEPT !.seen = @ \cup {tlv.t},
              !.dst = IF tlv.t \in 1..7 THEN [@ EXCEPT !.field[tlv.t] = tlv.v]
                      ELSE IF tlv.t = 8 THEN decodeLLDPManagement(@, tlv.v)
                      ELSE IF tlv.t = lldpOrganizational THEN decodeLLDPOrganizational(@, tlv.v)
                      ELSE @]

LLDPAccept(s, tlv, i) ==
    IF tlv.t = 0
    THEN IF ~ tlv.ok \/ s.mandatory # 3 THEN Fails(s, "length", i) ELSE [s EXCEPT !.at = "ended"]
    ELSE IF tlv.t \in s.seen /\ isLLDPSingleton(tlv.t) THEN Notes(s, "duplicate", i)
    ELSE IF tlv.ok THEN LLDPValue(s, tlv)
    ELSE IF tlv.t \in 1..3 THEN Fails(s, "length", i) ELSE Notes(s, "length", i)

LLDPStep(s, tlv, i) ==
    IF s.at # "loop" THEN s
    ELSE IF tlv.t = Cut THEN Fails(s, "truncated", i)
    ELSE IF s.mandatory = 3 THEN LLDPAccept(s, tlv, i)
    ELSE IF tlv.t # s.mandatory + 1 THEN Fails(s, "order", i)
    ELSE LLDPAccept([s EXCEPT !.mandatory = @ + 1], tlv, i)

LLDPEnd(s, n) == IF s.at = "loop" THEN Fails(s, "missing end", n + 1) ELSE s
DecodeLLDPDU(pkt, dst) ==
    IF pkt.size = "large" THEN Fails(Loop(NoIssue, ResetLLDP(dst)), "too large", 0)
    ELSE LLDPEnd(FoldLeftDomain(LAMBDA s, i : LLDPStep(s, pkt.tlvs[i], i),
                                Loop(NoIssue, ResetLLDP(dst)), pkt.tlvs),
                 Len(pkt.tlvs))

-----------------------------------------------------------------------------
(* DecodeCDP.                                                              *)

NoCDP == [field |-> [t \in 1..31 |-> ""], addresses |-> <<>>, management |-> <<>>]
ResetCDP(m) ==
    [m EXCEPT !.field = [t \in 1..31 |-> ""], !.addresses = <<>>, !.management = <<>>]
cdpSingleton(t) == t \in {1, 3, 4, 5, 6, 10, 11, 20}
cdpAddressTypes == {2, 22}

\* The addresses of a TLV up to the first that does not fit; others are skipped.
decodeCDPAddresses(entries, addrs) ==
    FoldLeft(LAMBDA r, e : IF ~ r.ok THEN r
                           ELSE IF e = "bad" THEN [r EXCEPT !.ok = FALSE]
                           ELSE IF e = "other" THEN r
                           ELSE [r EXCEPT !.addrs = appendUnique(@, e)],
             [ok |-> TRUE, addrs |-> addrs], entries)

CDPSeen(s, tlv, ok, i) ==
    IF ~ ok THEN Notes(s, "length", i)
    ELSE IF tlv.t < 32 THEN [s EXCEPT !.seen = @ \cup {tlv.t}] ELSE s
CDPAddresses(s, tlv, i, r) ==
    CDPSeen(IF tlv.t = 2 THEN [s EXCEPT !.dst.addresses = r.addrs]
            ELSE [s EXCEPT !.dst.management = r.addrs], tlv, r.ok /\ tlv.ok, i)

CDPStep(s, tlv, i) ==
    IF s.at # "loop" THEN s
    ELSE IF tlv.t = Cut THEN Fails(s, "truncated", i)
    ELSE IF tlv.t = BadLength THEN Fails(s, "length", i)
    ELSE IF tlv.t \in s.seen /\ cdpSingleton(tlv.t) THEN Notes(s, "duplicate", i)
    ELSE IF tlv.t \in cdpAddressTypes
    THEN CDPAddresses(s, tlv, i,
             decodeCDPAddresses(tlv.v, IF tlv.t = 2 THEN s.dst.addresses ELSE s.dst.management))
    ELSE IF cdpSingleton(tlv.t) /\ tlv.ok
    THEN CDPSeen([s EXCEPT !.dst.field[tlv.t] = tlv.v], tlv, TRUE, i)
    ELSE CDPSeen(s, tlv, tlv.ok \/ ~ cdpSingleton(tlv.t), i)

CDPHeader(st, pkt) ==
    IF pkt.checksum THEN st ELSE addIssue(st, Partial, "checksum", 0)
DecodeCDP(pkt, dst) ==
    IF pkt.size # "ok" THEN Fails(Loop(NoIssue, ResetCDP(dst)), "size", 0)
    ELSE FoldLeftDomain(LAMBDA s, i : CDPStep(s, pkt.tlvs[i], i),
             Loop(CDPHeader(IF pkt.version \in {1, 2} THEN NoIssue
                            ELSE addIssue(NoIssue, Partial, "header", 0), pkt), ResetCDP(dst)),
             pkt.tlvs)

-----------------------------------------------------------------------------
(* DecodeMNDP.                                                             *)

NoMNDP == [field |-> [t \in 1..17 |-> ""], hasMAC |-> FALSE, addresses |-> <<>>, refresh |-> FALSE]
ResetMNDP(m) ==
    [m EXCEPT !.field = [t \in 1..17 |-> ""], !.hasMAC = FALSE, !.addresses = <<>>, !.refresh = FALSE]
mndpFixed == {1, 10, 15, 17}
mndpKnown == {1, 5, 7, 8, 10, 11, 12, 15, 16, 17}

MNDPValue(m, tlv) ==
    IF tlv.t \in {15, 17} THEN [m EXCEPT !.addresses = appendUnique(@, tlv.v)]
    ELSE IF tlv.t = 1 THEN [m EXCEPT !.field[1] = tlv.v, !.hasMAC = tlv.v # "multicast"]
    ELSE IF tlv.t \in mndpKnown THEN [m EXCEPT !.field[tlv.t] = tlv.v]
    ELSE m

MNDPStep(s, tlv, i) ==
    IF s.at # "loop" THEN s
    ELSE IF tlv.t = Cut THEN Fails(s, "truncated", i)
    ELSE IF tlv.t = BadLength THEN Fails(s, "length", i)
    ELSE IF tlv.t \in s.seen /\ tlv.t \notin {15, 17} THEN Notes(s, "duplicate", i)
    ELSE IF tlv.t \in mndpFixed /\ ~ tlv.ok THEN Notes(s, "length", i)
    ELSE [s EXCEPT !.dst = MNDPValue(@, tlv),
                   !.seen = IF tlv.t < 18 THEN @ \cup {tlv.t} ELSE @]

DecodeMNDP(pkt, dst) ==
    IF pkt.size # "ok" THEN Fails(Loop(NoIssue, ResetMNDP(dst)), "size", 0)
    ELSE FoldLeftDomain(LAMBDA s, i : MNDPStep(s, pkt.tlvs[i], i),
             Loop(NoIssue, [ResetMNDP(dst) EXCEPT !.refresh = pkt.tag = 0 /\ pkt.sequence = 0]), pkt.tlvs)

-----------------------------------------------------------------------------
(* decodeDNSName.  A name is laid out in cells: a label with its size, a   *)
(* pointer to a cell, the root, an invalid length, or a cell cut short.    *)

RECURSIVE NameFrom(_, _, _, _, _)
NameIssue(code) == [code |-> code, name |-> <<>>, next |-> 0]
\* Labels and the dots after them.
NameSize(labels) == FoldLeft(LAMBDA n, size : n + size, 0, labels) + Len(labels)

NameLabel(cells, off, next, labels, jumps, size) ==
    IF Len(labels) + 1 > MaxLabels THEN NameIssue("labels")
    ELSE IF NameSize(labels) + size > MaxNameSize THEN NameIssue("too large")
    ELSE NameFrom(cells, off + 1, next, Append(labels, size), jumps)

\* Mutant: the record goes on behind the last pointer, not the first.
NameJumpLast(cells, off, next, labels, jumps, target) ==
    IF jumps + 1 > MaxLabels THEN NameIssue("loop")
    ELSE NameFrom(cells, target, off + 1, labels, jumps + 1)

NameJump(cells, off, next, labels, jumps, target) ==
    IF jumps + 1 > MaxLabels THEN NameIssue("loop")
    ELSE NameFrom(cells, target, IF next = 0 THEN off + 1 ELSE next, labels, jumps + 1)

NameFrom(cells, off, next, labels, jumps) ==
    IF off > Len(cells) THEN NameIssue("too short")
    ELSE CASE cells[off].kind = "root" ->
                [code |-> "none", name |-> labels, next |-> IF next = 0 THEN off + 1 ELSE next]
           [] cells[off].kind = "pointer" -> NameJump(cells, off, next, labels, jumps, cells[off].n)
           [] cells[off].kind = "label" -> NameLabel(cells, off, next, labels, jumps, cells[off].n)
           [] cells[off].kind = "cut" -> NameIssue("too short")
           [] cells[off].kind = "invalid" -> NameIssue("header")
decodeDNSName(cells, off) == NameFrom(cells, off, 0, <<>>, 0)

-----------------------------------------------------------------------------
(* DecodeMDNS.  A record has the cell its name starts at, whether it fits  *)
(* the packet, its type and whether its data suits the type.               *)

ZeroRecord == [name |-> <<>>, type |-> "", flush |-> FALSE, ttl |-> 0, target |-> "", txt |-> "",
               address |-> "", port |-> 0]
NoMDNS == [records |-> Nothing, flags |-> "query"]
ResetMDNS(m) ==
    [flags |-> "query",
     records |-> [n |-> 0,
                  cells |-> [i \in DOMAIN m.records.cells |->
                      IF i <= m.records.n
                      THEN [m.records.cells[i] EXCEPT !.name = <<>>, !.target = "", !.txt = ""]
                      ELSE m.records.cells[i]]]]

\* Mutant: the address of the record that was in the cell stays.
RecordKeepsAddress(cell, r, name) ==
    [cell EXCEPT !.name = name, !.type = r.type, !.flush = r.flush, !.ttl = r.ttl,
                 !.target = IF r.type \in {"PTR", "SRV"} /\ r.ok THEN r.data ELSE "",
                 !.txt = IF r.type = "TXT" /\ r.ok THEN r.data ELSE "",
                 !.address = IF r.type = "A" /\ r.ok THEN r.data ELSE @,
                 !.port = IF r.type = "SRV" THEN r.port ELSE 0]

RecordInto(cell, r, name) ==
    [cell EXCEPT !.name = name, !.type = r.type, !.flush = r.flush, !.ttl = r.ttl,
                 !.target = IF r.type \in {"PTR", "SRV"} /\ r.ok THEN r.data ELSE "",
                 !.txt = IF r.type = "TXT" /\ r.ok THEN r.data ELSE "",
                 !.address = IF r.type = "A" /\ r.ok THEN r.data ELSE "",
                 !.port = IF r.type = "SRV" THEN r.port ELSE 0]

\* A record that is not valid leaves its cell behind, beyond the slice's end.
RecordStored(s, r, i, name, slice) ==
    IF r.ok THEN [s EXCEPT !.dst.records = [slice EXCEPT !.cells[slice.n] = RecordInto(@, r, name)]]
    ELSE Notes([s EXCEPT !.dst.records = [n |-> slice.n - 1,
                    cells |-> [slice.cells EXCEPT ![slice.n] = RecordInto(@, r, name)]]], "length", i)

RecordNamed(s, r, i, decoded) ==
    IF decoded.code # "none" THEN Fails(s, decoded.code, i)
    ELSE IF ~ r.fits THEN Fails(s, "truncated", i)
    ELSE IF r.type = "other" THEN s
    ELSE RecordStored(s, r, i, decoded.name, Grown(s.dst.records, ZeroRecord))
RecordStep(s, r, i, cells) ==
    IF s.at # "loop" THEN s ELSE RecordNamed(s, r, i, decodeDNSName(cells, r.off))

QuestionStep(s, q, cells) ==
    IF s.at # "loop" THEN s
    ELSE IF decodeDNSName(cells, q.off).code # "none" THEN Fails(s, decodeDNSName(cells, q.off).code, 0)
    ELSE IF ~ q.fits THEN Fails(s, "short", 0)
    ELSE s

MDNSBody(pkt, s) ==
    IF Len(pkt.questions) > MaxRecords \/ Len(pkt.records) > MaxRecords
    THEN Fails(s, "too large", 0)
    ELSE FoldLeftDomain(LAMBDA t, i : RecordStep(t, pkt.records[i], i, pkt.cells),
                        FoldLeft(LAMBDA t, q : QuestionStep(t, q, pkt.cells), s, pkt.questions), pkt.records)
MDNSHeader(pkt, m) ==
    IF pkt.flags = "response" THEN MDNSBody(pkt, Loop(NoIssue, m))
    ELSE Loop(addIssue(NoIssue, Ignored, pkt.flags, 0), m)
DecodeMDNS(pkt, dst) ==
    IF pkt.size # "ok" THEN Fails(Loop(NoIssue, ResetMDNS(dst)), "size", 0)
    ELSE MDNSHeader(pkt, [ResetMDNS(dst) EXCEPT !.flags = pkt.flags])

-----------------------------------------------------------------------------
(* decodeWorker.                                                           *)

Zero(p) == CASE p = "LLDP" -> NoLLDP [] p = "CDP" -> NoCDP [] p = "MNDP" -> NoMNDP
             [] p = "MDNS" -> NoMDNS
DecodeInto(p, pkt, dst) ==
    CASE p = "LLDP" -> DecodeLLDPDU(pkt, dst) [] p = "CDP" -> DecodeCDP(pkt, dst)
      [] p = "MNDP" -> DecodeMNDP(pkt, dst) [] p = "MDNS" -> DecodeMDNS(pkt, dst)

Nobody == [size |-> "none"]
DecodersInit(p) ==
    /\ protocol = p
    /\ message = Zero(p) /\ status = NoIssue /\ packet = Nobody /\ decodes = 0

Decoded(pkt, s) == message' = s.dst /\ status' = s.st /\ packet' = pkt

\* A packet is decoded into the message the last one was decoded into.
Decode(pkt) ==
    /\ decodes < MaxDecodes /\ decodes' = decodes + 1
    /\ Decoded(pkt, DecodeInto(protocol, pkt, message))
    /\ UNCHANGED protocol

DecodersNext ==
    \E pkt \in Earlier[protocol] \cup (IF decodes = MaxDecodes - 1 THEN Packets[protocol] ELSE {}) :
        Decode(pkt)

-----------------------------------------------------------------------------
(* What a packet says, without the decoder's loop.                         *)

ValidOf(tlvs, t) == SelectSeq(tlvs, LAMBDA tlv : tlv.t = t /\ tlv.ok)
Values(tlvs) == [i \in DOMAIN tlvs |-> tlvs[i].v]
FirstOf(tlvs) == IF tlvs = <<>> THEN "" ELSE tlvs[1].v
LastOf(seq) == IF seq = <<>> THEN "" ELSE Last(seq)
Fields(tlvs, types) == [t \in types |-> FirstOf(ValidOf(tlvs, t))]
Organizational(tlvs, which) ==
    LET of == SelectSeq(ValidOf(tlvs, lldpOrganizational), LAMBDA tlv : tlv.v[1] = which)
    IN  [i \in DOMAIN of |-> of[i].v[2]]

\* The TLVs before the End TLV.
Body(tlvs) == SubSeq(tlvs, 1, SelectInSeq(tlvs, LAMBDA tlv : tlv.t = 0) - 1)
Wellformed(tlvs) == \A i \in DOMAIN tlvs : tlvs[i].t \notin {Cut, BadLength}

AddressesIn(tlvs, types) ==
    UNION {{tlv.v[j] : j \in {k \in DOMAIN tlv.v : \A l \in 1..k : tlv.v[l] # "bad"}} \ {"other"}
              : tlv \in {tlvs[i] : i \in {k \in DOMAIN tlvs : tlvs[k].t \in types}}}

\* Where the name that starts at a cell goes, pointer by pointer.
NameBound == 2 * MaxLabels + 1
Follow(cells, off) ==
    LET at[k \in 0..NameBound] ==
            IF k = 0 THEN off
            ELSE IF at[k - 1] > Len(cells) THEN at[k - 1]
            ELSE IF cells[at[k - 1]].kind = "label" THEN at[k - 1] + 1
            ELSE IF cells[at[k - 1]].kind = "pointer" THEN cells[at[k - 1]].n
            ELSE at[k - 1]
    IN  at
KindAt(cells, i) == IF i > Len(cells) THEN "cut" ELSE cells[i].kind
LabelsOn(cells, at) ==
    LET ks == SelectSeq([k \in 1..NameBound |-> at[k - 1]], LAMBDA i : KindAt(cells, i) = "label")
    IN  [k \in DOMAIN ks |-> cells[ks[k]].n]
Namable(cells, at) ==
    /\ KindAt(cells, at[NameBound]) = "root"
    /\ Len(LabelsOn(cells, at)) <= MaxLabels
    /\ Cardinality({k \in 0..NameBound : KindAt(cells, at[k]) = "pointer"}) <= MaxLabels
    /\ \A n \in 1..Len(LabelsOn(cells, at)) :
           NameSize(SubSeq(LabelsOn(cells, at), 1, n)) - 1 <= MaxNameSize

Named(pkt, off) == Namable(pkt.cells, Follow(pkt.cells, off))

Says(p, pkt) ==
    CASE p = "LLDP" ->
           /\ pkt.size = "ok" /\ \E i \in DOMAIN pkt.tlvs : pkt.tlvs[i].t = 0
           /\ Wellformed(Body(pkt.tlvs))
           /\ pkt.tlvs[Len(Body(pkt.tlvs)) + 1].ok
           /\ Len(Body(pkt.tlvs)) >= 3 /\ \A i \in 1..3 : pkt.tlvs[i].t = i /\ pkt.tlvs[i].ok
      [] p \in {"CDP", "MNDP"} -> pkt.size = "ok" /\ Wellformed(pkt.tlvs)
      [] p = "MDNS" ->
           /\ pkt.size = "ok" /\ pkt.flags = "response"
           /\ Len(pkt.questions) <= MaxRecords /\ Len(pkt.records) <= MaxRecords
           /\ \A i \in DOMAIN pkt.questions : pkt.questions[i].fits /\ Named(pkt, pkt.questions[i].off)
           /\ \A i \in DOMAIN pkt.records : pkt.records[i].fits /\ Named(pkt, pkt.records[i].off)

-----------------------------------------------------------------------------
(* Properties.                                                             *)

IsSet(seq) == Cardinality(ToSet(seq)) = Len(seq)

\* A message that fusion gets holds what its packet says and nothing of the
\* packets decoded into it before, however the slices and records are reused: the
\* first valid TLV of a type wins, an invalid one leaves no trace (addresses in
\* front of one that does not fit excepted), and lists have an entry per valid
\* TLV or record.  Just the packets without a fatal fault are passed on.
MessageIsThePackets ==
    packet # Nobody =>
        /\ Usable(status) <=> Says(protocol, packet)
        /\ Usable(status) =>
            CASE protocol = "LLDP" ->
                   LET tlvs == Body(packet.tlvs) IN
                   /\ message.field = Fields(tlvs, 1..7)
                   /\ Visible(message.addresses) = Values(ValidOf(tlvs, 8))
                   /\ Visible(message.vlans) = Organizational(tlvs, "vlan")
                   /\ message.pvid = LastOf(Organizational(tlvs, "pvid"))
              [] protocol = "CDP" ->
                   /\ \A t \in 1..31 : message.field[t] = IF cdpSingleton(t)
                          THEN FirstOf(ValidOf(packet.tlvs, t)) ELSE ""
                   /\ ToSet(message.addresses) = AddressesIn(packet.tlvs, {2})
                   /\ ToSet(message.management) = AddressesIn(packet.tlvs, {22})
                   /\ IsSet(message.addresses) /\ IsSet(message.management)
              [] protocol = "MNDP" ->
                   /\ \A t \in 1..17 : message.field[t] = IF t \in mndpKnown \ {15, 17}
                          THEN FirstOf(ValidOf(packet.tlvs, t)) ELSE ""
                   /\ message.hasMAC = (message.field[1] \notin {"", "multicast"})
                   /\ ToSet(message.addresses) = ToSet(Values(ValidOf(packet.tlvs, 15)))
                                                 \cup ToSet(Values(ValidOf(packet.tlvs, 17)))
                   /\ IsSet(message.addresses)
              [] protocol = "MDNS" ->
                   LET valid == SelectSeq(packet.records, LAMBDA r : r.type # "other" /\ r.ok) IN
                   Visible(message.records) =
                       [i \in DOMAIN valid |->
                           [name |-> LabelsOn(packet.cells, Follow(packet.cells, valid[i].off)),
                            type |-> valid[i].type, flush |-> valid[i].flush, ttl |-> valid[i].ttl,
                            target |-> IF valid[i].type \in {"PTR", "SRV"} THEN valid[i].data ELSE "",
                            txt |-> IF valid[i].type = "TXT" THEN valid[i].data ELSE "",
                            address |-> IF valid[i].type = "A" THEN valid[i].data ELSE "",
                            port |-> IF valid[i].type = "SRV" THEN valid[i].port ELSE 0]]

\* protocol.go:86, "Code, Offset, and TLVType describe the first issue at the
\* greatest severity", over every issue a decoder adds on its way.
StatusIsFirstWorst ==
    IF status.added = <<>> THEN status = NoIssue
    ELSE \E i \in DOMAIN status.added :
             /\ status.added[i] = <<status.severity, status.code, status.at>>
             /\ \A j \in DOMAIN status.added : status.added[j][1] <= status.severity
             /\ \A j \in 1..(i - 1) : status.added[j][1] < status.severity

\* Decompression ends and is exact: a name is accepted just if following its
\* pointers reaches the root within the limits on labels, jumps and size, a cycle
\* never does, and parsing goes on right after the name's first pointer or root,
\* wherever the pointers led.
NamesDecode ==
    packet # Nobody /\ protocol = "MDNS" =>
        \A off \in DOMAIN packet.cells :
            LET r == decodeDNSName(packet.cells, off)
                at == Follow(packet.cells, off)
            IN  /\ (r.code = "none") <=> Namable(packet.cells, at)
                /\ r.code = "none" =>
                       /\ r.name = LabelsOn(packet.cells, at)
                       /\ \A i \in off..(r.next - 2) : packet.cells[i].kind = "label"
                       /\ packet.cells[r.next - 1].kind \in {"root", "pointer"}
=============================================================================
