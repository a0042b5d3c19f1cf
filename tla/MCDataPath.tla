----------------------------- MODULE MCDataPath -----------------------------
EXTENDS DataPath

V == EtherTypeVLAN
Q == EtherTypeQinQ
Tagging == {<<>>, <<Q>>, <<Q, V>>, <<V, V, V>>, <<V, V, V, V>>}
Ports == {<<5353, 5353>>, <<5678, 1>>, <<1, 5678>>, <<1, 1>>}
Clipped(m) == {m, [m EXCEPT !.pad = 9], [m EXCEPT !.cut = 1], [m EXCEPT !.cut = 9]}

Frame(net, tags) == [net |-> net, tags |-> tags, size |-> 4, pad |-> 0, cut |-> 0]
IPFrame(net, tags, ports) ==
    Frame(net, tags) @@ [sport |-> ports[1], dport |-> ports[2], proto |-> 17, ihl |-> 5, frag |-> 0,
                         class |-> 0, exts |-> <<>>]
Headers4(m) ==
    Clipped(m) \cup {[m EXCEPT !.ihl = 4], [m EXCEPT !.ihl = 15], [m EXCEPT !.proto = 6]}
    \cup {[m EXCEPT !.frag = x, !.ihl = 7] : x \in {1, 8192, 16384}}
Chains ==
    {<<x>> : x \in {<<0, 0>>, <<60, 254>>, <<60, 255>>, <<51, 253>>, <<44, 0>>, <<50, 0>>}}
    \cup {<<<<43, 2>>, <<51, 1>>, <<60, 1>>>>, [i \in 1..8 |-> <<60, 0>>], [i \in 1..9 |-> <<60, 0>>]}
Headers6(m) == Clipped(m) \cup {[m EXCEPT !.proto = 6], [m EXCEPT !.class = 5]}
Extended(m) == {[m EXCEPT !.exts = x] : x \in Chains} \cup Clipped([m EXCEPT !.exts = <<<<0, 1>>>>])

\* Every frame under each tagging; extension headers with mDNS.
MCFrames ==
    UNION {
        Clipped([Frame("lldp", t) EXCEPT !.size = 9])
        \cup UNION {Clipped(Frame("snap", t) @@ [oui |-> x[1], pid |-> x[2]]) :
                 x \in {<<12, 8192>>, <<0, 8192>>, <<12, EtherTypeLLDP>>, <<0, EtherTypeIPv4>>}}
        \cup UNION {Headers4(IPFrame("ip4", t, p)) \cup Headers6(IPFrame("ip6", t, p)) : p \in Ports}
        \cup Extended(IPFrame("ip6", t, <<5353, 5353>>)) : t \in Tagging}

-----------------------------------------------------------------------------
TLV(t, v) == [t |-> t, v |-> v, ok |-> TRUE]
Bad(t, v) == [t |-> t, v |-> v, ok |-> FALSE]
CutTLV == Bad(Cut, "")
Seqs(set, n) == UNION {[1..k -> set] : k \in 0..n}
Managed(a, oid) == [subtype |-> "v4", address |-> a, oid |-> oid]

LLDPHead == <<TLV(1, "c"), TLV(2, "p"), TLV(3, "t")>>
LLDPBody ==
    {TLV(5, "a"), TLV(5, "b"), Bad(7, "a"), TLV(1, "d"), TLV(8, Managed("a", "o")),
     TLV(8, Managed("b", "")), TLV(9, <<"pvid", "a">>), TLV(9, <<"vlan", "b">>)}
LLDPTails == {<<TLV(0, "")>>, <<Bad(0, "")>>, <<CutTLV>>, <<>>}
LLDPPackets ==
    {[size |-> "ok", tlvs |-> LLDPHead \o b \o <<TLV(0, "")>>] : b \in Seqs(LLDPBody, 3)}
    \cup {[size |-> "ok", tlvs |-> LLDPHead \o b \o t] : b \in Seqs(LLDPBody, 1), t \in LLDPTails}
    \cup {[size |-> "ok", tlvs |-> [LLDPHead EXCEPT ![i] = x] \o <<TLV(0, "")>>] :
             i \in 1..3, x \in {Bad(2, "p"), TLV(0, ""), TLV(2, "q")}}
    \cup {[size |-> "large", tlvs |-> <<>>]}

CDPBody ==
    {TLV(1, "a"), TLV(1, "b"), TLV(4, "c"), Bad(4, "c"), TLV(2, <<"x", "y">>), TLV(2, <<"y", "bad", "z">>),
     Bad(22, <<"other", "x">>), TLV(40, ""), Bad(BadLength, ""), CutTLV}
CDPPackets ==
    {[size |-> "ok", version |-> 2, checksum |-> TRUE, tlvs |-> b] : b \in Seqs(CDPBody, 3)}
    \cup {[size |-> "ok", version |-> 3, checksum |-> FALSE, tlvs |-> b] : b \in Seqs(CDPBody, 2)}
    \cup {[size |-> "short", version |-> 2, checksum |-> TRUE, tlvs |-> <<>>]}

MNDPBody ==
    {TLV(1, "m"), TLV(1, "multicast"), Bad(1, "m"), TLV(5, "a"), TLV(5, "b"), TLV(17, "x"), TLV(15, "x"),
     Bad(15, "y"), TLV(3, ""), TLV(30, ""), Bad(BadLength, ""), CutTLV}
MNDPPackets ==
    {[size |-> "ok", tag |-> 0, sequence |-> 0, tlvs |-> b] : b \in Seqs(MNDPBody, 3)}
    \cup {[size |-> "ok", tag |-> 1, sequence |-> 0, tlvs |-> b] : b \in Seqs(MNDPBody, 2)}
    \cup {[size |-> "large", tag |-> 0, sequence |-> 0, tlvs |-> <<>>]}

Cell(kind, n) == [kind |-> kind, n |-> n]
NameCells ==
    {Cell("label", 1), Cell("label", 4), Cell("root", 0), Cell("invalid", 0), Cell("cut", 0)}
    \cup {Cell("pointer", n) : n \in {1, 2, 4, 9}}
Layouts == [1..4 -> NameCells]
Question(off) == [off |-> off, fits |-> TRUE]
Questions == {<<Question(1)>>, <<Question(3)>>, <<[Question(1) EXCEPT !.fits = FALSE]>>}
RR(off, type, ok, data) ==
    [off |-> off, fits |-> TRUE, type |-> type, flush |-> ok, ttl |-> 1, ok |-> ok, data |-> data, port |-> 7]
DNSRecords ==
    {RR(1, "A", TRUE, "x"), RR(1, "A", FALSE, "y"), RR(2, "PTR", TRUE, "s"), RR(1, "SRV", TRUE, "h"),
     RR(1, "SRV", FALSE, ""), RR(2, "TXT", TRUE, "t"), RR(2, "other", TRUE, ""), RR(3, "A", TRUE, "x"),
     [RR(1, "A", TRUE, "x") EXCEPT !.fits = FALSE]}
MDNSPacket(cells, questions, records) ==
    [size |-> "ok", flags |-> "response", cells |-> cells, questions |-> questions, records |-> records]
Plain == <<Cell("label", 1), Cell("label", 2), Cell("pointer", 4), Cell("root", 0)>>
Looped == <<Cell("label", 1), Cell("root", 0), Cell("pointer", 3), Cell("root", 0)>>
MDNSPackets ==
    {MDNSPacket(c, q, r) : c \in {Plain, Looped}, q \in {<<>>} \cup Questions, r \in Seqs(DNSRecords, 2)}
    \cup {MDNSPacket(c, <<>>, <<>>) : c \in Layouts}
    \cup {MDNSPacket(Plain, q, r) : q \in Seqs({Question(1)}, 3), r \in {[i \in 1..3 |-> RR(1, "A", TRUE, "x")], <<>>}}
    \cup {[MDNSPacket(Plain, <<>>, <<>>) EXCEPT !.flags = f] : f \in {"query", "opcode"}}
    \cup {[MDNSPacket(Plain, <<>>, <<>>) EXCEPT !.size = "short"]}

MCPackets == [LLDP |-> LLDPPackets, CDP |-> CDPPackets, MNDP |-> MNDPPackets, MDNS |-> MDNSPackets]

\* Packets that leave much behind.
MCEarlier ==
    [LLDP |-> {[size |-> "ok", tlvs |-> LLDPHead \o <<TLV(5, "a"), TLV(8, Managed("a", "o")),
                    TLV(8, Managed("b", "o")), TLV(9, <<"vlan", "a">>), TLV(9, <<"pvid", "a">>), TLV(0, "")>>]},
     CDP |-> {[size |-> "ok", version |-> 2, checksum |-> TRUE,
               tlvs |-> <<TLV(1, "a"), TLV(4, "c"), TLV(2, <<"x">>), TLV(22, <<"y">>)>>]},
     MNDP |-> {[size |-> "ok", tag |-> 0, sequence |-> 0, tlvs |-> <<TLV(1, "m"), TLV(5, "a"), TLV(17, "y")>>]},
     MDNS |-> {MDNSPacket(Plain, <<>>, <<RR(1, "A", TRUE, "x"), RR(2, "SRV", TRUE, "h")>>),
               MDNSPacket(Plain, <<>>, <<RR(2, "TXT", TRUE, "t"), RR(1, "A", FALSE, "y")>>)}]

-----------------------------------------------------------------------------
Row(p, n) == [prefix |-> p, name |-> n]
Tables(l, m, s) == (L :> l) @@ (M :> m) @@ (S :> s)
MCKnownVendors == Tables(<<Row(1, "acme")>>, <<Row(3, "acme")>>, <<Row(2, "zeta")>>)
\* Rows of one registry: at both ends of it, twice, nameless, or too wide for it.
RowLists(bits) ==
    {<<>>, <<Row(2^bits, "x")>>, <<Row(1, "a"), Row(1, "ab")>>, <<Row(1, "a"), Row(1, "")>>}
    \cup {<<Row(p, "ab"), Row(q, "c")>> : p \in {0, 1, 2^(bits - 3)}, q \in {2, 2^bits - 1}}
MCRegistries ==
    {Tables(l, m, <<Row(7, "ab"), Row(2, "a"), Row(3, "b")>>) : l \in RowLists(L), m \in RowLists(M)}

MCFold == [t \in {"", "r1", "R1", "x", "y", "cast", "i1", "host", "acme", "zeta", "id",
                       "board", "b2", "b3", "p1", "p2", "v1", "v2"} |->
               IF t = "R1" THEN "r1" ELSE t]
T(t) == [text |-> t, padded |-> FALSE]
Msg(proto, smac, claimed, name, id, rrs) ==
    [proto |-> proto, smac |-> smac, claimed |-> claimed, addresses |-> <<>>, name |-> name, id |-> id,
     platform |-> T(""), version |-> T(""), capabilities |-> {}, uptime |-> 1, records |-> rrs, ttl |-> 1]
DNS(type, name, target, port) ==
    [type |-> type, name |-> name, target |-> target, port |-> port, address |-> 9]
MCMessages ==
    {[Msg("LLDP", 9, 14, [text |-> "r1", padded |-> TRUE], T(""), <<>>) EXCEPT !.capabilities = {"bridge"}],
     Msg("CDP", 9, 0, T("x"), T("id"), <<>>),
     [Msg("MNDP", 0, 9, T("R1"), T("board"), <<>>) EXCEPT !.addresses = <<5>>],
     Msg("MDNS", 0, 0, T(""), T(""), <<DNS("PTR", "cast", "i1", 0)>>),
     Msg("MDNS", 0, 0, T(""), T(""),
         <<DNS("SRV", "i1", "host", 1), DNS("PTR", "cast", "i1", 0), DNS("A", "host", "", 0)>>)}

\* Messages whose texts agree, differ and outrank each other: MNDP's board is a
\* model of more confidence than CDP's platform, two protocols say "x", and a
\* MAC is claimed by one MNDP message and observed with the others.
Told(proto, name, id, platform, version) ==
    [Msg(proto, 9, 0, T(name), T(id), <<>>) EXCEPT !.platform = T(platform), !.version = T(version)]
MCEvidence ==
    {Told("CDP", "r1", "id", "p1", "v1"), Told("CDP", "x", "id", "p2", "v2"),
     [Told("MNDP", "R1", "board", "p1", "v1") EXCEPT !.addresses = <<5>>],
     [Told("MNDP", "y", "b2", "p2", "v2") EXCEPT !.uptime = 8, !.smac = 0, !.claimed = 9],
     [Told("MNDP", "x", "b3", "p1", "") EXCEPT !.uptime = NotSaid]}

Pred(op, field, want) == [op |-> op, field |-> field, want |-> want, fold |-> TRUE]
Rule(name, prio, all, any, none) ==
    [name |-> name, class |-> "c" \o name, priority |-> prio, all |-> all, any |-> any, none |-> none]
Pool ==
    <<Rule("1", 1, <<Pred("Exact", "SystemName", {"r1"})>>, <<>>, <<>>),
      Rule("2", 1, <<>>, <<Pred("Regex", "SystemName", {"x", "R1"}), Pred("CapabilityAll", "Capabilities", {"bridge"})>>,
           <<Pred("Protocol", "Protocol", {"MDNS"})>>),
      Rule("3", 2, <<Pred("Regex", "ServiceType", {"cast"}), Pred("Protocol", "Protocol", {"MDNS", "CDP"})>>, <<>>,
           <<Pred("MACPrefix", "ObservedMAC", <<8, 5>>)>>),
      Rule("4", 1, <<Pred("Protocol", "Protocol", {"LLDP"}), Pred("IPPrefix", "Address", <<4, 6>>)>>, <<>>, <<>>),
      Rule("5", 1, <<>>, <<Pred("Exact", "ServiceTXT", {"x"}), Pred("Exact", "HostName", {"host"})>>, <<>>)>>
Network(list, messages, n) == [rules |-> list, messages |-> messages, observations |-> n]
MCNetworks ==
    <<Network(<<Pool[1], Pool[2], Pool[3]>>, MCMessages, 3), Network(<<Pool[2], Pool[4], Pool[1]>>, MCMessages, 3),
      Network(<<Pool[5], Pool[1]>>, MCMessages, 3), Network(<<Pool[1], Pool[2], Pool[3]>>, MCEvidence, 4)>>
=============================================================================
