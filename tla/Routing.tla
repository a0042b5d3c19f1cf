------------------------------ MODULE Routing -------------------------------
(***************************************************************************)
(* From a frame on the wire to the protocol queue it is put on: the packet *)
(* filter in the kernel, DecodeEthernetFrame and DecodeUDP (ethernet.go)   *)
(* and routeCapture (engine.go).                                           *)
(*                                                                         *)
(* A frame is what a sender means, with the bytes that this encodes to; it *)
(* may have been cut short.  Addresses, payload bytes and VLAN numbers are *)
(* left out; a decoded datagram is its ports and where its payload starts  *)
(* and ends.                                                               *)
(***************************************************************************)
EXTENDS PacketFilter, FiniteSets, TLC

CONSTANTS
    Protocols,   \* the names of the four protocols
    Frames       \* what senders send

VARIABLES
    enabled,     \* Config.Protocols
    frame,       \* the frame last seen
    accepted,    \* what the packet filter says of it
    routed       \* where it went: a protocol and a payload, NotRouted, or Pending
routingVars == <<enabled, frame, accepted, routed>>

-----------------------------------------------------------------------------
(* Senders (external).  A message says which tags it has, what it carries  *)
(* and, for IP, its headers; pad bytes follow it, and cut bytes are lost.  *)

Two(i, v) == i :> (v \div 256) @@ (i + 1) :> (v % 256)

HeaderSize(ext) == IF ext[1] = 51 THEN (ext[2] + 2) * 4 ELSE (ext[2] + 1) * 8
RECURSIVE ExtensionBytes(_, _, _)
ExtensionBytes(exts, i, at) ==
    IF i > Len(exts) THEN <<>>
    ELSE at :> (IF i = Len(exts) THEN 17 ELSE exts[i + 1][1]) @@ (at + 1) :> exts[i][2]
         @@ ExtensionBytes(exts, i + 1, at + HeaderSize(exts[i]))
ExtensionsSize(exts) == FoldLeft(LAMBDA n, ext : n + HeaderSize(ext), 0, exts)

UDPAt(m, base) == base + (IF m.net = "ip4" THEN 4 * m.ihl ELSE 40 + ExtensionsSize(m.exts))
UDPBytes(m, at) == Two(at, m.sport) @@ Two(at + 2, m.dport) @@ Two(at + 4, 8 + m.size)

NetBytes(m, base) ==
    CASE m.net = "ip4" ->
           base :> (64 + m.ihl) @@ Two(base + 2, 4 * m.ihl + 8 + m.size)
           @@ Two(base + 6, m.frag) @@ (base + 9) :> m.proto @@ UDPBytes(m, UDPAt(m, base))
      [] m.net = "ip6" ->
           base :> (96 + m.class) @@ Two(base + 4, ExtensionsSize(m.exts) + 8 + m.size)
           @@ (base + 6) :> (IF m.exts = <<>> THEN m.proto ELSE m.exts[1][1])
           @@ ExtensionBytes(m.exts, 1, base + 40) @@ UDPBytes(m, UDPAt(m, base))
      [] m.net = "snap" ->
           Two(base, 43690) @@ (base + 2) :> 3 @@ (base + 5) :> m.oui @@ Two(base + 6, m.pid)
      [] m.net = "lldp" -> <<>>

EndOf(m, base) ==
    CASE m.net \in {"ip4", "ip6"} -> UDPAt(m, base) + 8 + m.size
      [] m.net = "snap" -> base + 8 + m.size
      [] m.net = "lldp" -> base + m.size

TypeOf(m) ==
    CASE m.net = "ip4" -> EtherTypeIPv4 [] m.net = "ip6" -> EtherTypeIPv6
      [] m.net = "lldp" -> EtherTypeLLDP [] m.net = "snap" -> 8 + m.size
Framed(m, base) ==
    [len |-> EndOf(m, base) + m.pad - m.cut,
     byte |-> FoldLeft(LAMBDA bytes, i : bytes @@ Two(12 + 4 * (i - 1), m.tags[i]),
                       Two(base - 2, TypeOf(m)), [i \in DOMAIN m.tags |-> i]) @@ NetBytes(m, base)]
Encode(m) == Framed(m, 14 + 4 * Len(m.tags))

-----------------------------------------------------------------------------
(* DecodeEthernetFrame.                                                    *)

Unusable == [usable |-> FALSE]
IsTag(f, d) == Half(f, 12 + 4 * d) \in {EtherTypeVLAN, EtherTypeQinQ}
TagCounts(f) == {d \in 0..maxVLANTags : ~ IsTag(f, d) /\ \A e \in 0..(d - 1) : IsTag(f, e)}

\* IEEE 802.3: the type field is a length; the data is LLC and perhaps SNAP,
\* whose PID becomes the EtherType whatever its OUI.
LLC(f, off, end) ==
    IF end - off < 3 THEN Unusable
    ELSE IF ~ (Half(f, off) = 43690 /\ Byte(f, off + 2) = 3)
    THEN [usable |-> TRUE, type |-> 0, snap |-> FALSE, from |-> off + 3, to |-> end, cisco |-> FALSE]
    ELSE IF end - off < 8 THEN Unusable
    ELSE [usable |-> TRUE, type |-> Half(f, off + 6), snap |-> TRUE, from |-> off + 8, to |-> end,
          cisco |-> Byte(f, off + 3) = 0 /\ Half(f, off + 4) = 12]

Untagged(f, off, type) ==
    IF off > f.len THEN Unusable
    ELSE IF type >= 1536
    THEN [usable |-> TRUE, type |-> type, snap |-> FALSE, from |-> off, to |-> f.len, cisco |-> FALSE]
    ELSE LLC(f, off, IF type < f.len - off THEN off + type ELSE f.len)

DecodeEthernetFrame(f) ==
    IF f.len < 14 \/ TagCounts(f) = {} THEN Unusable
    ELSE LET d == CHOOSE x \in TagCounts(f) : TRUE
         IN  Untagged(f, 14 + 4 * d, Half(f, 12 + 4 * d))

-----------------------------------------------------------------------------
(* DecodeUDP.                                                              *)

udp(f, off, end) ==
    IF end - off < 8 THEN Unusable
    ELSE IF Half(f, off + 4) < 8 \/ Half(f, off + 4) > end - off THEN Unusable
    ELSE [usable |-> TRUE, sport |-> Half(f, off), dport |-> Half(f, off + 2),
          from |-> off + 8, to |-> off + Half(f, off + 4)]

ipv4(f, p, ihl, total) ==
    IF \/ f.len - p < 20 \/ Byte(f, p) \div 16 # 4
       \/ ihl < 20 \/ ihl > f.len - p
       \/ total < ihl \/ total > f.len - p
       \/ Half(f, p + 6) % 16384 # 0
       \/ Byte(f, p + 9) # 17
    THEN Unusable
    ELSE udp(f, p + ihl, p + total)

\* The walk over at most eight extension headers.  A length byte is added to
\* before it is widened, and wraps.
RECURSIVE Walk(_, _, _, _, _)

\* Mutant: a header counts the units its length byte holds, and not one more.
OptionsShort(f, next, off, total, ext, n) ==
    IF n < 8 \/ off + n > total THEN Unusable
    ELSE Walk(f, Byte(f, off), off + n - 8, total, ext + 1)

Options(f, next, off, total, ext, n) ==
    IF n < 8 \/ off + n > total THEN Unusable
    ELSE Walk(f, Byte(f, off), off + n, total, ext + 1)
Authentication(f, next, off, total, ext, n) ==
    IF off + n > total THEN Unusable
    ELSE Walk(f, Byte(f, off), off + n, total, ext + 1)
Walk(f, next, off, total, ext) ==
    IF next = 17 THEN udp(f, off, total)
    ELSE IF ext = 8 \/ next \notin {0, 43, 60, 51} \/ off + 2 > total THEN Unusable
    ELSE IF next = 51
    THEN Authentication(f, next, off, total, ext, ((Byte(f, off + 1) + 2) % 256) * 4)
    ELSE Options(f, next, off, total, ext, ((Byte(f, off + 1) + 1) % 256) * 8)

ipv6(f, p, total) ==
    IF f.len - p < 40 \/ Byte(f, p) \div 16 # 6 \/ total > f.len - p THEN Unusable
    ELSE Walk(f, Byte(f, p + 6), p + 40, p + total, 0)

DecodeUDP(f, decoded) ==
    IF decoded.type = EtherTypeIPv4
    THEN ipv4(f, decoded.from, (Byte(f, decoded.from) % 16) * 4, Half(f, decoded.from + 2))
    ELSE ipv6(f, decoded.from, 40 + Half(f, decoded.from + 4))

-----------------------------------------------------------------------------
(* routeCapture of a raw frame.                                            *)

NotRouted == <<"none", 0, 0>>
Pending == <<"pending", 0, 0>>
Enqueued(protocol, data) == <<protocol, data.from, data.to>>

byPort(protocols, datagram) ==
    IF ~ datagram.usable THEN NotRouted
    ELSE IF MDNSPort \in {datagram.sport, datagram.dport} /\ "MDNS" \in protocols
    THEN Enqueued("MDNS", datagram)
    ELSE IF MNDPPort \in {datagram.sport, datagram.dport} /\ "MNDP" \in protocols
    THEN Enqueued("MNDP", datagram)
    ELSE NotRouted

byType(protocols, f, decoded) ==
    IF ~ decoded.usable THEN NotRouted
    ELSE IF decoded.type = EtherTypeLLDP /\ "LLDP" \in protocols THEN Enqueued("LLDP", decoded)
    ELSE IF decoded.snap /\ decoded.cisco /\ decoded.type = 8192 /\ "CDP" \in protocols
    THEN Enqueued("CDP", decoded)
    ELSE IF decoded.type \notin {EtherTypeIPv4, EtherTypeIPv6} THEN NotRouted
    ELSE byPort(protocols, DecodeUDP(f, decoded))

routeCapture(protocols, f) == byType(protocols, f, DecodeEthernetFrame(f))

-----------------------------------------------------------------------------

Programs == [protocols \in SUBSET Protocols |-> discoveryFilter(protocols)]

NoFrame == [net |-> "none"]
RoutingInit(protocols) ==
    /\ enabled = protocols
    /\ frame = NoFrame /\ accepted = FALSE /\ routed = Pending

\* The kernel runs the filter.
Arrive(m) ==
    /\ frame = NoFrame /\ frame' = m
    /\ accepted' = runFilter(Programs[enabled], Encode(m))
    /\ UNCHANGED <<enabled, routed>>

\* A frame that passes is emitted to routeCapture.
Route ==
    /\ frame # NoFrame /\ routed = Pending
    /\ routed' = IF accepted THEN routeCapture(enabled, Encode(frame)) ELSE NotRouted
    /\ UNCHANGED <<enabled, frame, accepted>>

RoutingNext == Route \/ \E m \in Frames : Arrive(m)

-----------------------------------------------------------------------------
(* Properties.                                                             *)

Whole(m) == m.cut = 0 /\ Len(m.tags) <= maxVLANTags
IsIP(m) == m.net \in {"ip4", "ip6"}
\* The lengths that 8 bits hold, of the headers that may be skipped.
Walkable(exts) ==
    /\ Len(exts) <= 8
    /\ \A i \in DOMAIN exts : exts[i] \in ({0, 43, 60} \X (0..254)) \cup ({51} \X (0..253))
IsDatagram(m) ==
    /\ IsIP(m) /\ m.proto = 17
    /\ m.net = "ip4" => m.ihl >= 5 /\ m.frag \in {0, 16384}
    /\ m.net = "ip6" => Walkable(m.exts)

\* The protocol a sender speaks, if it is enabled; mDNS goes first.
Meant(m, protocols) ==
    IF m.net = "lldp" THEN {"LLDP"} \cap protocols
    ELSE IF m.net = "snap" THEN IF m.oui = 12 /\ m.pid = 8192 THEN {"CDP"} \cap protocols ELSE {}
    ELSE IF IsDatagram(m) /\ MDNSPort \in {m.sport, m.dport} /\ "MDNS" \in protocols THEN {"MDNS"}
    ELSE IF IsDatagram(m) /\ MNDPPort \in {m.sport, m.dport} /\ "MNDP" \in protocols THEN {"MNDP"}
    ELSE {}

\* A frame that arrives whole ends on the queue of the protocol its sender
\* speaks, with exactly the payload the sender wrote: the filter does not stop it,
\* and no tag, LLC trailer, IPv4 option or IPv6 extension header moves it, up to
\* the largest header a length byte can say.  Any other whole frame is dropped; of
\* a SNAP frame whose PID is another protocol's EtherType only the filter knows.
RoutesWhatWasSent ==
    frame # NoFrame /\ routed # Pending /\ Whole(frame) =>
        IF Meant(frame, enabled) = {} THEN routed = NotRouted
        ELSE LET base == 14 + 4 * Len(frame.tags)
                 end == EndOf(frame, base)
             IN  /\ {routed[1]} = Meant(frame, enabled)
                 /\ routed[2] = IF frame.net = "lldp" THEN base ELSE end - frame.size
                 /\ routed[3] = IF frame.net = "lldp" THEN end + frame.pad ELSE end

\* The filter and routeCapture agree.  Every frame that routeCapture would take,
\* cut short or not, passes the filter (other protocols inside SNAP excepted),
\* although the filter's IPv6 path reads ports relative to a register that only
\* its IPv4 path sets; a whole frame that passes is for an enabled protocol,
\* unless it has IPv6 extension headers or an IPv4 header shorter than any is; and
\* no jump of the program is longer than a byte can say.
FilterAgrees ==
    /\ Resolvable(Programs[enabled])
    /\ frame # NoFrame =>
           /\ ~ accepted /\ frame.net # "snap" => routeCapture(enabled, Encode(frame)) = NotRouted
           /\ accepted /\ Whole(frame) /\ ~ (IsIP(frame) /\ (frame.exts # <<>> \/ frame.ihl < 5))
                 => Meant(frame, enabled) # {}
=============================================================================
