---------------------------- MODULE FusionLinks -----------------------------
(***************************************************************************)
(* Device identity and links in fusion.go: deviceFor and what it calls     *)
(* (allocation, promotion, merging), upsertLink and what it calls, and     *)
(* removal.                                                                *)
(*                                                                         *)
(* An observation o is a decoded message with its capture metadata:        *)
(*   proto, iface   protocol, receiving interface                          *)
(*   smac, sip      source MAC and source address (NoMAC, NoIP if unknown) *)
(*   claimed        the MAC the payload claims (LLDP chassis id, MNDP MAC) *)
(*   addr           the first address in the payload                       *)
(*   remote         the chassis and port the payload names (LLDP and CDP)  *)
(*   ttl            seconds of validity (LLDP, CDP; for MNDP the configured*)
(*                  idle time; mDNS takes it from the records)             *)
(*   records        the DNS records of an mDNS response                    *)
(***************************************************************************)
EXTENDS FusionDNS

\* Mutants: no event; every link of the device leaves the index.
removeLinkSilent(s, i, kind) ==
    [s EXCEPT !.linkWheel = RemoveFirst(@, i), !.linkByKey = Delete(@, s.links[i].key),
              !.devices[s.links[i].device].links = SwapRemove(@, i),
              !.links[i] = NoLink, !.freeLinks = Append(@, i)]
removeLinkAllKeys(s, i, kind) ==
    [removeLinkSilent(s, i, kind) EXCEPT
        !.linkByKey = RestrictDomain(@, LAMBDA k : k.device # s.links[i].key.device)]

removeLink(s, i, kind) ==
    LET l == s.links[i]
    IN  [s EXCEPT !.events = Append(@, Event(kind, l.key, {"link"})),
                  !.linkWheel = RemoveFirst(@, i),
                  !.linkByKey = Delete(@, l.key),
                  !.devices[l.device].links = SwapRemove(@, i),
                  !.links[i] = NoLink,
                  !.freeLinks = Append(@, i)]

\* Mutant: the slab entry is given back twice.
dropDeviceTwice(s, d) ==
    [s EXCEPT !.deviceByKey = Delete(@, s.devices[d].key), !.devices[d] = NoDevice,
              !.freeDevices = @ \o <<d, d>>]

dropDevice(s, d) ==
    [s EXCEPT !.deviceByKey = Delete(@, s.devices[d].key),
              !.devices[d] = NoDevice,
              !.freeDevices = Append(@, d)]

\* removeDevice takes links and records from the end of the device's lists.
removeLinks(s, q, kind) == FoldLeft(LAMBDA t, i : removeLink(t, i, kind), s, q)
removeRecords(s, q) == FoldLeft(LAMBDA t, i : removeDNS(t, i), s, q)
removeDevice(s, d, kind) ==
    LET noLinks == removeLinks(s, Reverse(s.devices[d].links), kind)
    IN  dropDevice(removeRecords(noLinks, Reverse(s.devices[d].dns)), d)

\* A free entry of the slab, else the least recently seen one is evicted.
takeDevice(s) == [s |-> [s EXCEPT !.freeDevices = Front(@)], idx |-> Last(s.freeDevices)]
allocDevice(s) ==
    LET oldest == Oldest(s.devices, [d \in DeviceSlots |-> s.devices[d].lastSeen])
    IN  takeDevice(IF s.freeDevices # <<>> THEN s ELSE removeDevice(s, oldest, "Evicted"))

takeLink(s) == [s |-> [s EXCEPT !.freeLinks = Front(@)], idx |-> Last(s.freeLinks)]
allocLink(s) ==
    LET oldest == Oldest(s.links, [i \in LinkSlots |-> s.links[i].lastSeen])
    IN  takeLink(IF s.freeLinks # <<>> THEN s ELSE removeLink(s, oldest, "Evicted"))

-----------------------------------------------------------------------------
(* Identity.                                                               *)

\* Mutant: the old index entry stays.
rekeyLinkKeepsOld(s, i, key) ==
    [s EXCEPT !.linkByKey = Store(@, key, i), !.links[i].key = key]

\* Link i is indexed under key, and no longer under the key it had.
rekeyLink(s, i, key) ==
    [s EXCEPT !.linkByKey = Store(Delete(@, s.links[i].key), key, i),
              !.links[i].key = key]

\* An address-keyed device becomes MAC-keyed: its key and the key of every
\* link change in place; no event is emitted.
rekeyLinks(s, q, key) ==
    FoldLeft(LAMBDA t, i : rekeyLink(t, i, [t.links[i].key EXCEPT !.device = key]), s, q)
promoteDevice(s, d, key) ==
    rekeyLinks([s EXCEPT !.deviceByKey = Store(Delete(@, s.devices[d].key), key, d),
                         !.devices[d].key = key],
               s.devices[d].links, key)

\* Mutant: the protocols are merged, their expiries are not.
mergeLinksNoExpiry(s, dst, src) ==
    removeLink([s EXCEPT !.links[dst].protocols = @ \cup s.links[src].protocols], src, "Changed")

\* mergeLinks: the evidence of src goes to dst, and src is removed.  src
\* carries the key of dst by now, so removeLink deletes dst's index entry.
mergeLinks(s, dst, src) ==
    LET a == s.links[dst]
        b == s.links[src]
        m == [a EXCEPT !.protocols = @ \cup b.protocols,
                       !.kind = IF b.kind = "Physical" THEN "Physical" ELSE @,
                       !.expires = [p \in Protocols |-> Later(@[p], b.expires[p])],
                       !.lastSeen = Later(@, b.lastSeen)]
        t == scheduleLink([s EXCEPT !.links[dst] = m], dst, m.lastSeen, earliestExpiry(m.expires))
    IN  removeLink(t, src, "Changed")

\* Mutant: the link keeps its owner.
moveLinkKeepsOwner(s, i, dst) ==
    LET key == [s.links[i].key EXCEPT !.device = s.devices[dst].key]
    IN  [rekeyLink(s, i, key) EXCEPT !.devices[dst].links = Append(@, i)]

\* One turn of mergeDevices over the links of the device that goes away.
moveLink(s, i, dst) ==
    LET key      == [s.links[i].key EXCEPT !.device = s.devices[dst].key]
        t        == [s EXCEPT !.linkByKey = Delete(@, s.links[i].key),
                              !.links[i].key = key, !.links[i].device = dst]
        existing == Lookup(t.linkByKey, key)
    IN  IF existing # 0 THEN mergeLinks(t, existing, i)
        ELSE [t EXCEPT !.linkByKey = Store(@, key, i), !.devices[dst].links = Append(@, i)]

\* The same over its DNS records; a record the other device also has is dropped.
moveDNS(s, i, dst) ==
    LET rec == s.dns[i].rec
        t   == [s EXCEPT !.dnsByKey = Delete(@, DNSKey(s, i)), !.dns[i].device = dst]
    IN  IF <<dst, rec>> \in DOMAIN t.dnsByKey THEN removeDNS(t, i)
        ELSE [t EXCEPT !.dnsByKey = Store(@, <<dst, rec>>, i),
                       !.devices[dst].dns = Append(@, i),
                       !.devices[dst].dnsExpiry = Later(@, s.dns[i].expiresAt)]

moveLinks(s, q, dst) == FoldLeft(LAMBDA t, i : moveLink(t, i, dst), s, q)
moveRecords(s, q, dst) == FoldLeft(LAMBDA t, i : moveDNS(t, i, dst), s, q)

\* Mutant: what was known of the other device is forgotten.
mergeDevicesForgets(s, dst, src) ==
    LET a       == s.devices[src]
        merged  == [s EXCEPT !.devices[src].links = <<>>, !.devices[src].dns = <<>>]
        moved   == moveRecords(moveLinks(merged, Reverse(a.links), dst), Reverse(a.dns), dst)
    IN  rebuildServices(dropDevice(moved, src), dst)

mergeDevices(s, dst, src) ==
    LET a       == s.devices[src]
        merged  == [s EXCEPT !.devices[dst].facts = @ \cup a.facts,
                             !.devices[dst].protocols = @ \cup a.protocols,
                             !.devices[dst].lastSeen = Later(@, a.lastSeen),
                             !.devices[src].links = <<>>,
                             !.devices[src].dns = <<>>]
        moved   == moveRecords(moveLinks(merged, Reverse(a.links), dst), Reverse(a.dns), dst)
    IN  rebuildServices(dropDevice(moved, src), dst)

\* The key of the device an observation speaks of: the source MAC, failing
\* that the claimed one, failing that the source or the payload address.
deviceKey(o) ==
    LET mac == IF o.smac # NoMAC THEN o.smac ELSE o.claimed
        ip  == IF o.sip # NoIP THEN o.sip ELSE o.addr
    IN  CASE mac # NoMAC -> MACKey(mac)
          [] mac = NoMAC /\ ip # NoIP -> IPKey(ip, o.iface)
          [] OTHER -> NoKey

\* The device that was known by the source address of an observation which
\* also says the device's MAC; 0 if there is none.
addressDevice(s, o) ==
    IF deviceKey(o)[1] = "MAC" /\ o.sip # NoIP
    THEN Lookup(s.deviceByKey, IPKey(o.sip, o.iface)) ELSE 0

\* The new device a.idx of a key.
insertDevice(a, key, at) ==
    [s |-> [a.s EXCEPT !.devices[a.idx] = [NoDevice EXCEPT !.used = TRUE, !.key = key,
                                                           !.lastSeen = at],
                       !.deviceByKey = Store(@, key, a.idx)],
     idx |-> a.idx]

deviceFor(s, o, at) ==
    LET key   == deviceKey(o)
        known == Lookup(s.deviceByKey, key)
        byIP  == addressDevice(s, o)
    IN  CASE key = NoKey -> [s |-> s, idx |-> 0]
          [] key # NoKey /\ byIP # 0 /\ known \notin {0, byIP} ->
               [s |-> mergeDevices(s, known, byIP), idx |-> known]
          [] key # NoKey /\ byIP # 0 /\ known \in {0, byIP} ->
               [s |-> promoteDevice(s, byIP, key), idx |-> byIP]
          [] key # NoKey /\ byIP = 0 /\ known # 0 -> [s |-> s, idx |-> known]
          [] OTHER -> insertDevice(allocDevice(s), key, at)

-----------------------------------------------------------------------------
(* Links.                                                                  *)

\* refreshLink and its result.  A TTL of 0 is one second.
refreshLink(s, i, o, kind, ttl, at) ==
    LET l       == s.links[i]
        units   == IF ttl <= 0 THEN Second ELSE ttl
        expires == [l.expires EXCEPT ![o.proto] = at + units]
        m       == [l EXCEPT !.kind = IF kind = "Physical" THEN kind ELSE @,
                             !.protocols = @ \cup {o.proto},
                             !.lastSeen = Later(@, at),
                             !.expires = expires]
    IN  scheduleLink([s EXCEPT !.links[i] = m], i, at, earliestExpiry(expires))

refreshChanges(l, o, kind) ==
    \/ kind = "Physical" /\ l.kind # "Physical"
    \/ o.proto \notin l.protocols

\* The first link of device d on the interface of o that is of kind k; 0 if none.
linkOfKind(s, d, o, k) ==
    LET q == s.devices[d].links
        p == SelectInSeq(q, LAMBDA i : s.links[i].key.iface = o.iface /\ s.links[i].kind = k)
    IN  IF p = 0 THEN 0 ELSE q[p]

\* The new link a.idx of device d: it is listed and indexed, then refreshed.
placeLink(a, d, key, kind, at) ==
    [a.s EXCEPT !.links[a.idx] = [NoLink EXCEPT !.used = TRUE, !.key = key, !.kind = kind,
                                                !.device = d, !.lastSeen = at],
                !.linkByKey = Store(@, key, a.idx),
                !.devices[d].links = Append(@, a.idx)]
insertLink(a, o, d, key, kind, ttl, at) ==
    [s |-> refreshLink(placeLink(a, d, key, kind, at), a.idx, o, kind, ttl, at),
     li |-> a.idx, changed |-> TRUE, added |-> TRUE]

\* upsertLink: refresh the link of this key; failing that turn a segment link
\* of the interface physical, or let a segment observation refresh a physical
\* link; failing that allocate one.  The result names the link, and says
\* whether it changed and whether it is new.
upsertLink(s, o, d, kind, ttl, at) ==
    LET key      == [iface |-> o.iface, smac |-> o.smac, device |-> s.devices[d].key]
        indexed  == Lookup(s.linkByKey, key)
        same     == IF indexed # 0 /\ s.links[indexed].used THEN indexed ELSE 0
        segment  == linkOfKind(s, d, o, "Segment")
        physical == linkOfKind(s, d, o, "Physical")
        Refreshed(i) == [s |-> refreshLink(s, i, o, kind, ttl, at), li |-> i,
                         changed |-> refreshChanges(s.links[i], o, kind), added |-> FALSE]
    IN  CASE same # 0 -> Refreshed(same)
          [] same = 0 /\ kind = "Physical" /\ segment # 0 ->
               [s |-> refreshLink(rekeyLink(s, segment, key), segment, o, kind, ttl, at),
                li |-> segment, changed |-> TRUE, added |-> FALSE]
          [] same = 0 /\ kind = "Segment" /\ physical # 0 -> Refreshed(physical)
          [] OTHER -> insertLink(allocLink(s), o, d, key, kind, ttl, at)
=============================================================================
