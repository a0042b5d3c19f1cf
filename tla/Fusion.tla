------------------------------- MODULE Fusion -------------------------------
(***************************************************************************)
(* The fusion goroutine as a state machine: it takes one decoded message   *)
(* at a time (observeLLDP, observeCDP, observeMNDP, observeMDNS) or one    *)
(* tick of its one-second ticker (tick), and changes the store of          *)
(* FusionBase.  Every step replaces the events of the step before.         *)
(***************************************************************************)
EXTENDS FusionLinks

CONSTANTS
    Scenarios,      \* networks: the messages the capture backends deliver in
                    \* each, and when the model's clock stops (a bound)
    Classify(_)     \* the compiled classifier: a class for a set of facts

ASSUME ObservationAssumption ==
    \A o \in UNION {network.observations : network \in Scenarios} :
        /\ o.proto \in Protocols /\ o.iface \in Ifaces
        /\ o.smac \in MACs \cup {NoMAC} /\ o.claimed \in MACs \cup {NoMAC}
        /\ o.sip \in IPs \cup {NoIP} /\ o.addr \in IPs \cup {NoIP}
        /\ o.ttl \in Nat
        \* link-layer protocols have no source address, mDNS and CDP claim no MAC
        /\ o.proto \in {"LLDP", "CDP"} => o.sip = NoIP
        /\ o.proto \in {"CDP", "MDNS"} => o.claimed = NoMAC
        /\ o.records \in Seq([rec : Records, ttl : Nat, flush : BOOLEAN])

VARIABLES
    scenario,   \* the network the program is in
    fusion,     \* the store
    now,        \* the clock
    view        \* the links a handler that keeps them by LinkKey knows of
vars == <<scenario, fusion, now, view>>

-----------------------------------------------------------------------------
(* The observe functions.                                                  *)

\* Observed MACs, claimed MACs and addresses a message adds to its device.
factsOf(o) ==
    (IF o.smac # NoMAC THEN {<<"observed", o.smac>>} ELSE {})
    \cup (IF o.claimed # NoMAC /\ (o.proto = "LLDP" => o.claimed # o.smac)
          THEN {<<"claimed", o.claimed>>} ELSE {})
    \cup (IF o.proto \in {"MNDP", "MDNS"} /\ o.sip # NoIP THEN {<<"address", o.sip>>} ELSE {})
    \cup (IF o.addr # NoIP THEN {<<"address", o.addr>>} ELSE {})

\* Facts and protocol of the device, its cached records, and its LastSeen.
\* grew: whether mDNS records were added.
updateDevice(s, d, o, at) ==
    LET learned == [s EXCEPT !.devices[d].facts = @ \cup factsOf(o)]
        Touched(dns) == [dns EXCEPT !.s.devices[d].protocols = @ \cup {o.proto},
                                    !.s.devices[d].lastSeen = Later(@, at)]
    IN  Touched(IF o.proto = "MDNS" THEN cacheMessage(learned, d, o.records, at)
                ELSE [s |-> learned, grew |-> FALSE])

\* LLDP always, CDP when it names something, replace the link's remote end.
remoteChanges(l, o) == o.proto \in {"LLDP", "CDP"} /\ o.remote # "" /\ l.remote # o.remote

\* How long the observation keeps a link of the device valid: as announced, and
\* for mDNS as long as the last of the device's records, at least a second.
validity(o, dev, at) ==
    CASE o.proto # "MDNS"       -> o.ttl * Second
      [] dev.dnsExpiry = Never  -> Second
      [] OTHER                  -> Later(Second, dev.dnsExpiry - at)

\* The end of an observe function: the remote end of the link and the class of
\* the device are set, and an event names what is new compared with before, the
\* device as deviceFor found it.  up is the result of upsertLink.
announce(before, grew, up, o, d) ==
    LET l       == up.s.links[up.li]
        class   == Classify(up.s.devices[d].facts)
        learned == factsOf(o) \ before.facts
        changed == (IF \A f \in learned : f[1] # "address" THEN {} ELSE {"addresses"})
                   \cup (IF o.proto \in before.protocols /\ \A f \in learned : f[1] = "address"
                         THEN {} ELSE {"identity"})
                   \cup (IF grew THEN {"services"} ELSE {})
                   \cup (IF up.changed \/ remoteChanges(l, o) THEN {"link"} ELSE {})
                   \cup (IF class # before.class THEN {"classification"} ELSE {})
        isNew   == up.added \/ before.protocols = {}
        event   == Event(IF isNew THEN "Added" ELSE "Changed", l.key, changed)
    IN  [up.s EXCEPT !.links[up.li].remote = IF remoteChanges(l, o) THEN o.remote ELSE @,
                     !.devices[d].class = class,
                     !.events = IF changed # {} \/ isNew THEN Append(@, event) ELSE @]

\* The steps the four observe functions share, in their order: they differ in
\* the facts, the kind of link, its validity and whether there are records.
observing(s, o, at, kind) ==
    LET Linked(before, updated, d) ==
            announce(before, updated.grew,
                     upsertLink(updated.s, o, d, kind, validity(o, updated.s.devices[d], at), at),
                     o, d)
        Known(found) ==
            IF found.idx = 0 THEN found.s
            ELSE Linked(found.s.devices[found.idx],
                        updateDevice(found.s, found.idx, o, at), found.idx)
    IN  Known(deviceFor([s EXCEPT !.events = <<>>], o, at))

observeLLDP(s, o, at) == observing(s, o, at, "Physical")
observeCDP(s, o, at) == observing(s, o, at, "Physical")

\* A refresh request is no observation.
observeMNDP(s, o, at) == observing(s, o, at, "Segment")

observeMDNS(s, o, at) == observing(s, o, at, "Segment")

\* The switch of fusionLoop.
observe(s, o, at) ==
    CASE o.proto = "LLDP" -> observeLLDP(s, o, at)
      [] o.proto = "CDP"  -> observeCDP(s, o, at)
      [] o.proto = "MNDP" -> observeMNDP(s, o, at)
      [] o.proto = "MDNS" -> observeMDNS(s, o, at)

-----------------------------------------------------------------------------
(* tick.                                                                   *)

\* A device that nothing holds any more goes away.
dropUnheld(s, d) ==
    IF s.devices[d].links = <<>> /\ s.devices[d].dns = <<>> THEN dropDevice(s, d) ELSE s

\* Mutant: what the wheel reaches expires, as records do.
fireLinkBlind(s, i, at) == dropUnheld(removeLink(s, i, "Expired"), s.links[i].device)

\* The protocols whose evidence has run out, and a link without them.
expiredBy(l, at) == {p \in Protocols : l.expires[p] # Never /\ l.expires[p] <= at}
dropEvidence(l, expired) ==
    [l EXCEPT !.protocols = @ \ expired,
              !.expires = [p \in Protocols |-> IF p \in expired THEN Never ELSE @[p]]]

\* An entry of linkHeads[cursor] whose round is 0: the protocols whose
\* evidence has run out are dropped; without any left the link expires, and
\* its device with it if nothing else holds it, otherwise the link is
\* scheduled again.
fireLink(s, i, at) ==
    LET l       == s.links[i]
        expired == expiredBy(l, at)
        m       == dropEvidence(l, expired)
        t       == [s EXCEPT !.links[i] = m]
        again   == scheduleLink(t, i, at, earliestExpiry(m.expires))
    IN  CASE m.protocols = {} -> dropUnheld(removeLink(t, i, "Expired"), l.device)
          [] m.protocols # {} /\ expired # {} ->
               [again EXCEPT !.events = Append(@, Event("Changed", l.key, {"link"}))]
          [] OTHER -> again

\* Mutant: the services of the device are not rebuilt.
settleDNSStale(s, d) ==
    IF s.devices[d].used /\ s.devices[d].links = <<>> /\ s.devices[d].dns = <<>>
    THEN dropDevice(s, d) ELSE s

\* After a device lost records: its services are rebuilt, and it is announced
\* on its first link, or dropped if nothing holds it.
settleDNS(s, d) ==
    LET t     == rebuildServices(s, d)
        links == s.devices[d].links
    IN  CASE ~ s.devices[d].used -> s
          [] s.devices[d].used /\ links # <<>> ->
               [t EXCEPT !.events = Append(@, Event("Changed", s.links[Head(links)].key, {"services"}))]
          [] s.devices[d].used /\ links = <<>> /\ s.devices[d].dns = <<>> -> dropDevice(t, d)
          [] OTHER -> t

\* The cursor moves on by one slot: every entry is one tick nearer.
turnSlab(slab) == [i \in DOMAIN slab |-> [slab[i] EXCEPT !.due = Later(@ - 1, 0)]]
turnWheel(s) == [s EXCEPT !.links = turnSlab(@), !.dns = turnSlab(@)]

\* The links the wheel has reached.
fireLinks(s, q, at) ==
    FoldLeft(LAMBDA t, i : IF t.links[i].due = 0 THEN fireLink(t, i, at) ELSE t, s, q)

\* A record is removed whenever the wheel reaches it; owners lists the devices
\* that lost one.
fireDNS(acc, i) ==
    LET d == acc.s.dns[i].device
    IN  IF acc.s.dns[i].due # 0 THEN acc
        ELSE [s |-> removeDNS(acc.s, i),
              owners |-> IF Contains(acc.owners, d) THEN acc.owners ELSE Append(acc.owners, d)]
fireRecords(s, q) == FoldLeft(LAMBDA acc, i : fireDNS(acc, i), [s |-> s, owners |-> <<>>], q)

settleRecords(acc) == FoldLeft(LAMBDA t, d : settleDNS(t, d), acc.s, acc.owners)

\* Links first, then records.
tick(s, at) ==
    LET links == fireLinks(turnWheel([s EXCEPT !.events = <<>>]), s.linkWheel, at)
    IN  settleRecords(fireRecords(links, s.dnsWheel))

-----------------------------------------------------------------------------
Init ==
    /\ scenario \in Scenarios
    /\ fusion = newFusionState
    /\ now = Second
    /\ view = {}

\* What a handler that keeps a table by LinkKey holds after these events.
viewAfter(events) ==
    FoldLeft(LAMBDA v, e : IF e.kind \in {"Expired", "Evicted"} THEN v \ {e.key} ELSE v \cup {e.key},
             view, events)

\* A decoded message reaches the fusion goroutine.
Observe(o) ==
    /\ fusion' = observe(fusion, o, now)
    /\ view' = viewAfter(fusion'.events)
    /\ UNCHANGED <<scenario, now>>

\* Time passes; the ticker fires on every full second.
Advance ==
    /\ now < scenario.until /\ (now + 1) % Second # 0
    /\ now' = now + 1
    /\ fusion' = [fusion EXCEPT !.events = <<>>]
    /\ UNCHANGED <<scenario, view>>

Tick ==
    /\ now < scenario.until /\ (now + 1) % Second = 0
    /\ now' = now + 1
    /\ fusion' = tick(fusion, now + 1)
    /\ view' = viewAfter(fusion'.events)
    /\ UNCHANGED scenario

Next == (\E o \in scenario.observations : Observe(o)) \/ Advance \/ Tick

Spec == Init /\ [][Next]_vars

-----------------------------------------------------------------------------
(* Properties.                                                             *)

UsedDevices == {d \in DeviceSlots : fusion.devices[d].used}
UsedLinks == {i \in LinkSlots : fusion.links[i].used}
UsedDNS == {i \in DNSSlots : fusion.dns[i].used}

\* The store is well typed, and every link and record in use is on the wheel.
TypeOK ==
    /\ now \in Second..scenario.until
    /\ view \subseteq LinkKeys
    /\ \A d \in UsedDevices :
          LET e == fusion.devices[d] IN
          /\ e.key \in DeviceKeys /\ e.facts \subseteq Facts /\ e.protocols \subseteq Protocols
          /\ e.services \subseteq Records /\ e.lastSeen \in Second..scenario.until
    /\ \A i \in UsedLinks :
          LET l == fusion.links[i] IN
          /\ l.key \in LinkKeys /\ l.kind \in {"Physical", "Segment"} /\ l.due \in Nat \ {0}
    /\ \A i \in UsedDNS : fusion.dns[i].rec \in Records /\ fusion.dns[i].due \in Nat \ {0}
    /\ ToSet(fusion.linkWheel) = UsedLinks /\ ToSet(fusion.dnsWheel) = UsedDNS
    /\ \A i \in DOMAIN fusion.events :
          fusion.events[i].kind \in EventKinds /\ fusion.events[i].changed \subseteq Fields

FreeList(free, used, slots) ==
    /\ ToSet(free) = slots \ used
    /\ Len(free) = Cardinality(ToSet(free))

\* Through allocation, eviction, merging and expiry no slab entry is leaked
\* and none is free twice: each entry is in use or on its free list, once.
SlabsPartitioned ==
    /\ FreeList(fusion.freeDevices, UsedDevices, DeviceSlots)
    /\ FreeList(fusion.freeLinks, UsedLinks, LinkSlots)
    /\ FreeList(fusion.freeDNS, UsedDNS, DNSSlots)

Owned(q, slab, used, d) ==
    /\ ToSet(q) = {i \in used : slab[i].device = d}
    /\ Len(q) = Cardinality(ToSet(q))

\* The lists device.links and device.dns and the back pointers of links and
\* records agree, and a link carries the key of the device that owns it, also
\* after promotion and merging rewrote keys and moved entries.
OwnershipAgrees ==
    /\ \A d \in UsedDevices : /\ Owned(fusion.devices[d].links, fusion.links, UsedLinks, d)
                              /\ Owned(fusion.devices[d].dns, fusion.dns, UsedDNS, d)
    /\ \A i \in UsedDNS : fusion.dns[i].device \in UsedDevices
    /\ \A i \in UsedLinks :
          /\ fusion.links[i].device \in UsedDevices
          /\ fusion.links[i].key.device = fusion.devices[fusion.links[i].device].key

\* deviceByKey finds every device in use under its current key, and nothing
\* else; linkByKey and dnsByKey never lead to a freed entry or to one that has
\* another key.
IndexesSound ==
    /\ DOMAIN fusion.deviceByKey = {fusion.devices[d].key : d \in UsedDevices}
    /\ \A d \in UsedDevices : fusion.deviceByKey[fusion.devices[d].key] = d
    /\ \A k \in DOMAIN fusion.linkByKey :
          fusion.linkByKey[k] \in UsedLinks /\ fusion.links[fusion.linkByKey[k]].key = k
    /\ \A k \in DOMAIN fusion.dnsByKey :
          fusion.dnsByKey[k] \in UsedDNS /\ DNSKey(fusion, fusion.dnsByKey[k]) = k

\* linkByKey finds every link in use: a refresh of a link always reaches it.
LinkIndexComplete ==
    \A i \in UsedLinks : Lookup(fusion.linkByKey, fusion.links[i].key) = i

\* The protocols a link claims as provenance are those whose evidence has an
\* expiry pending; no link outlives its last evidence in the store.
EvidenceLive ==
    \A i \in UsedLinks :
        LET l == fusion.links[i] IN
        /\ l.protocols # {}
        /\ l.protocols = {p \in Protocols : l.expires[p] # Never}
        /\ l.protocols \subseteq fusion.devices[l.device].protocols

\* The last tick of the ticker.
LastTick == now - (now % Second)

\* A link whose last evidence has run out is gone at the next tick, however
\* often it was refreshed, by whichever protocols, since it was scheduled.
Timely ==
    \A i \in UsedLinks : \E p \in Protocols : fusion.links[i].expires[p] > LastTick

\* A handler that keeps a table by LinkKey holds exactly the links in use.
ViewAgrees == view = {fusion.links[i].key : i \in UsedLinks}

\* An expired record is gone at the next tick, through refresh, goodbye, rescue
\* and cache flush.
DNSTimely == \A i \in UsedDNS : fusion.dns[i].expiresAt > LastTick

\* A device announces the services of exactly the records it has, as long as
\* no record has to be evicted.
ServicesCurrent ==
    \A d \in UsedDevices :
        fusion.devices[d].services = {fusion.dns[i].rec : i \in ToSet(fusion.devices[d].dns)}

\* What is known of the devices together is never lost by an observation that
\* evicts no device: promotion and merging keep every MAC and address.
FactsKept ==
    [][ (now' = now /\ fusion.freeDevices # <<>>) =>
          UNION {fusion.devices[d].facts : d \in DeviceSlots}
            \subseteq UNION {fusion'.devices[d].facts : d \in DeviceSlots} ]_vars

\* An Expired event is emitted only for a link none of whose evidence is valid
\* any more, whatever the wheel entry was scheduled for.
ExpiredIsExpired ==
    [][ \A i \in UsedLinks :
          (\E e \in ToSet(fusion'.events) : e.kind = "Expired" /\ e.key = fusion.links[i].key) =>
              \A p \in Protocols : fusion.links[i].expires[p] <= now' ]_vars

\* Records leave the cache by eviction, by merging, or less than a second
\* before their expiry at the earliest: a refreshed or rescued record is not
\* taken by the wheel entry of its earlier expiry.
DNSAtMostASecondEarly ==
    [][ now' # now =>
          \A i \in UsedDNS : ~ fusion'.dns[i].used => fusion.dns[i].expiresAt < now' + Second ]_vars

-----------------------------------------------------------------------------
(* A statement of the tests.                                               *)

\* TestMNDPIPv4AndIPv6ShareInterfaceLink: a host that answers over IPv4 and
\* IPv6 on one interface has one link there.
OneLinkPerKey ==
    \A i, j \in UsedLinks : fusion.links[i].key = fusion.links[j].key => i = j
=============================================================================
