---------------------------- MODULE FusionProofs ----------------------------
(***************************************************************************)
(* The link a message is about, and the two steps of the event loop: a     *)
(* message (observe) and a tick. Every state of the store satisfies the    *)
(* invariant, whatever the networks, the limits of the slabs and the       *)
(* number of messages.                                                     *)
(***************************************************************************)
EXTENDS FusionDeviceProofs

-----------------------------------------------------------------------------
(* The link of an observation.                                             *)

\* t is s with a new link i of device d, which has no evidence and is on no wheel.
LinkPlaced(s, t, i, d) ==
    /\ Linked(t, {}, {}, {i}, {i}) /\ i \in UL(t) /\ Backed(t, i) /\ t.links[i].device = d
    /\ SameDevices(s, t) /\ SameRecords(s, t) /\ SameProtocols(s, t)

\* upsertLink takes a free entry and gives it to the device.
LEMMA PlaceLinkKeeps ==
    ASSUME NEW s, Linked(s, {}, {}, {}, {}), s.freeLinks # <<>>, NEW d \in UD(s),
           NEW key \in LinkKeys, key.device = s.devices[d].key, NEW kind, NEW at \in Nat,
           NEW i, i = Last(s.freeLinks), NEW t, t = placeLink(takeLink(s), d, key, kind, at)
    PROVE  LinkPlaced(s, t, i, d)
  <1> USE DEF Linked
  <1>1. i \in LinkSlots \ UL(s) /\ Lists(Front(s.freeLinks), (LinkSlots \ UL(s)) \ {i})
    BY ListsLast DEF LinksInv
  <1>2. d \in DeviceSlots
    BY DEF UD
  <1>3. PICK a, v : a = takeLink(s) /\ v = a.s
    OBVIOUS
  <1>4. a.idx = i /\ v = [s EXCEPT !.freeLinks = Front(@)]
    BY <1>3 DEF takeLink
  <1>5. /\ DOMAIN v = DOMAIN s /\ v.freeLinks = Front(s.freeLinks)
        /\ v.links = s.links /\ v.linkByKey = s.linkByKey /\ v.linkWheel = s.linkWheel
        /\ v.deviceByKey = s.deviceByKey /\ v.freeDevices = s.freeDevices
        /\ v.devices = s.devices /\ v.dns = s.dns /\ v.dnsByKey = s.dnsByKey
        /\ v.freeDNS = s.freeDNS /\ v.dnsWheel = s.dnsWheel
    BY <1>4 DEF Shape
  <1>6. PICK e : e = [NoLink EXCEPT !.used = TRUE, !.key = key, !.kind = kind,
                                    !.device = d, !.lastSeen = at]
    OBVIOUS
  <1>7. /\ DOMAIN e = {"used", "key", "kind", "device", "protocols", "expires", "remote", "lastSeen", "due"}
        /\ e.key = key /\ e.device = d /\ e.lastSeen = at
        /\ e.protocols = {} /\ e.expires = [p \in Protocols |-> Never]
    BY <1>6 DEF NoLink
  <1>8. e.used = TRUE
    BY <1>6 DEF NoLink
  <1>9. e.expires \in [Protocols -> Nat] /\ {p \in Protocols : e.expires[p] # Never} = {}
    BY <1>7 DEF Never
  <1>10. t = [v EXCEPT !.links[i] = e, !.linkByKey = Store(@, key, i),
                       !.devices[d].links = Append(@, i)]
    BY <1>3, <1>4, <1>6 DEF placeLink
  <1>11. t.links = [s.links EXCEPT ![i] = e]
    BY <1>5, <1>10 DEF Shape
  <1>12. t.devices = [s.devices EXCEPT ![d].links = Append(@, i)]
    BY <1>5, <1>10 DEF Shape
  <1>13. t.linkByKey = Store(s.linkByKey, key, i)
    BY <1>5, <1>10 DEF Shape
  <1>14. /\ DOMAIN t = DOMAIN s /\ t.freeLinks = Front(s.freeLinks)
         /\ t.deviceByKey = s.deviceByKey /\ t.freeDevices = s.freeDevices
         /\ t.dns = s.dns /\ t.dnsByKey = s.dnsByKey
         /\ t.freeDNS = s.freeDNS /\ t.dnsWheel = s.dnsWheel /\ t.linkWheel = s.linkWheel
    BY <1>5, <1>10 DEF Shape
  <1>15. /\ t.links[i] = e /\ DOMAIN t.links = DOMAIN s.links
         /\ \A j \in LinkSlots : j # i => t.links[j] = s.links[j]
    BY <1>1, <1>11 DEF Shape
  <1>16. \A x \in DeviceSlots : /\ t.devices[x].used = s.devices[x].used
                                /\ t.devices[x].key = s.devices[x].key
                                /\ t.devices[x].protocols = s.devices[x].protocols
                                /\ t.devices[x].dns = s.devices[x].dns
                                /\ t.devices[x].dnsExpiry = s.devices[x].dnsExpiry
                                /\ t.devices[x].facts = s.devices[x].facts
                                /\ t.devices[x].lastSeen = s.devices[x].lastSeen
                                /\ DOMAIN t.devices[x] = DOMAIN s.devices[x]
    BY <1>2, <1>12 DEF Shape
  <1>17. /\ t.devices[d].links = Append(s.devices[d].links, i)
         /\ \A x \in DeviceSlots : x # d => t.devices[x].links = s.devices[x].links
         /\ DOMAIN t.devices = DOMAIN s.devices
    BY <1>2, <1>12 DEF Shape
  <1>18. Shape(t)
    <2>1. \A j \in LinkSlots : DOMAIN t.links[j] =
              {"used", "key", "kind", "device", "protocols", "expires", "remote", "lastSeen", "due"}
      BY <1>7, <1>15 DEF Shape
    <2>2. \A x \in DeviceSlots : DOMAIN t.devices[x] = DOMAIN s.devices[x]
      BY <1>16
    <2> QED
      BY <1>14, <1>15, <1>17, <2>1, <2>2 DEF Shape
  <1>19. UD(t) = UD(s) /\ UL(t) = UL(s) \cup {i}
    <2>1. t.links[i].used
      BY <1>8, <1>15
    <2> QED
      BY <1>1, <1>15, <1>16, <2>1 DEF UD, UL
  <1>20. SameDevices(s, t) /\ SameRecords(s, t) /\ SameProtocols(s, t)
    BY <1>14, <1>16 DEF SameDevices, SameRecords, SameProtocols
  <1>21. \A j \in UL(s) : t.links[j] = s.links[j]
    BY <1>1, <1>15 DEF UL
  <1>22. ASSUME NEW x \in UD(t) PROVE Lists(t.devices[x].links, LinksOf(t, x, {}))
    <2>1. x \in DeviceSlots /\ Lists(s.devices[x].links, LinksOf(s, x, {}))
      BY <1>19 DEF LinksInv, UD
    <2>2. CASE x = d
      <3>1. LinksOf(t, x, {}) = LinksOf(s, x, {}) \cup {i} /\ i \notin LinksOf(s, x, {})
        BY <1>1, <1>7, <1>15, <1>19, <1>21, <2>2 DEF LinksOf
      <3>2. Lists(Append(s.devices[x].links, i), LinksOf(s, x, {}) \cup {i})
        BY <2>1, <3>1, ListsAppend
      <3> QED
        BY <1>17, <2>2, <3>1, <3>2
    <2>3. CASE x # d
      <3>1. LinksOf(t, x, {}) = LinksOf(s, x, {})
        BY <1>1, <1>7, <1>15, <1>19, <1>21, <2>3 DEF LinksOf
      <3> QED
        BY <1>17, <2>1, <2>3, <3>1
    <2> QED
      BY <2>2, <2>3
  <1>23. Lists(t.freeLinks, LinkSlots \ UL(t))
    <2>1. (LinkSlots \ UL(s)) \ {i} = LinkSlots \ UL(t)
      BY <1>1, <1>19
    <2> QED
      BY <1>1, <1>14, <2>1
  <1>24. LinkWheelInv(t, {i})
    <2>1. UL(t) \ {i} = UL(s) \ {}
      BY <1>1, <1>19
    <2> QED
      BY <1>14, <2>1 DEF LinkWheelInv
  <1>25. ASSUME NEW k \in DOMAIN t.linkByKey
         PROVE  t.linkByKey[k] \in UL(t) /\ t.links[t.linkByKey[k]].key = k
    <2>1. CASE k = key
      <3>1. t.linkByKey[k] = i
        BY <1>13, <2>1 DEF Store
      <3> QED
        BY <1>7, <1>15, <1>19, <2>1, <3>1
    <2>2. CASE k # key
      <3>1. k \in DOMAIN s.linkByKey /\ t.linkByKey[k] = s.linkByKey[k]
        BY <1>13, <2>2 DEF Store
      <3>2. s.linkByKey[k] \in UL(s) /\ s.links[s.linkByKey[k]].key = k
        BY <3>1 DEF LinksInv
      <3> QED
        BY <1>19, <1>21, <3>1, <3>2
    <2> QED
      BY <2>1, <2>2
  <1>26. \A j \in LinkSlots : /\ t.links[j].used \in BOOLEAN
                              /\ t.links[j].expires \in [Protocols -> Nat]
                              /\ t.links[j].lastSeen \in Nat
    <2>1. e.used \in BOOLEAN
      BY <1>8
    <2> QED
      BY <1>7, <1>9, <1>15, <2>1 DEF LinksInv
  <1>27. \A j \in UL(t) : t.links[j].device \in UD(t) /\ t.links[j].key \in LinkKeys
    BY <1>7, <1>15, <1>19, <1>21 DEF LinksInv
  <1>28. ASSUME NEW j \in UL(t) \ {} PROVE t.links[j].key.device = t.devices[t.links[j].device].key
    <2>1. CASE j = i
      BY <1>2, <1>7, <1>15, <1>16, <2>1
    <2>2. CASE j # i
      <3>1. j \in UL(s) /\ t.links[j] = s.links[j]
        BY <1>19, <1>21, <2>2
      <3>2. s.links[j].key.device = s.devices[s.links[j].device].key /\ s.links[j].device \in DeviceSlots
        BY <3>1 DEF LinksInv, UD
      <3> QED
        BY <1>16, <3>1, <3>2
    <2> QED
      BY <2>1, <2>2
  <1>29. LinksInv(t, {}, {})
    BY <1>22, <1>23, <1>25, <1>26, <1>27, <1>28 DEF LinksInv
  <1>30. EvidenceInv(t, {i})
    <2> SUFFICES ASSUME NEW j \in UL(t) \ {i} PROVE Evident(t, j)
      BY DEF EvidenceInv
    <2>1. j \in UL(s) /\ t.links[j] = s.links[j]
      BY <1>19, <1>21
    <2>2. Evident(s, j) /\ s.links[j].device \in DeviceSlots
      BY <2>1 DEF EvidenceInv, LinksInv, UD
    <2> QED
      BY <1>16, <2>1, <2>2 DEF Evident
  <1>31. Backed(t, i)
    BY <1>7, <1>9, <1>15 DEF Backed
  <1> QED
    BY <1>7, <1>15, <1>18, <1>19, <1>20, <1>24, <1>29, <1>30, <1>31 DEF LinkPlaced

\* The new link, once refreshed, is like any other.
LEMMA RefreshPlacedKeeps ==
    ASSUME NEW s, StoreInv(s), NEW v, NEW i, NEW d \in UD(s), LinkPlaced(s, v, i, d),
           NEW o, o.proto \in Protocols, o.proto \in s.devices[d].protocols,
           NEW kind, NEW ttl \in Int, NEW at \in Nat \ {0},
           NEW t, t = refreshLink(v, i, o, kind, ttl, at)
    PROVE  StoreInv(t) /\ UD(t) = UD(s) /\ i \in UL(t) /\ t.dns = s.dns /\ Kept(s, t)
  <1>1. PICK E, P : E = {i} /\ P = {}
    OBVIOUS
  <1>2. Linked(v, P, P, E, E) /\ i \in UL(v) /\ Backed(v, i) /\ SameDevices(s, v) /\ SameRecords(s, v)
    BY <1>1 DEF LinkPlaced
  <1>3. o.proto \in v.devices[v.links[i].device].protocols
    BY DEF LinkPlaced, SameProtocols, UD
  <1>4. SameDevices(v, t) /\ SameRecords(v, t)
    BY <1>2, <1>3, RefreshLinkKeeps
  <1>5. UL(t) = UL(v)
    <2>1. TouchedLinks(v, t)
      BY <1>2, <1>3, RefreshLinkKeeps
    <2> QED
      BY <2>1 DEF TouchedLinks, UL
  <1>6. Linked(t, P, P, E \ {i}, E \ {i})
    BY <1>2, <1>3, RefreshLinkKeeps
  <1>7. E \ {i} = {}
    BY <1>1
  <1>8. SameDevices(s, t) /\ SameRecords(s, t) /\ Linked(t, {}, {}, {}, {})
    <2>1. SameDevices(s, t)
      BY <1>2, <1>4, SameDevicesThen
    <2>2. Linked(t, {}, {}, {}, {})
      BY <1>1, <1>6, <1>7
    <2> QED
      BY <1>2, <1>4, <2>1, <2>2 DEF SameRecords
  <1>9. Kept(s, t)
    BY <1>8, KeptDevices
  <1> QED
    BY <1>2, <1>5, <1>8, <1>9, LinkStepKeeps DEF SameRecords

\* upsertLink refreshes a link, or inserts one, evicting a link from a full
\* slab, and returns a link in use.
LEMMA UpsertLinkKeeps ==
    ASSUME NEW s, StoreInv(s), NEW d \in UD(s), NEW o, Heard(o), o.proto \in s.devices[d].protocols,
           NEW kind, NEW ttl \in Int, NEW at \in Nat \ {0},
           NEW up, up = upsertLink(s, o, d, kind, ttl, at)
    PROVE  /\ StoreInv(up.s) /\ UD(up.s) = UD(s) /\ up.li \in UL(up.s) /\ up.s.dns = s.dns
           /\ Kept(s, up.s)
  <1>1. PICK key : key = [iface |-> o.iface, smac |-> o.smac, device |-> s.devices[d].key]
    OBVIOUS
  <1>2. o.proto \in Protocols /\ o.iface \in Ifaces /\ o.smac \in MACs \cup {NoMAC}
    BY ObservationAssumption DEF Heard
  <1>3. key \in LinkKeys /\ key.device = s.devices[d].key
    BY <1>1, <1>2 DEF LinkKeys, StoreInv, DevicesInv
  <1>4. PICK indexed, same, segment, physical :
            /\ indexed = Lookup(s.linkByKey, key)
            /\ same = IF indexed # 0 /\ s.links[indexed].used THEN indexed ELSE 0
            /\ segment = linkOfKind(s, d, o, "Segment")
            /\ physical = linkOfKind(s, d, o, "Physical")
    OBVIOUS
  <1>5. same # 0 => same \in UL(s) /\ s.links[same].device = d
    <2> SUFFICES ASSUME same # 0 PROVE same \in UL(s) /\ s.links[same].device = d
      OBVIOUS
    <2>1. key \in DOMAIN s.linkByKey /\ same = s.linkByKey[key]
      BY <1>4, LookedUp
    <2>2. same \in UL(s) /\ s.links[same].key = key
      BY <2>1 DEF StoreInv, Linked, LinksInv
    <2>3. PICK e : e = s.links[same].device
      OBVIOUS
    <2>4. e \in UD(s) /\ s.devices[e].key = s.devices[d].key
      <3>1. s.links[same].device \in UD(s) /\ s.links[same].key.device = s.devices[s.links[same].device].key
        BY <2>2 DEF StoreInv, Linked, LinksInv
      <3> QED
        BY <1>3, <2>2, <2>3, <3>1
    <2>5. e = d
      BY <2>4, KeysAreDistinct DEF StoreInv
    <2> QED
      BY <2>2, <2>3, <2>5
  <1>6. segment # 0 => segment \in UL(s) /\ s.links[segment].device = d
    BY <1>4, LinkOfKindFound
  <1>7. physical # 0 => physical \in UL(s) /\ s.links[physical].device = d
    BY <1>4, LinkOfKindFound
  <1>8. ASSUME NEW i \in UL(s), s.links[i].device = d,
               up.s = refreshLink(s, i, o, kind, ttl, at), up.li = i
        PROVE  /\ StoreInv(up.s) /\ UD(up.s) = UD(s) /\ up.li \in UL(up.s) /\ up.s.dns = s.dns
               /\ Kept(s, up.s)
    BY <1>2, <1>8, RefreshKeepsStore
  <1>9. CASE same # 0
    <2>1. up.s = refreshLink(s, same, o, kind, ttl, at) /\ up.li = same
      BY <1>1, <1>4, <1>9 DEF upsertLink
    <2> QED
      BY <1>5, <1>8, <1>9, <2>1
  <1>10. CASE same = 0 /\ kind = "Physical" /\ segment # 0
    <2>1. PICK u : u = rekeyLink(s, segment, key)
      OBVIOUS
    <2>2. up.s = refreshLink(u, segment, o, kind, ttl, at) /\ up.li = segment
      BY <1>1, <1>4, <1>10, <2>1 DEF upsertLink
    <2>3. LinkRekeyed(s, u, segment) /\ Linked(u, {}, {} \ {segment}, {}, {})
      <3>1. key.device = s.devices[s.links[segment].device].key /\ segment \in UL(s)
        BY <1>3, <1>6, <1>10
      <3> QED
        BY <1>3, <2>1, <3>1, RekeyLinkKeeps DEF StoreInv
    <2>4. {} \ {segment} = {}
      OBVIOUS
    <2>5. StoreInv(u) /\ UD(u) = UD(s) /\ u.dns = s.dns
      BY <2>3, <2>4, LinkStepKeeps DEF LinkRekeyed, SameRecords
    <2>6. segment \in UL(u) /\ o.proto \in u.devices[u.links[segment].device].protocols
      BY <1>6, <1>10, <2>3 DEF LinkRekeyed
    <2>7. Kept(s, u)
      BY <2>3, KeptDevices DEF LinkRekeyed
    <2> QED
      BY <1>2, <2>2, <2>5, <2>6, <2>7, RefreshKeepsStore, KeptThen
  <1>11. CASE same = 0 /\ kind = "Segment" /\ physical # 0
    <2>1. up.s = refreshLink(s, physical, o, kind, ttl, at) /\ up.li = physical
      BY <1>1, <1>4, <1>11 DEF upsertLink
    <2> QED
      BY <1>7, <1>8, <1>11, <2>1
  <1>12. CASE /\ same = 0 /\ ~ (kind = "Physical" /\ segment # 0)
              /\ ~ (kind = "Segment" /\ physical # 0)
    <2>1. PICK a : a = allocLink(s)
      OBVIOUS
    <2>2. up = insertLink(a, o, d, key, kind, ttl, at)
      BY <1>1, <1>4, <1>12, <2>1 DEF upsertLink
    <2>3. PICK u : /\ a = takeLink(u) /\ StoreInv(u) /\ u.freeLinks # <<>>
                   /\ UD(u) = UD(s) /\ SameDevices(s, u) /\ SameProtocols(s, u) /\ u.dns = s.dns
      BY <2>1, AllocLinkKeeps
    <2>4. PICK i, v : i = Last(u.freeLinks) /\ v = placeLink(a, d, key, kind, at)
      OBVIOUS
    <2>5. a.idx = i
      BY <2>3, <2>4 DEF takeLink
    <2>6. up.s = refreshLink(v, i, o, kind, ttl, at) /\ up.li = i
      BY <2>2, <2>4, <2>5 DEF insertLink
    <2>7. /\ d \in UD(u) /\ key.device = u.devices[d].key /\ o.proto \in u.devices[d].protocols
          /\ Linked(u, {}, {}, {}, {}) /\ at \in Nat
      BY <1>3, <2>3 DEF SameDevices, SameProtocols, StoreInv, UD
    <2>8. LinkPlaced(u, v, i, d)
      BY <1>3, <2>3, <2>4, <2>7, PlaceLinkKeeps
    <2>9. Kept(s, u)
      BY <2>3, KeptDevices
    <2> QED
      BY <1>2, <2>3, <2>6, <2>7, <2>8, <2>9, RefreshPlacedKeeps, KeptThen
  <1> QED
    BY <1>9, <1>10, <1>11, <1>12

-----------------------------------------------------------------------------
(* The end of an observe function, and the whole of it.                    *)

\* The lifetime of the evidence is a number.
LEMMA ValidityIsInt ==
    ASSUME NEW s, StoreInv(s), NEW d \in UD(s), NEW o, Heard(o), NEW at \in Nat
    PROVE  validity(o, s.devices[d], at) \in Int
  <1>1. o.ttl \in Nat /\ Second \in Nat
    BY ObservationAssumption, SecondAssumption DEF Heard
  <1>2. PICK x : x = s.devices[d].dnsExpiry
    OBVIOUS
  <1>3. x \in Nat
    BY <1>2 DEF StoreInv, Recorded, RecordsInv, UD
  <1>4. o.ttl * Second \in Int
    BY <1>1
  <1>5. x - at \in Int /\ Later(Second, x - at) \in Int
    BY <1>1, <1>3 DEF Later
  <1> QED
    BY <1>1, <1>2, <1>4, <1>5 DEF validity

\* The events at the end of observe change nothing else.
LEMMA AnnounceKeeps ==
    ASSUME NEW up, StoreInv(up.s), NEW o, NEW d \in UD(up.s), up.li \in UL(up.s),
           NEW before, NEW grew, NEW t, t = announce(before, grew, up, o, d)
    PROVE  StoreInv(t) /\ t.dns = up.s.dns /\ Kept(up.s, t)
  <1>1. PICK s, i : s = up.s /\ i = up.li
    OBVIOUS
  <1>2. StoreInv(s) /\ d \in UD(s) /\ i \in UL(s) /\ d \in DeviceSlots /\ i \in LinkSlots /\ Shape(s)
    BY <1>1 DEF StoreInv, Linked, UD, UL
  <1>3. PICK remote : remote = IF remoteChanges(s.links[i], o) THEN o.remote ELSE s.links[i].remote
    OBVIOUS
  <1>4. t.links = [s.links EXCEPT ![i].remote = remote]
    BY <1>1, <1>2, <1>3 DEF announce, Shape
  <1>5. t.devices = [s.devices EXCEPT ![d].class = Classify(s.devices[d].facts)]
    BY <1>1, <1>2 DEF announce, Shape
  <1>6. /\ DOMAIN t = DOMAIN s /\ t.deviceByKey = s.deviceByKey /\ t.freeDevices = s.freeDevices
        /\ t.linkByKey = s.linkByKey /\ t.freeLinks = s.freeLinks /\ t.linkWheel = s.linkWheel
        /\ t.dns = s.dns /\ t.dnsByKey = s.dnsByKey
        /\ t.freeDNS = s.freeDNS /\ t.dnsWheel = s.dnsWheel
    BY <1>1, <1>2 DEF announce, Shape
  <1>7. PICK m, u : m = [s.links[i] EXCEPT !.remote = remote] /\ u = [s EXCEPT !.links[i] = m]
    OBVIOUS
  <1>8. /\ DOMAIN m = DOMAIN s.links[i]
        /\ m.used = s.links[i].used /\ m.key = s.links[i].key /\ m.device = s.links[i].device
        /\ m.expires = s.links[i].expires /\ m.lastSeen = s.links[i].lastSeen
        /\ m.protocols = s.links[i].protocols
    BY <1>2, <1>7 DEF Shape
  <1>9. Successor(s, i, m) /\ m.protocols # {}
    <2>1. Evident(s, i) /\ s.links[i].expires \in [Protocols -> Nat] /\ s.links[i].lastSeen \in Nat
      BY <1>2 DEF StoreInv, Linked, EvidenceInv, LinksInv
    <2> QED
      BY <1>8, <2>1 DEF Successor, Evident
  <1>10. LinkSet(s, u, i, m)
    BY <1>2, <1>7, <1>8, LinkSetEffect
  <1>11. SameDevices(s, u) /\ SameRecords(s, u) /\ Linked(u, {}, {}, {}, {})
    <2>1. PICK E : E = {} /\ E \ {i} \subseteq E
      OBVIOUS
    <2>2. Linked(s, E, E, E, E) /\ i \in UL(s)
      BY <1>2, <2>1 DEF StoreInv
    <2>3. SameDevices(s, u) /\ SameRecords(s, u)
      BY <1>9, <1>10, <2>1, <2>2, LinkSetKeeps
    <2>4. Linked(u, E, E, E, E)
      BY <1>9, <1>10, <2>1, <2>2, LinkSetKeeps
    <2> QED
      BY <2>1, <2>3, <2>4
  <1>12. StoreInv(u)
    BY <1>2, <1>11, LinkStepKeeps
  <1>13. t.links = u.links
    <2>1. DOMAIN t.links = LinkSlots /\ \A j \in LinkSlots : t.links[j] = u.links[j]
      BY <1>2, <1>4, <1>7, <1>10 DEF Shape, LinkSet
    <2>2. u.links = [s.links EXCEPT ![i] = m]
      BY <1>2, <1>7 DEF Shape
    <2> QED
      BY <1>2, <1>4, <1>7, <2>2 DEF Shape
  <1>14. /\ DOMAIN u = DOMAIN s /\ u.deviceByKey = s.deviceByKey /\ u.freeDevices = s.freeDevices
         /\ u.devices = s.devices
         /\ u.linkByKey = s.linkByKey /\ u.freeLinks = s.freeLinks /\ u.linkWheel = s.linkWheel
         /\ u.dns = s.dns /\ u.dnsByKey = s.dnsByKey
         /\ u.freeDNS = s.freeDNS /\ u.dnsWheel = s.dnsWheel
    BY <1>2, <1>7 DEF Shape
  <1>15. /\ DOMAIN t.devices = DeviceSlots
         /\ \A e \in DeviceSlots : /\ DOMAIN t.devices[e] = DOMAIN s.devices[e]
                                   /\ t.devices[e].used = s.devices[e].used
                                   /\ t.devices[e].key = s.devices[e].key
                                   /\ t.devices[e].facts = s.devices[e].facts
                                   /\ t.devices[e].lastSeen = s.devices[e].lastSeen
                                   /\ t.devices[e].links = s.devices[e].links
                                   /\ t.devices[e].protocols = s.devices[e].protocols
                                   /\ t.devices[e].dns = s.devices[e].dns
                                   /\ t.devices[e].dnsExpiry = s.devices[e].dnsExpiry
    BY <1>2, <1>5 DEF Shape
  <1>16. Shape(t)
    <2>1. \A j \in LinkSlots : DOMAIN t.links[j] = DOMAIN s.links[j]
      BY <1>2, <1>4 DEF Shape
    <2>2. DOMAIN t.links = LinkSlots
      BY <1>2, <1>4 DEF Shape
    <2> QED
      BY <1>2, <1>6, <1>15, <2>1, <2>2 DEF Shape
  <1>17. Touches(u, t)
    BY <1>6, <1>13, <1>14, <1>15, <1>16 DEF Touches, SameDevices, SameLinks, SameRecords
  <1>18. Kept(s, t)
    BY <1>15, KeptSame
  <1> QED
    BY <1>1, <1>6, <1>12, <1>17, <1>18, StoreFrame

\* A step begins with an empty list of events.
LEMMA EventsReset ==
    ASSUME NEW s, StoreInv(s), NEW t, t = [s EXCEPT !.events = <<>>]
    PROVE  StoreInv(t) /\ t.dns = s.dns /\ t.devices = s.devices
  <1>1. Shape(s)
    BY DEF StoreInv, Linked
  <1>2. PICK x : x = <<>>
    OBVIOUS
  <1>3. Touches(s, t)
    BY <1>1, <1>2, EventsTouch
  <1>4. t.devices = s.devices
    BY <1>1 DEF Shape
  <1> QED
    BY <1>3, <1>4, StoreFrame DEF Touches, SameRecords

\* Everything observe does for a message it does not drop.  Promotion and
\* merging forget nothing; only the eviction of a device from a full slab does.
LEMMA ObservingKeeps ==
    ASSUME NEW s, StoreInv(s), NEW o, Heard(o), NEW at \in Nat \ {0}, NEW kind,
           NEW t, t = observing(s, o, at, kind)
    PROVE  StoreInv(t) /\ Dated(s, t, at) /\ (s.freeDevices # <<>> => Kept(s, t))
  <1>1. PICK u, f : u = [s EXCEPT !.events = <<>>] /\ f = deviceFor(u, o, at)
    OBVIOUS
  <1>2. StoreInv(u) /\ at \in Nat /\ u.dns = s.dns /\ u.devices = s.devices
    BY <1>1, EventsReset
  <1>3. StoreInv(f.s) /\ (f.idx = 0 \/ f.idx \in UD(f.s)) /\ SameDates(u, f.s)
    BY <1>1, <1>2, DeviceForKeeps
  <1>6. Dated(s, f.s, at)
    <2>1. SameDates(s, u)
      BY <1>2, SameDatesSame
    <2> QED
      BY <1>3, <2>1, SameDatesThen, SameDatesDated
  <1>7. s.freeDevices # <<>> => Kept(s, f.s)
    <2>1. u.freeDevices = s.freeDevices
      BY <1>1 DEF StoreInv, Linked, Shape
    <2>2. u.freeDevices # <<>> => Kept(u, f.s)
      BY <1>1, <1>2, DeviceForKeeps
    <2> QED
      BY <1>2, <2>1, <2>2 DEF Kept
  <1>4. CASE f.idx = 0
    <2>1. t = f.s
      BY <1>1, <1>4 DEF observing
    <2> QED
      BY <1>3, <1>6, <1>7, <2>1
  <1>5. CASE f.idx # 0
    <2>1. PICK d, before, r : /\ d = f.idx /\ before = f.s.devices[d]
                              /\ r = updateDevice(f.s, d, o, at)
      OBVIOUS
    <2>2. PICK ttl, up : /\ ttl = validity(o, r.s.devices[d], at)
                         /\ up = upsertLink(r.s, o, d, kind, ttl, at)
      OBVIOUS
    <2>3. t = announce(before, r.grew, up, o, d)
      BY <1>1, <1>5, <2>1, <2>2 DEF observing
    <2>4. d \in UD(f.s)
      BY <1>3, <1>5, <2>1
    <2>5. /\ StoreInv(r.s) /\ UD(r.s) = UD(f.s) /\ o.proto \in r.s.devices[d].protocols
          /\ Dated(f.s, r.s, at) /\ Kept(f.s, r.s)
      BY <1>2, <1>3, <2>1, <2>4, UpdateDeviceKeeps
    <2>6. PICK v : v = r.s
      OBVIOUS
    <2>7. StoreInv(v) /\ d \in UD(v) /\ o.proto \in v.devices[d].protocols
      BY <2>4, <2>5, <2>6
    <2>8. ttl \in Int
      BY <1>2, <2>2, <2>6, <2>7, ValidityIsInt
    <2>9. StoreInv(up.s) /\ UD(up.s) = UD(v) /\ up.li \in UL(up.s) /\ up.s.dns = v.dns /\ Kept(v, up.s)
      BY <2>2, <2>6, <2>7, <2>8, UpsertLinkKeeps
    <2>10. StoreInv(t) /\ t.dns = r.s.dns /\ Kept(up.s, t)
      BY <2>3, <2>6, <2>7, <2>9, AnnounceKeeps
    <2>11. Dated(s, r.s, at)
      BY <1>6, <2>5, DatedThen
    <2>12. Dated(r.s, t, at)
      BY <2>10, DatedSame
    <2>13. s.freeDevices # <<>> => Kept(s, t)
      <3>1. Kept(f.s, up.s)
        BY <2>5, <2>6, <2>9, KeptThen
      <3>2. Kept(f.s, t)
        BY <2>10, <3>1, KeptThen
      <3> QED
        BY <1>7, <3>2, KeptThen
    <2> QED
      BY <2>10, <2>11, <2>12, <2>13, DatedThen
  <1> QED
    BY <1>4, <1>5

\* observe keeps the invariant, for every message and in every state of the
\* store, and what is known unless it has to evict a device.
LEMMA ObserveKeeps ==
    ASSUME NEW s, StoreInv(s), NEW o, Heard(o), NEW at \in Nat \ {0}, NEW t, t = observe(s, o, at)
    PROVE  StoreInv(t) /\ Dated(s, t, at) /\ (s.freeDevices # <<>> => Kept(s, t))
  <1>1. o.proto \in {"LLDP", "CDP", "MNDP", "MDNS"}
    BY ObservationAssumption DEF Heard, Protocols
  <1>2. PICK kind : t = observing(s, o, at, kind)
    BY <1>1 DEF observe, observeLLDP, observeCDP, observeMNDP, observeMDNS
  <1> QED
    BY <1>2, ObservingKeeps

-----------------------------------------------------------------------------
(* tick.                                                                   *)

\* A device without links and records.
LEMMA NothingHeld ==
    ASSUME NEW s, StoreInv(s), NEW d \in UD(s), s.devices[d].links = <<>>, s.devices[d].dns = <<>>
    PROVE  MovingLinks(s, {}, d) /\ MovingRecords(s, {}, d)
  <1>1. Lists(<<>>, LinksOf(s, d, {})) /\ Lists(<<>>, RecordsOf(s, d, {}))
    BY DEF StoreInv, Linked, Recorded, LinksInv, RecordsInv
  <1>2. \A S : Lists(<<>>, S) => S = {}
    BY DEF Lists
  <1>3. LinksOf(s, d, {}) = {} /\ RecordsOf(s, d, {}) = {}
    BY <1>1, <1>2
  <1> QED
    BY <1>3 DEF MovingLinks, MovingRecords, LinksOf, RecordsOf

\* A device is removed when it has neither links nor records: no other entry
\* goes with it.
LEMMA DropUnheldKeeps ==
    ASSUME NEW s, StoreInv(s), NEW d \in UD(s), NEW t, t = dropUnheld(s, d)
    PROVE  StoreInv(t) /\ UL(t) = UL(s) /\ t.dns = s.dns
  <1>1. CASE s.devices[d].links = <<>> /\ s.devices[d].dns = <<>>
    <2>1. t = dropDevice(s, d)
      BY <1>1 DEF dropUnheld
    <2>2. MovingLinks(s, {}, d) /\ MovingRecords(s, {}, d)
      BY <1>1, NothingHeld
    <2>3. StoreInv(t) /\ DeviceDropped(s, t, d)
      BY <2>1, <2>2, DropDeviceKeeps
    <2> QED
      BY <2>3 DEF DeviceDropped, UL
  <1>2. CASE ~ (s.devices[d].links = <<>> /\ s.devices[d].dns = <<>>)
    <2>1. t = s
      BY <1>2 DEF dropUnheld
    <2> QED
      BY <2>1
  <1> QED
    BY <1>1, <1>2

\* An event is appended.
LEMMA EventKeeps ==
    ASSUME NEW s, StoreInv(s), NEW x, NEW t, t = [s EXCEPT !.events = x]
    PROVE  StoreInv(t) /\ UD(t) = UD(s) /\ UL(t) = UL(s) /\ t.dns = s.dns
  <1>1. Shape(s)
    BY DEF StoreInv, Linked
  <1>2. Touches(s, t)
    BY <1>1, EventsTouch
  <1>3. t.dns = s.dns
    BY <1>2 DEF Touches, SameRecords
  <1> QED
    BY <1>2, <1>3, StoreFrame

\* A link that is due loses what has expired, and is scheduled again or
\* removed, its device perhaps with it; no other link goes.
LEMMA FireLinkKeeps ==
    ASSUME NEW s, StoreInv(s), NEW i \in UL(s), NEW at \in Nat, NEW t, t = fireLink(s, i, at)
    PROVE  StoreInv(t) /\ UL(s) \ {i} \subseteq UL(t) /\ t.dns = s.dns
  <1>1. PICK l, expired : l = s.links[i] /\ expired = expiredBy(l, at)
    OBVIOUS
  <1>2. PICK m, u, again : /\ m = dropEvidence(l, expired) /\ u = [s EXCEPT !.links[i] = m]
                           /\ again = scheduleLink(u, i, at, earliestExpiry(m.expires))
    OBVIOUS
  <1>3. PICK f : f = [p \in Protocols |-> IF p \in expired THEN Never ELSE l.expires[p]]
    OBVIOUS
  <1>4. /\ i \in LinkSlots /\ Shape(s) /\ Evident(s, i) /\ l.device \in UD(s)
        /\ l.expires \in [Protocols -> Nat] /\ l.lastSeen \in Nat
    BY <1>1 DEF StoreInv, Linked, LinksInv, EvidenceInv, UL
  <1>5. /\ DOMAIN m = DOMAIN s.links[i]
        /\ m.used = s.links[i].used /\ m.key = s.links[i].key /\ m.device = s.links[i].device
        /\ m.expires = f /\ m.lastSeen = l.lastSeen
        /\ m.protocols = l.protocols \ expired
    BY <1>1, <1>2, <1>3, <1>4 DEF Shape, dropEvidence
  <1>6. /\ f \in [Protocols -> Nat]
        /\ {p \in Protocols : f[p] # Never} = {p \in Protocols : l.expires[p] # Never} \ expired
    BY <1>1, <1>3, <1>4 DEF Never, expiredBy
  <1>7. Successor(s, i, m)
    BY <1>1, <1>4, <1>5, <1>6 DEF Successor, Evident
  <1>8. LinkSet(s, u, i, m)
    BY <1>2, <1>4, <1>5, LinkSetEffect
  <1>9. PICK N, I : N = {} /\ I = {i}
    OBVIOUS
  <1>10. Linked(s, N, N, N, N) /\ N \ {i} \subseteq N /\ N \ {i} \subseteq I /\ i \in I /\ N \ {i} = N
         /\ I \ {i} = N
    BY <1>9 DEF StoreInv
  <1>11. SameDevices(s, u) /\ SameRecords(s, u)
    BY <1>7, <1>8, <1>10, LinkSetKeeps
  <1>12. Linked(u, N, N, I, N)
    BY <1>7, <1>8, <1>10, LinkSetKeeps
  <1>13. UL(u) = UL(s)
    <2>1. TouchedLinks(s, u)
      BY <1>7, <1>8, <1>10, LinkSetKeeps
    <2> QED
      BY <2>1 DEF TouchedLinks, UL
  <1>14. CASE m.protocols = {}
    <2>1. PICK v, kind : kind = "Expired" /\ v = removeLink(u, i, kind)
      OBVIOUS
    <2>2. t = dropUnheld(v, l.device)
      BY <1>1, <1>2, <1>14, <2>1 DEF fireLink
    <2>3. LinkRemoved(u, v, i) /\ Linked(v, N \ {i}, N \ {i}, I \ {i}, N \ {i})
      BY <1>12, <1>13, <2>1, RemoveLinkKeeps
    <2>4. Linked(v, {}, {}, {}, {})
      BY <1>9, <1>10, <2>3
    <2>5. SameDevices(s, v) /\ SameRecords(s, v) /\ UL(v) = UL(s) \ {i}
      BY <1>11, <1>13, <2>3 DEF LinkRemoved, SameDevices, SameRecords
    <2>6. StoreInv(v) /\ UD(v) = UD(s)
      BY <2>4, <2>5, LinkStepKeeps
    <2>7. StoreInv(t) /\ UL(t) = UL(v) /\ t.dns = v.dns
      BY <1>4, <2>2, <2>6, DropUnheldKeeps
    <2> QED
      BY <2>5, <2>7 DEF SameRecords
  <1>15. CASE m.protocols # {}
    <2>1. Linked(u, N, N, N, N)
      BY <1>7, <1>8, <1>10, <1>15, LinkSetKeeps
    <2>2. SameDevices(u, again) /\ SameRecords(u, again) /\ UL(again) = UL(u)
      <3>1. PICK expiry : expiry = earliestExpiry(m.expires)
        OBVIOUS
      <3>2. again = scheduleLink(u, i, at, expiry) /\ Shape(u)
        BY <1>2, <2>1, <3>1 DEF Linked
      <3>3. SameDevices(u, again) /\ SameRecords(u, again)
        BY <1>4, <3>2, ScheduleLinkEffect
      <3>4. i \in UL(u)
        BY <1>13
      <3>5. TouchedLinks(u, again)
        BY <2>1, <3>2, <3>4, ScheduleLinkKeeps
      <3> QED
        BY <3>3, <3>5 DEF TouchedLinks, UL
    <2>3. Linked(again, N, N, N, N \ {i})
      BY <1>2, <1>13, <2>1, ScheduleLinkKeeps
    <2>4. Linked(again, {}, {}, {}, {})
      BY <1>9, <1>10, <2>3
    <2>5. SameDevices(s, again) /\ SameRecords(s, again)
      BY <1>11, <2>2 DEF SameDevices, SameRecords
    <2>6. StoreInv(again)
      BY <2>4, <2>5, LinkStepKeeps
    <2>7. \E x : t = [again EXCEPT !.events = x] \/ t = again
      BY <1>1, <1>2, <1>15 DEF fireLink
    <2>8. PICK x : t = [again EXCEPT !.events = x] \/ t = again
      BY <2>7
    <2>9. StoreInv(t) /\ UL(t) = UL(again) /\ t.dns = again.dns
      BY <2>6, <2>8, EventKeeps
    <2> QED
      BY <1>13, <2>2, <2>5, <2>9 DEF SameRecords
  <1> QED
    BY <1>14, <1>15

\* The loop of tick over the links.
FLTurn(c, t, i) == IF t.links[i].due = 0 THEN fireLink(t, i, c.at) ELSE t
FLGood(c, n, t) == StoreInv(t) /\ Rest(c.q, n) \subseteq UL(t) /\ t.dns = c.dns
FL == INSTANCE Loops WITH Turn <- FLTurn, Good <- FLGood

\* The loop of tick over the links that are due meets only links in use.
LEMMA FireLinksKeeps ==
    ASSUME NEW s, StoreInv(s), NEW q, Lists(q, UL(s)), NEW at \in Nat, NEW t, t = fireLinks(s, q, at)
    PROVE  StoreInv(t) /\ t.dns = s.dns
  <1>1. PICK c : c = [q |-> q, at |-> at, dns |-> s.dns]
    OBVIOUS
  <1>2. c.q = q /\ c.at = at /\ c.dns = s.dns
    BY <1>1
  <1>3. fireLinks(s, q, c.at) = FL!Loop(c, s, q)
    BY DEF fireLinks, FL!Loop, FLTurn, FoldLeft, MapThenFoldSet, Max, FL!Greatest
  <1>4. q \in Seq(UL(s)) /\ Rest(q, 0) = UL(s)
    BY ListsRest DEF Lists
  <1>5. FLGood(c, 0, s)
    BY <1>2, <1>4 DEF FLGood
  <1>6. ASSUME NEW n \in 1..Len(q), NEW u, FLGood(c, n - 1, u)
        PROVE  FLGood(c, n, FLTurn(c, u, q[n]))
    <2>1. PICK R, i, v : R = Rest(q, n - 1) /\ i = q[n] /\ v = FLTurn(c, u, q[n])
      OBVIOUS
    <2>2. i \in R /\ Rest(q, n) = R \ {i}
      BY <2>1, ListsRest
    <2>3. StoreInv(u) /\ R \subseteq UL(u) /\ i \in UL(u) /\ u.dns = s.dns
      BY <1>2, <1>6, <2>1, <2>2 DEF FLGood
    <2>4. CASE u.links[i].due = 0
      <3>1. v = fireLink(u, i, at)
        BY <1>2, <2>1, <2>4 DEF FLTurn
      <3>2. StoreInv(v) /\ UL(u) \ {i} \subseteq UL(v) /\ v.dns = u.dns
        BY <2>3, <3>1, FireLinkKeeps
      <3> QED
        BY <1>2, <2>1, <2>2, <2>3, <3>2 DEF FLGood
    <2>5. CASE u.links[i].due # 0
      <3>1. v = u
        BY <2>1, <2>5 DEF FLTurn
      <3> QED
        BY <1>2, <2>1, <2>2, <2>3, <3>1 DEF FLGood
    <2> QED
      BY <2>4, <2>5
  <1>7. FLGood(c, Len(q), FL!Loop(c, s, q))
    BY <1>4, <1>5, <1>6, FL!LoopKeeps
  <1> QED
    BY <1>2, <1>3, <1>7 DEF FLGood

\* A device that lost records is rebuilt or removed.
LEMMA SettleDNSKeeps ==
    ASSUME NEW s, StoreInv(s), NEW d \in DeviceSlots, NEW t, t = settleDNS(s, d)
    PROVE  StoreInv(t) /\ t.dns = s.dns
  <1>1. PICK u : u = rebuildServices(s, d)
    OBVIOUS
  <1>2. Recorded(u, {}, {}) /\ RecordStep(s, u) /\ SameRecords(s, u)
    BY <1>1, RebuildServicesKeeps DEF StoreInv
  <1>3. StoreInv(u) /\ UD(u) = UD(s) /\ u.dns = s.dns
    BY <1>2, RecordStepKeeps DEF SameRecords
  <1>4. u.devices[d].links = s.devices[d].links /\ u.devices[d].dns = s.devices[d].dns
    BY <1>2 DEF RecordStep, SameLinks, SameRecords
  <1>5. CASE s.devices[d].used /\ s.devices[d].links = <<>> /\ s.devices[d].dns = <<>>
    <2>1. t = dropDevice(u, d)
      BY <1>1, <1>5 DEF settleDNS
    <2>2. d \in UD(u)
      BY <1>3, <1>5 DEF UD
    <2>3. MovingLinks(u, {}, d) /\ MovingRecords(u, {}, d)
      BY <1>3, <1>4, <1>5, <2>2, NothingHeld
    <2> QED
      BY <1>3, <2>1, <2>2, <2>3, DropDeviceKeeps DEF DeviceDropped
  <1>6. CASE ~ (s.devices[d].used /\ s.devices[d].links = <<>> /\ s.devices[d].dns = <<>>)
    <2>1. \E x : t = s \/ t = u \/ t = [u EXCEPT !.events = x]
      BY <1>1, <1>6 DEF settleDNS
    <2>2. PICK x : t = s \/ t = u \/ t = [u EXCEPT !.events = x]
      BY <2>1
    <2> QED
      BY <1>3, <2>2, EventKeeps
  <1> QED
    BY <1>5, <1>6

\* The loop of tick over the devices that lost records.
SRTurn(c, t, d) == settleDNS(t, d)
SRGood(c, n, t) == StoreInv(t) /\ t.dns = c
SR == INSTANCE Loops WITH Turn <- SRTurn, Good <- SRGood

\* The same of every device that lost records, though one may be listed twice
\* and removed by then.
LEMMA SettleRecordsKeeps ==
    ASSUME NEW acc, StoreInv(acc.s), acc.owners \in Seq(DeviceSlots), NEW t, t = settleRecords(acc)
    PROVE  StoreInv(t) /\ t.dns = acc.s.dns
  <1>1. PICK c, q : c = acc.s.dns /\ q = acc.owners
    OBVIOUS
  <1>2. settleRecords(acc) = SR!Loop(c, acc.s, acc.owners)
    BY DEF settleRecords, SR!Loop, SRTurn, FoldLeft, MapThenFoldSet, Max, SR!Greatest
  <1>3. q \in Seq(DeviceSlots) /\ SRGood(c, 0, acc.s)
    BY <1>1 DEF SRGood
  <1>4. ASSUME NEW n \in 1..Len(q), NEW u, SRGood(c, n - 1, u)
        PROVE  SRGood(c, n, SRTurn(c, u, q[n]))
    <2>1. q[n] \in DeviceSlots /\ StoreInv(u) /\ u.dns = c
      BY <1>3, <1>4 DEF SRGood
    <2> QED
      BY <2>1, SettleDNSKeeps DEF SRGood, SRTurn
  <1>5. SRGood(c, Len(q), SR!Loop(c, acc.s, q))
    BY <1>3, <1>4, SR!LoopKeeps
  <1> QED
    BY <1>1, <1>2, <1>5 DEF SRGood

\* tick keeps the invariant, however much expires in one tick.
LEMMA TickKeeps ==
    ASSUME NEW s, StoreInv(s), NEW at \in Nat, NEW t, t = tick(s, at)
    PROVE  StoreInv(t) /\ Ticked(s, t)
  <1>1. PICK u, v, w, acc : /\ u = [s EXCEPT !.events = <<>>] /\ v = turnWheel(u)
                            /\ w = fireLinks(v, s.linkWheel, at) /\ acc = fireRecords(w, s.dnsWheel)
    OBVIOUS
  <1>2. t = settleRecords(acc)
    BY <1>1 DEF tick
  <1>3. StoreInv(u) /\ UL(u) = UL(s) /\ u.dns = s.dns
    <2>1. PICK x : x = <<>>
      OBVIOUS
    <2>2. u = [s EXCEPT !.events = x]
      BY <1>1, <2>1
    <2> QED
      BY <2>2, EventKeeps
  <1>4. /\ StoreInv(v) /\ UL(v) = UL(u) /\ UR(v) = UR(u)
        /\ \A i \in UR(u) : /\ v.dns[i].expiresAt = u.dns[i].expiresAt
                            /\ v.dns[i].due = ticksLeft(u.dns[i])
    <2>1. v = turnWheel(u)
      BY <1>1
    <2>2. StoreInv(v) /\ UL(v) = UL(u) /\ UR(v) = UR(u)
      BY <1>3, <2>1, TurnWheelKeeps
    <2>3. \A i \in UR(u) : /\ v.dns[i].expiresAt = u.dns[i].expiresAt
                           /\ v.dns[i].due = ticksLeft(u.dns[i])
      BY <1>3, <2>1, TurnWheelKeeps
    <2> QED
      BY <2>2, <2>3
  <1>5. PICK p, q : p = s.linkWheel /\ q = s.dnsWheel
    OBVIOUS
  <1>6. Lists(p, UL(v)) /\ Lists(q, UR(v))
    <2>1. Lists(p, UL(s) \ {}) /\ Lists(q, UR(s) \ {})
      BY <1>5 DEF StoreInv, Linked, Recorded, LinkWheelInv, DNSWheelInv
    <2>2. UL(s) \ {} = UL(v) /\ UR(s) \ {} = UR(v)
      BY <1>3, <1>4 DEF UR
    <2> QED
      BY <2>1, <2>2
  <1>7. StoreInv(w) /\ w.dns = v.dns
    BY <1>1, <1>4, <1>5, <1>6, FireLinksKeeps
  <1>8. Recorded(w, {}, {}) /\ Lists(q, UR(w))
    BY <1>6, <1>7 DEF StoreInv, UR
  <1>9. /\ Recorded(acc.s, {}, {}) /\ RecordStep(w, acc.s) /\ acc.owners \in Seq(UD(w))
        /\ Fired(w, acc.s, {})
    BY <1>1, <1>5, <1>8, FireRecordsKeeps
  <1>10. StoreInv(acc.s)
    BY <1>7, <1>9, RecordStepKeeps
  <1>11. acc.owners \in Seq(DeviceSlots)
    <2>1. UD(w) \subseteq DeviceSlots
      BY DEF UD
    <2> QED
      BY <1>9, <2>1
  <1>12. StoreInv(t) /\ t.dns = acc.s.dns
    BY <1>2, <1>10, <1>11, SettleRecordsKeeps
  <1>13. Ticked(s, t)
    <2>1. UR(t) = UR(acc.s) /\ UR(w) = UR(v) /\ UR(u) = UR(s)
      BY <1>3, <1>7, <1>12 DEF UR
    <2>2. \A i \in UR(s) : /\ w.dns[i].expiresAt = s.dns[i].expiresAt
                           /\ w.dns[i].due = ticksLeft(s.dns[i])
      BY <1>3, <1>4, <1>7, <2>1
    <2>3. UR(w) = UR(s)
      BY <1>4, <2>1
    <2>4. \A i \in UR(t) : i \in UR(s) /\ t.dns[i] = w.dns[i] /\ w.dns[i].due # 0
      BY <1>9, <1>12, <2>1, <2>3 DEF Fired
    <2>5. \A i \in UR(s) \ UR(t) : w.dns[i].due = 0
      BY <1>9, <2>1, <2>3 DEF Fired
    <2> QED
      BY <2>2, <2>4, <2>5 DEF Ticked
  <1> QED
    BY <1>12, <1>13

-----------------------------------------------------------------------------
(* The specification.                                                      *)

\* The free list of a new slab, from the last slot to the first, lists the
\* slab.
LEMMA CountsDown ==
    ASSUME NEW N \in Nat
    PROVE  Lists([i \in 1..N |-> N + 1 - i], 1..N)
  <1> DEFINE q == [i \in 1..N |-> N + 1 - i]
  <1>1. q \in Seq(1..N) /\ Len(q) = N
    OBVIOUS
  <1>2. \A n \in 1..N : q[n] = N + 1 - n
    OBVIOUS
  <1>3. ASSUME NEW x \in 1..N PROVE \E n \in 1..Len(q) : q[n] = x
    <2>1. N + 1 - x \in 1..N /\ N + 1 - (N + 1 - x) = x
      OBVIOUS
    <2> QED
      BY <1>1, <1>2, <2>1
  <1>4. \A m, n \in 1..Len(q) : q[m] = q[n] => m = n
    BY <1>1, <1>2
  <1> QED
    BY <1>1, <1>3, <1>4 DEF Lists

\* An empty store is in order.
LEMMA NewStoreKeeps == StoreInv(newFusionState)
  <1> DEFINE s == newFusionState
  <1>1. /\ s.devices = [d \in DeviceSlots |-> NoDevice]
        /\ s.links = [l \in LinkSlots |-> NoLink]
        /\ s.dns = [r \in DNSSlots |-> NoDNS]
        /\ s.deviceByKey = << >> /\ s.linkByKey = << >> /\ s.dnsByKey = << >>
        /\ s.linkWheel = <<>> /\ s.dnsWheel = <<>>
    BY DEF newFusionState
  <1>2. /\ s.freeDevices = [i \in DeviceSlots |-> MaxDevices + 1 - i]
        /\ s.freeLinks = [i \in LinkSlots |-> MaxLinks + 1 - i]
        /\ s.freeDNS = [i \in DNSSlots |-> MaxDNSRecords + 1 - i]
    BY DEF newFusionState
  <1>3. DOMAIN s = {"devices", "links", "dns", "deviceByKey", "linkByKey", "dnsByKey",
                    "freeDevices", "freeLinks", "freeDNS", "linkWheel", "dnsWheel", "events"}
    BY DEF newFusionState
  <1>4. NoDevice.used = FALSE /\ NoLink.used = FALSE /\ NoDNS.used = FALSE
    BY DEF NoDevice, NoLink, NoDNS
  <1>5. /\ DOMAIN NoDevice = {"used", "key", "facts", "protocols", "class", "services", "lastSeen",
                              "links", "dns", "dnsExpiry"}
        /\ NoDevice.lastSeen \in Nat /\ NoDevice.dnsExpiry \in Nat /\ NoDevice.facts = {}
    BY DEF NoDevice, Never
  <1>6. /\ DOMAIN NoLink = {"used", "key", "kind", "device", "protocols", "expires", "remote", "lastSeen", "due"}
        /\ NoLink.expires \in [Protocols -> Nat] /\ NoLink.lastSeen \in Nat
    BY DEF NoLink, Never
  <1>7. /\ DOMAIN NoDNS = {"used", "rec", "device", "ttl", "expiresAt", "due"}
        /\ NoDNS.expiresAt \in Nat
    BY DEF NoDNS, Never
  <1> HIDE DEF s
  <1>8. UD(s) = {} /\ UL(s) = {} /\ UR(s) = {}
    BY <1>1, <1>4 DEF UD, UL, UR
  <1>9. /\ Lists(s.freeDevices, DeviceSlots \ UD(s))
        /\ Lists(s.freeLinks, LinkSlots \ UL(s))
        /\ Lists(s.freeDNS, DNSSlots \ UR(s))
    <2>1. MaxDevices \in Nat /\ MaxLinks \in Nat /\ MaxDNSRecords \in Nat
      BY SlabAssumption
    <2>2. /\ Lists(s.freeDevices, DeviceSlots) /\ Lists(s.freeLinks, LinkSlots)
          /\ Lists(s.freeDNS, DNSSlots)
      BY <1>2, <2>1, CountsDown DEF DeviceSlots, LinkSlots, DNSSlots
    <2>3. /\ DeviceSlots \ UD(s) = DeviceSlots /\ LinkSlots \ UL(s) = LinkSlots
          /\ DNSSlots \ UR(s) = DNSSlots
      BY <1>8
    <2> QED
      BY <2>2, <2>3
  <1>10. Lists(<<>>, {}) /\ DOMAIN << >> = {}
    BY DEF Lists
  <1>11. Shape(s)
    BY <1>1, <1>3, <1>5, <1>6, <1>7 DEF Shape
  <1>12. DevicesInv(s)
    <2>1. \A d \in DeviceSlots : s.devices[d].used \in BOOLEAN /\ s.devices[d].lastSeen \in Nat
      BY <1>1, <1>4, <1>5
    <2>2. DOMAIN s.deviceByKey = {s.devices[d].key : d \in UD(s)}
      BY <1>1, <1>8, <1>10
    <2>3. \A d \in DeviceSlots : s.devices[d].facts = {}
      BY <1>1, <1>5
    <2> QED
      BY <1>8, <1>9, <2>1, <2>2, <2>3 DEF DevicesInv
  <1>13. LinksInv(s, {}, {})
    <2>1. \A i \in LinkSlots : /\ s.links[i].used \in BOOLEAN
                               /\ s.links[i].expires \in [Protocols -> Nat]
                               /\ s.links[i].lastSeen \in Nat
      BY <1>1, <1>4, <1>6
    <2>2. DOMAIN s.linkByKey = {}
      BY <1>1, <1>10
    <2> QED
      BY <1>8, <1>9, <2>1, <2>2 DEF LinksInv
  <1>14. RecordsInv(s, {})
    <2>1. \A i \in DNSSlots : s.dns[i].used \in BOOLEAN /\ s.dns[i].expiresAt \in Nat
      BY <1>1, <1>4, <1>7
    <2>2. \A d \in DeviceSlots : s.devices[d].dnsExpiry \in Nat
      BY <1>1, <1>5
    <2>3. DOMAIN s.dnsByKey = {}
      BY <1>1, <1>10
    <2> QED
      BY <1>8, <1>9, <2>1, <2>2, <2>3 DEF RecordsInv
  <1>15. EvidenceInv(s, {})
    BY <1>8 DEF EvidenceInv
  <1>16. LinkWheelInv(s, {}) /\ DNSWheelInv(s, {})
    <2>1. UL(s) \ {} = {} /\ UR(s) \ {} = {}
      BY <1>8
    <2> QED
      BY <1>1, <1>10, <2>1 DEF LinkWheelInv, DNSWheelInv
  <1>17. StoreInv(s)
    BY <1>11, <1>12, <1>13, <1>14, <1>15, <1>16 DEF StoreInv, Linked, Recorded
  <1> QED
    BY <1>17 DEF s

\* Every step of the fusion goroutine keeps the store consistent.
THEOREM StoreConsistent == Spec => []FusionInv
  <1>1. Init => FusionInv
    BY NewStoreKeeps, SecondAssumption DEF Init, FusionInv
  <1>2. FusionInv /\ [Next]_vars => FusionInv'
    <2> SUFFICES ASSUME FusionInv, [Next]_vars PROVE FusionInv'
      OBVIOUS
    <2>1. StoreInv(fusion) /\ now \in Nat \ {0} /\ scenario \in Scenarios
      BY DEF FusionInv
    <2>2. ASSUME NEW o \in scenario.observations, Observe(o) PROVE FusionInv'
      <3>1. Heard(o)
        BY <2>1 DEF Heard
      <3>2. fusion' = observe(fusion, o, now) /\ now' = now /\ scenario' = scenario
        BY <2>2 DEF Observe
      <3>3. StoreInv(fusion')
        BY <2>1, <3>1, <3>2, ObserveKeeps
      <3> QED
        BY <2>1, <3>2, <3>3 DEF FusionInv, StoreInv
    <2>3. CASE Advance
      <3>1. fusion' = [fusion EXCEPT !.events = <<>>] /\ now' = now + 1 /\ scenario' = scenario
        BY <2>3 DEF Advance
      <3>2. StoreInv(fusion')
        BY <2>1, <3>1, EventsReset
      <3> QED
        BY <2>1, <3>1, <3>2 DEF FusionInv
    <2>4. CASE Tick
      <3>1. fusion' = tick(fusion, now + 1) /\ now' = now + 1 /\ scenario' = scenario
        BY <2>4 DEF Tick
      <3>2. now + 1 \in Nat
        BY <2>1
      <3>3. StoreInv(fusion')
        BY <2>1, <3>1, <3>2, TickKeeps
      <3> QED
        BY <2>1, <3>1, <3>3 DEF FusionInv
    <2>5. CASE UNCHANGED vars
      BY <2>1, <2>5 DEF vars, FusionInv
    <2> QED
      BY <2>2, <2>3, <2>4, <2>5 DEF Next
  <1> QED
    BY <1>1, <1>2, PTL DEF Spec

\* No slab entry is leaked and none is free twice, through allocation, eviction,
\* promotion, merging and expiry: the free lists of newFusionState, dropDevice,
\* removeLink and removeDNS hold exactly the entries not in use, each once.
THEOREM NoEntryLeaks == Spec => []SlabsPartitioned
  <1>1. FusionInv => SlabsPartitioned
    <2> SUFFICES ASSUME StoreInv(fusion) PROVE SlabsPartitioned
      BY DEF FusionInv
    <2>1. UsedDevices = UD(fusion) /\ UsedLinks = UL(fusion) /\ UsedDNS = UR(fusion)
      BY DEF UsedDevices, UsedLinks, UsedDNS, UD, UL, UR
    <2>2. /\ Lists(fusion.freeDevices, DeviceSlots \ UD(fusion))
          /\ Lists(fusion.freeLinks, LinkSlots \ UL(fusion))
          /\ Lists(fusion.freeDNS, DNSSlots \ UR(fusion))
      BY DEF StoreInv, Linked, Recorded, DevicesInv, LinksInv, RecordsInv
    <2>3. ASSUME NEW q, NEW used, NEW slots, Lists(q, slots \ used) PROVE FreeList(q, used, slots)
      BY <2>3, ListsSet DEF FreeList
    <2> QED
      BY <2>1, <2>2, <2>3 DEF SlabsPartitioned
  <1> QED
    BY <1>1, StoreConsistent, PTL

\* The lists of a device and the back pointers of its links and records agree,
\* and a link carries its device's key, whatever promoteDevice and mergeDevices
\* rewrote and moved.
THEOREM OwnersAgree == Spec => []OwnershipAgrees
  <1>1. FusionInv => OwnershipAgrees
    <2> SUFFICES ASSUME StoreInv(fusion) PROVE OwnershipAgrees
      BY DEF FusionInv
    <2> DEFINE s == fusion
    <2>1. UsedDevices = UD(s) /\ UsedLinks = UL(s) /\ UsedDNS = UR(s)
      BY DEF UsedDevices, UsedLinks, UsedDNS, UD, UL, UR
    <2>2. ASSUME NEW d \in UD(s)
          PROVE  Owned(s.devices[d].links, s.links, UL(s), d) /\ Owned(s.devices[d].dns, s.dns, UR(s), d)
      <3>1. Lists(s.devices[d].links, LinksOf(s, d, {})) /\ Lists(s.devices[d].dns, RecordsOf(s, d, {}))
        BY DEF StoreInv, Linked, Recorded, LinksInv, RecordsInv
      <3>2. LinksOf(s, d, {}) = {i \in UL(s) : s.links[i].device = d}
        BY DEF LinksOf
      <3>3. RecordsOf(s, d, {}) = {i \in UR(s) : s.dns[i].device = d}
        BY DEF RecordsOf
      <3>4. /\ ToSet(s.devices[d].links) = LinksOf(s, d, {})
            /\ Len(s.devices[d].links) = Cardinality(LinksOf(s, d, {}))
        BY <3>1, ListsSet
      <3>5. /\ ToSet(s.devices[d].dns) = RecordsOf(s, d, {})
            /\ Len(s.devices[d].dns) = Cardinality(RecordsOf(s, d, {}))
        BY <3>1, ListsSet
      <3>6. Owned(s.devices[d].links, s.links, UL(s), d)
        BY <3>2, <3>4 DEF Owned
      <3>7. Owned(s.devices[d].dns, s.dns, UR(s), d)
        BY <3>3, <3>5 DEF Owned
      <3> QED
        BY <3>6, <3>7
    <2>3. \A i \in UR(s) : s.dns[i].device \in UD(s)
      BY DEF StoreInv, Recorded, RecordsInv
    <2>4. \A i \in UL(s) : /\ s.links[i].device \in UD(s)
                           /\ s.links[i].key.device = s.devices[s.links[i].device].key
      BY DEF StoreInv, Linked, LinksInv
    <2> QED
      BY <2>1, <2>2, <2>3, <2>4 DEF OwnershipAgrees
  <1> QED
    BY <1>1, StoreConsistent, PTL

\* deviceByKey finds every device under its current key and nothing else;
\* linkByKey and dnsByKey never lead to a freed entry or to one of another key,
\* although removeLink and removeDNS delete by key.
THEOREM IndexesNeverDangle == Spec => []IndexesSound
  <1>1. FusionInv => IndexesSound
    <2> SUFFICES ASSUME StoreInv(fusion) PROVE IndexesSound
      BY DEF FusionInv
    <2>1. UsedDevices = UD(fusion) /\ UsedLinks = UL(fusion) /\ UsedDNS = UR(fusion)
      BY DEF UsedDevices, UsedLinks, UsedDNS, UD, UL, UR
    <2>2. /\ DOMAIN fusion.deviceByKey = {fusion.devices[d].key : d \in UD(fusion)}
          /\ \A d \in UD(fusion) : fusion.deviceByKey[fusion.devices[d].key] = d
      BY DEF StoreInv, DevicesInv
    <2>3. \A k \in DOMAIN fusion.linkByKey :
              fusion.linkByKey[k] \in UL(fusion) /\ fusion.links[fusion.linkByKey[k]].key = k
      BY DEF StoreInv, Linked, LinksInv
    <2>4. \A k \in DOMAIN fusion.dnsByKey :
              fusion.dnsByKey[k] \in UR(fusion) /\ DNSKey(fusion, fusion.dnsByKey[k]) = k
      BY DEF StoreInv, Recorded, RecordsInv
    <2> QED
      BY <2>1, <2>2, <2>3, <2>4 DEF IndexesSound
  <1> QED
    BY <1>1, StoreConsistent, PTL

\* A link in the store always has evidence, an expiry pending for each protocol
\* of it, and a device that knows these protocols: refreshLink, mergeLinks and
\* tick keep the two in step.
THEOREM EvidenceStaysLive == Spec => []EvidenceLive
  <1>1. FusionInv => EvidenceLive
    <2> SUFFICES ASSUME StoreInv(fusion), NEW i \in UL(fusion)
                 PROVE  /\ fusion.links[i].protocols # {}
                        /\ fusion.links[i].protocols = {p \in Protocols : fusion.links[i].expires[p] # Never}
                        /\ fusion.links[i].protocols \subseteq fusion.devices[fusion.links[i].device].protocols
      BY DEF FusionInv, EvidenceLive, UsedLinks, UL
    <2>1. Evident(fusion, i)
      BY DEF StoreInv, Linked, EvidenceInv
    <2> QED
      BY <2>1 DEF Evident
  <1> QED
    BY <1>1, StoreConsistent, PTL

\* What is known of the devices together is never lost by a message that evicts
\* no device: promoteDevice, mergeDevices and updateDevice keep every MAC and
\* address, on the device that had it or on the one it became.
THEOREM NothingKnownIsLost == Spec => FactsKept
  <1>1. FusionInv /\ [Next]_vars =>
            [(now' = now /\ fusion.freeDevices # <<>>) =>
                UNION {fusion.devices[d].facts : d \in DeviceSlots}
                  \subseteq UNION {fusion'.devices[d].facts : d \in DeviceSlots}]_vars
    <2> SUFFICES ASSUME FusionInv, Next, now' = now, fusion.freeDevices # <<>>
                 PROVE  Kept(fusion, fusion')
      BY DEF Kept
    <2>1. StoreInv(fusion) /\ now \in Nat \ {0} /\ scenario \in Scenarios
      BY DEF FusionInv
    <2>2. now' # now + 1
      BY <2>1
    <2>3. PICK o \in scenario.observations : Observe(o)
      BY <2>2 DEF Next, Advance, Tick
    <2>4. Heard(o) /\ fusion' = observe(fusion, o, now)
      BY <2>1, <2>3 DEF Heard, Observe
    <2> QED
      BY <2>1, <2>4, ObserveKeeps
  <1> QED
    BY <1>1, StoreConsistent, PTL DEF Spec, FactsKept

\* When the records are due, in every state.
TimeInv == RecordsDue(fusion, LastTick)

\* Where the last tick was, before and after an instant.
LEMMA LastTickIs ==
    ASSUME NEW n \in Nat, NEW last, last = n - (n % Second)
    PROVE  last \in Int /\ last <= n /\ n < last + Second
  <1>1. Remainder(n) \in 0..(Second - 1) /\ Second \in Nat
    BY NextInstant, SecondAssumption
  <1>2. last = n - Remainder(n)
    BY DEF Remainder
  <1> QED
    BY <1>1, <1>2

\* The ticks are a second apart.
LEMMA NextTickIs ==
    ASSUME NEW n \in Nat, NEW last, last = n - (n % Second), NEW next, next = (n + 1) - ((n + 1) % Second)
    PROVE  /\ (n + 1) % Second # 0 => next = last
           /\ (n + 1) % Second = 0 => next = last + Second /\ next = n + 1
  <1>1. PICK a, b : a = Remainder(n) /\ b = Remainder(n + 1)
    OBVIOUS
  <1>2. /\ b # 0 => b = a + 1
        /\ b = 0 => a = Second - 1
        /\ a \in 0..(Second - 1) /\ b \in 0..(Second - 1)
    BY <1>1, NextInstant
  <1>3. Second \in Nat
    BY SecondAssumption
  <1>4. last = n - a /\ next = (n + 1) - b /\ b = (n + 1) % Second
    BY <1>1 DEF Remainder
  <1>5. CASE b # 0
    <2>1. next = last
      BY <1>2, <1>3, <1>4, <1>5
    <2> QED
      BY <1>4, <1>5, <2>1
  <1>6. CASE b = 0
    <2>1. next = last + Second /\ next = n + 1
      BY <1>2, <1>3, <1>4, <1>6
    <2> QED
      BY <1>4, <1>6, <2>1
  <1> QED
    BY <1>5, <1>6

\* What a step does to the records that are due, and which it removes.
LEMMA StepIsDue ==
    ASSUME FusionInv, FusionInv', TimeInv, [Next]_vars
    PROVE  /\ TimeInv'
           /\ now' # now => \A i \in UR(fusion) \ UR(fusion') : fusion.dns[i].expiresAt < now' + Second
  <1>1. /\ StoreInv(fusion) /\ now \in Nat \ {0} /\ scenario \in Scenarios /\ StoreInv(fusion')
    BY DEF FusionInv
  <1>2. PICK s, t, n, last : s = fusion /\ t = fusion' /\ n = now /\ last = LastTick
    OBVIOUS
  <1>3. n \in Nat /\ n + 1 \in Nat /\ last = n - (n % Second)
    BY <1>1, <1>2 DEF LastTick
  <1>4. last \in Int /\ last <= n /\ n < last + Second
    BY <1>3, LastTickIs
  <1>5. StoreInv(s) /\ StoreInv(t) /\ RecordsDue(s, last)
    BY <1>1, <1>2 DEF TimeInv
  <1>6. ASSUME NEW o \in scenario.observations, Observe(o) PROVE TimeInv' /\ now' = now
    <2>1. Heard(o)
      BY <1>1 DEF Heard
    <2>2. t = observe(s, o, n) /\ now' = now
      BY <1>2, <1>6 DEF Observe
    <2>3. Dated(s, t, n)
      BY <1>1, <1>2, <1>5, <2>1, <2>2, ObserveKeeps
    <2>4. RecordsDue(t, last)
      BY <1>3, <1>4, <1>5, <2>3, ObserveIsDue
    <2> QED
      BY <1>2, <2>2, <2>4 DEF TimeInv, LastTick
  <1>7. ASSUME t.dns = s.dns, LastTick' = last PROVE TimeInv' /\ UR(t) = UR(s)
    BY <1>2, <1>5, <1>7 DEF TimeInv, RecordsDue, UR
  <1>8. CASE Advance
    <2>1. t = [s EXCEPT !.events = <<>>] /\ now' = n + 1 /\ (n + 1) % Second # 0
      BY <1>2, <1>8 DEF Advance
    <2>2. t.dns = s.dns
      BY <1>5, <2>1, EventsReset
    <2>3. PICK next : next = (n + 1) - ((n + 1) % Second)
      OBVIOUS
    <2>4. next = last
      BY <1>3, <2>1, <2>3, NextTickIs
    <2>5. LastTick' = last
      BY <2>1, <2>3, <2>4 DEF LastTick
    <2> QED
      BY <1>2, <1>7, <2>2, <2>5
  <1>9. CASE Tick
    <2>1. t = tick(s, n + 1) /\ now' = n + 1 /\ (n + 1) % Second = 0
      BY <1>2, <1>9 DEF Tick
    <2>2. Ticked(s, t)
      BY <1>3, <1>5, <2>1, TickKeeps
    <2>3. PICK next : next = (n + 1) - ((n + 1) % Second)
      OBVIOUS
    <2>4. next = last + Second /\ next = n + 1
      BY <1>3, <2>1, <2>3, NextTickIs
    <2>5. LastTick' = next
      BY <2>1, <2>3 DEF LastTick
    <2>6. /\ RecordsDue(t, last + Second)
          /\ \A i \in UR(s) \ UR(t) : s.dns[i].expiresAt < (last + Second) + Second
      BY <1>4, <1>5, <2>2, TickIsDue
    <2> QED
      BY <1>2, <2>1, <2>4, <2>5, <2>6 DEF TimeInv
  <1>10. CASE UNCHANGED vars
    <2>1. t = s /\ now' = now
      BY <1>2, <1>10 DEF vars
    <2>2. LastTick' = last
      BY <1>2, <2>1 DEF LastTick
    <2> QED
      BY <1>7, <2>1, <2>2
  <1> QED
    BY <1>6, <1>8, <1>9, <1>10 DEF Next

\* The records are due when the wheel will reach them, in every state.
THEOREM RecordsStayDue == Spec => []TimeInv
  <1>1. Init => TimeInv
    <2>1. newFusionState.dns = [r \in DNSSlots |-> NoDNS] /\ NoDNS.used = FALSE
      BY DEF newFusionState, NoDNS
    <2>2. UR(newFusionState) = {}
      BY <2>1 DEF UR
    <2> QED
      BY <2>2 DEF Init, TimeInv, RecordsDue
  <1>2. FusionInv /\ FusionInv' /\ TimeInv /\ [Next]_vars => TimeInv'
    BY StepIsDue
  <1> QED
    BY <1>1, <1>2, StoreConsistent, PTL DEF Spec

\* An expired record is gone at the next tick, through refresh, goodbye, rescue
\* and cache flush: setDNSExpiry moves its entry on the wheel with its expiry,
\* and ceilDurationSeconds rounds to the tick after it.
THEOREM RecordsLeaveInTime == Spec => []DNSTimely
  <1>1. FusionInv /\ TimeInv => DNSTimely
    <2> SUFFICES ASSUME FusionInv, TimeInv, NEW i \in UR(fusion) PROVE fusion.dns[i].expiresAt > LastTick
      BY DEF DNSTimely, UsedDNS, UR
    <2>1. PICK n, c, x, last : n = now /\ c = fusion.dns[i].due /\ x = fusion.dns[i].expiresAt /\ last = LastTick
      OBVIOUS
    <2>2. n \in Nat /\ x \in Nat /\ last = n - (n % Second)
      BY <2>1 DEF FusionInv, StoreInv, Recorded, RecordsInv, UR, LastTick
    <2>3. last \in Int
      BY <2>2, LastTickIs
    <2>4. c \in Nat \ {0} /\ last + Ticks(c - 1) < x
      BY <2>1 DEF TimeInv, RecordsDue, DueAt
    <2>5. 0 \in Int /\ c - 1 \in Int /\ 0 <= c - 1
      BY <2>4
    <2>6. Ticks(0) = 0 /\ Ticks(c - 1) \in Int /\ Ticks(0) <= Ticks(c - 1)
      BY <2>5, TicksGrow
    <2>7. x > last
      BY <2>2, <2>3, <2>4, <2>6
    <2> QED
      BY <2>1, <2>7
  <1> QED
    BY <1>1, StoreConsistent, RecordsStayDue, PTL

\* A tick removes no record more than a second before its expiry: a record that
\* was refreshed or rescued is not taken by the wheel entry of its earlier
\* expiry.
THEOREM RecordsLeaveNoEarlier == Spec => DNSAtMostASecondEarly
  <1>1. FusionInv /\ FusionInv' /\ TimeInv /\ [Next]_vars =>
            [now' # now =>
                \A i \in UsedDNS : ~ fusion'.dns[i].used => fusion.dns[i].expiresAt < now' + Second]_vars
    <2> SUFFICES ASSUME FusionInv, FusionInv', TimeInv, [Next]_vars, now' # now,
                        NEW i \in UsedDNS, ~ fusion'.dns[i].used
                 PROVE  fusion.dns[i].expiresAt < now' + Second
      OBVIOUS
    <2>1. i \in UR(fusion) \ UR(fusion')
      BY DEF UsedDNS, UR
    <2> QED
      BY <2>1, StepIsDue
  <1> QED
    BY <1>1, StoreConsistent, RecordsStayDue, PTL DEF Spec, DNSAtMostASecondEarly
=============================================================================
