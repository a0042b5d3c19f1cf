------------------------- MODULE FusionDeviceProofs -------------------------
(***************************************************************************)
(* The operations on devices: removing, allocating, promoting and merging  *)
(* them, and finding and updating the one a message is about. Each keeps   *)
(* the invariant of the store. So does making room for a link.             *)
(***************************************************************************)
EXTENDS FusionDNSProofs

-----------------------------------------------------------------------------
(* Changes that no part of the invariant depends on.                       *)

\* Nothing changed but what is known of the devices, and the events.
Touches(s, t) == Shape(t) /\ SameDevices(s, t) /\ SameLinks(s, t) /\ SameRecords(s, t)

\* Such a change keeps the invariant.
LEMMA StoreFrame ==
    ASSUME NEW s, StoreInv(s), NEW t, Touches(s, t)
    PROVE  StoreInv(t) /\ UD(t) = UD(s) /\ UL(t) = UL(s)
  <1>1. DevicesInv(t) /\ UD(t) = UD(s)
    BY DevicesFrame DEF StoreInv, Touches
  <1>2. Linked(t, {}, {}, {}, {})
    BY LinkedFrame DEF StoreInv, Touches, RecordStep
  <1>3. Recorded(t, {}, {})
    BY RecordedFrame DEF StoreInv, Touches
  <1>4. UL(t) = UL(s)
    BY DEF Touches, SameLinks, UL
  <1> QED
    BY <1>1, <1>2, <1>3, <1>4 DEF StoreInv

\* A step over records keeps the rest of the store.
LEMMA RecordStepKeeps ==
    ASSUME NEW s, StoreInv(s), NEW t, RecordStep(s, t), Recorded(t, {}, {})
    PROVE  StoreInv(t) /\ UD(t) = UD(s) /\ UL(t) = UL(s)
  <1>1. Shape(t) /\ SameDevices(s, t)
    BY DEF Recorded, RecordStep
  <1>2. DevicesInv(t) /\ UD(t) = UD(s)
    BY <1>1, DevicesFrame DEF StoreInv
  <1>3. Linked(t, {}, {}, {}, {})
    BY <1>1, LinkedFrame DEF StoreInv
  <1>4. UL(t) = UL(s)
    BY DEF RecordStep, SameLinks, UL
  <1> QED
    BY <1>2, <1>3, <1>4 DEF StoreInv

\* A step over links likewise.
LEMMA LinkStepKeeps ==
    ASSUME NEW s, StoreInv(s), NEW t, SameDevices(s, t), SameRecords(s, t), Linked(t, {}, {}, {}, {})
    PROVE  StoreInv(t) /\ UD(t) = UD(s)
  <1>1. Shape(t)
    BY DEF Linked
  <1>2. DevicesInv(t) /\ UD(t) = UD(s)
    BY DevicesFrame DEF StoreInv
  <1>3. Recorded(t, {}, {})
    BY <1>1, RecordedFrame DEF StoreInv
  <1> QED
    BY <1>2, <1>3 DEF StoreInv

\* A published event is such a change.
LEMMA EventsTouch ==
    ASSUME NEW s, Shape(s), NEW x, NEW t, t = [s EXCEPT !.events = x]
    PROVE  Touches(s, t)
  <1>1. /\ DOMAIN t = DOMAIN s
        /\ t.devices = s.devices /\ t.deviceByKey = s.deviceByKey /\ t.freeDevices = s.freeDevices
        /\ t.links = s.links /\ t.linkByKey = s.linkByKey
        /\ t.freeLinks = s.freeLinks /\ t.linkWheel = s.linkWheel
        /\ t.dns = s.dns /\ t.dnsByKey = s.dnsByKey
        /\ t.freeDNS = s.freeDNS /\ t.dnsWheel = s.dnsWheel
    BY DEF Shape
  <1>2. Shape(t)
    BY <1>1 DEF Shape
  <1> QED
    BY <1>1, <1>2 DEF Touches, SameDevices, SameLinks, SameRecords

-----------------------------------------------------------------------------
(* Removing a device.                                                      *)

\* t is s without device d.
DeviceDropped(s, t, d) ==
    /\ UD(t) = UD(s) \ {d}
    /\ \A e \in UD(t) : t.devices[e].key = s.devices[e].key
    /\ \A e \in DeviceSlots \ {d} : t.devices[e].facts = s.devices[e].facts
    /\ t.links = s.links /\ t.dns = s.dns

\* The end of removeDevice and of mergeDevices: a device without links and
\* records leaves the slab and the index.
LEMMA DropDeviceKeeps ==
    ASSUME NEW s, StoreInv(s), NEW d \in UD(s), MovingLinks(s, {}, d), MovingRecords(s, {}, d),
           NEW t, t = dropDevice(s, d)
    PROVE  StoreInv(t) /\ DeviceDropped(s, t, d)
  <1> USE DEF StoreInv, Linked, Recorded
  <1>1. d \in DeviceSlots
    BY DEF UD
  <1>2. t.devices = [s.devices EXCEPT ![d] = NoDevice]
    BY DEF dropDevice, Shape
  <1>3. t.deviceByKey = Delete(s.deviceByKey, s.devices[d].key)
    BY DEF dropDevice, Shape
  <1>4. t.freeDevices = Append(s.freeDevices, d)
    BY DEF dropDevice, Shape
  <1>5. /\ DOMAIN t = DOMAIN s
        /\ t.links = s.links /\ t.linkByKey = s.linkByKey
        /\ t.freeLinks = s.freeLinks /\ t.linkWheel = s.linkWheel
        /\ t.dns = s.dns /\ t.dnsByKey = s.dnsByKey
        /\ t.freeDNS = s.freeDNS /\ t.dnsWheel = s.dnsWheel
    BY DEF dropDevice, Shape
  <1>6. /\ t.devices[d] = NoDevice /\ DOMAIN t.devices = DeviceSlots
        /\ \A e \in DeviceSlots : e # d => t.devices[e] = s.devices[e]
    BY <1>1, <1>2 DEF Shape
  <1>7. /\ DOMAIN NoDevice = {"used", "key", "facts", "protocols", "class", "services", "lastSeen",
                              "links", "dns", "dnsExpiry"}
        /\ NoDevice.lastSeen \in Nat /\ NoDevice.dnsExpiry \in Nat /\ NoDevice.facts = {}
    BY DEF NoDevice, Never
  <1>8. NoDevice.used = FALSE
    BY DEF NoDevice
  <1>9. Shape(t)
    <2>1. \A e \in DeviceSlots : DOMAIN t.devices[e] =
              {"used", "key", "facts", "protocols", "class", "services", "lastSeen",
               "links", "dns", "dnsExpiry"}
      BY <1>6, <1>7 DEF Shape
    <2> QED
      BY <1>5, <1>6, <2>1 DEF Shape
  <1>10. UD(t) = UD(s) \ {d} /\ UL(t) = UL(s) /\ UR(t) = UR(s)
    <2>1. ~ t.devices[d].used
      BY <1>6, <1>8
    <2> QED
      BY <1>5, <1>6, <2>1 DEF UD, UL, UR
  <1>11. \A e \in UD(t) : t.devices[e] = s.devices[e] /\ e \in UD(s) /\ e # d
    BY <1>6, <1>10 DEF UD
  <1>12. DevicesInv(t)
    <2>1. \A e \in DeviceSlots : t.devices[e].used \in BOOLEAN /\ t.devices[e].lastSeen \in Nat
      BY <1>6, <1>7, <1>8 DEF DevicesInv
    <2>2. Lists(t.freeDevices, DeviceSlots \ UD(t))
      <3>1. (DeviceSlots \ UD(s)) \cup {d} = DeviceSlots \ UD(t)
        BY <1>1, <1>10
      <3>2. Lists(s.freeDevices, DeviceSlots \ UD(s))
        BY DEF DevicesInv
      <3> QED
        BY <1>4, <3>1, <3>2, ListsAppend
    <2>3. \A e \in UD(t) : t.devices[e].key \in DeviceKeys
      BY <1>11 DEF DevicesInv
    <2>4. DOMAIN t.deviceByKey = DOMAIN s.deviceByKey \ {s.devices[d].key}
      BY <1>3 DEF Delete, Restrict
    <2>5. \A e \in UD(t) : s.devices[e].key # s.devices[d].key
      BY <1>11, KeysAreDistinct
    <2>6. DOMAIN t.deviceByKey = {t.devices[e].key : e \in UD(t)}
      <3>1. {t.devices[e].key : e \in UD(t)} = {s.devices[e].key : e \in UD(t)}
        BY <1>11
      <3>2. {s.devices[e].key : e \in UD(t)} = {s.devices[e].key : e \in UD(s)} \ {s.devices[d].key}
        BY <1>10, <2>5
      <3> QED
        BY <2>4, <3>1, <3>2 DEF DevicesInv
    <2>7. ASSUME NEW e \in UD(t) PROVE t.deviceByKey[t.devices[e].key] = e
      <3>1. s.deviceByKey[s.devices[e].key] = e /\ s.devices[e].key \in DOMAIN t.deviceByKey
        BY <1>11, <2>6 DEF DevicesInv
      <3> QED
        BY <1>3, <1>11, <2>4, <3>1 DEF Delete, Restrict
    <2>8. \A e \in DeviceSlots \ UD(t) : t.devices[e].facts = {}
      BY <1>6, <1>7, <1>10 DEF DevicesInv
    <2> QED
      BY <2>1, <2>2, <2>3, <2>6, <2>7, <2>8 DEF DevicesInv
  <1>13. \A i \in UL(s) : s.links[i].device \in UD(t)
    BY <1>10 DEF LinksInv, MovingLinks
  <1>14. \A i \in UR(s) : s.dns[i].device \in UD(t)
    BY <1>10 DEF RecordsInv, MovingRecords
  <1>15. LinksInv(t, {}, {})
    <2>1. \A e : LinksOf(t, e, {}) = LinksOf(s, e, {})
      BY <1>5, <1>10 DEF LinksOf
    <2>2. \A e \in UD(t) : Lists(t.devices[e].links, LinksOf(t, e, {}))
      BY <1>11, <2>1 DEF LinksInv
    <2>3. \A i \in UL(t) : t.links[i].device \in UD(t) /\ t.links[i].key \in LinkKeys
      BY <1>5, <1>10, <1>13 DEF LinksInv
    <2>4. ASSUME NEW i \in UL(t) \ {} PROVE t.links[i].key.device = t.devices[t.links[i].device].key
      <3>1. s.links[i].key.device = s.devices[s.links[i].device].key
        BY <1>10 DEF LinksInv
      <3>2. t.devices[s.links[i].device] = s.devices[s.links[i].device]
        BY <1>10, <1>11, <1>13
      <3> QED
        BY <1>5, <3>1, <3>2
    <2>5. Lists(t.freeLinks, LinkSlots \ UL(t))
      BY <1>5, <1>10 DEF LinksInv
    <2> QED
      BY <1>5, <1>10, <2>2, <2>3, <2>4, <2>5 DEF LinksInv
  <1>16. EvidenceInv(t, {})
    <2> SUFFICES ASSUME NEW i \in UL(t) \ {} PROVE Evident(t, i)
      BY DEF EvidenceInv
    <2>1. Evident(s, i) /\ t.devices[s.links[i].device] = s.devices[s.links[i].device]
      BY <1>10, <1>11, <1>13 DEF EvidenceInv
    <2> QED
      BY <1>5, <2>1 DEF Evident
  <1>17. LinkWheelInv(t, {}) /\ DNSWheelInv(t, {})
    BY <1>5, <1>10 DEF LinkWheelInv, DNSWheelInv
  <1>18. RecordsInv(t, {})
    <2>1. \A e : RecordsOf(t, e, {}) = RecordsOf(s, e, {})
      BY <1>5, <1>10 DEF RecordsOf
    <2>2. \A e \in UD(t) : Lists(t.devices[e].dns, RecordsOf(t, e, {}))
      BY <1>11, <2>1 DEF RecordsInv
    <2>3. \A e \in DeviceSlots : t.devices[e].dnsExpiry \in Nat
      BY <1>6, <1>7 DEF RecordsInv
    <2>4. \A i \in UR(t) : t.dns[i].device \in UD(t)
      BY <1>5, <1>10, <1>14
    <2>5. Lists(t.freeDNS, DNSSlots \ UR(t))
      BY <1>5, <1>10 DEF RecordsInv
    <2>6. \A k \in DOMAIN t.dnsByKey : t.dnsByKey[k] \in UR(t) /\ DNSKey(t, t.dnsByKey[k]) = k
      BY <1>5, <1>10 DEF RecordsInv, DNSKey
    <2>7. \A i \in DNSSlots : t.dns[i].used \in BOOLEAN /\ t.dns[i].expiresAt \in Nat
      BY <1>5 DEF RecordsInv
    <2> QED
      BY <2>2, <2>3, <2>4, <2>5, <2>6, <2>7 DEF RecordsInv
  <1>19. DeviceDropped(s, t, d)
    BY <1>5, <1>6, <1>10, <1>11 DEF DeviceDropped
  <1> QED
    BY <1>9, <1>12, <1>15, <1>16, <1>17, <1>18, <1>19

\* removeDevice takes the device, its links and its records out of the store.
LEMMA RemoveDeviceKeeps ==
    ASSUME NEW s, StoreInv(s), NEW d \in UD(s), NEW kind, NEW t, t = removeDevice(s, d, kind)
    PROVE  /\ StoreInv(t) /\ UD(t) = UD(s) \ {d} /\ SameDates(s, t)
           /\ \A e \in UD(t) : t.devices[e].key = s.devices[e].key
  <1>1. PICK L, R, p, q : /\ L = LinksOf(s, d, {}) /\ R = RecordsOf(s, d, {})
                          /\ p = Reverse(s.devices[d].links) /\ q = Reverse(s.devices[d].dns)
    OBVIOUS
  <1>2. Lists(p, L) /\ Lists(q, R)
    <2>1. Lists(s.devices[d].links, L) /\ Lists(s.devices[d].dns, R)
      BY <1>1 DEF StoreInv, Linked, LinksInv, Recorded, RecordsInv
    <2> QED
      BY <1>1, <2>1, ListsReverse
  <1>3. PICK u, v : u = removeLinks(s, p, kind) /\ v = removeRecords(u, q)
    OBVIOUS
  <1>4. t = dropDevice(v, d)
    BY <1>1, <1>3 DEF removeDevice
  <1>5. Linked(u, {}, {}, {}, {}) /\ LinksGone(s, u, L)
    <2>1. L \subseteq UL(s) /\ Linked(s, {}, {}, {}, {})
      BY <1>1 DEF LinksOf, StoreInv
    <2> QED
      BY <1>2, <1>3, <2>1, RemoveLinksKeeps
  <1>6. SameDevices(s, u) /\ SameRecords(s, u)
    BY <1>5 DEF LinksGone
  <1>7. StoreInv(u) /\ UD(u) = UD(s)
    BY <1>5, <1>6, LinkStepKeeps
  <1>8. MovingLinks(u, {}, d)
    BY <1>1, <1>5 DEF MovingLinks, LinksGone, LinksOf
  <1>9. R \subseteq UR(u) /\ RecordsOf(u, d, {}) = R
    BY <1>1, <1>6 DEF RecordsOf, SameRecords, UR
  <1>10. Recorded(v, {}, {}) /\ RecordsGone(u, v, R)
    BY <1>2, <1>3, <1>7, <1>9, RemoveRecordsKeeps DEF StoreInv
  <1>11. RecordStep(u, v)
    BY <1>10 DEF RecordsGone
  <1>12. StoreInv(v) /\ UD(v) = UD(u)
    BY <1>7, <1>10, <1>11, RecordStepKeeps
  <1>13. MovingLinks(v, {}, d)
    BY <1>8, <1>11 DEF MovingLinks, RecordStep, SameLinks, UL
  <1>14. MovingRecords(v, {}, d)
    BY <1>9, <1>10 DEF MovingRecords, RecordsGone, RecordsOf
  <1>15. d \in UD(v)
    BY <1>7, <1>12
  <1>16. StoreInv(t) /\ DeviceDropped(v, t, d)
    BY <1>4, <1>12, <1>13, <1>14, <1>15, DropDeviceKeeps
  <1>17. UD(t) = UD(s) \ {d}
    BY <1>7, <1>12, <1>16 DEF DeviceDropped
  <1>18. \A e \in UD(t) : t.devices[e].key = s.devices[e].key
    BY <1>6, <1>11, <1>16 DEF DeviceDropped, RecordStep, SameDevices, UD
  <1>19. SameDates(s, t)
    <2>1. SameDates(u, v) /\ SameDates(s, u)
      BY <1>6, <1>10, DatedGone, SameDatesSame DEF SameRecords
    <2>2. SameDates(v, t)
      BY <1>16, SameDatesSame DEF DeviceDropped
    <2> QED
      BY <2>1, <2>2, SameDatesThen
  <1> QED
    BY <1>16, <1>17, <1>18, <1>19

-----------------------------------------------------------------------------
(* A new device.                                                           *)

\* The state in which allocDevice takes an entry: it has a free one, and is
\* the state it was called in unless that had none.
LEMMA AllocDeviceKeeps ==
    ASSUME NEW s, StoreInv(s)
    PROVE  \E u : /\ allocDevice(s) = takeDevice(u) /\ StoreInv(u) /\ u.freeDevices # <<>>
                  /\ DOMAIN u.deviceByKey \subseteq DOMAIN s.deviceByKey /\ SameDates(s, u)
                  /\ s.freeDevices # <<>> => u = s
  <1>1. CASE s.freeDevices # <<>>
    BY <1>1, SameDatesSame DEF allocDevice
  <1>2. CASE s.freeDevices = <<>>
    <2>1. UD(s) = DeviceSlots
      BY <1>2 DEF StoreInv, DevicesInv, Lists, UD
    <2>2. PICK age, d, u : /\ age = [e \in DeviceSlots |-> s.devices[e].lastSeen]
                           /\ d = Oldest(s.devices, age) /\ u = removeDevice(s, d, "Evicted")
      OBVIOUS
    <2>3. /\ MaxDevices \in Nat /\ DeviceSlots = 1..MaxDevices /\ 1 \in DeviceSlots
          /\ DOMAIN s.devices = 1..MaxDevices
      BY SlabAssumption DEF DeviceSlots, StoreInv, Linked, Shape
    <2>4. \A e \in 1..MaxDevices : age[e] \in Nat
      BY <2>2, <2>3 DEF StoreInv, DevicesInv
    <2>5. d \in 1..MaxDevices /\ s.devices[d].used
      <3>1. s.devices[1].used
        BY <2>1, <2>3 DEF UD
      <3> QED
        BY <2>2, <2>3, <2>4, <3>1, OldestIsUsed
    <2>6. d \in UD(s)
      BY <2>3, <2>5 DEF UD
    <2>7. PICK kind : kind = "Evicted"
      OBVIOUS
    <2>8. u = removeDevice(s, d, kind)
      BY <2>2, <2>7
    <2>9. /\ StoreInv(u) /\ UD(u) = UD(s) \ {d} /\ SameDates(s, u)
          /\ \A e \in UD(u) : u.devices[e].key = s.devices[e].key
      BY <2>6, <2>8, RemoveDeviceKeeps
    <2>10. u.freeDevices # <<>>
      <3>1. d \in DeviceSlots \ UD(u)
        BY <2>6, <2>9 DEF UD
      <3>2. Lists(u.freeDevices, DeviceSlots \ UD(u))
        BY <2>9 DEF StoreInv, DevicesInv
      <3> QED
        BY <3>1, <3>2 DEF Lists
    <2>11. DOMAIN u.deviceByKey \subseteq DOMAIN s.deviceByKey
      <3>1. DOMAIN u.deviceByKey = {u.devices[e].key : e \in UD(u)}
        BY <2>9 DEF StoreInv, DevicesInv
      <3>2. DOMAIN s.deviceByKey = {s.devices[e].key : e \in UD(s)}
        BY DEF StoreInv, DevicesInv
      <3> QED
        BY <2>9, <3>1, <3>2
    <2>12. allocDevice(s) = takeDevice(u)
      BY <1>2, <2>2 DEF allocDevice
    <2> QED
      BY <1>2, <2>9, <2>10, <2>11, <2>12
  <1> QED
    BY <1>1, <1>2

\* A new key takes a free entry of the slab.
LEMMA InsertDeviceKeeps ==
    ASSUME NEW s, StoreInv(s), s.freeDevices # <<>>, NEW key \in DeviceKeys, key \notin DOMAIN s.deviceByKey,
           NEW at \in Nat, NEW f, f = insertDevice(takeDevice(s), key, at)
    PROVE  StoreInv(f.s) /\ f.idx \in UD(f.s) /\ f.s.dns = s.dns /\ Kept(s, f.s)
  <1> USE DEF StoreInv, Linked, Recorded
  <1>1. PICK d, a, v : d = Last(s.freeDevices) /\ a = takeDevice(s) /\ v = a.s
    OBVIOUS
  <1>2. d \in DeviceSlots \ UD(s) /\ Lists(Front(s.freeDevices), (DeviceSlots \ UD(s)) \ {d})
    BY <1>1, ListsLast DEF DevicesInv
  <1>3. a.idx = d /\ v = [s EXCEPT !.freeDevices = Front(@)]
    BY <1>1 DEF takeDevice
  <1>4. /\ DOMAIN v = DOMAIN s /\ v.freeDevices = Front(s.freeDevices)
        /\ v.links = s.links /\ v.linkByKey = s.linkByKey
        /\ v.freeLinks = s.freeLinks /\ v.linkWheel = s.linkWheel
        /\ v.dns = s.dns /\ v.dnsByKey = s.dnsByKey
        /\ v.freeDNS = s.freeDNS /\ v.dnsWheel = s.dnsWheel
        /\ v.devices = s.devices /\ v.deviceByKey = s.deviceByKey
    BY <1>3 DEF Shape
  <1>5. PICK e : e = [NoDevice EXCEPT !.used = TRUE, !.key = key, !.lastSeen = at]
    OBVIOUS
  <1>6. /\ DOMAIN e = {"used", "key", "facts", "protocols", "class", "services", "lastSeen",
                       "links", "dns", "dnsExpiry"}
        /\ e.key = key /\ e.lastSeen = at /\ e.dnsExpiry \in Nat /\ e.links = <<>> /\ e.dns = <<>>
        /\ e.facts = {}
    BY <1>5 DEF NoDevice, Never
  <1>7. e.used = TRUE
    BY <1>5 DEF NoDevice
  <1>8. PICK t : t = [v EXCEPT !.devices[d] = e, !.deviceByKey = Store(@, key, d)]
    OBVIOUS
  <1>9. f.s = t /\ f.idx = d
    BY <1>1, <1>3, <1>5, <1>8 DEF insertDevice
  <1>10. t.devices = [s.devices EXCEPT ![d] = e]
    BY <1>4, <1>8 DEF Shape
  <1>11. t.deviceByKey = Store(s.deviceByKey, key, d)
    BY <1>4, <1>8 DEF Shape
  <1>12. /\ DOMAIN t = DOMAIN s /\ t.freeDevices = Front(s.freeDevices)
         /\ t.links = s.links /\ t.linkByKey = s.linkByKey
         /\ t.freeLinks = s.freeLinks /\ t.linkWheel = s.linkWheel
         /\ t.dns = s.dns /\ t.dnsByKey = s.dnsByKey
         /\ t.freeDNS = s.freeDNS /\ t.dnsWheel = s.dnsWheel
    BY <1>4, <1>8 DEF Shape
  <1>13. /\ t.devices[d] = e /\ DOMAIN t.devices = DeviceSlots
         /\ \A x \in DeviceSlots : x # d => t.devices[x] = s.devices[x]
    BY <1>2, <1>10 DEF Shape
  <1>14. Shape(t)
    <2>1. \A x \in DeviceSlots : DOMAIN t.devices[x] =
              {"used", "key", "facts", "protocols", "class", "services", "lastSeen",
               "links", "dns", "dnsExpiry"}
      BY <1>6, <1>13 DEF Shape
    <2> QED
      BY <1>12, <1>13, <2>1 DEF Shape
  <1>15. UD(t) = UD(s) \cup {d} /\ UL(t) = UL(s) /\ UR(t) = UR(s)
    <2>1. t.devices[d].used
      BY <1>7, <1>13
    <2> QED
      BY <1>2, <1>12, <1>13, <2>1 DEF UD, UL, UR
  <1>16. \A x \in UD(s) : t.devices[x] = s.devices[x] /\ x # d
    BY <1>2, <1>13 DEF UD
  <1>17. DevicesInv(t)
    <2>1. \A x \in DeviceSlots : t.devices[x].used \in BOOLEAN /\ t.devices[x].lastSeen \in Nat
      <3>1. e.used \in BOOLEAN
        BY <1>7
      <3> QED
        BY <1>6, <1>13, <3>1 DEF DevicesInv
    <2>2. Lists(t.freeDevices, DeviceSlots \ UD(t))
      <3>1. (DeviceSlots \ UD(s)) \ {d} = DeviceSlots \ UD(t)
        BY <1>15
      <3> QED
        BY <1>2, <1>12, <3>1
    <2>3. \A x \in UD(t) : t.devices[x].key \in DeviceKeys
      BY <1>6, <1>13, <1>15, <1>16 DEF DevicesInv
    <2>4. DOMAIN t.deviceByKey = {t.devices[x].key : x \in UD(t)}
      <3>1. DOMAIN t.deviceByKey = {s.devices[x].key : x \in UD(s)} \cup {key}
        BY <1>11 DEF Store, DevicesInv
      <3>2. {t.devices[x].key : x \in UD(t)} = {s.devices[x].key : x \in UD(s)} \cup {key}
        BY <1>6, <1>13, <1>15, <1>16
      <3> QED
        BY <3>1, <3>2
    <2>5. ASSUME NEW x \in UD(t) PROVE t.deviceByKey[t.devices[x].key] = x
      <3>1. CASE x = d
        BY <1>6, <1>11, <1>13, <3>1 DEF Store
      <3>2. CASE x # d
        <4>1. x \in UD(s) /\ t.devices[x] = s.devices[x]
          BY <1>15, <1>16, <3>2
        <4>2. s.devices[x].key \in DOMAIN s.deviceByKey /\ s.deviceByKey[s.devices[x].key] = x
          BY <4>1 DEF DevicesInv
        <4> QED
          BY <1>11, <4>1, <4>2 DEF Store
      <3> QED
        BY <3>1, <3>2
    <2>6. \A x \in DeviceSlots \ UD(t) : t.devices[x].facts = {}
      BY <1>13, <1>15 DEF DevicesInv
    <2> QED
      BY <2>1, <2>2, <2>3, <2>4, <2>5, <2>6 DEF DevicesInv
  <1>18. \A i \in UL(s) : s.links[i].device \in UD(s)
    BY DEF LinksInv
  <1>19. \A i \in UR(s) : s.dns[i].device \in UD(s)
    BY DEF RecordsInv
  <1>20. Lists(<<>>, {})
    BY DEF Lists
  <1>21. LinksInv(t, {}, {})
    <2>1. \A x : LinksOf(t, x, {}) = LinksOf(s, x, {})
      BY <1>12, <1>15 DEF LinksOf
    <2>2. LinksOf(s, d, {}) = {}
      BY <1>2, <1>18 DEF LinksOf
    <2>3. ASSUME NEW x \in UD(t) PROVE Lists(t.devices[x].links, LinksOf(t, x, {}))
      <3>1. CASE x = d
        <4>1. t.devices[x].links = <<>> /\ LinksOf(t, x, {}) = {}
          BY <1>6, <1>13, <2>1, <2>2, <3>1
        <4> QED
          BY <1>20, <4>1
      <3>2. CASE x # d
        <4>1. x \in UD(s) /\ t.devices[x] = s.devices[x]
          BY <1>15, <1>16, <3>2
        <4>2. Lists(s.devices[x].links, LinksOf(s, x, {}))
          BY <4>1 DEF LinksInv
        <4> QED
          BY <2>1, <4>1, <4>2
      <3> QED
        BY <3>1, <3>2
    <2>4. \A i \in UL(t) : t.links[i].device \in UD(t) /\ t.links[i].key \in LinkKeys
      BY <1>12, <1>15, <1>18 DEF LinksInv
    <2>5. ASSUME NEW i \in UL(t) \ {} PROVE t.links[i].key.device = t.devices[t.links[i].device].key
      <3>1. s.links[i].key.device = s.devices[s.links[i].device].key
        BY <1>15 DEF LinksInv
      <3>2. t.devices[s.links[i].device] = s.devices[s.links[i].device]
        BY <1>15, <1>16, <1>18
      <3> QED
        BY <1>12, <3>1, <3>2
    <2>6. Lists(t.freeLinks, LinkSlots \ UL(t))
      BY <1>12, <1>15 DEF LinksInv
    <2> QED
      BY <1>12, <1>15, <2>3, <2>4, <2>5, <2>6 DEF LinksInv
  <1>22. EvidenceInv(t, {})
    <2> SUFFICES ASSUME NEW i \in UL(t) \ {} PROVE Evident(t, i)
      BY DEF EvidenceInv
    <2>1. Evident(s, i) /\ t.devices[s.links[i].device] = s.devices[s.links[i].device]
      BY <1>15, <1>16, <1>18 DEF EvidenceInv
    <2> QED
      BY <1>12, <2>1 DEF Evident
  <1>23. LinkWheelInv(t, {}) /\ DNSWheelInv(t, {})
    BY <1>12, <1>15 DEF LinkWheelInv, DNSWheelInv
  <1>24. RecordsInv(t, {})
    <2>1. \A x : RecordsOf(t, x, {}) = RecordsOf(s, x, {})
      BY <1>12, <1>15 DEF RecordsOf
    <2>2. RecordsOf(s, d, {}) = {}
      BY <1>2, <1>19 DEF RecordsOf
    <2>3. ASSUME NEW x \in UD(t) PROVE Lists(t.devices[x].dns, RecordsOf(t, x, {}))
      <3>1. CASE x = d
        <4>1. t.devices[x].dns = <<>> /\ RecordsOf(t, x, {}) = {}
          BY <1>6, <1>13, <2>1, <2>2, <3>1
        <4> QED
          BY <1>20, <4>1
      <3>2. CASE x # d
        <4>1. x \in UD(s) /\ t.devices[x] = s.devices[x]
          BY <1>15, <1>16, <3>2
        <4>2. Lists(s.devices[x].dns, RecordsOf(s, x, {}))
          BY <4>1 DEF RecordsInv
        <4> QED
          BY <2>1, <4>1, <4>2
      <3> QED
        BY <3>1, <3>2
    <2>4. \A x \in DeviceSlots : t.devices[x].dnsExpiry \in Nat
      BY <1>6, <1>13 DEF RecordsInv
    <2>5. \A i \in UR(t) : t.dns[i].device \in UD(t)
      BY <1>12, <1>15, <1>19
    <2>6. Lists(t.freeDNS, DNSSlots \ UR(t))
      BY <1>12, <1>15 DEF RecordsInv
    <2>7. \A k \in DOMAIN t.dnsByKey : t.dnsByKey[k] \in UR(t) /\ DNSKey(t, t.dnsByKey[k]) = k
      BY <1>12, <1>15 DEF RecordsInv, DNSKey
    <2>8. \A i \in DNSSlots : t.dns[i].used \in BOOLEAN /\ t.dns[i].expiresAt \in Nat
      BY <1>12 DEF RecordsInv
    <2> QED
      BY <2>3, <2>4, <2>5, <2>6, <2>7, <2>8 DEF RecordsInv
  <1>25. StoreInv(t) /\ d \in UD(t)
    BY <1>14, <1>15, <1>17, <1>21, <1>22, <1>23, <1>24
  <1>26. Kept(s, t)
    <2>1. s.devices[d].facts = {}
      BY <1>2 DEF DevicesInv
    <2>2. \A x \in DeviceSlots : s.devices[x].facts \subseteq t.devices[x].facts
      BY <1>13, <2>1
    <2> QED
      BY <2>2, KeptSame
  <1> QED
    BY <1>9, <1>12, <1>25, <1>26

-----------------------------------------------------------------------------
(* A device gets its MAC as key.                                           *)

\* The first part of promoteDevice, before its loop over the links.
rekeyDevice(s, d, key) ==
    [s EXCEPT !.deviceByKey = Store(Delete(@, s.devices[d].key), key, d), !.devices[d].key = key]

\* Until its links follow, those carry the key it had.
LEMMA RekeyDeviceKeeps ==
    ASSUME NEW s, StoreInv(s), NEW d \in UD(s), NEW key \in DeviceKeys,
           \A e \in UD(s) : s.devices[e].key = key => e = d,
           NEW t, t = rekeyDevice(s, d, key)
    PROVE  /\ DevicesInv(t) /\ Linked(t, {}, LinksOf(s, d, {}), {}, {}) /\ Recorded(t, {}, {})
           /\ UD(t) = UD(s) /\ t.devices[d].key = key /\ PendingLinks(t, LinksOf(s, d, {}), d)
           /\ t.dns = s.dns /\ \A e \in DeviceSlots : t.devices[e].facts = s.devices[e].facts
  <1> USE DEF StoreInv, Linked, Recorded
  <1>1. d \in DeviceSlots
    BY DEF UD
  <1>2. t.devices = [s.devices EXCEPT ![d].key = key]
    BY DEF rekeyDevice, Shape
  <1>3. t.deviceByKey = Store(Delete(s.deviceByKey, s.devices[d].key), key, d)
    BY DEF rekeyDevice, Shape
  <1>4. /\ DOMAIN t = DOMAIN s /\ t.freeDevices = s.freeDevices
        /\ t.links = s.links /\ t.linkByKey = s.linkByKey
        /\ t.freeLinks = s.freeLinks /\ t.linkWheel = s.linkWheel
        /\ t.dns = s.dns /\ t.dnsByKey = s.dnsByKey
        /\ t.freeDNS = s.freeDNS /\ t.dnsWheel = s.dnsWheel
    BY DEF rekeyDevice, Shape
  <1>5. \A e \in DeviceSlots : /\ t.devices[e].used = s.devices[e].used
                               /\ t.devices[e].protocols = s.devices[e].protocols
                               /\ t.devices[e].links = s.devices[e].links
                               /\ t.devices[e].dns = s.devices[e].dns
                               /\ t.devices[e].dnsExpiry = s.devices[e].dnsExpiry
                               /\ t.devices[e].facts = s.devices[e].facts
                               /\ t.devices[e].lastSeen = s.devices[e].lastSeen
                               /\ DOMAIN t.devices[e] = DOMAIN s.devices[e]
    BY <1>1, <1>2 DEF Shape
  <1>6. /\ t.devices[d].key = key /\ DOMAIN t.devices = DOMAIN s.devices
        /\ \A e \in DeviceSlots : e # d => t.devices[e].key = s.devices[e].key
    BY <1>1, <1>2 DEF Shape
  <1>7. Shape(t)
    <2>1. \A e \in DeviceSlots : DOMAIN t.devices[e] = DOMAIN s.devices[e]
      BY <1>5
    <2> QED
      BY <1>4, <1>6, <2>1 DEF Shape
  <1>8. UD(t) = UD(s) /\ UL(t) = UL(s) /\ UR(t) = UR(s)
    BY <1>4, <1>5 DEF UD, UL, UR
  <1>9. DevicesInv(t)
    <2>1. \A e \in DeviceSlots : t.devices[e].used \in BOOLEAN /\ t.devices[e].lastSeen \in Nat
      BY <1>5 DEF DevicesInv
    <2>2. Lists(t.freeDevices, DeviceSlots \ UD(t))
      BY <1>4, <1>8 DEF DevicesInv
    <2>3. \A e \in UD(t) : t.devices[e].key \in DeviceKeys
      BY <1>6, <1>8 DEF DevicesInv, UD
    <2>4. \A e \in UD(s) : e # d => s.devices[e].key # s.devices[d].key
      BY KeysAreDistinct
    <2>5. DOMAIN t.deviceByKey = ({s.devices[e].key : e \in UD(s)} \ {s.devices[d].key}) \cup {key}
      BY <1>3 DEF Store, Delete, Restrict, DevicesInv
    <2>6. {t.devices[e].key : e \in UD(t)} = ({s.devices[e].key : e \in UD(s)} \ {s.devices[d].key}) \cup {key}
      <3>1. \A e \in UD(s) : e # d => t.devices[e].key = s.devices[e].key
        BY <1>6 DEF UD
      <3> QED
        BY <1>6, <1>8, <2>4, <3>1
    <2>7. ASSUME NEW e \in UD(t) PROVE t.deviceByKey[t.devices[e].key] = e
      <3>1. CASE e = d
        BY <1>3, <1>6, <3>1 DEF Store
      <3>2. CASE e # d
        <4>1. e \in UD(s) /\ t.devices[e].key = s.devices[e].key /\ s.devices[e].key # key
          BY <1>6, <1>8, <3>2 DEF UD
        <4>2. /\ s.devices[e].key \in DOMAIN s.deviceByKey /\ s.deviceByKey[s.devices[e].key] = e
              /\ s.devices[e].key # s.devices[d].key
          BY <2>4, <3>2, <4>1 DEF DevicesInv
        <4> QED
          BY <1>3, <4>1, <4>2 DEF Store, Delete, Restrict
      <3> QED
        BY <3>1, <3>2
    <2>8. \A e \in DeviceSlots \ UD(t) : t.devices[e].facts = {}
      BY <1>5, <1>8 DEF DevicesInv
    <2> QED
      BY <2>1, <2>2, <2>3, <2>5, <2>6, <2>7, <2>8 DEF DevicesInv
  <1>10. LinksInv(t, {}, LinksOf(s, d, {}))
    <2>1. \A e : LinksOf(t, e, {}) = LinksOf(s, e, {})
      BY <1>4, <1>8 DEF LinksOf
    <2>2. \A e \in UD(t) : Lists(t.devices[e].links, LinksOf(t, e, {}))
      <3>1. \A e \in UD(t) : t.devices[e].links = s.devices[e].links
        BY <1>5 DEF UD
      <3> QED
        BY <1>8, <2>1, <3>1 DEF LinksInv
    <2>3. \A i \in UL(t) : t.links[i].device \in UD(t) /\ t.links[i].key \in LinkKeys
      BY <1>4, <1>8 DEF LinksInv
    <2>4. ASSUME NEW i \in UL(t) \ LinksOf(s, d, {})
          PROVE  t.links[i].key.device = t.devices[t.links[i].device].key
      <3>1. s.links[i].key.device = s.devices[s.links[i].device].key /\ s.links[i].device \in DeviceSlots
        BY <1>8 DEF LinksInv, UD
      <3>2. s.links[i].device # d
        BY <1>8 DEF LinksOf
      <3> QED
        BY <1>4, <1>6, <3>1, <3>2
    <2>5. Lists(t.freeLinks, LinkSlots \ UL(t))
      BY <1>4, <1>8 DEF LinksInv
    <2> QED
      BY <1>4, <1>8, <2>2, <2>3, <2>4, <2>5 DEF LinksInv
  <1>11. EvidenceInv(t, {})
    <2> SUFFICES ASSUME NEW i \in UL(t) \ {} PROVE Evident(t, i)
      BY DEF EvidenceInv
    <2>1. Evident(s, i) /\ s.links[i].device \in DeviceSlots
      BY <1>8 DEF EvidenceInv, LinksInv, UD
    <2>2. t.devices[s.links[i].device].protocols = s.devices[s.links[i].device].protocols
      BY <1>5, <2>1
    <2> QED
      BY <1>4, <2>1, <2>2 DEF Evident
  <1>12. LinkWheelInv(t, {}) /\ DNSWheelInv(t, {})
    BY <1>4, <1>8 DEF LinkWheelInv, DNSWheelInv
  <1>13. RecordsInv(t, {})
    <2>1. \A e : RecordsOf(t, e, {}) = RecordsOf(s, e, {})
      BY <1>4, <1>8 DEF RecordsOf
    <2>2. \A e \in UD(t) : Lists(t.devices[e].dns, RecordsOf(t, e, {}))
      <3>1. \A e \in UD(t) : t.devices[e].dns = s.devices[e].dns
        BY <1>5 DEF UD
      <3> QED
        BY <1>8, <2>1, <3>1 DEF RecordsInv
    <2>3. \A e \in DeviceSlots : t.devices[e].dnsExpiry \in Nat
      BY <1>5 DEF RecordsInv
    <2>4. \A i \in UR(t) : t.dns[i].device \in UD(t)
      BY <1>4, <1>8 DEF RecordsInv
    <2>5. Lists(t.freeDNS, DNSSlots \ UR(t))
      BY <1>4, <1>8 DEF RecordsInv
    <2>6. \A k \in DOMAIN t.dnsByKey : t.dnsByKey[k] \in UR(t) /\ DNSKey(t, t.dnsByKey[k]) = k
      BY <1>4, <1>8 DEF RecordsInv, DNSKey
    <2>7. \A i \in DNSSlots : t.dns[i].used \in BOOLEAN /\ t.dns[i].expiresAt \in Nat
      BY <1>4 DEF RecordsInv
    <2> QED
      BY <2>2, <2>3, <2>4, <2>5, <2>6, <2>7 DEF RecordsInv
  <1>14. PendingLinks(t, LinksOf(s, d, {}), d)
    BY <1>4, <1>8 DEF PendingLinks, LinksOf
  <1>15. \A e \in DeviceSlots : t.devices[e].facts = s.devices[e].facts
    BY <1>5
  <1> QED
    BY <1>4, <1>6, <1>7, <1>8, <1>9, <1>10, <1>11, <1>12, <1>13, <1>14, <1>15

\* promoteDevice gives a device a better key, and its links keys to match.
LEMMA PromoteDeviceKeeps ==
    ASSUME NEW s, StoreInv(s), NEW d \in UD(s), NEW key \in DeviceKeys,
           \A e \in UD(s) : s.devices[e].key = key => e = d,
           NEW t, t = promoteDevice(s, d, key)
    PROVE  StoreInv(t) /\ d \in UD(t) /\ t.dns = s.dns /\ Kept(s, t)
  <1>1. PICK u, K, q : u = rekeyDevice(s, d, key) /\ K = LinksOf(s, d, {}) /\ q = s.devices[d].links
    OBVIOUS
  <1>2. /\ DevicesInv(u) /\ Linked(u, {}, K, {}, {}) /\ Recorded(u, {}, {})
        /\ UD(u) = UD(s) /\ u.devices[d].key = key /\ PendingLinks(u, K, d)
        /\ u.dns = s.dns /\ \A e \in DeviceSlots : u.devices[e].facts = s.devices[e].facts
    BY <1>1, RekeyDeviceKeeps
  <1>3. t = rekeyLinks(u, q, key)
    BY <1>1 DEF promoteDevice, rekeyDevice
  <1>4. Lists(q, K)
    BY <1>1 DEF StoreInv, Linked, LinksInv
  <1>5. /\ Linked(t, {}, {}, {}, {}) /\ SameDevices(u, t) /\ SameRecords(u, t)
        /\ t.devices = u.devices
    BY <1>2, <1>3, <1>4, RekeyLinksKeeps
  <1>6. DevicesInv(t) /\ UD(t) = UD(u)
    BY <1>2, <1>5, DevicesFrame
  <1>7. Recorded(t, {}, {}) /\ t.dns = s.dns
    BY <1>2, <1>5, RecordedFrame DEF Linked, SameRecords
  <1>8. Kept(s, t)
    <2>1. \A e \in DeviceSlots : s.devices[e].facts \subseteq t.devices[e].facts
      BY <1>2, <1>5
    <2> QED
      BY <2>1, KeptSame
  <1> QED
    BY <1>2, <1>5, <1>6, <1>7, <1>8 DEF StoreInv

-----------------------------------------------------------------------------
(* Two entries turn out to be one device.                                  *)

\* The beginning of mergeDevices: dst knows what src knew, and the links and
\* records of src are on no list.
joinDevices(s, dst, src) ==
    [s EXCEPT !.devices[dst].facts = @ \cup s.devices[src].facts,
              !.devices[dst].protocols = @ \cup s.devices[src].protocols,
              !.devices[dst].lastSeen = Later(@, s.devices[src].lastSeen),
              !.devices[src].links = <<>>,
              !.devices[src].dns = <<>>]

\* After the first part of mergeDevices the links and records of src are on
\* no list, and everything else is in order.
LEMMA JoinDevicesKeeps ==
    ASSUME NEW s, StoreInv(s), NEW src \in UD(s), NEW dst \in UD(s), src # dst,
           NEW P, P = LinksOf(s, src, {}), NEW R, R = RecordsOf(s, src, {}),
           NEW t, t = joinDevices(s, dst, src)
    PROVE  /\ DevicesInv(t) /\ UD(t) = UD(s) /\ Merging(t, src, dst)
           /\ Linked(t, P, {}, {}, {}) /\ MovingLinks(t, P, src)
           /\ Recorded(t, R, {}) /\ MovingRecords(t, R, src) /\ t.dns = s.dns
           /\ SameDevices(s, t) /\ s.devices[src].facts \subseteq t.devices[dst].facts
  <1> USE DEF StoreInv, Linked, Recorded
  <1>1. src \in DeviceSlots /\ dst \in DeviceSlots
    BY DEF UD
  <1>2. PICK e : e = [s.devices[dst] EXCEPT !.facts = @ \cup s.devices[src].facts,
                                            !.protocols = @ \cup s.devices[src].protocols,
                                            !.lastSeen = Later(@, s.devices[src].lastSeen)]
    OBVIOUS
  <1>3. PICK f : f = [s.devices[src] EXCEPT !.links = <<>>, !.dns = <<>>]
    OBVIOUS
  <1>4. /\ DOMAIN e = DOMAIN s.devices[dst] /\ e.used = s.devices[dst].used /\ e.key = s.devices[dst].key
        /\ e.links = s.devices[dst].links /\ e.dns = s.devices[dst].dns
        /\ e.dnsExpiry = s.devices[dst].dnsExpiry
        /\ e.protocols = s.devices[dst].protocols \cup s.devices[src].protocols
        /\ e.facts = s.devices[dst].facts \cup s.devices[src].facts
        /\ e.lastSeen = Later(s.devices[dst].lastSeen, s.devices[src].lastSeen)
    BY <1>1, <1>2 DEF Shape
  <1>5. /\ DOMAIN f = DOMAIN s.devices[src] /\ f.used = s.devices[src].used /\ f.key = s.devices[src].key
        /\ f.links = <<>> /\ f.dns = <<>> /\ f.dnsExpiry = s.devices[src].dnsExpiry
        /\ f.protocols = s.devices[src].protocols /\ f.lastSeen = s.devices[src].lastSeen
        /\ f.facts = s.devices[src].facts
    BY <1>1, <1>3 DEF Shape
  <1>6. /\ DOMAIN t = DOMAIN s /\ t.freeDevices = s.freeDevices /\ t.deviceByKey = s.deviceByKey
        /\ t.links = s.links /\ t.linkByKey = s.linkByKey
        /\ t.freeLinks = s.freeLinks /\ t.linkWheel = s.linkWheel
        /\ t.dns = s.dns /\ t.dnsByKey = s.dnsByKey
        /\ t.freeDNS = s.freeDNS /\ t.dnsWheel = s.dnsWheel
    BY DEF joinDevices, Shape
  <1>7. DOMAIN t.devices = DeviceSlots
    BY DEF joinDevices, Shape
  <1>8. \A d \in DeviceSlots : d # dst /\ d # src => t.devices[d] = s.devices[d]
    BY DEF joinDevices, Shape
  <1>9. t.devices[dst] = e
    BY <1>1, <1>2 DEF joinDevices, Shape
  <1>10. t.devices[src] = f
    BY <1>1, <1>3 DEF joinDevices, Shape
  <1>11. e.lastSeen \in Nat
    BY <1>1, <1>4, LaterNat DEF DevicesInv
  <1>12. Shape(t)
    <2>1. \A d \in DeviceSlots : DOMAIN t.devices[d] =
              {"used", "key", "facts", "protocols", "class", "services", "lastSeen",
               "links", "dns", "dnsExpiry"}
      BY <1>1, <1>4, <1>5, <1>8, <1>9, <1>10 DEF Shape
    <2> QED
      BY <1>6, <1>7, <2>1 DEF Shape
  <1>13. SameDevices(s, t)
    <2>1. s.devices[dst].used
      BY DEF UD
    <2>2. \A d \in DeviceSlots : /\ t.devices[d].used = s.devices[d].used
                                 /\ t.devices[d].key = s.devices[d].key
                                 /\ s.devices[d].lastSeen \in Nat => t.devices[d].lastSeen \in Nat
      BY <1>4, <1>5, <1>8, <1>9, <1>10, <1>11
    <2>3. \A d \in DeviceSlots : /\ s.devices[d].facts \subseteq t.devices[d].facts
                                 /\ d # dst => t.devices[d].facts = s.devices[d].facts
      BY <1>4, <1>5, <1>8, <1>9, <1>10
    <2> QED
      BY <1>6, <2>1, <2>2, <2>3 DEF SameDevices
  <1>14. DevicesInv(t) /\ UD(t) = UD(s)
    BY <1>13, DevicesFrame
  <1>15. UL(t) = UL(s) /\ UR(t) = UR(s)
    BY <1>6 DEF UL, UR
  <1>16. Merging(t, src, dst)
    <2>1. t.devices[src].protocols \subseteq t.devices[dst].protocols
      BY <1>4, <1>5, <1>9, <1>10
    <2> QED
      BY <1>14, <2>1 DEF Merging
  <1>17. MovingLinks(t, P, src) /\ MovingRecords(t, R, src)
    BY <1>6, <1>15 DEF MovingLinks, MovingRecords, LinksOf, RecordsOf
  <1>18. Lists(<<>>, {})
    BY DEF Lists
  <1>19. \A d \in DeviceSlots : t.devices[d].key = s.devices[d].key
    BY <1>4, <1>5, <1>8, <1>9, <1>10
  <1>20. \A d \in DeviceSlots : d # src => /\ t.devices[d].links = s.devices[d].links
                                           /\ t.devices[d].dns = s.devices[d].dns
    BY <1>4, <1>8, <1>9
  <1>21. \A d \in DeviceSlots : /\ s.devices[d].protocols \subseteq t.devices[d].protocols
                                /\ t.devices[d].dnsExpiry = s.devices[d].dnsExpiry
    BY <1>4, <1>5, <1>8, <1>9, <1>10
  <1>22. LinksInv(t, P, {})
    <2>1. LinksOf(t, src, P) = {}
      BY <1>6, <1>15 DEF LinksOf
    <2>2. \A d : d # src => LinksOf(t, d, P) = LinksOf(s, d, {})
      BY <1>6, <1>15 DEF LinksOf
    <2>3. ASSUME NEW d \in UD(t) PROVE Lists(t.devices[d].links, LinksOf(t, d, P))
      <3>1. CASE d = src
        BY <1>5, <1>10, <1>18, <2>1, <3>1
      <3>2. CASE d # src
        <4>1. Lists(s.devices[d].links, LinksOf(s, d, {}))
          BY <1>14 DEF LinksInv
        <4>2. t.devices[d].links = s.devices[d].links
          BY <1>20, <3>2 DEF UD
        <4> QED
          BY <2>2, <3>2, <4>1, <4>2
      <3> QED
        BY <3>1, <3>2
    <2>4. \A i \in UL(t) : t.links[i].device \in UD(t) /\ t.links[i].key \in LinkKeys
      BY <1>6, <1>14, <1>15 DEF LinksInv
    <2>5. ASSUME NEW i \in UL(t) \ {} PROVE t.links[i].key.device = t.devices[t.links[i].device].key
      <3>1. s.links[i].key.device = s.devices[s.links[i].device].key /\ s.links[i].device \in DeviceSlots
        BY <1>15 DEF LinksInv, UD
      <3> QED
        BY <1>6, <1>19, <3>1
    <2>6. Lists(t.freeLinks, LinkSlots \ UL(t))
      BY <1>6, <1>15 DEF LinksInv
    <2> QED
      BY <1>6, <1>15, <2>3, <2>4, <2>5, <2>6 DEF LinksInv
  <1>23. EvidenceInv(t, {})
    <2> SUFFICES ASSUME NEW i \in UL(t) \ {} PROVE Evident(t, i)
      BY DEF EvidenceInv
    <2>1. Evident(s, i) /\ s.links[i].device \in DeviceSlots
      BY <1>15 DEF EvidenceInv, LinksInv, UD
    <2>2. s.devices[s.links[i].device].protocols \subseteq t.devices[s.links[i].device].protocols
      BY <1>21, <2>1
    <2> QED
      BY <1>6, <2>1, <2>2 DEF Evident
  <1>24. LinkWheelInv(t, {}) /\ DNSWheelInv(t, {})
    BY <1>6, <1>15 DEF LinkWheelInv, DNSWheelInv
  <1>25. RecordsInv(t, R)
    <2>1. RecordsOf(t, src, R) = {}
      BY <1>6, <1>15 DEF RecordsOf
    <2>2. \A d : d # src => RecordsOf(t, d, R) = RecordsOf(s, d, {})
      BY <1>6, <1>15 DEF RecordsOf
    <2>3. ASSUME NEW d \in UD(t) PROVE Lists(t.devices[d].dns, RecordsOf(t, d, R))
      <3>1. CASE d = src
        BY <1>5, <1>10, <1>18, <2>1, <3>1
      <3>2. CASE d # src
        <4>1. Lists(s.devices[d].dns, RecordsOf(s, d, {}))
          BY <1>14 DEF RecordsInv
        <4>2. t.devices[d].dns = s.devices[d].dns
          BY <1>20, <3>2 DEF UD
        <4> QED
          BY <2>2, <3>2, <4>1, <4>2
      <3> QED
        BY <3>1, <3>2
    <2>4. \A d \in DeviceSlots : t.devices[d].dnsExpiry \in Nat
      BY <1>21 DEF RecordsInv
    <2>5. \A i \in UR(t) : t.dns[i].device \in UD(t)
      BY <1>6, <1>14, <1>15 DEF RecordsInv
    <2>6. Lists(t.freeDNS, DNSSlots \ UR(t))
      BY <1>6, <1>15 DEF RecordsInv
    <2>7. \A k \in DOMAIN t.dnsByKey : t.dnsByKey[k] \in UR(t) /\ DNSKey(t, t.dnsByKey[k]) = k
      BY <1>6, <1>15 DEF RecordsInv, DNSKey
    <2>8. \A i \in DNSSlots : t.dns[i].used \in BOOLEAN /\ t.dns[i].expiresAt \in Nat
      BY <1>6 DEF RecordsInv
    <2> QED
      BY <2>3, <2>4, <2>5, <2>6, <2>7, <2>8 DEF RecordsInv
  <1>26. s.devices[src].facts \subseteq t.devices[dst].facts
    BY <1>4, <1>9
  <1> QED
    BY <1>6, <1>12, <1>13, <1>14, <1>16, <1>17, <1>22, <1>23, <1>24, <1>25, <1>26

\* After mergeDevices dst has what both had, and src is gone.
LEMMA MergeDevicesKeeps ==
    ASSUME NEW s, StoreInv(s), NEW src \in UD(s), NEW dst \in UD(s), src # dst,
           NEW t, t = mergeDevices(s, dst, src)
    PROVE  StoreInv(t) /\ dst \in UD(t) /\ SameDates(s, t) /\ Kept(s, t)
  <1>1. PICK P, R, p, q, u :
            /\ P = LinksOf(s, src, {}) /\ R = RecordsOf(s, src, {})
            /\ p = Reverse(s.devices[src].links) /\ q = Reverse(s.devices[src].dns)
            /\ u = joinDevices(s, dst, src)
    OBVIOUS
  <1>2. PICK v, w, x : v = moveLinks(u, p, dst) /\ w = moveRecords(v, q, dst) /\ x = dropDevice(w, src)
    OBVIOUS
  <1>3. t = rebuildServices(x, dst)
    BY <1>1, <1>2 DEF mergeDevices, joinDevices
  <1>4. Lists(p, P) /\ Lists(q, R)
    <2>1. Lists(s.devices[src].links, P) /\ Lists(s.devices[src].dns, R)
      BY <1>1 DEF StoreInv, Linked, LinksInv, Recorded, RecordsInv
    <2> QED
      BY <1>1, <2>1, ListsReverse
  <1>5. /\ DevicesInv(u) /\ UD(u) = UD(s) /\ Merging(u, src, dst)
        /\ Linked(u, P, {}, {}, {}) /\ MovingLinks(u, P, src)
        /\ Recorded(u, R, {}) /\ MovingRecords(u, R, src) /\ u.dns = s.dns
        /\ SameDevices(s, u) /\ s.devices[src].facts \subseteq u.devices[dst].facts
    BY <1>1, JoinDevicesKeeps
  <1>6. /\ Linked(v, {}, {}, {}, {}) /\ DevicesInv(v) /\ MovingLinks(v, {}, src)
        /\ SameDevices(u, v) /\ SameRecords(u, v)
    BY <1>2, <1>4, <1>5, MoveLinksKeeps
  <1>7. UD(v) = UD(s) /\ UR(v) = UR(u)
    BY <1>5, <1>6 DEF SameDevices, SameRecords, UD, UR
  <1>8. Recorded(v, R, {})
    BY <1>5, <1>6, RecordedFrame DEF Linked
  <1>9. MovingRecords(v, R, src)
    BY <1>5, <1>6, <1>7 DEF MovingRecords, SameRecords
  <1>10. Recorded(w, {}, {}) /\ RecordStep(v, w) /\ MovingRecords(w, {}, src) /\ SameDates(v, w)
    BY <1>2, <1>4, <1>7, <1>8, <1>9, MoveRecordsKeeps
  <1>11. Shape(w) /\ SameDevices(v, w)
    BY <1>10 DEF Recorded, RecordStep
  <1>12. DevicesInv(w) /\ UD(w) = UD(s)
    BY <1>6, <1>7, <1>11, DevicesFrame
  <1>13. Linked(w, {}, {}, {}, {})
    BY <1>6, <1>10, <1>11, LinkedFrame
  <1>14. MovingLinks(w, {}, src)
    BY <1>6, <1>10 DEF MovingLinks, RecordStep, SameLinks, UL
  <1>15. StoreInv(w)
    BY <1>10, <1>12, <1>13 DEF StoreInv
  <1>16. StoreInv(x) /\ DeviceDropped(w, x, src)
    BY <1>2, <1>10, <1>12, <1>14, <1>15, DropDeviceKeeps
  <1>17. dst \in UD(x) /\ dst \in DeviceSlots
    BY <1>12, <1>16 DEF DeviceDropped, UD
  <1>18. Recorded(t, {}, {}) /\ RecordStep(x, t) /\ SameRecords(x, t)
    BY <1>3, <1>16, <1>17, RebuildServicesKeeps DEF StoreInv
  <1>19. SameDates(s, t)
    <2>1. SameDates(s, v) /\ SameDates(w, t)
      BY <1>5, <1>6, <1>16, <1>18, SameDatesSame DEF SameRecords, DeviceDropped
    <2>2. SameDates(s, w)
      BY <1>10, <2>1, SameDatesThen
    <2> QED
      BY <2>1, <2>2, SameDatesThen
  <1>20. Kept(s, t)
    <2>1. SameDevices(u, w) /\ SameDevices(x, t)
      BY <1>6, <1>11, <1>18, SameDevicesThen DEF RecordStep
    <2>2. SameDevices(s, w)
      BY <1>5, <2>1, SameDevicesThen
    <2>3. s.devices[src].facts \subseteq w.devices[dst].facts
      BY <1>5, <1>17, <2>1 DEF SameDevices
    <2>4. \A d \in DeviceSlots : d # src => w.devices[d].facts \subseteq t.devices[d].facts
      BY <1>16, <2>1 DEF DeviceDropped, SameDevices
    <2>5. ASSUME NEW d \in DeviceSlots, NEW a \in s.devices[d].facts
          PROVE  \E e \in DeviceSlots : a \in t.devices[e].facts
      <3>1. CASE d = src
        BY <1>17, <2>3, <2>4, <2>5, <3>1
      <3>2. CASE d # src
        BY <2>2, <2>4, <2>5, <3>2 DEF SameDevices
      <3> QED
        BY <3>1, <3>2
    <2> QED
      BY <2>5 DEF Kept
  <1> QED
    BY <1>16, <1>17, <1>18, <1>19, <1>20, RecordStepKeeps

-----------------------------------------------------------------------------
(* The device of an observation.                                           *)

\* The messages the capture backends deliver.
Heard(o) == o \in UNION {network.observations : network \in Scenarios}

\* A lookup by key finds the device of that key, if there is one.
LEMMA DeviceFound ==
    ASSUME NEW s, StoreInv(s), NEW k
    PROVE  /\ Lookup(s.deviceByKey, k) # 0 =>
                 Lookup(s.deviceByKey, k) \in UD(s) /\ s.devices[Lookup(s.deviceByKey, k)].key = k
           /\ \A e \in UD(s) : s.devices[e].key = k => Lookup(s.deviceByKey, k) = e
           /\ Lookup(s.deviceByKey, k) = 0 => k \notin DOMAIN s.deviceByKey
  <1>1. DOMAIN s.deviceByKey = {s.devices[d].key : d \in UD(s)}
    BY DEF StoreInv, DevicesInv
  <1>2. \A d \in UD(s) : s.deviceByKey[s.devices[d].key] = d
    BY DEF StoreInv, DevicesInv
  <1>3. \A d \in UD(s) : d # 0
    BY DEF UD, DeviceSlots
  <1> QED
    BY <1>1, <1>2, <1>3 DEF Lookup

\* The key that deviceKey makes of a message is one of the keys of devices.
LEMMA KeyOfObservation ==
    ASSUME NEW o, Heard(o), deviceKey(o) # NoKey
    PROVE  deviceKey(o) \in DeviceKeys
  <1>1. /\ o.iface \in Ifaces
        /\ o.smac \in MACs \cup {NoMAC} /\ o.claimed \in MACs \cup {NoMAC}
        /\ o.sip \in IPs \cup {NoIP} /\ o.addr \in IPs \cup {NoIP}
    BY ObservationAssumption DEF Heard
  <1>2. PICK mac, ip : /\ mac = IF o.smac # NoMAC THEN o.smac ELSE o.claimed
                       /\ ip = IF o.sip # NoIP THEN o.sip ELSE o.addr
    OBVIOUS
  <1>3. mac \in MACs \cup {NoMAC} /\ ip \in IPs \cup {NoIP}
    BY <1>1, <1>2
  <1>4. CASE mac # NoMAC
    <2>1. deviceKey(o) = MACKey(mac) /\ mac \in MACs
      BY <1>2, <1>3, <1>4 DEF deviceKey
    <2> QED
      BY <2>1 DEF DeviceKeys
  <1>5. CASE mac = NoMAC /\ ip # NoIP
    <2>1. deviceKey(o) = IPKey(ip, o.iface) /\ ip \in IPs
      BY <1>2, <1>3, <1>5 DEF deviceKey
    <2> QED
      BY <1>1, <2>1 DEF DeviceKeys
  <1>6. CASE mac = NoMAC /\ ip = NoIP
    BY <1>2, <1>6 DEF deviceKey
  <1> QED
    BY <1>4, <1>5, <1>6

\* deviceFor returns a device in use, or none when the message names none: by
\* lookup, promotion, merging or insertion, evicting a device from a full
\* slab.  Nothing that is known is forgotten unless a device is evicted.
LEMMA DeviceForKeeps ==
    ASSUME NEW s, StoreInv(s), NEW o, Heard(o), NEW at \in Nat, NEW f, f = deviceFor(s, o, at)
    PROVE  /\ StoreInv(f.s) /\ (f.idx = 0 \/ f.idx \in UD(f.s)) /\ SameDates(s, f.s)
           /\ s.freeDevices # <<>> => Kept(s, f.s)
  <1>1. PICK key, known, byIP : /\ key = deviceKey(o) /\ known = Lookup(s.deviceByKey, key)
                                /\ byIP = addressDevice(s, o)
    OBVIOUS
  <1>2. key # NoKey => key \in DeviceKeys
    BY <1>1, KeyOfObservation
  <1>3. byIP # 0 => byIP \in UD(s)
    BY <1>1, DeviceFound DEF addressDevice
  <1>4. /\ known # 0 => known \in UD(s)
        /\ \A e \in UD(s) : s.devices[e].key = key => known = e
        /\ known = 0 => key \notin DOMAIN s.deviceByKey
    BY <1>1, DeviceFound
  <1>4a. Kept(s, s)
    BY KeptSame
  <1>5. CASE key = NoKey
    <2>1. f.s = s /\ f.idx = 0
      BY <1>1, <1>5 DEF deviceFor
    <2> QED
      BY <1>4a, <2>1, SameDatesSame
  <1>6. CASE key # NoKey /\ byIP # 0 /\ known \notin {0, byIP}
    <2>1. f.s = mergeDevices(s, known, byIP) /\ f.idx = known
      BY <1>1, <1>6 DEF deviceFor
    <2>2. byIP \in UD(s) /\ known \in UD(s) /\ byIP # known
      BY <1>3, <1>4, <1>6
    <2> QED
      BY <2>1, <2>2, MergeDevicesKeeps
  <1>7. CASE key # NoKey /\ byIP # 0 /\ known \in {0, byIP}
    <2>1. f.s = promoteDevice(s, byIP, key) /\ f.idx = byIP
      BY <1>1, <1>7 DEF deviceFor
    <2>2. \A e \in UD(s) : s.devices[e].key = key => e = byIP
      <3>1. \A e \in UD(s) : e # 0
        BY DEF UD, DeviceSlots
      <3> QED
        BY <1>4, <1>7, <3>1
    <2>3. byIP \in UD(s) /\ key \in DeviceKeys
      BY <1>2, <1>3, <1>7
    <2> QED
      BY <2>1, <2>2, <2>3, PromoteDeviceKeeps, SameDatesSame
  <1>8. CASE key # NoKey /\ byIP = 0 /\ known # 0
    <2>1. f.s = s /\ f.idx = known
      BY <1>1, <1>8 DEF deviceFor
    <2> QED
      BY <1>4, <1>4a, <1>8, <2>1, SameDatesSame
  <1>9. CASE key # NoKey /\ byIP = 0 /\ known = 0
    <2>1. f = insertDevice(allocDevice(s), key, at)
      BY <1>1, <1>9 DEF deviceFor
    <2>2. PICK u : /\ allocDevice(s) = takeDevice(u) /\ StoreInv(u) /\ u.freeDevices # <<>>
                   /\ DOMAIN u.deviceByKey \subseteq DOMAIN s.deviceByKey /\ SameDates(s, u)
                   /\ s.freeDevices # <<>> => u = s
      BY AllocDeviceKeeps
    <2>3. key \in DeviceKeys /\ key \notin DOMAIN u.deviceByKey
      BY <1>2, <1>4, <1>9, <2>2
    <2>4. f = insertDevice(takeDevice(u), key, at)
      BY <2>1, <2>2
    <2>5. StoreInv(f.s) /\ f.idx \in UD(f.s) /\ f.s.dns = u.dns /\ Kept(u, f.s)
      BY <2>2, <2>3, <2>4, InsertDeviceKeeps
    <2>6. SameDates(s, f.s)
      BY <2>2, <2>5, SameDatesSame, SameDatesThen
    <2> QED
      BY <2>2, <2>5, <2>6
  <1> QED
    BY <1>5, <1>6, <1>7, <1>8, <1>9

-----------------------------------------------------------------------------
(* What an observation says of its device.                                 *)

\* The first part of updateDevice: what the message says of the device.
learnFacts(s, d, facts) == [s EXCEPT !.devices[d].facts = @ \cup facts]

\* The last part of updateDevice: by which protocol, and when.
noteSeen(s, d, proto, at) ==
    [s EXCEPT !.devices[d].protocols = @ \cup {proto}, !.devices[d].lastSeen = Later(@, at)]

\* The facts of a device are no part of the structure.
LEMMA LearnFactsKeeps ==
    ASSUME NEW s, StoreInv(s), NEW d \in UD(s), NEW facts, NEW t, t = learnFacts(s, d, facts)
    PROVE  StoreInv(t) /\ UD(t) = UD(s) /\ t.dns = s.dns /\ Kept(s, t)
  <1>1. d \in DeviceSlots /\ Shape(s)
    BY DEF UD, StoreInv, Linked
  <1>2. /\ DOMAIN t = DOMAIN s /\ t.deviceByKey = s.deviceByKey /\ t.freeDevices = s.freeDevices
        /\ t.links = s.links /\ t.linkByKey = s.linkByKey
        /\ t.freeLinks = s.freeLinks /\ t.linkWheel = s.linkWheel
        /\ t.dns = s.dns /\ t.dnsByKey = s.dnsByKey
        /\ t.freeDNS = s.freeDNS /\ t.dnsWheel = s.dnsWheel
    BY <1>1 DEF learnFacts, Shape
  <1>3. t.devices = [s.devices EXCEPT ![d].facts = @ \cup facts]
    BY <1>1 DEF learnFacts, Shape
  <1>4. /\ DOMAIN t.devices = DeviceSlots
        /\ \A e \in DeviceSlots : /\ DOMAIN t.devices[e] = DOMAIN s.devices[e]
                                  /\ t.devices[e].used = s.devices[e].used
                                  /\ t.devices[e].key = s.devices[e].key
                                  /\ t.devices[e].lastSeen = s.devices[e].lastSeen
                                  /\ t.devices[e].links = s.devices[e].links
                                  /\ t.devices[e].protocols = s.devices[e].protocols
                                  /\ t.devices[e].dns = s.devices[e].dns
                                  /\ t.devices[e].dnsExpiry = s.devices[e].dnsExpiry
    BY <1>1, <1>3 DEF Shape
  <1>5. Shape(t)
    BY <1>1, <1>2, <1>4 DEF Shape
  <1>6. \A e \in DeviceSlots : /\ s.devices[e].facts \subseteq t.devices[e].facts
                               /\ e # d => t.devices[e].facts = s.devices[e].facts
    BY <1>1, <1>3 DEF Shape
  <1>7. SameDevices(s, t)
    BY <1>2, <1>4, <1>6 DEF SameDevices, UD
  <1>8. Touches(s, t)
    BY <1>2, <1>4, <1>5, <1>7 DEF Touches, SameLinks, SameRecords
  <1> QED
    BY <1>2, <1>7, <1>8, StoreFrame, KeptDevices

\* A device learns a protocol and when it was seen.
LEMMA NoteSeenKeeps ==
    ASSUME NEW s, StoreInv(s), NEW d \in UD(s), NEW proto, NEW at \in Nat,
           NEW t, t = noteSeen(s, d, proto, at)
    PROVE  /\ StoreInv(t) /\ UD(t) = UD(s) /\ proto \in t.devices[d].protocols /\ t.dns = s.dns
           /\ Kept(s, t)
  <1>1. d \in DeviceSlots /\ Shape(s) /\ s.devices[d].lastSeen \in Nat
    BY DEF UD, StoreInv, Linked, DevicesInv
  <1>2. /\ DOMAIN t = DOMAIN s /\ t.deviceByKey = s.deviceByKey /\ t.freeDevices = s.freeDevices
        /\ t.links = s.links /\ t.linkByKey = s.linkByKey
        /\ t.freeLinks = s.freeLinks /\ t.linkWheel = s.linkWheel
        /\ t.dns = s.dns /\ t.dnsByKey = s.dnsByKey
        /\ t.freeDNS = s.freeDNS /\ t.dnsWheel = s.dnsWheel
    BY <1>1 DEF noteSeen, Shape
  <1>3. PICK e : e = [s.devices[d] EXCEPT !.protocols = @ \cup {proto}, !.lastSeen = Later(@, at)]
    OBVIOUS
  <1>4. /\ DOMAIN e = DOMAIN s.devices[d] /\ e.used = s.devices[d].used /\ e.key = s.devices[d].key
        /\ e.links = s.devices[d].links /\ e.dns = s.devices[d].dns
        /\ e.dnsExpiry = s.devices[d].dnsExpiry
        /\ e.protocols = s.devices[d].protocols \cup {proto} /\ e.facts = s.devices[d].facts
        /\ e.lastSeen = Later(s.devices[d].lastSeen, at)
    BY <1>1, <1>3 DEF Shape
  <1>5. t.devices[d] = e /\ DOMAIN t.devices = DeviceSlots
    BY <1>1, <1>3 DEF noteSeen, Shape
  <1>6. \A x \in DeviceSlots : x # d => t.devices[x] = s.devices[x]
    BY <1>1 DEF noteSeen, Shape
  <1>7. e.lastSeen \in Nat
    BY <1>1, <1>4, LaterNat
  <1>8. Shape(t)
    <2>1. \A x \in DeviceSlots : DOMAIN t.devices[x] =
              {"used", "key", "facts", "protocols", "class", "services", "lastSeen",
               "links", "dns", "dnsExpiry"}
      BY <1>1, <1>4, <1>5, <1>6 DEF Shape
    <2> QED
      BY <1>1, <1>2, <1>5, <2>1 DEF Shape
  <1>9. SameDevices(s, t)
    BY <1>2, <1>4, <1>5, <1>6, <1>7 DEF SameDevices
  <1>10. SameLinks(s, t) /\ SameRecords(s, t)
    BY <1>2, <1>4, <1>5, <1>6 DEF SameLinks, SameRecords
  <1>11. proto \in t.devices[d].protocols
    BY <1>4, <1>5
  <1> QED
    BY <1>2, <1>8, <1>9, <1>10, <1>11, StoreFrame, KeptDevices DEF Touches

\* After updateDevice the device knows the protocol of the message.
LEMMA UpdateDeviceKeeps ==
    ASSUME NEW s, StoreInv(s), NEW d \in UD(s), NEW o, Heard(o), NEW at \in Nat,
           NEW r, r = updateDevice(s, d, o, at)
    PROVE  /\ StoreInv(r.s) /\ UD(r.s) = UD(s) /\ o.proto \in r.s.devices[d].protocols
           /\ Dated(s, r.s, at) /\ Kept(s, r.s)
  <1>1. PICK u, c : /\ u = learnFacts(s, d, factsOf(o))
                    /\ c = IF o.proto = "MDNS" THEN cacheMessage(u, d, o.records, at)
                           ELSE [s |-> u, grew |-> FALSE]
    OBVIOUS
  <1>2. StoreInv(u) /\ UD(u) = UD(s) /\ u.dns = s.dns /\ Kept(s, u)
    BY <1>1, LearnFactsKeeps
  <1>3. DOMAIN c = {"s", "grew"}
    BY <1>1 DEF cacheMessage
  <1>4. r.s = noteSeen(c.s, d, o.proto, at)
    <2>1. r = [c EXCEPT !.s.devices[d].protocols = @ \cup {o.proto},
                        !.s.devices[d].lastSeen = Later(@, at)]
      BY <1>1, Zenon DEF updateDevice, learnFacts
    <2> QED
      BY <1>3, <2>1, Zenon DEF noteSeen
  <1>5. StoreInv(c.s) /\ UD(c.s) = UD(s) /\ Dated(u, c.s, at) /\ Kept(u, c.s)
    <2>1. CASE o.proto = "MDNS"
      <3>1. c = cacheMessage(u, d, o.records, at)
        BY <1>1, <2>1
      <3>2. PICK R : R = [rec : Records, ttl : Nat, flush : BOOLEAN]
        OBVIOUS
      <3>3. o.records \in Seq(R)
        BY <3>2, ObservationAssumption DEF Heard
      <3>4. \A j \in 1..Len(o.records) : o.records[j].ttl \in Nat
        <4>1. \A x \in R : x.ttl \in Nat
          BY <3>2
        <4> QED
          BY <3>3, <4>1
      <3>5. Recorded(c.s, {}, {}) /\ RecordStep(u, c.s) /\ Dated(u, c.s, at)
        BY <1>2, <3>1, <3>3, <3>4, CacheMessageKeeps DEF StoreInv
      <3>6. Kept(u, c.s)
        BY <3>5, KeptDevices DEF RecordStep
      <3> QED
        BY <1>2, <3>5, <3>6, RecordStepKeeps
    <2>2. CASE o.proto # "MDNS"
      <3>1. c.s = u
        BY <1>1, <2>2
      <3> QED
        BY <1>2, <3>1, DatedSame, KeptSame
    <2> QED
      BY <2>1, <2>2
  <1>6. /\ StoreInv(r.s) /\ UD(r.s) = UD(s) /\ o.proto \in r.s.devices[d].protocols
        /\ r.s.dns = c.s.dns /\ Kept(c.s, r.s)
    BY <1>4, <1>5, NoteSeenKeeps
  <1>7. Dated(s, r.s, at)
    <2>1. Dated(s, c.s, at)
      BY <1>2, <1>5, DatedSame, DatedThen
    <2>2. Dated(c.s, r.s, at)
      BY <1>6, DatedSame
    <2> QED
      BY <2>1, <2>2, DatedThen
  <1>8. Kept(s, r.s)
    <2>1. Kept(s, c.s)
      BY <1>2, <1>5, KeptThen
    <2> QED
      BY <1>6, <2>1, KeptThen
  <1> QED
    BY <1>6, <1>7, <1>8

-----------------------------------------------------------------------------
(* Finding and refreshing a link, and a free entry for a new one.          *)

\* The link of a kind that upsertLink finds is a link of that device.
LEMMA LinkOfKindFound ==
    ASSUME NEW s, StoreInv(s), NEW d \in UD(s), NEW o, NEW k, linkOfKind(s, d, o, k) # 0
    PROVE  linkOfKind(s, d, o, k) \in UL(s) /\ s.links[linkOfKind(s, d, o, k)].device = d
  <1> DEFINE q == s.devices[d].links
             I == {n \in 1..Len(q) : s.links[q[n]].key.iface = o.iface /\ s.links[q[n]].kind = k}
  <1>1. Lists(q, LinksOf(s, d, {}))
    BY DEF StoreInv, Linked, LinksInv
  <1>2. linkOfKind(s, d, o, k) =
            IF (IF I # {} THEN Min(I) ELSE 0) = 0 THEN 0 ELSE q[IF I # {} THEN Min(I) ELSE 0]
    BY Zenon DEF linkOfKind, SelectInSeq
  <1>3. I \in SUBSET (1..Len(q)) /\ I \in SUBSET Nat
    OBVIOUS
  <1> HIDE DEF I, q
  <1>4. I # {} /\ linkOfKind(s, d, o, k) = q[Min(I)]
    BY <1>2
  <1>5. PICK m \in I : \A n \in I : m <= n
    BY <1>3, <1>4, NL!LeastNatural
  <1>6. Min(I) \in I
    BY <1>5 DEF Min
  <1>7. q[Min(I)] \in LinksOf(s, d, {})
    <2>1. PICK n \in 1..Len(q) : n = Min(I)
      BY <1>3, <1>6
    <2>2. q[n] \in LinksOf(s, d, {})
      BY <1>1 DEF Lists
    <2> QED
      BY <2>1, <2>2
  <1> QED
    BY <1>4, <1>7 DEF LinksOf

\* An observation refreshes a link of its device.
LEMMA RefreshKeepsStore ==
    ASSUME NEW s, StoreInv(s), NEW i \in UL(s),
           NEW o, o.proto \in Protocols, o.proto \in s.devices[s.links[i].device].protocols,
           NEW kind, NEW ttl \in Int, NEW at \in Nat \ {0},
           NEW t, t = refreshLink(s, i, o, kind, ttl, at)
    PROVE  StoreInv(t) /\ UD(t) = UD(s) /\ i \in UL(t) /\ t.dns = s.dns /\ Kept(s, t)
  <1>1. Linked(s, {}, {}, {}, {})
    BY DEF StoreInv
  <1>2. Backed(s, i)
    BY DEF StoreInv, Linked, EvidenceInv, Evident, Backed
  <1>3. /\ SameDevices(s, t) /\ SameRecords(s, t) /\ UL(t) = UL(s)
        /\ Linked(t, {}, {}, {} \ {i}, {} \ {i})
    BY <1>1, <1>2, RefreshLinkKeeps
  <1>4. {} \ {i} = {}
    OBVIOUS
  <1>5. Linked(t, {}, {}, {}, {})
    BY <1>3, <1>4
  <1>6. Kept(s, t)
    BY <1>3, KeptDevices
  <1> QED
    BY <1>3, <1>5, <1>6, LinkStepKeeps DEF SameRecords

\* The state in which allocLink takes an entry: it has a free one.
LEMMA AllocLinkKeeps ==
    ASSUME NEW s, StoreInv(s)
    PROVE  \E u : /\ allocLink(s) = takeLink(u) /\ StoreInv(u) /\ u.freeLinks # <<>>
                  /\ UD(u) = UD(s) /\ SameDevices(s, u) /\ SameProtocols(s, u) /\ u.dns = s.dns
  <1>1. CASE s.freeLinks # <<>>
    BY <1>1 DEF allocLink, SameDevices, SameProtocols
  <1>2. CASE s.freeLinks = <<>>
    <2>1. UL(s) = LinkSlots
      BY <1>2 DEF StoreInv, Linked, LinksInv, Lists, UL
    <2>2. PICK age, i, u, kind : /\ age = [j \in LinkSlots |-> s.links[j].lastSeen]
                                 /\ i = Oldest(s.links, age) /\ kind = "Evicted"
                                 /\ u = removeLink(s, i, kind)
      OBVIOUS
    <2>3. /\ MaxLinks \in Nat /\ LinkSlots = 1..MaxLinks /\ 1 \in LinkSlots
          /\ DOMAIN s.links = 1..MaxLinks
      BY SlabAssumption DEF LinkSlots, StoreInv, Linked, Shape
    <2>4. \A j \in 1..MaxLinks : age[j] \in Nat
      BY <2>2, <2>3 DEF StoreInv, Linked, LinksInv
    <2>5. i \in 1..MaxLinks /\ s.links[i].used
      <3>1. s.links[1].used
        BY <2>1, <2>3 DEF UL
      <3> QED
        BY <2>2, <2>3, <2>4, <3>1, OldestIsUsed
    <2>6. i \in UL(s)
      BY <2>3, <2>5 DEF UL
    <2>7. LinkRemoved(s, u, i) /\ Linked(u, {}, {}, {}, {})
      BY <2>2, <2>6, RemoveLinkClean DEF StoreInv
    <2>8. StoreInv(u) /\ UD(u) = UD(s)
      BY <2>7, LinkStepKeeps DEF LinkRemoved
    <2>9. u.freeLinks # <<>>
      <3>1. i \in LinkSlots \ UL(u)
        BY <2>6, <2>7 DEF UL, LinkRemoved
      <3>2. Lists(u.freeLinks, LinkSlots \ UL(u))
        BY <2>7 DEF Linked, LinksInv
      <3> QED
        BY <3>1, <3>2 DEF Lists
    <2>10. SameDevices(s, u) /\ SameProtocols(s, u) /\ u.dns = s.dns
      BY <2>7 DEF LinkRemoved, SameProtocols, SameRecords
    <2>11. allocLink(s) = takeLink(u)
      BY <1>2, <2>2 DEF allocLink
    <2> QED
      BY <2>8, <2>9, <2>10, <2>11
  <1> QED
    BY <1>1, <1>2

=============================================================================
