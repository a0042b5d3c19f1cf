-------------------------- MODULE FusionDNSProofs ---------------------------
(***************************************************************************)
(* The operations on the record cache keep the invariant of the records:   *)
(* Recorded(s, P, W), where the records in P are on the list of no device  *)
(* and those in W not on the timing wheel. At the end, the arithmetic that *)
(* says when the timing wheel takes a record.                              *)
(***************************************************************************)
EXTENDS FusionLinkProofs

\* The step from s to t concerns records alone.
RecordStep(s, t) == SameDevices(s, t) /\ SameLinks(s, t)

\* A step on the records keeps the links in order.
LEMMA LinkedFrame ==
    ASSUME NEW s, NEW t, RecordStep(s, t), Shape(t), NEW P, NEW K, NEW E, NEW W, Linked(s, P, K, E, W)
    PROVE  Linked(t, P, K, E, W)
  <1>1. SameDevices(s, t) /\ SameLinks(s, t) /\ LinksInv(s, P, K) /\ EvidenceInv(s, E) /\ LinkWheelInv(s, W)
    BY DEF RecordStep, Linked
  <1>2. LinksInv(t, P, K)
    BY <1>1, LinksFrame
  <1>3. EvidenceInv(t, E)
    BY <1>1, EvidenceFrame
  <1>4. LinkWheelInv(t, W)
    BY <1>1, LinkWheelFrame
  <1> QED
    BY <1>2, <1>3, <1>4 DEF Linked

\* A step on the links keeps the records in order.
LEMMA RecordedFrame ==
    ASSUME NEW s, NEW t, SameDevices(s, t), SameRecords(s, t), Shape(t), NEW P, NEW W, Recorded(s, P, W)
    PROVE  Recorded(t, P, W)
  <1>1. RecordsInv(s, P) /\ DNSWheelInv(s, W)
    BY DEF Recorded
  <1>2. RecordsInv(t, P)
    BY <1>1, RecordsFrame
  <1>3. DNSWheelInv(t, W)
    BY <1>1, DNSWheelFrame
  <1> QED
    BY <1>2, <1>3 DEF Recorded

\* Two steps on the records make one.
LEMMA RecordSteps ==
    ASSUME NEW s, NEW t, NEW u, RecordStep(s, t), RecordStep(t, u)
    PROVE  RecordStep(s, u)
  <1>1. SameDevices(s, u)
    BY DEF RecordStep, SameDevices
  <1>2. SameLinks(s, u)
    BY DEF RecordStep, SameLinks
  <1> QED
    BY <1>1, <1>2 DEF RecordStep

\* So does none.
LEMMA NoStep ==
    ASSUME NEW s PROVE RecordStep(s, s)
  BY DEF RecordStep, SameDevices, SameLinks

-----------------------------------------------------------------------------
(* The expiry of a device: the latest of its records.                      *)

\* The loop of recomputeDNSExpiry.
LRTurn(c, t, i) == Later(t, c.dns[i].expiresAt)
LRGood(c, n, t) == t \in Nat
LR == INSTANCE Loops WITH Turn <- LRTurn, Good <- LRGood

\* The latest expiry of a list of records is a date.
LEMMA LatestIsNat ==
    ASSUME NEW s, \A i \in DNSSlots : s.dns[i].expiresAt \in Nat, NEW q \in Seq(DNSSlots)
    PROVE  latestRecord(s, q) \in Nat
  <1>1. latestRecord(s, q) = LR!Loop(s, Never, q)
    BY DEF latestRecord, LR!Loop, LRTurn, FoldLeft, MapThenFoldSet, Max, LR!Greatest
  <1>2. LRGood(s, 0, Never)
    BY DEF LRGood, Never
  <1>3. ASSUME NEW n \in 1..Len(q), NEW t, LRGood(s, n - 1, t) PROVE LRGood(s, n, LRTurn(s, t, q[n]))
    <2>1. q[n] \in DNSSlots
      OBVIOUS
    <2>2. t \in Nat /\ s.dns[q[n]].expiresAt \in Nat
      BY <1>3, <2>1 DEF LRGood
    <2> QED
      BY <2>2, LaterNat DEF LRGood, LRTurn
  <1>4. LRGood(s, Len(q), LR!Loop(s, Never, q))
    BY <1>2, <1>3, LR!LoopKeeps
  <1> QED
    BY <1>1, <1>4 DEF LRGood

\* The expiry of device d is x.
expireDevice(s, d, x) == [s EXCEPT !.devices[d].dnsExpiry = x]

\* Records keep their device and their key, and stay where they are on the wheel.
RecordsStay(s, t) ==
    /\ RecordStep(s, t) /\ UR(t) = UR(s)
    /\ t.dnsByKey = s.dnsByKey /\ t.freeDNS = s.freeDNS
    /\ \A d \in DeviceSlots : t.devices[d].dns = s.devices[d].dns
    /\ \A i \in DNSSlots : /\ t.dns[i].used = s.dns[i].used
                           /\ t.dns[i].device = s.dns[i].device /\ t.dns[i].rec = s.dns[i].rec

\* RecordsInv survives a change to records that keep their key, their device
\* and their bit in use.
LEMMA RecordsStayFrame ==
    ASSUME NEW s, NEW t, RecordsStay(s, t), NEW P, RecordsInv(s, P),
           \A i \in DNSSlots : t.dns[i].expiresAt \in Nat,
           \A d \in DeviceSlots : t.devices[d].dnsExpiry \in Nat
    PROVE  RecordsInv(t, P)
  <1>1. UD(t) = UD(s) /\ UR(t) = UR(s)
    BY DEF RecordsStay, RecordStep, SameDevices, UD
  <1>2. \A d : RecordsOf(t, d, P) = RecordsOf(s, d, P)
    BY <1>1 DEF RecordsOf, RecordsStay, UR
  <1>3. \A d \in UD(t) : Lists(t.devices[d].dns, RecordsOf(t, d, P))
    <2>1. \A d \in UD(t) : t.devices[d].dns = s.devices[d].dns
      BY DEF RecordsStay, UD
    <2> QED
      BY <1>1, <1>2, <2>1 DEF RecordsInv
  <1>4. \A i \in UR(t) : t.dns[i].device \in UD(t)
    BY <1>1 DEF RecordsInv, RecordsStay, UR
  <1>5. ASSUME NEW k \in DOMAIN t.dnsByKey
        PROVE  t.dnsByKey[k] \in UR(t) /\ DNSKey(t, t.dnsByKey[k]) = k
    <2>1. t.dnsByKey = s.dnsByKey /\ s.dnsByKey[k] \in UR(s) /\ DNSKey(s, s.dnsByKey[k]) = k
      BY DEF RecordsInv, RecordsStay
    <2>2. s.dnsByKey[k] \in DNSSlots
      BY <2>1 DEF UR
    <2> QED
      BY <1>1, <2>1, <2>2 DEF DNSKey, RecordsStay
  <1>6. \A i \in DNSSlots : t.dns[i].used \in BOOLEAN
    BY DEF RecordsInv, RecordsStay
  <1>7. Lists(t.freeDNS, DNSSlots \ UR(t))
    BY <1>1 DEF RecordsInv, RecordsStay
  <1> QED
    BY <1>3, <1>4, <1>5, <1>6, <1>7 DEF RecordsInv

\* The expiry of a device is no part of the structure of the records.
LEMMA ExpireDeviceKeeps ==
    ASSUME NEW s, NEW P, NEW W, Recorded(s, P, W), NEW d \in UD(s), NEW x \in Nat,
           NEW t, t = expireDevice(s, d, x)
    PROVE  Recorded(t, P, W) /\ RecordsStay(s, t) /\ t.dns = s.dns
  <1> USE DEF Recorded
  <1>1. d \in DeviceSlots
    BY DEF UD
  <1>2. t.devices = [s.devices EXCEPT ![d].dnsExpiry = x]
    BY DEF expireDevice, Shape
  <1>3. DOMAIN t = DOMAIN s
    BY DEF expireDevice, Shape
  <1>4. /\ t.links = s.links /\ t.linkByKey = s.linkByKey
        /\ t.freeLinks = s.freeLinks /\ t.linkWheel = s.linkWheel
        /\ t.deviceByKey = s.deviceByKey /\ t.freeDevices = s.freeDevices
        /\ t.dns = s.dns /\ t.dnsByKey = s.dnsByKey
        /\ t.freeDNS = s.freeDNS /\ t.dnsWheel = s.dnsWheel
    BY DEF expireDevice, Shape
  <1>5. \A e \in DeviceSlots : /\ t.devices[e].used = s.devices[e].used
                               /\ t.devices[e].key = s.devices[e].key
                               /\ t.devices[e].protocols = s.devices[e].protocols
                               /\ t.devices[e].links = s.devices[e].links
                               /\ t.devices[e].dns = s.devices[e].dns
                               /\ t.devices[e].facts = s.devices[e].facts
                               /\ t.devices[e].lastSeen = s.devices[e].lastSeen
                               /\ DOMAIN t.devices[e] = DOMAIN s.devices[e]
    BY <1>1, <1>2 DEF Shape
  <1>6. \A e \in DeviceSlots : t.devices[e].dnsExpiry \in Nat
    BY <1>1, <1>2 DEF Shape, RecordsInv
  <1>7. Shape(t)
    <2>1. DOMAIN t.devices = DOMAIN s.devices
      BY <1>2
    <2> QED
      BY <1>3, <1>4, <1>5, <2>1 DEF Shape
  <1>8. RecordsStay(s, t)
    BY <1>4, <1>5 DEF RecordsStay, RecordStep, SameDevices, SameLinks, UR
  <1>9. RecordsInv(t, P)
    <2>1. \A i \in DNSSlots : t.dns[i].expiresAt \in Nat
      BY <1>4 DEF RecordsInv
    <2> QED
      BY <1>6, <1>8, <2>1, RecordsStayFrame
  <1>10. DNSWheelInv(t, W)
    BY <1>4, <1>8 DEF DNSWheelInv, RecordsStay
  <1> QED
    BY <1>4, <1>7, <1>8, <1>9, <1>10

\* recomputeDNSExpiry changes the expiry of one device alone.
LEMMA RecomputeKeeps ==
    ASSUME NEW s, NEW P, NEW W, Recorded(s, P, W), NEW d \in UD(s), NEW t, t = recomputeDNSExpiry(s, d)
    PROVE  Recorded(t, P, W) /\ RecordsStay(s, t) /\ t.dns = s.dns
  <1>1. PICK q, x : q = s.devices[d].dns /\ x = latestRecord(s, q)
    OBVIOUS
  <1>2. q \in Seq(DNSSlots)
    <2>1. Lists(q, RecordsOf(s, d, P))
      BY <1>1 DEF Recorded, RecordsInv
    <2>2. q \in Seq(RecordsOf(s, d, P)) /\ RecordsOf(s, d, P) \subseteq DNSSlots
      BY <2>1 DEF Lists, RecordsOf, UR
    <2> QED
      BY <2>2
  <1>3. x \in Nat
    BY <1>1, <1>2, LatestIsNat DEF Recorded, RecordsInv
  <1>4. t = expireDevice(s, d, x)
    BY <1>1 DEF recomputeDNSExpiry, expireDevice
  <1> QED
    BY <1>3, <1>4, ExpireDeviceKeeps

-----------------------------------------------------------------------------
(* Which records a step may leave, and when they were scheduled.           *)

\* Record e was scheduled at this instant, for an instant that is yet to come.
Scheduled(e, at) == e.expiresAt > at /\ e.due = ceilDurationSeconds(e.expiresAt - at)

\* The records of t are records of s that nobody has rescheduled, or were
\* scheduled now.
SameDate(e, f) == e.expiresAt = f.expiresAt /\ e.due = f.due
Dated(s, t, at) ==
    \A i \in UR(t) : (i \in UR(s) /\ SameDate(s.dns[i], t.dns[i])) \/ Scheduled(t.dns[i], at)

SameDates(s, t) == \A i \in UR(t) : i \in UR(s) /\ SameDate(s.dns[i], t.dns[i])

\* What does not touch the records schedules none.
LEMMA DatedSame ==
    ASSUME NEW s, NEW t, t.dns = s.dns, NEW at PROVE Dated(s, t, at)
  BY DEF Dated, SameDate, UR

\* Dated is transitive.
LEMMA DatedThen ==
    ASSUME NEW s, NEW t, NEW u, NEW at, Dated(s, t, at), Dated(t, u, at) PROVE Dated(s, u, at)
  <1> SUFFICES ASSUME NEW i \in UR(u), ~ Scheduled(u.dns[i], at)
               PROVE  i \in UR(s) /\ SameDate(s.dns[i], u.dns[i])
    BY DEF Dated
  <1>1. i \in UR(t) /\ SameDate(t.dns[i], u.dns[i])
    BY DEF Dated
  <1>2. ~ Scheduled(t.dns[i], at)
    BY <1>1 DEF Scheduled, SameDate
  <1>3. i \in UR(s) /\ SameDate(s.dns[i], t.dns[i])
    BY <1>1, <1>2 DEF Dated
  <1> QED
    BY <1>1, <1>3 DEF SameDate

\* So is SameDates, which is the case that schedules no record.
LEMMA SameDatesSame ==
    ASSUME NEW s, NEW t, t.dns = s.dns PROVE SameDates(s, t)
  BY DEF SameDates, SameDate, UR

\* Two steps that schedule no record are one.
LEMMA SameDatesThen ==
    ASSUME NEW s, NEW t, NEW u, SameDates(s, t), SameDates(t, u) PROVE SameDates(s, u)
  BY DEF SameDates, SameDate

\* A step that schedules no record is dated by any instant.
LEMMA SameDatesDated ==
    ASSUME NEW s, NEW t, NEW at, SameDates(s, t) PROVE Dated(s, t, at)
  BY DEF SameDates, Dated

-----------------------------------------------------------------------------
(* Refreshing a record.                                                    *)

\* Record i expires at x; it keeps the rest but its place on the wheel.
dateRecord(s, i, x) == [s EXCEPT !.dns[i].expiresAt = x]

\* The expiry of a record is no part of the structure either.
LEMMA DateRecordKeeps ==
    ASSUME NEW s, NEW P, NEW W, Recorded(s, P, W), NEW i \in UR(s), NEW x \in Nat,
           NEW t, t = dateRecord(s, i, x)
    PROVE  Recorded(t, P, W) /\ RecordsStay(s, t)
  <1> USE DEF Recorded
  <1>1. i \in DNSSlots
    BY DEF UR
  <1>2. t.dns = [s.dns EXCEPT ![i].expiresAt = x]
    BY DEF dateRecord, Shape
  <1>3. DOMAIN t = DOMAIN s
    BY DEF dateRecord, Shape
  <1>4. /\ t.links = s.links /\ t.linkByKey = s.linkByKey
        /\ t.freeLinks = s.freeLinks /\ t.linkWheel = s.linkWheel
        /\ t.deviceByKey = s.deviceByKey /\ t.freeDevices = s.freeDevices
        /\ t.devices = s.devices /\ t.dnsByKey = s.dnsByKey
        /\ t.freeDNS = s.freeDNS /\ t.dnsWheel = s.dnsWheel
    BY DEF dateRecord, Shape
  <1>5. \A j \in DNSSlots : /\ t.dns[j].used = s.dns[j].used
                            /\ t.dns[j].device = s.dns[j].device
                            /\ t.dns[j].rec = s.dns[j].rec
                            /\ DOMAIN t.dns[j] = DOMAIN s.dns[j]
    BY <1>1, <1>2 DEF Shape
  <1>6. \A j \in DNSSlots : t.dns[j].expiresAt \in Nat
    BY <1>1, <1>2 DEF Shape, RecordsInv
  <1>7. Shape(t)
    <2>1. DOMAIN t.dns = DOMAIN s.dns
      BY <1>2
    <2> QED
      BY <1>3, <1>4, <1>5, <2>1 DEF Shape
  <1>8. RecordsStay(s, t)
    <2>1. UR(t) = UR(s)
      BY <1>5 DEF UR
    <2> QED
      BY <1>4, <1>5, <2>1 DEF RecordsStay, RecordStep, SameDevices, SameLinks
  <1>9. RecordsInv(t, P)
    <2>1. \A d \in DeviceSlots : t.devices[d].dnsExpiry \in Nat
      BY <1>4 DEF RecordsInv
    <2> QED
      BY <1>6, <1>8, <2>1, RecordsStayFrame
  <1>10. DNSWheelInv(t, W)
    BY <1>4, <1>8 DEF DNSWheelInv, RecordsStay
  <1> QED
    BY <1>7, <1>8, <1>9, <1>10

\* After scheduleDNS the record is on the wheel.
LEMMA ScheduleDNSKeeps ==
    ASSUME NEW s, NEW P, NEW W, Recorded(s, P, W), NEW i \in UR(s), NEW at, NEW expiry,
           NEW t, t = scheduleDNS(s, i, at, expiry)
    PROVE  Recorded(t, P, W \ {i}) /\ RecordsStay(s, t)
  <1> USE DEF Recorded
  <1>1. i \in DNSSlots
    BY DEF UR
  <1>2. t.dns = [s.dns EXCEPT ![i].due = ceilDurationSeconds(expiry - at)]
    BY DEF scheduleDNS, Shape
  <1>3. DOMAIN t = DOMAIN s
    BY DEF scheduleDNS, Shape
  <1>4. /\ t.links = s.links /\ t.linkByKey = s.linkByKey
        /\ t.freeLinks = s.freeLinks /\ t.linkWheel = s.linkWheel
        /\ t.deviceByKey = s.deviceByKey /\ t.freeDevices = s.freeDevices
        /\ t.devices = s.devices /\ t.dnsByKey = s.dnsByKey
        /\ t.freeDNS = s.freeDNS
    BY DEF scheduleDNS, Shape
  <1>5. t.dnsWheel = <<i>> \o RemoveFirst(s.dnsWheel, i)
    BY DEF scheduleDNS, Shape
  <1>6. \A j \in DNSSlots : /\ t.dns[j].used = s.dns[j].used
                            /\ t.dns[j].device = s.dns[j].device
                            /\ t.dns[j].rec = s.dns[j].rec
                            /\ t.dns[j].expiresAt = s.dns[j].expiresAt
                            /\ DOMAIN t.dns[j] = DOMAIN s.dns[j]
    BY <1>1, <1>2 DEF Shape
  <1>7. Shape(t)
    <2>1. DOMAIN t.dns = DOMAIN s.dns
      BY <1>2
    <2> QED
      BY <1>3, <1>4, <1>6, <2>1 DEF Shape
  <1>8. RecordsStay(s, t)
    <2>1. UR(t) = UR(s)
      BY <1>6 DEF UR
    <2> QED
      BY <1>4, <1>6, <2>1 DEF RecordsStay, RecordStep, SameDevices, SameLinks
  <1>9. RecordsInv(t, P)
    <2>1. \A d \in DeviceSlots : t.devices[d].dnsExpiry \in Nat
      BY <1>4 DEF RecordsInv
    <2>2. \A j \in DNSSlots : t.dns[j].expiresAt \in Nat
      BY <1>6 DEF RecordsInv
    <2> QED
      BY <1>8, <2>1, <2>2, RecordsStayFrame
  <1>10. DNSWheelInv(t, W \ {i})
    <2>1. Lists(<<i>> \o RemoveFirst(s.dnsWheel, i), UR(s) \ (W \ {i}))
      BY WheelScheduled DEF DNSWheelInv
    <2> QED
      BY <1>5, <1>8, <2>1 DEF DNSWheelInv, RecordsStay
  <1> QED
    BY <1>7, <1>8, <1>9, <1>10

\* RecordsStay is transitive.
LEMMA RecordsStaying ==
    ASSUME NEW s, NEW t, NEW u, RecordsStay(s, t), RecordsStay(t, u)
    PROVE  RecordsStay(s, u)
  <1>1. RecordStep(s, u)
    BY RecordSteps DEF RecordsStay
  <1> QED
    BY <1>1 DEF RecordsStay

\* setDNSExpiry dates a record, its device and its place on the wheel.
LEMMA SetDNSExpiryKeeps ==
    ASSUME NEW s, NEW P, NEW W, Recorded(s, P, W), NEW i \in UR(s), NEW at, NEW expires \in Nat,
           NEW t, t = setDNSExpiry(s, i, at, expires)
    PROVE  Recorded(t, P, W \ {i}) /\ RecordsStay(s, t)
  <1>1. PICK d : d = s.dns[i].device
    OBVIOUS
  <1>2. d \in UD(s)
    BY <1>1 DEF Recorded, RecordsInv
  <1>3. PICK u : u = dateRecord(s, i, expires)
    OBVIOUS
  <1>4. PICK v : v = scheduleDNS(u, i, at, expires)
    OBVIOUS
  <1>5. Recorded(u, P, W) /\ RecordsStay(s, u)
    BY <1>3, DateRecordKeeps
  <1>6. i \in UR(u)
    BY <1>5 DEF RecordsStay
  <1>7. Recorded(v, P, W \ {i}) /\ RecordsStay(u, v)
    BY <1>4, <1>5, <1>6, ScheduleDNSKeeps
  <1>8. RecordsStay(s, v)
    BY <1>5, <1>7, RecordsStaying
  <1>9. d \in UD(v)
    BY <1>2, <1>8 DEF RecordsStay, RecordStep, SameDevices, UD
  <1>10. t \in {v, expireDevice(v, d, expires), recomputeDNSExpiry(v, d)}
    BY <1>1, <1>3, <1>4 DEF setDNSExpiry, dateRecord, expireDevice
  <1>11. CASE t = v
    BY <1>7, <1>8, <1>11
  <1>12. CASE t = expireDevice(v, d, expires)
    <2>1. Recorded(t, P, W \ {i}) /\ RecordsStay(v, t)
      BY <1>7, <1>9, <1>12, ExpireDeviceKeeps
    <2> QED
      BY <1>8, <2>1, RecordsStaying
  <1>13. CASE t = recomputeDNSExpiry(v, d)
    <2>1. Recorded(t, P, W \ {i}) /\ RecordsStay(v, t)
      BY <1>7, <1>9, <1>13, RecomputeKeeps
    <2> QED
      BY <1>8, <2>1, RecordsStaying
  <1> QED
    BY <1>10, <1>11, <1>12, <1>13

\* setDNSExpiry schedules the record and no other.
LEMMA SetDNSExpiryDates ==
    ASSUME NEW s, NEW P, NEW W, Recorded(s, P, W), NEW i \in UR(s), NEW at, NEW expires \in Nat,
           expires > at, NEW t, t = setDNSExpiry(s, i, at, expires)
    PROVE  Scheduled(t.dns[i], at) /\ \A j \in DNSSlots \ {i} : t.dns[j] = s.dns[j]
  <1>1. PICK d : d = s.dns[i].device
    OBVIOUS
  <1>2. d \in UD(s) /\ i \in DNSSlots
    BY <1>1 DEF Recorded, RecordsInv, UR
  <1>3. PICK u : u = dateRecord(s, i, expires)
    OBVIOUS
  <1>4. PICK v : v = scheduleDNS(u, i, at, expires)
    OBVIOUS
  <1>5. Recorded(u, P, W) /\ RecordsStay(s, u)
    BY <1>3, DateRecordKeeps
  <1>6. i \in UR(u)
    BY <1>5 DEF RecordsStay
  <1>7. Recorded(v, P, W \ {i}) /\ RecordsStay(u, v)
    BY <1>4, <1>5, <1>6, ScheduleDNSKeeps
  <1>8. d \in UD(v)
    BY <1>2, <1>5, <1>7 DEF RecordsStay, RecordStep, SameDevices, UD
  <1>9. t \in {v, expireDevice(v, d, expires), recomputeDNSExpiry(v, d)}
    BY <1>1, <1>3, <1>4 DEF setDNSExpiry, dateRecord, expireDevice
  <1>10. t.dns = v.dns
    <2>1. CASE t = v
      BY <2>1
    <2>2. CASE t = expireDevice(v, d, expires)
      BY <1>7, <2>2 DEF Recorded, Shape, expireDevice
    <2>3. CASE t = recomputeDNSExpiry(v, d)
      BY <1>7, <1>8, <2>3, RecomputeKeeps
    <2> QED
      BY <1>9, <2>1, <2>2, <2>3
  <1>11. u.dns = [s.dns EXCEPT ![i].expiresAt = expires]
    BY <1>3 DEF dateRecord, Recorded, Shape
  <1>12. v.dns = [u.dns EXCEPT ![i].due = ceilDurationSeconds(expires - at)]
    BY <1>4, <1>5 DEF scheduleDNS, Recorded, Shape
  <1>13. u.dns[i].expiresAt = expires /\ \A j \in DNSSlots \ {i} : u.dns[j] = s.dns[j]
    BY <1>2, <1>11 DEF Recorded, Shape
  <1>14. /\ v.dns[i].expiresAt = u.dns[i].expiresAt /\ v.dns[i].due = ceilDurationSeconds(expires - at)
         /\ \A j \in DNSSlots \ {i} : v.dns[j] = u.dns[j]
    BY <1>2, <1>5, <1>12 DEF Recorded, Shape
  <1> QED
    BY <1>10, <1>13, <1>14 DEF Scheduled

\* For a record that was there before.
LEMMA RefreshDates ==
    ASSUME NEW s, NEW P, NEW W, Recorded(s, P, W), NEW i \in UR(s), NEW at, NEW expires \in Nat,
           expires > at, NEW t, t = setDNSExpiry(s, i, at, expires)
    PROVE  Dated(s, t, at)
  <1>1. Scheduled(t.dns[i], at) /\ \A j \in DNSSlots \ {i} : t.dns[j] = s.dns[j]
    BY SetDNSExpiryDates
  <1>2. UR(t) = UR(s) /\ UR(t) \subseteq DNSSlots
    <2>1. RecordsStay(s, t)
      BY SetDNSExpiryKeeps
    <2> QED
      BY <2>1 DEF RecordsStay, UR
  <1> QED
    BY <1>1, <1>2 DEF Dated, SameDate

-----------------------------------------------------------------------------
(* Removing a record.                                                      *)

\* t is s without the records in S.
RecordsGone(s, t, S) ==
    /\ RecordStep(s, t) /\ UR(t) = UR(s) \ S
    /\ \A j \in UR(t) : t.dns[j] = s.dns[j]

\* Removal schedules no other record.
LEMMA DatedGone ==
    ASSUME NEW s, NEW t, NEW S, RecordsGone(s, t, S) PROVE SameDates(s, t)
  BY DEF SameDates, SameDate, RecordsGone

\* removeDNS up to the expiry of the device.
unlinkRecord(s, i) ==
    [s EXCEPT !.dnsWheel = RemoveFirst(@, i),
              !.dnsByKey = Delete(@, DNSKey(s, i)),
              !.devices[s.dns[i].device].dns = SwapRemove(@, i),
              !.dns[i] = NoDNS,
              !.freeDNS = Append(@, i)]

\* removeDNS takes the record out of the slab, its index, its wheel and the
\* list of its device.
LEMMA UnlinkRecordKeeps ==
    ASSUME NEW s, NEW P, NEW W, Recorded(s, P, W), NEW i \in UR(s), NEW t, t = unlinkRecord(s, i)
    PROVE  Recorded(t, P \ {i}, W \ {i}) /\ RecordsGone(s, t, {i})
  <1> USE DEF Recorded
  <1>1. PICK o : o = s.dns[i].device
    OBVIOUS
  <1>2. i \in DNSSlots /\ o \in UD(s) /\ o \in DeviceSlots
    BY <1>1 DEF UR, UD, RecordsInv
  <1>3. t.dns = [s.dns EXCEPT ![i] = NoDNS]
    BY DEF unlinkRecord, Shape
  <1>4. t.devices = [s.devices EXCEPT ![o].dns = SwapRemove(@, i)]
    BY <1>1 DEF unlinkRecord, Shape
  <1>5. t.dnsWheel = RemoveFirst(s.dnsWheel, i)
    BY DEF unlinkRecord, Shape
  <1>6. t.dnsByKey = Delete(s.dnsByKey, DNSKey(s, i))
    BY DEF unlinkRecord, Shape
  <1>7. t.freeDNS = Append(s.freeDNS, i)
    BY DEF unlinkRecord, Shape
  <1>8. DOMAIN t = DOMAIN s
    BY DEF unlinkRecord, Shape
  <1>9. /\ t.links = s.links /\ t.linkByKey = s.linkByKey
        /\ t.freeLinks = s.freeLinks /\ t.linkWheel = s.linkWheel
        /\ t.deviceByKey = s.deviceByKey /\ t.freeDevices = s.freeDevices
    BY DEF unlinkRecord, Shape
  <1>10. /\ t.dns[i] = NoDNS /\ DOMAIN t.dns = DOMAIN s.dns
         /\ \A j \in DNSSlots : j # i => t.dns[j] = s.dns[j]
    BY <1>2, <1>3 DEF Shape
  <1>11. \A e \in DeviceSlots : /\ t.devices[e].used = s.devices[e].used
                                /\ t.devices[e].key = s.devices[e].key
                                /\ t.devices[e].protocols = s.devices[e].protocols
                                /\ t.devices[e].links = s.devices[e].links
                                /\ t.devices[e].dnsExpiry = s.devices[e].dnsExpiry
                                /\ t.devices[e].facts = s.devices[e].facts
                                /\ t.devices[e].lastSeen = s.devices[e].lastSeen
                                /\ DOMAIN t.devices[e] = DOMAIN s.devices[e]
    BY <1>2, <1>4 DEF Shape
  <1>12. /\ t.devices[o].dns = SwapRemove(s.devices[o].dns, i)
         /\ \A e \in DeviceSlots : e # o => t.devices[e].dns = s.devices[e].dns
         /\ DOMAIN t.devices = DOMAIN s.devices
    BY <1>2, <1>4 DEF Shape
  <1>13. Shape(t)
    <2>1. DOMAIN t.dns[i] = {"used", "rec", "device", "ttl", "expiresAt", "due"}
      BY <1>10 DEF NoDNS
    <2>2. \A j \in DNSSlots : DOMAIN t.dns[j] = {"used", "rec", "device", "ttl", "expiresAt", "due"}
      BY <1>10, <2>1 DEF Shape
    <2>3. \A e \in DeviceSlots : DOMAIN t.devices[e] = DOMAIN s.devices[e]
      BY <1>11
    <2> QED
      BY <1>8, <1>9, <1>10, <1>12, <2>2, <2>3 DEF Shape
  <1>14. UD(t) = UD(s) /\ UR(t) = UR(s) \ {i}
    <2>1. NoDNS.used = FALSE
      BY DEF NoDNS
    <2>2. ~ t.dns[i].used
      BY <1>10, <2>1
    <2> QED
      BY <1>10, <1>11, <2>2 DEF UD, UR
  <1>15. RecordStep(s, t)
    BY <1>9, <1>11 DEF RecordStep, SameDevices, SameLinks
  <1>16. \A j \in UR(t) : t.dns[j] = s.dns[j] /\ j \in UR(s)
    BY <1>10, <1>14 DEF UR
  <1>17. \A d : RecordsOf(t, d, P \ {i}) = RecordsOf(s, d, P) \ {i}
    BY <1>14, <1>16 DEF RecordsOf
  <1>18. ASSUME NEW d \in UD(t) PROVE Lists(t.devices[d].dns, RecordsOf(t, d, P \ {i}))
    <2>1. d \in DeviceSlots /\ Lists(s.devices[d].dns, RecordsOf(s, d, P))
      BY <1>14 DEF RecordsInv, UD
    <2>2. CASE d = o
      BY <1>12, <1>17, <2>1, <2>2, ListsSwapRemove
    <2>3. CASE d # o
      <3>1. RecordsOf(s, d, P) \ {i} = RecordsOf(s, d, P)
        BY <1>1, <2>3 DEF RecordsOf
      <3> QED
        BY <1>12, <1>17, <2>1, <2>3, <3>1
    <2> QED
      BY <2>2, <2>3
  <1>19. Lists(t.freeDNS, DNSSlots \ UR(t))
    <2>1. (DNSSlots \ UR(s)) \cup {i} = DNSSlots \ UR(t)
      BY <1>2, <1>14
    <2>2. Lists(s.freeDNS, DNSSlots \ UR(s))
      BY DEF RecordsInv
    <2> QED
      BY <1>7, <2>1, <2>2, ListsAppend
  <1>20. DNSWheelInv(t, W \ {i})
    <2>1. (UR(s) \ W) \ {i} = UR(t) \ (W \ {i})
      BY <1>14
    <2> QED
      BY <1>5, <2>1, ListsRemove DEF DNSWheelInv
  <1>21. ASSUME NEW k \in DOMAIN t.dnsByKey
         PROVE  t.dnsByKey[k] \in UR(t) /\ DNSKey(t, t.dnsByKey[k]) = k
    <2>1. k \in DOMAIN s.dnsByKey /\ k # DNSKey(s, i) /\ t.dnsByKey[k] = s.dnsByKey[k]
      BY <1>6 DEF Delete, Restrict
    <2>2. s.dnsByKey[k] \in UR(s) /\ DNSKey(s, s.dnsByKey[k]) = k
      BY <2>1 DEF RecordsInv
    <2>3. s.dnsByKey[k] # i
      BY <2>1, <2>2
    <2>4. s.dnsByKey[k] \in UR(t) /\ t.dns[s.dnsByKey[k]] = s.dns[s.dnsByKey[k]]
      BY <1>14, <1>16, <2>2, <2>3
    <2> QED
      BY <2>1, <2>2, <2>4 DEF DNSKey
  <1>22. \A j \in DNSSlots : t.dns[j].used \in BOOLEAN /\ t.dns[j].expiresAt \in Nat
    <2>1. NoDNS.used \in BOOLEAN /\ NoDNS.expiresAt \in Nat
      BY DEF NoDNS, Never
    <2> QED
      BY <1>10, <2>1 DEF RecordsInv
  <1>23. \A d \in DeviceSlots : t.devices[d].dnsExpiry \in Nat
    BY <1>11 DEF RecordsInv
  <1>24. \A j \in UR(t) : t.dns[j].device \in UD(t)
    BY <1>14, <1>16 DEF RecordsInv
  <1>25. RecordsInv(t, P \ {i})
    BY <1>18, <1>19, <1>21, <1>22, <1>23, <1>24 DEF RecordsInv
  <1>26. RecordsGone(s, t, {i})
    BY <1>14, <1>15, <1>16 DEF RecordsGone
  <1> QED
    BY <1>13, <1>20, <1>25, <1>26

\* The same of all of removeDNS, with the new expiry of the device.
LEMMA RemoveDNSKeeps ==
    ASSUME NEW s, NEW P, NEW W, Recorded(s, P, W), NEW i \in UR(s), NEW t, t = removeDNS(s, i)
    PROVE  Recorded(t, P \ {i}, W \ {i}) /\ RecordsGone(s, t, {i})
  <1>1. PICK d, u : d = s.dns[i].device /\ u = unlinkRecord(s, i)
    OBVIOUS
  <1>2. Recorded(u, P \ {i}, W \ {i}) /\ RecordsGone(s, u, {i})
    BY <1>1, UnlinkRecordKeeps
  <1>3. d \in UD(s)
    BY <1>1 DEF Recorded, RecordsInv
  <1>4. d \in UD(u)
    BY <1>2, <1>3 DEF RecordsGone, RecordStep, SameDevices, UD
  <1>5. t = u \/ t = recomputeDNSExpiry(u, d)
    BY <1>1 DEF removeDNS, unlinkRecord
  <1>6. CASE t = recomputeDNSExpiry(u, d)
    <2>1. Recorded(t, P \ {i}, W \ {i}) /\ RecordsStay(u, t) /\ t.dns = u.dns
      BY <1>2, <1>4, <1>6, RecomputeKeeps
    <2>2. RecordStep(s, t)
      BY <1>2, <2>1, RecordSteps DEF RecordsGone, RecordsStay
    <2>3. RecordsGone(s, t, {i})
      BY <1>2, <2>1, <2>2 DEF RecordsGone, RecordsStay
    <2> QED
      BY <2>1, <2>3
  <1> QED
    BY <1>2, <1>5, <1>6

-----------------------------------------------------------------------------
(* Caching the records of a message.                                       *)

\* The record evicted from a full slab is one in use.
LEMMA RecordsUsed ==
    ASSUME NEW s, NEW P, NEW W, Recorded(s, P, W), NEW S, S \subseteq UR(s), S # {}
    PROVE  Oldest(s.dns, [i \in DNSSlots |-> s.dns[i].expiresAt]) \in UR(s)
  <1>1. PICK age, u : age = [i \in DNSSlots |-> s.dns[i].expiresAt] /\ u \in S
    OBVIOUS
  <1>2. MaxDNSRecords \in Nat /\ DNSSlots = 1..MaxDNSRecords /\ u \in DNSSlots /\ s.dns[u].used
    BY <1>1, SlabAssumption DEF DNSSlots, UR
  <1>3. DOMAIN s.dns = 1..MaxDNSRecords /\ \A i \in 1..MaxDNSRecords : age[i] \in Nat
    BY <1>1, <1>2 DEF Recorded, RecordsInv, Shape
  <1>4. Oldest(s.dns, age) \in 1..MaxDNSRecords /\ s.dns[Oldest(s.dns, age)].used
    BY <1>2, <1>3, OldestIsUsed
  <1> QED
    BY <1>1, <1>2, <1>4 DEF UR

\* The state in which allocDNS takes an entry: it has a free one.
LEMMA AllocDNSKeeps ==
    ASSUME NEW s, Recorded(s, {}, {})
    PROVE  \E u : /\ allocDNS(s) = takeDNS(u) /\ Recorded(u, {}, {}) /\ RecordStep(s, u)
                  /\ u.freeDNS # <<>> /\ RecordsGone(s, u, UR(s) \ UR(u))
  <1>1. CASE s.freeDNS # <<>>
    <2>1. RecordsGone(s, s, UR(s) \ UR(s))
      BY NoStep DEF RecordsGone
    <2> QED
      BY <1>1, <2>1, NoStep DEF allocDNS
  <1>2. CASE s.freeDNS = <<>>
    <2>1. UR(s) = DNSSlots
      BY <1>2 DEF Recorded, RecordsInv, Lists, UR
    <2>2. PICK i : i = Oldest(s.dns, [j \in DNSSlots |-> s.dns[j].expiresAt])
      OBVIOUS
    <2>3. DNSSlots # {}
      BY SlabAssumption DEF DNSSlots
    <2>4. i \in UR(s)
      BY <2>1, <2>2, <2>3, RecordsUsed
    <2>5. PICK u : u = removeDNS(s, i)
      OBVIOUS
    <2>6. Recorded(u, {} \ {i}, {} \ {i}) /\ RecordsGone(s, u, {i})
      BY <2>4, <2>5, RemoveDNSKeeps
    <2>7. Recorded(u, {}, {})
      <3>1. {} \ {i} = {}
        OBVIOUS
      <3> QED
        BY <2>6, <3>1
    <2>8. u.freeDNS # <<>>
      <3>1. i \in DNSSlots \ UR(u)
        BY <2>4, <2>6 DEF RecordsGone, UR
      <3>2. Lists(u.freeDNS, DNSSlots \ UR(u))
        BY <2>7 DEF Recorded, RecordsInv
      <3> QED
        BY <3>1, <3>2 DEF Lists
    <2>9. allocDNS(s) = takeDNS(u)
      BY <1>2, <2>2, <2>5 DEF allocDNS
    <2>10. RecordsGone(s, u, UR(s) \ UR(u))
      BY <2>4, <2>6 DEF RecordsGone
    <2> QED
      BY <2>7, <2>8, <2>9, <2>10 DEF RecordsGone
  <1> QED
    BY <1>1, <1>2

\* insertDNS up to the expiry of the record.
placeRecord(a, d, r) ==
    [a.s EXCEPT !.dns[a.idx] = [NoDNS EXCEPT !.used = TRUE, !.rec = r.rec, !.device = d, !.ttl = r.ttl],
                !.dnsByKey = Store(@, <<d, r.rec>>, a.idx),
                !.devices[d].dns = Append(@, a.idx)]

\* insertDNS takes a free entry, indexes it and puts it on the list of its
\* device; it is not yet on the wheel.
LEMMA PlaceRecordKeeps ==
    ASSUME NEW s, Recorded(s, {}, {}), s.freeDNS # <<>>, NEW d \in UD(s), NEW r,
           NEW i, i = Last(s.freeDNS), NEW t, t = placeRecord(takeDNS(s), d, r)
    PROVE  Recorded(t, {}, {i}) /\ RecordStep(s, t) /\ i \in UR(t)
  <1> USE DEF Recorded
  <1>1. i \in DNSSlots \ UR(s) /\ Lists(Front(s.freeDNS), (DNSSlots \ UR(s)) \ {i})
    BY ListsLast DEF RecordsInv
  <1>2. d \in DeviceSlots
    BY DEF UD
  <1>3. PICK a : a = takeDNS(s)
    OBVIOUS
  <1>4. a.idx = i /\ a.s = [s EXCEPT !.freeDNS = Front(@)]
    BY <1>3 DEF takeDNS
  <1>5. PICK v : v = a.s
    OBVIOUS
  <1>6. /\ DOMAIN v = DOMAIN s /\ v.freeDNS = Front(s.freeDNS)
        /\ v.links = s.links /\ v.linkByKey = s.linkByKey
        /\ v.freeLinks = s.freeLinks /\ v.linkWheel = s.linkWheel
        /\ v.deviceByKey = s.deviceByKey /\ v.freeDevices = s.freeDevices
        /\ v.devices = s.devices /\ v.dns = s.dns /\ v.dnsByKey = s.dnsByKey
        /\ v.dnsWheel = s.dnsWheel
    BY <1>4, <1>5 DEF Shape
  <1>7. PICK e : e = [NoDNS EXCEPT !.used = TRUE, !.rec = r.rec, !.device = d, !.ttl = r.ttl]
    OBVIOUS
  <1>8. /\ DOMAIN e = {"used", "rec", "device", "ttl", "expiresAt", "due"}
        /\ e.rec = r.rec /\ e.device = d /\ e.expiresAt \in Nat
    BY <1>7 DEF NoDNS, Never
  <1>9. e.used = TRUE
    BY <1>7 DEF NoDNS
  <1>10. t = [v EXCEPT !.dns[i] = e, !.dnsByKey = Store(@, <<d, r.rec>>, i),
                       !.devices[d].dns = Append(@, i)]
    BY <1>3, <1>4, <1>5, <1>7 DEF placeRecord
  <1>11. t.dns = [s.dns EXCEPT ![i] = e]
    BY <1>6, <1>10 DEF Shape
  <1>12. t.devices = [s.devices EXCEPT ![d].dns = Append(@, i)]
    BY <1>6, <1>10 DEF Shape
  <1>13. t.dnsByKey = Store(s.dnsByKey, <<d, r.rec>>, i)
    BY <1>6, <1>10 DEF Shape
  <1>14. /\ DOMAIN t = DOMAIN s /\ t.freeDNS = Front(s.freeDNS)
         /\ t.links = s.links /\ t.linkByKey = s.linkByKey
         /\ t.freeLinks = s.freeLinks /\ t.linkWheel = s.linkWheel
         /\ t.deviceByKey = s.deviceByKey /\ t.freeDevices = s.freeDevices
         /\ t.dnsWheel = s.dnsWheel
    BY <1>6, <1>10 DEF Shape
  <1>15. /\ t.dns[i] = e /\ DOMAIN t.dns = DOMAIN s.dns
         /\ \A j \in DNSSlots : j # i => t.dns[j] = s.dns[j]
    BY <1>1, <1>11 DEF Shape
  <1>16. \A x \in DeviceSlots : /\ t.devices[x].used = s.devices[x].used
                                /\ t.devices[x].key = s.devices[x].key
                                /\ t.devices[x].protocols = s.devices[x].protocols
                                /\ t.devices[x].links = s.devices[x].links
                                /\ t.devices[x].dnsExpiry = s.devices[x].dnsExpiry
                                /\ t.devices[x].facts = s.devices[x].facts
                                /\ t.devices[x].lastSeen = s.devices[x].lastSeen
                                /\ DOMAIN t.devices[x] = DOMAIN s.devices[x]
    BY <1>2, <1>12 DEF Shape
  <1>17. /\ t.devices[d].dns = Append(s.devices[d].dns, i)
         /\ \A x \in DeviceSlots : x # d => t.devices[x].dns = s.devices[x].dns
         /\ DOMAIN t.devices = DOMAIN s.devices
    BY <1>2, <1>12 DEF Shape
  <1>18. Shape(t)
    <2>1. \A j \in DNSSlots : DOMAIN t.dns[j] = {"used", "rec", "device", "ttl", "expiresAt", "due"}
      BY <1>8, <1>15 DEF Shape
    <2>2. \A x \in DeviceSlots : DOMAIN t.devices[x] = DOMAIN s.devices[x]
      BY <1>16
    <2> QED
      BY <1>14, <1>15, <1>17, <2>1, <2>2 DEF Shape
  <1>19. UD(t) = UD(s) /\ UR(t) = UR(s) \cup {i}
    <2>1. t.dns[i].used
      BY <1>9, <1>15
    <2> QED
      BY <1>1, <1>15, <1>16, <2>1 DEF UD, UR
  <1>20. RecordStep(s, t)
    BY <1>14, <1>16 DEF RecordStep, SameDevices, SameLinks
  <1>21. \A j \in UR(s) : t.dns[j] = s.dns[j]
    BY <1>1, <1>15 DEF UR
  <1>22. ASSUME NEW x \in UD(t) PROVE Lists(t.devices[x].dns, RecordsOf(t, x, {}))
    <2>1. x \in DeviceSlots /\ Lists(s.devices[x].dns, RecordsOf(s, x, {}))
      BY <1>19 DEF RecordsInv, UD
    <2>2. CASE x = d
      <3>1. RecordsOf(t, x, {}) = RecordsOf(s, x, {}) \cup {i} /\ i \notin RecordsOf(s, x, {})
        BY <1>1, <1>8, <1>15, <1>19, <1>21, <2>2 DEF RecordsOf
      <3>2. Lists(Append(s.devices[x].dns, i), RecordsOf(s, x, {}) \cup {i})
        BY <2>1, <3>1, ListsAppend
      <3> QED
        BY <1>17, <2>2, <3>1, <3>2
    <2>3. CASE x # d
      <3>1. RecordsOf(t, x, {}) = RecordsOf(s, x, {})
        BY <1>1, <1>8, <1>15, <1>19, <1>21, <2>3 DEF RecordsOf
      <3> QED
        BY <1>17, <2>1, <2>3, <3>1
    <2> QED
      BY <2>2, <2>3
  <1>23. Lists(t.freeDNS, DNSSlots \ UR(t))
    <2>1. (DNSSlots \ UR(s)) \ {i} = DNSSlots \ UR(t)
      BY <1>1, <1>19
    <2> QED
      BY <1>1, <1>14, <2>1
  <1>24. DNSWheelInv(t, {i})
    <2>1. UR(t) \ {i} = UR(s) \ {}
      BY <1>1, <1>19
    <2> QED
      BY <1>14, <2>1 DEF DNSWheelInv
  <1>25. ASSUME NEW k \in DOMAIN t.dnsByKey
         PROVE  t.dnsByKey[k] \in UR(t) /\ DNSKey(t, t.dnsByKey[k]) = k
    <2>1. CASE k = <<d, r.rec>>
      <3>1. t.dnsByKey[k] = i
        BY <1>13, <2>1 DEF Store
      <3> QED
        BY <1>8, <1>15, <1>19, <2>1, <3>1 DEF DNSKey
    <2>2. CASE k # <<d, r.rec>>
      <3>1. k \in DOMAIN s.dnsByKey /\ t.dnsByKey[k] = s.dnsByKey[k]
        BY <1>13, <2>2 DEF Store
      <3>2. s.dnsByKey[k] \in UR(s) /\ DNSKey(s, s.dnsByKey[k]) = k
        BY <3>1 DEF RecordsInv
      <3> QED
        BY <1>19, <1>21, <3>1, <3>2 DEF DNSKey
    <2> QED
      BY <2>1, <2>2
  <1>26. \A j \in DNSSlots : t.dns[j].used \in BOOLEAN /\ t.dns[j].expiresAt \in Nat
    <2>1. e.used \in BOOLEAN
      BY <1>9
    <2> QED
      BY <1>8, <1>15, <2>1 DEF RecordsInv
  <1>27. \A x \in DeviceSlots : t.devices[x].dnsExpiry \in Nat
    BY <1>16 DEF RecordsInv
  <1>28. \A j \in UR(t) : t.dns[j].device \in UD(t)
    BY <1>8, <1>15, <1>19, <1>21 DEF RecordsInv
  <1>29. RecordsInv(t, {})
    BY <1>22, <1>23, <1>25, <1>26, <1>27, <1>28 DEF RecordsInv
  <1> QED
    BY <1>18, <1>19, <1>20, <1>24, <1>29

\* A record gets another TTL.
ageRecord(s, i, ttl) == [s EXCEPT !.dns[i].ttl = ttl]

\* The TTL of a record is no part of the structure.
LEMMA AgeRecordKeeps ==
    ASSUME NEW s, NEW P, NEW W, Recorded(s, P, W), NEW i \in UR(s), NEW ttl,
           NEW t, t = ageRecord(s, i, ttl)
    PROVE  Recorded(t, P, W) /\ RecordsStay(s, t)
  <1> USE DEF Recorded
  <1>1. i \in DNSSlots
    BY DEF UR
  <1>2. t.dns = [s.dns EXCEPT ![i].ttl = ttl]
    BY DEF ageRecord, Shape
  <1>3. DOMAIN t = DOMAIN s
    BY DEF ageRecord, Shape
  <1>4. /\ t.links = s.links /\ t.linkByKey = s.linkByKey
        /\ t.freeLinks = s.freeLinks /\ t.linkWheel = s.linkWheel
        /\ t.deviceByKey = s.deviceByKey /\ t.freeDevices = s.freeDevices
        /\ t.devices = s.devices /\ t.dnsByKey = s.dnsByKey
        /\ t.freeDNS = s.freeDNS /\ t.dnsWheel = s.dnsWheel
    BY DEF ageRecord, Shape
  <1>5. \A j \in DNSSlots : /\ t.dns[j].used = s.dns[j].used
                            /\ t.dns[j].device = s.dns[j].device
                            /\ t.dns[j].rec = s.dns[j].rec
                            /\ t.dns[j].expiresAt = s.dns[j].expiresAt
                            /\ DOMAIN t.dns[j] = DOMAIN s.dns[j]
    BY <1>1, <1>2 DEF Shape
  <1>6. Shape(t)
    <2>1. DOMAIN t.dns = DOMAIN s.dns
      BY <1>2
    <2> QED
      BY <1>3, <1>4, <1>5, <2>1 DEF Shape
  <1>7. RecordsStay(s, t)
    <2>1. UR(t) = UR(s)
      BY <1>5 DEF UR
    <2> QED
      BY <1>4, <1>5, <2>1 DEF RecordsStay, RecordStep, SameDevices, SameLinks
  <1>8. RecordsInv(t, P)
    <2>1. \A d \in DeviceSlots : t.devices[d].dnsExpiry \in Nat
      BY <1>4 DEF RecordsInv
    <2>2. \A j \in DNSSlots : t.dns[j].expiresAt \in Nat
      BY <1>5 DEF RecordsInv
    <2> QED
      BY <1>7, <2>1, <2>2, RecordsStayFrame
  <1>9. DNSWheelInv(t, W)
    BY <1>4, <1>7 DEF DNSWheelInv, RecordsStay
  <1> QED
    BY <1>6, <1>7, <1>8, <1>9

\* cacheDNS refreshes a record, inserts one, or evicts one and then inserts.
LEMMA CacheDNSKeeps ==
    ASSUME NEW s, Recorded(s, {}, {}), NEW d \in UD(s), NEW r, r.ttl \in Nat, NEW at \in Nat,
           NEW t, t = cacheDNS(s, d, r, at)
    PROVE  Recorded(t, {}, {}) /\ RecordStep(s, t) /\ Dated(s, t, at)
  <1>1. PICK i, expires : i = Lookup(s.dnsByKey, <<d, r.rec>>) /\ expires = at + r.ttl * Second
    OBVIOUS
  <1>2. /\ expires \in Nat /\ (r.ttl # 0 => expires > at)
        /\ at + Second \in Nat /\ at + Second > at
    <2>1. r.ttl * Second \in Nat /\ (r.ttl # 0 => r.ttl * Second > 0)
      BY SecondAssumption
    <2> QED
      BY <1>1, <2>1, SecondAssumption
  <1>3. ASSUME i # 0 PROVE i \in UR(s)
    <2>1. <<d, r.rec>> \in DOMAIN s.dnsByKey /\ i = s.dnsByKey[<<d, r.rec>>]
      BY <1>1, <1>3 DEF Lookup
    <2> QED
      BY <2>1 DEF Recorded, RecordsInv
  <1>4. ASSUME NEW u, Recorded(u, {}, {}), NEW j \in UR(u), NEW x \in Nat, x > at,
               t = setDNSExpiry(u, j, at, x)
        PROVE  Recorded(t, {}, {}) /\ RecordStep(u, t) /\ Dated(u, t, at)
    <2>1. Recorded(t, {}, {} \ {j}) /\ RecordsStay(u, t)
      BY <1>4, SetDNSExpiryKeeps
    <2>2. {} \ {j} = {}
      OBVIOUS
    <2>3. Dated(u, t, at)
      BY <1>4, RefreshDates
    <2> QED
      BY <2>1, <2>2, <2>3 DEF RecordsStay
  <1>5. CASE r.ttl = 0 /\ i = 0
    <2>1. t = s
      BY <1>1, <1>5 DEF cacheDNS
    <2> QED
      BY <2>1, NoStep, DatedSame
  <1>6. CASE r.ttl = 0 /\ i # 0
    <2>1. t = setDNSExpiry(s, i, at, at + Second)
      BY <1>1, <1>6 DEF cacheDNS
    <2> QED
      BY <1>2, <1>3, <1>4, <1>6, <2>1
  <1>7. CASE r.ttl # 0 /\ i # 0
    <2>1. PICK u : u = ageRecord(s, i, r.ttl)
      OBVIOUS
    <2>2. t = setDNSExpiry(u, i, at, expires)
      BY <1>1, <1>7, <2>1 DEF cacheDNS, ageRecord
    <2>3. Recorded(u, {}, {}) /\ RecordsStay(s, u)
      BY <1>3, <1>7, <2>1, AgeRecordKeeps
    <2>4. i \in UR(u)
      BY <1>3, <1>7, <2>3 DEF RecordsStay
    <2>5. Recorded(t, {}, {}) /\ RecordStep(u, t) /\ Dated(u, t, at)
      BY <1>2, <1>4, <1>7, <2>2, <2>3, <2>4
    <2>6. Dated(s, u, at)
      <3>1. u.dns = [s.dns EXCEPT ![i].ttl = r.ttl]
        BY <2>1 DEF ageRecord, Recorded, Shape
      <3>2. i \in DNSSlots /\ UR(u) = UR(s) /\ UR(u) \subseteq DNSSlots
        BY <2>3, <2>4 DEF RecordsStay, UR
      <3>3. \A j \in DNSSlots : SameDate(s.dns[j], u.dns[j])
        BY <3>1, <3>2 DEF Recorded, Shape, SameDate
      <3> QED
        BY <3>2, <3>3 DEF Dated
    <2>7. RecordStep(s, t)
      BY <2>3, <2>5, RecordSteps DEF RecordsStay
    <2> QED
      BY <2>5, <2>6, <2>7, DatedThen
  <1>8. CASE r.ttl # 0 /\ i = 0
    <2>1. t = insertDNS(allocDNS(s), d, r, at, expires)
      BY <1>1, <1>8 DEF cacheDNS
    <2>2. PICK u : /\ allocDNS(s) = takeDNS(u) /\ Recorded(u, {}, {}) /\ RecordStep(s, u)
                   /\ u.freeDNS # <<>> /\ RecordsGone(s, u, UR(s) \ UR(u))
      BY AllocDNSKeeps
    <2>3. d \in UD(u)
      BY <2>2 DEF RecordStep, SameDevices, UD
    <2>4. PICK v, j : v = placeRecord(takeDNS(u), d, r) /\ j = Last(u.freeDNS)
      OBVIOUS
    <2>5. Recorded(v, {}, {j}) /\ RecordStep(u, v) /\ j \in UR(v)
      BY <2>2, <2>3, <2>4, PlaceRecordKeeps
    <2>6. takeDNS(u).idx = j
      BY <2>4 DEF takeDNS
    <2>7. t = setDNSExpiry(v, j, at, expires)
      BY <2>1, <2>2, <2>4, <2>6 DEF insertDNS, placeRecord
    <2>8. Recorded(t, {}, {j} \ {j}) /\ RecordsStay(v, t)
      BY <1>2, <2>5, <2>7, SetDNSExpiryKeeps
    <2>9. {j} \ {j} = {}
      OBVIOUS
    <2>10. RecordStep(s, v)
      BY <2>2, <2>5, RecordSteps
    <2>11. RecordStep(s, t)
      BY <2>8, <2>10, RecordSteps DEF RecordsStay
    <2>12. Scheduled(t.dns[j], at) /\ \A x \in DNSSlots \ {j} : t.dns[x] = v.dns[x]
      BY <1>2, <1>8, <2>5, <2>7, SetDNSExpiryDates
    <2>13. \A x \in DNSSlots \ {j} : v.dns[x] = u.dns[x]
      <3>1. PICK w, e : /\ w = takeDNS(u).s
                        /\ e = [NoDNS EXCEPT !.used = TRUE, !.rec = r.rec, !.device = d, !.ttl = r.ttl]
        OBVIOUS
      <3>2. w = [u EXCEPT !.freeDNS = Front(@)]
        BY <3>1 DEF takeDNS
      <3>3. DOMAIN w = DOMAIN u /\ w.dns = u.dns
        BY <2>2, <3>2 DEF Recorded, Shape
      <3>4. v = [w EXCEPT !.dns[j] = e, !.dnsByKey = Store(@, <<d, r.rec>>, j),
                          !.devices[d].dns = Append(@, j)]
        BY <2>4, <2>6, <3>1 DEF placeRecord
      <3>5. v.dns = [w.dns EXCEPT ![j] = e]
        BY <2>2, <3>3, <3>4 DEF Recorded, Shape
      <3> QED
        BY <2>2, <3>3, <3>5 DEF Recorded, Shape
    <2>14. Dated(u, t, at)
      <3>1. ASSUME NEW x \in UR(t), x # j PROVE x \in UR(u) /\ SameDate(u.dns[x], t.dns[x])
        BY <2>12, <2>13, <3>1 DEF UR, SameDate
      <3> QED
        BY <2>12, <3>1 DEF Dated
    <2>15. Dated(s, u, at)
      BY <2>2, DatedGone DEF Dated, SameDates
    <2>16. Dated(s, t, at)
      BY <2>14, <2>15, DatedThen
    <2> QED
      BY <2>8, <2>9, <2>11, <2>16
  <1> QED
    BY <1>5, <1>6, <1>7, <1>8

\* The loop of flushDNSSet.
FDTurn(c, t, i) == flushRecord(t, i, c.r, c.message, c.at)
FDGood(c, n, t) == Recorded(t, {}, {}) /\ RecordsStay(c.s, t) /\ Dated(c.s, t, c.at)
FD == INSTANCE Loops WITH Turn <- FDTurn, Good <- FDGood

\* A cache flush dates records and removes none.
LEMMA FlushDNSSetKeeps ==
    ASSUME NEW s, Recorded(s, {}, {}), NEW d \in UD(s), NEW r, NEW message, NEW at \in Nat,
           NEW t, t = flushDNSSet(s, d, r, message, at)
    PROVE  Recorded(t, {}, {}) /\ RecordStep(s, t) /\ Dated(s, t, at)
  <1>1. PICK c, q : /\ c = [s |-> s, r |-> r, message |-> message, at |-> at]
                    /\ q = s.devices[d].dns
    OBVIOUS
  <1>2. c.s = s /\ c.r = r /\ c.message = message /\ c.at = at
    BY <1>1
  <1>3. flushDNSSet(s, d, c.r, c.message, c.at) = FD!Loop(c, s, s.devices[d].dns)
    BY DEF flushDNSSet, FD!Loop, FDTurn, FoldLeft, MapThenFoldSet, Max, FD!Greatest
  <1>4. Lists(q, RecordsOf(s, d, {}))
    BY <1>1 DEF Recorded, RecordsInv
  <1>5. q \in Seq(UR(s))
    <2>1. q \in Seq(RecordsOf(s, d, {})) /\ RecordsOf(s, d, {}) \subseteq UR(s)
      BY <1>4 DEF Lists, RecordsOf
    <2> QED
      BY <2>1
  <1>6. FDGood(c, 0, s)
    BY <1>2, NoStep, DatedSame DEF FDGood, RecordsStay
  <1>7. ASSUME NEW n \in 1..Len(q), NEW u, FDGood(c, n - 1, u) PROVE FDGood(c, n, FDTurn(c, u, q[n]))
    <2>1. PICK i, v : i = q[n] /\ v = flushRecord(u, i, r, message, at)
      OBVIOUS
    <2>2. Recorded(u, {}, {}) /\ RecordsStay(s, u) /\ Dated(s, u, at)
      BY <1>2, <1>7 DEF FDGood
    <2>3. i \in UR(u)
      BY <1>5, <2>1, <2>2 DEF RecordsStay
    <2>4. v = u \/ v = setDNSExpiry(u, i, at, at + Second)
      BY <2>1 DEF flushRecord
    <2>5. ASSUME v = setDNSExpiry(u, i, at, at + Second)
          PROVE  Recorded(v, {}, {}) /\ RecordsStay(s, v) /\ Dated(s, v, at)
      <3>1. at + Second \in Nat /\ at + Second > at
        BY SecondAssumption
      <3>2. Recorded(v, {}, {} \ {i}) /\ RecordsStay(u, v)
        BY <2>2, <2>3, <2>5, <3>1, SetDNSExpiryKeeps
      <3>3. {} \ {i} = {}
        OBVIOUS
      <3>4. RecordsStay(s, v)
        BY <2>2, <3>2, RecordsStaying
      <3>5. Dated(u, v, at)
        BY <2>2, <2>3, <2>5, <3>1, RefreshDates
      <3>6. Dated(s, v, at)
        BY <2>2, <3>5, DatedThen
      <3> QED
        BY <3>2, <3>3, <3>4, <3>6
    <2>6. Recorded(v, {}, {}) /\ RecordsStay(s, v) /\ Dated(s, v, at)
      BY <2>2, <2>4, <2>5
    <2>7. FDTurn(c, u, q[n]) = v
      BY <1>2, <2>1 DEF FDTurn
    <2> QED
      BY <1>2, <2>6, <2>7 DEF FDGood
  <1>8. FDGood(c, Len(q), FD!Loop(c, s, q))
    BY <1>5, <1>6, <1>7, FD!LoopKeeps
  <1>9. t = FD!Loop(c, s, q)
    BY <1>1, <1>2, <1>3
  <1> QED
    BY <1>2, <1>8, <1>9 DEF FDGood, RecordsStay

\* The loop of observeMDNS over the records of a message.
CRTurn(c, acc, j) == cacheRecord(acc, j, c.d, c.message, c.at)
CRGood(c, n, acc) == Recorded(acc.s, {}, {}) /\ RecordStep(c.s, acc.s) /\ Dated(c.s, acc.s, c.at)
CR == INSTANCE Loops WITH Turn <- CRTurn, Good <- CRGood

\* The loop of observeMDNS over the records of a message, goodbyes and cache
\* flushes included.
LEMMA CacheRecordsKeeps ==
    ASSUME NEW s, Recorded(s, {}, {}), NEW d \in UD(s), NEW R, NEW message \in Seq(R),
           \A j \in 1..Len(message) : message[j].ttl \in Nat, NEW at \in Nat,
           NEW t, t = cacheRecords(s, d, message, at)
    PROVE  Recorded(t.s, {}, {}) /\ RecordStep(s, t.s) /\ Dated(s, t.s, at)
  <1>1. PICK c, q, acc : /\ c = [s |-> s, d |-> d, message |-> message, at |-> at]
                         /\ q = [j \in 1..Len(message) |-> j]
                         /\ acc = [s |-> s, grew |-> FALSE]
    OBVIOUS
  <1>2. c.s = s /\ c.d = d /\ c.message = message /\ c.at = at /\ acc.s = s
    BY <1>1
  <1>3. cacheRecords(s, c.d, c.message, c.at)
          = CR!Loop(c, [s |-> s, grew |-> FALSE], [j \in 1..Len(c.message) |-> j])
    BY DEF cacheRecords, CR!Loop, CRTurn, FoldLeft, MapThenFoldSet, Max, CR!Greatest
  <1>4. t = CR!Loop(c, acc, q)
    BY <1>1, <1>2, <1>3
  <1>5. q \in Seq(Nat) /\ Len(q) = Len(message) /\ \A n \in 1..Len(q) : q[n] = n
    BY <1>1
  <1>6. CRGood(c, 0, acc)
    BY <1>2, NoStep, DatedSame DEF CRGood
  <1>7. ASSUME NEW n \in 1..Len(q), NEW u, CRGood(c, n - 1, u) PROVE CRGood(c, n, CRTurn(c, u, q[n]))
    <2>1. PICK j, r, v, w : /\ j = q[n] /\ r = message[j]
                            /\ v = IF r.flush /\ \A k \in 1..(j - 1) :
                                        ~ (message[k].flush /\ RRSetOf[message[k].rec] = RRSetOf[r.rec])
                                   THEN flushDNSSet(u.s, d, r, message, at) ELSE u.s
                            /\ w = cacheRecord(u, j, d, message, at)
      OBVIOUS
    <2>2. Recorded(u.s, {}, {}) /\ RecordStep(s, u.s) /\ Dated(s, u.s, at) /\ r.ttl \in Nat
      BY <1>2, <1>5, <1>7, <2>1 DEF CRGood
    <2>3. d \in UD(u.s)
      BY <2>2 DEF RecordStep, SameDevices, UD
    <2>4. Recorded(v, {}, {}) /\ RecordStep(u.s, v) /\ Dated(u.s, v, at)
      <3>1. v = u.s \/ v = flushDNSSet(u.s, d, r, message, at)
        BY <2>1
      <3>2. CASE v = u.s
        BY <2>2, <3>2, NoStep, DatedSame
      <3>3. CASE v = flushDNSSet(u.s, d, r, message, at)
        BY <2>2, <2>3, <3>3, FlushDNSSetKeeps
      <3> QED
        BY <3>1, <3>2, <3>3
    <2>5. d \in UD(v)
      BY <2>3, <2>4 DEF RecordStep, SameDevices, UD
    <2>6. w.s = cacheDNS(v, d, r, at)
      BY <2>1 DEF cacheRecord
    <2>7. Recorded(w.s, {}, {}) /\ RecordStep(v, w.s) /\ Dated(v, w.s, at)
      BY <2>2, <2>4, <2>5, <2>6, CacheDNSKeeps
    <2>8. RecordStep(s, v)
      BY <2>2, <2>4, RecordSteps
    <2>9. RecordStep(s, w.s)
      BY <2>7, <2>8, RecordSteps
    <2>10. CRTurn(c, u, q[n]) = w
      BY <1>2, <2>1 DEF CRTurn
    <2>11. Dated(s, v, at)
      BY <2>2, <2>4, DatedThen
    <2>12. Dated(s, w.s, at)
      BY <2>7, <2>11, DatedThen
    <2> QED
      BY <1>2, <2>7, <2>9, <2>10, <2>12 DEF CRGood
  <1>8. CRGood(c, Len(q), CR!Loop(c, acc, q))
    BY <1>5, <1>6, <1>7, CR!LoopKeeps
  <1> QED
    BY <1>2, <1>4, <1>8 DEF CRGood

\* The services of a device are derived from the records and change nothing
\* else.
LEMMA RebuildServicesKeeps ==
    ASSUME NEW s, NEW P, NEW W, Recorded(s, P, W), NEW d \in DeviceSlots, NEW t, t = rebuildServices(s, d)
    PROVE  Recorded(t, P, W) /\ RecordStep(s, t) /\ SameRecords(s, t)
  <1>1. PICK x : x = {s.dns[i].rec : i \in ToSet(s.devices[d].dns)}
    OBVIOUS
  <1>2. t = [s EXCEPT !.devices[d].services = x]
    BY <1>1 DEF rebuildServices
  <1>3. Shape(s)
    BY DEF Recorded
  <1>4. t.devices = [s.devices EXCEPT ![d].services = x]
    BY <1>2, <1>3 DEF Shape
  <1>5. /\ DOMAIN t = DOMAIN s
        /\ t.links = s.links /\ t.linkByKey = s.linkByKey
        /\ t.freeLinks = s.freeLinks /\ t.linkWheel = s.linkWheel
        /\ t.deviceByKey = s.deviceByKey /\ t.freeDevices = s.freeDevices
        /\ t.dns = s.dns /\ t.dnsByKey = s.dnsByKey
        /\ t.freeDNS = s.freeDNS /\ t.dnsWheel = s.dnsWheel
    BY <1>2, <1>3 DEF Shape
  <1>6. \A e \in DeviceSlots : /\ t.devices[e].used = s.devices[e].used
                               /\ t.devices[e].key = s.devices[e].key
                               /\ t.devices[e].protocols = s.devices[e].protocols
                               /\ t.devices[e].links = s.devices[e].links
                               /\ t.devices[e].dns = s.devices[e].dns
                               /\ t.devices[e].dnsExpiry = s.devices[e].dnsExpiry
                               /\ t.devices[e].facts = s.devices[e].facts
                               /\ t.devices[e].lastSeen = s.devices[e].lastSeen
                               /\ DOMAIN t.devices[e] = DOMAIN s.devices[e]
    BY <1>3, <1>4 DEF Shape
  <1>7. Shape(t)
    <2>1. DOMAIN t.devices = DOMAIN s.devices
      BY <1>4
    <2>2. \A e \in DeviceSlots : DOMAIN t.devices[e] = DOMAIN s.devices[e]
      BY <1>6
    <2> QED
      BY <1>3, <1>5, <2>1, <2>2 DEF Shape
  <1>8. SameDevices(s, t) /\ SameRecords(s, t) /\ SameLinks(s, t)
    BY <1>5, <1>6 DEF SameDevices, SameRecords, SameLinks
  <1>9. Recorded(t, P, W)
    BY <1>7, <1>8, RecordedFrame
  <1> QED
    BY <1>8, <1>9 DEF RecordStep

\* The same of the whole of a message, with the services rebuilt at its end.
LEMMA CacheMessageKeeps ==
    ASSUME NEW s, Recorded(s, {}, {}), NEW d \in UD(s), NEW R, NEW message \in Seq(R),
           \A j \in 1..Len(message) : message[j].ttl \in Nat, NEW at \in Nat,
           NEW t, t = cacheMessage(s, d, message, at)
    PROVE  Recorded(t.s, {}, {}) /\ RecordStep(s, t.s) /\ Dated(s, t.s, at)
  <1>1. PICK u : u = cacheRecords(s, d, message, at)
    OBVIOUS
  <1>2. Recorded(u.s, {}, {}) /\ RecordStep(s, u.s) /\ Dated(s, u.s, at)
    BY <1>1, CacheRecordsKeeps
  <1>3. t.s = u.s \/ t.s = rebuildServices(u.s, d)
    BY <1>1 DEF cacheMessage
  <1>4. CASE t.s = rebuildServices(u.s, d)
    <2>1. d \in DeviceSlots
      BY DEF UD
    <2>2. Recorded(t.s, {}, {}) /\ RecordStep(u.s, t.s) /\ SameRecords(u.s, t.s)
      BY <1>2, <1>4, <2>1, RebuildServicesKeeps
    <2>3. Dated(s, t.s, at)
      BY <1>2, <2>2, DatedSame, DatedThen DEF SameRecords
    <2> QED
      BY <1>2, <2>2, <2>3, RecordSteps
  <1>5. CASE t.s = u.s
    BY <1>2, <1>5
  <1> QED
    BY <1>3, <1>4, <1>5

-----------------------------------------------------------------------------
(* Removing and moving the records of a device.                            *)

\* The loop of removeDevice over the records.
RRTurn(c, t, i) == removeDNS(t, i)
RRGood(c, n, t) == Recorded(t, {}, {}) /\ RecordsGone(c.s, t, c.S \ Rest(c.q, n))
RR == INSTANCE Loops WITH Turn <- RRTurn, Good <- RRGood

\* removeDNS when nothing is pending.
LEMMA RemoveDNSClean ==
    ASSUME NEW s, Recorded(s, {}, {}), NEW i \in UR(s), NEW t, t = removeDNS(s, i)
    PROVE  Recorded(t, {}, {}) /\ RecordsGone(s, t, {i})
  <1>1. Recorded(t, {} \ {i}, {} \ {i}) /\ RecordsGone(s, t, {i})
    BY RemoveDNSKeeps
  <1>2. {} \ {i} = {}
    OBVIOUS
  <1> QED
    BY <1>1, <1>2

\* Removing one record more.
LEMMA RecordsGoneOneMore ==
    ASSUME NEW s, NEW u, NEW v, NEW S, NEW i, RecordsGone(s, u, S), RecordsGone(u, v, {i})
    PROVE  RecordsGone(s, v, S \cup {i})
  <1>1. RecordStep(s, v)
    BY RecordSteps DEF RecordsGone
  <1>2. UR(v) = UR(s) \ (S \cup {i})
    BY DEF RecordsGone
  <1>3. \A j \in UR(v) : v.dns[j] = s.dns[j]
    BY <1>2 DEF RecordsGone
  <1> QED
    BY <1>1, <1>2, <1>3 DEF RecordsGone

\* The loop of removeDevice removes exactly the records that it is given.
LEMMA RemoveRecordsKeeps ==
    ASSUME NEW s, Recorded(s, {}, {}), NEW S, S \subseteq UR(s), NEW q, Lists(q, S),
           NEW t, t = removeRecords(s, q)
    PROVE  Recorded(t, {}, {}) /\ RecordsGone(s, t, S)
  <1>1. PICK c : c = [s |-> s, q |-> q, S |-> S]
    OBVIOUS
  <1>2. c.s = s /\ c.q = q /\ c.S = S
    BY <1>1
  <1>3. removeRecords(s, q) = RR!Loop(c, s, q)
    BY DEF removeRecords, RR!Loop, RRTurn, FoldLeft, MapThenFoldSet, Max, RR!Greatest
  <1>4. q \in Seq(S) /\ Rest(q, 0) = S /\ Rest(q, Len(q)) = {}
    BY ListsRest DEF Lists
  <1>5. RRGood(c, 0, s)
    <2>1. c.S \ Rest(c.q, 0) = {} /\ UR(s) \ {} = UR(s)
      BY <1>2, <1>4
    <2>2. RecordsGone(s, s, {})
      BY <2>1, NoStep DEF RecordsGone
    <2> QED
      BY <1>2, <2>1, <2>2 DEF RRGood
  <1>6. ASSUME NEW n \in 1..Len(q), NEW u, RRGood(c, n - 1, u)
        PROVE  RRGood(c, n, RRTurn(c, u, q[n]))
    <2>1. PICK R, i, v : R = Rest(q, n - 1) /\ i = q[n] /\ v = removeDNS(u, i)
      OBVIOUS
    <2>2. i \in R /\ Rest(q, n) = R \ {i} /\ R \subseteq S
      BY <2>1, ListsRest
    <2>3. Recorded(u, {}, {}) /\ RecordsGone(s, u, S \ R)
      BY <1>2, <1>6, <2>1 DEF RRGood
    <2>4. i \in UR(u)
      BY <2>2, <2>3 DEF RecordsGone
    <2>5. Recorded(v, {}, {}) /\ RecordsGone(u, v, {i})
      BY <2>1, <2>3, <2>4, RemoveDNSClean
    <2>6. RecordsGone(s, v, (S \ R) \cup {i})
      BY <2>3, <2>5, RecordsGoneOneMore
    <2>7. (S \ R) \cup {i} = S \ (R \ {i})
      BY <2>2
    <2>8. RRTurn(c, u, q[n]) = v
      BY <2>1 DEF RRTurn
    <2> QED
      BY <1>2, <2>2, <2>5, <2>6, <2>7, <2>8 DEF RRGood
  <1>7. RRGood(c, Len(q), RR!Loop(c, s, q))
    BY <1>4, <1>5, <1>6, RR!LoopKeeps
  <1>8. S \ {} = S
    OBVIOUS
  <1> QED
    BY <1>2, <1>3, <1>4, <1>7, <1>8 DEF RRGood

\* P is all of the records of src.
MovingRecords(s, P, src) == P = {j \in UR(s) : s.dns[j].device = src}

\* The first part of moveDNS: record i has a new owner and no index entry.
disownRecord(s, i, dst) == [s EXCEPT !.dnsByKey = Delete(@, DNSKey(s, i)), !.dns[i].device = dst]

\* The first part of moveDNS keeps the records in order while the record is
\* on no list.
LEMMA DisownRecordKeeps ==
    ASSUME NEW s, NEW P, Recorded(s, P, {}), NEW src, NEW dst \in UD(s), src # dst,
           MovingRecords(s, P, src), NEW i \in P, NEW t, t = disownRecord(s, i, dst)
    PROVE  /\ Recorded(t, P, {}) /\ RecordStep(s, t) /\ i \in UR(t) /\ t.dns[i].device = dst
           /\ P \ {i} = {j \in UR(t) : t.dns[j].device = src}
           /\ t.dns[i].rec = s.dns[i].rec /\ SameDates(s, t)
  <1> USE DEF Recorded
  <1>1. i \in UR(s) /\ i \in DNSSlots /\ s.dns[i].device = src
    BY DEF MovingRecords, UR
  <1>2. t.dns = [s.dns EXCEPT ![i].device = dst]
    BY DEF disownRecord, Shape
  <1>3. t.dnsByKey = Delete(s.dnsByKey, DNSKey(s, i))
    BY DEF disownRecord, Shape
  <1>4. /\ DOMAIN t = DOMAIN s
        /\ t.links = s.links /\ t.linkByKey = s.linkByKey
        /\ t.freeLinks = s.freeLinks /\ t.linkWheel = s.linkWheel
        /\ t.deviceByKey = s.deviceByKey /\ t.freeDevices = s.freeDevices
        /\ t.devices = s.devices /\ t.freeDNS = s.freeDNS /\ t.dnsWheel = s.dnsWheel
    BY DEF disownRecord, Shape
  <1>5. /\ \A j \in DNSSlots : j # i => t.dns[j] = s.dns[j]
        /\ t.dns[i].used = s.dns[i].used /\ t.dns[i].device = dst /\ t.dns[i].rec = s.dns[i].rec
        /\ t.dns[i].expiresAt = s.dns[i].expiresAt /\ t.dns[i].due = s.dns[i].due
        /\ DOMAIN t.dns[i] = DOMAIN s.dns[i] /\ DOMAIN t.dns = DOMAIN s.dns
    BY <1>1, <1>2 DEF Shape
  <1>6. Shape(t)
    <2>1. \A j \in DNSSlots : DOMAIN t.dns[j] = DOMAIN s.dns[j]
      BY <1>5
    <2> QED
      BY <1>4, <1>5, <2>1 DEF Shape
  <1>7. RecordStep(s, t)
    BY <1>4 DEF RecordStep, SameDevices, SameLinks
  <1>8. UD(t) = UD(s) /\ UR(t) = UR(s)
    BY <1>4, <1>5 DEF UD, UR
  <1>9. \A d : RecordsOf(t, d, P) = RecordsOf(s, d, P)
    BY <1>5, <1>8 DEF RecordsOf, UR
  <1>10. ASSUME NEW k \in DOMAIN t.dnsByKey
         PROVE  t.dnsByKey[k] \in UR(t) /\ DNSKey(t, t.dnsByKey[k]) = k
    <2>1. k \in DOMAIN s.dnsByKey /\ k # DNSKey(s, i) /\ t.dnsByKey[k] = s.dnsByKey[k]
      BY <1>3 DEF Delete, Restrict
    <2>2. s.dnsByKey[k] \in UR(s) /\ DNSKey(s, s.dnsByKey[k]) = k
      BY <2>1 DEF RecordsInv
    <2>3. s.dnsByKey[k] # i
      BY <2>1, <2>2
    <2>4. s.dnsByKey[k] \in UR(t) /\ t.dns[s.dnsByKey[k]] = s.dns[s.dnsByKey[k]]
      BY <1>5, <1>8, <2>2, <2>3 DEF UR
    <2> QED
      BY <2>1, <2>2, <2>4 DEF DNSKey
  <1>11. RecordsInv(t, P)
    <2>1. \A j \in DNSSlots : t.dns[j].used \in BOOLEAN /\ t.dns[j].expiresAt \in Nat
      BY <1>1, <1>5 DEF RecordsInv
    <2>2. \A d \in DeviceSlots : t.devices[d].dnsExpiry \in Nat
      BY <1>4 DEF RecordsInv
    <2>3. Lists(t.freeDNS, DNSSlots \ UR(t))
      BY <1>4, <1>8 DEF RecordsInv
    <2>4. \A d \in UD(t) : Lists(t.devices[d].dns, RecordsOf(t, d, P))
      BY <1>4, <1>8, <1>9 DEF RecordsInv
    <2>5. \A j \in UR(t) : t.dns[j].device \in UD(t)
      BY <1>5, <1>8 DEF RecordsInv, UR
    <2> QED
      BY <1>10, <2>1, <2>2, <2>3, <2>4, <2>5 DEF RecordsInv
  <1>12. DNSWheelInv(t, {})
    BY <1>4, <1>8 DEF DNSWheelInv
  <1>13. P \ {i} = {j \in UR(t) : t.dns[j].device = src}
    <2>1. \A j \in UR(t) : j \in UR(s) /\ (j # i => t.dns[j].device = s.dns[j].device)
      BY <1>5, <1>8 DEF UR
    <2> QED
      BY <1>1, <1>5, <1>8, <2>1 DEF MovingRecords
  <1>14. SameDates(s, t)
    BY <1>5, <1>8 DEF SameDates, SameDate, UR
  <1> QED
    BY <1>1, <1>5, <1>6, <1>7, <1>8, <1>11, <1>12, <1>13, <1>14

\* The last part of moveDNS: record i is indexed and on the list of its device.
ownRecord(s, i, dst, rec, x) ==
    [s EXCEPT !.dnsByKey = Store(@, <<dst, rec>>, i),
              !.devices[dst].dns = Append(@, i),
              !.devices[dst].dnsExpiry = Later(@, x)]

\* The last part of moveDNS puts the record on the list of its device.
LEMMA OwnRecordKeeps ==
    ASSUME NEW s, NEW P, Recorded(s, P, {}), NEW i \in P \cap UR(s), NEW x \in Nat,
           NEW t, t = ownRecord(s, i, s.dns[i].device, s.dns[i].rec, x)
    PROVE  Recorded(t, P \ {i}, {}) /\ RecordStep(s, t) /\ t.dns = s.dns
  <1> USE DEF Recorded
  <1>0. PICK dst, rec : dst = s.dns[i].device /\ rec = s.dns[i].rec
    OBVIOUS
  <1>1. i \in DNSSlots /\ i \in P /\ i \in UR(s) /\ dst \in UD(s) /\ dst \in DeviceSlots
    BY <1>0 DEF UR, UD, RecordsInv
  <1>2. PICK y : y = Later(s.devices[dst].dnsExpiry, x)
    OBVIOUS
  <1>3. y \in Nat
    <2>1. s.devices[dst].dnsExpiry \in Nat
      BY <1>1 DEF RecordsInv
    <2> QED
      BY <1>2, <2>1, LaterNat
  <1>3a. PICK e : e = [s.devices[dst] EXCEPT !.dns = Append(@, i), !.dnsExpiry = y]
    OBVIOUS
  <1>3b. /\ e.used = s.devices[dst].used /\ e.key = s.devices[dst].key
         /\ e.protocols = s.devices[dst].protocols /\ e.links = s.devices[dst].links
         /\ e.facts = s.devices[dst].facts
         /\ e.lastSeen = s.devices[dst].lastSeen /\ DOMAIN e = DOMAIN s.devices[dst]
         /\ e.dns = Append(s.devices[dst].dns, i) /\ e.dnsExpiry = y
    BY <1>1, <1>3a DEF Shape
  <1>4. t.devices = [s.devices EXCEPT ![dst] = e]
    BY <1>0, <1>1, <1>2, <1>3a DEF ownRecord, Shape
  <1>5. t.dnsByKey = Store(s.dnsByKey, <<dst, rec>>, i)
    BY <1>0 DEF ownRecord, Shape
  <1>6. /\ DOMAIN t = DOMAIN s
        /\ t.links = s.links /\ t.linkByKey = s.linkByKey
        /\ t.freeLinks = s.freeLinks /\ t.linkWheel = s.linkWheel
        /\ t.deviceByKey = s.deviceByKey /\ t.freeDevices = s.freeDevices
        /\ t.dns = s.dns /\ t.freeDNS = s.freeDNS /\ t.dnsWheel = s.dnsWheel
    BY <1>0 DEF ownRecord, Shape
  <1>7. \A d \in DeviceSlots : /\ t.devices[d].used = s.devices[d].used
                               /\ t.devices[d].key = s.devices[d].key
                               /\ t.devices[d].protocols = s.devices[d].protocols
                               /\ t.devices[d].links = s.devices[d].links
                               /\ t.devices[d].facts = s.devices[d].facts
                               /\ t.devices[d].lastSeen = s.devices[d].lastSeen
                               /\ DOMAIN t.devices[d] = DOMAIN s.devices[d]
    BY <1>1, <1>4, <1>3b DEF Shape
  <1>8. /\ t.devices[dst].dns = Append(s.devices[dst].dns, i) /\ t.devices[dst].dnsExpiry = y
        /\ \A d \in DeviceSlots : d # dst => t.devices[d] = s.devices[d]
        /\ DOMAIN t.devices = DOMAIN s.devices
    BY <1>1, <1>4, <1>3b DEF Shape
  <1>9. Shape(t)
    <2>1. \A d \in DeviceSlots : DOMAIN t.devices[d] = DOMAIN s.devices[d]
      BY <1>7
    <2>2. DOMAIN t.devices = DOMAIN s.devices
      BY <1>8
    <2> QED
      BY <1>6, <2>1, <2>2 DEF Shape
  <1>10. RecordStep(s, t)
    BY <1>6, <1>7 DEF RecordStep, SameDevices, SameLinks
  <1>11. UD(t) = UD(s) /\ UR(t) = UR(s)
    BY <1>6, <1>7 DEF UD, UR
  <1>12. ASSUME NEW d \in UD(t) PROVE Lists(t.devices[d].dns, RecordsOf(t, d, P \ {i}))
    <2>1. d \in DeviceSlots /\ Lists(s.devices[d].dns, RecordsOf(s, d, P))
      BY <1>11 DEF RecordsInv, UD
    <2>2. CASE d = dst
      <3>1. RecordsOf(t, d, P \ {i}) = RecordsOf(s, d, P) \cup {i} /\ i \notin RecordsOf(s, d, P)
        BY <1>0, <1>1, <1>6, <1>11, <2>2 DEF RecordsOf
      <3>2. Lists(Append(s.devices[d].dns, i), RecordsOf(s, d, P) \cup {i})
        BY <2>1, <3>1, ListsAppend
      <3> QED
        BY <1>8, <2>2, <3>1, <3>2
    <2>3. CASE d # dst
      <3>1. RecordsOf(t, d, P \ {i}) = RecordsOf(s, d, P)
        BY <1>0, <1>1, <1>6, <1>11, <2>3 DEF RecordsOf
      <3> QED
        BY <1>8, <2>1, <2>3, <3>1
    <2> QED
      BY <2>2, <2>3
  <1>13. ASSUME NEW k \in DOMAIN t.dnsByKey
         PROVE  t.dnsByKey[k] \in UR(t) /\ DNSKey(t, t.dnsByKey[k]) = k
    <2>1. CASE k = <<dst, rec>>
      <3>1. t.dnsByKey[k] = i
        BY <1>5, <2>1 DEF Store
      <3> QED
        BY <1>0, <1>1, <1>6, <1>11, <2>1, <3>1 DEF DNSKey
    <2>2. CASE k # <<dst, rec>>
      <3>1. k \in DOMAIN s.dnsByKey /\ t.dnsByKey[k] = s.dnsByKey[k]
        BY <1>5, <2>2 DEF Store
      <3>2. s.dnsByKey[k] \in UR(s) /\ DNSKey(s, s.dnsByKey[k]) = k
        BY <3>1 DEF RecordsInv
      <3> QED
        BY <1>6, <1>11, <3>1, <3>2 DEF DNSKey
    <2> QED
      BY <2>1, <2>2
  <1>14. RecordsInv(t, P \ {i})
    <2>1. \A d \in DeviceSlots : t.devices[d].dnsExpiry \in Nat
      BY <1>3, <1>8 DEF RecordsInv
    <2>2. \A j \in UR(t) : t.dns[j].device \in UD(t)
      BY <1>6, <1>11 DEF RecordsInv
    <2>3. Lists(t.freeDNS, DNSSlots \ UR(t))
      BY <1>6, <1>11 DEF RecordsInv
    <2>4. \A j \in DNSSlots : t.dns[j].used \in BOOLEAN /\ t.dns[j].expiresAt \in Nat
      BY <1>6 DEF RecordsInv
    <2> QED
      BY <1>12, <1>13, <2>1, <2>2, <2>3, <2>4 DEF RecordsInv
  <1>15. DNSWheelInv(t, {})
    BY <1>6, <1>11 DEF DNSWheelInv
  <1> QED
    BY <1>6, <1>9, <1>10, <1>14, <1>15

\* moveDNS leaves one record less to move, whether dst has the same record
\* already or not.
LEMMA MoveDNSKeeps ==
    ASSUME NEW s, NEW P, Recorded(s, P, {}), NEW src, NEW dst \in UD(s), src # dst,
           MovingRecords(s, P, src), NEW i \in P, NEW t, t = moveDNS(s, i, dst)
    PROVE  /\ Recorded(t, P \ {i}, {}) /\ RecordStep(s, t) /\ MovingRecords(t, P \ {i}, src)
           /\ SameDates(s, t)
  <1>1. PICK rec, x, u : rec = s.dns[i].rec /\ x = s.dns[i].expiresAt /\ u = disownRecord(s, i, dst)
    OBVIOUS
  <1>2. x \in Nat
    <2>1. i \in DNSSlots
      BY DEF MovingRecords, UR
    <2> QED
      BY <1>1, <2>1 DEF Recorded, RecordsInv
  <1>3. t = IF <<dst, rec>> \in DOMAIN u.dnsByKey THEN removeDNS(u, i) ELSE ownRecord(u, i, dst, rec, x)
    BY <1>1 DEF moveDNS, disownRecord, ownRecord
  <1>4. /\ Recorded(u, P, {}) /\ RecordStep(s, u) /\ i \in UR(u) /\ u.dns[i].device = dst
        /\ P \ {i} = {j \in UR(u) : u.dns[j].device = src}
        /\ u.dns[i].rec = rec /\ SameDates(s, u)
    BY <1>1, DisownRecordKeeps
  <1>5. CASE t = removeDNS(u, i)
    <2>1. Recorded(t, P \ {i}, {} \ {i}) /\ RecordsGone(u, t, {i})
      BY <1>4, <1>5, RemoveDNSKeeps
    <2>2. {} \ {i} = {}
      OBVIOUS
    <2>3. RecordStep(s, t)
      BY <1>4, <2>1, RecordSteps DEF RecordsGone
    <2>4. MovingRecords(t, P \ {i}, src)
      BY <1>4, <2>1 DEF RecordsGone, MovingRecords
    <2>5. SameDates(s, t)
      BY <1>4, <2>1, DatedGone DEF SameDates, SameDate
    <2> QED
      BY <2>1, <2>2, <2>3, <2>4, <2>5
  <1>6. CASE t = ownRecord(u, i, dst, rec, x)
    <2>0. Recorded(u, P, {}) /\ i \in P \cap UR(u) /\ t = ownRecord(u, i, u.dns[i].device, u.dns[i].rec, x)
      BY <1>4, <1>6
    <2>1. Recorded(t, P \ {i}, {}) /\ RecordStep(u, t) /\ t.dns = u.dns
      BY <1>2, <2>0, OwnRecordKeeps
    <2>2. RecordStep(s, t)
      BY <1>4, <2>1, RecordSteps
    <2>3. MovingRecords(t, P \ {i}, src)
      BY <1>4, <2>1 DEF MovingRecords, UR
    <2>4. SameDates(s, t)
      BY <1>4, <2>1 DEF SameDates, UR
    <2> QED
      BY <2>1, <2>2, <2>3, <2>4
  <1> QED
    BY <1>3, <1>5, <1>6

\* The loop of mergeDevices over the records of src.
MRTurn(c, t, i) == moveDNS(t, i, c.dst)
MRGood(c, n, t) ==
    /\ Recorded(t, Rest(c.q, n), {}) /\ RecordStep(c.s, t) /\ MovingRecords(t, Rest(c.q, n), c.src)
    /\ SameDates(c.s, t)
MR == INSTANCE Loops WITH Turn <- MRTurn, Good <- MRGood

\* After the loop of mergeDevices no record of src is left.
LEMMA MoveRecordsKeeps ==
    ASSUME NEW s, NEW P, Recorded(s, P, {}), NEW src, NEW dst \in UD(s), src # dst,
           MovingRecords(s, P, src), NEW q, Lists(q, P), NEW t, t = moveRecords(s, q, dst)
    PROVE  Recorded(t, {}, {}) /\ RecordStep(s, t) /\ MovingRecords(t, {}, src) /\ SameDates(s, t)
  <1>1. PICK c : c = [s |-> s, q |-> q, src |-> src, dst |-> dst]
    OBVIOUS
  <1>2. c.s = s /\ c.q = q /\ c.src = src /\ c.dst = dst
    BY <1>1
  <1>3. moveRecords(s, q, c.dst) = MR!Loop(c, s, q)
    BY DEF moveRecords, MR!Loop, MRTurn, FoldLeft, MapThenFoldSet, Max, MR!Greatest
  <1>4. q \in Seq(P) /\ Rest(q, 0) = P /\ Rest(q, Len(q)) = {}
    BY ListsRest DEF Lists
  <1>5. MRGood(c, 0, s)
    BY <1>2, <1>4, NoStep DEF MRGood, SameDates, SameDate
  <1>6. ASSUME NEW n \in 1..Len(q), NEW u, MRGood(c, n - 1, u)
        PROVE  MRGood(c, n, MRTurn(c, u, q[n]))
    <2>1. PICK R, i, v : R = Rest(q, n - 1) /\ i = q[n] /\ v = moveDNS(u, i, dst)
      OBVIOUS
    <2>2. i \in R /\ Rest(q, n) = R \ {i}
      BY <2>1, ListsRest
    <2>3. Recorded(u, R, {}) /\ RecordStep(s, u) /\ MovingRecords(u, R, src) /\ SameDates(s, u)
      BY <1>2, <1>6, <2>1 DEF MRGood
    <2>4. dst \in UD(u)
      BY <2>3 DEF RecordStep, SameDevices, UD
    <2>5. /\ Recorded(v, R \ {i}, {}) /\ RecordStep(u, v) /\ MovingRecords(v, R \ {i}, src)
          /\ SameDates(u, v)
      BY <2>1, <2>2, <2>3, <2>4, MoveDNSKeeps
    <2>6. RecordStep(s, v)
      BY <2>3, <2>5, RecordSteps
    <2>7. MRTurn(c, u, q[n]) = v
      BY <1>2, <2>1 DEF MRTurn
    <2>8. SameDates(s, v)
      BY <2>3, <2>5 DEF SameDates, SameDate
    <2> QED
      BY <1>2, <2>2, <2>5, <2>6, <2>7, <2>8 DEF MRGood
  <1>7. MRGood(c, Len(q), MR!Loop(c, s, q))
    BY <1>4, <1>5, <1>6, MR!LoopKeeps
  <1> QED
    BY <1>2, <1>3, <1>4, <1>7 DEF MRGood

\* The wheel has gone through the records of s but those in R: the ones that
\* were due are gone, and no others.
Fired(s, t, R) ==
    /\ \A j \in UR(t) : j \in UR(s) /\ t.dns[j] = s.dns[j] /\ (s.dns[j].due # 0 \/ j \in R)
    /\ \A j \in UR(s) \ UR(t) : s.dns[j].due = 0

\* The loop of tick over the records that the wheel has reached.
FRTurn(c, acc, i) == fireDNS(acc, i)
FRGood(c, n, acc) ==
    /\ Recorded(acc.s, {}, {}) /\ RecordStep(c.s, acc.s)
    /\ Rest(c.q, n) \subseteq UR(acc.s) /\ Fired(c.s, acc.s, Rest(c.q, n))
    /\ acc.owners \in Seq(UD(c.s))
FR == INSTANCE Loops WITH Turn <- FRTurn, Good <- FRGood

\* The loop of tick removes the records that are due and notes their devices,
\* which are in use.
LEMMA FireRecordsKeeps ==
    ASSUME NEW s, Recorded(s, {}, {}), NEW q, Lists(q, UR(s)), NEW t, t = fireRecords(s, q)
    PROVE  Recorded(t.s, {}, {}) /\ RecordStep(s, t.s) /\ t.owners \in Seq(UD(s)) /\ Fired(s, t.s, {})
  <1>1. PICK c, a : c = [s |-> s, q |-> q] /\ a = [s |-> s, owners |-> <<>>]
    OBVIOUS
  <1>2. c.s = s /\ c.q = q /\ a.s = s /\ a.owners = <<>>
    BY <1>1
  <1>3. fireRecords(s, q) = FR!Loop(c, [s |-> s, owners |-> <<>>], q)
    BY DEF fireRecords, FR!Loop, FRTurn, FoldLeft, MapThenFoldSet, Max, FR!Greatest
  <1>4. q \in Seq(UR(s)) /\ Rest(q, 0) = UR(s) /\ Rest(q, Len(q)) = {}
    BY ListsRest DEF Lists
  <1>5. FRGood(c, 0, a)
    BY <1>2, <1>4, NoStep DEF FRGood, Fired
  <1>6. ASSUME NEW n \in 1..Len(q), NEW u, FRGood(c, n - 1, u)
        PROVE  FRGood(c, n, FRTurn(c, u, q[n]))
    <2>1. PICK R, i, d, v : /\ R = Rest(q, n - 1) /\ i = q[n] /\ d = u.s.dns[i].device
                            /\ v = fireDNS(u, i)
      OBVIOUS
    <2>2. i \in R /\ Rest(q, n) = R \ {i}
      BY <2>1, ListsRest
    <2>3. /\ Recorded(u.s, {}, {}) /\ RecordStep(s, u.s)
          /\ R \subseteq UR(u.s) /\ u.owners \in Seq(UD(s)) /\ Fired(s, u.s, R)
      BY <1>2, <1>6, <2>1 DEF FRGood
    <2>4. i \in UR(u.s) /\ d \in UD(s)
      <3>1. i \in UR(u.s) /\ d \in UD(u.s)
        BY <2>1, <2>2, <2>3 DEF Recorded, RecordsInv
      <3> QED
        BY <2>3, <3>1 DEF RecordStep, SameDevices, UD
    <2>5. FRTurn(c, u, q[n]) = v
      BY <2>1 DEF FRTurn
    <2>6. CASE u.s.dns[i].due # 0
      <3>1. v = u
        BY <2>1, <2>6 DEF fireDNS
      <3>2. Fired(s, v.s, R \ {i})
        BY <2>3, <2>4, <2>6, <3>1 DEF Fired
      <3> QED
        BY <1>2, <2>2, <2>3, <2>5, <3>1, <3>2 DEF FRGood
    <2>7. CASE u.s.dns[i].due = 0
      <3>1. /\ v.s = removeDNS(u.s, i)
            /\ v.owners = u.owners \/ v.owners = Append(u.owners, d)
        BY <2>1, <2>7 DEF fireDNS
      <3>2. Recorded(v.s, {}, {}) /\ RecordsGone(u.s, v.s, {i})
        BY <2>3, <2>4, <3>1, RemoveDNSClean
      <3>3. RecordStep(s, v.s)
        BY <2>3, <3>2, RecordSteps DEF RecordsGone
      <3>4. R \ {i} \subseteq UR(v.s)
        BY <2>3, <3>2 DEF RecordsGone
      <3>5. v.owners \in Seq(UD(s))
        <4>1. Append(u.owners, d) \in Seq(UD(s))
          BY <2>3, <2>4
        <4> QED
          BY <2>3, <3>1, <4>1
      <3>6. Fired(s, v.s, R \ {i})
        BY <2>3, <2>4, <2>7, <3>2 DEF Fired, RecordsGone
      <3> QED
        BY <1>2, <2>2, <2>5, <3>2, <3>3, <3>4, <3>5, <3>6 DEF FRGood
    <2> QED
      BY <2>6, <2>7
  <1>7. FRGood(c, Len(q), FR!Loop(c, a, q))
    BY <1>4, <1>5, <1>6, FR!LoopKeeps
  <1> QED
    BY <1>1, <1>2, <1>3, <1>4, <1>7 DEF FRGood

-----------------------------------------------------------------------------
(* The arithmetic of the ticks.                                            *)

\* The time n ticks take.
Ticks(n) == n * Second

\* Ticks is linear and grows with its argument.
LEMMA TicksGrow ==
    ASSUME NEW m \in Int, NEW n \in Int
    PROVE  /\ Ticks(n) \in Int /\ Ticks(0) = 0
           /\ Ticks(n + 1) = Ticks(n) + Second /\ Ticks(n - 1) = Ticks(n) - Second
           /\ m <= n => Ticks(m) <= Ticks(n)
  <1>1. Ticks(n) \in Int /\ Ticks(0) = 0
    BY SecondAssumption DEF Ticks
  <1>2. Ticks(n + 1) = Ticks(n) + Second
    BY SecondAssumption DEF Ticks
  <1>3. Ticks(n - 1) = Ticks(n) - Second
    BY SecondAssumption DEF Ticks
  <1>4. ASSUME m <= n PROVE Ticks(m) <= Ticks(n)
    <2>1. (n - m) * Second >= 0
      BY <1>4, SecondAssumption
    <2>2. n * Second = m * Second + (n - m) * Second
      BY SecondAssumption
    <2>3. m * Second \in Int /\ n * Second \in Int /\ (n - m) * Second \in Int
      BY SecondAssumption
    <2> QED
      BY <2>1, <2>2, <2>3 DEF Ticks
  <1> QED
    BY <1>1, <1>2, <1>3, <1>4

\* What division with remainder is, for any divisor.
LEMMA Division ==
    ASSUME NEW d \in Int, d >= 0, NEW S \in Int, S > 0,
           NEW q \in Int, q = d \div S, NEW r \in Int, r = d % S
    PROVE  d = S * q + r /\ 0 <= r /\ r < S
  <1>1. d = S * q + r
    BY SMTT(30)
  <1>2. 0 <= r /\ r < S
    BY SMTT(30)
  <1> QED
    BY <1>1, <1>2

\* Division of d by Second, with names for the quotient and the remainder.
Quotient(d) == d \div Second
Remainder(d) == d % Second

\* Every duration is a number of whole ticks and less than a tick.
LEMMA Divided ==
    ASSUME NEW d \in Int, d >= 0
    PROVE  Quotient(d) \in Nat /\ Remainder(d) \in 0..(Second - 1) /\ d = Ticks(Quotient(d)) + Remainder(d)
  <1>1. Second \in Int /\ Second > 0
    BY SecondAssumption
  <1>2. Quotient(d) \in Int /\ Remainder(d) \in Int
    BY <1>1 DEF Quotient, Remainder
  <1>3. Quotient(d) = d \div Second /\ Remainder(d) = d % Second
    BY Zenon DEF Quotient, Remainder
  <1>4. d = Second * Quotient(d) + Remainder(d) /\ 0 <= Remainder(d) /\ Remainder(d) < Second
    BY <1>1, <1>2, <1>3, Division, Zenon
  <1>5. Ticks(Quotient(d)) = Second * Quotient(d)
    BY <1>1, <1>2 DEF Ticks
  <1>6. Ticks(Quotient(d)) \in Int /\ (Quotient(d) <= -1 => Ticks(Quotient(d)) <= Ticks(-1)) /\ Ticks(-1) = -Second
    <2>1. Ticks(-1) = -Second
      BY <1>1 DEF Ticks
    <2> QED
      BY <1>2, <2>1, TicksGrow
  <1>7. Quotient(d) \in Nat
    BY <1>1, <1>2, <1>4, <1>5, <1>6
  <1> QED
    BY <1>1, <1>2, <1>4, <1>5, <1>7

\* ceilDurationSeconds gives the first tick that is not before d.
LEMMA CeilingIsNext ==
    ASSUME NEW d \in Int, d > 0, NEW c, c = ceilDurationSeconds(d)
    PROVE  c \in Nat \ {0} /\ Ticks(c - 1) < d /\ d <= Ticks(c)
  <1>0. Second \in Int /\ Second > 0
    BY SecondAssumption
  <1>1. PICK e : e = d + Second - 1
    OBVIOUS
  <1>2. c = Quotient(e)
    <2>1. ~ (d <= 0)
      OBVIOUS
    <2> QED
      BY <1>1, <2>1, Zenon DEF ceilDurationSeconds, Quotient
  <1>3. e \in Int /\ e >= 0
    BY <1>0, <1>1
  <1>4. c \in Nat /\ Remainder(e) \in 0..(Second - 1) /\ e = Ticks(c) + Remainder(e)
    BY <1>2, <1>3, Divided
  <1>5. Ticks(c) \in Int /\ Ticks(c - 1) = Ticks(c) - Second /\ Ticks(0) = 0
    BY <1>4, TicksGrow
  <1>6. Ticks(c - 1) < d /\ d <= Ticks(c)
    BY <1>0, <1>1, <1>4, <1>5
  <1>7. c # 0
    BY <1>5, <1>6
  <1> QED
    BY <1>4, <1>6, <1>7

\* From one instant to the next the time since the last whole second grows by
\* one, or is zero again after a whole second.
LEMMA NextInstant ==
    ASSUME NEW n \in Nat
    PROVE  /\ Remainder(n + 1) # 0 => Remainder(n + 1) = Remainder(n) + 1
           /\ Remainder(n + 1) = 0 => Remainder(n) = Second - 1
           /\ Remainder(n) \in 0..(Second - 1) /\ Remainder(n + 1) \in 0..(Second - 1)
  <1>0. Second \in Int /\ Second > 0
    BY SecondAssumption
  <1>1. PICK m, p, q, x, y : /\ m = n + 1 /\ p = Quotient(n) /\ q = Quotient(m)
                             /\ x = Remainder(n) /\ y = Remainder(m)
    OBVIOUS
  <1>2. p \in Nat /\ x \in 0..(Second - 1) /\ n = Ticks(p) + x
    BY <1>1, Divided
  <1>3. q \in Nat /\ y \in 0..(Second - 1) /\ n + 1 = Ticks(q) + y
    BY <1>1, Divided
  <1>4. /\ Ticks(p) \in Int /\ Ticks(q) \in Int
        /\ Ticks(p + 1) = Ticks(p) + Second /\ Ticks(q + 1) = Ticks(q) + Second
    BY <1>2, <1>3, TicksGrow
  <1>5. /\ q + 1 <= p => Ticks(q + 1) <= Ticks(p)
        /\ p + 1 <= q => Ticks(p + 1) <= Ticks(q)
    <2>1. p \in Int /\ q \in Int /\ p + 1 \in Int /\ q + 1 \in Int
      BY <1>2, <1>3
    <2>2. \A a, b \in Int : a <= b => Ticks(a) <= Ticks(b)
      BY TicksGrow
    <2> QED
      BY <2>1, <2>2, Zenon
  <1>6. Ticks(q) = Ticks(p) \/ Ticks(q) = Ticks(p) + Second
    <2>1. CASE q = p
      BY <2>1
    <2>2. CASE q + 1 <= p
      BY <1>0, <1>2, <1>3, <1>4, <1>5, <2>2
    <2>3. CASE p + 1 <= q
      <3>1. Ticks(p) + Second <= Ticks(q)
        BY <1>4, <1>5, <2>3
      <3> QED
        BY <1>0, <1>2, <1>3, <1>4, <3>1
    <2> QED
      BY <1>2, <1>3, <2>1, <2>2, <2>3
  <1>7. y # 0 => y = x + 1
    BY <1>0, <1>2, <1>3, <1>4, <1>6
  <1>8. y = 0 => x = Second - 1
    BY <1>0, <1>2, <1>3, <1>4, <1>6
  <1> QED
    BY <1>1, <1>2, <1>3, <1>7, <1>8

-----------------------------------------------------------------------------
(* The wheel turns, and when records are due.                              *)

\* The ticks that are left of an entry, after one more.
ticksLeft(e) == Later(e.due - 1, 0)

\* The wheel turns: only the ticks left of an entry change.
LEMMA TurnWheelKeeps ==
    ASSUME NEW s, StoreInv(s), NEW t, t = turnWheel(s)
    PROVE  /\ StoreInv(t) /\ UL(t) = UL(s) /\ UR(t) = UR(s)
           /\ \A i \in UR(s) : /\ t.dns[i].expiresAt = s.dns[i].expiresAt
                               /\ t.dns[i].due = ticksLeft(s.dns[i])
  <1> USE DEF StoreInv, Linked, Recorded
  <1>1. /\ DOMAIN t = DOMAIN s /\ t.devices = s.devices
        /\ t.deviceByKey = s.deviceByKey /\ t.freeDevices = s.freeDevices
        /\ t.linkByKey = s.linkByKey /\ t.freeLinks = s.freeLinks /\ t.linkWheel = s.linkWheel
        /\ t.dnsByKey = s.dnsByKey /\ t.freeDNS = s.freeDNS /\ t.dnsWheel = s.dnsWheel
    BY DEF turnWheel, Shape
  <1>2. t.links = turnSlab(s.links)
    BY DEF turnWheel, Shape
  <1>3. t.dns = turnSlab(s.dns)
    BY DEF turnWheel, Shape
  <1>4. /\ DOMAIN t.links = LinkSlots
        /\ \A i \in LinkSlots : /\ DOMAIN t.links[i] = DOMAIN s.links[i]
                                /\ t.links[i].used = s.links[i].used
                                /\ t.links[i].key = s.links[i].key
                                /\ t.links[i].device = s.links[i].device
                                /\ t.links[i].protocols = s.links[i].protocols
                                /\ t.links[i].expires = s.links[i].expires
                                /\ t.links[i].lastSeen = s.links[i].lastSeen
    BY <1>2 DEF Shape, turnSlab
  <1>5. /\ DOMAIN t.dns = DNSSlots
        /\ \A i \in DNSSlots : /\ DOMAIN t.dns[i] = DOMAIN s.dns[i]
                               /\ t.dns[i].used = s.dns[i].used
                               /\ t.dns[i].rec = s.dns[i].rec
                               /\ t.dns[i].device = s.dns[i].device
                               /\ t.dns[i].expiresAt = s.dns[i].expiresAt
                               /\ t.dns[i].due = ticksLeft(s.dns[i])
    BY <1>3 DEF Shape, turnSlab, ticksLeft
  <1>6. Shape(t)
    <2>1. \A i \in LinkSlots : DOMAIN t.links[i] = DOMAIN s.links[i]
      BY <1>4
    <2>2. \A i \in DNSSlots : DOMAIN t.dns[i] = DOMAIN s.dns[i]
      BY <1>5
    <2> QED
      BY <1>1, <1>4, <1>5, <2>1, <2>2 DEF Shape
  <1>7. SameDevices(s, t)
    BY <1>1 DEF SameDevices
  <1>8. DevicesInv(t) /\ UD(t) = UD(s)
    BY <1>7, DevicesFrame
  <1>9. TouchedLinks(s, t)
    BY <1>1, <1>4 DEF TouchedLinks, LinksInv
  <1>10. LinksInv(t, {}, {}) /\ UL(t) = UL(s)
    BY <1>7, <1>9, TouchLinks
  <1>11. EvidenceInv(t, {})
    <2> SUFFICES ASSUME NEW i \in UL(t) \ {} PROVE Evident(t, i)
      BY DEF EvidenceInv
    <2>1. Evident(s, i) /\ i \in LinkSlots
      BY <1>10 DEF EvidenceInv, UL
    <2>2. /\ t.links[i].protocols = s.links[i].protocols /\ t.links[i].expires = s.links[i].expires
          /\ t.links[i].device = s.links[i].device
      BY <1>4, <2>1
    <2> QED
      BY <1>1, <2>1, <2>2 DEF Evident
  <1>12. UR(t) = UR(s)
    BY <1>5 DEF UR
  <1>13. RecordsInv(t, {})
    <2>1. \A d : RecordsOf(t, d, {}) = RecordsOf(s, d, {})
      BY <1>5, <1>12 DEF RecordsOf, UR
    <2>2. \A d \in UD(t) : Lists(t.devices[d].dns, RecordsOf(t, d, {}))
      BY <1>1, <1>8, <2>1 DEF RecordsInv
    <2>3. \A i \in UR(t) : t.dns[i].device \in UD(t)
      BY <1>5, <1>8, <1>12 DEF RecordsInv, UR
    <2>4. Lists(t.freeDNS, DNSSlots \ UR(t))
      BY <1>1, <1>12 DEF RecordsInv
    <2>5. ASSUME NEW k \in DOMAIN t.dnsByKey
          PROVE  t.dnsByKey[k] \in UR(t) /\ DNSKey(t, t.dnsByKey[k]) = k
      <3>1. PICK i : i = s.dnsByKey[k]
        OBVIOUS
      <3>2. i \in UR(s) /\ DNSKey(s, i) = k /\ i \in DNSSlots
        BY <1>1, <3>1 DEF RecordsInv, UR
      <3>3. t.dns[i].device = s.dns[i].device /\ t.dns[i].rec = s.dns[i].rec
        BY <1>5, <3>2
      <3>4. DNSKey(t, i) = DNSKey(s, i)
        BY <3>3 DEF DNSKey
      <3> QED
        BY <1>1, <1>12, <3>1, <3>2, <3>4
    <2>6. \A i \in DNSSlots : t.dns[i].used \in BOOLEAN /\ t.dns[i].expiresAt \in Nat
      BY <1>5 DEF RecordsInv
    <2>7. \A d \in DeviceSlots : t.devices[d].dnsExpiry \in Nat
      BY <1>1 DEF RecordsInv
    <2> QED
      BY <2>2, <2>3, <2>4, <2>5, <2>6, <2>7 DEF RecordsInv
  <1>14. LinkWheelInv(t, {}) /\ DNSWheelInv(t, {})
    BY <1>1, <1>10, <1>12 DEF LinkWheelInv, DNSWheelInv
  <1>15. \A i \in UR(s) : /\ t.dns[i].expiresAt = s.dns[i].expiresAt
                           /\ t.dns[i].due = ticksLeft(s.dns[i])
    BY <1>5 DEF UR
  <1> QED
    BY <1>6, <1>8, <1>10, <1>11, <1>12, <1>13, <1>14, <1>15

\* What a tick does to the records: those with no tick left are gone, and
\* nothing else happens to the others.
Ticked(s, t) ==
    /\ \A i \in UR(t) : /\ i \in UR(s) /\ t.dns[i].expiresAt = s.dns[i].expiresAt
                        /\ t.dns[i].due = ticksLeft(s.dns[i]) /\ t.dns[i].due # 0
    /\ \A i \in UR(s) \ UR(t) : ticksLeft(s.dns[i]) = 0

\* Record e is due at the tick before it expires or the one after that, if
\* the last tick was at the instant last.
DueAt(e, last) ==
    /\ e.due \in Nat \ {0}
    /\ last + Ticks(e.due - 1) < e.expiresAt /\ e.expiresAt < last + Ticks(e.due + 1)

RecordsDue(s, last) == \A i \in UR(s) : DueAt(s.dns[i], last)

\* A record that is scheduled between two ticks is due.
LEMMA ScheduledIsDue ==
    ASSUME NEW e, NEW at \in Nat, e.expiresAt \in Nat, Scheduled(e, at),
           NEW last \in Int, last <= at, at < last + Second
    PROVE  DueAt(e, last)
  <1>1. PICK d, c, x : d = e.expiresAt - at /\ c = e.due /\ x = e.expiresAt
    OBVIOUS
  <1>2. d \in Int /\ d > 0 /\ c = ceilDurationSeconds(d)
    BY <1>1 DEF Scheduled
  <1>3. c \in Nat \ {0} /\ Ticks(c - 1) < d /\ d <= Ticks(c)
    BY <1>2, CeilingIsNext
  <1>4. c \in Int /\ c - 1 \in Int /\ c + 1 \in Int
    BY <1>3
  <1>5. Ticks(c) \in Int /\ Ticks(c - 1) \in Int /\ Ticks(c + 1) = Ticks(c) + Second /\ Second \in Int
    <2>1. Ticks(c) \in Int /\ Ticks(c + 1) = Ticks(c) + Second
      BY <1>4, TicksGrow
    <2>2. Ticks(c - 1) \in Int
      BY <1>4, TicksGrow
    <2> QED
      BY <2>1, <2>2, SecondAssumption
  <1>6. x \in Int /\ x = at + d
    BY <1>1
  <1>7. last + Ticks(c - 1) < x
    BY <1>2, <1>3, <1>5, <1>6
  <1>8. x < last + Ticks(c + 1)
    BY <1>2, <1>3, <1>5, <1>6
  <1> QED
    BY <1>1, <1>3, <1>7, <1>8 DEF DueAt

\* A message leaves records that are due.
LEMMA ObserveIsDue ==
    ASSUME NEW s, NEW t, StoreInv(t), NEW at \in Nat, Dated(s, t, at),
           NEW last \in Int, last <= at, at < last + Second, RecordsDue(s, last)
    PROVE  RecordsDue(t, last)
  <1> SUFFICES ASSUME NEW i \in UR(t) PROVE DueAt(t.dns[i], last)
    BY DEF RecordsDue
  <1>1. CASE i \in UR(s) /\ SameDate(s.dns[i], t.dns[i])
    BY <1>1 DEF RecordsDue, DueAt, SameDate
  <1>2. CASE Scheduled(t.dns[i], at)
    <2>1. t.dns[i].expiresAt \in Nat
      BY DEF StoreInv, Recorded, RecordsInv, UR
    <2> QED
      BY <1>2, <2>1, ScheduledIsDue
  <1> QED
    BY <1>1, <1>2 DEF Dated

\* So does a tick, a second later, and the records it removes expire within
\* the second after it.
LEMMA TickIsDue ==
    ASSUME NEW s, StoreInv(s), NEW t, Ticked(s, t), NEW last \in Int, RecordsDue(s, last)
    PROVE  /\ RecordsDue(t, last + Second)
           /\ \A i \in UR(s) \ UR(t) : s.dns[i].expiresAt < (last + Second) + Second
  <1>1. ASSUME NEW i \in UR(s)
        PROVE  \E c, x : /\ c = s.dns[i].due /\ x = s.dns[i].expiresAt /\ c \in Nat \ {0} /\ x \in Nat
                         /\ last + Ticks(c - 1) < x /\ x < last + Ticks(c + 1)
                         /\ Ticks(c) \in Int /\ Ticks(c + 1) = Ticks(c) + Second
                         /\ Ticks(c - 1) = Ticks(c) - Second /\ ticksLeft(s.dns[i]) = c - 1
    <2>1. PICK c, x : c = s.dns[i].due /\ x = s.dns[i].expiresAt
      OBVIOUS
    <2>2. c \in Nat \ {0} /\ last + Ticks(c - 1) < x /\ x < last + Ticks(c + 1)
      BY <2>1 DEF RecordsDue, DueAt
    <2>3. x \in Nat
      BY <2>1 DEF StoreInv, Recorded, RecordsInv, UR
    <2>4. c \in Int
      BY <2>2
    <2>5. Ticks(c) \in Int /\ Ticks(c + 1) = Ticks(c) + Second /\ Ticks(c - 1) = Ticks(c) - Second
      BY <2>4, TicksGrow
    <2>6. ticksLeft(s.dns[i]) = c - 1
      BY <2>1, <2>2 DEF ticksLeft, Later
    <2> QED
      BY <2>1, <2>2, <2>3, <2>5, <2>6
  <1>2. Second \in Nat /\ Second > 0
    BY SecondAssumption
  <1>3. ASSUME NEW i \in UR(t) PROVE DueAt(t.dns[i], last + Second)
    <2>1. /\ i \in UR(s) /\ t.dns[i].expiresAt = s.dns[i].expiresAt
          /\ t.dns[i].due = ticksLeft(s.dns[i]) /\ t.dns[i].due # 0
      BY DEF Ticked
    <2>2. PICK c, x : /\ c = s.dns[i].due /\ x = s.dns[i].expiresAt /\ c \in Nat \ {0} /\ x \in Nat
                      /\ last + Ticks(c - 1) < x /\ x < last + Ticks(c + 1)
                      /\ Ticks(c) \in Int /\ Ticks(c + 1) = Ticks(c) + Second
                      /\ Ticks(c - 1) = Ticks(c) - Second /\ ticksLeft(s.dns[i]) = c - 1
      BY <1>1, <2>1
    <2>3. PICK b : b = c - 1
      OBVIOUS
    <2>4. b \in Nat \ {0} /\ b \in Int /\ b + 1 = c
      BY <2>1, <2>2, <2>3
    <2>5. Ticks(b - 1) = Ticks(b) - Second /\ Ticks(b) \in Int
      BY <2>4, TicksGrow
    <2>6. (last + Second) + Ticks(b - 1) < x /\ x < (last + Second) + Ticks(b + 1)
      BY <1>2, <2>2, <2>3, <2>4, <2>5
    <2> QED
      BY <2>1, <2>2, <2>3, <2>4, <2>6 DEF DueAt
  <1>4. ASSUME NEW i \in UR(s) \ UR(t) PROVE s.dns[i].expiresAt < (last + Second) + Second
    <2>1. ticksLeft(s.dns[i]) = 0
      BY DEF Ticked
    <2>2. PICK c, x : /\ c = s.dns[i].due /\ x = s.dns[i].expiresAt /\ c \in Nat \ {0} /\ x \in Nat
                      /\ last + Ticks(c - 1) < x /\ x < last + Ticks(c + 1)
                      /\ Ticks(c) \in Int /\ Ticks(c + 1) = Ticks(c) + Second
                      /\ Ticks(c - 1) = Ticks(c) - Second /\ ticksLeft(s.dns[i]) = c - 1
      BY <1>1
    <2>3. c = 0 + 1 /\ c - 1 = 0
      BY <2>1, <2>2
    <2>4. Ticks(0) = 0
      BY TicksGrow
    <2>5. Ticks(c - 1) = 0
      BY <2>3, <2>4
    <2> QED
      BY <1>2, <2>2, <2>5
  <1> QED
    BY <1>3, <1>4 DEF RecordsDue

=============================================================================
