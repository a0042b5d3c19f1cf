----------------------------- MODULE FusionDNS ------------------------------
(***************************************************************************)
(* The DNS record cache of fusion.go.  A record stands for its owner, type,*)
(* class and RDATA, which is what makeDNSKey hashes; the key of an entry   *)
(* is the device that owns it and the record.                              *)
(***************************************************************************)
EXTENDS FusionBase

\* The latest expiry of the records that q lists.
latestRecord(s, q) == FoldLeft(LAMBDA latest, i : Later(latest, s.dns[i].expiresAt), Never, q)

recomputeDNSExpiry(s, d) ==
    [s EXCEPT !.devices[d].dnsExpiry = latestRecord(s, s.devices[d].dns)]

\* Mutant: the expiry is set and the wheel forgotten.
setDNSExpiryUnscheduled(s, i, at, expires) ==
    IF Contains(s.dnsWheel, i)
    THEN recomputeDNSExpiry([s EXCEPT !.dns[i].expiresAt = expires], s.dns[i].device)
    ELSE recomputeDNSExpiry(scheduleDNS([s EXCEPT !.dns[i].expiresAt = expires], i, at, expires),
                            s.dns[i].device)

setDNSExpiry(s, i, at, expires) ==
    LET d   == s.dns[i].device
        old == s.dns[i].expiresAt
        t   == scheduleDNS([s EXCEPT !.dns[i].expiresAt = expires], i, at, expires)
    IN  CASE expires > s.devices[d].dnsExpiry ->
               [t EXCEPT !.devices[d].dnsExpiry = expires]
          [] old = s.devices[d].dnsExpiry /\ expires < old -> recomputeDNSExpiry(t, d)
          [] OTHER -> t

\* The key of an entry: mergeDevices rewrites it together with the owner.
DNSKey(s, i) == <<s.dns[i].device, s.dns[i].rec>>

removeDNS(s, i) ==
    LET d == s.dns[i].device
        t == [s EXCEPT !.dnsWheel = RemoveFirst(@, i),
                       !.dnsByKey = Delete(@, DNSKey(s, i)),
                       !.devices[d].dns = SwapRemove(@, i),
                       !.dns[i] = NoDNS,
                       !.freeDNS = Append(@, i)]
    IN  IF s.dns[i].expiresAt = s.devices[d].dnsExpiry
        THEN recomputeDNSExpiry(t, d) ELSE t

\* allocDNS: a free entry, else the one that expires first.  The services of
\* the device that loses the record are not rebuilt.
takeDNS(s) == [s |-> [s EXCEPT !.freeDNS = Front(@)], idx |-> Last(s.freeDNS)]
allocDNS(s) ==
    takeDNS(IF s.freeDNS # <<>> THEN s
            ELSE removeDNS(s, Oldest(s.dns, [i \in DNSSlots |-> s.dns[i].expiresAt])))

\* The last part of cacheDNS: record r of device d in the new entry a.idx.
insertDNS(a, d, r, at, expires) ==
    setDNSExpiry([a.s EXCEPT
                    !.dns[a.idx] = [NoDNS EXCEPT !.used = TRUE, !.rec = r.rec,
                                                 !.device = d, !.ttl = r.ttl],
                    !.dnsByKey = Store(@, <<d, r.rec>>, a.idx),
                    !.devices[d].dns = Append(@, a.idx)],
                 a.idx, at, expires)

\* cacheDNS: a goodbye (TTL 0) leaves the record one more second, a known
\* record is refreshed, an unknown one is inserted.  r is [rec, ttl, flush].
cacheDNS(s, d, r, at) ==
    LET idx     == Lookup(s.dnsByKey, <<d, r.rec>>)
        expires == at + r.ttl * Second
    IN  CASE r.ttl = 0 ->
               IF idx # 0 THEN setDNSExpiry(s, idx, at, at + Second) ELSE s
          [] r.ttl # 0 /\ idx # 0 ->
               setDNSExpiry([s EXCEPT !.dns[idx].ttl = r.ttl], idx, at, expires)
          [] OTHER -> insertDNS(allocDNS(s), d, r, at, expires)

\* cacheDNS's result: whether the cached set of records grew.
cacheDNSAdds(s, d, r) == r.ttl # 0 /\ <<d, r.rec>> \notin DOMAIN s.dnsByKey

\* One turn of flushDNSSet: an entry of the set of r that is older than one
\* second and not part of the message.
flushRecord(s, i, r, message, at) ==
    LET e     == s.dns[i]
        stale == /\ RRSetOf[e.rec] = RRSetOf[r.rec]
                 /\ \A j \in DOMAIN message : message[j].rec # e.rec
                 /\ at - (e.expiresAt - e.ttl * Second) > Second
                 /\ e.expiresAt > at + Second
    IN  IF stale THEN setDNSExpiry(s, i, at, at + Second) ELSE s

\* flushDNSSet: a record with the cache-flush bit leaves one second to the
\* other, stale members of its set.
flushDNSSet(s, d, r, message, at) ==
    FoldLeft(LAMBDA t, i : flushRecord(t, i, r, message, at), s, s.devices[d].dns)

\* rebuildServices: the services are a function of the records of the device.
rebuildServices(s, d) ==
    [s EXCEPT !.devices[d].services = {s.dns[i].rec : i \in ToSet(s.devices[d].dns)}]

\* One turn of observeMDNS over the records of a message: the first record of
\* a set that carries the cache-flush bit flushes the set, then the record is
\* cached.  grew: whether the cached set of records grew so far.
cacheRecord(acc, j, d, message, at) ==
    LET first == /\ message[j].flush
                 /\ \A k \in 1..(j - 1) :
                       ~ (message[k].flush /\ RRSetOf[message[k].rec] = RRSetOf[message[j].rec])
        t     == IF first THEN flushDNSSet(acc.s, d, message[j], message, at) ELSE acc.s
    IN  [s |-> cacheDNS(t, d, message[j], at),
         grew |-> acc.grew \/ cacheDNSAdds(t, d, message[j])]

cacheRecords(s, d, message, at) ==
    FoldLeft(LAMBDA acc, j : cacheRecord(acc, j, d, message, at),
             [s |-> s, grew |-> FALSE], [j \in 1..Len(message) |-> j])

\* The services are rebuilt when a record was added.
cacheMessage(s, d, message, at) ==
    LET Rebuilt(r) == [s |-> IF r.grew THEN rebuildServices(r.s, d) ELSE r.s, grew |-> r.grew]
    IN  Rebuilt(cacheRecords(s, d, message, at))
=============================================================================
