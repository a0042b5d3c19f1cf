----------------------------- MODULE FusionBase -----------------------------
(***************************************************************************)
(* The store of the fusion goroutine (pkg/omnidiscover/fusion.go): three   *)
(* slabs (devices, links, DNS records) with their free lists, the maps     *)
(* that index them, and the timing wheel.  fusion.go passes one            *)
(* *fusionState through all of its functions, so here a state is one       *)
(* record s, and each function of the code is an operator from records to  *)
(* records.  Slab indexes are 1..Max, 0 stands for the code's -1.          *)
(*                                                                         *)
(* Time is counted in units of 1/Second of a second, so that observations  *)
(* can fall between two ticks of the one-second ticker.  The wheel is kept *)
(* as the number of ticks left of every scheduled entry (due) and, because *)
(* every slot of the wheel is a list that grows at its head, the entries   *)
(* in order of scheduling, newest first (linkWheel, dnsWheel).             *)
(***************************************************************************)
EXTENDS Integers, SequencesExt

CONSTANTS
    MaxDevices, MaxLinks, MaxDNSRecords,  \* Config: sizes of the three slabs
    Second,         \* time units in one second
    Ifaces, MACs, IPs,
    NoMAC, NoIP,    \* a MAC that is not unicast; an invalid address
    Records,        \* DNS records up to owner, type, class and RDATA
    RRSetOf         \* the owner, type and class of every record

ASSUME SlabAssumption ==
    MaxDevices \in Nat \ {0} /\ MaxLinks \in Nat \ {0} /\ MaxDNSRecords \in Nat \ {0}
ASSUME SecondAssumption == Second \in Nat \ {0}
ASSUME AddressAssumption == NoMAC \notin MACs /\ NoIP \notin IPs
ASSUME RRSetAssumption == DOMAIN RRSetOf = Records

Protocols == {"LLDP", "CDP", "MNDP", "MDNS"}

\* DeviceKey and LinkKey of model.go.
MACKey(mac) == <<"MAC", mac>>
IPKey(ip, iface) == <<"IP", ip, iface>>
NoKey == <<"Unknown">>
DeviceKeys == {MACKey(m) : m \in MACs} \cup {IPKey(a, i) : a \in IPs, i \in Ifaces}
LinkKeys == [iface : Ifaces, smac : MACs \cup {NoMAC}, device : DeviceKeys]

\* What a device is known to be: its observed and claimed MACs and its addresses.
Facts == ({"observed", "claimed"} \X MACs) \cup ({"address"} \X IPs)

DeviceSlots == 1..MaxDevices
LinkSlots == 1..MaxLinks
DNSSlots == 1..MaxDNSRecords

\* The zero time.Time; every instant of the model is later.
Never == 0

\* A slab entry that is not in use.
NoDevice == [used |-> FALSE, key |-> NoKey, facts |-> {}, protocols |-> {},
             class |-> "", services |-> {}, lastSeen |-> Never,
             links |-> <<>>, dns |-> <<>>, dnsExpiry |-> Never]
NoLink == [used |-> FALSE, key |-> NoKey, kind |-> "none", device |-> 0,
           protocols |-> {}, expires |-> [p \in Protocols |-> Never],
           remote |-> "", lastSeen |-> Never, due |-> 0]
NoDNS == [used |-> FALSE, rec |-> "", device |-> 0, ttl |-> 0,
          expiresAt |-> Never, due |-> 0]

\* An event is what the handler is given: its kind, the key of its link and
\* the fields it says have changed.
EventKinds == {"Added", "Changed", "Expired", "Evicted"}
Fields == {"identity", "addresses", "services", "link", "classification"}
Event(kind, key, changed) == [kind |-> kind, key |-> key, changed |-> changed]

newFusionState ==
    [devices |-> [d \in DeviceSlots |-> NoDevice],
     links |-> [l \in LinkSlots |-> NoLink],
     dns |-> [r \in DNSSlots |-> NoDNS],
     deviceByKey |-> << >>, linkByKey |-> << >>, dnsByKey |-> << >>,
     freeDevices |-> [i \in DeviceSlots |-> MaxDevices + 1 - i],
     freeLinks |-> [i \in LinkSlots |-> MaxLinks + 1 - i],
     freeDNS |-> [i \in DNSSlots |-> MaxDNSRecords + 1 - i],
     linkWheel |-> <<>>, dnsWheel |-> <<>>,
     events |-> <<>>]

-----------------------------------------------------------------------------
(* Go maps and slices.                                                     *)

Store(f, k, v) == [x \in DOMAIN f \cup {k} |-> IF x = k THEN v ELSE f[x]]
Delete(f, k) == Restrict(f, DOMAIN f \ {k})
Lookup(f, k) == IF k \in DOMAIN f THEN f[k] ELSE 0

\* The removal idiom of d.links and d.dns: the last element takes the place
\* of the removed one.
SwapRemove(q, x) ==
    IF Contains(q, x)
    THEN Front([q EXCEPT ![SelectInSeq(q, LAMBDA e : e = x)] = Last(q)])
    ELSE q

Later(a, b) == IF a >= b THEN a ELSE b

\* The least recently touched used entry: the slab is scanned upwards and an
\* entry replaces the candidate only when it is strictly older.
Oldest(slab, age) ==
    CHOOSE i \in DOMAIN slab :
        /\ slab[i].used
        /\ \A j \in DOMAIN slab : slab[j].used =>
              age[i] < age[j] \/ (age[i] = age[j] /\ i <= j)

-----------------------------------------------------------------------------
(* Scheduling.                                                             *)

\* Mutant: a tick too many.
ceilDurationSecondsLate(d) == IF d <= 0 THEN 1 ELSE d \div Second + 1

ceilDurationSeconds(d) == IF d <= 0 THEN 1 ELSE (d + Second - 1) \div Second

scheduleLink(s, i, at, expiry) ==
    [s EXCEPT !.links[i].due = ceilDurationSeconds(expiry - at),
              !.linkWheel = <<i>> \o RemoveFirst(@, i)]

\* Mutant: an entry that is already on the wheel stays where it is.
scheduleDNSOnce(s, i, at, expiry) ==
    IF Contains(s.dnsWheel, i) THEN s
    ELSE [s EXCEPT !.dns[i].due = ceilDurationSeconds(expiry - at),
                   !.dnsWheel = <<i>> \o @]

scheduleDNS(s, i, at, expiry) ==
    [s EXCEPT !.dns[i].due = ceilDurationSeconds(expiry - at),
              !.dnsWheel = <<i>> \o RemoveFirst(@, i)]

\* earliestExpiry over the protocols that still have evidence.
earliestExpiry(expires) ==
    LET live == {expires[p] : p \in Protocols} \ {Never}
    IN  IF live = {} THEN Never ELSE CHOOSE t \in live : \A u \in live : t <= u
=============================================================================
