------------------------------ MODULE MCFusion ------------------------------
(* Model values and observation sets for Fusion.                           *)
EXTENDS Fusion

\* Two records of the same owner, type and class.
MCRRSetOf == [r \in Records |-> "set"]

MCClassify(facts) == IF \E f \in facts : f[1] = "claimed" THEN "router" ELSE ""

ObsOn(iface, proto, smac, sip, claimed, remote, ttl, records) ==
    [proto |-> proto, iface |-> iface, smac |-> smac, sip |-> sip, claimed |-> claimed,
     addr |-> NoIP, remote |-> remote, ttl |-> ttl, records |-> records]

Obs(proto, smac, sip, claimed, remote, ttl, records) ==
    ObsOn(1, proto, smac, sip, claimed, remote, ttl, records)

RR(rec, ttl, flush) == [rec |-> rec, ttl |-> ttl, flush |-> flush]

\* UDP sockets (no source MAC): a host that sends MNDP over IPv4 and IPv6 and
\* speaks mDNS over IPv4, where it also names another address of its own.
UDPObservations ==
    {[Obs("MDNS", NoMAC, "v4", NoMAC, "", 0, <<RR("r1", 1, FALSE)>>) EXCEPT !.addr = "a6"],
     Obs("MDNS", NoMAC, "v4", NoMAC, "", 0, <<RR("r1", 0, FALSE)>>),
     Obs("MNDP", NoMAC, "v4", "m1", "", 1, <<>>),
     Obs("MNDP", NoMAC, "v6", "m1", "", 1, <<>>)}

\* Raw sockets (every observation has a source MAC): a switch that speaks
\* LLDP and CDP and answers mDNS on another interface, a router that sends MNDP, a third host.
RawObservations ==
    {Obs("LLDP", "m1", NoIP, NoMAC, "lldp", 1, <<>>),
     Obs("CDP", "m1", NoIP, NoMAC, "cdp", 2, <<>>),
     Obs("MNDP", "m2", "v4", "m2", "", 1, <<>>),
     ObsOn(2, "MDNS", "m1", "v4", NoMAC, "", 0, <<RR("r1", 1, FALSE)>>),
     Obs("MDNS", "m3", "v6", NoMAC, "", 0, <<RR("r2", 2, TRUE)>>)}

\* One host and one set of two records: announcements with and without the
\* cache-flush bit, goodbyes, and a message that replaces the whole set.
DNSObservations ==
    {Obs("MDNS", "m1", "v4", NoMAC, "", 0, rs) :
        rs \in {<<RR("r1", 2, FALSE)>>, <<RR("r1", 3, TRUE)>>, <<RR("r2", 2, TRUE)>>,
                <<RR("r1", 0, FALSE)>>, <<RR("r2", 0, FALSE), RR("r1", 1, TRUE)>>}}

RawNetwork == {[observations |-> RawObservations, until |-> 8]}
\* The host that is merged, and the one whose records change.
HostNetworks == {[observations |-> UDPObservations, until |-> 8],
                 [observations |-> DNSObservations, until |-> 13]}
UDPNetwork == {[observations |-> UDPObservations, until |-> 6]}
=============================================================================
