----------------------------- MODULE MCCommand ------------------------------
EXTENDS Command

\* Two devices and three links, in stores that grow, shrink and change.
Field(names) == [values |-> names, canonical |-> IF names = <<>> THEN 1 ELSE Len(names)]
Device(key, system, host, services) ==
    [key |-> key, system |-> Field(system), host |-> Field(host), services |-> services]
Link(key, device, kind, protos, seen) ==
    [key |-> key, iface |-> key, device |-> device, kind |-> kind, protocols |-> protos, seen |-> seen]
D1 == Device(1, <<7, 8>>, <<3>>, <<[type |-> 1, port |-> 80], [type |-> 2, port |-> 81]>>)
D2 == Device(2, <<>>, <<>>, <<[type |-> 3, port |-> 0]>>)
L1 == Link(1, 1, "physical", {"LLDP", "MDNS"}, 1)
L2Of1 == Link(2, 1, "segment", {"MNDP"}, 2)
L3 == Link(3, 2, "segment", {"MDNS", "CDP"}, 2)
MCStores ==
    {[devices |-> <<D1>>, links |-> <<L1, L2Of1>>], [devices |-> <<D2>>, links |-> <<L3>>],
     [devices |-> <<D2, [D1 EXCEPT !.system = Field(<<>>)]>>, links |-> <<L3, L1, L2Of1>>]}
FirstStore == [devices |-> <<D1>>, links |-> <<L1, L2Of1>>]

Args(mode, protos) ==
    [parse |-> "ok", protocols |-> protos, mode |-> mode, interfaces |-> <<>>, loopback |-> FALSE, duration |-> FALSE]
Up2 == {"up", "multicast"}
Machine(n) ==
    CASE n = 1 -> [e0 |-> Up2, lo |-> Up2 \cup {"loopback"}]
      [] n = 2 -> [e0 |-> Up2, e1 |-> Up2, e2 |-> {"up"}]
      [] n = 0 -> [e2 |-> {"multicast"}]
Scenario(sys, n, f, a, k) ==
    [os |-> sys, interfaces |-> Machine(n), faults |-> f, args |-> a, keys |-> k, store |-> FirstStore, terminal |-> 15]

\* What may fail while opening, alone or with others.
AllOf(protocol) == {protocol} \X {"udp4", "udp6"} \X {"e0", "e1", "any"}
OpenFaults ==
    {{}, {<<"socket", "e1", 1>>}, {<<"bind", "e0", 1>>}, {<<"ring", "e0">>}, {<<"ring", "e1">>, <<"bind", "e1", 2>>},
     AllOf("MDNS"), AllOf("MNDP"), {<<"MNDP", "udp4", "any">>, <<"MDNS", "udp6", "e0">>},
     AllOf("MDNS") \ {<<"MDNS", "udp6", "e1">>}}
Broken == {<<"call", "e0">>}
Quiet == {<<"MDNS", "udp6", "e0">>}

MCScenarios ==
    {Scenario("linux", 2, f, Args("plain", p), 0) : f \in OpenFaults, p \in {<<"LLDP">>, <<"MNDP", "bonjour">>}}
    \cup {Scenario("darwin", 2, f, Args("plain", <<"CDP", "MNDP">>), 0) : f \in OpenFaults}
    \cup {Scenario(sys, 1, Broken, Args("plain", <<"default">>), 0) : sys \in {"linux", "windows", "other"}}
    \cup {Scenario("linux", 1, Broken \cup {<<"ring", "e0">>}, [Args("json", <<"all">>) EXCEPT !.duration = TRUE], 0)}
    \cup {Scenario(sys, n, {}, Args("json", p), 0) :
             sys \in {"windows", "other"}, n \in {0, 1}, p \in {<<"all">>, <<"MDNS">>, <<"MDNS", "x">>}}
    \cup {Scenario("linux", 1, {}, [Args("plain", <<"MDNS">>) EXCEPT !.interfaces = x, !.loopback = TRUE], 0) :
             x \in {<<"e0", "e0">>, <<"e9">>, <<>>}}
    \cup {Scenario("linux", 1, {}, [Args("plain", <<"LLDP">>) EXCEPT !.interfaces = <<"lo", "e0", "lo">>], 0)}
    \cup {Scenario("linux", 1, {}, [Args("plain", <<>>) EXCEPT !.parse = x], 0) : x \in {"help", "bad"}}
    \cup {Scenario("linux", 1, f, Args("dashboard", <<"MDNS">>), 1) :
             f \in {{<<"terminal">>}, Broken, AllOf("MDNS")}}
    \cup {Scenario("linux", 1, Quiet, Args("dashboard", <<"MDNS">>), 3)}

MCFrameRange == 512..65535
MCAltRange == 1..32
MCDefaults == [MaxFrameSize |-> 9216, MaxAlternatives |-> 4, MaxDevices |-> 4096, MaxLinks |-> 8192]
=============================================================================
