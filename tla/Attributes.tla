----------------------------- MODULE Attributes -----------------------------
(***************************************************************************)
(* What the fusion store knows of a device besides its links: names with   *)
(* their alternatives (mergeText), vendor, uptime, the services its DNS    *)
(* records make up, and its class.  Fusion.tla decides which device an     *)
(* observation belongs to and how long records live; here two entries of   *)
(* the slab are filled, merged, evicted and used again.                    *)
(*                                                                         *)
(* A text is [text, padded]: cleanText drops the padding.  A slice that is *)
(* cut and grown again keeps its old cells: spare holds those of Services. *)
(***************************************************************************)
EXTENDS Classifier

CONSTANTS
    MaxAlternatives,   \* Config.MaxAlternatives
    Networks,          \* a sequence of [rules, messages, observations]: Config.Rules,
                       \* what neighbours announce, bound on the messages taken
    MaxSeconds         \* bound on the clock

VARIABLES
    network,           \* of Networks, the one the engine runs in
    classifier,        \* its rules, compiled
    devices,           \* the slab
    changed,           \* the FieldSet of the last observation
    touched,           \* the entry it changed, 0 after a tick
    clock,             \* seconds
    taken              \* how many messages were observed
attributeVars == <<network, classifier, devices, changed, touched, clock, taken>>

Entries == {1, 2}
rules == Networks[network].rules

-----------------------------------------------------------------------------
(* Text fields.                                                            *)

cleanText(t) == t.text

NoText == [values |-> <<>>, canonical |-> 1]
Current(f) == IF f.values = <<>> THEN "" ELSE f.values[f.canonical].value

textRank(v) == v.confidence * 16 + Cardinality(v.protocols)

\* Mutant: the newest of equals wins.
selectCanonicalLast(f) ==
    LET best == Max({textRank(v) : v \in ToSet(f.values)})
    IN  [f EXCEPT !.canonical = Max({i \in DOMAIN f.values : textRank(f.values[i]) = best})]

\* The current winner stays unless another value ranks higher.
selectCanonical(f) ==
    LET best == Max({textRank(v) : v \in ToSet(f.values)})
    IN  IF textRank(f.values[f.canonical]) = best THEN f
        ELSE [f EXCEPT !.canonical = Min({i \in DOMAIN f.values : textRank(f.values[i]) = best})]

\* Mutant: more evidence for a value that is known is not reported.
refreshTextQuiet(f, i, new) ==
    [field |-> selectCanonical([f EXCEPT
         !.values[i].protocols = @ \cup new.protocols,
         !.values[i].confidence = IF new.confidence > @ THEN new.confidence ELSE @]),
     changed |-> FALSE]

refreshText(f, i, new) ==
    LET old == f.values[i]
        v == [old EXCEPT !.protocols = @ \cup new.protocols,
                         !.confidence = IF new.confidence > @ THEN new.confidence ELSE @,
                         !.lastSeen = IF new.lastSeen > @ THEN new.lastSeen ELSE @]
    IN  [field |-> selectCanonical([f EXCEPT !.values[i] = v]),
         changed |-> v.protocols # old.protocols \/ v.confidence # old.confidence]

weaker(f, i, j) ==
    LET r(k) == textRank(f.values[k])
        seen(k) == f.values[k].lastSeen
    IN  \/ r(i) < r(j)
        \/ r(i) = r(j) /\ seen(i) < seen(j)
        \/ r(i) = r(j) /\ seen(i) = seen(j) /\ i <= j

\* The weakest alternative makes room, unless the new value is weaker still.
replaceText(f, new) ==
    LET others == DOMAIN f.values \ {f.canonical}
        i == CHOOSE i \in others : \A j \in others : weaker(f, i, j)
    IN  IF others = {} THEN [field |-> f, changed |-> FALSE]
        ELSE IF textRank(new) < textRank(f.values[i]) THEN [field |-> f, changed |-> FALSE]
        ELSE [field |-> selectCanonical([f EXCEPT !.values[i] = new]), changed |-> TRUE]

mergeText(f, value, protocols, confidence, at) ==
    LET new == [value |-> cleanText(value), protocols |-> protocols, confidence |-> confidence, lastSeen |-> at]
        same == {i \in DOMAIN f.values : f.values[i].value = new.value}
    IN  CASE new.value = "" -> [field |-> f, changed |-> FALSE]
          [] new.value # "" /\ same # {} -> refreshText(f, CHOOSE i \in same : TRUE, new)
          [] new.value # "" /\ same = {} /\ Len(f.values) <= MaxAlternatives ->
               [field |-> selectCanonical([f EXCEPT !.values = Append(@, new)]), changed |-> TRUE]
          [] OTHER -> replaceText(f, new)

mergeTextField(dst, src) ==
    FoldLeft(LAMBDA f, v : mergeText(f, [text |-> v.value, padded |-> FALSE],
                                     v.protocols, v.confidence, v.lastSeen).field,
             dst, src.values)

-----------------------------------------------------------------------------
(* Services.                                                               *)

NoService == [instance |-> "", type |-> "", host |-> "", port |-> 0, txt |-> "",
              addresses |-> <<>>, expires |-> 0]

\* Services is cut to nothing; its cells, cleared, are kept.
cutServices(d, cleared) == [d EXCEPT !.services = <<>>, !.spare = cleared \o @]

findService(d, instance) == {i \in DOMAIN d.services : d.services[i].instance = instance}
minNonZeroTime(a, b) == IF a = 0 \/ (b # 0 /\ b < a) THEN b ELSE a

ensureService(d, instance) ==
    IF findService(d, instance) # {} THEN d
    ELSE LET cell == IF d.spare = <<>> THEN NoService ELSE Head(d.spare)
         IN  [d EXCEPT !.services = Append(@, [cell EXCEPT !.instance = instance]),
                       !.spare = IF @ = <<>> THEN @ ELSE Tail(@)]

\* What a record says of the service it belongs to.
pointed(s, e) == [s EXCEPT !.type = e.rr.name, !.expires = minNonZeroTime(@, e.expires)]
located(s, e) == [s EXCEPT !.host = e.rr.target, !.port = e.rr.port, !.expires = minNonZeroTime(@, e.expires)]
described(s, e) == [s EXCEPT !.txt = e.rr.target, !.expires = minNonZeroTime(@, e.expires)]
addressed(s, e) ==
    IF s.host = e.rr.name /\ ~ Contains(s.addresses, e.rr.address)
    THEN [s EXCEPT !.addresses = Append(@, e.rr.address)] ELSE s

applyRecord(d, e) ==
    CASE e.rr.type = "PTR" ->
           LET f == ensureService(d, e.rr.target)
           IN  [f EXCEPT !.services = [i \in DOMAIN @ |->
                   IF @[i].instance = e.rr.target THEN pointed(@[i], e) ELSE @[i]]]
      [] e.rr.type \in {"SRV", "TXT"} ->
           [d EXCEPT !.services = [i \in DOMAIN @ |->
                   IF @[i].instance # e.rr.name THEN @[i]
                   ELSE IF e.rr.type = "SRV" THEN located(@[i], e) ELSE described(@[i], e)]]
      [] e.rr.type = "A" -> [d EXCEPT !.services = [i \in DOMAIN @ |-> addressed(@[i], e)]]

\* Pointers first, then what they point to, then addresses.
rebuildServices(d) ==
    LET Typed(types) == SelectSeq(d.dns, LAMBDA e : e.rr.type \in types)
    IN  FoldLeft(applyRecord, cutServices(d, [i \in DOMAIN d.services |-> NoService]),
                 Typed({"PTR"}) \o Typed({"SRV", "TXT"}) \o Typed({"A"}))

-----------------------------------------------------------------------------
(* A device.                                                               *)

NotSaid == -1   \* no HasUptime
NoUptime == [valid |-> FALSE, seconds |-> 0, at |-> 0, protocols |-> {}]
NoDevice ==
    [used |-> FALSE, generation |-> 0, observed |-> <<>>, claimed |-> <<>>, addresses |-> <<>>,
     text |-> [f \in DeviceTexts \cup {"Vendor"} |-> NoText], uptime |-> NoUptime,
     capabilities |-> {}, services |-> <<>>, spare |-> <<>>, dns |-> <<>>,
     protocols |-> {}, class |-> "", rule |-> ""]

\* DiscoveredDevice.Reset: the cells of Services keep Port and ExpiresAt.
Reset(d) ==
    [NoDevice EXCEPT !.generation = d.generation, !.spare =
        cutServices(d, [i \in DOMAIN d.services |->
            [NoService EXCEPT !.port = d.services[i].port, !.expires = d.services[i].expires]]).spare]

addUnique(q, v) == IF Contains(q, v) THEN q ELSE Append(q, v)

mergeDeviceUptime(u, seconds, protocols, at) ==
    LET expected == u.seconds + (IF at > u.at THEN at - u.at ELSE 0)
        delta == IF seconds >= expected THEN seconds - expected ELSE expected - seconds
    IN  [uptime |-> [valid |-> TRUE, seconds |-> seconds, at |-> at, protocols |-> u.protocols \cup protocols],
         changed |-> ~ u.valid \/ delta > 5 \/ ~ protocols \subseteq u.protocols]

\* A step of an observation takes [dev, changed] to the next.
learn(e, field, flag, value, protocols, confidence, at) ==
    LET merged == mergeText(e.dev.text[field], value, protocols, confidence, at)
    IN  [dev |-> [e.dev EXCEPT !.text[field] = merged.field],
         changed |-> e.changed \cup (IF merged.changed THEN {flag} ELSE {})]

mergeMACVendor(e, mac, protocols, confidence, at) ==
    LET result == LookupMACVendor(mac)
    IN  IF result.source \notin {"MA-L", "MA-M", "MA-S"} THEN e
        ELSE learn(e, "Vendor", "Vendor", [text |-> result.name, padded |-> FALSE],
                   protocols, confidence, at)

observedMAC(e, m, at) ==
    IF ~ IsUnicast(m.smac) \/ Contains(e.dev.observed, m.smac) THEN e
    ELSE mergeMACVendor([dev |-> [e.dev EXCEPT !.observed = Append(@, m.smac)],
                         changed |-> e.changed \cup {"Identity"}], m.smac, {m.proto}, 3, at)
claimedMAC(e, m, at) ==
    IF \/ m.claimed = 0 \/ Contains(e.dev.claimed, m.claimed)
       \/ m.proto = "LLDP" /\ (~ IsUnicast(m.claimed) \/ m.claimed = m.smac)
    THEN e
    ELSE mergeMACVendor([dev |-> [e.dev EXCEPT !.claimed = Append(@, m.claimed)],
                         changed |-> e.changed \cup {"Identity"}], m.claimed, {m.proto}, 2, at)

\* The texts a message carries, the field each is evidence for, what FieldSet
\* says of it, and how much it is trusted.
Evidence(m) ==
    CASE m.proto = "LLDP" -> <<<<"SystemName", "Names", m.name, 3>>>>
      [] m.proto = "CDP"  -> <<<<"DeviceID", "Names", m.id, 3>>, <<"SystemName", "Names", m.name, 3>>,
                               <<"Platform", "Platform", m.platform, 3>>, <<"Model", "Model", m.platform, 3>>,
                               <<"SoftwareVersion", "Software", m.version, 3>>>>
      [] m.proto = "MNDP" -> <<<<"SystemName", "Names", m.name, 3>>, <<"Platform", "Platform", m.platform, 3>>,
                               <<"Model", "Model", m.id, 4>>, <<"SoftwareVersion", "Software", m.version, 3>>>>
      [] m.proto = "MDNS" ->
           LET hosts == SelectSeq(m.records, LAMBDA rr : rr.type = "A")
           IN  [i \in DOMAIN hosts |-> <<"HostName", "Names", [text |-> hosts[i].name, padded |-> FALSE], 2>>]

addressesIn(m) ==
    LET hosts == IF m.proto = "MDNS" THEN SelectSeq(m.records, LAMBDA rr : rr.type = "A") ELSE <<>>
    IN  m.addresses \o [i \in DOMAIN hosts |-> hosts[i].address]

cached(d, m, at) ==
    FoldLeft(LAMBDA q, rr : IF \E i \in DOMAIN q : q[i].rr = rr
                            THEN [i \in DOMAIN q |-> IF q[i].rr = rr THEN [q[i] EXCEPT !.expires = at + m.ttl] ELSE q[i]]
                            ELSE Append(q, [rr |-> rr, expires |-> at + m.ttl]), d.dns, m.records)
serviced(e, m, at) ==
    LET d == [e.dev EXCEPT !.dns = cached(e.dev, m, at)]
    IN  IF Len(d.dns) = Len(e.dev.dns) THEN [e EXCEPT !.dev = d]
        ELSE [dev |-> rebuildServices(d), changed |-> e.changed \cup {"Services"}]

applyClassification(e, found) ==
    IF e.dev.class = found.class /\ e.dev.rule = found.rule THEN e
    ELSE [dev |-> [e.dev EXCEPT !.class = found.class, !.rule = found.rule],
          changed |-> e.changed \cup {"Classification"}]

identified(e, m, at) ==
    LET macs == claimedMAC(observedMAC(e, m, at), m, at)
        known == FoldLeft(addUnique, macs.dev.addresses, addressesIn(m))
    IN  [dev |-> [macs.dev EXCEPT !.addresses = known],
         changed |-> macs.changed \cup (IF known # macs.dev.addresses THEN {"Addresses"} ELSE {})]
named(e, m, at) ==
    FoldLeft(LAMBDA f, t : learn(f, t[1], t[2], t[3], {m.proto}, t[4], at), e, Evidence(m))
measured(e, m, at) ==
    LET up == mergeDeviceUptime(e.dev.uptime, m.uptime, {m.proto}, at)
        caps == e.dev.capabilities \cup (IF m.proto \in {"LLDP", "CDP"} THEN m.capabilities ELSE {})
    IN  IF m.proto = "MNDP" /\ m.uptime # NotSaid
        THEN [dev |-> [e.dev EXCEPT !.uptime = up.uptime],
              changed |-> e.changed \cup (IF up.changed THEN {"Uptime"} ELSE {})]
        ELSE [dev |-> [e.dev EXCEPT !.capabilities = caps],
              changed |-> e.changed \cup (IF caps # e.dev.capabilities THEN {"Capabilities"} ELSE {})]
spoke(e, m) ==
    [dev |-> [e.dev EXCEPT !.protocols = @ \cup {m.proto}],
     changed |-> e.changed \cup (IF m.proto \in e.dev.protocols THEN {} ELSE {"Identity"})]
classified(e) == applyClassification(e, Classify(classifier, e.dev))

\* observeLLDP, observeCDP, observeMNDP and observeMDNS.
observe(d, m, at) ==
    LET known == named(identified([dev |-> d, changed |-> {}], m, at), m, at)
    IN  classified(spoke(IF m.proto = "MDNS" THEN serviced(known, m, at) ELSE measured(known, m, at), m))

-----------------------------------------------------------------------------
(* mergeDevices: the device known by an address joins the one known by its *)
(* MAC.  Records both have are dropped; the last of the source come first. *)
mergeDevices(dst, src) ==
    LET moved == SelectSeq(Reverse(src.dns), LAMBDA e : \A i \in DOMAIN dst.dns : dst.dns[i].rr # e.rr)
    IN  rebuildServices(
          [dst EXCEPT !.observed = FoldLeft(addUnique, @, src.observed),
                      !.claimed = FoldLeft(addUnique, @, src.claimed),
                      !.addresses = FoldLeft(addUnique, @, src.addresses),
                      !.text = [f \in DOMAIN @ |-> mergeTextField(@[f], src.text[f])],
                      !.uptime = IF src.uptime.valid /\ (~ @.valid \/ src.uptime.at > @.at) THEN src.uptime ELSE @,
                      !.protocols = @ \cup src.protocols,
                      !.capabilities = @ \cup src.capabilities,
                      !.dns = @ \o moved])

-----------------------------------------------------------------------------
AttributesInit(n) ==
    /\ network = n
    /\ Compilable(rules)
    /\ classifier = CompileClassifier(rules)
    /\ devices = [d \in Entries |-> NoDevice]
    /\ changed = {} /\ touched = 0
    /\ clock = 1 /\ taken = 0

Observed(d, e, others) ==
    /\ taken < Networks[network].observations
    /\ devices' = [others EXCEPT ![d] = e.dev]
    /\ changed' = e.changed /\ touched' = d
    /\ taken' = taken + 1
    /\ UNCHANGED <<network, classifier, clock>>

\* A device takes a free entry, or the one of a device that is evicted for it.
fresh(d) == [Reset(d) EXCEPT !.used = TRUE, !.generation = @ + 1]
ObserveNew(d, m) ==
    /\ devices[d].used => \A e \in Entries : devices[e].used
    /\ Observed(d, observe(fresh(devices[d]), m, clock), devices)

ObserveAgain(d, m) ==
    /\ devices[d].used
    /\ Observed(d, observe(devices[d], m, clock), devices)

\* deviceFor finds that two entries are one device.
ObserveMerged(m) ==
    /\ \A e \in Entries : devices[e].used
    /\ Observed(1, observe(mergeDevices(devices[1], devices[2]), m, clock),
                [devices EXCEPT ![2] = Reset(@)])

\* Records run out and services are made up again; the class is not.
swapRemove(q, e) ==
    LET i == CHOOSE i \in DOMAIN q : q[i] = e
    IN  Front([q EXCEPT ![i] = Last(q)])
expired(d, at) ==
    LET due == SelectSeq(d.dns, LAMBDA e : e.expires <= at)
    IN  IF due = <<>> THEN d ELSE rebuildServices([d EXCEPT !.dns = FoldLeft(swapRemove, @, due)])
Second ==
    /\ clock < MaxSeconds
    /\ clock' = clock + 1
    /\ devices' = [d \in Entries |-> expired(devices[d], clock + 1)]
    /\ changed' = {} /\ touched' = 0
    /\ UNCHANGED <<network, classifier, taken>>

AttributesNext ==
    \/ \E m \in Networks[network].messages :
          (\E d \in Entries : ObserveNew(d, m) \/ ObserveAgain(d, m)) \/ ObserveMerged(m)
    \/ Second

-----------------------------------------------------------------------------
(* Properties.                                                             *)

SameDevice(d) == devices[d].used /\ devices'[d].used /\ devices'[d].generation = devices[d].generation

Texts(f) == {v.value : v \in ToSet(f.values)}

\* "the current winner is stable" (fusion.go:367): while a device lives, the
\* name it is shown by changes only to one of higher rank, through every order
\* of observations, raised ranks, replaced alternatives and merging; what it is
\* shown by is never worse than an alternative, no value is kept twice, and a
\* value that makes room for others ranked no higher than any that stays or comes.
WinnerStable ==
    [][ \A d \in Entries : SameDevice(d) => \A f \in DOMAIN NoDevice.text :
          LET old == devices[d].text[f]
              new == devices'[d].text[f]
              winner == new.values[new.canonical]
          IN  old.values # <<>> =>
                /\ Len(new.values) >= Len(old.values)
                /\ \A v \in ToSet(old.values) :
                     v.value \notin Texts(new) => \A w \in ToSet(new.values) : textRank(v) <= textRank(w)
                /\ \/ winner.value = Current(old)
                   \/ textRank(winner) > textRank(old.values[old.canonical])
                /\ \A v \in ToSet(new.values) : textRank(v) <= textRank(winner)
                /\ \A i, j \in DOMAIN new.values : new.values[i].value = new.values[j].value => i = j
      ]_attributeVars

\* The rules that match a device, by what a rule says.
Applies(r, d) ==
    /\ \A p \in ToSet(r.all) : matchPredicate(p, d)
    /\ \A p \in ToSet(r.none) : ~ matchPredicate(p, d)
    /\ r.any # <<>> => \E p \in ToSet(r.any) : matchPredicate(p, d)
Better(i, j) ==
    \/ rules[i].priority > rules[j].priority
    \/ /\ rules[i].priority = rules[j].priority
       /\ \/ Len(Predicates(rules[i])) > Len(Predicates(rules[j]))
          \/ Len(Predicates(rules[i])) = Len(Predicates(rules[j])) /\ i <= j

\* After an observation the device has the class of the best rule that applies
\* to it now, and none if none does: sorting the rules and skipping those whose
\* protocols or text fields are missing changes nothing, as long as no predicate
\* matches the empty text.
ClassifiedByBestRule ==
    touched # 0 =>
        LET d == devices[touched]
            applying == {i \in DOMAIN rules : Applies(rules[i], d)}
        IN  IF applying = {} THEN d.class = "" /\ d.rule = ""
            ELSE \E i \in applying : /\ \A j \in applying : Better(i, j)
                                     /\ d.class = rules[i].class /\ d.rule = rules[i].name

\* What the fields of a FieldSet stand for.
Facet(d, flag) ==
    LET Values(f) == {<<v.value, v.protocols, v.confidence>> : v \in ToSet(d.text[f].values)}
    IN  CASE flag = "Names" -> <<Values("SystemName"), Values("HostName"), Values("DeviceID"),
                                 Current(d.text["SystemName"])>>
          [] flag = "Vendor" -> <<Values("Vendor"), Current(d.text["Vendor"])>>
          [] flag = "Model" -> <<Values("Model"), Current(d.text["Model"])>>
          [] flag = "Platform" -> <<Values("Platform"), Current(d.text["Platform"])>>
          [] flag = "Software" -> <<Values("SoftwareVersion"), Current(d.text["SoftwareVersion"])>>
          [] flag = "Identity" -> <<d.observed, d.claimed, d.protocols>>
          [] flag = "Addresses" -> d.addresses
          [] flag = "Capabilities" -> d.capabilities
          [] flag = "Classification" -> <<d.class, d.rule>>
          [] flag = "Services" -> [i \in DOMAIN d.services |-> [d.services[i] EXCEPT !.expires = 0]]

\* Uptime that another protocol tells of too, or that is more than five seconds
\* off what it should have become since it was last told.
Restarted(old, new) ==
    LET off == (new.seconds - new.at) - (old.seconds - old.at)
    IN  old.valid # new.valid \/ old.protocols # new.protocols \/ off > 5 \/ off < -5

\* Every observation of a device that is known says what it changed, in any of
\* its attributes: a handler that looks only at the fields in Changed misses
\* nothing (but a merge of two devices, and the expiry of services).
ChangesAnnounced ==
    [][ \A d \in Entries :
          /\ SameDevice(d) /\ touched' = d /\ \A e \in Entries : devices'[e].used = devices[e].used
          => /\ \A flag \in {"Names", "Vendor", "Model", "Platform", "Software", "Identity", "Addresses",
                               "Capabilities", "Classification", "Services"} :
                   Facet(devices'[d], flag) # Facet(devices[d], flag) => flag \in changed'
             /\ Restarted(devices[d].uptime, devices'[d].uptime) => "Uptime" \in changed' ]_attributeVars

\* "Reset releases logical contents" (model.go:294): a service has the port its
\* own SRV record says, and none without one, whatever its entry held before.
PortsFromRecords ==
    \A d \in Entries : \A i \in DOMAIN devices[d].services :
        LET service == devices[d].services[i]
        IN  service.port # 0 =>
                \E e \in ToSet(devices[d].dns) :
                    e.rr.type = "SRV" /\ e.rr.name = service.instance /\ e.rr.port = service.port
=============================================================================
