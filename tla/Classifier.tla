----------------------------- MODULE Classifier -----------------------------
(***************************************************************************)
(* classifier.go: rules are compiled once (checked, sorted, and indexed by *)
(* the protocols and the text fields they cannot do without) and a device  *)
(* gets the class of the first compiled rule that matches it.              *)
(*                                                                         *)
(* A predicate is [op, field, want]: want is a set, of the texts a value   *)
(* or a pattern accepts, of protocols or of capabilities, or a prefix      *)
(* <<number, bits>>.  What the pattern of a regex accepts is up to the     *)
(* regexp package.                                                         *)
(***************************************************************************)
EXTENDS VendorRegistry

CONSTANTS
    ProtocolsAll,       \* the set of the four protocols
    MaxClassification,  \* DefaultMaxClassification
    MaxRegexRules,      \* DefaultMaxRegexRules
    Fold                \* equalFoldASCII: a text without the case of its letters

DeviceTexts == {"SystemName", "HostName", "DeviceID", "Model", "Platform", "SoftwareVersion"}
ServiceTexts == {"ServiceInstance", "ServiceType", "ServiceTXT"}
isTextField(f) == f \in DeviceTexts \cup ServiceTexts

-----------------------------------------------------------------------------
(* CompileClassifier.                                                      *)

validPredicate(p) ==
    CASE p.op = "Exact" -> isTextField(p.field)
      [] p.op = "Regex" -> isTextField(p.field) /\ p.want # {}
      [] p.op = "Protocol" -> p.field = "Protocol" /\ p.want # {} /\ p.want \subseteq ProtocolsAll
      [] p.op = "MACPrefix" -> p.field = "ObservedMAC" /\ p.want[2] <= AddressBits
      [] p.op = "IPPrefix" -> p.field = "Address"
      [] p.op = "CapabilityAll" -> p.field = "Capabilities" /\ p.want # {}
      [] OTHER -> FALSE

predicateCost(op) ==
    CASE op \in {"Protocol", "CapabilityAll"} -> 0 [] op = "Exact" -> 1
      [] op \in {"MACPrefix", "IPPrefix"} -> 2 [] op = "Regex" -> 3

\* A stable sort, cheapest first.
compilePredicates(ps) ==
    LET order == SetToSortSeq(DOMAIN ps, LAMBDA i, j :
                    \/ predicateCost(ps[i].op) < predicateCost(ps[j].op)
                    \/ predicateCost(ps[i].op) = predicateCost(ps[j].op) /\ i < j)
    IN  [i \in DOMAIN order |-> ps[order[i]]]

Predicates(r) == r.all \o r.any \o r.none

\* Mutant: a rule is also held to need the text fields of its alternatives.
requiredOfAny(r) == {p \in ToSet(r.all \o r.any) : isTextField(p.field)}

requiredBy(r) == {p \in ToSet(r.all) : isTextField(p.field)}

compileRule(r, i) ==
    [name |-> r.name, class |-> r.class, priority |-> r.priority, order |-> i,
     specificity |-> Len(Predicates(r)),
     all |-> compilePredicates(r.all), any |-> compilePredicates(r.any),
     none |-> compilePredicates(r.none), required |-> {p.field : p \in requiredBy(r)}]

before(r, q) ==
    \/ r.priority > q.priority
    \/ r.priority = q.priority /\ r.specificity > q.specificity
    \/ r.priority = q.priority /\ r.specificity = q.specificity /\ r.order < q.order

\* Which rules can match a device that spoke these protocols.
candidatesFor(compiled, spoken) ==
    {i \in DOMAIN compiled :
        \A p \in ToSet(compiled[i].all) : p.op = "Protocol" => spoken \cap p.want # {}}

Compilable(rules) ==
    /\ Len(rules) <= MaxClassification
    /\ \A i \in DOMAIN rules :
          /\ rules[i].name # "" /\ rules[i].class # ""
          /\ \A p \in ToSet(Predicates(rules[i])) : validPredicate(p)
    /\ FoldLeft(LAMBDA n, r : n + Len(SelectSeq(Predicates(r), LAMBDA p : p.op = "Regex")), 0, rules)
         <= MaxRegexRules

CompileClassifier(rules) ==
    LET compiled == {compileRule(rules[i], i) : i \in DOMAIN rules}
        sorted == SetToSortSeq(compiled, before)
    IN  [rules |-> sorted,
         protocolCandidates |-> [spoken \in SUBSET ProtocolsAll |-> candidatesFor(sorted, spoken)]]

-----------------------------------------------------------------------------
(* Classify.                                                               *)

ServiceText(service, field) ==
    CASE field = "ServiceInstance" -> service.instance
      [] field = "ServiceType" -> service.type
      [] field = "ServiceTXT" -> service.txt

\* The values visitTextField visits.
textsOf(d, field) ==
    IF field \in ServiceTexts THEN {ServiceText(service, field) : service \in ToSet(d.services)}
    ELSE {v.value : v \in ToSet(d.text[field].values)}

populatedTextFields(d) ==
    {f \in DeviceTexts : d.text[f].values # <<>>}
    \cup {f \in ServiceTexts : \E service \in ToSet(d.services) : ServiceText(service, f) # ""}

macPrefixMatch(number, prefix) == Prefix(number, prefix[2]) = Prefix(prefix[1], prefix[2])

matchPredicate(p, d) ==
    CASE p.op = "Protocol" -> d.protocols \cap p.want # {}
      [] p.op = "MACPrefix" -> \E m \in ToSet(d.observed) : macPrefixMatch(m, p.want)
      [] p.op = "IPPrefix" -> \E a \in ToSet(d.addresses) : macPrefixMatch(a, p.want)
      [] p.op = "CapabilityAll" -> p.want \subseteq d.capabilities
      [] p.op = "Regex" -> \E t \in textsOf(d, p.field) : t \in p.want
      [] p.op = "Exact" ->
           \E t \in textsOf(d, p.field) : IF p.fold THEN \E w \in p.want : Fold[t] = Fold[w] ELSE t \in p.want

allPredicates(ps, d) == \A p \in ToSet(ps) : matchPredicate(p, d)
anyPredicates(ps, d) == \E p \in ToSet(ps) : matchPredicate(p, d)

NoClass == [class |-> "", rule |-> ""]
matches(r, d, available) ==
    /\ r.required \subseteq available
    /\ allPredicates(r.all, d) /\ ~ anyPredicates(r.none, d)
    /\ r.any # <<>> => anyPredicates(r.any, d)
Classify(c, d) ==
    LET hits == {i \in c.protocolCandidates[d.protocols] :
                    matches(c.rules[i], d, populatedTextFields(d))}
    IN  IF hits = {} THEN NoClass
        ELSE [class |-> c.rules[Min(hits)].class, rule |-> c.rules[Min(hits)].name]
=============================================================================
