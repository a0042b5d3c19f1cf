------------------------------ MODULE DataPath ------------------------------
(***************************************************************************)
(* The data path, part by part: a frame is filtered and routed (Routing),  *)
(* a payload is decoded (Decoders), the vendor of a MAC address is looked  *)
(* up (VendorRegistry) and a message becomes attributes of a device        *)
(* (Attributes).  The parts are pipeline stages that hand over values and  *)
(* share no state, except that Attributes looks vendors up in the registry *)
(* tables; a behaviour runs one of them while the others are idle.         *)
(***************************************************************************)
EXTENDS Routing, Decoders, Attributes

CONSTANTS
    Registries,    \* registry files that genoui is run on
    KnownVendors   \* of these, the one Attributes looks vendors up in

VARIABLE stage     \* the part that runs
vars == <<stage, routingVars, decoderVars, registryVars, attributeVars>>

Start(s, protocols, p, tables, n) ==
    /\ stage = s
    /\ RoutingInit(protocols) /\ DecodersInit(p)
    /\ RegistryInit(tables) /\ AttributesInit(n)

Init ==
    \/ \E protocols \in SUBSET Protocols \ {{}} : Start("route", protocols, "LLDP", KnownVendors, 1)
    \/ \E p \in Protocols : Start("decode", {}, p, KnownVendors, 1)
    \/ \E tables \in Registries : Start("registry", {}, "LLDP", tables, 1)
    \/ \E n \in DOMAIN Networks : Start("attributes", {}, "LLDP", KnownVendors, n)

Next ==
    /\ UNCHANGED stage
    /\ \/ stage = "route" /\ RoutingNext /\ UNCHANGED <<decoderVars, registryVars, attributeVars>>
       \/ stage = "decode" /\ DecodersNext /\ UNCHANGED <<routingVars, registryVars, attributeVars>>
       \/ stage = "registry" /\ RegistryNext /\ UNCHANGED <<routingVars, decoderVars, attributeVars>>
       \/ stage = "attributes" /\ AttributesNext /\ UNCHANGED <<routingVars, decoderVars, registryVars>>

Spec == Init /\ [][Next]_vars

\* Attributes alone.
AttributesSpec == Init /\ stage = "attributes" /\ [][Next]_vars
=============================================================================
