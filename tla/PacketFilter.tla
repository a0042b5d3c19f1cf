---------------------------- MODULE PacketFilter ----------------------------
(***************************************************************************)
(* The program of a raw socket's packet filter (capture_common.go): the    *)
(* symbolic code of discoveryFilter, its jumps resolved to distances, and  *)
(* the classic BPF machine that runs it in the kernel.                     *)
(*                                                                         *)
(* A frame is its length and the bytes that matter; the others are 0.  A   *)
(* 32-bit word is the pair of its halves.                                  *)
(***************************************************************************)
EXTENDS Integers, Sequences, SequencesExt

EtherTypeIPv4 == 2048
EtherTypeVLAN == 33024
EtherTypeQinQ == 34984
EtherTypeIPv6 == 34525
EtherTypeLLDP == 35020
maxVLANTags == 3
MDNSPort == 5353
MNDPPort == 5678

Byte(f, i) == IF i \in DOMAIN f.byte THEN f.byte[i] ELSE 0
Half(f, i) == 256 * Byte(f, i) + Byte(f, i + 1)
K(half) == <<0, half>>

-----------------------------------------------------------------------------
(* The builder.  A label of a path is a name and a number.                 *)

mark(label) == <<[op |-> "label", k |-> label]>>
emit(op, offset) == <<[op |-> op, k |-> offset]>>
jump(op, k, true, false) == <<[op |-> op, k |-> k, jt |-> true, jf |-> false]>>

Label(name, n) == <<name, n>>
accept == Label("accept", 0)
reject == Label("reject", 0)

tagGuard(depth) ==
    FlattenSeq([tag \in 1..depth |->
        emit("LDH", 12 + (tag - 1) * 4)
        \o jump("JEQ", K(EtherTypeVLAN), Label("matched", tag), Label("checkQinQ", tag))
        \o mark(Label("checkQinQ", tag))
        \o jump("JEQ", K(EtherTypeQinQ), Label("matched", tag), reject)
        \o mark(Label("matched", tag))])

emitSelectedPortChecks(protocols, no, n) ==
    IF {"MDNS", "MNDP"} \subseteq protocols
    THEN jump("JEQ", K(MDNSPort), accept, Label("checkMNDP", n))
         \o mark(Label("checkMNDP", n))
         \o jump("JEQ", K(MNDPPort), accept, no)
    ELSE jump("JEQ", K(IF "MDNS" \in protocols THEN MDNSPort ELSE MNDPPort), accept, no)

emitUDPPortChecks(offset, protocols) ==
    emit("LDHIND", offset)
    \o emitSelectedPortChecks(protocols, Label("checkDestination", 0), 1)
    \o mark(Label("checkDestination", 0))
    \o emit("LDHIND", offset + 2)
    \o emitSelectedPortChecks(protocols, reject, 2)

ExtensionHeaders == <<0, 43, 44, 51, 60>>

\* The last jump never finds its 2^32 - 1.
emitIPv6ExtensionChecks ==
    FlattenSeq([i \in 1..Len(ExtensionHeaders) |->
        jump("JEQ", K(ExtensionHeaders[i]), accept, Label("next", i)) \o mark(Label("next", i))])
    \o jump("JEQ", <<65535, 65535>>, accept, reject)

pathLLDP(typeOffset) ==
    emit("LDH", typeOffset) \o jump("JEQ", K(EtherTypeLLDP), accept, reject)

pathCDP(typeOffset, payloadOffset) ==
    emit("LDH", typeOffset) \o jump("JGE", K(1536), reject, Label("lengthOK", 0))
    \o mark(Label("lengthOK", 0))
    \o emit("LDW", payloadOffset) \o jump("JEQ", <<43690, 768>>, Label("secondWord", 0), reject)
    \o mark(Label("secondWord", 0))
    \o emit("LDW", payloadOffset + 4) \o jump("JEQ", <<12, 8192>>, accept, reject)

\* Mutant: the header length is loaded before the frame is known to be IPv4, and
\* is still in X when the IPv6 path of the same frame runs.
pathIPv4LoadsXFirst(typeOffset, payloadOffset, protocols) ==
    emit("LDXMSH", payloadOffset)
    \o emit("LDH", typeOffset) \o jump("JEQ", K(EtherTypeIPv4), Label("ipProtocol", 0), reject)
    \o mark(Label("ipProtocol", 0))
    \o emit("LDB", payloadOffset + 9) \o jump("JEQ", K(17), Label("fragments", 0), reject)
    \o mark(Label("fragments", 0))
    \o emit("LDH", payloadOffset + 6) \o jump("JSET", K(16383), reject, Label("ports", 0))
    \o mark(Label("ports", 0))
    \o emitUDPPortChecks(payloadOffset, protocols)

\* Unfragmented IPv4 UDP, with the variable header length in X.
pathIPv4(typeOffset, payloadOffset, protocols) ==
    emit("LDH", typeOffset) \o jump("JEQ", K(EtherTypeIPv4), Label("ipProtocol", 0), reject)
    \o mark(Label("ipProtocol", 0))
    \o emit("LDB", payloadOffset + 9) \o jump("JEQ", K(17), Label("fragments", 0), reject)
    \o mark(Label("fragments", 0))
    \o emit("LDH", payloadOffset + 6) \o jump("JSET", K(16383), reject, Label("ports", 0))
    \o mark(Label("ports", 0))
    \o emit("LDXMSH", payloadOffset)
    \o emitUDPPortChecks(payloadOffset, protocols)

\* Direct IPv6 UDP, its ports loaded relative to an X nobody set; packets with
\* extension headers pass.
pathIPv6(typeOffset, payloadOffset, protocols) ==
    emit("LDH", typeOffset) \o jump("JEQ", K(EtherTypeIPv6), Label("checkNext", 0), reject)
    \o mark(Label("checkNext", 0))
    \o emit("LDB", payloadOffset + 6)
    \o jump("JEQ", K(17), Label("directUDP", 0), Label("extension", 0))
    \o mark(Label("extension", 0)) \o emitIPv6ExtensionChecks
    \o mark(Label("directUDP", 0)) \o emitUDPPortChecks(payloadOffset + 40, protocols)

emitProtocolPath(depth, kind, protocols, typeOffset, payloadOffset) ==
    tagGuard(depth)
    \o (CASE kind = "LLDP" -> pathLLDP(typeOffset)
          [] kind = "CDP"  -> pathCDP(typeOffset, payloadOffset)
          [] kind = "IPv4" -> pathIPv4(typeOffset, payloadOffset, protocols)
          [] kind = "IPv6" -> pathIPv6(typeOffset, payloadOffset, protocols))
    \o mark(accept) \o emit("RET", 1) \o mark(reject)

-----------------------------------------------------------------------------
(* resolve.  Every jump stays in its path, so that a path can be resolved  *)
(* by itself.                                                              *)

IsInsn(item) == item.op # "label"
Address(path, label) ==
    LET at == CHOOSE i \in DOMAIN path : path[i].op = "label" /\ path[i].k = label
    IN  Len(SelectSeq(SubSeq(path, 1, at - 1), IsInsn))
Resolved(path, ins) ==
    [i \in DOMAIN ins |->
        IF ins[i].op \notin {"JEQ", "JGE", "JSET"} THEN ins[i]
        ELSE [ins[i] EXCEPT !.jt = Address(path, @) - i, !.jf = Address(path, @) - i]]
resolve(path) == Resolved(path, SelectSeq(path, IsInsn))

Kinds(protocols) ==
    (IF "LLDP" \in protocols THEN <<"LLDP">> ELSE <<>>)
    \o (IF "CDP" \in protocols THEN <<"CDP">> ELSE <<>>)
    \o (IF {"MNDP", "MDNS"} \cap protocols # {} THEN <<"IPv4", "IPv6">> ELSE <<>>)

discoveryFilter(protocols) ==
    FlattenSeq([d \in 1..(maxVLANTags + 1) |->
        FlattenSeq([i \in DOMAIN Kinds(protocols) |->
            resolve(emitProtocolPath(d - 1, Kinds(protocols)[i], protocols,
                                     12 + (d - 1) * 4, 14 + (d - 1) * 4))])])
    \o emit("RET", 0)

\* resolve panics on a distance that is not a byte.
Resolvable(program) ==
    \A i \in DOMAIN program :
        program[i].op \in {"JEQ", "JGE", "JSET"} => {program[i].jt, program[i].jf} \subseteq 0..255

-----------------------------------------------------------------------------
(* The machine.  A and X start as 0; a load outside of the frame ends the  *)
(* program, which then rejects it.                                         *)

Width(op) == CASE op = "LDW" -> 4 [] op \in {"LDH", "LDHIND"} -> 2 [] OTHER -> 1
Loads(op, f, at) ==
    CASE op = "LDW" -> <<Half(f, at), Half(f, at + 2)>>
      [] op \in {"LDH", "LDHIND"} -> <<0, Half(f, at)>>
      [] op = "LDB" -> <<0, Byte(f, at)>>
\* JSET is only used with a mask of low bits.
Holds(op, A, k) ==
    CASE op = "JEQ" -> A = k
      [] op = "JGE" -> A[1] > k[1] \/ (A[1] = k[1] /\ A[2] >= k[2])
      [] op = "JSET" -> A[2] % (k[2] + 1) # 0

RECURSIVE Execute(_, _, _, _, _)
Jumps(program, f, pc, A, X, insn) ==
    Execute(program, f, pc + 1 + (IF Holds(insn.op, A, insn.k) THEN insn.jt ELSE insn.jf), A, X)
Reads(program, f, pc, A, X, insn, at) ==
    /\ at + Width(insn.op) <= f.len
    /\ IF insn.op = "LDXMSH" THEN Execute(program, f, pc + 1, A, 4 * (Byte(f, at) % 16))
       ELSE Execute(program, f, pc + 1, Loads(insn.op, f, at), X)
Execute(program, f, pc, A, X) ==
    CASE program[pc].op = "RET" -> program[pc].k # 0
      [] program[pc].op \in {"JEQ", "JGE", "JSET"} -> Jumps(program, f, pc, A, X, program[pc])
      [] program[pc].op = "LDHIND" -> Reads(program, f, pc, A, X, program[pc], program[pc].k + X)
      [] OTHER -> Reads(program, f, pc, A, X, program[pc], program[pc].k)
runFilter(program, f) == Execute(program, f, 1, <<0, 0>>, 0)
=============================================================================
