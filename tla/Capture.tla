------------------------------ MODULE Capture -------------------------------
(***************************************************************************)
(* The capture backends: which sockets openCaptureBackends opens on each   *)
(* system and what it does when one of them fails (capture_linux.go,       *)
(* capture_darwin.go, capture_windows.go, capture_other.go and             *)
(* capture_common.go), and the loop each backend runs until its context is *)
(* canceled.                                                               *)
(*                                                                         *)
(* The kernel is external: a system call may fail if it is in faults, and  *)
(* a TPACKET_V3 ring is a circle of blocks that the kernel fills, passes   *)
(* to the backend and gets back.                                           *)
(***************************************************************************)
EXTENDS Integers, Sequences, SequencesExt, FiniteSets, TLC

CONSTANTS
    Blocks,          \* blockCount, 4
    MaxFrames,       \* bound on the frames that reach a ring
    Busy,            \* the interfaces whose frames are followed
    Unfit            \* frames of these numbers are shorter or longer than a backend emits

\* setupTPacketV3 asks for a positive number of blocks.
ASSUME BlocksAssumption == Blocks \in Nat \ {0}

L2 == {"LLDP", "CDP"}
OverUDP == {"MNDP", "MDNS"}

VARIABLES
    os,              \* runtime.GOOS
    interfaces,      \* of the machine: [name |-> flags]
    faults,          \* the system calls that fail
    descriptors,     \* open descriptors
    mappings,        \* the backends whose ring is mapped
    backends,        \* what openCaptureBackends returned
    position,        \* where each backend is in its loop
    ring,            \* of each backend with a ring: blocks, and who is where
    stored,          \* the frames the kernel stored in each ring
    emitted          \* the frames each backend emitted from its ring
captureVars == <<os, interfaces, faults, descriptors, mappings, backends, position, ring, stored, emitted>>

-----------------------------------------------------------------------------
(* Opening.  The state of an opening is [out, open, mapped, err]: the      *)
(* backends so far, the descriptors it holds, the backends with a mapped   *)
(* ring, and whether it has failed.  An interface may be requested twice:  *)
(* each backend has a descriptor, and a ring, of its own.                  *)

Opening == [out |-> <<>>, open |-> {}, mapped |-> {}, err |-> FALSE]
Failing(s) == [s EXCEPT !.err = TRUE]

\* close of every backend opened so far: their descriptors, and nothing else.
closeAll(s) == [s EXCEPT !.open = @ \ {b.fd : b \in ToSet(s.out)}, !.out = <<>>]

captureInterfaces(requested, loopback) ==
    IF requested # <<>>
    THEN [ifaces |-> requested, err |-> \E i \in DOMAIN requested : requested[i] \notin DOMAIN interfaces]
    ELSE LET eligible == {i \in DOMAIN interfaces : {"up", "multicast"} \subseteq interfaces[i]
                                                    /\ (loopback \/ "loopback" \notin interfaces[i])}
         IN  [ifaces |-> SetToSeq(eligible), err |-> eligible = {}]

\* A socket is bound and gets the packet filter; if that fails it is closed.
openLinuxPacketSocket(i, try) ==
    IF {<<"socket", i, try>>, <<"bind", i, try>>} \cap faults = {} THEN {<<"packet", i, try>>} ELSE {}

\* A descriptor is named by its backend's place and what it was opened for.
Descriptor(s, socket) == <<Len(s.out) + 1, socket>>
Opened(s, kind, i, socket) ==
    [s EXCEPT !.open = @ \cup {Descriptor(s, socket)},
              !.out = Append(@, [kind |-> kind, iface |-> i, fd |-> Descriptor(s, socket)])]

\* With a ring if the kernel gives one, otherwise over a second socket.
newLinuxRawBackend(s, i) ==
    IF openLinuxPacketSocket(i, 1) = {} THEN Failing(s)
    ELSE IF <<"ring", i>> \notin faults
    THEN [Opened(s, "ring", i, <<"packet", i, 1>>) EXCEPT !.mapped = @ \cup {Len(s.out) + 1}]
    ELSE IF openLinuxPacketSocket(i, 2) = {} THEN Failing(s)
    ELSE Opened(s, "raw", i, <<"packet", i, 2>>)

\* The first device that is not busy is bound, set up and gets the filter.
newDarwinBPFBackend(s, i) ==
    IF {<<"socket", i, 1>>, <<"bind", i, 1>>} \cap faults # {} THEN Failing(s)
    ELSE Opened(s, "raw", i, <<"bpf", i, 1>>)

\* Mutant: the backends opened before one that fails stay open.
rawKeepsOpened(s) == [s EXCEPT !.out = <<>>]

rawFailed(s) == closeAll(s)

openRaw(s, i) ==
    IF s.err THEN s
    ELSE LET t == IF os = "linux" THEN newLinuxRawBackend(s, i) ELSE newDarwinBPFBackend(s, i)
         IN  IF t.err THEN rawFailed(t) ELSE t

listen(s, socket) == IF socket \in faults THEN s ELSE Opened(s, "udp", socket[3], socket)
listenMDNS(s, i) == listen(listen(s, <<"MDNS", "udp4", i>>), <<"MDNS", "udp6", i>>)
listenMNDP(s, i) == listen(s, <<"MNDP", "udp6", i>>)
AnyMNDP == <<"MNDP", "udp4", "any">>
IsOver(b, p) == b.kind = "udp" /\ b.fd[2][1] = p

\* Every socket that can be opened will do, as long as no protocol is without.
openUDPBackends(s, protocols, ifaces) ==
    LET mdns == IF "MDNS" \in protocols THEN FoldLeft(listenMDNS, s, ifaces) ELSE s
        both == IF "MNDP" \in protocols THEN FoldLeft(listenMNDP, listen(mdns, AnyMNDP), ifaces) ELSE mdns
    IN  IF \E p \in protocols \cap OverUDP : \A b \in ToSet(both.out) : ~ IsOver(b, p)
        THEN Failing(closeAll(both)) ELSE both

openLinux(protocols, ifaces) ==
    IF protocols \cap L2 = {} THEN openUDPBackends(Opening, protocols, ifaces)
    ELSE FoldLeft(openRaw, Opening, ifaces)

openDarwin(protocols, ifaces) ==
    IF protocols \cap L2 = {} THEN openUDPBackends(Opening, protocols, ifaces)
    ELSE LET raw == FoldLeft(openRaw, Opening, ifaces)
         IN  IF raw.err \/ protocols \cap OverUDP = {} THEN raw
             ELSE openUDPBackends(raw, protocols, ifaces)

openOther(protocols, ifaces) ==
    IF protocols \cap L2 # {} THEN Failing(Opening)
    ELSE openUDPBackends(Opening, protocols, ifaces)

openCaptureBackends(protocols, found) ==
    IF found.err THEN Failing(Opening)
    ELSE CASE os = "linux" -> openLinux(protocols, found.ifaces)
           [] os = "darwin" -> openDarwin(protocols, found.ifaces)
           [] os \in {"windows", "other"} -> openOther(protocols, found.ifaces)

-----------------------------------------------------------------------------
(* The backends' loops.                                                    *)

Running(b) == position[b] \notin {"idle", "returned"}
Kind(b) == backends[b].kind
Closed(b) == backends[b].fd \notin descriptors

Moves(b, where) == position' = [position EXCEPT ![b] = where]
CaptureElse == UNCHANGED <<os, interfaces, faults, descriptors, mappings, backends, ring, stored, emitted>>

\* A poll ends at the latest after half a second, and the context is looked at.
Poll(b, canceled) ==
    /\ position[b] = "poll"
    /\ Moves(b, IF canceled THEN "returned" ELSE IF Kind(b) = "ring" THEN "look" ELSE "receive")
    /\ mappings' = IF canceled /\ Kind(b) = "ring" THEN mappings \ {b} ELSE mappings
    /\ UNCHANGED <<os, interfaces, faults, descriptors, backends, ring, stored, emitted>>

\* recvfrom and BPF's read: a frame, none, or EBADF.
Receive(b) ==
    /\ position[b] = "receive"
    /\ Moves(b, IF Closed(b) THEN "returned" ELSE "poll")
    /\ CaptureElse

\* A read of a UDP socket ends with a datagram, which is emitted, at its deadline
\* of a second, or because the socket is closed.
ReadUDP(b, canceled) ==
    /\ position[b] = "read"
    /\ canceled \/ Closed(b)
    /\ Moves(b, "returned")
    /\ CaptureElse

\* Any of these calls may fail in another way; run returns the error.
CallFails(b) ==
    /\ position[b] \in {"poll", "receive", "read"} /\ <<"call", backends[b].iface>> \in faults
    /\ Moves(b, "failed")
    /\ mappings' = IF Kind(b) = "ring" THEN mappings \ {b} ELSE mappings
    /\ UNCHANGED <<os, interfaces, faults, descriptors, backends, ring, stored, emitted>>

\* runRing: a block that is not ours yet is waited for.
RingSet(b, r) == ring' = [ring EXCEPT ![b] = r]
RingElse == UNCHANGED <<os, interfaces, faults, descriptors, mappings, backends>>

Look(b) ==
    /\ position[b] = "look"
    /\ LET r == ring[b]
       IN  IF r.blocks[r.mine].user
           THEN Moves(b, "emit") /\ RingSet(b, [r EXCEPT !.num = Len(r.blocks[r.mine].frames), !.next = 1])
           ELSE Moves(b, "poll") /\ UNCHANGED ring
    /\ RingElse /\ UNCHANGED <<stored, emitted>>

EmitFrame(b) ==
    /\ position[b] = "emit"
    /\ LET r == ring[b]
       IN  /\ r.next <= r.num
           /\ RingSet(b, [r EXCEPT !.next = @ + 1])
           /\ emitted' = IF r.blocks[r.mine].frames[r.next] \in Unfit THEN emitted
                         ELSE [emitted EXCEPT ![b] = Append(@, r.blocks[r.mine].frames[r.next])]
    /\ RingElse /\ UNCHANGED <<position, stored>>

\* Mutant: the block is passed back while its last frame is still to be read.
EmittedAllEarly(r) == r.next >= r.num

EmittedAll(r) == r.next > r.num

NextBlock(r) == (r.mine % Blocks) + 1

PassBack(b) ==
    /\ position[b] = "emit"
    /\ LET r == ring[b]
       IN  /\ EmittedAll(r)
           /\ RingSet(b, [r EXCEPT !.blocks[r.mine].user = FALSE, !.mine = NextBlock(r)])
    /\ Moves(b, "look")
    /\ RingElse /\ UNCHANGED <<stored, emitted>>

BackendStep(b, canceled) ==
    \/ Poll(b, canceled) \/ Receive(b) \/ ReadUDP(b, canceled)
    \/ Look(b) \/ EmitFrame(b) \/ PassBack(b)

-----------------------------------------------------------------------------
(* The kernel's side of a ring (external).  A frame goes to the block that *)
(* is being filled; without one to fill it is lost.                        *)

NewRing ==
    [blocks |-> [k \in 1..Blocks |-> [user |-> FALSE, frames |-> <<>>]],
     theirs |-> 1, filling |-> FALSE, mine |-> 1, num |-> 0, next |-> 1, arrived |-> 0]

FrameArrives(b) ==
    /\ b \in mappings /\ backends[b].iface \in Busy
    /\ LET r == ring[b]
           n == r.arrived + 1
           lost == r.blocks[r.theirs].user
       IN  /\ n <= MaxFrames
           /\ ring' = [ring EXCEPT ![b] =
                  IF lost THEN [r EXCEPT !.arrived = n]
                  ELSE [r EXCEPT !.arrived = n, !.filling = TRUE,
                            !.blocks[r.theirs].frames = IF r.filling THEN Append(@, n) ELSE <<n>>]]
           /\ stored' = IF lost THEN stored ELSE [stored EXCEPT ![b] = Append(@, n)]
    /\ RingElse /\ UNCHANGED <<position, emitted>>

\* A block is full, or its time is over.
Retire(b) ==
    /\ b \in mappings
    /\ ring[b].filling
    /\ RingSet(b, [ring[b] EXCEPT !.filling = FALSE, !.blocks[ring[b].theirs].user = TRUE,
                                  !.theirs = (@ % Blocks) + 1])
    /\ RingElse /\ UNCHANGED <<position, stored, emitted>>

-----------------------------------------------------------------------------
\* The frames that come out of a ring are those the kernel put into it, each once
\* and in order, however the kernel's writing and runRing's reading interleave
\* and however often both go round: a block is never written while it is read.
\* (Frames are numbered in the order in which they arrive.)
RingIntact ==
    \A b \in DOMAIN stored :
        /\ \A m, n \in DOMAIN emitted[b] : m < n => emitted[b][m] < emitted[b][n]
        /\ ToSet(emitted[b]) \subseteq ToSet(stored[b]) \ Unfit
        /\ \A n \in ToSet(stored[b]) \ Unfit :
              n \in ToSet(emitted[b]) \/ \A m \in ToSet(emitted[b]) : m < n
=============================================================================
