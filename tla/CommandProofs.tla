--------------------------- MODULE CommandProofs ----------------------------
(***************************************************************************)
(* What the command promises, proved: everything Engine.Run opens is       *)
(* released (CaptureReleased), and no ring loses, repeats or reorders a    *)
(* frame (RingIntact).                                                     *)
(***************************************************************************)
EXTENDS Command, FiniteSetTheorems, FunctionTheorems, SequenceTheorems, TLAPS

-----------------------------------------------------------------------------
(* Opening the backends.                                                   *)

Kinds == {"ring", "raw", "udp"}

\* The state of an opening: the descriptors that are open are those of the
\* backends, each with its own, and after a failure there are none.
Sound(s) ==
    /\ DOMAIN s = {"out", "open", "mapped", "err"}
    /\ s.out \in Seq(ToSet(s.out)) /\ s.err \in BOOLEAN
    /\ \A k \in 1..Len(s.out) : s.out[k].kind \in Kinds
    /\ s.open = {b.fd : b \in ToSet(s.out)}
    /\ ~ s.err => s.mapped = {k \in 1..Len(s.out) : s.out[k].kind = "ring"}
    /\ s.err => s.out = <<>>

\* An opening without backends is sound if nothing is open.
LEMMA NothingSound ==
    ASSUME NEW s, DOMAIN s = {"out", "open", "mapped", "err"}, s.out = <<>>, s.open = {},
           s.err \in BOOLEAN, ~ s.err => s.mapped = {}
    PROVE  Sound(s)
  <1>1. ToSet(<<>>) = {} /\ <<>> \in Seq({}) /\ Len(<<>>) = 0
    BY DEF ToSet
  <1>2. {b.fd : b \in ToSet(s.out)} = {}
    BY <1>1
  <1>3. s.out \in Seq(ToSet(s.out))
    BY <1>1
  <1>4. Len(s.out) = 0
    BY <1>1
  <1>5. {k \in 1..Len(s.out) : s.out[k].kind = "ring"} = {}
    BY <1>4
  <1>6. \A k \in 1..Len(s.out) : FALSE
    BY <1>4
  <1> QED
    BY <1>2, <1>3, <1>5, <1>6 DEF Sound

\* Nothing is open at the start.
LEMMA OpeningSound == Sound(Opening) /\ ~ Opening.err
  <1>1. Opening.out = <<>> /\ Opening.open = {} /\ Opening.mapped = {} /\ Opening.err = FALSE
    BY DEF Opening
  <1>2. DOMAIN Opening = {"out", "open", "mapped", "err"}
    BY DEF Opening
  <1> QED
    BY <1>1, <1>2, NothingSound

\* One backend more.
Grown(s, t, b) ==
    /\ DOMAIN t = DOMAIN s
    /\ t.out = Append(s.out, b) /\ t.open = s.open \cup {b.fd} /\ t.err = s.err
    /\ b.kind = "ring" => t.mapped = s.mapped \cup {Len(s.out) + 1}
    /\ b.kind # "ring" => t.mapped = s.mapped

\* It has a descriptor and, if that is its kind, a ring.
LEMMA GrownSound ==
    ASSUME NEW s, Sound(s), ~ s.err, NEW b, b.kind \in Kinds, NEW t, Grown(s, t, b)
    PROVE  Sound(t) /\ ~ t.err
  <1>1. PICK q, V, n : q = s.out /\ V = ToSet(q) /\ n = Len(q)
    OBVIOUS
  <1>2. q \in Seq(V) /\ n \in Nat /\ DOMAIN q = 1..n
    BY <1>1 DEF Sound
  <1>3. Append(q, b) \in Seq(V \cup {b}) /\ Len(Append(q, b)) = n + 1
    <2>1. q \in Seq(V \cup {b})
      BY <1>2
    <2> QED
      BY <1>1, <2>1
  <1>4. \A k \in 1..n : Append(q, b)[k] = q[k]
    BY <1>1, <1>2
  <1>5. Append(q, b)[n + 1] = b
    BY <1>1, <1>2
  <1>6. DOMAIN Append(q, b) = 1..(n + 1)
    BY <1>2, <1>3
  <1>7. ToSet(t.out) = V \cup {b}
    <2>1. t.out = Append(q, b)
      BY <1>1 DEF Grown
    <2>2. ToSet(q) = {q[k] : k \in 1..n}
      BY <1>2 DEF ToSet
    <2>3. ToSet(Append(q, b)) = {Append(q, b)[k] : k \in 1..(n + 1)}
      BY <1>6 DEF ToSet
    <2>4. \A x \in ToSet(Append(q, b)) : x \in V \cup {b}
      BY <1>1, <1>2, <1>4, <1>5, <2>2, <2>3
    <2>5. \A x \in V \cup {b} : x \in ToSet(Append(q, b))
      BY <1>1, <1>2, <1>4, <1>5, <2>2, <2>3
    <2> QED
      BY <2>1, <2>4, <2>5
  <1>8. t.out \in Seq(ToSet(t.out)) /\ t.err \in BOOLEAN /\ ~ t.err /\ Len(t.out) = n + 1
    BY <1>1, <1>3, <1>7 DEF Grown, Sound
  <1>9. \A k \in 1..(n + 1) : t.out[k].kind \in Kinds
    BY <1>1, <1>2, <1>4, <1>5 DEF Grown, Sound
  <1>10. t.open = {x.fd : x \in ToSet(t.out)}
    BY <1>1, <1>7 DEF Grown, Sound
  <1>11. t.mapped = {k \in 1..(n + 1) : t.out[k].kind = "ring"}
    <2>1. s.mapped = {k \in 1..n : q[k].kind = "ring"}
      BY <1>1 DEF Sound
    <2>2. \A k \in 1..n : t.out[k] = q[k]
      BY <1>1, <1>4 DEF Grown
    <2>3. t.out[n + 1] = b
      BY <1>1, <1>5 DEF Grown
    <2> QED
      BY <1>1, <1>2, <2>1, <2>2, <2>3 DEF Grown
  <1> QED
    BY <1>8, <1>9, <1>10, <1>11 DEF Grown, Sound

\* Opened adds one backend.
LEMMA OpenedSound ==
    ASSUME NEW s, Sound(s), ~ s.err, NEW kind \in {"raw", "udp"}, NEW i, NEW socket
    PROVE  Sound(Opened(s, kind, i, socket)) /\ ~ Opened(s, kind, i, socket).err
  <1>1. PICK b, t : /\ b = [kind |-> kind, iface |-> i, fd |-> Descriptor(s, socket)]
                    /\ t = Opened(s, kind, i, socket)
    OBVIOUS
  <1>2. b.kind = kind /\ b.fd = Descriptor(s, socket)
    BY <1>1
  <1>3. DOMAIN t = DOMAIN s
    BY <1>1 DEF Opened
  <1>4. t.out = Append(s.out, b)
    BY <1>1 DEF Opened, Sound
  <1>5. t.open = s.open \cup {b.fd}
    BY <1>1 DEF Opened, Sound
  <1>6. t.err = s.err /\ t.mapped = s.mapped
    BY <1>1 DEF Opened, Sound
  <1>7. Grown(s, t, b)
    BY <1>2, <1>3, <1>4, <1>5, <1>6 DEF Grown
  <1> QED
    BY <1>1, <1>2, <1>7, GrownSound DEF Kinds

\* Closing what was opened and failing leaves nothing open.
LEMMA FailedSound ==
    ASSUME NEW s, Sound(s), NEW t, t = closeAll(s), NEW u, u = Failing(t)
    PROVE  Sound(u)
  <1>1. DOMAIN u = DOMAIN s
    BY DEF closeAll, Failing
  <1>2. t.out = <<>> /\ t.open = s.open \ {b.fd : b \in ToSet(s.out)}
    BY DEF closeAll, Sound
  <1>3. u.out = t.out /\ u.open = t.open /\ u.err = TRUE
    BY DEF Failing, closeAll, Sound
  <1>4. u.open = {}
    BY <1>2, <1>3 DEF Sound
  <1>5. DOMAIN u = {"out", "open", "mapped", "err"}
    BY <1>1 DEF Sound
  <1> QED
    BY <1>2, <1>3, <1>4, <1>5, NothingSound

\* The same when the failure is noticed first.
LEMMA RawFailedSound ==
    ASSUME NEW s, Sound(s), ~ s.err, NEW t, t = rawFailed(Failing(s))
    PROVE  Sound(t)
  <1>1. PICK u : u = Failing(s)
    OBVIOUS
  <1>2. u.out = s.out /\ u.open = s.open /\ u.err = TRUE /\ DOMAIN u = DOMAIN s
    BY <1>1 DEF Failing, Sound
  <1>3. t = closeAll(u)
    BY <1>1 DEF rawFailed
  <1>4. DOMAIN t = DOMAIN s
    BY <1>2, <1>3 DEF closeAll
  <1>5. t.out = <<>> /\ t.open = u.open \ {b.fd : b \in ToSet(u.out)} /\ t.err = TRUE
    BY <1>2, <1>3 DEF closeAll, Sound
  <1>6. t.open = {}
    BY <1>2, <1>5 DEF Sound
  <1>7. DOMAIN t = {"out", "open", "mapped", "err"}
    BY <1>4 DEF Sound
  <1> QED
    BY <1>5, <1>6, <1>7, NothingSound

\* Opening a backend of Linux is opening one descriptor, or failing.
LEMMA LinuxRaw ==
    ASSUME NEW s, Sound(s), ~ s.err, NEW i, NEW t, t = newLinuxRawBackend(s, i)
    PROVE  t = Failing(s) \/ (Sound(t) /\ ~ t.err)
  <1>1. CASE t = Opened(s, "raw", i, <<"packet", i, 2>>)
    BY <1>1, OpenedSound
  <1>2. CASE t = [Opened(s, "ring", i, <<"packet", i, 1>>) EXCEPT !.mapped = @ \cup {Len(s.out) + 1}]
    <2>1. PICK k, b, u : /\ k = <<"packet", i, 1>>
                         /\ b = [kind |-> "ring", iface |-> i, fd |-> Descriptor(s, k)]
                         /\ u = Opened(s, "ring", i, k)
      OBVIOUS
    <2>2. b.kind = "ring" /\ b.fd = Descriptor(s, k)
      BY <2>1
    <2>3. DOMAIN u = DOMAIN s
      BY <2>1 DEF Opened
    <2>4. u.out = Append(s.out, b)
      BY <2>1 DEF Opened, Sound
    <2>5. u.open = s.open \cup {b.fd}
      BY <2>1 DEF Opened, Sound
    <2>6. u.err = s.err /\ u.mapped = s.mapped
      BY <2>1 DEF Opened, Sound
    <2>7. t = [u EXCEPT !.mapped = @ \cup {Len(s.out) + 1}]
      BY <1>2, <2>1
    <2>8. DOMAIN t = DOMAIN u /\ t.out = u.out /\ t.open = u.open /\ t.err = u.err
      BY <2>3, <2>7 DEF Sound
    <2>9. t.mapped = s.mapped \cup {Len(s.out) + 1}
      BY <2>3, <2>6, <2>7 DEF Sound
    <2>10. Grown(s, t, b)
      BY <2>2, <2>3, <2>4, <2>5, <2>6, <2>8, <2>9 DEF Grown
    <2> QED
      BY <2>2, <2>10, GrownSound DEF Kinds
  <1> QED
    BY <1>1, <1>2, Zenon DEF newLinuxRawBackend

\* So is opening one of macOS.
LEMMA DarwinRaw ==
    ASSUME NEW s, Sound(s), ~ s.err, NEW i, NEW t, t = newDarwinBPFBackend(s, i)
    PROVE  t = Failing(s) \/ (Sound(t) /\ ~ t.err)
  <1>1. CASE t = Opened(s, "raw", i, <<"bpf", i, 1>>)
    BY <1>1, OpenedSound
  <1> QED
    BY <1>1, Zenon DEF newDarwinBPFBackend

\* A turn of the loop over the interfaces.
LEMMA OpenRawSound ==
    ASSUME NEW s, Sound(s), NEW i, NEW t, t = openRaw(s, i)
    PROVE  Sound(t)
  <1>1. CASE s.err
    BY <1>1 DEF openRaw
  <1>2. CASE ~ s.err
    <2>1. PICK u : /\ u = newLinuxRawBackend(s, i) \/ u = newDarwinBPFBackend(s, i)
                   /\ t = IF u.err THEN rawFailed(u) ELSE u
      BY <1>2, Zenon DEF openRaw
    <2>2. u = Failing(s) \/ (Sound(u) /\ ~ u.err)
      BY <1>2, <2>1, LinuxRaw, DarwinRaw
    <2>3. CASE u = Failing(s)
      <3>1. u.err
        BY <2>3 DEF Failing, Sound
      <3>2. t = rawFailed(Failing(s))
        BY <2>1, <2>3, <3>1
      <3> QED
        BY <1>2, <3>2, RawFailedSound
    <2>4. CASE Sound(u) /\ ~ u.err
      BY <2>1, <2>4
    <2> QED
      BY <2>2, <2>3, <2>4
  <1> QED
    BY <1>1, <1>2

\* The loop over the interfaces.
RWTurn(c, t, i) == openRaw(t, i)
RWGood(c, n, t) == Sound(t)
RW == INSTANCE Loops WITH Turn <- RWTurn, Good <- RWGood

\* However far it comes.
LEMMA RawSound ==
    ASSUME NEW V, NEW q \in Seq(V), NEW t, t = FoldLeft(openRaw, Opening, q)
    PROVE  Sound(t)
  <1>1. PICK c : c = 0
    OBVIOUS
  <1>2. t = RW!Loop(c, Opening, q)
    BY DEF RW!Loop, RWTurn, FoldLeft, MapThenFoldSet, Max, RW!Greatest
  <1>3. RWGood(c, 0, Opening)
    BY OpeningSound DEF RWGood
  <1>4. ASSUME NEW n \in 1..Len(q), NEW u, RWGood(c, n - 1, u) PROVE RWGood(c, n, RWTurn(c, u, q[n]))
    BY <1>4, OpenRawSound DEF RWGood, RWTurn
  <1>5. RWGood(c, Len(q), RW!Loop(c, Opening, q))
    BY <1>3, <1>4, RW!LoopKeeps
  <1> QED
    BY <1>2, <1>5 DEF RWGood

\* A UDP socket that cannot be opened is left out.
LEMMA ListenSound ==
    ASSUME NEW s, Sound(s), ~ s.err, NEW socket, NEW t, t = listen(s, socket)
    PROVE  Sound(t) /\ ~ t.err
  <1>1. t = s \/ t = Opened(s, "udp", socket[3], socket)
    BY DEF listen
  <1> QED
    BY <1>1, OpenedSound

\* The loops over the interfaces for mDNS and MNDP.
MDTurn(c, t, i) == listenMDNS(t, i)
MDGood(c, n, t) == Sound(t) /\ ~ t.err
MD == INSTANCE Loops WITH Turn <- MDTurn, Good <- MDGood
MNTurn(c, t, i) == listenMNDP(t, i)
MN == INSTANCE Loops WITH Turn <- MNTurn, Good <- MDGood

\* The mDNS sockets.
LEMMA MDNSSound ==
    ASSUME NEW V, NEW q \in Seq(V), NEW s, Sound(s), ~ s.err, NEW t, t = FoldLeft(listenMDNS, s, q)
    PROVE  Sound(t) /\ ~ t.err
  <1>1. PICK c : c = 0
    OBVIOUS
  <1>2. t = MD!Loop(c, s, q)
    BY DEF MD!Loop, MDTurn, FoldLeft, MapThenFoldSet, Max, MD!Greatest
  <1>3. MDGood(c, 0, s)
    BY DEF MDGood
  <1>4. ASSUME NEW n \in 1..Len(q), NEW u, MDGood(c, n - 1, u) PROVE MDGood(c, n, MDTurn(c, u, q[n]))
    <2>1. PICK i, v : i = q[n] /\ v = listen(u, <<"MDNS", "udp4", i>>)
      OBVIOUS
    <2>2. Sound(v) /\ ~ v.err
      BY <1>4, <2>1, ListenSound DEF MDGood
    <2>3. MDTurn(c, u, i) = listen(v, <<"MDNS", "udp6", i>>)
      BY <2>1 DEF MDTurn, listenMDNS
    <2> QED
      BY <2>1, <2>2, <2>3, ListenSound DEF MDGood
  <1>5. MDGood(c, Len(q), MD!Loop(c, s, q))
    BY <1>3, <1>4, MD!LoopKeeps
  <1> QED
    BY <1>2, <1>5 DEF MDGood

\* The MNDP sockets.
LEMMA MNDPSound ==
    ASSUME NEW V, NEW q \in Seq(V), NEW s, Sound(s), ~ s.err, NEW t, t = FoldLeft(listenMNDP, s, q)
    PROVE  Sound(t) /\ ~ t.err
  <1>1. PICK c : c = 0
    OBVIOUS
  <1>2. t = MN!Loop(c, s, q)
    BY DEF MN!Loop, MNTurn, FoldLeft, MapThenFoldSet, Max, MN!Greatest
  <1>3. MDGood(c, 0, s)
    BY DEF MDGood
  <1>4. ASSUME NEW n \in 1..Len(q), NEW u, MDGood(c, n - 1, u) PROVE MDGood(c, n, MNTurn(c, u, q[n]))
    <2>1. PICK k : k = <<"MNDP", "udp6", q[n]>>
      OBVIOUS
    <2>2. MNTurn(c, u, q[n]) = listen(u, k)
      BY <2>1 DEF MNTurn, listenMNDP
    <2> QED
      BY <1>4, <2>2, ListenSound DEF MDGood
  <1>5. MDGood(c, Len(q), MN!Loop(c, s, q))
    BY <1>3, <1>4, MN!LoopKeeps
  <1> QED
    BY <1>2, <1>5 DEF MDGood

\* Sockets that do not suffice are closed, and so is what was open before.
LEMMA UDPSound ==
    ASSUME NEW V, NEW q \in Seq(V), NEW s, Sound(s), ~ s.err, NEW p, NEW t, t = openUDPBackends(s, p, q)
    PROVE  Sound(t)
  <1>1. PICK m : m = IF "MDNS" \in p THEN FoldLeft(listenMDNS, s, q) ELSE s
    OBVIOUS
  <1>2. PICK l : l = listen(m, AnyMNDP)
    OBVIOUS
  <1>3. PICK b : b = IF "MNDP" \in p THEN FoldLeft(listenMNDP, l, q) ELSE m
    OBVIOUS
  <1>4. t = b \/ t = Failing(closeAll(b))
    BY <1>1, <1>2, <1>3, Zenon DEF openUDPBackends
  <1>5. Sound(m) /\ ~ m.err
    BY <1>1, MDNSSound
  <1>6. Sound(l) /\ ~ l.err
    BY <1>2, <1>5, ListenSound
  <1>7. Sound(b)
    BY <1>3, <1>5, <1>6, MNDPSound
  <1> QED
    BY <1>4, <1>7, FailedSound

\* Whatever fails, on whatever system.
LEMMA OpenSound ==
    ASSUME os \in {"linux", "darwin", "windows", "other"}, NEW p, NEW found,
           ~ found.err => \E V : found.ifaces \in Seq(V), NEW t, t = openCaptureBackends(p, found)
    PROVE  Sound(t)
  <1>1. Sound(Failing(Opening))
    <2>1. PICK u : u = Failing(Opening)
      OBVIOUS
    <2>2. DOMAIN u = {"out", "open", "mapped", "err"} /\ u.out = <<>> /\ u.open = {} /\ u.err = TRUE
      BY <2>1 DEF Failing, Opening
    <2> QED
      BY <2>1, <2>2, NothingSound
  <1>2. CASE found.err
    BY <1>1, <1>2 DEF openCaptureBackends
  <1>3. CASE ~ found.err
    <2>1. PICK V, q : q = found.ifaces /\ q \in Seq(V)
      BY <1>3
    <2>2. t = openLinux(p, q) \/ t = openDarwin(p, q) \/ t = openOther(p, q)
      BY <1>3, <2>1 DEF openCaptureBackends
    <2>3. PICK r, u : r = FoldLeft(openRaw, Opening, q) /\ u = openUDPBackends(Opening, p, q)
      OBVIOUS
    <2>4. Sound(r) /\ Sound(u)
      BY <2>1, <2>3, RawSound, UDPSound, OpeningSound
    <2>5. t = r \/ t = u \/ t = Failing(Opening) \/ (~ r.err /\ t = openUDPBackends(r, p, q))
      BY <2>2, <2>3, Zenon DEF openLinux, openDarwin, openOther
    <2> QED
      BY <1>1, <2>1, <2>4, <2>5, UDPSound
  <1> QED
    BY <1>2, <1>3

\* The interfaces are a list: the one asked for, or one of those the machine has.
LEMMA InterfacesListed ==
    ASSUME IsFiniteSet(DOMAIN interfaces), NEW requested \in Seq(STRING), NEW loopback
    PROVE  \E V : captureInterfaces(requested, loopback).ifaces \in Seq(V)
  <1>1. CASE requested # <<>>
    BY <1>1 DEF captureInterfaces
  <1>2. CASE requested = <<>>
    <2> DEFINE S == {i \in DOMAIN interfaces : {"up", "multicast"} \subseteq interfaces[i]
                                               /\ (loopback \/ "loopback" \notin interfaces[i])}
    <2>1. captureInterfaces(requested, loopback).ifaces = SetToSeq(S)
      BY <1>2 DEF captureInterfaces
    <2>2. IsFiniteSet(S)
      BY FS_Subset
    <2> HIDE DEF S
    <2>3. PICK n : n = Cardinality(S)
      OBVIOUS
    <2>4. n \in Nat /\ ExistsBijection(1..n, S)
      BY <2>2, <2>3, FS_CardinalityType
    <2>5. PICK f \in [1..n -> S] : \A a, b \in DOMAIN f : f[a] = f[b] => a = b
      BY <2>4 DEF ExistsBijection, Bijection, Injection, IsInjective
    <2>6. IsInjective(f)
      BY <2>5 DEF IsInjective
    <2>7. SetToSeq(S) \in [1..n -> S]
      BY <2>3, <2>5, <2>6 DEF SetToSeq
    <2>8. SetToSeq(S) \in Seq(S)
      BY <2>4, <2>7
    <2> QED
      BY <2>1, <2>8
  <1> QED
    BY <1>1, <1>2

-----------------------------------------------------------------------------
(* The invariant of a run.                                                 *)

\* Where a backend can be in its loop, and where its ring is mapped.
PositionsOf(kind) ==
    CASE kind = "ring" -> {"look", "emit", "poll", "failed", "returned"}
      [] kind = "raw" -> {"poll", "receive", "failed", "returned"}
      [] kind = "udp" -> {"read", "failed", "returned"}
Mapped == {"look", "emit", "poll"}

\* What the command starts with stays.
MachineInv ==
    /\ os \in {"linux", "darwin", "windows", "other"}
    /\ IsFiniteSet(DOMAIN interfaces)
    /\ args.interfaces \in Seq(STRING)

\* A ring is mapped while its backend is in its loop.
BackendInv ==
    /\ DOMAIN position = DOMAIN backends
    /\ \A b \in DOMAIN backends : Kind(b) \in Kinds /\ position[b] \in PositionsOf(Kind(b))
    /\ result # "open failed" =>
          mappings = {b \in DOMAIN backends : Kind(b) = "ring" /\ position[b] \in Mapped}

\* The descriptors of the backends are open until they are closed, and Run
\* returns the error of a backend just if one failed in time.
RunInv ==
    /\ run \in {"idle", "entered", "running", "closed", "returned"}
    /\ run \in {"idle", "entered"} => backends = <<>> /\ descriptors = {} /\ errCh = <<>>
    /\ run = "running" => descriptors = {b.fd : b \in ToSet(backends)}
    /\ run \in {"closed", "returned"} => descriptors = {}
    /\ run = "returned" => \A b \in DOMAIN backends : position[b] = "returned"
    /\ errCh \in Seq({"backend failed"})
    /\ parent \in {"nil", "canceled", "deadline"}
    /\ run # "returned" => result = "none"
    /\ run = "returned" =>
          /\ result \in {"nil", "canceled", "deadline", "open failed", "backend failed"}
          /\ result = "backend failed" <=> errCh # <<>>

\* The command has ended or not begun when Run is idle, and its exit code is
\* made of what Run returned.
MainInv ==
    /\ main \in {"start", "run", "dashboard"} => run = "idle"
    /\ main \in {"first", "select", "quit", "wait"} => run # "idle"
    /\ main \in {"start", "run", "dashboard", "first", "select", "quit", "wait", "done"}
    /\ main \in {"start", "run", "dashboard", "done"} => ~ tui
    /\ main = "done" => run \in {"idle", "returned"}
    /\ exit >= 0 <=> main = "done"
    /\ exit \in Int
    /\ main = "done" /\ run = "returned" =>
          exit = IF normalizedRunError(result) = "nil" THEN 0 ELSE 1

CommandInv == MachineInv /\ BackendInv /\ RunInv /\ MainInv

\* The invariant says what CaptureReleased does.
LEMMA InvariantReleases == CommandInv => CaptureReleased
  <1> SUFFICES ASSUME CommandInv PROVE CaptureReleased
    OBVIOUS
  <1>1. run = "returned" => descriptors = {}
    BY DEF CommandInv, RunInv
  <1>2. run = "returned" /\ result # "open failed" => mappings = {}
    BY DEF CommandInv, RunInv, BackendInv, Mapped
  <1>3. exit >= 0 => ~ tui
    BY DEF CommandInv, MainInv
  <1>4. exit >= 0 /\ run = "returned" => (exit = 1 <=> errCh # <<>> \/ result = "open failed")
    <2> SUFFICES ASSUME exit >= 0, run = "returned"
                 PROVE  exit = 1 <=> errCh # <<>> \/ result = "open failed"
      OBVIOUS
    <2>1. exit = IF normalizedRunError(result) = "nil" THEN 0 ELSE 1
      BY DEF CommandInv, MainInv
    <2>2. /\ result \in {"nil", "canceled", "deadline", "open failed", "backend failed"}
          /\ result = "backend failed" <=> errCh # <<>>
      BY DEF CommandInv, RunInv
    <2>3. normalizedRunError(result) = "nil" <=> result \in {"nil", "canceled", "deadline"}
      BY DEF normalizedRunError
    <2>4. exit = 1 <=> result \notin {"nil", "canceled", "deadline"}
      <3>1. CASE normalizedRunError(result) = "nil"
        <4>1. exit = 0
          BY <2>1, <3>1
        <4> QED
          BY <2>3, <3>1, <4>1
      <3>2. CASE normalizedRunError(result) # "nil"
        <4>1. exit = 1
          BY <2>1, <3>2
        <4> QED
          BY <2>3, <3>2, <4>1
      <3> QED
        BY <3>1, <3>2
    <2> QED
      BY <2>2, <2>4
  <1> QED
    BY <1>1, <1>2, <1>3, <1>4 DEF CaptureReleased

\* It holds when the command starts, without a backend and with no error.
LEMMA InitCommand == Init => CommandInv
  <1> SUFFICES ASSUME Init PROVE CommandInv
    OBVIOUS
  <1>1. MachineInv
    <2>1. PICK s \in Scenarios : os = s.os /\ interfaces = s.interfaces /\ args = s.args
      BY DEF Init
    <2> QED
      BY <2>1, ScenariosAssumption DEF MachineInv
  <1>2. BackendInv
    <2>1. backends = <<>> /\ position = <<>> /\ mappings = {}
      BY DEF Init
    <2>2. DOMAIN <<>> = {}
      OBVIOUS
    <2> QED
      BY <2>1, <2>2 DEF BackendInv
  <1>3. RunInv
    BY DEF Init, RunInv
  <1>4. MainInv
    BY DEF Init, MainInv
  <1> QED
    BY <1>1, <1>2, <1>3, <1>4 DEF CommandInv

\* What the parts depend on.
machineVars == <<os, interfaces, args>>
backendVars == <<mappings, backends, position, result>>
runVars == <<descriptors, backends, position, parent, run, errCh, result>>
mainVars == <<main, tui, run, result, exit>>

\* A part stays when that does.
LEMMA MachineStays == MachineInv /\ UNCHANGED machineVars => MachineInv'
  BY DEF MachineInv, machineVars
LEMMA BackendsStay == BackendInv /\ UNCHANGED backendVars => BackendInv'
  BY DEF BackendInv, backendVars, Kind
LEMMA RunStays == RunInv /\ UNCHANGED runVars => RunInv'
  BY DEF RunInv, runVars
LEMMA MainStays == MainInv /\ UNCHANGED mainVars => MainInv'
  BY DEF MainInv, mainVars, normalizedRunError

\* The steps of main.go and of the dashboard leave the capture alone. They end
\* the command only when Run has returned, or has not been entered.
LEMMA MainSteps ==
    ASSUME CommandInv, Start \/ RunPlain \/ InitDashboard \/ FirstRefresh \/ Tick \/ TakeKey
                       \/ ParentDone \/ Leave
    PROVE  CommandInv'
  <1>1. UNCHANGED <<os, interfaces, args, mappings, backends, position, result, descriptors, parent, errCh>>
    BY DEF Start, RunPlain, InitDashboard, FirstRefresh, Tick, TakeKey, ParentDone, Leave,
           DashboardElse, captureVars
  <1>2. MachineInv' /\ BackendInv'
    BY <1>1, MachineStays, BackendsStay DEF CommandInv, machineVars, backendVars
  <1>3. RunInv' /\ MainInv'
    <2>1. CASE run' = run
      <3>1. RunInv'
        BY <1>1, <2>1, RunStays DEF CommandInv, runVars
      <3>2. CASE Start
        <4>1. main = "start" /\ tui' = tui /\ run = "idle" /\ ~ tui
          BY <3>2 DEF Start, CommandInv, MainInv
        <4>2. (main' = "done" /\ exit' \in {0, 1, 2}) \/ (main' \in {"run", "dashboard"} /\ exit' = exit)
          BY <3>2 DEF Start
        <4> QED
          BY <1>1, <2>1, <3>1, <4>1, <4>2 DEF CommandInv, MainInv
      <3>3. CASE RunPlain \/ InitDashboard
        BY <1>1, <2>1, <3>1, <3>3 DEF RunPlain, InitDashboard, CommandInv, MainInv
      <3>4. CASE FirstRefresh
        BY <1>1, <2>1, <3>1, <3>4 DEF FirstRefresh, DashboardElse, CommandInv, MainInv
      <3>5. CASE Tick
        BY <1>1, <2>1, <3>1, <3>5 DEF Tick, DashboardElse, CommandInv, MainInv
      <3>6. CASE TakeKey \/ ParentDone
        BY <1>1, <2>1, <3>1, <3>6 DEF TakeKey, ParentDone, DashboardElse, CommandInv, MainInv
      <3>7. CASE Leave
        <4>1. main' = "done" /\ ~ tui' /\ run = "returned"
          BY <3>7 DEF Leave
        <4>2. exit' = IF normalizedRunError(result) = "nil" THEN 0 ELSE 1
          BY <3>7 DEF Leave
        <4>3. exit' \in {0, 1}
          BY <4>2
        <4>4. exit' = IF normalizedRunError(result') = "nil" THEN 0 ELSE 1
          BY <1>1, <4>2
        <4>5. MainInv'
          BY <2>1, <4>1, <4>3, <4>4 DEF MainInv, normalizedRunError
        <4> QED
          BY <3>1, <4>5
      <3> QED
        BY <3>1, <3>2, <3>3, <3>4, <3>5, <3>6, <3>7
    <2>2. CASE run' # run
      <3>1. run = "idle" /\ run' = "entered" /\ exit' = exit /\ main \in {"run", "dashboard"} /\ main' \in {"wait", "first"}
        BY <2>2 DEF Start, RunPlain, InitDashboard, FirstRefresh, Tick, TakeKey, ParentDone, Leave,
                    DashboardElse, CommandInv, MainInv
      <3>2. RunInv'
        BY <1>1, <3>1 DEF CommandInv, RunInv
      <3>3. MainInv'
        BY <1>1, <3>1 DEF CommandInv, MainInv
      <3> QED
        BY <3>2, <3>3
    <2> QED
      BY <2>1, <2>2
  <1> QED
    BY <1>2, <1>3 DEF CommandInv

\* The user, the clock and the network touch nothing the invariant is about
\* but the command's context.
LEMMA WorldSteps ==
    ASSUME CommandInv, (\E key \in Keys \cup {"q"} : Press(key)) \/ Interrupt \/ World \/ Network
    PROVE  CommandInv'
  <1>1. UNCHANGED <<os, interfaces, args, mappings, backends, position, result, descriptors, run, errCh,
                    main, tui, exit>>
    BY DEF Press, Interrupt, World, Network, FrameArrives, Retire, RingElse, captureVars, commandVars
  <1>2. parent' \in {"nil", "canceled", "deadline"}
    BY DEF CommandInv, RunInv, Press, Interrupt, World, Network, commandVars
  <1>3. MachineInv' /\ BackendInv' /\ MainInv'
    BY <1>1, MachineStays, BackendsStay, MainStays DEF CommandInv, machineVars, backendVars, mainVars
  <1>4. RunInv'
    BY <1>1, <1>2 DEF CommandInv, RunInv
  <1> QED
    BY <1>3, <1>4 DEF CommandInv

\* A backend goes on in its loop, or leaves it and unmaps its ring.
Goes(b, w) ==
    /\ position' = [position EXCEPT ![b] = w]
    /\ w \in PositionsOf(Kind(b))
    /\ Kind(b) = "ring" /\ w \in Mapped => position[b] \in Mapped /\ mappings' = mappings
    /\ Kind(b) = "ring" /\ w \notin Mapped => mappings' = mappings \ {b}
    /\ Kind(b) # "ring" => mappings' = mappings

\* That keeps the invariant of the backends.
LEMMA GoesKeeps ==
    ASSUME BackendInv, NEW b \in DOMAIN backends, NEW w, Goes(b, w), UNCHANGED <<backends, result>>
    PROVE  BackendInv'
  <1>1. DOMAIN position' = DOMAIN backends' /\ DOMAIN position = DOMAIN backends
    BY DEF BackendInv, Goes
  <1>2. position'[b] = w /\ \A x \in DOMAIN backends \ {b} : position'[x] = position[x]
    BY <1>1 DEF Goes
  <1>3. \A x \in DOMAIN backends : Kind(x)' = Kind(x)
    BY DEF Kind
  <1>4. \A x \in DOMAIN backends : Kind(x)' \in Kinds /\ position'[x] \in PositionsOf(Kind(x)')
    BY <1>2, <1>3 DEF BackendInv, Goes
  <1>5. ASSUME result' # "open failed"
        PROVE  mappings' = {x \in DOMAIN backends' : Kind(x)' = "ring" /\ position'[x] \in Mapped}
    <2>1. mappings = {x \in DOMAIN backends : Kind(x) = "ring" /\ position[x] \in Mapped}
      BY <1>5 DEF BackendInv
    <2>2. PICK M, N : M = mappings /\ N = mappings'
      OBVIOUS
    <2>3. \A x \in DOMAIN backends : x # b => (x \in N <=> x \in M)
      BY <2>2 DEF Goes
    <2>4. b \in N <=> Kind(b) = "ring" /\ w \in Mapped
      BY <2>1, <2>2 DEF Goes
    <2>5. N \subseteq M
      BY <2>2 DEF Goes, BackendInv
    <2>6. \A x \in N : x \in DOMAIN backends
      BY <2>1, <2>2, <2>5
    <2>7. \A x \in DOMAIN backends : x \in N <=> Kind(x) = "ring" /\ position'[x] \in Mapped
      BY <1>2, <2>1, <2>2, <2>3, <2>4
    <2>8. N = {x \in DOMAIN backends : Kind(x) = "ring" /\ position'[x] \in Mapped}
      BY <2>6, <2>7
    <2> QED
      BY <1>3, <2>2, <2>8
  <1> QED
    BY <1>1, <1>4, <1>5 DEF BackendInv

\* The kinds by where the backends are.
LEMMA KindOfPosition ==
    ASSUME BackendInv, NEW b \in DOMAIN backends
    PROVE  /\ Kind(b) \in Kinds
           /\ position[b] \in {"look", "emit"} => Kind(b) = "ring"
           /\ position[b] = "poll" => Kind(b) \in {"ring", "raw"}
           /\ position[b] = "receive" => Kind(b) = "raw"
           /\ position[b] = "read" => Kind(b) = "udp"
           /\ \A w \in {"failed", "returned"} : w \in PositionsOf(Kind(b))
           /\ Kind(b) = "ring" => PositionsOf(Kind(b)) = {"look", "emit", "poll", "failed", "returned"}
           /\ Kind(b) = "raw" => PositionsOf(Kind(b)) = {"poll", "receive", "failed", "returned"}
  <1>1. Kind(b) \in Kinds /\ position[b] \in PositionsOf(Kind(b))
    BY DEF BackendInv
  <1>2. CASE Kind(b) = "ring"
    BY <1>1, <1>2 DEF PositionsOf
  <1>3. CASE Kind(b) = "raw"
    BY <1>1, <1>3 DEF PositionsOf
  <1>4. CASE Kind(b) = "udp"
    BY <1>1, <1>4 DEF PositionsOf
  <1> QED
    BY <1>1, <1>2, <1>3, <1>4 DEF Kinds

\* Every step of a backend is such a move, or moves nothing.
LEMMA BackendMoves ==
    ASSUME BackendInv, result # "open failed", NEW b \in DOMAIN backends,
           BackendStep(b, canceled) \/ CallFails(b) \/ (position[b] = "failed" /\ Moves(b, "returned") /\ CaptureElse)
    PROVE  /\ UNCHANGED <<os, interfaces, faults, descriptors, backends>>
           /\ (\E w : Goes(b, w)) \/ UNCHANGED <<position, mappings>>
  <1>1. UNCHANGED <<os, interfaces, faults, descriptors, backends>>
    BY DEF BackendStep, Poll, Receive, ReadUDP, Look, EmitFrame, PassBack, CallFails, CaptureElse, RingElse
  <1>2. CASE Poll(b, canceled)
    <2>1. PICK w : w = IF canceled THEN "returned" ELSE IF Kind(b) = "ring" THEN "look" ELSE "receive"
      OBVIOUS
    <2>2. /\ position[b] = "poll" /\ position' = [position EXCEPT ![b] = w]
          /\ mappings' = IF canceled /\ Kind(b) = "ring" THEN mappings \ {b} ELSE mappings
      BY <1>2, <2>1 DEF Poll, Moves
    <2>3. Goes(b, w)
      BY <2>1, <2>2, KindOfPosition DEF Goes, Mapped, Kinds
    <2> QED
      BY <1>1, <2>3
  <1>3. CASE Receive(b) \/ ReadUDP(b, canceled)
    <2>1. PICK w : position' = [position EXCEPT ![b] = w] /\ w \in {"returned", "poll"} /\ mappings' = mappings
                   /\ position[b] \in {"receive", "read"} /\ (position[b] = "read" => w = "returned")
      BY <1>3 DEF Receive, ReadUDP, Moves, CaptureElse
    <2>2. Goes(b, w)
      BY <2>1, KindOfPosition DEF Goes, Mapped, Kinds
    <2> QED
      BY <1>1, <2>2
  <1>4. CASE Look(b) \/ PassBack(b)
    <2>1. PICK w : position' = [position EXCEPT ![b] = w] /\ w \in {"look", "emit", "poll"} /\ mappings' = mappings
                   /\ position[b] \in {"look", "emit"}
      BY <1>4 DEF Look, PassBack, Moves, RingElse
    <2>2. Goes(b, w)
      BY <2>1, KindOfPosition DEF Goes, Mapped, Kinds
    <2> QED
      BY <1>1, <2>2
  <1>5. CASE EmitFrame(b)
    BY <1>1, <1>5 DEF EmitFrame, RingElse
  <1>6. CASE CallFails(b)
    <2>1. /\ position' = [position EXCEPT ![b] = "failed"]
          /\ mappings' = IF Kind(b) = "ring" THEN mappings \ {b} ELSE mappings
      BY <1>6 DEF CallFails, Moves
    <2>2. Goes(b, "failed")
      BY <2>1, KindOfPosition DEF Goes, Mapped, Kinds
    <2> QED
      BY <1>1, <2>2
  <1>7. CASE position[b] = "failed" /\ Moves(b, "returned") /\ CaptureElse
    <2>1. CASE Kind(b) # "ring"
      <3>1. Goes(b, "returned")
        BY <1>7, <2>1, KindOfPosition DEF Goes, Mapped, Kinds, Moves, CaptureElse
      <3> QED
        BY <1>1, <3>1
    <2>2. CASE Kind(b) = "ring"
      <3>1. mappings' = mappings \ {b}
        BY <1>7 DEF BackendInv, Mapped, CaptureElse
      <3>2. Goes(b, "returned")
        BY <1>7, <2>2, <3>1, KindOfPosition DEF Goes, Mapped, Moves
      <3> QED
        BY <1>1, <3>2
    <2> QED
      BY <2>1, <2>2
  <1> QED
    BY <1>2, <1>3, <1>4, <1>5, <1>6, <1>7 DEF BackendStep

\* Run opens the backends: all of them or none.
LEMMA RunEnterKeeps == ASSUME CommandInv, RunEnter PROVE CommandInv'
  <1>1. PICK s : s = openCaptureBackends(protocols, captureInterfaces(args.interfaces, args.loopback)) /\ Enter(s)
    BY DEF RunEnter
  <1>2. run = "entered" /\ UNCHANGED <<dashboardVars, args, keys, main, protocols, tui, events, parent, exit, errCh>>
    BY DEF RunEnter, RunElse
  <1>3. /\ backends = <<>> /\ descriptors = {} /\ errCh = <<>> /\ result = "none"
        /\ main \in {"first", "select", "quit", "wait"}
    BY <1>2 DEF CommandInv, RunInv, MainInv
  <1>4. UNCHANGED <<os, interfaces>>
    BY <1>1 DEF Enter, captureVars
  <1>5. MachineInv'
    BY <1>2, <1>4, MachineStays DEF CommandInv, machineVars
  <1>6. MainInv'
    BY <1>1, <1>2, <1>3 DEF CommandInv, MainInv, Enter
  <1>7. CASE parent # "nil" \/ canceled
    <2>1. run' = "returned" /\ UNCHANGED captureVars /\ result' \in {"canceled", "deadline"}
      BY <1>1, <1>7 DEF Enter, CommandInv, RunInv
    <2>2. DOMAIN backends = {}
      BY <1>3
    <2>3. RunInv'
      BY <1>2, <1>3, <2>1, <2>2 DEF CommandInv, RunInv, captureVars
    <2>4. BackendInv'
      BY <1>2, <1>3, <2>1, <2>2 DEF CommandInv, BackendInv, captureVars
    <2> QED
      BY <1>5, <1>6, <2>3, <2>4 DEF CommandInv
  <1>8. CASE ~ (parent # "nil" \/ canceled)
    <2>1. Sound(s)
      <3>1. PICK found : found = captureInterfaces(args.interfaces, args.loopback)
        OBVIOUS
      <3>2. \E V : found.ifaces \in Seq(V)
        BY <3>1, InterfacesListed DEF CommandInv, MachineInv
      <3> QED
        BY <1>1, <3>1, <3>2, OpenSound DEF CommandInv, MachineInv
    <2>2. CASE s.err
      <3>1. /\ run' = "returned" /\ result' = "open failed" /\ descriptors' = s.open
            /\ UNCHANGED <<backends, position>>
        BY <1>1, <1>8, <2>2 DEF Enter
      <3>2. ToSet(<<>>) = {}
        BY DEF ToSet
      <3>3. s.open = {}
        BY <2>1, <2>2, <3>2 DEF Sound
      <3>4. DOMAIN backends = {}
        BY <1>3
      <3>5. RunInv'
        BY <1>2, <1>3, <3>1, <3>3, <3>4 DEF CommandInv, RunInv
      <3>6. BackendInv'
        BY <1>3, <3>1, <3>4 DEF CommandInv, BackendInv
      <3> QED
        BY <1>5, <1>6, <3>5, <3>6 DEF CommandInv
    <2>3. CASE ~ s.err
      <3>1. /\ run' = "running" /\ descriptors' = s.open /\ mappings' = s.mapped /\ backends' = s.out
            /\ position' = [b \in DOMAIN s.out |->
                 CASE s.out[b].kind = "ring" -> "look" [] s.out[b].kind = "raw" -> "poll" [] OTHER -> "read"]
            /\ result' = result
        BY <1>1, <1>8, <2>3 DEF Enter
      <3>2. RunInv'
        BY <1>2, <1>3, <2>1, <3>1 DEF CommandInv, RunInv, Sound
      <3>3. DOMAIN s.out = 1..Len(s.out)
        BY <2>1 DEF Sound
      <3>4. ASSUME NEW b \in DOMAIN s.out
            PROVE  /\ s.out[b].kind \in Kinds /\ Kind(b)' = s.out[b].kind
                   /\ position'[b] \in PositionsOf(s.out[b].kind)
                   /\ s.out[b].kind = "ring" => position'[b] \in Mapped
        <4>1. s.out[b].kind \in Kinds /\ Kind(b)' = s.out[b].kind
          BY <2>1, <3>1, <3>3 DEF Sound, Kind
        <4>2. position'[b] = CASE s.out[b].kind = "ring" -> "look" [] s.out[b].kind = "raw" -> "poll"
                               [] OTHER -> "read"
          BY <3>1
        <4>3. CASE s.out[b].kind = "ring"
          BY <4>1, <4>2, <4>3 DEF PositionsOf, Mapped
        <4>4. CASE s.out[b].kind = "raw"
          BY <4>1, <4>2, <4>4 DEF PositionsOf, Mapped
        <4>5. CASE s.out[b].kind = "udp"
          BY <4>1, <4>2, <4>5 DEF PositionsOf, Mapped
        <4> QED
          BY <4>1, <4>3, <4>4, <4>5 DEF Kinds
      <3>5. mappings' = {b \in DOMAIN backends' : Kind(b)' = "ring" /\ position'[b] \in Mapped}
        <4>1. mappings' = {b \in DOMAIN s.out : s.out[b].kind = "ring"}
          BY <2>1, <2>3, <3>1, <3>3 DEF Sound
        <4>2. \A b \in DOMAIN s.out : s.out[b].kind = "ring" <=> Kind(b)' = "ring" /\ position'[b] \in Mapped
          BY <3>4
        <4>3. DOMAIN backends' = DOMAIN s.out
          BY <3>1
        <4> QED
          BY <4>1, <4>2, <4>3
      <3>6. DOMAIN position' = DOMAIN backends'
        BY <3>1
      <3>7. \A b \in DOMAIN backends' : Kind(b)' \in Kinds /\ position'[b] \in PositionsOf(Kind(b)')
        BY <3>1, <3>4
      <3>8. BackendInv'
        BY <3>5, <3>6, <3>7 DEF BackendInv
      <3> QED
        BY <1>5, <1>6, <3>2, <3>8 DEF CommandInv
    <2> QED
      BY <2>2, <2>3
  <1> QED
    BY <1>7, <1>8

\* A backend's steps, its failure and the report of it.
LEMMA BackendKeeps ==
    ASSUME CommandInv, NEW b \in DOMAIN backends, Backend(b) \/ Fail(b) \/ Report(b)
    PROVE  CommandInv'
  <1>1. /\ run \in {"running", "closed"}
        /\ BackendStep(b, canceled) \/ CallFails(b) \/ (position[b] = "failed" /\ Moves(b, "returned") /\ CaptureElse)
    BY DEF Backend, Fail, Report
  <1>2. UNCHANGED <<run, result, args, main, tui, parent, exit>>
    BY DEF Backend, Fail, Report, RunElse
  <1>3. result = "none"
    BY <1>1 DEF CommandInv, RunInv
  <1>4. /\ UNCHANGED <<os, interfaces, faults, descriptors, backends>>
        /\ (\E w : Goes(b, w)) \/ UNCHANGED <<position, mappings>>
    BY <1>1, <1>3, BackendMoves DEF CommandInv
  <1>5. BackendInv'
    BY <1>2, <1>4, GoesKeeps, BackendsStay DEF CommandInv, backendVars
  <1>6. MachineInv' /\ MainInv'
    BY <1>2, <1>4, MachineStays, MainStays DEF CommandInv, machineVars, mainVars
  <1>7. errCh' \in Seq({"backend failed"})
    <2>1. errCh' = errCh \/ errCh' = Append(errCh, "backend failed")
      BY DEF Backend, Fail, Report
    <2>2. PICK q, V, x : q = errCh /\ V = {"backend failed"} /\ x = "backend failed"
      OBVIOUS
    <2>3. q \in Seq(V) /\ x \in V
      BY <2>2 DEF CommandInv, RunInv
    <2>4. Append(q, x) \in Seq(V)
      BY <2>3
    <2> QED
      BY <2>1, <2>2, <2>3, <2>4
  <1>8. RunInv'
    BY <1>1, <1>2, <1>4, <1>7 DEF CommandInv, RunInv
  <1> QED
    BY <1>5, <1>6, <1>8 DEF CommandInv

\* The end of a run.
LEMMA EndKeeps ==
    ASSUME CommandInv, Propagate \/ CloseBackends \/ RunReturn
    PROVE  CommandInv'
  <1>1. UNCHANGED <<os, interfaces, args, mappings, backends, position, main, tui, parent, exit, errCh>>
    BY DEF Propagate, CloseBackends, RunReturn, RunElse, captureVars
  <1>2. MachineInv'
    BY <1>1, MachineStays DEF CommandInv, machineVars
  <1>3. CASE Propagate
    <2>1. UNCHANGED <<run, result, descriptors>>
      BY <1>3 DEF Propagate, captureVars
    <2> QED
      BY <1>1, <1>2, <2>1, BackendsStay, RunStays, MainStays DEF CommandInv, backendVars, runVars, mainVars
  <1>4. CASE CloseBackends
    <2>1. run = "running" /\ run' = "closed" /\ result' = result /\ descriptors' = {}
      BY <1>4 DEF CloseBackends, CommandInv, RunInv
    <2>2. BackendInv'
      BY <1>1, <2>1, BackendsStay DEF CommandInv, backendVars
    <2>3. RunInv' /\ MainInv'
      BY <1>1, <2>1 DEF CommandInv, RunInv, MainInv
    <2> QED
      BY <1>2, <2>2, <2>3 DEF CommandInv
  <1>5. CASE RunReturn
    <2>1. /\ run = "closed" /\ run' = "returned" /\ \A b \in DOMAIN backends : position[b] = "returned"
          /\ result' = IF errCh # <<>> THEN Head(errCh) ELSE IF parent # "nil" THEN parent
                       ELSE IF tui THEN "canceled" ELSE "nil"
          /\ descriptors' = descriptors
      BY <1>5 DEF RunReturn, captureVars
    <2>2. errCh # <<>> => Head(errCh) = "backend failed"
      <3>1. PICK q, V : q = errCh /\ V = {"backend failed"}
        OBVIOUS
      <3>2. q \in Seq(V)
        BY <3>1 DEF CommandInv, RunInv
      <3>3. q # <<>> => Head(q) \in V
        BY <3>2
      <3> QED
        BY <3>1, <3>3
    <2>3. errCh # <<>> => result' = "backend failed"
      BY <2>1, <2>2
    <2>4. errCh = <<>> => result' \in {"canceled", "deadline", "nil"}
      BY <2>1 DEF CommandInv, RunInv
    <2>5. result' # "open failed" /\ result = "none"
      BY <2>1, <2>3, <2>4 DEF CommandInv, RunInv
    <2>6. BackendInv'
      BY <1>1, <2>5 DEF CommandInv, BackendInv, Kind
    <2>7. RunInv'
      BY <1>1, <2>1, <2>3, <2>4 DEF CommandInv, RunInv
    <2>8. MainInv'
      BY <1>1, <2>1 DEF CommandInv, MainInv
    <2> QED
      BY <1>2, <2>6, <2>7, <2>8 DEF CommandInv
  <1> QED
    BY <1>3, <1>4, <1>5

\* Every step of the command keeps the invariant.
LEMMA StepKeepsCommand == CommandInv /\ [Next]_vars => CommandInv'
  <1> SUFFICES ASSUME CommandInv, [Next]_vars PROVE CommandInv'
    OBVIOUS
  <1>1. CASE UNCHANGED vars
    BY <1>1, MachineStays, BackendsStay, RunStays, MainStays
       DEF vars, captureVars, commandVars, CommandInv, machineVars, backendVars, runVars, mainVars
  <1>2. CASE Start \/ RunPlain \/ InitDashboard \/ FirstRefresh \/ Tick \/ TakeKey \/ ParentDone \/ Leave
    BY <1>2, MainSteps
  <1>3. CASE (\E key \in Keys \cup {"q"} : Press(key)) \/ Interrupt \/ World \/ Network
    BY <1>3, WorldSteps
  <1>4. CASE RunEnter
    BY <1>4, RunEnterKeeps
  <1>5. CASE \E b \in DOMAIN backends : Backend(b) \/ Fail(b) \/ Report(b)
    BY <1>5, BackendKeeps
  <1>6. CASE Propagate \/ CloseBackends \/ RunReturn
    BY <1>6, EndKeeps
  <1> QED
    BY <1>1, <1>2, <1>3, <1>4, <1>5, <1>6 DEF Next, Program

\* Whatever the machine is like, whichever system calls fail and however the
\* backends, the user and the network interleave, Run releases what it opened
\* and the exit code says whether it failed.
THEOREM NothingStaysOpen == Spec => []CaptureReleased
  <1>1. Init => CommandInv
    BY InitCommand
  <1>2. CommandInv /\ [Next]_vars => CommandInv'
    BY StepKeepsCommand
  <1>3. CommandInv => CaptureReleased
    BY InvariantReleases
  <1> QED
    BY <1>1, <1>2, <1>3, PTL DEF Spec

-----------------------------------------------------------------------------
(* The invariant of a ring.                                                *)

\* How far block k is ahead of the one runRing reads or looks at next.
Ahead(r, k) == IF k >= r.mine THEN k - r.mine ELSE k - r.mine + Blocks

\* The kernel has no block to fill.
Full(r) == r.blocks[r.theirs].user

\* Frame j of block k is stored and still to be read; e says that runRing is
\* reading its block.
Held(r, k) == r.blocks[k].user \/ (k = r.theirs /\ r.filling)
First(r, e, k) == IF e /\ k = r.mine THEN r.next ELSE 1
Frames(r, k) == r.blocks[k].frames
Waits(r, e, k, j) == Held(r, k) /\ j \in DOMAIN Frames(r, k) /\ j >= First(r, e, k)

RingShape(r) ==
    /\ DOMAIN r = {"blocks", "theirs", "filling", "mine", "num", "next", "arrived"}
    /\ r.theirs \in 1..Blocks /\ r.mine \in 1..Blocks /\ r.filling \in BOOLEAN
    /\ r.num \in Nat /\ r.next \in Nat /\ r.arrived \in Nat
    /\ DOMAIN r.blocks = 1..Blocks
    /\ \A k \in 1..Blocks : /\ DOMAIN r.blocks[k] = {"user", "frames"}
                            /\ r.blocks[k].user \in BOOLEAN /\ Frames(r, k) \in Seq(Nat)

\* The blocks passed to the backend are those from its own to the one the
\* kernel fills: none when the two are one, unless they are all.
Circle(r) ==
    /\ \A k \in 1..Blocks : r.blocks[k].user <=> (Full(r) \/ Ahead(r, k) < Ahead(r, r.theirs))
    /\ Full(r) => r.theirs = r.mine
    /\ r.filling => ~ Full(r)

\* runRing reads the frames of a block it owns.
Reading(r, e) ==
    e => /\ r.blocks[r.mine].user
         /\ r.num = Len(Frames(r, r.mine))
         /\ r.next \in 1..(r.num + 1)

\* The frames to be read were stored in the order in which they are read.
Ordered(r, e) ==
    /\ \A k, l \in 1..Blocks, i, j \in Nat :
          Waits(r, e, k, i) /\ Waits(r, e, l, j) /\ (Ahead(r, k) < Ahead(r, l) \/ (k = l /\ i < j))
             => Frames(r, k)[i] < Frames(r, l)[j]
    /\ \A k \in 1..Blocks, i \in Nat : Waits(r, e, k, i) => Frames(r, k)[i] <= r.arrived

\* What was emitted came before what is to be read, and the two are what was
\* stored.
Accounted(r, e, st, em) ==
    /\ st \in Seq(Nat) /\ em \in Seq(Nat)
    /\ \A m, n \in DOMAIN em : m < n => em[m] < em[n]
    /\ \A m \in DOMAIN em : em[m] \notin Unfit /\ em[m] <= r.arrived /\ em[m] \in ToSet(st)
    /\ \A m \in DOMAIN em, k \in 1..Blocks, i \in Nat : Waits(r, e, k, i) => em[m] < Frames(r, k)[i]
    /\ \A n \in ToSet(st) \ Unfit :
          n \in ToSet(em) \/ \E k \in 1..Blocks, i \in Nat : Waits(r, e, k, i) /\ Frames(r, k)[i] = n
    /\ \A k \in 1..Blocks, i \in Nat : Waits(r, e, k, i) => Frames(r, k)[i] \in ToSet(st)

Intact(r, e, st, em) ==
    RingShape(r) /\ Circle(r) /\ Reading(r, e) /\ Ordered(r, e) /\ Accounted(r, e, st, em)

\* Euclid's division, with names for the quotient and the remainder.
LEMMA Division ==
    ASSUME NEW d \in Int, d >= 0, NEW S \in Int, S > 0,
           NEW q \in Int, q = d \div S, NEW r \in Int, r = d % S
    PROVE  d = S * q + r /\ 0 <= r /\ r < S
  <1>1. d = S * q + r
    BY SMTT(30)
  <1>2. 0 <= r /\ r < S
    BY SMTT(30)
  <1> QED
    BY <1>1, <1>2

\* A place of the circle after another.
LEMMA Around ==
    ASSUME NEW B \in Int, B > 0, NEW k \in Int, 1 <= k, k <= B
    PROVE  (k = B => k % B = 0) /\ (k # B => k % B = k)
  <1>1. PICK q, r : q = k \div B /\ r = k % B
    OBVIOUS
  <1>2. q \in Int /\ r \in Int
    BY <1>1
  <1>3. k = B * q + r /\ 0 <= r /\ r < B
    <2>1. k >= 0
      OBVIOUS
    <2> QED
      BY <1>1, <1>2, <2>1, Division
  <1>4. q >= 0
    <2>1. q <= -1 => B * q <= -B
      BY <1>2, SMTT(30)
    <2>2. B * q \in Int
      BY <1>2
    <2> QED
      BY <1>2, <1>3, <2>1, <2>2
  <1>5. q >= 2 => B * q >= 2 * B
    BY <1>2, SMTT(30)
  <1>6. q = 0 \/ q = 1
    <2>1. B * q \in Int
      BY <1>2
    <2> QED
      BY <1>2, <1>3, <1>4, <1>5, <2>1
  <1>7. CASE q = 0
    <2>1. B * q = 0
      BY <1>7
    <2> QED
      BY <1>1, <1>2, <1>3, <2>1
  <1>8. CASE q = 1
    <2>1. B * q = B
      BY <1>8
    <2> QED
      BY <1>1, <1>2, <1>3, <2>1
  <1> QED
    BY <1>6, <1>7, <1>8

\* The next place of the circle.
LEMMA NextPlace ==
    ASSUME NEW k \in 1..Blocks
    PROVE  (k = Blocks => (k % Blocks) + 1 = 1) /\ (k # Blocks => (k % Blocks) + 1 = k + 1)
  <1>1. Blocks \in Int /\ Blocks > 0 /\ k \in Int /\ 1 <= k /\ k <= Blocks
    BY BlocksAssumption
  <1>2. PICK m : m = k % Blocks
    OBVIOUS
  <1>3. (k = Blocks => m = 0) /\ (k # Blocks => m = k)
    BY <1>1, <1>2, Around
  <1> QED
    BY <1>1, <1>2, <1>3

\* Frames that wait in one state wait in the other, in the same order.
SameWaiting(r, e, t, f) ==
    /\ \A k \in 1..Blocks : Frames(t, k) = Frames(r, k)
    /\ \A k \in 1..Blocks, i \in Nat : Waits(t, f, k, i) <=> Waits(r, e, k, i)
    /\ \A k, l \in 1..Blocks, i, j \in Nat :
          Waits(r, e, k, i) /\ Waits(r, e, l, j) /\ Ahead(t, k) < Ahead(t, l) => Ahead(r, k) < Ahead(r, l)
    /\ t.arrived \in Nat /\ r.arrived <= t.arrived

\* Then the history of the ring is right in both.
LEMMA SameWaitingKeeps ==
    ASSUME NEW r, RingShape(r), NEW e, NEW t, NEW f, SameWaiting(r, e, t, f),
           NEW st, NEW em, Ordered(r, e), Accounted(r, e, st, em)
    PROVE  Ordered(t, f) /\ Accounted(t, f, st, em)
  <1>1. r.arrived \in Nat /\ t.arrived \in Nat /\ r.arrived <= t.arrived
    BY DEF RingShape, SameWaiting
  <1>2. \A k \in 1..Blocks, i \in Nat : Waits(r, e, k, i) => Frames(r, k)[i] \in Nat
    <2> SUFFICES ASSUME NEW k \in 1..Blocks, NEW i \in Nat, Waits(r, e, k, i) PROVE Frames(r, k)[i] \in Nat
      OBVIOUS
    <2>1. PICK q : q = Frames(r, k)
      OBVIOUS
    <2>2. q \in Seq(Nat) /\ i \in DOMAIN q
      BY <2>1 DEF RingShape, Waits
    <2>3. q[i] \in Nat
      BY <2>2
    <2> QED
      BY <2>1, <2>3
  <1>3. ASSUME NEW k \in 1..Blocks, NEW l \in 1..Blocks, NEW i \in Nat, NEW j \in Nat,
               Waits(t, f, k, i), Waits(t, f, l, j), Ahead(t, k) < Ahead(t, l) \/ (k = l /\ i < j)
        PROVE  Frames(t, k)[i] < Frames(t, l)[j]
    <2>1. Waits(r, e, k, i) /\ Waits(r, e, l, j)
      BY <1>3 DEF SameWaiting
    <2>2. Ahead(r, k) < Ahead(r, l) \/ (k = l /\ i < j)
      BY <1>3, <2>1 DEF SameWaiting
    <2>3. Frames(r, k)[i] < Frames(r, l)[j]
      BY <2>1, <2>2 DEF Ordered
    <2> QED
      BY <2>3 DEF SameWaiting
  <1>4. ASSUME NEW k \in 1..Blocks, NEW i \in Nat, Waits(t, f, k, i)
        PROVE  Frames(t, k)[i] <= t.arrived /\ Frames(t, k)[i] \in ToSet(st)
    <2>1. Waits(r, e, k, i) /\ Frames(t, k) = Frames(r, k)
      BY <1>4 DEF SameWaiting
    <2>2. Frames(r, k)[i] <= r.arrived /\ Frames(r, k)[i] \in Nat /\ Frames(r, k)[i] \in ToSet(st)
      BY <1>2, <2>1 DEF Ordered, Accounted
    <2> QED
      BY <1>1, <2>1, <2>2
  <1>5. Ordered(t, f)
    BY <1>3, <1>4 DEF Ordered
  <1>6. ASSUME NEW m \in DOMAIN em PROVE em[m] <= t.arrived
    <2>1. em \in Seq(Nat) /\ em[m] <= r.arrived
      BY DEF Accounted
    <2>2. em[m] \in Nat
      BY <2>1
    <2> QED
      BY <1>1, <2>1, <2>2
  <1>7. ASSUME NEW m \in DOMAIN em, NEW k \in 1..Blocks, NEW i \in Nat, Waits(t, f, k, i)
        PROVE  em[m] < Frames(t, k)[i]
    BY <1>7 DEF SameWaiting, Accounted
  <1>8. ASSUME NEW n \in ToSet(st) \ Unfit, n \notin ToSet(em)
        PROVE  \E k \in 1..Blocks, i \in Nat : Waits(t, f, k, i) /\ Frames(t, k)[i] = n
    BY <1>8 DEF SameWaiting, Accounted
  <1>9. Accounted(t, f, st, em)
    BY <1>4, <1>6, <1>7, <1>8 DEF Accounted
  <1> QED
    BY <1>5, <1>9

\* Distances are distances, and different blocks are at different ones.
LEMMA Distances ==
    ASSUME NEW r, RingShape(r)
    PROVE  /\ \A k \in 1..Blocks : Ahead(r, k) \in 0..(Blocks - 1) /\ (Ahead(r, k) = 0 <=> k = r.mine)
           /\ \A k, l \in 1..Blocks : Ahead(r, k) = Ahead(r, l) => k = l
  <1>1. Blocks \in Nat /\ r.mine \in 1..Blocks
    BY BlocksAssumption DEF RingShape
  <1> QED
    BY <1>1 DEF Ahead

\* Look: runRing begins to read a block that it owns.
LEMMA LookKeepsRing ==
    ASSUME NEW r, NEW st, NEW em, Intact(r, FALSE, st, em), r.blocks[r.mine].user,
           NEW t, t = [r EXCEPT !.num = Len(r.blocks[r.mine].frames), !.next = 1]
    PROVE  Intact(t, TRUE, st, em)
  <1>1. RingShape(r) /\ Circle(r) /\ Ordered(r, FALSE) /\ Accounted(r, FALSE, st, em)
    BY DEF Intact
  <1>2. DOMAIN t = DOMAIN r /\ t.blocks = r.blocks /\ t.theirs = r.theirs /\ t.filling = r.filling
    BY <1>1 DEF RingShape
  <1>3. t.mine = r.mine /\ t.arrived = r.arrived /\ t.num = Len(Frames(r, r.mine)) /\ t.next = 1
    BY <1>1 DEF RingShape, Frames
  <1>4. \A k \in 1..Blocks : Frames(t, k) = Frames(r, k) /\ Held(t, k) = Held(r, k) /\ Ahead(t, k) = Ahead(r, k)
    BY <1>2, <1>3 DEF Frames, Held, Ahead
  <1>5. Len(Frames(r, r.mine)) \in Nat
    BY <1>1 DEF RingShape
  <1>6. RingShape(t)
    BY <1>1, <1>2, <1>3, <1>4, <1>5 DEF RingShape
  <1>7. Circle(t) /\ Reading(t, TRUE)
    <2>1. Full(t) = Full(r)
      BY <1>2 DEF Full
    <2>2. Circle(t)
      BY <1>1, <1>2, <1>3, <1>4, <2>1 DEF Circle, RingShape
    <2>3. t.blocks[t.mine].user /\ t.num = Len(Frames(t, t.mine)) /\ t.next \in 1..(t.num + 1)
      BY <1>2, <1>3, <1>4, <1>5 DEF Frames
    <2> QED
      BY <2>2, <2>3 DEF Reading
  <1>8. \A k \in 1..Blocks : First(t, TRUE, k) = First(r, FALSE, k)
    BY <1>3 DEF First
  <1>9. \A k \in 1..Blocks, i \in Nat : Waits(t, TRUE, k, i) <=> Waits(r, FALSE, k, i)
    BY <1>4, <1>8 DEF Waits
  <1>10. SameWaiting(r, FALSE, t, TRUE)
    <2>1. t.arrived \in Nat /\ r.arrived <= t.arrived
      BY <1>1, <1>3 DEF RingShape
    <2> QED
      BY <1>4, <1>9, <2>1 DEF SameWaiting
  <1>11. Ordered(t, TRUE) /\ Accounted(t, TRUE, st, em)
    <2>1. PICK e, f : e = FALSE /\ f = TRUE
      OBVIOUS
    <2>2. SameWaiting(r, e, t, f) /\ Ordered(r, e) /\ Accounted(r, e, st, em)
      BY <1>1, <1>10, <2>1
    <2>3. Ordered(t, f) /\ Accounted(t, f, st, em)
      BY <1>1, <2>2, SameWaitingKeeps
    <2> QED
      BY <2>1, <2>3
  <1> QED
    BY <1>6, <1>7, <1>11 DEF Intact

\* A frame is lost when every block is full.
LEMMA LostKeepsRing ==
    ASSUME NEW r, NEW e, NEW st, NEW em, Intact(r, e, st, em),
           NEW t, t = [r EXCEPT !.arrived = r.arrived + 1]
    PROVE  Intact(t, e, st, em)
  <1>1. RingShape(r) /\ Circle(r) /\ Reading(r, e) /\ Ordered(r, e) /\ Accounted(r, e, st, em)
    BY DEF Intact
  <1>2. DOMAIN t = DOMAIN r /\ t.blocks = r.blocks /\ t.theirs = r.theirs /\ t.filling = r.filling
    BY <1>1 DEF RingShape
  <1>3. t.mine = r.mine /\ t.arrived = r.arrived + 1 /\ t.num = r.num /\ t.next = r.next
    BY <1>1 DEF RingShape
  <1>4. \A k \in 1..Blocks : /\ Frames(t, k) = Frames(r, k) /\ Held(t, k) = Held(r, k)
                             /\ Ahead(t, k) = Ahead(r, k) /\ First(t, e, k) = First(r, e, k)
    BY <1>2, <1>3 DEF Frames, Held, Ahead, First
  <1>5. RingShape(t)
    <2>1. t.arrived \in Nat
      BY <1>1, <1>3 DEF RingShape
    <2> QED
      BY <1>1, <1>2, <1>3, <1>4, <2>1 DEF RingShape
  <1>6. Circle(t) /\ Reading(t, e)
    <2>1. Full(t) = Full(r)
      BY <1>2 DEF Full
    <2>2. Circle(t)
      BY <1>1, <1>2, <1>3, <1>4, <2>1 DEF Circle, RingShape
    <2>3. Reading(t, e)
      BY <1>1, <1>2, <1>3 DEF Reading, Frames
    <2> QED
      BY <2>2, <2>3
  <1>7. \A k \in 1..Blocks, i \in Nat : Waits(t, e, k, i) <=> Waits(r, e, k, i)
    BY <1>4 DEF Waits
  <1>8. SameWaiting(r, e, t, e)
    <2>1. t.arrived \in Nat /\ r.arrived <= t.arrived
      BY <1>1, <1>3 DEF RingShape
    <2> QED
      BY <1>4, <1>7, <2>1 DEF SameWaiting
  <1>9. Ordered(t, e) /\ Accounted(t, e, st, em)
    BY <1>1, <1>8, SameWaitingKeeps
  <1> QED
    BY <1>5, <1>6, <1>9 DEF Intact

\* What changes in a block when it is passed on.
Users(r, t, k, u) ==
    /\ DOMAIN t.blocks = DOMAIN r.blocks
    /\ \A l \in 1..Blocks : /\ DOMAIN t.blocks[l] = DOMAIN r.blocks[l]
                            /\ Frames(t, l) = Frames(r, l)
                            /\ l # k => t.blocks[l].user = r.blocks[l].user
    /\ t.blocks[k].user = u

\* Passing a block on is setting its status.
LEMMA PassedOn ==
    ASSUME NEW r, RingShape(r), NEW k \in 1..Blocks, NEW u, NEW t,
           t.blocks = [r.blocks EXCEPT ![k] = [r.blocks[k] EXCEPT !.user = u]]
    PROVE  Users(r, t, k, u)
  <1>1. DOMAIN r.blocks = 1..Blocks /\ \A l \in 1..Blocks : DOMAIN r.blocks[l] = {"user", "frames"}
    BY DEF RingShape
  <1>2. DOMAIN t.blocks = DOMAIN r.blocks
    BY <1>1
  <1>3. PICK b : b = [r.blocks[k] EXCEPT !.user = u]
    OBVIOUS
  <1>4. DOMAIN b = DOMAIN r.blocks[k] /\ b.user = u /\ b.frames = r.blocks[k].frames
    BY <1>1, <1>3
  <1>5. t.blocks[k] = b /\ \A l \in 1..Blocks \ {k} : t.blocks[l] = r.blocks[l]
    BY <1>1, <1>3
  <1> QED
    BY <1>2, <1>4, <1>5 DEF Users, Frames

\* Retire: the kernel passes a block to the backend and goes on to the next.
LEMMA RetireKeepsRing ==
    ASSUME NEW r, NEW e, NEW st, NEW em, Intact(r, e, st, em), r.filling,
           NEW t, DOMAIN t = DOMAIN r, Users(r, t, r.theirs, TRUE), t.theirs = (r.theirs % Blocks) + 1,
           t.filling = FALSE, t.mine = r.mine, t.num = r.num, t.next = r.next, t.arrived = r.arrived
    PROVE  Intact(t, e, st, em)
  <1>1. RingShape(r) /\ Circle(r) /\ Reading(r, e) /\ Ordered(r, e) /\ Accounted(r, e, st, em)
    BY DEF Intact
  <1>2. PICK o, m : o = r.theirs /\ m = r.mine
    OBVIOUS
  <1>3. Blocks \in Nat /\ Blocks > 0 /\ o \in 1..Blocks /\ m \in 1..Blocks
    BY <1>1, <1>2, BlocksAssumption DEF RingShape
  <1>4. (o = Blocks => t.theirs = 1) /\ (o # Blocks => t.theirs = o + 1)
    BY <1>2, <1>3, NextPlace
  <1>5. t.theirs \in 1..Blocks
    BY <1>3, <1>4
  <1>6. RingShape(t)
    <2>1. t.filling \in BOOLEAN
      OBVIOUS
    <2>2. \A k \in 1..Blocks : t.blocks[k].user \in BOOLEAN
      BY <1>1, <1>2, <1>3 DEF RingShape, Users
    <2> QED
      BY <1>1, <1>2, <1>3, <1>5, <2>1, <2>2 DEF RingShape, Users
  <1>7. \A k \in 1..Blocks : Ahead(t, k) = Ahead(r, k)
    BY DEF Ahead
  <1>8. ~ Full(r) /\ \A k \in 1..Blocks : r.blocks[k].user <=> Ahead(r, k) < Ahead(r, o)
    BY <1>1, <1>2 DEF Circle
  <1>9. \A k \in 1..Blocks : t.blocks[k].user <=> (r.blocks[k].user \/ k = o)
    BY <1>2 DEF Users
  <1>10. Circle(t)
    <2>1. CASE t.theirs = m
      <3>1. Ahead(r, o) = Blocks - 1
        BY <1>2, <1>3, <1>4, <2>1 DEF Ahead
      <3>2. \A k \in 1..Blocks : t.blocks[k].user
        <4> SUFFICES ASSUME NEW k \in 1..Blocks, k # o PROVE r.blocks[k].user
          BY <1>9
        <4>1. Ahead(r, k) \in 0..(Blocks - 1) /\ Ahead(r, k) # Ahead(r, o)
          BY <1>1, <1>3, Distances
        <4> QED
          BY <1>3, <1>8, <3>1, <4>1
      <3>3. Full(t)
        BY <1>5, <3>2 DEF Full
      <3> QED
        BY <1>2, <2>1, <3>2, <3>3 DEF Circle
    <2>2. CASE t.theirs # m
      <3>1. Ahead(r, t.theirs) = Ahead(r, o) + 1
        BY <1>2, <1>3, <1>4, <2>2 DEF Ahead
      <3>2. \A k \in 1..Blocks : t.blocks[k].user <=> Ahead(t, k) < Ahead(t, t.theirs)
        <4> SUFFICES ASSUME NEW k \in 1..Blocks PROVE t.blocks[k].user <=> Ahead(t, k) < Ahead(t, t.theirs)
          OBVIOUS
        <4>1. Ahead(r, k) \in Nat /\ Ahead(r, o) \in Nat /\ (Ahead(r, k) = Ahead(r, o) => k = o)
          BY <1>1, <1>3, Distances
        <4>2. t.blocks[k].user <=> Ahead(r, k) < Ahead(r, o) \/ k = o
          BY <1>8, <1>9
        <4>3. Ahead(t, k) = Ahead(r, k) /\ Ahead(t, t.theirs) = Ahead(r, o) + 1
          BY <1>5, <1>7, <3>1
        <4> QED
          BY <4>1, <4>2, <4>3
      <3>3. ~ Full(t)
        <4>1. Ahead(t, t.theirs) \in Nat
          BY <1>5, <1>6, Distances
        <4> QED
          BY <1>5, <3>2, <4>1 DEF Full
      <3> QED
        BY <3>2, <3>3 DEF Circle
    <2> QED
      BY <2>1, <2>2
  <1>11. Reading(t, e)
    BY <1>1, <1>2, <1>3, <1>9 DEF Reading, Users
  <1>12. \A k \in 1..Blocks : Held(t, k) <=> Held(r, k)
    BY <1>2, <1>9 DEF Held
  <1>13. \A k \in 1..Blocks, i \in Nat : Waits(t, e, k, i) <=> Waits(r, e, k, i)
    <2>1. \A k \in 1..Blocks : First(t, e, k) = First(r, e, k) /\ Frames(t, k) = Frames(r, k)
      BY DEF First, Users
    <2> QED
      BY <1>12, <2>1 DEF Waits
  <1>14. SameWaiting(r, e, t, e)
    <2>1. t.arrived \in Nat /\ r.arrived <= t.arrived
      BY <1>1 DEF RingShape
    <2> QED
      BY <1>7, <1>13, <2>1 DEF SameWaiting, Users
  <1>15. Ordered(t, e) /\ Accounted(t, e, st, em)
    BY <1>1, <1>14, SameWaitingKeeps
  <1> QED
    BY <1>6, <1>10, <1>11, <1>15 DEF Intact

\* PassBack: the block that was read is the kernel's again.
LEMMA PassBackKeepsRing ==
    ASSUME NEW r, NEW st, NEW em, Intact(r, TRUE, st, em), r.next > r.num,
           NEW t, DOMAIN t = DOMAIN r, Users(r, t, r.mine, FALSE), t.mine = NextBlock(r),
           t.filling = r.filling, t.theirs = r.theirs, t.num = r.num, t.next = r.next, t.arrived = r.arrived
    PROVE  Intact(t, FALSE, st, em)
  <1>1. RingShape(r) /\ Circle(r) /\ Reading(r, TRUE) /\ Ordered(r, TRUE) /\ Accounted(r, TRUE, st, em)
    BY DEF Intact
  <1>2. PICK o, m : o = r.theirs /\ m = r.mine
    OBVIOUS
  <1>3. Blocks \in Nat /\ Blocks > 0 /\ o \in 1..Blocks /\ m \in 1..Blocks
    BY <1>1, <1>2, BlocksAssumption DEF RingShape
  <1>4. (m = Blocks => t.mine = 1) /\ (m # Blocks => t.mine = m + 1)
    BY <1>2, <1>3, NextPlace DEF NextBlock
  <1>5. t.mine \in 1..Blocks
    BY <1>3, <1>4
  <1>6. RingShape(t)
    BY <1>1, <1>2, <1>3, <1>5 DEF RingShape, Users
  <1>7. \A k \in 1..Blocks : k # m => Ahead(t, k) = Ahead(r, k) - 1
    BY <1>2, <1>3, <1>4 DEF Ahead
  <1>8. Ahead(t, m) = Blocks - 1
    BY <1>2, <1>3, <1>4 DEF Ahead
  <1>9. \A k \in 1..Blocks : t.blocks[k].user <=> (r.blocks[k].user /\ k # m)
    BY <1>2 DEF Users
  <1>10. r.blocks[m].user
    BY <1>1, <1>2 DEF Reading
  <1>11. ~ Full(t)
    <2>1. CASE o = m
      BY <1>2, <1>3, <1>9, <2>1 DEF Full
    <2>2. CASE o # m
      <3>1. ~ Full(r)
        BY <1>1, <1>2, <2>2 DEF Circle
      <3> QED
        BY <1>2, <1>3, <1>9, <3>1 DEF Full
    <2> QED
      BY <2>1, <2>2
  <1>12. Circle(t)
    <2> SUFFICES ASSUME NEW k \in 1..Blocks PROVE t.blocks[k].user <=> Ahead(t, k) < Ahead(t, o)
      BY <1>2, <1>11 DEF Circle
    <2>1. Ahead(r, k) \in 0..(Blocks - 1) /\ Ahead(r, o) \in 0..(Blocks - 1) /\ (Ahead(r, k) = 0 <=> k = m)
      BY <1>1, <1>2, <1>3, Distances
    <2>2. CASE o = m
      <3>1. Full(r)
        BY <1>2, <1>10, <2>2 DEF Full
      <3>2. r.blocks[k].user
        BY <1>1, <3>1 DEF Circle
      <3>3. k # m => Ahead(t, k) < Blocks - 1
        BY <1>3, <1>7, <2>1
      <3> QED
        BY <1>3, <1>8, <1>9, <2>2, <3>2, <3>3
    <2>3. CASE o # m
      <3>1. r.blocks[k].user <=> Ahead(r, k) < Ahead(r, o)
        BY <1>1, <1>2, <2>3 DEF Circle
      <3>2. Ahead(t, o) = Ahead(r, o) - 1
        BY <1>3, <1>7, <2>3
      <3>3. CASE k = m
        BY <1>3, <1>8, <1>9, <2>1, <3>2, <3>3
      <3>4. CASE k # m
        <4>1. Ahead(t, k) = Ahead(r, k) - 1
          BY <1>7, <3>4
        <4> QED
          BY <1>3, <1>9, <2>1, <3>1, <3>2, <3>4, <4>1
      <3> QED
        BY <3>3, <3>4
    <2> QED
      BY <2>2, <2>3
  <1>13. \A k \in 1..Blocks, i \in Nat : Waits(t, FALSE, k, i) <=> Waits(r, TRUE, k, i)
    <2> SUFFICES ASSUME NEW k \in 1..Blocks, NEW i \in Nat
                 PROVE  Waits(t, FALSE, k, i) <=> Waits(r, TRUE, k, i)
      OBVIOUS
    <2>1. Frames(t, k) = Frames(r, k)
      BY DEF Users
    <2>2. CASE k # m
      <3>1. Held(t, k) <=> Held(r, k)
        BY <1>2, <1>9, <2>2 DEF Held
      <3>2. First(t, FALSE, k) = First(r, TRUE, k)
        BY <1>2, <2>2 DEF First
      <3> QED
        BY <2>1, <3>1, <3>2 DEF Waits
    <2>3. CASE k = m
      <3>1. ~ Held(t, k)
        <4>1. r.filling => o # m
          BY <1>1, <1>2, <1>10 DEF Circle, Full
        <4> QED
          BY <1>2, <1>9, <2>3, <4>1 DEF Held
      <3>2. ~ Waits(r, TRUE, k, i)
        <4>1. PICK q : q = Frames(r, m)
          OBVIOUS
        <4>2. q \in Seq(Nat) /\ r.num = Len(q) /\ r.next \in Nat /\ r.num \in Nat
          BY <1>1, <1>2, <1>3, <4>1 DEF RingShape, Reading
        <4>3. i \in DOMAIN q => i <= r.num
          BY <4>2
        <4>4. First(r, TRUE, m) = r.next
          BY <1>2 DEF First
        <4>5. Waits(r, TRUE, k, i) => i \in DOMAIN q /\ i >= r.next
          BY <2>3, <4>1, <4>4 DEF Waits
        <4>6. ~ (i \in DOMAIN q /\ i >= r.next)
          BY <4>2, <4>3
        <4> QED
          BY <4>5, <4>6
      <3> QED
        BY <3>1, <3>2 DEF Waits
    <2> QED
      BY <2>2, <2>3
  <1>14. ASSUME NEW k \in 1..Blocks, NEW l \in 1..Blocks, NEW i \in Nat, NEW j \in Nat,
                Waits(r, TRUE, k, i), Waits(r, TRUE, l, j), Ahead(t, k) < Ahead(t, l)
         PROVE  Ahead(r, k) < Ahead(r, l)
    <2>1. k # m /\ l # m
      <3>1. ~ Held(t, m)
        BY <1>1, <1>2, <1>3, <1>9, <1>10 DEF Held, Circle, Full
      <3>2. Held(t, k) /\ Held(t, l)
        BY <1>13, <1>14 DEF Waits
      <3> QED
        BY <3>1, <3>2
    <2>2. Ahead(t, k) = Ahead(r, k) - 1 /\ Ahead(t, l) = Ahead(r, l) - 1
      BY <1>7, <2>1
    <2>3. Ahead(r, k) \in Int /\ Ahead(r, l) \in Int
      BY <1>1, Distances
    <2> QED
      BY <1>14, <2>2, <2>3
  <1>15. SameWaiting(r, TRUE, t, FALSE)
    <2>1. t.arrived \in Nat /\ r.arrived <= t.arrived
      BY <1>1 DEF RingShape
    <2> QED
      BY <1>13, <1>14, <2>1 DEF SameWaiting, Users
  <1>16. Ordered(t, FALSE) /\ Accounted(t, FALSE, st, em)
    BY <1>1, <1>15, SameWaitingKeeps
  <1>17. Reading(t, FALSE)
    BY DEF Reading
  <1> QED
    BY <1>6, <1>12, <1>16, <1>17 DEF Intact

\* What Append does to a slice and to the set of its elements.
LEMMA AppendedOne ==
    ASSUME NEW V, NEW q \in Seq(V), NEW x \in V
    PROVE  /\ Append(q, x) \in Seq(V) /\ Len(Append(q, x)) = Len(q) + 1
           /\ DOMAIN q = 1..Len(q) /\ DOMAIN Append(q, x) = 1..(Len(q) + 1) /\ Len(q) \in Nat
           /\ \A i \in 1..Len(q) : Append(q, x)[i] = q[i]
           /\ Append(q, x)[Len(q) + 1] = x
           /\ ToSet(Append(q, x)) = ToSet(q) \cup {x}
  <1>1. PICK p, n : p = Append(q, x) /\ n = Len(q)
    OBVIOUS
  <1>2. p \in Seq(V) /\ Len(p) = n + 1 /\ DOMAIN q = 1..n /\ DOMAIN p = 1..(n + 1) /\ n \in Nat
    BY <1>1
  <1>3. \A i \in 1..n : p[i] = q[i]
    BY <1>1
  <1>4. p[n + 1] = x
    BY <1>1
  <1>5. ToSet(q) = {q[i] : i \in 1..n} /\ ToSet(p) = {p[i] : i \in 1..(n + 1)}
    BY <1>2, Zenon DEF ToSet
  <1>6. \A y \in ToSet(p) : y \in ToSet(q) \cup {x}
    <2> SUFFICES ASSUME NEW i \in 1..(n + 1) PROVE p[i] \in ToSet(q) \cup {x}
      BY <1>5
    <2>1. i \in 1..n \/ i = n + 1
      BY <1>2
    <2> QED
      BY <1>3, <1>4, <1>5, <2>1
  <1>7. \A y \in ToSet(q) \cup {x} : y \in ToSet(p)
    <2>1. \A i \in 1..n : q[i] \in ToSet(p)
      <3> SUFFICES ASSUME NEW i \in 1..n PROVE q[i] \in ToSet(p)
        OBVIOUS
      <3>1. i \in 1..(n + 1) /\ p[i] = q[i]
        BY <1>2, <1>3
      <3> QED
        BY <1>5, <3>1
    <2>2. x \in ToSet(p)
      <3>1. n + 1 \in 1..(n + 1)
        BY <1>2
      <3> QED
        BY <1>4, <1>5, <3>1
    <2> QED
      BY <1>5, <2>1, <2>2
  <1>8. ToSet(p) = ToSet(q) \cup {x}
    BY <1>6, <1>7
  <1> QED
    BY <1>1, <1>2, <1>3, <1>4, <1>8

\* A frame that waits is a number.
LEMMA WaitingFrame ==
    ASSUME NEW r, RingShape(r), NEW e, NEW k \in 1..Blocks, NEW i \in Nat, Waits(r, e, k, i)
    PROVE  Frames(r, k)[i] \in Nat
  <1>1. PICK q : q = Frames(r, k)
    OBVIOUS
  <1>2. q \in Seq(Nat) /\ i \in DOMAIN q
    BY <1>1 DEF RingShape, Waits
  <1>3. q[i] \in Nat
    BY <1>2
  <1> QED
    BY <1>1, <1>3

\* EmitFrame: the first frame of those to be read is emitted, if it is fit.
LEMMA EmitKeepsRing ==
    ASSUME NEW r, NEW e, e = TRUE, NEW st, NEW em, Intact(r, e, st, em), r.next <= r.num,
           NEW n, n = Frames(r, r.mine)[r.next], NEW t, t = [r EXCEPT !.next = r.next + 1],
           NEW out, n \in Unfit => out = em, n \notin Unfit => out = Append(em, n)
    PROVE  Intact(t, e, st, out)
  <1>1. RingShape(r) /\ Circle(r) /\ Reading(r, e) /\ Ordered(r, e) /\ Accounted(r, e, st, em)
    BY DEF Intact
  <1>2. PICK m, x, q : m = r.mine /\ x = r.next /\ q = Frames(r, m)
    OBVIOUS
  <1>3. /\ m \in 1..Blocks /\ q \in Seq(Nat) /\ r.num = Len(q) /\ Len(q) \in Nat /\ x \in Nat
        /\ x \in 1..Len(q) /\ r.blocks[m].user
    BY <1>1, <1>2 DEF RingShape, Reading
  <1>4. n = q[x] /\ n \in Nat /\ x \in DOMAIN q
    <2>1. n = q[x] /\ x \in DOMAIN q
      BY <1>2, <1>3
    <2> QED
      BY <1>3, <2>1
  <1>5. DOMAIN t = DOMAIN r /\ t.blocks = r.blocks /\ t.theirs = r.theirs /\ t.filling = r.filling
    BY <1>1 DEF RingShape
  <1>6. t.mine = m /\ t.arrived = r.arrived /\ t.num = r.num /\ t.next = x + 1
    BY <1>1, <1>2 DEF RingShape
  <1>7. \A k \in 1..Blocks : /\ Frames(t, k) = Frames(r, k) /\ Held(t, k) = Held(r, k)
                             /\ Ahead(t, k) = Ahead(r, k)
    BY <1>2, <1>5, <1>6 DEF Frames, Held, Ahead
  <1>8. RingShape(t)
    <2>1. t.next \in Nat
      BY <1>3, <1>6
    <2> QED
      BY <1>1, <1>2, <1>3, <1>5, <1>6, <1>7, <2>1 DEF RingShape
  <1>9. Circle(t) /\ Reading(t, e)
    <2>1. Full(t) = Full(r)
      BY <1>5 DEF Full
    <2>2. Circle(t)
      BY <1>1, <1>2, <1>5, <1>6, <1>7, <2>1 DEF Circle, RingShape
    <2>3. t.next \in 1..(t.num + 1)
      BY <1>3, <1>6
    <2>4. t.blocks[t.mine].user /\ t.num = Len(Frames(t, t.mine))
      BY <1>2, <1>3, <1>5, <1>6, <1>7
    <2> QED
      BY <2>2, <2>3, <2>4 DEF Reading
  <1>10. Waits(r, e, m, x)
    BY <1>2, <1>3, <1>4 DEF Waits, Held, First
  <1>11. ASSUME NEW k \in 1..Blocks, NEW i \in Nat
         PROVE  Waits(t, e, k, i) <=> Waits(r, e, k, i) /\ ~ (k = m /\ i = x)
    <2>1. CASE k # m
      <3>1. First(t, e, k) = First(r, e, k)
        BY <1>2, <1>6, <2>1 DEF First
      <3> QED
        BY <1>7, <2>1, <3>1 DEF Waits
    <2>2. CASE k = m
      <3>1. First(t, e, k) = x + 1 /\ First(r, e, k) = x
        BY <1>2, <1>6, <2>2 DEF First
      <3>2. i >= x + 1 <=> i >= x /\ i # x
        BY <1>3
      <3> QED
        BY <1>7, <2>2, <3>1, <3>2 DEF Waits
    <2> QED
      BY <2>1, <2>2
  <1>12. ASSUME NEW k \in 1..Blocks, NEW i \in Nat, Waits(t, e, k, i)
         PROVE  n < Frames(t, k)[i] /\ Frames(t, k)[i] \in Nat
    <2>1. Waits(r, e, k, i) /\ ~ (k = m /\ i = x)
      BY <1>11, <1>12
    <2>2. Ahead(r, m) < Ahead(r, k) \/ (m = k /\ x < i)
      <3>1. CASE k = m
        <4>1. i >= x
          BY <1>2, <2>1, <3>1 DEF Waits, First
        <4> QED
          BY <1>3, <2>1, <3>1, <4>1
      <3>2. CASE k # m
        <4>1. Ahead(r, m) = 0 /\ Ahead(r, k) \in 0..(Blocks - 1) /\ Ahead(r, k) # 0
          BY <1>1, <1>2, <1>3, <3>2, Distances
        <4> QED
          BY <4>1
      <3> QED
        BY <3>1, <3>2
    <2>3. Frames(r, m)[x] < Frames(r, k)[i]
      BY <1>1, <1>3, <1>10, <2>1, <2>2 DEF Ordered
    <2>4. Frames(r, k)[i] \in Nat
      BY <1>1, <2>1, WaitingFrame
    <2> QED
      BY <1>2, <1>4, <1>7, <2>3, <2>4
  <1>13. n <= r.arrived /\ n \in ToSet(st) /\ (\A y \in DOMAIN em : em[y] < n)
    <2>1. Frames(r, m)[x] <= r.arrived
      BY <1>1, <1>3, <1>10 DEF Ordered
    <2>2. Frames(r, m)[x] \in ToSet(st) /\ \A y \in DOMAIN em : em[y] < Frames(r, m)[x]
      BY <1>1, <1>3, <1>10 DEF Accounted
    <2> QED
      BY <1>2, <1>4, <2>1, <2>2
  <1>14. Ordered(t, e)
    <2>1. ASSUME NEW k \in 1..Blocks, NEW l \in 1..Blocks, NEW i \in Nat, NEW j \in Nat,
                 Waits(t, e, k, i), Waits(t, e, l, j), Ahead(t, k) < Ahead(t, l) \/ (k = l /\ i < j)
          PROVE  Frames(t, k)[i] < Frames(t, l)[j]
      <3>1. Waits(r, e, k, i) /\ Waits(r, e, l, j)
        BY <1>11, <2>1
      <3>2. Ahead(r, k) < Ahead(r, l) \/ (k = l /\ i < j)
        BY <1>7, <2>1
      <3>3. Frames(r, k)[i] < Frames(r, l)[j]
        BY <1>1, <3>1, <3>2 DEF Ordered
      <3> QED
        BY <1>7, <3>3
    <2>2. ASSUME NEW k \in 1..Blocks, NEW i \in Nat, Waits(t, e, k, i) PROVE Frames(t, k)[i] <= t.arrived
      BY <1>1, <1>6, <1>7, <1>11, <2>2 DEF Ordered
    <2> QED
      BY <2>1, <2>2 DEF Ordered
  <1>15. \A k \in 1..Blocks, i \in Nat : Waits(t, e, k, i) => Frames(t, k)[i] \in ToSet(st)
    BY <1>1, <1>7, <1>11 DEF Accounted
  <1>16. st \in Seq(Nat) /\ em \in Seq(Nat)
    BY <1>1 DEF Accounted
  <1>17. CASE n \in Unfit
    <2>1. \A y \in DOMAIN em : em[y] \notin Unfit /\ em[y] <= t.arrived /\ em[y] \in ToSet(st)
      BY <1>1, <1>6 DEF Accounted
    <2>2. \A y \in DOMAIN em, k \in 1..Blocks, i \in Nat : Waits(t, e, k, i) => em[y] < Frames(t, k)[i]
      BY <1>1, <1>7, <1>11 DEF Accounted
    <2>3. ASSUME NEW z \in ToSet(st) \ Unfit, z \notin ToSet(em)
          PROVE  \E k \in 1..Blocks, i \in Nat : Waits(t, e, k, i) /\ Frames(t, k)[i] = z
      <3>1. PICK k \in 1..Blocks, i \in Nat : Waits(r, e, k, i) /\ Frames(r, k)[i] = z
        BY <1>1, <2>3 DEF Accounted
      <3>2. ~ (k = m /\ i = x)
        BY <1>2, <1>4, <1>17, <2>3, <3>1
      <3> QED
        BY <1>7, <1>11, <3>1, <3>2
    <2>4. \A y, z \in DOMAIN em : y < z => em[y] < em[z]
      BY <1>1 DEF Accounted
    <2>5. Accounted(t, e, st, em)
      BY <1>15, <1>16, <2>1, <2>2, <2>3, <2>4 DEF Accounted
    <2> QED
      BY <1>8, <1>9, <1>14, <1>17, <2>5 DEF Intact
  <1>18. CASE n \notin Unfit
    <2>1. PICK L : L = Len(em)
      OBVIOUS
    <2>2. /\ out \in Seq(Nat) /\ DOMAIN em = 1..L /\ DOMAIN out = 1..(L + 1) /\ L \in Nat
          /\ \A y \in 1..L : out[y] = em[y]
          /\ out[L + 1] = n /\ ToSet(out) = ToSet(em) \cup {n}
      <3>1. PICK V : V = Nat
        OBVIOUS
      <3>2. em \in Seq(V) /\ n \in V /\ out = Append(em, n)
        BY <1>4, <1>16, <1>18, <3>1
      <3>3. /\ out \in Seq(V) /\ DOMAIN em = 1..L /\ DOMAIN out = 1..(L + 1) /\ L \in Nat
            /\ \A y \in 1..L : out[y] = em[y]
            /\ out[L + 1] = n /\ ToSet(out) = ToSet(em) \cup {n}
        BY <2>1, <3>2, AppendedOne
      <3> QED
        BY <3>1, <3>3
    <2>3. ASSUME NEW y \in DOMAIN out PROVE (y \in DOMAIN em /\ out[y] = em[y]) \/ (y = L + 1 /\ out[y] = n)
      BY <2>2
    <2>4. \A y \in DOMAIN em : em[y] \in Nat
      BY <1>16
    <2>5. \A y \in DOMAIN out : out[y] \notin Unfit /\ out[y] <= t.arrived /\ out[y] \in ToSet(st)
      BY <1>1, <1>6, <1>13, <1>18, <2>3 DEF Accounted
    <2>6. ASSUME NEW y \in DOMAIN out, NEW k \in 1..Blocks, NEW i \in Nat, Waits(t, e, k, i)
          PROVE  out[y] < Frames(t, k)[i]
      <3>1. CASE y = L + 1 /\ out[y] = n
        BY <1>12, <2>6, <3>1
      <3>2. CASE y \in DOMAIN em /\ out[y] = em[y]
        <4>1. em[y] < Frames(r, k)[i]
          BY <1>1, <1>11, <2>6, <3>2 DEF Accounted
        <4> QED
          BY <1>7, <3>2, <4>1
      <3> QED
        BY <2>3, <3>1, <3>2
    <2>7. ASSUME NEW z \in ToSet(st) \ Unfit, z \notin ToSet(out)
          PROVE  \E k \in 1..Blocks, i \in Nat : Waits(t, e, k, i) /\ Frames(t, k)[i] = z
      <3>1. z \notin ToSet(em) /\ z # n
        BY <2>2, <2>7
      <3>2. PICK k \in 1..Blocks, i \in Nat : Waits(r, e, k, i) /\ Frames(r, k)[i] = z
        BY <1>1, <3>1 DEF Accounted
      <3>3. ~ (k = m /\ i = x)
        BY <1>2, <1>4, <3>1, <3>2
      <3> QED
        BY <1>7, <1>11, <3>2, <3>3
    <2>8. ASSUME NEW y \in DOMAIN out, NEW z \in DOMAIN out, y < z PROVE out[y] < out[z]
      <3>1. CASE z \in DOMAIN em /\ out[z] = em[z]
        <4>1. y \in DOMAIN em /\ out[y] = em[y]
          BY <2>2, <2>8, <3>1
        <4> QED
          BY <1>1, <2>8, <3>1, <4>1 DEF Accounted
      <3>2. CASE z = L + 1 /\ out[z] = n
        <4>1. y \in DOMAIN em /\ out[y] = em[y]
          BY <2>2, <2>8, <3>2
        <4> QED
          BY <1>13, <3>2, <4>1
      <3> QED
        BY <2>3, <3>1, <3>2
    <2>9. Accounted(t, e, st, out)
      BY <1>15, <1>16, <2>2, <2>5, <2>6, <2>7, <2>8 DEF Accounted
    <2> QED
      BY <1>8, <1>9, <1>14, <2>9 DEF Intact
  <1> QED
    BY <1>17, <1>18

\* What the kernel's storing a frame does to the blocks.
StoredIn(r, t, o, q) ==
    /\ DOMAIN t.blocks = DOMAIN r.blocks
    /\ \A l \in 1..Blocks : /\ DOMAIN t.blocks[l] = DOMAIN r.blocks[l]
                            /\ t.blocks[l].user = r.blocks[l].user
                            /\ l # o => Frames(t, l) = Frames(r, l)
    /\ Frames(t, o) = q

\* FrameArrives: the kernel stores a frame in the block it fills, or is the
\* first to fill.
LEMMA ArriveKeepsRing ==
    ASSUME NEW r, NEW e \in BOOLEAN, NEW st, NEW em, Intact(r, e, st, em), ~ Full(r),
           NEW n, n = r.arrived + 1,
           NEW p, r.filling => p = Append(Frames(r, r.theirs), n), ~ r.filling => p = <<n>>,
           NEW t, DOMAIN t = DOMAIN r, StoredIn(r, t, r.theirs, p), t.filling = TRUE,
           t.theirs = r.theirs, t.mine = r.mine, t.num = r.num, t.next = r.next, t.arrived = n,
           NEW all, all = Append(st, n)
    PROVE  Intact(t, e, all, em)
  <1>1. RingShape(r) /\ Circle(r) /\ Reading(r, e) /\ Ordered(r, e) /\ Accounted(r, e, st, em)
    BY DEF Intact
  <1>2. PICK o, m, q : o = r.theirs /\ m = r.mine /\ q = Frames(r, o)
    OBVIOUS
  <1>3. o \in 1..Blocks /\ m \in 1..Blocks /\ q \in Seq(Nat) /\ n \in Nat /\ r.arrived \in Nat
    BY <1>1, <1>2 DEF RingShape
  <1>4. PICK L : L = Len(p)
    OBVIOUS
  <1>5. /\ p \in Seq(Nat) /\ L \in Nat /\ L >= 1 /\ DOMAIN p = 1..L /\ p[L] = n
        /\ r.filling => (DOMAIN q = 1..(L - 1) /\ \A i \in 1..(L - 1) : p[i] = q[i])
        /\ ~ r.filling => L = 1
    <2>1. CASE r.filling
      <3>1. PICK V : V = Nat
        OBVIOUS
      <3>2. q \in Seq(V) /\ n \in V /\ p = Append(q, n)
        BY <1>2, <1>3, <2>1, <3>1
      <3>3. /\ p \in Seq(V) /\ L = Len(q) + 1 /\ Len(q) \in Nat /\ DOMAIN q = 1..Len(q)
            /\ DOMAIN p = 1..(Len(q) + 1) /\ p[Len(q) + 1] = n
            /\ \A i \in 1..Len(q) : p[i] = q[i]
        BY <1>4, <3>2, AppendedOne
      <3>4. PICK k : k = Len(q)
        OBVIOUS
      <3>5. L - 1 = k /\ L = k + 1 /\ k \in Nat
        BY <3>3, <3>4
      <3> QED
        BY <2>1, <3>1, <3>3, <3>4, <3>5
    <2>2. CASE ~ r.filling
      <3>1. p = <<n>>
        BY <2>2
      <3>2. <<n>> \in Seq(Nat) /\ Len(<<n>>) = 1 /\ DOMAIN <<n>> = 1..1 /\ <<n>>[1] = n
        BY <1>3
      <3>3. L = 1
        BY <1>4, <3>1, <3>2
      <3> QED
        BY <2>2, <3>1, <3>2, <3>3
    <2> QED
      BY <2>1, <2>2
  <1>6. \A k \in 1..Blocks : k # o => Frames(t, k) = Frames(r, k)
    BY <1>2 DEF StoredIn
  <1>7. Frames(t, o) = p /\ \A k \in 1..Blocks : t.blocks[k].user = r.blocks[k].user
    BY <1>2 DEF StoredIn
  <1>8. RingShape(t)
    <2>1. t.filling \in BOOLEAN /\ t.arrived \in Nat
      BY <1>3
    <2>2. \A k \in 1..Blocks : Frames(t, k) \in Seq(Nat)
      BY <1>1, <1>5, <1>6, <1>7 DEF RingShape
    <2>3. \A k \in 1..Blocks : t.blocks[k].user \in BOOLEAN
      BY <1>1, <1>7 DEF RingShape
    <2> QED
      BY <1>1, <2>1, <2>2, <2>3 DEF RingShape, StoredIn
  <1>9. \A k \in 1..Blocks : Ahead(t, k) = Ahead(r, k) /\ First(t, e, k) = First(r, e, k)
    BY DEF Ahead, First
  <1>10. Circle(t)
    <2>1. ~ Full(t)
      BY <1>2, <1>3, <1>7 DEF Full
    <2>2. \A k \in 1..Blocks : t.blocks[k].user <=> Ahead(t, k) < Ahead(t, t.theirs)
      <3> SUFFICES ASSUME NEW k \in 1..Blocks
                   PROVE  t.blocks[k].user <=> Ahead(t, k) < Ahead(t, t.theirs)
        OBVIOUS
      <3>1. r.blocks[k].user <=> Ahead(r, k) < Ahead(r, o)
        BY <1>1, <1>2 DEF Circle
      <3>2. Ahead(t, t.theirs) = Ahead(r, o)
        BY <1>2, <1>3, <1>9
      <3> QED
        BY <1>7, <1>9, <3>1, <3>2
    <2> QED
      BY <2>1, <2>2 DEF Circle
  <1>11. o = m => ~ e
    BY <1>1, <1>2 DEF Reading, Full
  <1>12. Reading(t, e)
    <2> SUFFICES ASSUME e PROVE Reading(t, e)
      BY DEF Reading
    <2>1. Frames(t, m) = Frames(r, m)
      BY <1>3, <1>6, <1>11
    <2> QED
      BY <1>1, <1>2, <1>3, <1>7, <2>1 DEF Reading
  <1>13. First(r, e, o) = 1
    BY <1>2, <1>11 DEF First
  <1>14. ~ r.blocks[o].user
    BY <1>2 DEF Full
  <1>15. ASSUME NEW k \in 1..Blocks, NEW i \in Nat, Waits(r, e, k, i)
         PROVE  /\ Waits(t, e, k, i) /\ Frames(t, k)[i] = Frames(r, k)[i]
                /\ k # o => Ahead(r, k) < Ahead(r, o)
                /\ k = o => i < L
                /\ Frames(r, k)[i] \in Nat /\ Frames(r, k)[i] < n
    <2>1. Frames(r, k)[i] \in Nat /\ Frames(r, k)[i] <= r.arrived
      BY <1>1, <1>15, WaitingFrame DEF Ordered
    <2>2. CASE k # o
      <3>1. r.blocks[k].user
        BY <1>2, <1>15, <2>2 DEF Waits, Held
      <3>2. Ahead(r, k) < Ahead(r, o)
        BY <1>1, <1>2, <3>1 DEF Circle
      <3>3. Held(t, k)
        BY <1>7, <3>1 DEF Held
      <3> QED
        BY <1>3, <1>6, <1>9, <1>15, <2>1, <2>2, <3>2, <3>3 DEF Waits
    <2>3. CASE k = o
      <3>1. r.filling /\ i \in DOMAIN q
        BY <1>2, <1>14, <1>15, <2>3 DEF Waits, Held
      <3>2. i \in 1..(L - 1) /\ p[i] = q[i]
        BY <1>5, <3>1
      <3>3. i \in DOMAIN p /\ i < L
        BY <1>5, <3>2
      <3>4. Held(t, o)
        BY <1>2 DEF Held
      <3>5. i >= First(t, e, o)
        BY <1>3, <1>9, <1>15, <2>3 DEF Waits
      <3>6. Waits(t, e, o, i)
        BY <1>7, <3>3, <3>4, <3>5 DEF Waits
      <3> QED
        BY <1>2, <1>3, <1>7, <2>1, <2>3, <3>2, <3>3, <3>6
    <2> QED
      BY <2>2, <2>3
  <1>16. ASSUME NEW k \in 1..Blocks, NEW i \in Nat, Waits(t, e, k, i)
         PROVE  Waits(r, e, k, i) \/ (k = o /\ i = L)
    <2>1. CASE k # o
      <3>1. Held(r, k)
        BY <1>2, <1>7, <1>16, <2>1 DEF Waits, Held
      <3> QED
        BY <1>6, <1>9, <1>16, <2>1, <3>1 DEF Waits
    <2>2. CASE k = o
      <3>1. i \in 1..L
        BY <1>5, <1>7, <1>16, <2>2 DEF Waits
      <3>2. CASE r.filling /\ i # L
        <4>1. i \in DOMAIN q /\ i >= 1
          BY <1>5, <3>1, <3>2
        <4>2. Held(r, o)
          BY <1>2, <3>2 DEF Held
        <4> QED
          BY <1>2, <1>13, <2>2, <4>1, <4>2 DEF Waits
      <3>3. CASE ~ r.filling
        BY <1>5, <2>2, <3>1, <3>3
      <3> QED
        BY <2>2, <3>2, <3>3
    <2> QED
      BY <2>1, <2>2
  <1>17. Waits(t, e, o, L) /\ Frames(t, o)[L] = n
    <2>1. Held(t, o) /\ L \in DOMAIN p /\ First(t, e, o) = 1
      BY <1>2, <1>3, <1>5, <1>9, <1>13 DEF Held
    <2> QED
      BY <1>5, <1>7, <2>1 DEF Waits
  <1>18. ASSUME NEW k \in 1..Blocks, NEW l \in 1..Blocks, NEW i \in Nat, NEW j \in Nat,
                Waits(t, e, k, i), Waits(t, e, l, j), Ahead(t, k) < Ahead(t, l) \/ (k = l /\ i < j)
         PROVE  Frames(t, k)[i] < Frames(t, l)[j]
    <2>1. Ahead(r, k) < Ahead(r, l) \/ (k = l /\ i < j)
      BY <1>9, <1>18
    <2>2. Ahead(r, k) \in Nat /\ Ahead(r, l) \in Nat /\ Ahead(r, o) \in Nat
      BY <1>1, <1>3, Distances
    <2>3. CASE Waits(r, e, k, i) /\ Waits(r, e, l, j)
      <3>1. Frames(r, k)[i] < Frames(r, l)[j]
        BY <1>1, <2>1, <2>3 DEF Ordered
      <3> QED
        BY <1>15, <2>3, <3>1
    <2>4. CASE Waits(r, e, k, i) /\ l = o /\ j = L
      BY <1>15, <1>17, <2>4
    <2>5. CASE k = o /\ i = L
      <3>1. Waits(r, e, l, j) \/ (l = o /\ j = L)
        BY <1>16, <1>18
      <3>2. CASE l = o
        <4>1. i < j
          BY <2>1, <2>2, <2>5, <3>2
        <4>2. j \in DOMAIN p
          BY <1>7, <1>18, <3>2 DEF Waits
        <4> QED
          BY <1>5, <2>5, <4>1, <4>2
      <3>3. CASE l # o
        <4>1. Ahead(r, l) < Ahead(r, o)
          BY <1>15, <3>1, <3>3
        <4> QED
          BY <2>1, <2>2, <2>5, <3>3, <4>1
      <3> QED
        BY <3>2, <3>3
    <2> QED
      BY <1>16, <1>18, <2>3, <2>4, <2>5
  <1>19. ASSUME NEW k \in 1..Blocks, NEW i \in Nat, Waits(t, e, k, i)
         PROVE  Frames(t, k)[i] <= t.arrived
    <2>1. CASE Waits(r, e, k, i)
      <3>1. Frames(t, k)[i] \in Nat /\ Frames(t, k)[i] < n
        BY <1>15, <2>1
      <3> QED
        BY <1>3, <3>1
    <2>2. CASE k = o /\ i = L
      BY <1>3, <1>17, <2>2
    <2> QED
      BY <1>16, <1>19, <2>1, <2>2
  <1>20. Ordered(t, e)
    BY <1>18, <1>19 DEF Ordered
  <1>21. st \in Seq(Nat) /\ em \in Seq(Nat)
    BY <1>1 DEF Accounted
  <1>22. all \in Seq(Nat) /\ ToSet(all) = ToSet(st) \cup {n}
    <2>1. PICK V : V = Nat
      OBVIOUS
    <2>2. st \in Seq(V) /\ n \in V
      BY <1>3, <1>21, <2>1
    <2>3. all \in Seq(V) /\ ToSet(all) = ToSet(st) \cup {n}
      BY <2>2, AppendedOne
    <2> QED
      BY <2>1, <2>3
  <1>23. ASSUME NEW y \in DOMAIN em PROVE em[y] \in Nat /\ em[y] <= r.arrived /\ em[y] < n
    <2>1. em[y] \in Nat /\ em[y] <= r.arrived
      BY <1>1, <1>21 DEF Accounted
    <2> QED
      BY <1>3, <2>1
  <1>24. \A y \in DOMAIN em : em[y] \notin Unfit /\ em[y] <= t.arrived /\ em[y] \in ToSet(all)
    <2> SUFFICES ASSUME NEW y \in DOMAIN em
                 PROVE  em[y] \notin Unfit /\ em[y] <= t.arrived /\ em[y] \in ToSet(all)
      OBVIOUS
    <2>1. em[y] \notin Unfit /\ em[y] \in ToSet(st)
      BY <1>1 DEF Accounted
    <2> QED
      BY <1>3, <1>22, <1>23, <2>1
  <1>25. ASSUME NEW y \in DOMAIN em, NEW k \in 1..Blocks, NEW i \in Nat, Waits(t, e, k, i)
         PROVE  em[y] < Frames(t, k)[i]
    <2>1. CASE Waits(r, e, k, i)
      <3>1. em[y] < Frames(r, k)[i]
        BY <1>1, <2>1 DEF Accounted
      <3> QED
        BY <1>15, <2>1, <3>1
    <2>2. CASE k = o /\ i = L
      BY <1>17, <1>23, <2>2
    <2> QED
      BY <1>16, <1>25, <2>1, <2>2
  <1>26. ASSUME NEW z \in ToSet(all) \ Unfit, z \notin ToSet(em)
         PROVE  \E k \in 1..Blocks, i \in Nat : Waits(t, e, k, i) /\ Frames(t, k)[i] = z
    <2>1. CASE z = n
      BY <1>3, <1>5, <1>17, <2>1
    <2>2. CASE z # n
      <3>1. z \in ToSet(st) \ Unfit
        BY <1>22, <1>26, <2>2
      <3>2. PICK k \in 1..Blocks, i \in Nat : Waits(r, e, k, i) /\ Frames(r, k)[i] = z
        BY <1>1, <1>26, <3>1 DEF Accounted
      <3> QED
        BY <1>15, <3>2
    <2> QED
      BY <2>1, <2>2
  <1>27. ASSUME NEW k \in 1..Blocks, NEW i \in Nat, Waits(t, e, k, i) PROVE Frames(t, k)[i] \in ToSet(all)
    <2>1. CASE Waits(r, e, k, i)
      <3>1. Frames(r, k)[i] \in ToSet(st)
        BY <1>1, <2>1 DEF Accounted
      <3> QED
        BY <1>15, <1>22, <2>1, <3>1
    <2>2. CASE k = o /\ i = L
      BY <1>17, <1>22, <2>2
    <2> QED
      BY <1>16, <1>27, <2>1, <2>2
  <1>28. \A y, z \in DOMAIN em : y < z => em[y] < em[z]
    BY <1>1 DEF Accounted
  <1>29. Accounted(t, e, all, em)
    BY <1>21, <1>22, <1>24, <1>25, <1>26, <1>27, <1>28 DEF Accounted
  <1> QED
    BY <1>8, <1>10, <1>12, <1>20, <1>29 DEF Intact

\* A ring that is new is empty: the kernel is to fill the first block.
LEMMA NewRingIntact == Intact(NewRing, FALSE, <<>>, <<>>)
  <1>1. PICK r, e, q : r = NewRing /\ e = FALSE /\ q = <<>>
    OBVIOUS
  <1>2. Blocks \in Nat /\ Blocks > 0 /\ 1 \in 1..Blocks
    BY BlocksAssumption
  <1>3. /\ DOMAIN r = {"blocks", "theirs", "filling", "mine", "num", "next", "arrived"}
        /\ r.blocks = [k \in 1..Blocks |-> [user |-> FALSE, frames |-> <<>>]]
    BY <1>1 DEF NewRing
  <1>4. r.theirs = 1 /\ r.filling = FALSE /\ r.mine = 1 /\ r.num = 0 /\ r.next = 1 /\ r.arrived = 0
    BY <1>1 DEF NewRing
  <1>5. DOMAIN r.blocks = 1..Blocks
    BY <1>3
  <1>6. \A k \in 1..Blocks : /\ DOMAIN r.blocks[k] = {"user", "frames"} /\ r.blocks[k].user = FALSE
                             /\ Frames(r, k) = <<>>
    BY <1>3 DEF Frames
  <1>7. <<>> \in Seq(Nat) /\ DOMAIN <<>> = {}
    OBVIOUS
  <1>8. RingShape(r)
    <2>1. \A k \in 1..Blocks : r.blocks[k].user \in BOOLEAN
      BY <1>6
    <2>2. r.theirs \in 1..Blocks /\ r.mine \in 1..Blocks /\ r.filling \in BOOLEAN
      BY <1>2, <1>4
    <2>3. r.num \in Nat /\ r.next \in Nat /\ r.arrived \in Nat
      BY <1>4
    <2> QED
      BY <1>3, <1>5, <1>6, <1>7, <2>1, <2>2, <2>3 DEF RingShape
  <1>9. \A k \in 1..Blocks, i \in Nat : ~ Waits(r, e, k, i)
    BY <1>6, <1>7 DEF Waits
  <1>10. Circle(r)
    <2>1. ~ Full(r)
      BY <1>2, <1>4, <1>6 DEF Full
    <2>2. \A k \in 1..Blocks : ~ r.blocks[k].user
      BY <1>6
    <2>3. \A k \in 1..Blocks : ~ (Ahead(r, k) < Ahead(r, r.theirs))
      <3>1. Ahead(r, r.theirs) = 0
        BY <1>4 DEF Ahead
      <3>2. \A k \in 1..Blocks : Ahead(r, k) \in Nat
        BY <1>8, Distances
      <3> QED
        BY <3>1, <3>2
    <2> QED
      BY <1>4, <2>1, <2>2, <2>3 DEF Circle
  <1>11. Reading(r, e)
    BY <1>1 DEF Reading
  <1>12. Ordered(r, e)
    BY <1>9 DEF Ordered
  <1>13. Accounted(r, e, q, q)
    <2>1. q \in Seq(Nat) /\ DOMAIN q = {} /\ ToSet(q) = {}
      BY <1>1 DEF ToSet
    <2> QED
      BY <1>9, <2>1 DEF Accounted
  <1>14. Intact(r, e, q, q)
    BY <1>8, <1>10, <1>11, <1>12, <1>13 DEF Intact
  <1> QED
    BY <1>1, <1>14

\* A ring whose history is right has lost, repeated and reordered nothing.
LEMMA IntactHistory ==
    ASSUME NEW r, NEW e, NEW st, NEW em, Intact(r, e, st, em)
    PROVE  /\ \A m, n \in DOMAIN em : m < n => em[m] < em[n]
           /\ ToSet(em) \subseteq ToSet(st) \ Unfit
           /\ \A n \in ToSet(st) \ Unfit : n \in ToSet(em) \/ \A m \in ToSet(em) : m < n
  <1>1. Accounted(r, e, st, em)
    BY DEF Intact
  <1>2. ToSet(em) \subseteq ToSet(st) \ Unfit
    <2>1. \A x \in ToSet(em) : \E m \in DOMAIN em : x = em[m]
      BY DEF ToSet
    <2> QED
      BY <1>1, <2>1 DEF Accounted
  <1>3. ASSUME NEW n \in ToSet(st) \ Unfit, n \notin ToSet(em), NEW x \in ToSet(em) PROVE x < n
    <2>1. PICK m \in DOMAIN em : x = em[m]
      BY DEF ToSet
    <2>2. PICK k \in 1..Blocks, i \in Nat : Waits(r, e, k, i) /\ Frames(r, k)[i] = n
      BY <1>1, <1>3 DEF Accounted
    <2>3. em[m] < Frames(r, k)[i]
      BY <1>1, <2>2 DEF Accounted
    <2> QED
      BY <2>1, <2>2, <2>3
  <1> QED
    BY <1>1, <1>2, <1>3 DEF Accounted

\* Every mapped ring is right, whoever is reading it or writing to it.
Emits(b) == position[b] = "emit"
RingInv ==
    /\ DOMAIN ring = {b \in DOMAIN backends : Kind(b) = "ring"}
    /\ DOMAIN stored = DOMAIN ring /\ DOMAIN emitted = DOMAIN ring
    /\ \A b \in DOMAIN ring : Intact(ring[b], Emits(b), stored[b], emitted[b])

\* That is what RingIntact says.
LEMMA InvariantIntact == RingInv => RingIntact
  BY IntactHistory DEF RingInv, RingIntact

\* The rings are what they were, and so is whether they are read.
LEMMA RingsStay ==
    ASSUME RingInv, UNCHANGED <<backends, ring, stored, emitted>>,
           \A b \in DOMAIN ring : Emits(b)' <=> Emits(b)
    PROVE  RingInv'
  <1>1. DOMAIN ring' = {b \in DOMAIN backends' : Kind(b)' = "ring"}
    BY DEF RingInv, Kind
  <1>2. ASSUME NEW b \in DOMAIN ring PROVE Intact(ring[b], Emits(b)', stored[b], emitted[b])
    <2>1. CASE Emits(b)
      <3>1. PICK e, f : e = Emits(b) /\ f = Emits(b)' /\ e = TRUE /\ f = TRUE
        BY <2>1 DEF Emits
      <3> QED
        BY <3>1 DEF RingInv
    <2>2. CASE ~ Emits(b)
      <3>1. PICK e, f : e = Emits(b) /\ f = Emits(b)' /\ e = FALSE /\ f = FALSE
        BY <2>2 DEF Emits
      <3> QED
        BY <3>1 DEF RingInv
    <2> QED
      BY <2>1, <2>2
  <1> QED
    BY <1>1, <1>2 DEF RingInv

\* One ring changes, and what was stored in it and emitted from it.
Becomes(f, g, b, x) == DOMAIN g = DOMAIN f /\ g[b] = x /\ \A y \in DOMAIN f \ {b} : g[y] = f[y]

\* If it is right then, all are.
LEMMA RingChanges ==
    ASSUME RingInv, NEW b \in DOMAIN ring, NEW t, NEW p, NEW q, backends' = backends,
           Becomes(ring, ring', b, t), Becomes(stored, stored', b, p), Becomes(emitted, emitted', b, q),
           \A x \in DOMAIN ring \ {b} : Emits(x)' <=> Emits(x),
           Intact(t, Emits(b)', p, q)
    PROVE  RingInv'
  <1>1. DOMAIN stored = DOMAIN ring /\ DOMAIN emitted = DOMAIN ring
    BY DEF RingInv
  <1>2. DOMAIN ring' = {x \in DOMAIN backends' : Kind(x)' = "ring"}
    BY DEF RingInv, Kind, Becomes
  <1>3. DOMAIN ring' = DOMAIN ring /\ DOMAIN stored' = DOMAIN ring /\ DOMAIN emitted' = DOMAIN ring
    BY <1>1 DEF Becomes
  <1>4. ring'[b] = t /\ stored'[b] = p /\ emitted'[b] = q
    BY DEF Becomes
  <1>5. ASSUME NEW x \in DOMAIN ring \ {b} PROVE Intact(ring'[x], Emits(x)', stored'[x], emitted'[x])
    <2>1. ring'[x] = ring[x] /\ stored'[x] = stored[x] /\ emitted'[x] = emitted[x]
      BY <1>1 DEF Becomes
    <2>2. Intact(ring[x], Emits(x), stored[x], emitted[x])
      BY DEF RingInv
    <2>3. PICK e, f : e = Emits(x) /\ f = Emits(x)' /\ e \in BOOLEAN /\ f \in BOOLEAN
      BY DEF Emits
    <2>4. e = f
      BY <2>3
    <2> QED
      BY <2>1, <2>2, <2>3, <2>4
  <1> QED
    BY <1>2, <1>3, <1>4, <1>5 DEF RingInv

\* The steps of runRing.
LEMMA ReadingKeepsRings ==
    ASSUME BackendInv, RingInv, NEW b \in DOMAIN backends, Look(b) \/ EmitFrame(b) \/ PassBack(b)
    PROVE  RingInv'
  <1>1. b \in DOMAIN ring /\ b \in DOMAIN position /\ backends' = backends
    BY KindOfPosition DEF Look, EmitFrame, PassBack, RingElse, RingInv, BackendInv
  <1>2. PICK r, st, em : r = ring[b] /\ st = stored[b] /\ em = emitted[b]
    OBVIOUS
  <1>3. Intact(r, Emits(b), st, em) /\ RingShape(r)
    BY <1>1, <1>2 DEF RingInv, Intact
  <1>4. /\ Becomes(stored, stored, b, st) /\ Becomes(emitted, emitted, b, em)
        /\ DOMAIN stored = DOMAIN ring /\ DOMAIN emitted = DOMAIN ring
    BY <1>1, <1>2 DEF RingInv, Becomes
  <1>5. CASE Look(b) /\ ~ r.blocks[r.mine].user
    <2>1. UNCHANGED <<backends, ring, stored, emitted>> /\ position' = [position EXCEPT ![b] = "poll"] /\ ~ Emits(b)
      BY <1>2, <1>5 DEF Look, RingElse, Moves, Emits
    <2>2. \A x \in DOMAIN ring : Emits(x)' <=> Emits(x)
      BY <1>1, <2>1 DEF Emits, RingInv, BackendInv
    <2> QED
      BY <2>1, <2>2, RingsStay
  <1>6. CASE Look(b) /\ r.blocks[r.mine].user
    <2>1. PICK t : t = [r EXCEPT !.num = Len(r.blocks[r.mine].frames), !.next = 1]
      OBVIOUS
    <2>2. /\ Becomes(ring, ring', b, t) /\ stored' = stored /\ emitted' = emitted
          /\ position' = [position EXCEPT ![b] = "emit"] /\ position[b] = "look"
      BY <1>1, <1>2, <1>6, <2>1 DEF Look, RingSet, RingElse, Moves, Becomes
    <2>3. \A x \in DOMAIN ring \ {b} : Emits(x)' <=> Emits(x)
      BY <2>2 DEF Emits, RingInv, BackendInv
    <2>4. Emits(b)' = TRUE /\ Emits(b) = FALSE
      BY <1>1, <2>2 DEF Emits
    <2>5. Intact(t, TRUE, st, em)
      BY <1>3, <1>6, <2>1, <2>4, LookKeepsRing
    <2>6. Intact(t, Emits(b)', st, em)
      BY <2>4, <2>5
    <2> QED
      BY <1>1, <1>4, <2>2, <2>3, <2>6, RingChanges
  <1>7. CASE EmitFrame(b)
    <2>1. PICK t, n, out : /\ t = [r EXCEPT !.next = r.next + 1] /\ n = Frames(r, r.mine)[r.next]
                           /\ out = IF n \in Unfit THEN em ELSE Append(em, n)
      OBVIOUS
    <2>2. /\ Becomes(ring, ring', b, t) /\ stored' = stored /\ position' = position
          /\ position[b] = "emit" /\ r.next <= r.num
      BY <1>1, <1>2, <1>7, <2>1 DEF EmitFrame, RingSet, RingElse, Becomes
    <2>3. Becomes(emitted, emitted', b, out)
      <3>1. CASE n \in Unfit
        <4>1. emitted' = emitted
          BY <1>2, <1>7, <2>1, <3>1 DEF EmitFrame, Frames
        <4> QED
          BY <1>4, <2>1, <3>1, <4>1
      <3>2. CASE n \notin Unfit
        <4>1. emitted' = [emitted EXCEPT ![b] = Append(@, n)]
          BY <1>2, <1>7, <2>1, <3>2 DEF EmitFrame, Frames
        <4> QED
          BY <1>1, <1>2, <1>4, <2>1, <3>2, <4>1 DEF Becomes
      <3> QED
        BY <3>1, <3>2
    <2>4. \A x \in DOMAIN ring \ {b} : Emits(x)' <=> Emits(x)
      BY <2>2 DEF Emits
    <2>5. PICK e : e = TRUE /\ e = Emits(b) /\ e = Emits(b)'
      BY <1>1, <2>2 DEF Emits
    <2>6. Intact(t, e, st, out)
      BY <1>3, <2>1, <2>2, <2>5, EmitKeepsRing
    <2>7. Intact(t, Emits(b)', st, out)
      BY <2>5, <2>6
    <2> QED
      BY <1>1, <1>4, <2>2, <2>3, <2>4, <2>7, RingChanges
  <1>8. CASE PassBack(b)
    <2>1. PICK t : t = [r EXCEPT !.blocks[r.mine].user = FALSE, !.mine = NextBlock(r)]
      OBVIOUS
    <2>2. /\ Becomes(ring, ring', b, t) /\ stored' = stored /\ emitted' = emitted
          /\ position' = [position EXCEPT ![b] = "look"] /\ position[b] = "emit" /\ r.next > r.num
      BY <1>1, <1>2, <1>8, <2>1 DEF PassBack, RingSet, RingElse, Moves, EmittedAll, Becomes
    <2>3. \A x \in DOMAIN ring \ {b} : Emits(x)' <=> Emits(x)
      BY <2>2 DEF Emits, RingInv, BackendInv
    <2>4. Emits(b)' = FALSE /\ Emits(b) = TRUE
      BY <1>1, <2>2 DEF Emits
    <2>5. DOMAIN t = DOMAIN r /\ t.mine = NextBlock(r) /\ t.filling = r.filling
      BY <1>3, <2>1 DEF RingShape
    <2>6. t.theirs = r.theirs /\ t.num = r.num /\ t.next = r.next /\ t.arrived = r.arrived
      BY <1>3, <2>1 DEF RingShape
    <2>7. t.blocks = [r.blocks EXCEPT ![r.mine] = [r.blocks[r.mine] EXCEPT !.user = FALSE]]
      BY <1>3, <2>1 DEF RingShape
    <2>8. Users(r, t, r.mine, FALSE)
      BY <1>3, <2>7, PassedOn DEF RingShape
    <2>9. Intact(r, TRUE, st, em)
      BY <1>3, <2>4
    <2>10. Intact(t, FALSE, st, em)
      BY <2>2, <2>5, <2>6, <2>8, <2>9, PassBackKeepsRing
    <2>11. Intact(t, Emits(b)', st, em)
      BY <2>4, <2>10
    <2> QED
      BY <1>1, <1>4, <2>2, <2>3, <2>11, RingChanges
  <1> QED
    BY <1>5, <1>6, <1>7, <1>8

\* The steps of the kernel.
LEMMA KernelKeepsRings ==
    ASSUME RingInv, NEW b \in DOMAIN ring, FrameArrives(b) \/ Retire(b)
    PROVE  RingInv'
  <1>1. backends' = backends /\ position' = position /\ emitted' = emitted
    BY DEF FrameArrives, Retire, RingElse
  <1>2. PICK r, st, em, e : r = ring[b] /\ st = stored[b] /\ em = emitted[b] /\ e = Emits(b)
    OBVIOUS
  <1>3. e \in BOOLEAN /\ e = Emits(b)'
    BY <1>1, <1>2 DEF Emits
  <1>4. Intact(r, e, st, em) /\ RingShape(r)
    BY <1>2 DEF RingInv, Intact
  <1>5. /\ Becomes(stored, stored, b, st) /\ Becomes(emitted, emitted, b, em)
        /\ DOMAIN stored = DOMAIN ring /\ DOMAIN emitted = DOMAIN ring
    BY <1>2 DEF RingInv, Becomes
  <1>6. \A x \in DOMAIN ring \ {b} : Emits(x)' <=> Emits(x)
    BY <1>1 DEF Emits
  <1>7. CASE FrameArrives(b) /\ Full(r)
    <2>1. PICK t : t = [r EXCEPT !.arrived = r.arrived + 1]
      OBVIOUS
    <2>2. Becomes(ring, ring', b, t) /\ stored' = stored
      BY <1>2, <1>7, <2>1 DEF FrameArrives, Full, Becomes
    <2>3. Intact(t, e, st, em)
      BY <1>4, <2>1, LostKeepsRing
    <2>4. Intact(t, Emits(b)', st, em)
      BY <1>3, <2>3
    <2> QED
      BY <1>1, <1>5, <1>6, <2>2, <2>4, RingChanges
  <1>8. CASE FrameArrives(b) /\ ~ Full(r)
    <2>1. PICK n, o, p, t : /\ n = r.arrived + 1 /\ o = r.theirs
                            /\ p = IF r.filling THEN Append(r.blocks[o].frames, n) ELSE <<n>>
                            /\ t = [r EXCEPT !.arrived = n, !.filling = TRUE, !.blocks[o].frames = p]
      OBVIOUS
    <2>2. Becomes(ring, ring', b, t)
      BY <1>2, <1>8, <2>1 DEF FrameArrives, Full, Becomes
    <2>3. Becomes(stored, stored', b, Append(st, n))
      <3>1. stored' = [stored EXCEPT ![b] = Append(@, n)]
        BY <1>2, <1>8, <2>1 DEF FrameArrives, Full
      <3> QED
        BY <1>2, <1>5, <3>1 DEF Becomes
    <2>4. DOMAIN t = DOMAIN r /\ t.filling = TRUE /\ t.theirs = r.theirs /\ t.mine = r.mine
      BY <1>4, <2>1 DEF RingShape
    <2>5. t.num = r.num /\ t.next = r.next /\ t.arrived = n
      BY <1>4, <2>1 DEF RingShape
    <2>6. t.blocks = [r.blocks EXCEPT ![o] = [r.blocks[o] EXCEPT !.frames = p]]
      BY <1>4, <2>1 DEF RingShape
    <2>7. StoredIn(r, t, r.theirs, p)
      <3>1. /\ o \in 1..Blocks /\ DOMAIN r.blocks = 1..Blocks
            /\ \A l \in 1..Blocks : DOMAIN r.blocks[l] = {"user", "frames"}
        BY <1>4, <2>1 DEF RingShape
      <3>2. DOMAIN t.blocks = DOMAIN r.blocks
        BY <2>6, <3>1
      <3>3. PICK k : k = [r.blocks[o] EXCEPT !.frames = p]
        OBVIOUS
      <3>4. DOMAIN k = DOMAIN r.blocks[o] /\ k.user = r.blocks[o].user /\ k.frames = p
        BY <3>1, <3>3
      <3>5. t.blocks[o] = k /\ \A l \in 1..Blocks \ {o} : t.blocks[l] = r.blocks[l]
        BY <2>6, <3>1, <3>3
      <3> QED
        BY <2>1, <3>1, <3>2, <3>4, <3>5 DEF StoredIn, Frames
    <2>8. /\ r.filling => p = Append(Frames(r, r.theirs), n)
          /\ ~ r.filling => p = <<n>>
      BY <2>1 DEF Frames
    <2>9. Intact(t, e, Append(st, n), em)
      <3>1. PICK all : all = Append(st, n)
        OBVIOUS
      <3>2. e \in BOOLEAN /\ ~ Full(r) /\ n = r.arrived + 1
        BY <1>3, <1>8, <2>1
      <3>3. Intact(t, e, all, em)
        BY <1>4, <2>4, <2>5, <2>7, <2>8, <3>1, <3>2, ArriveKeepsRing
      <3> QED
        BY <3>1, <3>3
    <2>10. Intact(t, Emits(b)', Append(st, n), em)
      BY <1>3, <2>9
    <2> QED
      BY <1>1, <1>5, <1>6, <2>2, <2>3, <2>10, RingChanges
  <1>9. CASE Retire(b)
    <2>1. PICK t : t = [r EXCEPT !.filling = FALSE, !.blocks[r.theirs].user = TRUE,
                                 !.theirs = (@ % Blocks) + 1]
      OBVIOUS
    <2>2. Becomes(ring, ring', b, t) /\ stored' = stored /\ r.filling
      BY <1>2, <1>9, <2>1 DEF Retire, RingSet, Becomes
    <2>3. DOMAIN t = DOMAIN r /\ t.filling = FALSE /\ t.theirs = (r.theirs % Blocks) + 1
      BY <1>4, <2>1 DEF RingShape
    <2>4. t.mine = r.mine /\ t.num = r.num /\ t.next = r.next /\ t.arrived = r.arrived
      BY <1>4, <2>1 DEF RingShape
    <2>5. t.blocks = [r.blocks EXCEPT ![r.theirs] = [r.blocks[r.theirs] EXCEPT !.user = TRUE]]
      BY <1>4, <2>1 DEF RingShape
    <2>6. Users(r, t, r.theirs, TRUE)
      BY <1>4, <2>5, PassedOn DEF RingShape
    <2>7. Intact(t, e, st, em)
      BY <1>4, <2>2, <2>3, <2>4, <2>6, RetireKeepsRing
    <2>8. Intact(t, Emits(b)', st, em)
      BY <1>3, <2>7
    <2> QED
      BY <1>1, <1>5, <1>6, <2>2, <2>8, RingChanges
  <1> QED
    BY <1>7, <1>8, <1>9

\* Every other step of a backend is one of a loop that reads no ring.
LEMMA OthersKeepRings ==
    ASSUME BackendInv, RingInv, NEW b \in DOMAIN backends, NEW v, NEW w,
           position[b] = v, position' = [position EXCEPT ![b] = w], v # "emit", w # "emit",
           UNCHANGED <<backends, ring, stored, emitted>>
    PROVE  RingInv'
  <1>1. \A x \in DOMAIN ring : x \in DOMAIN position
    BY DEF BackendInv, RingInv
  <1>2. \A x \in DOMAIN ring : Emits(x)' <=> Emits(x)
    BY <1>1 DEF Emits
  <1> QED
    BY <1>2, RingsStay

\* A step that moves no backend and leaves the rings alone.
ringVars == <<backends, position, ring, stored, emitted>>
LEMMA StillRings == RingInv /\ UNCHANGED ringVars => RingInv'
  <1> SUFFICES ASSUME RingInv, UNCHANGED ringVars PROVE RingInv'
    OBVIOUS
  <1>1. \A x \in DOMAIN ring : Emits(x)' <=> Emits(x)
    BY DEF Emits, ringVars
  <1> QED
    BY <1>1, RingsStay DEF ringVars

\* The steps of the backends.
LEMMA BackendKeepsRings ==
    ASSUME CommandInv, RingInv, NEW b \in DOMAIN backends, Backend(b) \/ Fail(b) \/ Report(b)
    PROVE  RingInv'
  <1>1. BackendInv
    BY DEF CommandInv
  <1>2. CASE Look(b) \/ EmitFrame(b) \/ PassBack(b)
    BY <1>1, <1>2, ReadingKeepsRings
  <1>3. CASE Poll(b, canceled)
    <2>1. PICK w : w = IF canceled THEN "returned" ELSE IF Kind(b) = "ring" THEN "look" ELSE "receive"
      OBVIOUS
    <2>2. /\ position[b] = "poll" /\ position' = [position EXCEPT ![b] = w]
          /\ UNCHANGED <<backends, ring, stored, emitted>>
      BY <1>3, <2>1 DEF Poll, Moves
    <2>3. PICK v : v = "poll" /\ v # "emit" /\ w # "emit"
      BY <2>1
    <2> QED
      BY <1>1, <2>2, <2>3, OthersKeepRings
  <1>4. CASE Receive(b) \/ ReadUDP(b, canceled)
    <2>1. PICK v, w : /\ position[b] = v /\ position' = [position EXCEPT ![b] = w] /\ v # "emit" /\ w # "emit"
                      /\ UNCHANGED <<backends, ring, stored, emitted>>
      BY <1>4 DEF Receive, ReadUDP, Moves, CaptureElse
    <2> QED
      BY <1>1, <2>1, OthersKeepRings
  <1>5. CASE CallFails(b)
    <2>1. PICK v, w : /\ position[b] = v /\ position' = [position EXCEPT ![b] = w] /\ v # "emit" /\ w # "emit"
                      /\ UNCHANGED <<backends, ring, stored, emitted>>
      BY <1>5 DEF CallFails, Moves
    <2> QED
      BY <1>1, <2>1, OthersKeepRings
  <1>6. CASE Report(b)
    <2>1. PICK v, w : /\ position[b] = v /\ position' = [position EXCEPT ![b] = w] /\ v # "emit" /\ w # "emit"
                      /\ UNCHANGED <<backends, ring, stored, emitted>>
      BY <1>6 DEF Report, Moves, CaptureElse
    <2> QED
      BY <1>1, <2>1, OthersKeepRings
  <1> QED
    BY <1>2, <1>3, <1>4, <1>5, <1>6 DEF Backend, Fail, BackendStep

\* The rings of a run that begins are new.
LEMMA EnterKeepsRings ==
    ASSUME CommandInv, RingInv, RunEnter
    PROVE  RingInv'
  <1>1. PICK s : s = openCaptureBackends(protocols, captureInterfaces(args.interfaces, args.loopback)) /\ Enter(s)
    BY DEF RunEnter
  <1>2. CASE parent # "nil" \/ canceled \/ s.err
    BY <1>1, <1>2, StillRings DEF Enter, captureVars, ringVars
  <1>3. CASE ~ (parent # "nil" \/ canceled \/ s.err)
    <2>1. /\ backends' = s.out
          /\ position' = [b \in DOMAIN s.out |->
               CASE s.out[b].kind = "ring" -> "look" [] s.out[b].kind = "raw" -> "poll" [] OTHER -> "read"]
          /\ ring' = [b \in s.mapped |-> NewRing]
          /\ stored' = [b \in s.mapped |-> <<>>] /\ emitted' = [b \in s.mapped |-> <<>>]
      BY <1>1, <1>3 DEF Enter
    <2>2. Sound(s)
      <3>1. PICK found : found = captureInterfaces(args.interfaces, args.loopback)
        OBVIOUS
      <3>2. \E V : found.ifaces \in Seq(V)
        BY <3>1, InterfacesListed DEF CommandInv, MachineInv
      <3> QED
        BY <1>1, <3>1, <3>2, OpenSound DEF CommandInv, MachineInv
    <2>3. DOMAIN s.out = 1..Len(s.out) /\ s.mapped = {b \in DOMAIN s.out : s.out[b].kind = "ring"}
      BY <1>3, <2>2 DEF Sound
    <2>4. DOMAIN ring' = {b \in DOMAIN backends' : Kind(b)' = "ring"}
      BY <2>1, <2>3 DEF Kind
    <2>5. DOMAIN stored' = DOMAIN ring' /\ DOMAIN emitted' = DOMAIN ring'
      BY <2>1
    <2>6. ASSUME NEW b \in DOMAIN ring' PROVE Intact(ring'[b], Emits(b)', stored'[b], emitted'[b])
      <3>1. b \in s.mapped /\ ring'[b] = NewRing /\ stored'[b] = <<>> /\ emitted'[b] = <<>>
        BY <2>1, <2>6
      <3>2. position'[b] = "look"
        BY <2>1, <2>3, <3>1
      <3>3. PICK e : e = FALSE /\ e = Emits(b)'
        BY <3>2 DEF Emits
      <3> QED
        BY <3>1, <3>3, NewRingIntact
    <2> QED
      BY <2>4, <2>5, <2>6 DEF RingInv
  <1> QED
    BY <1>2, <1>3

\* At first there are no backends and no rings.
LEMMA InitRings == Init => RingInv
  <1> SUFFICES ASSUME Init PROVE RingInv
    OBVIOUS
  <1>1. backends = <<>> /\ ring = <<>> /\ stored = <<>> /\ emitted = <<>>
    BY DEF Init
  <1>2. DOMAIN <<>> = {}
    OBVIOUS
  <1>3. DOMAIN backends = {} /\ DOMAIN ring = {} /\ DOMAIN stored = {} /\ DOMAIN emitted = {}
    BY <1>1, <1>2
  <1> QED
    BY <1>3 DEF RingInv

\* Every step of the command keeps the rings right.
LEMMA StepKeepsRings == CommandInv /\ RingInv /\ [Next]_vars => RingInv'
  <1> SUFFICES ASSUME CommandInv, RingInv, [Next]_vars PROVE RingInv'
    OBVIOUS
  <1>1. CASE UNCHANGED vars
    BY <1>1, StillRings DEF vars, captureVars, ringVars
  <1>2. CASE Start \/ RunPlain \/ InitDashboard \/ FirstRefresh \/ Tick \/ TakeKey \/ ParentDone \/ Leave
    BY <1>2, StillRings DEF Start, RunPlain, InitDashboard, FirstRefresh, Tick, TakeKey, ParentDone, Leave,
                            DashboardElse, captureVars, ringVars
  <1>3. CASE (\E key \in Keys \cup {"q"} : Press(key)) \/ Interrupt \/ World
    BY <1>3, StillRings DEF Press, Interrupt, World, captureVars, ringVars
  <1>4. CASE Network
    BY <1>4, KernelKeepsRings DEF Network
  <1>5. CASE RunEnter
    BY <1>5, EnterKeepsRings
  <1>6. CASE \E b \in DOMAIN backends : Backend(b) \/ Fail(b) \/ Report(b)
    BY <1>6, BackendKeepsRings
  <1>7. CASE Propagate \/ CloseBackends \/ RunReturn
    BY <1>7, StillRings DEF Propagate, CloseBackends, RunReturn, captureVars, ringVars
  <1> QED
    BY <1>1, <1>2, <1>3, <1>4, <1>5, <1>6, <1>7 DEF Next, Program

\* However many blocks a ring has, however many frames reach it and however the
\* kernel and runRing take turns, what a backend emits is what was stored in its
\* ring, each frame once and in order.
THEOREM RingsLoseNothing == Spec => []RingIntact
  <1>1. Init => CommandInv /\ RingInv
    BY InitCommand, InitRings
  <1>2. CommandInv /\ RingInv /\ [Next]_vars => (CommandInv /\ RingInv)'
    BY StepKeepsCommand, StepKeepsRings
  <1>3. CommandInv /\ RingInv => RingIntact
    BY InvariantIntact
  <1> QED
    BY <1>1, <1>2, <1>3, PTL DEF Spec
=============================================================================
