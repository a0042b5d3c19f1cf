# A TLA+ model of omnidiscover

omnidiscover listens passively for LLDP, CDP, MNDP and mDNS, fuses what it hears
into devices and links, and reports changes to a handler, on a channel or in a
terminal. This directory models it from the frame to the screen: the packet filter
and the decoders, the pipeline of goroutines (`engine.go`), the fused store and its
expiry (`fusion.go`), classification and the vendor registry, the queue behind
`Engine.Stream` (`stream.go`), the capture backends, and the command with its
dashboard.

`PROJECT.json` lists components, runs, mutants, the map from definitions to source
lines, findings, hazards and theorems. To repeat a run or the proofs:

    tlc -workers 2 -config FusionUDP.cfg MCFusion
    tlapm StreamQueueProofs.tla

## 1. The system

| Component | State | Operations | Modelled |
| --- | --- | --- | --- |
| Capture backends (`capture_*.go`) | sockets, mapped rings | choose interfaces, open, poll, read, fail, close | `Capture` |
| Packet filter generator (`capture_common.go`) | none | build a BPF program | `PacketFilter` |
| Frame decoder and router (`ethernet.go`, `routeCapture`) | none | bytes to a protocol and a payload | `Routing` |
| Payload decoders (`lldp.go`, `cdp.go`, `mndp.go`, `mdns.go`) | one reused message per worker | payload to message and status | `Decoders` |
| Engine (`engine.go`) | flags `closed`, `started`, `running`; `cancel`; packet slots; channels | `Run`, `Close`, `enqueue`, `decodeWorker`, `fusionLoop` | `Engine` |
| Fused store (`fusion.go`) | slabs of devices, links and DNS records, free lists, three indexes, a timing wheel | four `observe` functions, `tick` | `FusionBase`, `FusionDNS`, `FusionLinks`, `Fusion` |
| Attributes of a device (`mergeText`, `rebuildServices`, ...) | names with provenance, vendor, uptime, services, class | merge, choose, rebuild, reset | `Attributes` |
| Classifier (`classifier.go`) | compiled rules | compile, classify a device | `Classifier` |
| Vendor registry (`vendor.go`) and its generator (`genoui`) | ten generated tables | generate, look up | `VendorRegistry` |
| Stream queue (`stream.go`) | pending map, order, notify and done channels | `enqueue`, `pop`, `compact`, `pump`, `close`, `Stream` | `StreamQueue`, `EventConflation` |
| Snapshots and copies (`clone.go`, `Snapshot`) | reused slices of the caller | copy under a lock | `Dashboard` |
| Command, configuration, TUI (`main.go`, `config.go`, `tui.go`) | flags, terminal, filter, offset, rows | parse, run, keys, refresh, exit | `Command`, `Dashboard` |
| Android NSD (`android_nsd.go`) | none | accessors of a service | no |

How they interact. A backend goroutine reads a frame and calls `routeCapture`,
which copies the payload into a packet slot and offers it to the queue of its
protocol without blocking. One worker per protocol decodes the slot into its only
message, sends a pointer to it on `decoded`, and waits for an acknowledgement
before it releases the slot. The fusion goroutine takes envelopes and the ticks of
a one-second ticker, changes the store, and calls the handler. `Stream` runs the
engine with `queue.enqueue` as the handler; a pump goroutine moves events from the
queue to the channel the caller reads. The command runs the engine with a printer
as the handler, or beside a dashboard that takes a snapshot twice a second and after
every key. `Run` ends by closing, in this order,
sockets, queues and `decoded`, waiting each time for the goroutines that send.

What is hard:

- *Concurrency*: `Run`, `Close` and a second `Run` race on three atomic flags and
  a function pointer; the pump parks while an event arrives; a worker's message is
  shared with fusion; channels are closed while others send.
- *Bounds*: slots, queues, slabs and the pending map all drop or evict when full.
- *Ordering and identity*: one host is known by address, by claimed MAC or by
  observed MAC, in any order; devices are promoted and merged, which moves links
  and records and rewrites keys in three indexes.
- *Reuse*: messages, slab entries, services and snapshots are cut and grown again
  over cells that still hold what was there before.
- *Failure*: any of several sockets may fail to open, and any backend may fail while
  others run or while the run is ending.
- *Two deciders*: the kernel's filter and `routeCapture` judge the same frame, the
  classifier's prefilter and its predicates the same device.
- *Time*: evidence of several protocols expires separately; wheel entries are
  rescheduled; expiry is rounded to ticks; goodbyes and rescues meet a tick.

What makes each component correct:

- *Engine*: slots are neither lost nor shared, a message is not overwritten while
  it is read, shutdown neither panics nor strands packets, a canceled `Run` always
  returns, errors are not lost.
- *Store*: slabs, owners and indexes agree after every step; a link is removed
  when, and only when, its last evidence has expired; events let a handler keep an
  exact table of links; nothing known of a device is lost by merging.
- *Data path*: a whole frame of an enabled protocol reaches its decoder with the
  payload its sender wrote, whatever is in between; a message holds its own packet
  and nothing of an earlier one; the vendor is that of the longest prefix and the
  class that of the best rule; the shown name is stable; changes are announced.
- *Command*: whatever was opened is released, whoever ends the run it ends, and the
  screen is a page of the store.
- *Stream queue*: bounded; no lost wake-up; the reader never sees a link go back
  in time, and misses nothing but what was counted as dropped.

## 2. Modules

| Module | Lines of code it stands for | Role |
| --- | --- | --- |
| `FusionBase` | slabs, maps, scheduling | the record `fusionState` and its helpers |
| `FusionDNS` | `cacheDNS` ... `flushDNSSet` | the record cache |
| `FusionLinks` | `deviceFor` ... `removeDevice`, `upsertLink` ... `mergeLinks` | identity and links |
| `Fusion` | `observe*`, `tick`, `fusionLoop` | the state machine and its properties |
| `Engine` | `engine.go` without `Stats` and `Snapshot` | the goroutines and their shutdown |
| `StreamQueue` | `stream.go`, `Stream` | the queue, its pump and the reader |
| `EventConflation` | none | what `Stream` promises, as an abstract specification |
| `StreamQueueProofs` | none | theorems about `StreamQueue` |
| `EngineProofs` | none | theorems about `Engine` |
| `Loops` | none | the rule for loops, for the proofs about `Fusion` and `Command` |
| `FusionLinkProofs`, `FusionDNSProofs`, `FusionDeviceProofs`, `FusionProofs` | none | facts about slices that list a set, the invariant of the store, and that the operations on links, on records and on devices keep it |
| `CommandProofs` | none | theorems about `Capture` and `Command` |
| `PacketFilter` | `discoveryFilter`, `filterBuilder` | the program, and the machine that runs it |
| `Routing` | `ethernet.go`, `routeCapture` | frames, filter and router |
| `Decoders` | `lldp.go`, `cdp.go`, `mndp.go`, `mdns.go`, `addIssue` | four decoders over reused messages |
| `VendorRegistry` | `genoui`, `vendor.go`, the generated tables | generator and lookup |
| `Classifier` | `classifier.go` | compilation and choice of a rule |
| `Attributes` | `mergeText` ... `selectCanonical`, `rebuildServices`, `Reset`, the observe functions' attributes | what is known of a device |
| `DataPath` | none | composes `Routing`, `Decoders`, `VendorRegistry`, `Classifier`, `Attributes` |
| `Capture` | `capture_*.go` | opening, the loops of the backends, the ring |
| `Dashboard` | `Snapshot`, `clone.go`, `tui.go` | copies, rows and what is on the screen |
| `Command` | `main.go`, `runDashboard`, `config.go`, `Run` as they see it | composes `Capture` and `Dashboard` |
| `MCFusion`, `MCEngine`, `MCStreamQueue`, `MCDataPath`, `MCCommand` | none | constants, inputs, symmetry |

Definitions carry the names of the functions they translate. A definition whose
comment begins with *Mutant* is a plausible mistake in the definition that follows
it; `PROJECT.json` pairs it with the property that must then fail.

### Fusion

`fusion.go` passes one `*fusionState` to all its functions, and only the fusion
goroutine changes it. The model passes a record, and every function is an operator
from records to records; `Observe(o)` and `Tick` are one atomic step each because
the code holds `stateMu` for the whole of it. A loop over a slice is a fold whose
body is an operator of its own (`moveLink`, `flushRecord`, `fireLink`): proofs are
about one turn and then about the loop. `tick` moves the cursor (`turnWheel`), goes
over the links that are due (`fireLinks`), then over the records (`fireRecords`),
and then over the devices that lost records (`settleRecords`). `fusion.events` are the events of
the last step, `now` is the clock, and `view` is the table of a handler that adds
a link for Added and Changed and deletes it for Expired and Evicted.

Abstractions:

- A device's knowledge is a set of facts (observed MAC, claimed MAC, address).
  Names, vendor, model, capabilities, uptime, services and class are in
  `Attributes`: they change which fields an event names, and no decision of the
  store reads them but the classifier, which is the constant `Classify` here.
- The chassis and port of the far end are one value, `remote`.
- A DNS record stands for its owner, type, class and RDATA; `makeDNSKey` is taken
  as injective. The services of a device are the records it had when they were
  last rebuilt, which is what matters for staleness.
- The wheel (slots, rounds, linked lists) is the number of ticks an entry still
  has to wait, with entries in the order of insertion, newest first, which is the
  order in which the code visits a slot.
- An observation's timestamp is the time it is processed, and the ticker drops no
  tick. Time is counted in halves of a second, so that observations fall on and
  between ticks.

### Engine

`run[r]` says at which statement a call of `Run` is; each statement that reads or
writes shared state is an action. A backend is reading, taking a slot, offering
it, or failing; a worker is receiving, decoding or waiting for its
acknowledgement. Whether a frame belongs to an enabled protocol and whether it
decodes is nondeterministic. Sending on a closed channel and closing one twice set
`panicked`, after which nothing moves. `Fuse` is what `Fusion` models in detail;
the tick shares nothing with the pipeline and is left out here.

### StreamQueue

`enqueue` is two steps, because the token is sent after the unlock; `pop` is one,
because it holds the lock. The pump has one state per select and per call of
`pop`. `history` and `seen` are history variables: what was emitted for a link,
with a mark for what was dropped, and what the reader has of it. What events of a
link say (kind and change set) is the constant `Says`, and `Emits` allows any of it
at any time: the key of an event says little about those before it, since promotion
gives links new keys (a key may change that was never added) and merging ends a link
by a change and lets one that is known be added again. Only `ChangesCovered` looks
at what events say, one link at a time, so in the runs one link says everything or
none does, and the others only change.

### DataPath

The stages of the data path hand over values and share no state but the registry
tables, so a behaviour of `DataPath` runs one of them; each has its own variables
and its own inputs.

- *Routing*. A frame is what a sender means: network, tags, header lengths,
  fragment bits, chain of extension headers, ports, padding, and how much of it was
  cut. `Encode` (external) writes its bytes; filter and router read bytes, as in
  the code. The filter is assembled with labels and fixups and run by a classic BPF
  machine (external). Offsets, 8-bit length arithmetic and the eight steps of the
  walk are kept; addresses, checksums and payload contents are not.
- *Decoders*. A packet is a sequence of TLVs or records, each well formed or not,
  which keeps the order of checks and early exits and drops the bytes inside a
  value. A DNS name is read from numbered cells that are a label, a root, a pointer
  or garbage. `message` is the worker's own: a slice is its cells and a length, and
  growing it uncovers what the last packet left. `Reset`, and what each field is
  assigned, decide whether that shows.
- *VendorRegistry*. The tables are what `genoui` makes of a registry, for any widths
  of the three kinds of assignment. `LookupMACVendor` searches them as the code does.
- *Classifier* and *Attributes*. Two entries of the slab take observations, are
  merged, evicted and used again, and records run out. Texts are opaque but for
  padding and case; a rank is computed from confidence and protocols as in the code.

### Command

`Capture` opens sockets in the order of the code with a set of calls that fail, and
then runs a loop per backend; descriptors and mappings are sets, so that what is
never released shows. Backends are numbered in the order in which they are opened, and
each has a descriptor and a ring of its own: `-interfaces` may name an interface
twice. The ring has the kernel on its other side (external): it
fills blocks, retires them and loses frames when it has no block. `Dashboard` copies
a store that changes on its own into reused cells and draws it. `Command` is
`run()` of `main.go` around both, with `Engine.Run` reduced to what they can see of
it: the context, the backends, their errors and the result. What happens to frames
in between is `Engine`.

## 3. Runs

Passing runs. Numbers are distinct states.

| Run | States | Bounds, and why they are enough | Shows |
| --- | --- | --- | --- |
| `FusionRaw` | 122,821 | 2 devices, 2 links and 1 record for 3 hosts, so all three slabs evict; TTLs of 1 and 2 s within 4 s, so evidence expires separately and is refreshed | slabs, the link index, timely expiry, truthful events |
| `FusionUDP` | 62,940 | 3 devices, 2 links; a host on IPv4 and IPv6 with mDNS and MNDP, so it is promoted and merged, with and without links and records of its own; or a host with one set of 2 records, TTLs of 0 to 3 s, 6.5 s in half seconds | ownership, indexes, evidence, facts; expiry of records through goodbye, rescue and flush; current services |
| `StreamQueue` | 1,765,868 | 3 links, 2 pending, compaction threshold 1, 2 events per link, of one link of all kinds in every order and with a field that changes or not; symmetric in the others | queue invariants, order, freshness, merged events |
| `StreamLive` | 60,920 | 2 links, 1 pending, 3 events per link of one kind | delivery, the end of the stream, refinement |
| `EnginePipeline` | 213,614 | 2 protocols, 2 backends, 4 frames, 4 slots | slots and messages have one owner, shutdown |
| `EngineLive` | 181,823 | 2 calls of `Run`, 1 of `Close`, 1 protocol, 2 frames | `cancel` belongs to the running run, a canceled run returns, queues move |
| `DataPath` | 108,312 | every frame of a family under 5 taggings (none to one too many) and 15 sets of protocols, with the longest extension headers, 8 and 9 of them, cut and padded; up to 3 TLVs or records after a packet that fills the message; all names of 4 cells; registries with rows at both ends; 3 observations of 5 messages under 3 rule lists, for classes and services; 4 of 5 messages with 2 alternatives besides the first and 2 s, where one and two protocols give values with confidence 2 to 4, so ranks rise and alternatives are replaced and refused, and uptimes agree, jump or are missing | the data path against reference definitions; the name shown, announced changes |
| `Command` | 129,201 | 4 systems, up to 3 interfaces or one named twice, every place where opening may fail and several at once, 5 frames in a ring of 2 blocks, 3 keys, 3 stores and 3 terminal heights | release, ring, screen, termination |

Queue and slab sizes are those at which full, empty and one-short differ; larger
ones add states of the same kind. The `until` of a network of `MCFusion`,
`MaxFrames`, `MaxHistory`, the `observations` of a network of `MCDataPath` and `MaxSeconds` bound the length of a
behaviour. Deadlock is not checked: an engine that has returned, a
stream that has ended and a clock at its `until` legitimately stop; that nothing
stops too early is what the liveness properties say.

Where a property is checked matters. `LinkIndexComplete`, `Timely` and
`ViewAgrees` hold as long as no devices are merged, and are checked over raw
sockets, where every observation has a MAC and nothing is; `FusionOneLink` shows
what merging does to the index. `ServicesCurrent` holds as long as no record is
evicted, and `FusionUDP` has room for all.

Violated statements of the repository. Each run states one sentence of a comment
or a test, and TLC finds a behaviour of the code that breaks it:

| Run | Statement | What happens |
| --- | --- | --- |
| `FusionOneLink` | fusion_test.go:397, one link for IPv4 and IPv6 | merging links removes the survivor from `linkByKey`; the next packet adds a twin |
| `EngineClose` | engine.go:117, Run ends with Close | Close before `cancel` is set has no effect |
| `EngineTwice` | engine.go:117, Run goes on until told | two checks in two steps let a second Run in, which panics |
| `ServiceReuse` | model.go:294, Reset releases logical contents | a service of a new device shows the port of one of the device before it |

The model has other behaviours that differ from a sentence of the documentation.
They follow from one definition each and have no run of their own:

- model.go:161, device keys are stable: `promoteDevice` replaces an address key by
  a MAC key and rewrites the keys of links, without an event. A stream then has
  changes of a key that was never added.
- fusion.go:593, a link merged away is reported as changed, not as gone, under the key
  that the surviving link has; and that one may be added a second time
  (`FusionOneLink`).
- README:210, refreshes are silent: LLDP and CDP of one neighbour share a link and
  overwrite each other's remote identifiers; after a promotion over UDP sockets the
  address finds no device and a second one is added.
- fusion.go:437, no redundant segment link: merging moves one beside a physical link.
- README:233, the one-second rescue window: the next tick removes the record.
- README:212, claimed identifiers never merge devices: without a source MAC the
  claimed one is the key.
- stream.go:102, drain if the context is alive: the first select of `pump` returns on `done`.
- README:162, drops mean a full queue: the packet may have found no slot.
- Over SNAP, a PID equal to the EtherType of LLDP, IPv4 or IPv6 is taken by
  `routeCapture` and stopped by the filter.
- ethernet.go:179 and :194 add to a length byte before widening it: an option length
  of 255 becomes 0 and the frame is dropped; an AH length of 254 or 255 becomes 0 or
  1 and the walk goes on inside the header.
- lldp.go:8-18 numbers organizational TLVs 9 by iota; the standard says 127.
- The addresses before a malformed entry of a CDP address TLV are kept.
- A regular expression that matches the empty text, or an Exact "", does not match a
  field without values: the prefilter skips the rule. `ClassifiedByBestRule` is
  checked over rules without such predicates.
- `tick` rebuilds services and leaves the class, and attributes that `mergeDevices`
  brings are not named in Changed; `ChangesAnnounced` excludes both. Otherwise it
  checks every field of a device, uptime as far as it jumps or another protocol tells it.
- When opening fails, the rings mapped before are not unmapped (`CaptureReleased`
  says which).

`DNSAtMostASecondEarly` and `Timely` say what does hold instead of the rescue
window: a record goes at most one second early, a link never early and never more
than a tick late.

Fairness. `StreamQueue!FairSpec` is weakly fair to the producer's pending send,
the pump, `close`, the join and the reader: the first four are goroutines that
block only in the selects of the model, and without a reader nothing can be
delivered. `Engine!FairSpec` is weakly fair to every goroutine and to calls that
have begun. `Command!Fairness` is weakly fair to the command's own steps, to each
backend's loop and report, and to the cases of the dashboard's select, of which Go
picks a ready one at random; polls and reads end at their deadlines. Frames, keys,
failures, cancellation, calls of `Run` and of `Close` are not
fair. That a canceled backend returns is justified by the read deadline of a second
in `udpBackend.run`, the poll of half a second in `linuxRawBackend.run`, and by
`close`; `runRing` looks at its context only when it finds no ready block, so
there it needs traffic to pause, which the bounds on frames grant (listed as a
hazard).

## 4. Proofs

Every theorem holds for all values of the constants that satisfy the named
assumptions of the modules that declare them; TLC evaluates these assumptions on
the constants of every run.

### The stream queue

`StreamQueueProofs`, for every finite set of links, every `MaxPending > 0`, every
compaction threshold and every length of history:

| Theorem | Statement |
| --- | --- |
| `TypeCorrect` | `Spec => []TypeOK` |
| `QueueCorrect` | `Spec => [](QueueInv /\ OrderBounded)` |
| `NoWakeupLost` | `Spec => []NoLostWakeup` |
| `DeliveryCorrect` | `Spec => []InOrder` |
| `NewestOnItsWay` | `Spec => []Fresh` |
| `QueueImplementsConflation` | `Spec => ImplementsConflation` |
| `CoalescingCorrect` | `Spec => []ChangesCovered` |

The assumptions are those of `StreamQueue`: finitely many links, a positive
capacity (which `Config.validate` ensures) and natural-number bounds. Nothing is
assumed of `Says`: the theorems hold for links that get any events in any order.

`TypeOK /\ QueueInv` is inductive: types alone are not, because `pop` indexes the
map with what it finds in `order`. `QueueInv` is the agreement of map and index
(unread entries are exactly the pending keys, each once). With it `pop` takes the
first unread entry (`PopFirst`), finds nothing only when nothing is pending
(`PopEmpty`), and `compact` keeps the unread part (`CompactKeeps`). `OrderBounded`
and `NoLostWakeup` are then inductive relative to it.

For what the reader sees, `FlightInv == TypeOK /\ QueueInv /\ InOrder /\ Kept /\
Fresh` is inductive. `InOrder` orders the versions of a link across reader,
channel, pump and map; `Kept` adds that every event in flight is of a state the
link had and that was not dropped, which is what the refinement needs when the
reader takes it. The refinement maps an emitted event to `Publish`, `Consume` to
`Show`, and every other step to a stutter.

What a merged event says rests on `CoverInv`, inductive relative to `FlightInv`:
every event in flight names the changes since the event before it, is a removal if
its last state is, and an addition if one of its states is and only changes follow
(`Right`, which looks only at that event and the earlier ones, so later ones do not
disturb it);
every state that was not dropped has been read or lies within the reach of an event
in flight; and a pending event is of the newest state, so that merging into it
leaves no gap.

### The engine

`EngineProofs`, for any sets of runs, protocols and backends, any sizes of the
queues, as many slots as the code allocates for them, and any number of frames:

| Theorem | Statement |
| --- | --- |
| `TypeCorrect` | `Spec => []TypeOK` |
| `BuffersAreOwned` | `Spec => []BuffersOwned` |
| `ShutdownDrains` | `Spec => []DrainedOnReturn` |
| `PanicNeedsSecondRun` | `Spec => []NoPanic` |
| `CancelReachesRun` | `Spec => []CancelIsActive` |

None of these is inductive. The invariant `EngineInv` adds to the types

- `Exclusive`: at most one `Run` is between the compare-and-swap of `running` and
  its reset, and `cancel` is its own while it is published;
- `Served`: which goroutines may be alive at which statement of that `Run`, which
  is what the wait groups promise;
- `Shut`: which channels are closed when, and that a panic needs channels that an
  earlier `Run` closed;
- `Slotted`: every slot is free, in one queue, with one backend or with one worker,
  and never in two places;
- `Messages`: an envelope in `decoded` or with fusion is that of a worker that waits
  for its acknowledgement, so the worker cannot write the message meanwhile;
- `Counted`: every routed packet is still on its way, or was rejected or fused.

That a worker's slot is back before it decodes the next packet, and that fusion
outlives the workers, needs all of them together. `NoPanic` carries the exception
that `EngineTwice` exhibits: a second `Run` that passed the check of `started`.

### The store

`FusionProofs`, for any sets of addresses, interfaces and records, any limits of the
three slabs, any networks (sets of messages) and any length of time:

| Theorem | Statement |
| --- | --- |
| `StoreConsistent` | `Spec => []FusionInv` |
| `NoEntryLeaks` | `Spec => []SlabsPartitioned` |
| `OwnersAgree` | `Spec => []OwnershipAgrees` |
| `IndexesNeverDangle` | `Spec => []IndexesSound` |
| `EvidenceStaysLive` | `Spec => []EvidenceLive` |
| `NothingKnownIsLost` | `Spec => FactsKept` |
| `RecordsStayDue` | `Spec => []TimeInv` |
| `RecordsLeaveInTime` | `Spec => []DNSTimely` |
| `RecordsLeaveNoEarlier` | `Spec => DNSAtMostASecondEarly` |

The second to the fifth follow from `FusionInv`, and none is inductive alone. The invariant is
about slices as lists of sets: `Lists(q, S)` says that `q` lists the elements of
`S`, each once. It says so of the three free lists (the entries not in use), of the
lists of every device (the links and records that point back at it) and of the two
wheels (the entries in use); that `deviceByKey` is exact and the other two indexes
sound; that a link has evidence; and that nothing is known of a device not in use. The operations need each other's part of it:
`removeLink` finds the link on the list of its device only because back pointers
and lists agree; an eviction frees an entry only because the oldest entry is one in
use; `tick` visits links that it has not itself freed only because the wheel lists
each once and no turn removes another turn's link.

Inside a step the invariant is broken for some entries, so the lemmas carry
them as parameters: in `Linked(s, P, K, E, W)` the links in `P` are on the list of
no device (`mergeDevices` has taken them off one), those in `K` do not yet have the
key of their device (`promoteDevice`), those in `E` have no evidence yet (a new link)
and those in `W` are not on the wheel; `Recorded(s, P, W)` likewise for records. Each
operation has a lemma that says how it changes these sets, and a step of the event
loop begins and ends with all of them empty. `SameDevices`, `SameLinks` and
`SameRecords` say what an operation leaves alone; with the frame lemmas about
them the two halves are proved separately.

Knowledge. `NothingKnownIsLost` is about the two states of a step: `Kept(s, t)` says
that whatever is known of a device in `s` is known of the same device or of another in
`t`. `SameDevices` contains it for each device by itself, so that every operation that
only touches links or records keeps it. `mergeDevices` is where a fact changes its
device: `dst` has the facts of `src` before any link is moved, and still has them when
`src` is dropped. A new device is written over an entry of the free list, of which
nothing was known. `deviceFor` forgets only through `allocDevice`, and only when that
finds no free entry, which is the hypothesis of `FactsKept`.

Time. The last three are about the clock and the timing wheel. `scheduleDNS` rounds
the time to the expiry of a record up to ticks, counted from the instant of the
message; but the ticks come at whole seconds, wherever between them the message was.
`TimeInv` says what remains true: at every instant, a record with `due` ticks left
expires after the tick before its last one, and before the tick after it (`DueAt`).
It is inductive relative to `FusionInv`: a message leaves every record as it was
or scheduled now (`Dated`, which every operation on the store is shown to satisfy, so
that no merge, rescue or flush may change an expiry and leave its ticks), and a tick
takes one from the ticks of every record and removes those with none left (`Ticked`).
From the first half of `DueAt` no expired record survives a tick, and from the second
none leaves a second too early. The arithmetic of rounding (`CeilingIsNext`,
`NextInstant`) is proved for any length of a second.

Loops. The loops of the code are folds, and what a fold returns needs an induction
over the length of the slice. `Loops` proves `LeastNatural` and `Induction` for sets
from the library's facts about finite sets, and derives from them
`LoopKeeps`: what holds before a loop and is kept by each turn holds after it.
`Loops` takes the turn and the loop invariant as constants, and is instantiated once
for every loop of `fusion.go`: the links and records that `removeDevice` removes
(`RL`, `RR`), those that `mergeDevices` moves (`ML`, `MR`), the links that
`promoteDevice` renames (`KL`), the records of a message, of a flush and of a
recomputed expiry (`CR`, `FD`, `LR`), and the three loops of `tick` (`FL`, `FR`,
`SR`).

The assumptions are those of `FusionBase` and `Fusion`: limits are positive, a second
is a positive number of units, and messages are what the decoders can produce
(addresses of the network, natural-number TTLs, no source address below IP, no
claimed MAC in CDP and mDNS).

### The command

`CommandProofs`, for any interfaces, any set of system calls that fail, any
configuration, any stores and terminals, and any number of blocks, rings and frames:

| Theorem | Statement |
| --- | --- |
| `NothingStaysOpen` | `Spec => []CaptureReleased` |
| `RingsLoseNothing` | `Spec => []RingIntact` |

Opening is proved first: whatever is requested and whichever calls fail,
`openCaptureBackends` returns with exactly the descriptors of its backends open and
the rings of its ring backends mapped, or with an error and no descriptor open
(`Sound`; the loops over the interfaces are instances of `Loops`). `CommandInv` then
follows a run: `BackendInv` says at which of its statements a backend of each kind
can be, and that a ring is mapped just while its backend is in its loop; `RunInv`,
that the descriptors are those of the backends until `CloseBackends`, and that `Run`
has waited for every backend and has the first error when it returns; `MainInv` ties
the command's place to that of `Run`, the terminal and the exit code. `CaptureReleased`
is not inductive without it: that mappings are gone when `Run` returns needs to know
where each backend was when its descriptor was closed under it.

`RingInv` says of every mapped ring that it is `Intact`, a relation between its
blocks, whether its backend is reading, what the kernel stored and what was emitted:

- `Circle`: the blocks passed to the backend and not given back are the ones from its
  place up to the kernel's, so that the two can meet only when the ring is full or empty;
- `Reading`: a backend that emits is in a block that is its own;
- `Ordered`: going round from the backend's place (`Ahead`), waiting frames increase;
- `Accounted`: a stored frame fit to be emitted was emitted or waits, what was emitted
  comes before all that waits, and the history of emitted frames increases.

`RingIntact` speaks of the histories alone and follows; it is not inductive, since what
a backend will emit is decided by blocks that the kernel may be about to fill.

The assumptions are `BlocksAssumption`, at least one block, and `ScenariosAssumption`:
the four systems, finitely many interfaces, and a list of names as the argument.

### Only model-checked

- Liveness (`Delivered`, `StreamEnds`, `CanceledReturns`, `QueuedIsDecoded`,
  `QuitEnds`): out of the prover's reach.
- `LinkIndexComplete`, `Timely`, `ViewAgrees`, `ExpiredIsExpired` and
  `ServicesCurrent`: they hold only in networks without merges, or without evictions
  (section 3), not for all values of the constants.
- `ScreenShowsStore`: what sorting and filtering the rows returns is induction over the
  rows.
- `DataPath`: what its recursive definitions compute for every input (the walk over
  extension headers, the filter machine, names, the binary search). Those modules
  use recursive operators, which the prover does not support.
- `TypeOK` of `Fusion`: the parts of it that the other invariants need are in
  `FusionInv`; the rest (the fields of an event, the clock within its bound) has no
  theorem.

## 5. Not modelled

- *Bytes inside a value*: addresses, checksums, TXT strings, texts beyond case and
  padding; `checksum16` is a verdict of the packet. A decoder's order of checks and
  what it keeps are modelled, not how a number is read.
- *Presentation*: `eventPrinter`, JSON and text, the protocol table, widths of
  columns. They are functions of one event or snapshot and keep no state.
- *Android NSD*: an alias of the mDNS decoder and pure accessors.
- *Interface of an MNDP datagram* (`resolveInterface`): a prefix lookup in what was
  read at start.
- *Socket options and descriptors*: operating system. That a descriptor may be
  reused between `close` and a late read is listed as a hazard.
- *Stats*: reads counters.
- *Wheel*: slots, rounds and lists behind the countdown of `FusionBase`.
- *The real registry*: 14,000 lines of data; the tables are those the generator
  makes of small registries.

## 6. Plan

Done: the store, the pipeline and the stream queue with their theorems; the data path
from filter to attributes; capture, dashboard and command, with theorems about
release and rings.

Next, in this order:

1. `TimingWheel`: slots, rounds and lists as in the code, shown to implement the
   countdown that `FusionBase` uses; runs with a wheel shorter than the TTLs.
2. A statement about the completeness of the record index after a merge, as
   `OneLinkPerKey` is for links.
3. A composition of `Fusion` and `StreamQueue`: the reader's table against the
   store, across merging and promotion.
