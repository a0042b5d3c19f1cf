----------------------------- MODULE Dashboard ------------------------------
(***************************************************************************)
(* The terminal dashboard (tui.go) over Engine.Snapshot (engine.go) and    *)
(* the copies it is made of (clone.go).                                    *)
(*                                                                         *)
(* The store is what fusion has in its slabs, in slab order; it changes    *)
(* under the dashboard at any time.  A device is [key, system, host,       *)
(* services] with text fields [values, canonical], a link [key, iface,     *)
(* device, kind, protocols, seen].  Texts are numbers, 0 the empty one.  A slice   *)
(* is [n, cells]: cutting it keeps the cells, and copies reuse them.       *)
(***************************************************************************)
EXTENDS Integers, Sequences, SequencesExt, FiniteSetsExt, TLC

CONSTANTS
    Stores,          \* what the slabs may hold
    Heights          \* of the terminal

VARIABLES
    store,           \* the used entries of the slabs
    snapshot,        \* d.snapshot
    rows,            \* d.rows
    filter,          \* d.filter
    offset,          \* d.offset
    height,          \* d.height
    terminal,        \* the height the terminal has now
    screen,          \* what was rendered last
    copied           \* the store as it was when the snapshot was taken
dashboardVars == <<store, snapshot, rows, filter, offset, height, terminal, screen, copied>>

-----------------------------------------------------------------------------
(* Slices and copies.                                                      *)

Nil == [n |-> 0, cells |-> <<>>]
Shown(slice) == SubSeq(slice.cells, 1, slice.n)

\* A slice of n cells: those there are if they suffice, otherwise new ones.
resize(slice, n, zero) ==
    [n |-> n, cells |-> IF n <= Len(slice.cells) THEN slice.cells ELSE [i \in 1..n |-> zero]]

\* Every cell is assigned: value, protocols, confidence and both times.
cloneTextFieldInto(dst, src) ==
    LET sized == resize(dst.values, Len(src.values), 0)
    IN  [values |-> [sized EXCEPT !.cells = [i \in DOMAIN @ |->
                        IF i <= Len(src.values) THEN src.values[i] ELSE @[i]]],
         canonical |-> src.canonical]
resetTextField(f) ==
    [values |-> [n |-> 0, cells |-> [i \in DOMAIN f.values.cells |->
                    IF i <= f.values.n THEN 0 ELSE f.values.cells[i]]],
     canonical |-> 1]

NoField == [values |-> Nil, canonical |-> 1]
ZeroService == [type |-> 0, port |-> 0]
ZeroDevice == [key |-> 0, system |-> NoField, host |-> NoField, services |-> Nil]
ZeroLink == [key |-> 0, iface |-> 0, device |-> 0, kind |-> "", protocols |-> {}, seen |-> 0]

cloneService(dst, src) == [type |-> src.type, port |-> src.port]

cloneDeviceInto(dst, src) ==
    LET sized == resize(dst.services, Len(src.services), ZeroService)
    IN  [key |-> src.key,
         system |-> cloneTextFieldInto(dst.system, src.system),
         host |-> cloneTextFieldInto(dst.host, src.host),
         services |-> [sized EXCEPT !.cells = [i \in DOMAIN @ |->
                          IF i <= Len(src.services) THEN cloneService(@[i], src.services[i]) ELSE @[i]]]]

\* Reset leaves the ports behind.
resetDevice(d) ==
    [key |-> 0, system |-> resetTextField(d.system), host |-> resetTextField(d.host),
     services |-> [n |-> 0, cells |-> [i \in DOMAIN d.services.cells |->
                      IF i <= d.services.n THEN [d.services.cells[i] EXCEPT !.type = 0]
                      ELSE d.services.cells[i]]]]

cloneLinkInto(dst, src) == [f \in DOMAIN dst |-> src[f]]

\* The cells in use are reset; then the slice grows by one cell per used entry,
\* which is overwritten.
resetDevices(slice) ==
    [n |-> 0, cells |-> [i \in DOMAIN slice.cells |->
        IF i <= slice.n THEN resetDevice(slice.cells[i]) ELSE slice.cells[i]]]
resetLinks(slice) ==
    [n |-> 0, cells |-> [i \in DOMAIN slice.cells |-> IF i <= slice.n THEN ZeroLink ELSE slice.cells[i]]]
extend(slice, zero) ==
    [n |-> slice.n + 1,
     cells |-> IF slice.n < Len(slice.cells) THEN slice.cells ELSE Append(slice.cells, zero)]
copyDevice(slice, src) ==
    LET grown == extend(slice, ZeroDevice)
    IN  [grown EXCEPT !.cells[grown.n] = cloneDeviceInto(@, src)]
copyLink(slice, src) ==
    LET grown == extend(slice, ZeroLink)
    IN  [grown EXCEPT !.cells[grown.n] = cloneLinkInto(@, src)]

Snapshot(dst) ==
    [devices |-> FoldLeft(copyDevice, resetDevices(dst.devices), store.devices),
     links |-> FoldLeft(copyLink, resetLinks(dst.links), store.links)]

-----------------------------------------------------------------------------
(* Rows.                                                                   *)

\* The name a device is listed by: a system name, a host name or its key.  (The
\* device ID of CDP, which comes before the key, is a third text like the two.)
CurrentOf(f) == IF f.values.n = 0 THEN 0 ELSE f.values.cells[f.canonical]
firstNonEmpty(texts) == LET some == SelectSeq(texts, LAMBDA t : t # 0)
                        IN  IF some = <<>> THEN 0 ELSE some[1]
nameOf(d) == firstNonEmpty(<<CurrentOf(d.system), CurrentOf(d.host), d.key>>)

matchesFilter(f, link) ==
    CASE f \in {"LLDP", "CDP", "MNDP", "MDNS"} -> f \in link.protocols
      [] f \in {"physical", "segment"} -> link.kind = f
      [] f = "all" -> TRUE

listed(r, q) ==
    \/ r.seen > q.seen
    \/ r.seen = q.seen /\ r.name < q.name
    \/ r.seen = q.seen /\ r.name = q.name /\ r.iface < q.iface

serviceSummary(d) == IF d.services.n = 0 THEN 0 ELSE d.services.cells[1].type

deviceOf(snap, link) == {i \in 1..snap.devices.n : snap.devices.cells[i].key = link.device}
\* Of the columns, those that the order and the property look at.
rowOf(link, d) ==
    [link |-> link.key, iface |-> link.iface, name |-> nameOf(d), service |-> serviceSummary(d), seen |-> link.seen]

\* The links that match and whose device is in the snapshot, last seen first.
rebuildRows(snap, f) ==
    LET links == SelectSeq(Shown(snap.links), LAMBDA l : deviceOf(snap, l) # {} /\ matchesFilter(f, l))
    IN  SortSeq([i \in DOMAIN links |-> rowOf(links[i], snap.devices.cells[Max(deviceOf(snap, links[i]))])], listed)

-----------------------------------------------------------------------------
(* Refreshing and keys.                                                    *)

tooSmall(h) == h < 14
visibleRows(h) == Max({1, h - 13})

\* Mutant: the offset is compared with the number of rows.
clampLate(at, n, available) == IF at > n THEN n ELSE at

clamp(at, n, available) == IF at > Max({0, n - available}) THEN Max({0, n - available}) ELSE at

\* updateDiscoveryTable: the slice of the rows from the offset on.
Rendered(at, list, available) ==
    [at |-> at, rows |-> SubSeq(list, at + 1, Min({Len(list), at + available}))]
TooSmall == [at |-> -1, rows |-> <<>>]

\* refresh(): the snapshot is always taken; a terminal that is too small keeps
\* the rows and the offset of before.
refresh(f, at, snap, list) ==
    /\ snapshot' = snap /\ copied' = store
    /\ height' = terminal
    /\ filter' = f
    /\ IF tooSmall(terminal)
       THEN rows' = rows /\ offset' = at /\ screen' = TooSmall
       ELSE /\ rows' = list
            /\ offset' = clamp(at, Len(list), visibleRows(terminal))
            /\ screen' = Rendered(clamp(at, Len(list), visibleRows(terminal)), list, visibleRows(terminal))
    /\ UNCHANGED <<store, terminal>>
refreshWith(f, at) ==
    \E snap \in {Snapshot(snapshot)} : \E list \in {rebuildRows(snap, f)} : refresh(f, at, snap, list)

Filters == {"all", "LLDP", "CDP", "MNDP", "MDNS", "physical", "segment"}
setFilter(f) == refreshWith(f, 0)
Up == refreshWith(filter, IF offset > 0 THEN offset - 1 ELSE offset)
Down == refreshWith(filter, offset + 1)
PageUp == refreshWith(filter, Max({0, offset - visibleRows(height)}))
PageDown == refreshWith(filter, offset + visibleRows(height))
Home == refreshWith(filter, 0)
End == refreshWith(filter, Len(rows))
\* A tick of the timer, the key r, a resize, and any other key.
Redraw == refreshWith(filter, offset)

handleEvent(key) ==
    CASE key \in Filters -> setFilter(key)
      [] key = "up" -> Up [] key = "down" -> Down
      [] key = "pageup" -> PageUp [] key = "pagedown" -> PageDown
      [] key = "home" -> Home [] key = "end" -> End
      [] key = "redraw" -> Redraw
Keys == Filters \cup {"up", "down", "pageup", "pagedown", "home", "end", "redraw"}

NoScreen == [at |-> -2, rows |-> <<>>]
DashboardInit(s, h) ==
    /\ store = s /\ copied = s
    /\ snapshot = [devices |-> Nil, links |-> Nil]
    /\ rows = <<>> /\ filter = "all" /\ offset = 0
    /\ height = 0 /\ terminal = h /\ screen = NoScreen

\* The engine's and the user's own steps.
Discover ==
    /\ store' \in Stores \ {store}
    /\ UNCHANGED <<snapshot, rows, filter, offset, height, terminal, screen, copied>>
Resize ==
    /\ terminal' \in Heights \ {terminal}
    /\ UNCHANGED <<store, snapshot, rows, filter, offset, height, screen, copied>>

-----------------------------------------------------------------------------
(* Property.                                                               *)

\* A copy without the cells it does not use.
FieldIn(f) == [f EXCEPT !.values = Shown(@)]
DeviceIn(d) == [d EXCEPT !.system = FieldIn(@), !.host = FieldIn(@), !.services = Shown(@)]
SnapshotIn(snap) ==
    [devices |-> [i \in 1..snap.devices.n |-> DeviceIn(snap.devices.cells[i])], links |-> Shown(snap.links)]

TextIn(f) == IF f.values = <<>> THEN 0 ELSE f.values[f.canonical]
NameIn(d) == firstNonEmpty(<<TextIn(d.system), TextIn(d.host), d.key>>)
Selected(s, f) ==
    {p \in ToSet(s.links) \X ToSet(s.devices) : p[1].device = p[2].key /\ matchesFilter(f, p[1])}

\* "Snapshot makes an owned, reusable copy" (engine.go:437): it equals the store
\* as it was, whatever its reused cells held before and while the store goes on
\* changing.  The screen is a page of it: each row a link that the filter selects,
\* with the name and the service of its own device, latest first; and no page is
\* short or empty while there are rows to fill it, whatever keys, resizes and
\* discoveries came before.
ScreenShowsStore ==
    /\ screen # NoScreen => SnapshotIn(snapshot) = copied
    /\ screen.at >= 0 =>
        LET picked == Selected(copied, filter)
            page == screen.rows
        IN  /\ \A i \in DOMAIN page : \E p \in picked :
                  /\ page[i].link = p[1].key /\ page[i].name = NameIn(p[2])
                  /\ page[i].service = IF p[2].services = <<>> THEN 0 ELSE p[2].services[1].type
            /\ \A i, j \in DOMAIN page : i < j => page[i].link # page[j].link /\ page[i].seen >= page[j].seen
            /\ Len(page) = Min({visibleRows(height), Cardinality(picked)})
=============================================================================
