---------------------------- MODULE StreamQueue -----------------------------
(***************************************************************************)
(* Engine.Stream and its bounded queue of owned events (stream.go,         *)
(* engine.go).  The fusion goroutine calls enqueue for every event; the    *)
(* pump goroutine pops events and sends them on the channel out; the       *)
(* Stream goroutine waits for Run, closes the queue and waits for the pump.*)
(*                                                                         *)
(* An event carries the full state of a link, so it is abstracted to the   *)
(* number of that state (ver) with the event's kind and change set. What   *)
(* Run produces and what the consumer does are external: a link may get    *)
(* events of any kind in any order, and the consumer reads when it likes.  *)
(* Every critical section of the mutex, every select and the send on       *)
(* notify is a step of its own. history and seen only record what was      *)
(* produced and what was read.                                             *)
(***************************************************************************)
EXTENDS Integers, Sequences, FiniteSets

CONSTANTS
    Keys,          \* link keys
    Fields,        \* what an event may say has changed
    Says,          \* Says[k]: pairs of a kind and a change set, what events of k say
    MaxPending,    \* Config.PendingEvents: size of the queue and of out
    CompactAt,     \* 1024 in compact
    MaxHistory,    \* bound: how many events a link has
    NoEvent        \* no *Event

Kinds == {"Added", "Changed", "Removed"}   \* Removed: EventExpired or EventEvicted
Events == [key : Keys, kind : Kinds, ver : Nat, changed : SUBSET Fields]

ASSUME KeysAssumption == IsFiniteSet(Keys)
ASSUME PendingAssumption == MaxPending \in Nat \ {0}
ASSUME CompactAssumption == CompactAt \in Nat
ASSUME HistoryAssumption == MaxHistory \in Nat
ASSUME NoEventAssumption == NoEvent \notin Events

VARIABLES
    pending,    \* q.pending: the pending event of a key, or NoEvent
    order,      \* q.order
    head,       \* q.head: how many entries of order are consumed
    notify,     \* a token is in the channel notify (capacity 1)
    closed,     \* q.closed, and q.done is closed
    out,        \* the channel of Stream's consumer (capacity MaxPending)
    producer,   \* the fusion goroutine: idle, or about to send on notify
    pump,       \* the pump goroutine: where it is in its loop
    hand,       \* the event the pump has popped and not yet sent
    stream,     \* the Stream goroutine: running Run, closing, waiting, done
    canceled,   \* the context is canceled
    history,    \* the events of each link: kind, changed, and whether dropped
    seen        \* the number of the last state of a link the consumer has read
qvars == <<pending, order, head, closed>>
pumpvars == <<out, pump, hand>>
vars == <<pending, order, head, notify, closed, out, producer, pump, hand, stream,
          canceled, history, seen>>

Init ==
    /\ pending = [k \in Keys |-> NoEvent]
    /\ order = <<>> /\ head = 0
    /\ notify = FALSE /\ closed = FALSE
    /\ out = <<>> /\ hand = NoEvent
    /\ producer = "idle" /\ pump = "pop" /\ stream = "run"
    /\ canceled = FALSE
    /\ history = [k \in Keys |-> <<>>]
    /\ seen = [k \in Keys |-> 0]

PendingKeys == {k \in Keys : pending[k] # NoEvent}

-----------------------------------------------------------------------------
(* The fusion goroutine.                                                   *)

\* The number of the state a link is in, 0 before its first event.
ver(k) == Len(history[k])

\* One event for the link of key k.  Its kind does not depend on those before:
\* promotion rekeys links (fusion.go:213-228, 425-431), so a key may change that
\* was never added, merging ends a link by a change (593) and lets one that is
\* known be added again.
Emitted(k, kind, changed) ==
    [key |-> k, kind |-> kind, ver |-> ver(k) + 1, changed |-> changed]
Emits(k, kind, changed, drop) ==
    /\ stream = "run" /\ producer = "idle" /\ ver(k) < MaxHistory
    /\ <<kind, changed>> \in Says[k]
    /\ history' = [history EXCEPT
            ![k] = Append(@, [kind |-> kind, changed |-> changed, dropped |-> drop])]

\* Mutant: the change set of the pending event is overwritten.
coalesceLosesChanges(old, new) ==
    [new EXCEPT !.kind = IF old.kind = "Added" /\ @ = "Changed" THEN "Added" ELSE @]

\* Mutant: the pending event keeps the older state.
coalesceKeepsState(old, new) == [old EXCEPT !.changed = @ \cup new.changed]

\* A pending event takes the new state; it stays an addition, and its change
\* set grows.
coalesce(old, new) ==
    [new EXCEPT !.kind = IF old.kind = "Added" /\ @ = "Changed" THEN "Added" ELSE @,
                !.changed = @ \cup old.changed]

enqueueCoalesce(k, kind, changed) ==
    /\ Emits(k, kind, changed, FALSE)
    /\ ~ closed /\ pending[k] # NoEvent
    /\ pending' = [pending EXCEPT ![k] = coalesce(@, Emitted(k, kind, changed))]
    /\ UNCHANGED <<order, head, notify, closed, producer, stream, canceled, seen>>
    /\ UNCHANGED pumpvars

\* The event gets an entry of its own.
insert(k, kind, changed, drop) ==
    /\ Emits(k, kind, changed, drop)
    /\ ~ closed /\ pending[k] = NoEvent
    /\ pending' = [pending EXCEPT ![k] = Emitted(k, kind, changed)]
    /\ order' = Append(order, k)
    /\ producer' = "notify"
    /\ UNCHANGED <<head, notify, closed, stream, canceled, seen>>
    /\ UNCHANGED pumpvars

\* Mutants: the bound is tested one too late; the drop is counted but the event
\* is inserted all the same.
enqueueInsertOffByOne(k, kind, changed) ==
    Cardinality(PendingKeys) <= MaxPending /\ insert(k, kind, changed, FALSE)
enqueueDropFallsThrough(k, kind, changed) ==
    Cardinality(PendingKeys) >= MaxPending /\ insert(k, kind, changed, TRUE)

enqueueDrop(k, kind, changed) ==
    /\ Emits(k, kind, changed, TRUE)
    /\ ~ closed /\ pending[k] = NoEvent /\ Cardinality(PendingKeys) >= MaxPending
    /\ UNCHANGED <<notify, producer, stream, canceled, seen>>
    /\ UNCHANGED qvars /\ UNCHANGED pumpvars

enqueueInsert(k, kind, changed) ==
    Cardinality(PendingKeys) < MaxPending /\ insert(k, kind, changed, FALSE)

notifies(tokens) ==
    /\ producer = "notify" /\ producer' = "idle"
    /\ notify' \in tokens
    /\ UNCHANGED <<stream, canceled, seen, history>>
    /\ UNCHANGED qvars /\ UNCHANGED pumpvars

\* Mutant: notify has no buffer, so the token is lost unless the pump has
\* already parked in its select.
enqueueNotifyUnbuffered == notifies({notify, notify \/ pump = "wait"})

\* The send on notify after the unlock; it never blocks.
enqueueNotify == notifies({TRUE})

-----------------------------------------------------------------------------
(* The pump goroutine.                                                     *)

\* The entries of order that pop still has to look at, and those of them
\* whose event is pending.
Unread == (head + 1)..Len(order)
Live == {j \in Unread : pending[order[j]] # NoEvent}

\* Mutant: the tail is kept without resetting head.
compactKeepsHead(o, h) ==
    IF h > CompactAt /\ h * 2 >= Len(o)
    THEN [order |-> SubSeq(o, h + 1, Len(o)), head |-> h]
    ELSE [order |-> o, head |-> h]

compact(o, h) ==
    IF h > CompactAt /\ h * 2 >= Len(o)
    THEN [order |-> SubSeq(o, h + 1, Len(o)), head |-> 0]
    ELSE [order |-> o, head |-> h]

\* pop takes the event of entry j and leaves the map as rest.
popAt(j, rest, next) ==
    /\ \A i \in Live : j <= i
    /\ hand' = pending[order[j]]
    /\ pending' = rest
    /\ order' = compact(order, j).order /\ head' = compact(order, j).head
    /\ pump' = next
    /\ UNCHANGED <<notify, closed, out, producer, stream, canceled, seen, history>>

\* Mutant: the event stays in the map.
popEventKeeps(next) == \E j \in Live : popAt(j, pending, next)

\* pop finds an event.
popEvent(next) ==
    \E j \in Live : popAt(j, [pending EXCEPT ![order[j]] = NoEvent], next)

\* pop finds nothing.
popNothing(next) ==
    /\ Live = {}
    /\ order' = compact(order, Len(order)).order /\ head' = compact(order, Len(order)).head
    /\ pump' = next
    /\ UNCHANGED <<pending, notify, closed, out, hand, producer, stream, canceled, seen, history>>

Pop == pump = "pop" /\ (popEvent("send") \/ popNothing("wait"))

\* case out <- *event
Send ==
    /\ pump \in {"send", "drainSend"} /\ Len(out) < MaxPending
    /\ out' = Append(out, hand) /\ hand' = NoEvent
    /\ pump' = IF pump = "send" THEN "pop" ELSE "drain"
    /\ UNCHANGED <<notify, producer, stream, canceled, seen, history>>
    /\ UNCHANGED qvars

\* The pump goes on elsewhere and touches nothing.
goesTo(next) ==
    /\ pump' = next
    /\ UNCHANGED <<out, hand, producer, stream, canceled, seen, history>>
    /\ UNCHANGED qvars

mayReturn ==
    \/ pump \in {"send", "wait", "drainSend"} /\ canceled
    \/ pump = "send" /\ closed

\* Mutant: the select is left with break, which does not leave the loop.
PumpReturnBreaks ==
    mayReturn /\ goesTo(IF pump = "send" THEN "wait" ELSE "returned") /\ UNCHANGED notify

\* case <-ctx.Done() of the three selects, and case <-q.done of the first one:
\* the event in hand is lost.
PumpReturn == mayReturn /\ goesTo("returned") /\ UNCHANGED notify

\* case <-q.notify
Wake == pump = "wait" /\ notify /\ notify' = FALSE /\ goesTo("pop")

\* Mutant: the waiting pump does not listen to q.done.
StartDrainDeaf ==
    pump = "wait" /\ closed /\ notify /\ goesTo("drain") /\ UNCHANGED notify

\* case <-q.done of the second select, then the drain loop.
StartDrain == pump = "wait" /\ closed /\ goesTo("drain") /\ UNCHANGED notify

Drain == pump = "drain" /\ (popEvent("drainSend") \/ popNothing("returned"))

Pump == Pop \/ Send \/ PumpReturn \/ Wake \/ StartDrain \/ Drain

-----------------------------------------------------------------------------
(* The Stream goroutine, the context and the consumer.                     *)

\* The Stream goroutine moves on.
Streams(from, to) ==
    /\ stream = from /\ stream' = to
    /\ UNCHANGED <<pending, order, head, notify, producer, canceled, seen, history>>
    /\ UNCHANGED pumpvars

\* Run returns: canceled, closed, or a backend failed (external to the queue).
RunReturns == producer = "idle" /\ Streams("run", "close") /\ UNCHANGED closed

Close == closed' = TRUE /\ Streams("close", "join")

\* <-pumpDone, and the error channel is closed.
Join == pump = "returned" /\ Streams("join", "done") /\ UNCHANGED closed

Cancel ==
    /\ ~ canceled /\ canceled' = TRUE
    /\ UNCHANGED <<notify, producer, stream, seen, history>>
    /\ UNCHANGED qvars /\ UNCHANGED pumpvars

Consume ==
    /\ out # <<>>
    /\ out' = Tail(out)
    /\ seen' = [seen EXCEPT ![Head(out).key] = Head(out).ver]
    /\ UNCHANGED <<notify, producer, pump, hand, stream, canceled, history>>
    /\ UNCHANGED qvars

Enqueue ==
    \E k \in Keys, kind \in Kinds, changed \in SUBSET Fields :
        \/ enqueueCoalesce(k, kind, changed)
        \/ enqueueDrop(k, kind, changed)
        \/ enqueueInsert(k, kind, changed)

Next == Enqueue \/ enqueueNotify \/ Pump \/ RunReturns \/ Close \/ Join \/ Cancel \/ Consume


\* The goroutines run, and the consumer keeps reading; nothing makes links
\* change, Run return or the context end.
Fairness == WF_vars(enqueueNotify) /\ WF_vars(Pump) /\ WF_vars(Close) /\ WF_vars(Join)
            /\ WF_vars(Consume)
Spec == Init /\ [][Next]_vars
FairSpec == Spec /\ Fairness

-----------------------------------------------------------------------------
(* Properties.                                                             *)

OptEvents == Events \cup {NoEvent}
History == Seq([kind : Kinds, changed : SUBSET Fields, dropped : BOOLEAN])

\* Every variable has its type; an event is filed under its own key, the pump
\* holds an event exactly where its select may send one, and q.done is closed
\* by the Stream goroutine only.
TypeOK ==
    /\ pending \in [Keys -> OptEvents]
    /\ \A k \in PendingKeys : pending[k].key = k
    /\ order \in Seq(Keys) /\ head \in Nat
    /\ notify \in BOOLEAN /\ closed \in BOOLEAN /\ canceled \in BOOLEAN
    /\ out \in Seq(Events) /\ Len(out) <= MaxPending
    /\ producer \in {"idle", "notify"}
    /\ pump \in {"pop", "send", "wait", "drain", "drainSend", "returned"}
    /\ hand \in OptEvents
    /\ pump \in {"send", "drainSend"} => hand # NoEvent
    /\ pump \in {"pop", "wait", "drain"} => hand = NoEvent
    /\ stream \in {"run", "close", "join", "done"}
    /\ closed <=> stream \in {"join", "done"}
    /\ history \in [Keys -> History]
    /\ seen \in [Keys -> Nat]

\* The index the pump reads (order from head on) and the map of pending events
\* always agree: every unread entry is pending, every pending key is unread
\* exactly once, and there are at most MaxPending of them, whatever enqueue,
\* pop and compact did in between.
QueueInv ==
    /\ head <= Len(order)
    /\ \A i \in Unread : pending[order[i]] # NoEvent
    /\ \A i, j \in Unread : order[i] = order[j] => i = j
    /\ \A k \in PendingKeys : \E i \in Unread : order[i] = k
    /\ Cardinality(PendingKeys) = Len(order) - head
    /\ Len(order) - head <= MaxPending

\* The consumed prefix of order never grows without bound, although compact
\* only sometimes drops it: order stays within the larger of CompactAt and
\* MaxPending, plus MaxPending.
OrderBounded ==
    /\ head > CompactAt => head * 2 < Len(order)
    /\ \/ Len(order) <= CompactAt + MaxPending
       \/ Len(order) <= MaxPending + MaxPending

\* The pump never sleeps on a queue that holds an event unless a wakeup is on
\* its way: enqueue unlocks before it sends on notify, and a coalesced event
\* sends nothing at all.
NoLostWakeup ==
    pump = "wait" /\ PendingKeys # {} => notify \/ producer = "notify" \/ closed

\* State number n of link k is on its way to the consumer.
Holds(k, n) ==
    \/ \E i \in DOMAIN out : out[i].key = k /\ out[i].ver = n
    \/ hand # NoEvent /\ hand.key = k /\ hand.ver = n
    \/ pending[k] # NoEvent /\ pending[k].ver = n

\* Event e is later than everything of its key that was sent before it.
AfterOut(e) ==
    /\ seen[e.key] < e.ver /\ e.ver <= ver(e.key)
    /\ \A i \in DOMAIN out : out[i].key = e.key => out[i].ver < e.ver

\* The consumer reads the states of a link in the order in which they were
\* produced and never the same state twice, although events of one key may be
\* in the channel, in the pump's hand and in the queue at once, and only the
\* last of these is coalesced.
InOrder ==
    /\ \A k \in Keys : seen[k] <= ver(k)
    /\ \A i \in DOMAIN out :
           seen[out[i].key] < out[i].ver /\ out[i].ver <= ver(out[i].key)
    /\ \A i, j \in DOMAIN out : i < j /\ out[i].key = out[j].key => out[i].ver < out[j].ver
    /\ hand # NoEvent => AfterOut(hand)
    /\ \A k \in PendingKeys :
           /\ AfterOut(pending[k])
           /\ hand # NoEvent /\ hand.key = k => hand.ver < pending[k].ver

\* Nothing vanishes: the latest event of a link that was not counted in
\* outputDropped is what the consumer has read, or is on its way.
Fresh ==
    \A k \in Keys :
        ver(k) > 0 /\ ~ history[k][ver(k)].dropped => seen[k] = ver(k) \/ Holds(k, ver(k))

\* The events of key k on their way to the consumer.
InFlight(k) ==
    {out[i] : i \in {j \in DOMAIN out : out[j].key = k}}
    \cup {e \in {hand, pending[k]} : e # NoEvent /\ e.key = k}

\* The states of link k the consumer has or will have when it reads event e, and
\* the later ones, which e stands for.
Shown(k, e) == {seen[k]} \cup {f.ver : f \in {g \in InFlight(k) : g.ver < e.ver}}
StandsFor(k, e) == {n \in 1..e.ver : \A m \in Shown(k, e) : m < n}

\* A coalesced event is right about what it stands for, in whatever order a link
\* is added, changed and removed.  Its change set covers every change of those
\* states; it is a removal exactly if the last of them is; and it is an addition
\* exactly if the link was added among them and only changed since, so that no
\* addition passes for a change and none is announced twice (what was dropped
\* says nothing).
ChangesCovered ==
    \A k \in Keys : \A e \in InFlight(k) :
        /\ \A n \in StandsFor(k, e) :
               history[k][n].dropped \/ history[k][n].changed \subseteq e.changed
        /\ e.kind = "Removed" <=> history[k][e.ver].kind = "Removed"
        /\ e.kind = "Added" <=>
               \E n \in StandsFor(k, e) :
                   /\ history[k][n].kind = "Added" /\ ~ history[k][n].dropped
                   /\ \A m \in (n + 1)..e.ver : history[k][m].kind = "Changed"

\* An event is in the end read or superseded, unless the stream ends first: the
\* pump is always woken, and it always gets to the keys behind the first.
Delivered ==
    \A k \in Keys, n \in 1..MaxHistory :
        (k \in PendingKeys /\ pending[k].ver = n)
            ~> (seen[k] >= n \/ canceled \/ stream # "run")

\* Once Run has returned, Stream ends: the pump sees q.done wherever it is, and
\* the error channel is closed.
StreamEnds == (stream = "close") ~> (stream = "done")

\* The queue implements the promise made to the consumer of Stream: its view of
\* a link only moves forward, to states the link had and that were not dropped.
Conflation == INSTANCE EventConflation WITH
    latest <- [k \in Keys |-> ver(k)],
    lost <- [k \in Keys |-> {n \in 1..ver(k) : history[k][n].dropped}],
    shown <- seen
ImplementsConflation == Conflation!Spec
=============================================================================
