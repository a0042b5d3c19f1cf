------------------------- MODULE StreamQueueProofs --------------------------
(***************************************************************************)
(* Proofs that the queue of Engine.Stream is right for every set of keys,  *)
(* every size of the queue and every compaction threshold.                 *)
(***************************************************************************)
EXTENDS StreamQueue, FiniteSetTheorems, TLAPS

USE DEF vars, qvars, pumpvars

-----------------------------------------------------------------------------
(* compact and pop.                                                        *)

\* compact keeps exactly the unread entries, in order, and after it the
\* consumed prefix is short.
LEMMA CompactKeeps ==
    ASSUME NEW o \in Seq(Keys), NEW h \in 0..Len(o)
    PROVE  LET c == compact(o, h)
           IN /\ c.order \in Seq(Keys) /\ c.head \in 0..Len(c.order)
              /\ Len(c.order) - c.head = Len(o) - h
              /\ \A i \in 1..(Len(o) - h) : c.order[c.head + i] = o[h + i]
              /\ c.head > CompactAt => c.head * 2 < Len(c.order)
  <1>1. CASE h > CompactAt /\ h * 2 >= Len(o)
    <2>1. compact(o, h) = [order |-> SubSeq(o, h + 1, Len(o)), head |-> 0]
      BY <1>1 DEF compact
    <2>2. /\ SubSeq(o, h + 1, Len(o)) \in Seq(Keys)
          /\ Len(SubSeq(o, h + 1, Len(o))) = Len(o) - h
          /\ \A i \in 1..(Len(o) - h) : SubSeq(o, h + 1, Len(o))[i] = o[h + i]
      OBVIOUS
    <2> QED
      BY <2>1, <2>2, CompactAssumption
  <1>2. CASE ~ (h > CompactAt /\ h * 2 >= Len(o))
    <2>1. compact(o, h) = [order |-> o, head |-> h]
      BY <1>2 DEF compact
    <2> QED
      BY <2>1, <1>2, CompactAssumption
  <1> QED
    BY <1>1, <1>2

\* Every unread entry is live, so pop takes the first one.
LEMMA PopFirst ==
    ASSUME TypeOK, QueueInv, NEW next, popEvent(next)
    PROVE  /\ head < Len(order)
           /\ hand' = pending[order[head + 1]]
           /\ hand' \in Events
           /\ pending' = [pending EXCEPT ![order[head + 1]] = NoEvent]
           /\ order' = compact(order, head + 1).order
           /\ head' = compact(order, head + 1).head
           /\ pump' = next
           /\ UNCHANGED <<notify, closed, out, producer, stream, canceled, seen, history>>
  <1>1. PICK j \in Live : popAt(j, [pending EXCEPT ![order[j]] = NoEvent], next)
    BY DEF popEvent
  <1>2. head + 1 \in Live /\ head < Len(order)
    BY <1>1 DEF Live, Unread, QueueInv, TypeOK
  <1>3. j = head + 1
    BY <1>1, <1>2 DEF popAt, Live, Unread, TypeOK
  <1>4. pending[order[head + 1]] \in Events
    BY <1>2 DEF Live, Unread, TypeOK, OptEvents
  <1> QED
    BY <1>1, <1>2, <1>3, <1>4 DEF popAt

\* pop finds nothing only when nothing is pending.
LEMMA PopEmpty ==
    ASSUME TypeOK, QueueInv, NEW next, popNothing(next)
    PROVE  PendingKeys = {} /\ head = Len(order)
  <1>1. Unread = {}
    BY DEF popNothing, Live, QueueInv
  <1>2. PendingKeys = {}
    BY <1>1 DEF QueueInv
  <1>3. head \in Nat /\ Len(order) \in Nat /\ head <= Len(order)
    BY DEF QueueInv, TypeOK
  <1>4. head = Len(order)
    BY <1>1, <1>3 DEF Unread
  <1> QED
    BY <1>2, <1>4

-----------------------------------------------------------------------------
(* Types.                                                                  *)

\* A new event, and the result of coalescing two events, are events.
LEMMA EventType ==
    ASSUME TypeOK, NEW k \in Keys, NEW kind \in Kinds, NEW changed \in SUBSET Fields
    PROVE  /\ Emitted(k, kind, changed) \in Events
           /\ Emitted(k, kind, changed).key = k
           /\ Emitted(k, kind, changed).ver = ver(k) + 1
           /\ \A old \in Events :
                  /\ coalesce(old, Emitted(k, kind, changed)) \in Events
                  /\ coalesce(old, Emitted(k, kind, changed)).key = k
                  /\ coalesce(old, Emitted(k, kind, changed)).ver = ver(k) + 1
  <1>1. ver(k) \in Nat
    BY DEF ver, TypeOK, History
  <1>2. /\ Emitted(k, kind, changed) \in Events
        /\ Emitted(k, kind, changed).key = k
        /\ Emitted(k, kind, changed).ver = ver(k) + 1
    BY <1>1 DEF Emitted, Events
  <1>3. ASSUME NEW old \in Events, NEW e \in Events
        PROVE  /\ coalesce(old, e) \in Events
               /\ coalesce(old, e).key = e.key
               /\ coalesce(old, e).ver = e.ver
    BY <1>3 DEF coalesce, Events
  <1> QED
    BY <1>2, <1>3

\* What the fusion goroutine emits keeps the histories well typed.
LEMMA EmitsType ==
    ASSUME TypeOK, NEW k \in Keys, NEW kind \in Kinds, NEW changed \in SUBSET Fields,
           NEW drop \in BOOLEAN, Emits(k, kind, changed, drop)
    PROVE  /\ history' \in [Keys -> History]
           /\ ver(k)' = ver(k) + 1
           /\ \A x \in Keys \ {k} : history'[x] = history[x]
           /\ \A n \in 1..ver(k) : history'[k][n] = history[k][n]
           /\ history'[k][ver(k) + 1] = [kind |-> kind, changed |-> changed, dropped |-> drop]
  <1> DEFINE R == [kind : Kinds, changed : SUBSET Fields, dropped : BOOLEAN]
             r == [kind |-> kind, changed |-> changed, dropped |-> drop]
  <1>1. history \in [Keys -> Seq(R)] /\ r \in R
    BY DEF TypeOK, History
  <1>2. history' = [history EXCEPT ![k] = Append(history[k], r)]
    BY DEF Emits
  <1> HIDE DEF R, r
  <1>3. history' \in [Keys -> Seq(R)] /\ history'[k] = Append(history[k], r)
    BY <1>1, <1>2
  <1>4. /\ Len(history'[k]) = Len(history[k]) + 1
        /\ \A n \in 1..Len(history[k]) : history'[k][n] = history[k][n]
        /\ history'[k][Len(history[k]) + 1] = r
    BY <1>1, <1>3
  <1>5. \A x \in Keys \ {k} : history'[x] = history[x]
    BY <1>1, <1>2
  <1> QED
    BY <1>3, <1>4, <1>5 DEF ver, History, R, r

\* Every step keeps the types.
LEMMA TypeStep == TypeOK /\ QueueInv /\ [Next]_vars => TypeOK'
  <1> SUFFICES ASSUME TypeOK, QueueInv, [Next]_vars PROVE TypeOK'
    OBVIOUS
  <1>1. ASSUME NEW k \in Keys, NEW kind \in Kinds, NEW changed \in SUBSET Fields,
               enqueueCoalesce(k, kind, changed)
        PROVE  TypeOK'
    <2>1. /\ pending[k] \in Events
          /\ pending' = [pending EXCEPT ![k] = coalesce(pending[k], Emitted(k, kind, changed))]
      BY <1>1 DEF enqueueCoalesce, TypeOK, OptEvents
    <2>2. /\ coalesce(pending[k], Emitted(k, kind, changed)) \in Events
          /\ coalesce(pending[k], Emitted(k, kind, changed)).key = k
      BY <2>1, EventType
    <2> DEFINE e == coalesce(pending[k], Emitted(k, kind, changed))
    <2> HIDE DEF e
    <2>3. /\ pending' \in [Keys -> OptEvents]
          /\ \A x \in PendingKeys' : pending'[x].key = x
      BY <2>1, <2>2 DEF TypeOK, OptEvents, PendingKeys, e
    <2>4. history' \in [Keys -> History]
      BY <1>1, EmitsType DEF enqueueCoalesce
    <2> QED
      BY <1>1, <2>3, <2>4 DEF enqueueCoalesce, TypeOK, OptEvents, PendingKeys
  <1>2. ASSUME NEW k \in Keys, NEW kind \in Kinds, NEW changed \in SUBSET Fields,
               enqueueDrop(k, kind, changed)
        PROVE  TypeOK'
    <2>1. history' \in [Keys -> History]
      BY <1>2, EmitsType DEF enqueueDrop
    <2> QED
      BY <1>2, <2>1 DEF enqueueDrop, TypeOK, PendingKeys
  <1>3. ASSUME NEW k \in Keys, NEW kind \in Kinds, NEW changed \in SUBSET Fields,
               enqueueInsert(k, kind, changed)
        PROVE  TypeOK'
    <2> DEFINE e == Emitted(k, kind, changed)
    <2>1. pending' = [pending EXCEPT ![k] = e] /\ order' = Append(order, k)
      BY <1>3 DEF enqueueInsert, insert
    <2>2. e \in Events /\ e.key = k
      BY EventType
    <2>3. history' \in [Keys -> History]
      BY <1>3, EmitsType DEF enqueueInsert, insert
    <2> HIDE DEF e
    <2>4. /\ pending' \in [Keys -> OptEvents] /\ order' \in Seq(Keys)
          /\ \A x \in PendingKeys' : pending'[x].key = x
      BY <2>1, <2>2 DEF TypeOK, OptEvents, PendingKeys
    <2> QED
      BY <1>3, <2>3, <2>4 DEF enqueueInsert, insert, TypeOK, PendingKeys
  <1>4. ASSUME NEW next \in {"send", "drainSend"}, popEvent(next)
        PROVE  TypeOK'
    <2> DEFINE c == compact(order, head + 1)
    <2>1. head < Len(order) /\ order' = c.order /\ head' = c.head
      BY <1>4, PopFirst
    <2>2. order' \in Seq(Keys) /\ head' \in Nat
      BY <2>1, CompactKeeps DEF TypeOK
    <2>3. /\ pending' \in [Keys -> OptEvents]
          /\ \A x \in PendingKeys' : pending'[x].key = x
      BY <1>4, PopFirst DEF TypeOK, OptEvents, PendingKeys
    <2>4. hand' \in OptEvents /\ hand' # NoEvent /\ pump' = next
      BY <1>4, PopFirst, NoEventAssumption DEF OptEvents
    <2> QED
      BY <1>4, PopFirst, <2>2, <2>3, <2>4 DEF TypeOK
  <1>5. ASSUME NEW next \in {"wait", "returned"}, pump \in {"pop", "drain"}, popNothing(next)
        PROVE  TypeOK'
    <2>1. order' \in Seq(Keys) /\ head' \in Nat
      BY <1>5, CompactKeeps DEF TypeOK, popNothing
    <2> QED
      BY <1>5, <2>1 DEF TypeOK, popNothing, PendingKeys
  <1>6. CASE Send
    <2>1. hand \in Events
      BY <1>6 DEF Send, TypeOK, OptEvents
    <2>2. out' \in Seq(Events) /\ Len(out') <= MaxPending
      BY <1>6, <2>1, PendingAssumption DEF Send, TypeOK
    <2> QED
      BY <1>6, <2>2 DEF Send, TypeOK, OptEvents, PendingKeys
  <1>7. CASE Consume
    <2>1. out' \in Seq(Events) /\ Len(out') <= MaxPending
      BY <1>7, PendingAssumption DEF Consume, TypeOK
    <2>2. Head(out) \in Events
      BY <1>7 DEF Consume, TypeOK
    <2>3. seen' \in [Keys -> Nat]
      BY <1>7, <2>2 DEF Consume, TypeOK, Events
    <2> QED
      BY <1>7, <2>1, <2>3 DEF Consume, TypeOK, PendingKeys
  <1>8. CASE enqueueNotify
    BY <1>8 DEF enqueueNotify, notifies, TypeOK, PendingKeys
  <1>9. CASE PumpReturn
    BY <1>9 DEF PumpReturn, mayReturn, goesTo, TypeOK, PendingKeys
  <1>10. CASE Wake
    BY <1>10 DEF Wake, goesTo, TypeOK, PendingKeys
  <1>11. CASE StartDrain
    BY <1>11 DEF StartDrain, goesTo, TypeOK, PendingKeys
  <1>12. CASE RunReturns
    BY <1>12 DEF RunReturns, Streams, TypeOK, PendingKeys
  <1>13. CASE Close
    BY <1>13 DEF Close, Streams, TypeOK, PendingKeys
  <1>14. CASE Join
    BY <1>14 DEF Join, Streams, TypeOK, PendingKeys
  <1>15. CASE Cancel
    BY <1>15 DEF Cancel, TypeOK, PendingKeys
  <1>16. CASE UNCHANGED vars
    BY <1>16 DEF TypeOK, PendingKeys
  <1> QED
    BY <1>1, <1>2, <1>3, <1>4, <1>5, <1>6, <1>7, <1>8, <1>9, <1>10, <1>11, <1>12,
       <1>13, <1>14, <1>15, <1>16 DEF Next, Enqueue, Pump, Pop, Drain

-----------------------------------------------------------------------------
(* The queue and its index.                                                *)

\* What a step does that neither inserts nor pops.
LEMMA QueueUntouched ==
    ASSUME QueueInv, PendingKeys' = PendingKeys, UNCHANGED <<order, head>>,
           \A x \in Keys : pending'[x] # NoEvent <=> pending[x] # NoEvent, TypeOK
    PROVE  QueueInv'
  <1>1. Unread' = Unread
    BY DEF Unread
  <1>2. \A i \in Unread : order[i] \in Keys
    BY DEF Unread, TypeOK
  <1> QED
    BY <1>1, <1>2 DEF QueueInv

\* The pending map is finite, so its size is a number.
LEMMA PendingFinite == IsFiniteSet(PendingKeys)
  BY KeysAssumption, FS_Subset DEF PendingKeys

\* enqueue files a new key at the end of order.
LEMMA QueueInsert ==
    ASSUME TypeOK, QueueInv, NEW k \in Keys, NEW e \in Events,
           pending[k] = NoEvent, Cardinality(PendingKeys) < MaxPending,
           pending' = [pending EXCEPT ![k] = e], order' = Append(order, k), head' = head
    PROVE  QueueInv'
  <1>1. PendingKeys' = PendingKeys \cup {k} /\ k \notin PendingKeys
    BY NoEventAssumption DEF PendingKeys, TypeOK
  <1>2. Cardinality(PendingKeys') = Cardinality(PendingKeys) + 1
    BY <1>1, PendingFinite, FS_AddElement
  <1>3. /\ Len(order') = Len(order) + 1 /\ order'[Len(order) + 1] = k
        /\ \A i \in 1..Len(order) : order'[i] = order[i]
    BY DEF TypeOK
  <1>4. /\ Unread' = Unread \cup {Len(order) + 1} /\ Unread \subseteq 1..Len(order)
        /\ Len(order) + 1 \notin Unread
    BY <1>3 DEF Unread, QueueInv, TypeOK
  <1>5. \A i \in Unread : order[i] \in PendingKeys
    BY <1>4 DEF QueueInv, PendingKeys, TypeOK
  <1>6. head' <= Len(order')
    BY <1>3 DEF QueueInv, TypeOK
  <1>7. \A i \in Unread' : pending'[order'[i]] # NoEvent
    BY <1>1, <1>3, <1>4, <1>5 DEF PendingKeys
  <1>8. \A i, j \in Unread' : order'[i] = order'[j] => i = j
    BY <1>1, <1>3, <1>4, <1>5 DEF QueueInv
  <1>9. \A x \in PendingKeys' : \E i \in Unread' : order'[i] = x
    BY <1>1, <1>3, <1>4 DEF QueueInv
  <1>10. /\ Cardinality(PendingKeys') = Len(order') - head'
         /\ Len(order') - head' <= MaxPending
    BY <1>2, <1>3, PendingAssumption DEF QueueInv, TypeOK
  <1> QED
    BY <1>6, <1>7, <1>8, <1>9, <1>10 DEF QueueInv

\* pop takes the first unread entry, and compact keeps the others.
LEMMA QueuePop ==
    ASSUME TypeOK, QueueInv, NEW next, popEvent(next)
    PROVE  QueueInv'
  <1> DEFINE c == compact(order, head + 1)
             n == Len(order) - (head + 1)
             k == order[head + 1]
  <1>1. /\ head < Len(order) /\ head + 1 \in 0..Len(order) /\ k \in Keys
        /\ order' = c.order /\ head' = c.head
        /\ pending' = [pending EXCEPT ![k] = NoEvent]
    BY PopFirst DEF TypeOK
  <1>2. /\ c.order \in Seq(Keys) /\ c.head \in 0..Len(c.order)
        /\ Len(c.order) - c.head = n
        /\ \A i \in 1..n : c.order[c.head + i] = order[head + 1 + i]
    BY <1>1, CompactKeeps DEF TypeOK
  <1>3. /\ order' \in Seq(Keys) /\ head' \in Nat /\ head' <= Len(order')
        /\ Len(order') - head' = n /\ n \in Nat
        /\ \A i \in 1..n : order'[head' + i] = order[head + 1 + i]
    BY <1>1, <1>2 DEF TypeOK
  <1> HIDE DEF c
  <1>4. \A i \in Unread' : i - head' \in 1..n /\ order'[i] = order[head + 1 + (i - head')]
    BY <1>3 DEF Unread
  <1>5. \A i \in 1..n : head + 1 + i \in Unread /\ head + 1 + i # head + 1
    <2>1. head \in Nat /\ Len(order) \in Nat
      BY DEF TypeOK
    <2> QED
      BY <2>1 DEF Unread
  <1>6. head + 1 \in Unread /\ k \in PendingKeys
    BY <1>1 DEF Unread, PendingKeys, QueueInv, TypeOK
  <1>7. PendingKeys' = PendingKeys \ {k}
    BY <1>1 DEF PendingKeys, TypeOK
  <1>8. \A i \in 1..n : order[head + 1 + i] # k /\ pending[order[head + 1 + i]] # NoEvent
    BY <1>5, <1>6 DEF QueueInv
  <1>9. \A i \in 1..n : order[head + 1 + i] \in Keys
    BY <1>1 DEF TypeOK
  <1>10. \A i \in Unread' : pending'[order'[i]] # NoEvent
    <2>1. pending \in [Keys -> OptEvents]
      BY DEF TypeOK
    <2>2. \A i \in 1..n : pending'[order[head + 1 + i]] # NoEvent
      BY <1>1, <1>8, <1>9, <2>1
    <2> QED
      BY <1>4, <2>2
  <1>11. ASSUME NEW i \in Unread', NEW j \in Unread', order'[i] = order'[j]
         PROVE  i = j
    <2>1. order[head + 1 + (i - head')] = order[head + 1 + (j - head')]
      BY <1>4, <1>11
    <2>2. head + 1 + (i - head') = head + 1 + (j - head')
      BY <1>4, <1>5, <2>1 DEF QueueInv
    <2>3. head \in Nat /\ head' \in Nat /\ i \in Int /\ j \in Int
      BY <1>3 DEF Unread, TypeOK
    <2> QED
      BY <2>2, <2>3
  <1>12. ASSUME NEW x \in PendingKeys'
         PROVE  \E i \in Unread' : order'[i] = x
    <2>1. x \in PendingKeys /\ x # k
      BY <1>7
    <2>2. PICK j \in Unread : order[j] = x
      BY <2>1 DEF QueueInv
    <2>3. j # head + 1
      BY <2>1, <2>2
    <2>4. j - (head + 1) \in 1..n /\ head + 1 + (j - (head + 1)) = j
      <3>1. head \in Nat /\ Len(order) \in Nat
        BY DEF TypeOK
      <3>2. j \in Int /\ head + 1 <= j /\ j <= Len(order)
        BY <3>1 DEF Unread
      <3> QED
        BY <3>1, <3>2, <2>3
    <2>5. order'[head' + (j - (head + 1))] = x
      BY <1>3, <2>2, <2>4
    <2>6. head' + (j - (head + 1)) \in Unread'
      BY <1>3, <2>4 DEF Unread
    <2> QED
      BY <2>5, <2>6
  <1>13. Cardinality(PendingKeys') = Cardinality(PendingKeys) - 1
    BY <1>6, <1>7, PendingFinite, FS_RemoveElement
  <1>14. /\ Cardinality(PendingKeys') = Len(order') - head'
         /\ Len(order') - head' <= MaxPending
    BY <1>1, <1>3, <1>13, PendingAssumption DEF QueueInv, TypeOK
  <1> QED
    BY <1>3, <1>10, <1>11, <1>12, <1>14 DEF QueueInv

\* Every step keeps order and pending together.
LEMMA QueueStep == TypeOK /\ QueueInv /\ [Next]_vars => QueueInv'
  <1> SUFFICES ASSUME TypeOK, QueueInv, [Next]_vars PROVE QueueInv'
    OBVIOUS
  <1>1. ASSUME NEW k \in Keys, NEW kind \in Kinds, NEW changed \in SUBSET Fields,
               enqueueCoalesce(k, kind, changed)
        PROVE  QueueInv'
    <2> DEFINE e == coalesce(pending[k], Emitted(k, kind, changed))
    <2>1. /\ pending[k] \in Events /\ pending[k] # NoEvent
          /\ pending' = [pending EXCEPT ![k] = e] /\ UNCHANGED <<order, head>>
      BY <1>1 DEF enqueueCoalesce, TypeOK, OptEvents
    <2>2. e # NoEvent
      BY <2>1, EventType, NoEventAssumption
    <2> HIDE DEF e
    <2>3. \A x \in Keys : pending'[x] # NoEvent <=> pending[x] # NoEvent
      BY <2>1, <2>2 DEF TypeOK
    <2>4. PendingKeys' = PendingKeys
      BY <2>3 DEF PendingKeys
    <2> QED
      BY <2>1, <2>3, <2>4, QueueUntouched
  <1>2. ASSUME NEW k \in Keys, NEW kind \in Kinds, NEW changed \in SUBSET Fields,
               enqueueInsert(k, kind, changed)
        PROVE  QueueInv'
    BY <1>2, EventType, QueueInsert DEF enqueueInsert, insert
  <1>3. ASSUME NEW next, popEvent(next)
        PROVE  QueueInv'
    BY <1>3, QueuePop
  <1>4. ASSUME NEW next, popNothing(next)
        PROVE  QueueInv'
    <2>1. /\ PendingKeys = {} /\ head = Len(order) /\ UNCHANGED pending
          /\ order' = compact(order, Len(order)).order
          /\ head' = compact(order, Len(order)).head
      BY <1>4, PopEmpty DEF popNothing
    <2>2. /\ order' \in Seq(Keys) /\ head' \in Nat
          /\ Len(order') - head' = 0
      BY <2>1, CompactKeeps DEF TypeOK
    <2>3. Unread' = {} /\ PendingKeys' = {} /\ head' = Len(order')
      BY <2>1, <2>2 DEF Unread, PendingKeys
    <2> QED
      BY <2>2, <2>3, FS_EmptySet, PendingAssumption DEF QueueInv
  <1>5. CASE UNCHANGED <<pending, order, head>>
    BY <1>5, QueueUntouched DEF PendingKeys
  <1> QED
    BY <1>1, <1>2, <1>3, <1>4, <1>5
       DEF Next, Enqueue, enqueueDrop, enqueueNotify, notifies, Pump, Pop, Drain, Send,
           PumpReturn, Wake, StartDrain, goesTo, RunReturns, Close, Join, Streams, Cancel,
           Consume

\* The bound on order follows from the one on its unread part.
LEMMA OrderStep ==
    TypeOK /\ QueueInv /\ QueueInv' /\ TypeOK' /\ OrderBounded /\ [Next]_vars => OrderBounded'
  <1> SUFFICES ASSUME TypeOK, QueueInv, QueueInv', TypeOK', OrderBounded, [Next]_vars
               PROVE  OrderBounded'
    OBVIOUS
  <1>1. ASSUME head' > CompactAt => head' * 2 < Len(order')
        PROVE  OrderBounded'
    <2>1. head' \in Nat /\ Len(order') \in Nat /\ Len(order') - head' <= MaxPending
      BY DEF QueueInv, TypeOK
    <2> DEFINE h == head'
               n == Len(order')
    <2> HIDE DEF h, n
    <2>2. n <= CompactAt + MaxPending \/ n <= MaxPending + MaxPending
      BY <1>1, <2>1, CompactAssumption, PendingAssumption DEF h, n
    <2> QED
      BY <1>1, <2>2 DEF OrderBounded, n
  <1>2. ASSUME NEW next, popEvent(next)
        PROVE  OrderBounded'
    <2>1. /\ head + 1 \in 0..Len(order) /\ order' = compact(order, head + 1).order
          /\ head' = compact(order, head + 1).head
      BY <1>2, PopFirst DEF TypeOK
    <2>2. head' > CompactAt => head' * 2 < Len(order')
      BY <2>1, CompactKeeps DEF TypeOK
    <2> QED
      BY <1>1, <2>2
  <1>3. ASSUME NEW next, popNothing(next)
        PROVE  OrderBounded'
    <2>1. /\ Len(order) \in 0..Len(order) /\ order' = compact(order, Len(order)).order
          /\ head' = compact(order, Len(order)).head
      BY <1>3 DEF TypeOK, popNothing
    <2>2. head' > CompactAt => head' * 2 < Len(order')
      BY <2>1, CompactKeeps DEF TypeOK
    <2> QED
      BY <1>1, <2>2
  <1>4. ASSUME NEW k \in Keys, NEW kind \in Kinds, NEW changed \in SUBSET Fields,
               enqueueInsert(k, kind, changed)
        PROVE  OrderBounded'
    <2>1. head' = head /\ Len(order') = Len(order) + 1
      BY <1>4 DEF enqueueInsert, insert, TypeOK
    <2> QED
      BY <1>1, <2>1, CompactAssumption DEF OrderBounded, TypeOK
  <1>5. CASE UNCHANGED <<order, head>>
    BY <1>5 DEF OrderBounded
  <1> QED
    BY <1>2, <1>3, <1>4, <1>5
       DEF Next, Enqueue, enqueueCoalesce, enqueueDrop, enqueueNotify, notifies, Pump, Pop,
           Drain, Send, PumpReturn, Wake, StartDrain, goesTo, RunReturns, Close, Join,
           Streams, Cancel, Consume

\* A pump that goes to sleep has seen an empty queue, and whoever fills it next
\* owes a wakeup.
LEMMA WakeupStep ==
    TypeOK /\ QueueInv /\ NoLostWakeup /\ [Next]_vars => NoLostWakeup'
  <1> SUFFICES ASSUME TypeOK, QueueInv, NoLostWakeup, [Next]_vars PROVE NoLostWakeup'
    OBVIOUS
  <1>1. ASSUME NEW k \in Keys, NEW kind \in Kinds, NEW changed \in SUBSET Fields,
               enqueueCoalesce(k, kind, changed)
        PROVE  NoLostWakeup'
    <2>1. PendingKeys # {}
      BY <1>1 DEF enqueueCoalesce, PendingKeys
    <2> QED
      BY <1>1, <2>1 DEF enqueueCoalesce, NoLostWakeup
  <1>2. ASSUME NEW k \in Keys, NEW kind \in Kinds, NEW changed \in SUBSET Fields,
               enqueueInsert(k, kind, changed)
        PROVE  NoLostWakeup'
    BY <1>2 DEF enqueueInsert, insert, NoLostWakeup
  <1>3. ASSUME NEW next \in {"send", "drainSend"}, popEvent(next)
        PROVE  NoLostWakeup'
    BY <1>3, PopFirst DEF NoLostWakeup
  <1>4. ASSUME NEW next, popNothing(next)
        PROVE  NoLostWakeup'
    <2>1. PendingKeys' = {}
      BY <1>4, PopEmpty DEF popNothing, PendingKeys
    <2> QED
      BY <2>1 DEF NoLostWakeup
  <1>5. CASE enqueueNotify
    BY <1>5 DEF enqueueNotify, notifies, NoLostWakeup
  <1>6. CASE Send \/ PumpReturn \/ Wake \/ StartDrain
    <2>1. pump' # "wait"
      BY <1>6 DEF Send, PumpReturn, Wake, StartDrain, goesTo
    <2> QED
      BY <2>1 DEF NoLostWakeup
  <1>7. CASE RunReturns \/ Close \/ Join \/ Cancel \/ Consume \/ UNCHANGED vars
             \/ (\E k \in Keys, kind \in Kinds, changed \in SUBSET Fields :
                     enqueueDrop(k, kind, changed))
    BY <1>7 DEF RunReturns, Close, Join, Streams, Cancel, Consume, enqueueDrop, NoLostWakeup,
                PendingKeys
  <1> QED
    BY <1>1, <1>2, <1>3, <1>4, <1>5, <1>6, <1>7 DEF Next, Enqueue, Pump, Pop, Drain

-----------------------------------------------------------------------------
(* The theorems.                                                           *)

\* The queue that newOwnedStreamQueue makes satisfies every invariant.
LEMMA InitInv == Init => TypeOK /\ QueueInv /\ OrderBounded /\ NoLostWakeup
  <1> SUFFICES ASSUME Init PROVE TypeOK /\ QueueInv /\ OrderBounded /\ NoLostWakeup
    OBVIOUS
  <1>1. PendingKeys = {} /\ Unread = {} /\ Len(order) = 0 /\ head = 0
    BY DEF Init, PendingKeys, Unread
  <1>2. TypeOK
    <2>1. /\ pending \in [Keys -> OptEvents] /\ hand = NoEvent /\ hand \in OptEvents
          /\ \A k \in PendingKeys : pending[k].key = k
      BY <1>1 DEF Init, OptEvents
    <2>2. order \in Seq(Keys) /\ out \in Seq(Events) /\ Len(out) <= MaxPending
      BY PendingAssumption DEF Init
    <2>3. /\ history \in [Keys -> History]
          /\ seen \in [Keys -> Nat] /\ head \in Nat
      <3>1. <<>> \in History
        BY DEF History
      <3> QED
        BY <3>1 DEF Init
    <2>4. closed <=> stream \in {"join", "done"}
      BY DEF Init
    <2> QED
      BY <2>1, <2>2, <2>3, <2>4 DEF Init, TypeOK
  <1>3. QueueInv
    BY <1>1, FS_EmptySet, PendingAssumption DEF QueueInv
  <1>4. OrderBounded /\ NoLostWakeup
    BY <1>1, CompactAssumption, PendingAssumption DEF Init, OrderBounded, NoLostWakeup
  <1> QED
    BY <1>2, <1>3, <1>4

\* Every variable always has its type: the events in the map, in the pump's
\* hand and in the channel are events, filed under their keys.
THEOREM TypeCorrect == Spec => []TypeOK
  <1>1. Init => TypeOK /\ QueueInv
    BY InitInv
  <1>2. (TypeOK /\ QueueInv) /\ [Next]_vars => (TypeOK /\ QueueInv)'
    BY TypeStep, QueueStep
  <1> QED
    BY <1>1, <1>2, PTL DEF Spec

\* The queue's index always agrees with its map, and the queue never holds more
\* than MaxPending events, nor order more than a fixed number of entries.
THEOREM QueueCorrect == Spec => [](QueueInv /\ OrderBounded)
  <1> DEFINE I == TypeOK /\ QueueInv /\ OrderBounded
  <1>1. Init => I
    BY InitInv
  <1>2. I /\ [Next]_vars => I'
    BY TypeStep, QueueStep, OrderStep
  <1> QED
    BY <1>1, <1>2, PTL DEF Spec

\* The pump of Stream never misses a wakeup.
THEOREM NoWakeupLost == Spec => []NoLostWakeup
  <1> DEFINE I == TypeOK /\ QueueInv /\ NoLostWakeup
  <1>1. Init => I
    BY InitInv
  <1>2. I /\ [Next]_vars => I'
    BY TypeStep, QueueStep, WakeupStep
  <1> QED
    BY <1>1, <1>2, PTL DEF Spec

-----------------------------------------------------------------------------
(* Events in flight.                                                       *)

\* Event e tells of a state its link had, and was not dropped.
Told(h, e) == e.ver \in 1..Len(h[e.key]) /\ ~ h[e.key][e.ver].dropped

\* AfterOut for any out, seen and history.
Later(o, s, h, e) ==
    /\ s[e.key] < e.ver /\ e.ver <= Len(h[e.key])
    /\ \A i \in DOMAIN o : o[i].key = e.key => o[i].ver < e.ver

\* So do all events on their way.
Kept ==
    /\ \A i \in DOMAIN out : Told(history, out[i])
    /\ hand # NoEvent => Told(history, hand)
    /\ \A k \in PendingKeys : Told(history, pending[k])

\* A new state leaves the events in flight what they were.
LEMMA EmitsTold ==
    ASSUME TypeOK, NEW k \in Keys, NEW kind \in Kinds, NEW changed \in SUBSET Fields,
           NEW drop \in BOOLEAN, Emits(k, kind, changed, drop)
    PROVE  /\ \A e \in Events : Told(history, e) => Told(history', e)
           /\ \A e \in Events : e.key = k /\ e.ver = ver(k) + 1 /\ ~ drop => Told(history', e)
           /\ \A x \in Keys : ver(x) \in Nat /\ ver(x)' \in Nat /\ ver(x) <= ver(x)'
  <1>1. /\ history' \in [Keys -> History] /\ history \in [Keys -> History]
        /\ ver(k)' = ver(k) + 1
        /\ \A x \in Keys \ {k} : history'[x] = history[x]
        /\ \A n \in 1..ver(k) : history'[k][n] = history[k][n]
        /\ history'[k][ver(k) + 1] = [kind |-> kind, changed |-> changed, dropped |-> drop]
    <2>1. history \in [Keys -> History]
      BY DEF TypeOK
    <2> QED
      BY <2>1, EmitsType
  <1>2. \A x \in Keys : Len(history[x]) \in Nat /\ Len(history'[x]) \in Nat
    BY <1>1 DEF History
  <1>3. Len(history'[k]) = Len(history[k]) + 1
    BY <1>1 DEF ver
  <1>4. ASSUME NEW e \in Events, Told(history, e) PROVE Told(history', e)
    <2>1. e.key \in Keys /\ e.ver \in Nat
      BY DEF Events
    <2>2. CASE e.key = k
      BY <1>1, <1>2, <1>3, <1>4, <2>1, <2>2 DEF Told, ver
    <2>3. CASE e.key # k
      BY <1>1, <1>4, <2>1, <2>3 DEF Told
    <2> QED
      BY <2>2, <2>3
  <1>5. ASSUME NEW e \in Events, e.key = k, e.ver = ver(k) + 1, ~ drop PROVE Told(history', e)
    <2>1. e.ver \in 1..Len(history'[k])
      BY <1>2, <1>3, <1>5 DEF ver
    <2>2. history'[k][e.ver].dropped = drop
      BY <1>1, <1>5
    <2> QED
      BY <2>1, <2>2, <1>5 DEF Told
  <1>6. \A x \in Keys : ver(x) \in Nat /\ ver(x)' \in Nat /\ ver(x) <= ver(x)'
    BY <1>1, <1>2, <1>3 DEF ver
  <1> QED
    BY <1>4, <1>5, <1>6

\* enqueue puts an event with the newest state of k in the map.
LEMMA OrderFiled ==
    ASSUME TypeOK, InOrder, Kept, NEW k \in Keys, NEW kind \in Kinds,
           NEW changed \in SUBSET Fields, Emits(k, kind, changed, FALSE),
           NEW e \in Events, e.key = k, e.ver = ver(k) + 1,
           pending' = [pending EXCEPT ![k] = e], UNCHANGED <<out, hand, seen>>
    PROVE  InOrder' /\ Kept'
  <1>1. /\ \A x \in Events : Told(history, x) => Told(history', x)
        /\ Told(history', e) /\ ver(k)' = ver(k) + 1
        /\ \A x \in Keys : ver(x) \in Nat /\ ver(x)' \in Nat /\ ver(x) <= ver(x)'
    BY EmitsTold, EmitsType
  <1>2. /\ pending \in [Keys -> OptEvents] /\ out \in Seq(Events) /\ hand \in OptEvents
        /\ seen \in [Keys -> Nat]
    BY DEF TypeOK
  <1>3. /\ \A x \in PendingKeys' : x # k => x \in PendingKeys /\ pending'[x] = pending[x]
        /\ \A x \in PendingKeys' : x \in Keys
        /\ pending'[k] = e
    BY <1>2 DEF PendingKeys
  <1>4. /\ \A i \in DOMAIN out : out[i] \in Events
        /\ hand # NoEvent => hand \in Events
        /\ \A x \in PendingKeys : pending[x] \in Events /\ pending[x].key = x
    BY <1>2 DEF OptEvents, PendingKeys, TypeOK
  <1>5. \A x \in Events : x.key \in Keys /\ x.ver \in Nat
    BY DEF Events
  <1>6. Kept'
    BY <1>1, <1>3, <1>4 DEF Kept
  <1>7. \A x \in Keys : seen'[x] <= ver(x)'
    BY <1>1, <1>2 DEF InOrder
  <1>8. /\ \A i \in DOMAIN out' :
               seen'[out'[i].key] < out'[i].ver /\ out'[i].ver <= Len(history'[out'[i].key])
        /\ \A i, j \in DOMAIN out' :
               i < j /\ out'[i].key = out'[j].key => out'[i].ver < out'[j].ver
    <2>1. \A i \in DOMAIN out : out[i].ver \in Nat /\ out[i].ver <= ver(out[i].key)
                                /\ out[i].key \in Keys
      BY <1>4, <1>5 DEF InOrder
    <2>2. \A i \in DOMAIN out : out[i].ver <= Len(history'[out[i].key])
      BY <1>1, <2>1 DEF ver
    <2> QED
      BY <2>2 DEF InOrder
  <1>9. ASSUME NEW x \in Events, Later(out, seen, history, x)
        PROVE  Later(out', seen', history', x)
    <2>1. /\ Len(history[x.key]) \in Nat /\ Len(history'[x.key]) \in Nat
          /\ Len(history[x.key]) <= Len(history'[x.key]) /\ x.ver \in Nat
      BY <1>1, <1>5 DEF ver
    <2> QED
      BY <1>9, <2>1 DEF Later
  <1>10. hand' # NoEvent => Later(out', seen', history', hand')
    BY <1>4, <1>9 DEF InOrder, AfterOut, ver, Later
  <1>11. Later(out', seen', history', e)
    <2>1. \A i \in DOMAIN out : out[i].key = k => out[i].ver \in Nat /\ out[i].ver <= ver(k)
      BY <1>4, <1>5 DEF InOrder
    <2>2. \A i \in DOMAIN out : out[i].key = k => out[i].ver < e.ver
      BY <1>1, <2>1
    <2>3. seen[k] < e.ver /\ e.ver <= ver(k)'
      BY <1>1, <1>2 DEF InOrder
    <2> QED
      BY <2>2, <2>3 DEF Later, ver
  <1>12. hand # NoEvent /\ hand.key = k => hand.ver < e.ver
    <2>1. hand # NoEvent => hand.ver \in Nat /\ hand.ver <= ver(hand.key)
      BY <1>4, <1>5 DEF InOrder, AfterOut
    <2> QED
      BY <1>1, <2>1
  <1>13. ASSUME NEW x \in PendingKeys'
         PROVE  /\ Later(out', seen', history', pending'[x])
                /\ hand' # NoEvent /\ hand'.key = x => hand'.ver < pending'[x].ver
    <2>1. CASE x = k
      BY <1>3, <1>11, <1>12, <2>1
    <2>2. CASE x # k
      <3>1. x \in PendingKeys /\ pending'[x] = pending[x] /\ pending[x] \in Events
        BY <1>3, <1>4, <2>2
      <3>2. Later(out, seen, history, pending[x])
        BY <3>1 DEF InOrder, AfterOut, ver, Later
      <3>3. Later(out', seen', history', pending'[x])
        BY <3>1, <3>2, <1>9
      <3>4. hand # NoEvent /\ hand.key = x => hand.ver < pending[x].ver
        BY <3>1 DEF InOrder
      <3> QED
        BY <3>1, <3>3, <3>4
    <2> QED
      BY <2>1, <2>2
  <1>14. InOrder'
    BY <1>7, <1>8, <1>10, <1>13, Zenon DEF InOrder, AfterOut, ver, Later
  <1> QED
    BY <1>6, <1>14


\* A dropped event only makes its link's newest state later.
LEMMA OrderDropped ==
    ASSUME TypeOK, InOrder, Kept, NEW k \in Keys, NEW kind \in Kinds,
           NEW changed \in SUBSET Fields, Emits(k, kind, changed, TRUE),
           UNCHANGED <<pending, out, hand, seen>>
    PROVE  InOrder' /\ Kept'
  <1>1. /\ \A x \in Events : Told(history, x) => Told(history', x)
        /\ \A x \in Keys : ver(x) \in Nat /\ ver(x)' \in Nat /\ ver(x) <= ver(x)'
    BY EmitsTold
  <1>2. /\ \A i \in DOMAIN out : out[i] \in Events
        /\ hand # NoEvent => hand \in Events
        /\ \A x \in PendingKeys : pending[x] \in Events
        /\ \A x \in Events : x.key \in Keys /\ x.ver \in Nat
        /\ \A x \in Keys : seen[x] \in Nat
    <2>1. \A x \in Events : x.key \in Keys /\ x.ver \in Nat
      BY DEF Events
    <2> QED
      BY <2>1 DEF OptEvents, PendingKeys, TypeOK
  <1>3. PendingKeys' = PendingKeys
    BY DEF PendingKeys
  <1>4. Kept'
    BY <1>1, <1>2, <1>3 DEF Kept
  <1>5. \A x \in Keys : seen'[x] <= ver(x)'
    BY <1>1, <1>2 DEF InOrder
  <1>6. \A x \in Events : x.ver <= Len(history[x.key]) => x.ver <= Len(history'[x.key])
    BY <1>1, <1>2 DEF ver
  <1>7. InOrder'
    BY <1>2, <1>3, <1>5, <1>6 DEF InOrder, AfterOut, ver
  <1> QED
    BY <1>4, <1>7

\* pop moves an event from the map to the pump's empty hand.
LEMMA OrderPopped ==
    ASSUME TypeOK, QueueInv, InOrder, Kept, hand = NoEvent, NEW next, popEvent(next)
    PROVE  InOrder' /\ Kept'
  <1> DEFINE k == order[head + 1]
  <1>1. /\ hand' = pending[k] /\ hand' # NoEvent
        /\ pending' = [pending EXCEPT ![k] = NoEvent]
        /\ UNCHANGED <<out, seen, history>> /\ k \in Keys
    BY PopFirst, NoEventAssumption DEF TypeOK
  <1> HIDE DEF k
  <1>2. k \in PendingKeys /\ hand'.key = k
    BY <1>1 DEF PendingKeys, TypeOK
  <1>3. PendingKeys' = PendingKeys \ {k} /\ \A x \in PendingKeys' : pending'[x] = pending[x]
    BY <1>1 DEF PendingKeys, TypeOK
  <1>4. Kept'
    BY <1>1, <1>2, <1>3 DEF Kept
  <1>5. InOrder'
    BY <1>1, <1>2, <1>3 DEF InOrder, AfterOut, ver
  <1> QED
    BY <1>4, <1>5

\* The send appends an event later than all of its key in the channel.
LEMMA OrderSent ==
    ASSUME TypeOK, InOrder, Kept, Send
    PROVE  InOrder' /\ Kept'
  <1>1. /\ hand \in Events /\ hand # NoEvent /\ out \in Seq(Events)
        /\ out' = Append(out, hand) /\ hand' = NoEvent
        /\ UNCHANGED <<pending, seen, history>>
    BY DEF Send, TypeOK, OptEvents
  <1>2. /\ Len(out) \in Nat /\ DOMAIN out = 1..Len(out) /\ DOMAIN out' = 1..(Len(out) + 1)
        /\ out'[Len(out) + 1] = hand
        /\ \A i \in DOMAIN out : out'[i] = out[i]
    BY <1>1
  <1>3. \A i \in DOMAIN out' : i \in DOMAIN out \/ i = Len(out) + 1
    BY <1>2
  <1>4. PendingKeys' = PendingKeys
    BY <1>1 DEF PendingKeys
  <1>5. Kept'
    BY <1>1, <1>2, <1>3, <1>4 DEF Kept
  <1>6. \A x \in Keys : seen'[x] <= ver(x)'
    BY <1>1 DEF InOrder, ver
  <1>7. \A i \in DOMAIN out' :
            seen'[out'[i].key] < out'[i].ver /\ out'[i].ver <= Len(history'[out'[i].key])
    BY <1>1, <1>2, <1>3 DEF InOrder, AfterOut, ver
  <1>8. ASSUME NEW i \in DOMAIN out', NEW j \in DOMAIN out', i < j, out'[i].key = out'[j].key
        PROVE  out'[i].ver < out'[j].ver
    <2>1. i \in DOMAIN out
      BY <1>2, <1>8
    <2>2. CASE j = Len(out) + 1
      BY <1>1, <1>2, <1>8, <2>1, <2>2 DEF InOrder, AfterOut
    <2>3. CASE j \in DOMAIN out
      BY <1>2, <1>8, <2>1, <2>3 DEF InOrder
    <2> QED
      BY <1>3, <2>2, <2>3
  <1>9. ASSUME NEW x \in PendingKeys
        PROVE  Later(out', seen', history', pending'[x])
    <2>1. /\ Later(out, seen, history, pending[x]) /\ pending[x].key = x
          /\ hand.key = x => hand.ver < pending[x].ver
      BY <1>1 DEF InOrder, AfterOut, ver, Later, TypeOK
    <2> QED
      BY <1>1, <1>2, <1>3, <2>1 DEF Later
  <1>10. InOrder'
    BY <1>1, <1>4, <1>6, <1>7, <1>8, <1>9, Zenon DEF InOrder, AfterOut, ver, Later
  <1> QED
    BY <1>5, <1>10

\* The consumer reads the oldest event of its key.
LEMMA OrderConsumed ==
    ASSUME TypeOK, InOrder, Kept, Consume
    PROVE  /\ InOrder' /\ Kept'
           /\ Told(history, Head(out)) /\ Head(out) \in Events
           /\ seen[Head(out).key] < Head(out).ver
  <1> DEFINE e == Head(out)
  <1>1. /\ out \in Seq(Events) /\ out # <<>> /\ out' = Tail(out)
        /\ seen \in [Keys -> Nat] /\ seen' = [seen EXCEPT ![e.key] = e.ver]
        /\ UNCHANGED <<pending, hand, history>>
    BY DEF Consume, TypeOK, qvars
  <1>2. /\ Len(out) \in Nat \ {0} /\ DOMAIN out = 1..Len(out) /\ DOMAIN out' = 1..(Len(out) - 1)
        /\ e = out[1] /\ e \in Events
        /\ \A i \in DOMAIN out' : out'[i] = out[i + 1]
    BY <1>1
  <1>3. \A i \in DOMAIN out' : i \in Nat /\ i + 1 \in DOMAIN out /\ 1 < i + 1
    BY <1>2
  <1>4. 1 \in DOMAIN out /\ e.key \in Keys /\ e.ver \in Nat
    BY <1>2 DEF Events
  <1>5. /\ Told(history, e) /\ seen[e.key] < e.ver /\ e.ver <= Len(history[e.key])
        /\ \A i \in DOMAIN out : 1 < i /\ out[i].key = e.key => e.ver < out[i].ver
    BY <1>2, <1>4 DEF Kept, InOrder, ver
  <1> HIDE DEF e
  <1>6. PendingKeys' = PendingKeys
    BY <1>1 DEF PendingKeys
  <1>7. Kept'
    BY <1>1, <1>2, <1>3, <1>6 DEF Kept
  <1>8. \A x \in Keys : seen'[x] = IF x = e.key THEN e.ver ELSE seen[x]
    BY <1>1
  <1>9. \A x \in Keys : seen'[x] <= ver(x)'
    BY <1>1, <1>5, <1>8 DEF InOrder, ver
  <1>10. \A i \in DOMAIN out : out[i].key \in Keys
    <2>1. \A x \in Events : x.key \in Keys
      BY DEF Events
    <2> QED
      BY <1>1, <2>1
  <1>11. \A i \in DOMAIN out' :
             seen'[out'[i].key] < out'[i].ver /\ out'[i].ver <= Len(history'[out'[i].key])
    BY <1>1, <1>2, <1>3, <1>5, <1>8, <1>10 DEF InOrder, ver
  <1>12. \A i, j \in DOMAIN out' :
             i < j /\ out'[i].key = out'[j].key => out'[i].ver < out'[j].ver
    BY <1>2, <1>3 DEF InOrder
  <1>13. ASSUME NEW x \in Events, Later(out, seen, history, x)
         PROVE  Later(out', seen', history', x)
    <2>1. x.key \in Keys
      BY DEF Events
    <2>2. seen'[x.key] < x.ver
      BY <1>2, <1>4, <1>8, <1>13, <2>1 DEF Later
    <2> QED
      BY <1>1, <1>2, <1>3, <1>13, <2>2 DEF Later
  <1>14. hand' # NoEvent => Later(out', seen', history', hand')
    <2>1. hand # NoEvent => hand \in Events /\ Later(out, seen, history, hand)
      BY DEF TypeOK, OptEvents, InOrder, AfterOut, ver, Later
    <2> QED
      BY <1>1, <1>13, <2>1
  <1>15. ASSUME NEW x \in PendingKeys
         PROVE  Later(out', seen', history', pending'[x])
    <2>1. pending[x] \in Events /\ Later(out, seen, history, pending[x])
      BY DEF TypeOK, OptEvents, PendingKeys, InOrder, AfterOut, ver, Later
    <2> QED
      BY <1>1, <1>13, <2>1
  <1>16. \A x \in PendingKeys : hand' # NoEvent /\ hand'.key = x => hand'.ver < pending'[x].ver
    BY <1>1 DEF InOrder
  <1>17. InOrder'
    BY <1>6, <1>9, <1>11, <1>12, <1>14, <1>15, <1>16, Zenon DEF InOrder, AfterOut, ver, Later
  <1> QED
    BY <1>2, <1>5, <1>7, <1>17 DEF e

\* Every step keeps the events in flight in order.
LEMMA FlightStep ==
    TypeOK /\ QueueInv /\ InOrder /\ Kept /\ [Next]_vars => InOrder' /\ Kept'
  <1> SUFFICES ASSUME TypeOK, QueueInv, InOrder, Kept, [Next]_vars PROVE InOrder' /\ Kept'
    OBVIOUS
  <1>1. ASSUME NEW k \in Keys, NEW kind \in Kinds, NEW changed \in SUBSET Fields,
               enqueueCoalesce(k, kind, changed)
        PROVE  InOrder' /\ Kept'
    <2> DEFINE e == coalesce(pending[k], Emitted(k, kind, changed))
    <2>1. /\ Emits(k, kind, changed, FALSE) /\ pending[k] \in Events
          /\ pending' = [pending EXCEPT ![k] = e] /\ UNCHANGED <<out, hand, seen>>
      BY <1>1 DEF enqueueCoalesce, TypeOK, OptEvents
    <2>2. e \in Events /\ e.key = k /\ e.ver = ver(k) + 1
      BY <2>1, EventType
    <2> HIDE DEF e
    <2> QED
      BY <2>1, <2>2, OrderFiled
  <1>2. ASSUME NEW k \in Keys, NEW kind \in Kinds, NEW changed \in SUBSET Fields,
               enqueueInsert(k, kind, changed)
        PROVE  InOrder' /\ Kept'
    <2> DEFINE e == Emitted(k, kind, changed)
    <2>1. /\ Emits(k, kind, changed, FALSE)
          /\ pending' = [pending EXCEPT ![k] = e] /\ UNCHANGED <<out, hand, seen>>
      BY <1>2 DEF enqueueInsert, insert
    <2>2. e \in Events /\ e.key = k /\ e.ver = ver(k) + 1
      BY EventType
    <2> HIDE DEF e
    <2> QED
      BY <2>1, <2>2, OrderFiled
  <1>3. ASSUME NEW k \in Keys, NEW kind \in Kinds, NEW changed \in SUBSET Fields,
               enqueueDrop(k, kind, changed)
        PROVE  InOrder' /\ Kept'
    BY <1>3, OrderDropped DEF enqueueDrop
  <1>4. ASSUME NEW next, pump \in {"pop", "drain"}, popEvent(next)
        PROVE  InOrder' /\ Kept'
    BY <1>4, OrderPopped DEF TypeOK
  <1>5. CASE Send
    BY <1>5, OrderSent
  <1>6. CASE Consume
    BY <1>6, OrderConsumed
  <1>7. CASE UNCHANGED <<pending, out, hand, seen, history>>
    BY <1>7 DEF InOrder, Kept, AfterOut, ver, PendingKeys
  <1>8. CASE \/ enqueueNotify \/ PumpReturn \/ Wake \/ StartDrain \/ RunReturns \/ Close
             \/ Join \/ Cancel \/ UNCHANGED vars \/ (\E next : popNothing(next))
    BY <1>7, <1>8 DEF popNothing, enqueueNotify, notifies, PumpReturn, Wake, StartDrain,
                      goesTo, RunReturns, Close, Join, Streams, Cancel
  <1> QED
    BY <1>1, <1>2, <1>3, <1>4, <1>5, <1>6, <1>8 DEF Next, Enqueue, Pump, Pop, Drain

-----------------------------------------------------------------------------
(* Nothing vanishes.                                                       *)

\* An event with the newest state of k is filed under k.
LEMMA FreshFiled ==
    ASSUME TypeOK, Fresh, NEW k \in Keys, NEW kind \in Kinds,
           NEW changed \in SUBSET Fields, Emits(k, kind, changed, FALSE),
           NEW e \in Events, e.ver = ver(k) + 1,
           pending' = [pending EXCEPT ![k] = e], UNCHANGED <<out, hand, seen>>
    PROVE  Fresh'
  <1>1. /\ ver(k)' = ver(k) + 1
        /\ \A x \in Keys \ {k} : history'[x] = history[x]
    BY EmitsType
  <1>2. pending'[k] = e /\ e # NoEvent /\ \A x \in Keys \ {k} : pending'[x] = pending[x]
    BY NoEventAssumption DEF TypeOK
  <1>3. \A x \in Keys \ {k}, n \in Nat : Holds(x, n) => Holds(x, n)'
    BY <1>2 DEF Holds
  <1>4. pending'[k] # NoEvent /\ pending'[k].ver = Len(history'[k])
    BY <1>1, <1>2 DEF ver
  <1>5. \A x \in Keys : Len(history[x]) \in Nat
    BY DEF TypeOK, History
  <1>6. ASSUME NEW x \in Keys, Len(history'[x]) > 0,
               ~ history'[x][Len(history'[x])].dropped
        PROVE  seen'[x] = Len(history'[x]) \/ Holds(x, ver(x))'
    <2>1. CASE x = k
      BY <1>4, <2>1 DEF Holds, ver
    <2>2. CASE x # k
      BY <1>1, <1>2, <1>6, <2>2 DEF Fresh, Holds, ver
    <2> QED
      BY <2>1, <2>2
  <1> QED
    BY <1>6 DEF Fresh, ver

\* A dropped event excuses its own link only.
LEMMA FreshDropped ==
    ASSUME TypeOK, Fresh, NEW k \in Keys, NEW kind \in Kinds,
           NEW changed \in SUBSET Fields, Emits(k, kind, changed, TRUE),
           UNCHANGED <<pending, out, hand, seen>>
    PROVE  Fresh'
  <1>1. /\ Len(history'[k]) = Len(history[k]) + 1
        /\ \A x \in Keys \ {k} : history'[x] = history[x]
        /\ history'[k][Len(history[k]) + 1].dropped
    <2>1. /\ Len(history'[k]) = Len(history[k]) + 1
          /\ \A x \in Keys \ {k} : history'[x] = history[x]
          /\ history'[k][Len(history[k]) + 1] =
                 [kind |-> kind, changed |-> changed, dropped |-> TRUE]
      BY EmitsType DEF ver
    <2> QED
      BY <2>1
  <1>2. ASSUME NEW x \in Keys, Len(history'[x]) > 0,
               ~ history'[x][Len(history'[x])].dropped
        PROVE  seen'[x] = Len(history'[x]) \/ Holds(x, ver(x))'
    <2>1. x # k
      BY <1>1, <1>2
    <2> QED
      BY <1>1, <1>2, <2>1 DEF Fresh, Holds, ver
  <1> QED
    BY <1>2 DEF Fresh, ver

\* pop, the send and the consumer hand the event on.
LEMMA FreshMoved ==
    ASSUME TypeOK, Fresh, UNCHANGED history,
           \A x \in Keys : seen[x] = ver(x) => seen'[x] = ver(x),
           \A x \in Keys, n \in Nat : Holds(x, n) => Holds(x, n)' \/ seen'[x] = n
    PROVE  Fresh'
  <1>1. \A x \in Keys : ver(x) \in Nat /\ ver(x)' = ver(x)
    BY DEF TypeOK, History, ver
  <1>2. ASSUME NEW x \in Keys, ver(x) > 0, ~ history[x][ver(x)].dropped
        PROVE  seen'[x] = ver(x) \/ Holds(x, ver(x))'
    <2>1. CASE seen[x] = ver(x)
      BY <2>1
    <2>2. CASE Holds(x, ver(x))
      <3>1. PICK n \in Nat : n = ver(x)
        BY <1>1
      <3>2. Holds(x, n)' \/ seen'[x] = n
        BY <3>1, <2>2
      <3> QED
        BY <3>1, <3>2 DEF Holds, ver
    <2> QED
      BY <1>2, <2>1, <2>2 DEF Fresh
  <1> QED
    BY <1>1, <1>2 DEF Fresh, ver

\* Every step keeps the newest event of every link.
LEMMA FreshStep ==
    TypeOK /\ QueueInv /\ InOrder /\ Kept /\ Fresh /\ [Next]_vars => Fresh'
  <1> SUFFICES ASSUME TypeOK, QueueInv, InOrder, Kept, Fresh, [Next]_vars PROVE Fresh'
    OBVIOUS
  <1>1. ASSUME NEW k \in Keys, NEW kind \in Kinds, NEW changed \in SUBSET Fields,
               enqueueCoalesce(k, kind, changed)
        PROVE  Fresh'
    <2> DEFINE e == coalesce(pending[k], Emitted(k, kind, changed))
    <2>1. /\ Emits(k, kind, changed, FALSE) /\ pending[k] \in Events
          /\ pending' = [pending EXCEPT ![k] = e] /\ UNCHANGED <<out, hand, seen>>
      BY <1>1 DEF enqueueCoalesce, TypeOK, OptEvents
    <2>2. e \in Events /\ e.ver = ver(k) + 1
      BY <2>1, EventType
    <2> HIDE DEF e
    <2> QED
      BY <2>1, <2>2, FreshFiled
  <1>2. ASSUME NEW k \in Keys, NEW kind \in Kinds, NEW changed \in SUBSET Fields,
               enqueueInsert(k, kind, changed)
        PROVE  Fresh'
    <2> DEFINE e == Emitted(k, kind, changed)
    <2>1. /\ Emits(k, kind, changed, FALSE)
          /\ pending' = [pending EXCEPT ![k] = e] /\ UNCHANGED <<out, hand, seen>>
      BY <1>2 DEF enqueueInsert, insert
    <2>2. e \in Events /\ e.ver = ver(k) + 1
      BY EventType
    <2> HIDE DEF e
    <2> QED
      BY <2>1, <2>2, FreshFiled
  <1>3. ASSUME NEW k \in Keys, NEW kind \in Kinds, NEW changed \in SUBSET Fields,
               enqueueDrop(k, kind, changed)
        PROVE  Fresh'
    BY <1>3, FreshDropped DEF enqueueDrop
  <1>4. ASSUME NEW next, pump \in {"pop", "drain"}, popEvent(next)
        PROVE  Fresh'
    <2> DEFINE k == order[head + 1]
    <2>1. /\ hand = NoEvent /\ hand' = pending[k] /\ hand' # NoEvent
          /\ pending' = [pending EXCEPT ![k] = NoEvent]
          /\ UNCHANGED <<out, seen, history>> /\ k \in Keys
      BY <1>4, PopFirst, NoEventAssumption DEF TypeOK
    <2> HIDE DEF k
    <2>2. hand'.key = k /\ \A x \in Keys \ {k} : pending'[x] = pending[x]
      BY <2>1 DEF PendingKeys, TypeOK
    <2>3. \A x \in Keys, n \in Nat : Holds(x, n) => Holds(x, n)'
      BY <2>1, <2>2 DEF Holds
    <2> QED
      BY <2>1, <2>3, FreshMoved
  <1>5. CASE Send
    <2>1. /\ out \in Seq(Events) /\ hand \in Events /\ out' = Append(out, hand)
          /\ UNCHANGED <<pending, seen, history>>
      BY <1>5 DEF Send, TypeOK, OptEvents
    <2>2. /\ \A i \in DOMAIN out : i \in DOMAIN out' /\ out'[i] = out[i]
          /\ Len(out) + 1 \in DOMAIN out' /\ out'[Len(out) + 1] = hand
      BY <2>1
    <2>3. \A x \in Keys, n \in Nat : Holds(x, n) => Holds(x, n)'
      BY <2>1, <2>2 DEF Holds
    <2> QED
      BY <2>1, <2>3, FreshMoved
  <1>6. CASE Consume
    <2> DEFINE e == Head(out)
    <2>1. /\ out \in Seq(Events) /\ out # <<>> /\ out' = Tail(out)
          /\ seen \in [Keys -> Nat] /\ seen' = [seen EXCEPT ![e.key] = e.ver]
          /\ UNCHANGED <<pending, hand, history>>
      BY <1>6 DEF Consume, TypeOK
    <2>2. /\ e \in Events /\ e.key \in Keys /\ e.ver \in Nat
          /\ seen[e.key] < e.ver /\ Told(history, e)
      BY <1>6, OrderConsumed DEF Events
    <2>3. \A i \in DOMAIN out : i # 1 => i - 1 \in DOMAIN out' /\ out'[i - 1] = out[i]
      BY <2>1
    <2>4. out[1] = e
      BY <2>1
    <2> HIDE DEF e
    <2>5. ASSUME NEW x \in Keys, NEW n \in Nat, Holds(x, n)
          PROVE  Holds(x, n)' \/ seen'[x] = n
      <3>1. CASE e.key = x /\ e.ver = n
        BY <2>1, <2>2, <3>1
      <3>2. CASE ~ (e.key = x /\ e.ver = n)
        <4>1. ASSUME NEW i \in DOMAIN out, out[i].key = x, out[i].ver = n
              PROVE  \E j \in DOMAIN out' : out'[j].key = x /\ out'[j].ver = n
          BY <2>3, <2>4, <3>2, <4>1
        <4> QED
          BY <2>1, <2>5, <4>1 DEF Holds
      <3> QED
        BY <3>1, <3>2
    <2>6. ASSUME NEW x \in Keys, seen[x] = ver(x)
          PROVE  seen'[x] = ver(x)
      <3>1. e.key # x
        BY <2>2, <2>6 DEF Told, ver, TypeOK, History
      <3> QED
        BY <2>1, <2>2, <2>6, <3>1
    <2> QED
      BY <2>1, <2>5, <2>6, FreshMoved
  <1>7. CASE UNCHANGED <<pending, out, hand, seen, history>>
    BY <1>7 DEF Fresh, Holds, ver
  <1>8. CASE \/ enqueueNotify \/ PumpReturn \/ Wake \/ StartDrain \/ RunReturns \/ Close
             \/ Join \/ Cancel \/ UNCHANGED vars \/ (\E next : popNothing(next))
    BY <1>7, <1>8 DEF popNothing, enqueueNotify, notifies, PumpReturn, Wake, StartDrain,
                      goesTo, RunReturns, Close, Join, Streams, Cancel
  <1> QED
    BY <1>1, <1>2, <1>3, <1>4, <1>5, <1>6, <1>8 DEF Next, Enqueue, Pump, Pop, Drain

-----------------------------------------------------------------------------
(* The theorems about what the consumer reads.                             *)

\* The inductive invariant behind them.
FlightInv == TypeOK /\ QueueInv /\ InOrder /\ Kept /\ Fresh

\* FlightInv holds at first and every step keeps it.
LEMMA FlightInductive == (Init => FlightInv) /\ (FlightInv /\ [Next]_vars => FlightInv')
  <1>1. ASSUME Init PROVE FlightInv
    <2>1. /\ PendingKeys = {} /\ DOMAIN out = {} /\ hand = NoEvent
          /\ \A k \in Keys : seen[k] = 0 /\ history[k] = <<>>
      BY <1>1 DEF Init, PendingKeys
    <2>2. InOrder /\ Kept /\ Fresh
      BY <2>1 DEF InOrder, Kept, Fresh, ver
    <2> QED
      BY <1>1, <2>2, InitInv DEF FlightInv
  <1>2. ASSUME FlightInv, [Next]_vars PROVE FlightInv'
    BY <1>2, TypeStep, QueueStep, FlightStep, FreshStep DEF FlightInv
  <1> QED
    BY <1>1, <1>2

\* The consumer of Stream reads the states of every link in order and never
\* twice, whatever was coalesced, dropped or compacted in between.
THEOREM DeliveryCorrect == Spec => []InOrder
  <1>1. FlightInv => InOrder
    BY DEF FlightInv
  <1> QED
    BY <1>1, FlightInductive, PTL DEF Spec

\* The newest state of a link is read or on its way, in the map, the pump or the
\* channel, unless its event was counted as dropped.
THEOREM NewestOnItsWay == Spec => []Fresh
  <1>1. FlightInv => Fresh
    BY DEF FlightInv
  <1> QED
    BY <1>1, FlightInductive, PTL DEF Spec

\* The queue, its pump and its channel implement EventConflation.
THEOREM QueueImplementsConflation == Spec => ImplementsConflation
  <1> DEFINE lat == [k \in Keys |-> ver(k)]
             los == [k \in Keys |-> {n \in 1..ver(k) : history[k][n].dropped}]
  <1>1. Init => Conflation!Init
    <2> SUFFICES ASSUME Init PROVE Conflation!Init
      OBVIOUS
    <2>1. \A k \in Keys : ver(k) = 0 /\ {n \in 1..ver(k) : history[k][n].dropped} = {}
      BY DEF Init, ver
    <2> QED
      BY <2>1 DEF Conflation!Init, Init
  <1>2. FlightInv /\ [Next]_vars => [Conflation!Next]_(Conflation!vars)
    <2> SUFFICES ASSUME FlightInv, [Next]_vars
                 PROVE  Conflation!Next \/ UNCHANGED Conflation!vars
      OBVIOUS
    <2> USE DEF FlightInv
    <2>1. ASSUME NEW k \in Keys, NEW kind \in Kinds, NEW changed \in SUBSET Fields,
                 NEW drop \in BOOLEAN, Emits(k, kind, changed, drop), UNCHANGED seen
          PROVE  Conflation!Next
      <3>1. /\ history' \in [Keys -> History] /\ ver(k)' = ver(k) + 1
            /\ \A x \in Keys \ {k} : history'[x] = history[x]
            /\ \A n \in 1..ver(k) : history'[k][n] = history[k][n]
            /\ history'[k][ver(k) + 1].dropped = drop
        <4>1. /\ history' \in [Keys -> History] /\ ver(k)' = ver(k) + 1
              /\ \A x \in Keys \ {k} : history'[x] = history[x]
              /\ \A n \in 1..ver(k) : history'[k][n] = history[k][n]
              /\ history'[k][ver(k) + 1] =
                     [kind |-> kind, changed |-> changed, dropped |-> drop]
          BY <2>1, EmitsType
        <4> QED
          BY <4>1
      <3>2. ver(k) \in Nat
        BY DEF TypeOK, History, ver
      <3>3. lat' = [lat EXCEPT ![k] = @ + 1]
        BY <3>1 DEF ver
      <3>4. 1..ver(k)' = 1..ver(k) \cup {ver(k) + 1}
        BY <3>1, <3>2
      <3>5. {n \in 1..ver(k)' : history'[k][n].dropped} =
                IF drop THEN {n \in 1..ver(k) : history[k][n].dropped} \cup {ver(k) + 1}
                        ELSE {n \in 1..ver(k) : history[k][n].dropped}
        BY <3>1, <3>2, <3>4
      <3>6. los' = IF drop THEN [los EXCEPT ![k] = @ \cup {lat[k] + 1}] ELSE los
        BY <3>1, <3>5 DEF ver
      <3>7. los' \in {los, [los EXCEPT ![k] = @ \cup {lat[k] + 1}]}
        BY <3>6
      <3> QED
        BY <2>1, <3>3, <3>7 DEF Conflation!Next, Conflation!Publish
    <2>2. CASE Consume
      <3> DEFINE e == Head(out)
      <3>1. /\ Told(history, e) /\ e \in Events /\ seen[e.key] < e.ver
            /\ e.key \in Keys /\ e.ver \in Nat
        BY <2>2, OrderConsumed DEF Events
      <3>2. /\ seen \in [Keys -> Nat] /\ seen' = [seen EXCEPT ![e.key] = e.ver]
            /\ UNCHANGED history
        BY <2>2 DEF Consume, TypeOK
      <3> HIDE DEF e
      <3>3. ver(e.key) \in Nat
        BY <3>1 DEF TypeOK, History, ver
      <3>4. e.ver \in (seen[e.key] + 1)..lat[e.key] /\ e.ver \notin los[e.key]
        BY <3>1, <3>2, <3>3 DEF Told, ver
      <3>5. UNCHANGED <<lat, los>>
        BY <3>2 DEF ver
      <3> QED
        BY <3>1, <3>2, <3>4, <3>5 DEF Conflation!Next, Conflation!Show
    <2>3. CASE UNCHANGED <<history, seen>>
      BY <2>3 DEF Conflation!vars, ver
    <2>4. CASE Pump \/ enqueueNotify \/ RunReturns \/ Close \/ Join \/ Cancel \/ UNCHANGED vars
      <3>1. UNCHANGED <<history, seen>>
        BY <2>4 DEF Pump, Pop, Drain, popEvent, popAt, popNothing, Send, PumpReturn, Wake,
                    StartDrain, goesTo, enqueueNotify, notifies, RunReturns, Close, Join,
                    Streams, Cancel
      <3> QED
        BY <2>3, <3>1
    <2>5. CASE Enqueue
      <3>1. PICK k \in Keys, kind \in Kinds, changed \in SUBSET Fields :
               \/ enqueueCoalesce(k, kind, changed)
               \/ enqueueDrop(k, kind, changed)
               \/ enqueueInsert(k, kind, changed)
        BY <2>5 DEF Enqueue
      <3>2. UNCHANGED seen /\ (Emits(k, kind, changed, FALSE) \/ Emits(k, kind, changed, TRUE))
        BY <3>1 DEF enqueueCoalesce, enqueueDrop, enqueueInsert, insert
      <3> QED
        BY <2>1, <3>2
    <2> QED
      BY <2>2, <2>4, <2>5 DEF Next
  <1> QED
    BY <1>1, <1>2, FlightInductive, PTL DEF Spec, ImplementsConflation, Conflation!Spec

-----------------------------------------------------------------------------
(* What a coalesced event says.                                            *)

\* n is later than all that the consumer has when it reads event e; F are the
\* events in flight of the link, s is what the consumer has now.
After(F, s, e, n) == s < n /\ \A f \in F : f.ver < e.ver => f.ver < n

\* The three parts of ChangesCovered for one event; h is the history of the link.
Covers(F, s, h, e) ==
    \A n \in 1..e.ver : After(F, s, e, n) => h[n].dropped \/ h[n].changed \subseteq e.changed
Removes(h, e) == e.kind = "Removed" <=> h[e.ver].kind = "Removed"
Adds(F, s, h, e) ==
    e.kind = "Added" <=>
        \E n \in 1..e.ver : /\ After(F, s, e, n) /\ h[n].kind = "Added" /\ ~ h[n].dropped
                            /\ \A m \in (n + 1)..e.ver : h[m].kind = "Changed"
Right(F, s, h, e) == Covers(F, s, h, e) /\ Removes(h, e) /\ Adds(F, s, h, e)

\* All events in flight are right; what was not dropped has been read or is on
\* its way, perhaps within a later state; and a pending event is of the newest.
CoverInv ==
    /\ \A k \in Keys : \A e \in InFlight(k) : Right(InFlight(k), seen[k], history[k], e)
    /\ \A k \in Keys : \A n \in 1..ver(k) :
           history[k][n].dropped \/ n <= seen[k] \/ \E f \in InFlight(k) : n <= f.ver
    /\ \A k \in PendingKeys : pending[k].ver = ver(k)

\* Only the earlier events of the link and its states up to e matter.
LEMMA RightFrame ==
    ASSUME NEW F, NEW G, NEW s, NEW h, NEW g, NEW e, e.ver \in Nat \ {0},
           \A f : (f \in F /\ f.ver < e.ver) <=> (f \in G /\ f.ver < e.ver),
           \A n \in 1..e.ver : g[n] = h[n],
           Right(F, s, h, e)
    PROVE  Right(G, s, g, e)
  <1>1. \A n \in 1..e.ver : After(F, s, e, n) <=> After(G, s, e, n)
    BY DEF After
  <1>2. Covers(G, s, g, e)
    BY <1>1 DEF Covers, Right
  <1>3. Removes(g, e)
    BY DEF Removes, Right
  <1>4. \A n \in 1..e.ver : \A m \in (n + 1)..e.ver : g[m] = h[m]
    OBVIOUS
  <1>5. Adds(G, s, g, e)
    BY <1>1, <1>4 DEF Adds, Right
  <1> QED
    BY <1>2, <1>3, <1>5 DEF Right

\* The oldest event x is read.
LEMMA RightRead ==
    ASSUME NEW F, NEW s \in Nat, NEW h, NEW x \in F, NEW e \in F,
           \A f \in F : f.ver \in Nat, s < x.ver,
           \A f \in F : f # x => x.ver < f.ver, e # x,
           Right(F, s, h, e)
    PROVE  Right(F \ {x}, x.ver, h, e)
  <1>1. \A n \in 1..e.ver : After(F \ {x}, x.ver, e, n) <=> After(F, s, e, n)
    <2>1. TAKE n \in 1..e.ver
    <2>2. x.ver < e.ver /\ e.ver \in Nat /\ x.ver \in Nat
      OBVIOUS
    <2>3. ASSUME After(F \ {x}, x.ver, e, n) PROVE After(F, s, e, n)
      BY <2>2, <2>3 DEF After
    <2>4. ASSUME After(F, s, e, n) PROVE After(F \ {x}, x.ver, e, n)
      BY <2>2, <2>4 DEF After
    <2> QED
      BY <2>3, <2>4
  <1>2. Covers(F \ {x}, x.ver, h, e)
    BY <1>1 DEF Covers, Right
  <1>3. Adds(F \ {x}, x.ver, h, e)
    BY <1>1 DEF Adds, Right
  <1> QED
    BY <1>2, <1>3 DEF Right

\* A new state gets an event of its own.
LEMMA RightInserted ==
    ASSUME NEW F, NEW s \in Nat, NEW v \in Nat, NEW h, NEW g, NEW e, e \notin F,
           \A f \in F : f.ver \in 1..v, s <= v, e.ver = v + 1,
           \A n \in 1..v : g[n] = h[n],
           g[v + 1].kind = e.kind, g[v + 1].changed = e.changed, ~ g[v + 1].dropped,
           \A n \in 1..v : h[n].dropped \/ n <= s \/ \E f \in F : n <= f.ver
    PROVE  Right(F \cup {e}, s, g, e)
  <1> DEFINE G == F \cup {e}
  <1>1. \A n \in Nat : After(G, s, e, n) <=> s < n /\ \A f \in F : f.ver < n
    <2>1. \A f \in F : f.ver < e.ver /\ f.ver \in Nat
      OBVIOUS
    <2>2. ~ (e.ver < e.ver)
      OBVIOUS
    <2> QED
      BY <2>1, <2>2 DEF After
  <1>2. \A n \in 1..e.ver : n # v + 1 /\ After(G, s, e, n) => g[n].dropped
    <2> SUFFICES ASSUME NEW n \in 1..e.ver, n # v + 1, After(G, s, e, n)
                 PROVE  g[n].dropped
      OBVIOUS
    <2>1. n \in 1..v /\ n \in Nat
      OBVIOUS
    <2>2. s < n /\ \A f \in F : f.ver < n
      BY <1>1, <2>1
    <2>3. ~ (n <= s) /\ \A f \in F : ~ (n <= f.ver)
      BY <2>1, <2>2
    <2> QED
      BY <2>1, <2>3
  <1>3. Covers(G, s, g, e)
    BY <1>2 DEF Covers
  <1>4. Removes(g, e)
    BY DEF Removes
  <1>5. ASSUME e.kind = "Added"
        PROVE  \E n \in 1..e.ver : /\ After(G, s, e, n) /\ g[n].kind = "Added" /\ ~ g[n].dropped
                                   /\ \A m \in (n + 1)..e.ver : g[m].kind = "Changed"
    <2>1. v + 1 \in 1..e.ver /\ v + 1 \in Nat /\ (v + 1 + 1)..e.ver = {}
      OBVIOUS
    <2>2. s < v + 1 /\ \A f \in F : f.ver < v + 1
      OBVIOUS
    <2>3. After(G, s, e, v + 1)
      BY <1>1, <2>1, <2>2
    <2> QED
      BY <1>5, <2>1, <2>3
  <1>6. ASSUME NEW n \in 1..e.ver, After(G, s, e, n), g[n].kind = "Added", ~ g[n].dropped
        PROVE  e.kind = "Added"
    BY <1>2, <1>6
  <1>7. Adds(G, s, g, e)
    BY <1>5, <1>6 DEF Adds
  <1> QED
    BY <1>3, <1>4, <1>7 DEF Right

\* A new state joins the pending event p of the state before.
LEMMA RightCoalesced ==
    ASSUME NEW F, NEW s \in Nat, NEW v \in Nat, NEW h, NEW g, NEW e, NEW p, p \notin F, e \notin F,
           \A f \in F : f.ver \in Nat /\ f.ver < v, s < v, p.ver = v, e.ver = v + 1,
           \A n \in 1..v : g[n] = h[n], ~ g[v + 1].dropped,
           g[v + 1].changed \subseteq e.changed, p.changed \subseteq e.changed,
           e.kind = IF p.kind = "Added" /\ g[v + 1].kind = "Changed" THEN "Added" ELSE g[v + 1].kind,
           Right(F \cup {p}, s, h, p)
    PROVE  Right(F \cup {e}, s, g, e)
  <1>1. \A n \in Nat : /\ After(F \cup {e}, s, e, n) <=> s < n /\ \A f \in F : f.ver < n
                       /\ After(F \cup {p}, s, p, n) <=> s < n /\ \A f \in F : f.ver < n
    <2>1. \A f \in F : f.ver < e.ver /\ f.ver < p.ver /\ f.ver \in Nat
      OBVIOUS
    <2>2. ~ (e.ver < e.ver) /\ ~ (p.ver < p.ver)
      OBVIOUS
    <2>3. \A n \in Nat : After(F \cup {e}, s, e, n) <=> s < n /\ \A f \in F : f.ver < n
      BY <2>1, <2>2 DEF After
    <2>4. \A n \in Nat : After(F \cup {p}, s, p, n) <=> s < n /\ \A f \in F : f.ver < n
      BY <2>1, <2>2 DEF After
    <2> QED
      BY <2>3, <2>4
  <1>2. Covers(F \cup {e}, s, g, e)
    <2> SUFFICES ASSUME NEW n \in 1..e.ver, After(F \cup {e}, s, e, n)
                 PROVE  g[n].dropped \/ g[n].changed \subseteq e.changed
      BY DEF Covers
    <2>1. CASE n = v + 1
      BY <2>1
    <2>2. CASE n # v + 1
      <3>1. n \in 1..v /\ n \in Nat
        BY <2>2
      <3>2. After(F \cup {p}, s, p, n)
        BY <1>1, <3>1
      <3>3. h[n].dropped \/ h[n].changed \subseteq p.changed
        BY <3>1, <3>2 DEF Right, Covers
      <3> QED
        BY <3>1, <3>3
    <2> QED
      BY <2>1, <2>2
  <1>3. Removes(g, e)
    BY DEF Removes
  <1>4. ASSUME e.kind = "Added"
        PROVE  \E n \in 1..e.ver : /\ After(F \cup {e}, s, e, n) /\ g[n].kind = "Added" /\ ~ g[n].dropped
                                   /\ \A m \in (n + 1)..e.ver : g[m].kind = "Changed"
    <2>1. CASE g[v + 1].kind = "Added"
      <3>1. v + 1 \in 1..e.ver /\ v + 1 \in Nat /\ (v + 1 + 1)..e.ver = {}
        OBVIOUS
      <3>2. s < v + 1 /\ \A f \in F : f.ver < v + 1
        OBVIOUS
      <3>3. After(F \cup {e}, s, e, v + 1)
        BY <1>1, <3>1, <3>2
      <3> QED
        BY <2>1, <3>1, <3>3
    <2>2. CASE g[v + 1].kind # "Added"
      <3>1. p.kind = "Added" /\ g[v + 1].kind = "Changed"
        BY <1>4, <2>2
      <3>2. PICK n \in 1..v : /\ After(F \cup {p}, s, p, n) /\ h[n].kind = "Added" /\ ~ h[n].dropped
                              /\ \A m \in (n + 1)..v : h[m].kind = "Changed"
        BY <3>1 DEF Right, Adds
      <3>3. n \in 1..e.ver /\ n \in Nat /\ g[n] = h[n]
        OBVIOUS
      <3>4. After(F \cup {e}, s, e, n)
        BY <1>1, <3>2, <3>3
      <3>5. ASSUME NEW m \in (n + 1)..e.ver PROVE g[m].kind = "Changed"
        <4>1. m = v + 1 \/ (m \in (n + 1)..v /\ m \in 1..v)
          OBVIOUS
        <4> QED
          BY <3>1, <3>2, <4>1
      <3> QED
        BY <3>2, <3>3, <3>4, <3>5
    <2> QED
      BY <2>1, <2>2
  <1>5. ASSUME NEW n \in 1..e.ver, After(F \cup {e}, s, e, n), g[n].kind = "Added", ~ g[n].dropped,
               \A m \in (n + 1)..e.ver : g[m].kind = "Changed"
        PROVE  e.kind = "Added"
    <2>1. CASE n = v + 1
      BY <1>5, <2>1
    <2>2. CASE n # v + 1
      <3>1. n \in 1..v /\ n \in Nat /\ v + 1 \in (n + 1)..e.ver
        BY <2>2
      <3>2. g[v + 1].kind = "Changed"
        BY <1>5, <3>1
      <3>3. After(F \cup {p}, s, p, n) /\ h[n].kind = "Added" /\ ~ h[n].dropped
        BY <1>1, <1>5, <3>1
      <3>4. \A m \in (n + 1)..p.ver : h[m].kind = "Changed"
        <4>1. \A m \in (n + 1)..v : m \in 1..v /\ m \in (n + 1)..e.ver
          BY <3>1
        <4> QED
          BY <1>5, <4>1
      <3>5. p.kind = "Added"
        BY <3>1, <3>3, <3>4 DEF Right, Adds
      <3> QED
        BY <3>2, <3>5
    <2> QED
      BY <2>1, <2>2
  <1>6. Adds(F \cup {e}, s, g, e)
    BY <1>4, <1>5 DEF Adds
  <1> QED
    BY <1>2, <1>3, <1>6 DEF Right

\* The events in flight of a link, and where the pending one is among them.
LEMMA InFlightFacts ==
    ASSUME TypeOK, InOrder, Kept, NEW k \in Keys
    PROVE  /\ \A e \in InFlight(k) : /\ e \in Events /\ e.key = k /\ e.ver \in 1..ver(k)
                                      /\ seen[k] < e.ver /\ ~ history[k][e.ver].dropped
           /\ ver(k) \in Nat /\ seen[k] \in Nat /\ seen[k] <= ver(k)
           /\ pending[k] # NoEvent =>
                 pending[k] \in InFlight(k) /\ \A e \in InFlight(k) : e # pending[k] => e.ver < pending[k].ver
  <1>1. ver(k) \in Nat /\ seen[k] \in Nat /\ seen[k] <= ver(k)
    BY DEF TypeOK, History, ver, InOrder
  <1>2. ASSUME NEW i \in DOMAIN out, out[i].key = k
        PROVE  /\ out[i] \in Events /\ out[i].ver \in 1..ver(k)
               /\ seen[k] < out[i].ver /\ ~ history[k][out[i].ver].dropped
               /\ pending[k] # NoEvent => out[i].ver < pending[k].ver
    <2>1. out[i] \in Events
      BY DEF TypeOK
    <2>2. seen[k] < out[i].ver /\ Told(history, out[i])
      BY <1>2 DEF InOrder, Kept
    <2>3. pending[k] # NoEvent => k \in PendingKeys /\ pending[k].key = k
      BY DEF PendingKeys, TypeOK
    <2>4. pending[k] # NoEvent => out[i].ver < pending[k].ver
      BY <1>2, <2>3 DEF InOrder, AfterOut
    <2> QED
      BY <1>2, <2>1, <2>2, <2>4 DEF Told, ver
  <1>3. ASSUME hand # NoEvent, hand.key = k
        PROVE  /\ hand \in Events /\ hand.ver \in 1..ver(k)
               /\ seen[k] < hand.ver /\ ~ history[k][hand.ver].dropped
               /\ pending[k] # NoEvent => hand.ver < pending[k].ver
    <2>1. hand \in Events
      BY <1>3 DEF TypeOK, OptEvents
    <2>2. seen[k] < hand.ver /\ Told(history, hand)
      BY <1>3 DEF InOrder, Kept, AfterOut
    <2>3. pending[k] # NoEvent => k \in PendingKeys
      BY DEF PendingKeys
    <2>4. pending[k] # NoEvent => hand.ver < pending[k].ver
      BY <1>3, <2>3 DEF InOrder
    <2> QED
      BY <1>3, <2>1, <2>2, <2>4 DEF Told, ver
  <1>4. ASSUME pending[k] # NoEvent
        PROVE  /\ pending[k] \in Events /\ pending[k].ver \in 1..ver(k) /\ pending[k].key = k
               /\ seen[k] < pending[k].ver /\ ~ history[k][pending[k].ver].dropped
    <2>1. k \in PendingKeys /\ pending[k].key = k /\ pending[k] \in Events
      BY <1>4 DEF PendingKeys, TypeOK, OptEvents
    <2>2. seen[k] < pending[k].ver /\ Told(history, pending[k])
      BY <2>1 DEF InOrder, Kept, AfterOut
    <2> QED
      BY <2>1, <2>2 DEF Told, ver
  <1>5. \A e \in InFlight(k) : \/ \E i \in DOMAIN out : e = out[i] /\ out[i].key = k
                               \/ e = hand /\ hand # NoEvent /\ hand.key = k
                               \/ e = pending[k] /\ pending[k] # NoEvent
    BY DEF InFlight
  <1>6. \A e \in InFlight(k) : /\ e \in Events /\ e.key = k /\ e.ver \in 1..ver(k)
                               /\ seen[k] < e.ver /\ ~ history[k][e.ver].dropped
    BY <1>2, <1>3, <1>4, <1>5
  <1>7. ASSUME pending[k] # NoEvent
        PROVE  /\ pending[k] \in InFlight(k)
               /\ \A e \in InFlight(k) : e # pending[k] => e.ver < pending[k].ver
    <2>1. pending[k] \in InFlight(k)
      BY <1>4, <1>7 DEF InFlight
    <2> QED
      BY <1>2, <1>3, <1>5, <1>7, <2>1
  <1> QED
    BY <1>1, <1>6, <1>7

\* CoverInv is ChangesCovered and what makes it inductive.
LEMMA CoverImplies ==
    ASSUME TypeOK, InOrder, Kept, CoverInv PROVE ChangesCovered
  <1> SUFFICES ASSUME NEW k \in Keys, NEW e \in InFlight(k)
               PROVE  /\ \A n \in StandsFor(k, e) :
                             history[k][n].dropped \/ history[k][n].changed \subseteq e.changed
                      /\ e.kind = "Removed" <=> history[k][e.ver].kind = "Removed"
                      /\ e.kind = "Added" <=>
                             \E n \in StandsFor(k, e) :
                                 /\ history[k][n].kind = "Added" /\ ~ history[k][n].dropped
                                 /\ \A m \in (n + 1)..e.ver : history[k][m].kind = "Changed"
    BY DEF ChangesCovered
  <1>1. Right(InFlight(k), seen[k], history[k], e) /\ e.ver \in Nat \ {0}
    BY InFlightFacts DEF CoverInv
  <1>2. \A n \in 1..e.ver : n \in StandsFor(k, e) <=> After(InFlight(k), seen[k], e, n)
    BY DEF StandsFor, Shown, After
  <1>3. StandsFor(k, e) \subseteq 1..e.ver
    BY DEF StandsFor
  <1>4. \A n \in StandsFor(k, e) : history[k][n].dropped \/ history[k][n].changed \subseteq e.changed
    BY <1>1, <1>2, <1>3 DEF Right, Covers
  <1>5. e.kind = "Removed" <=> history[k][e.ver].kind = "Removed"
    BY <1>1 DEF Right, Removes
  <1>6. e.kind = "Added" <=>
            \E n \in StandsFor(k, e) :
                /\ history[k][n].kind = "Added" /\ ~ history[k][n].dropped
                /\ \A m \in (n + 1)..e.ver : history[k][m].kind = "Changed"
    BY <1>1, <1>2, <1>3 DEF Right, Adds
  <1> QED
    BY <1>4, <1>5, <1>6

\* A step that moves events on, and changes neither history nor reader.
LEMMA CoverMoved ==
    ASSUME CoverInv, \A x \in Keys : InFlight(x)' = InFlight(x), UNCHANGED <<seen, history>>,
           \A x \in Keys : pending'[x] # NoEvent => pending'[x] = pending[x]
    PROVE  CoverInv'
  <1>1. \A x \in Keys : ver(x)' = ver(x)
    BY DEF ver
  <1>2. \A x \in PendingKeys' : x \in PendingKeys /\ pending'[x] = pending[x]
    BY DEF PendingKeys
  <1>3. \A x \in Keys : \A e \in InFlight(x)' : Right(InFlight(x)', seen'[x], history'[x], e)
    BY DEF CoverInv
  <1>4. \A x \in Keys : \A n \in 1..ver(x)' :
            history'[x][n].dropped \/ n <= seen'[x] \/ \E f \in InFlight(x)' : n <= f.ver
    BY <1>1 DEF CoverInv
  <1>5. \A x \in PendingKeys' : pending'[x].ver = ver(x)'
    BY <1>1, <1>2 DEF CoverInv, PendingKeys
  <1> QED
    BY <1>3, <1>4, <1>5 DEF CoverInv

\* A link other than k keeps its part when k changes state.
LEMMA CoverOthers ==
    ASSUME TypeOK, InOrder, Kept, CoverInv, NEW k \in Keys, NEW kind \in Kinds,
           NEW changed \in SUBSET Fields, NEW drop \in BOOLEAN, Emits(k, kind, changed, drop),
           UNCHANGED seen, NEW x \in Keys, x # k, InFlight(x)' = InFlight(x)
    PROVE  /\ \A e \in InFlight(x)' : Right(InFlight(x)', seen'[x], history'[x], e)
           /\ \A n \in 1..ver(x)' :
                 history'[x][n].dropped \/ n <= seen'[x] \/ \E f \in InFlight(x)' : n <= f.ver
  <1>1. history'[x] = history[x] /\ ver(x)' = ver(x)
    BY EmitsType DEF ver
  <1> QED
    BY <1>1 DEF CoverInv

\* The state of k is dropped.
LEMMA CoverDropped ==
    ASSUME TypeOK, InOrder, Kept, CoverInv, NEW k \in Keys, NEW kind \in Kinds,
           NEW changed \in SUBSET Fields, enqueueDrop(k, kind, changed)
    PROVE  CoverInv'
  <1>1. /\ Emits(k, kind, changed, TRUE) /\ pending[k] = NoEvent
        /\ UNCHANGED <<pending, out, hand, seen>>
    BY DEF enqueueDrop, qvars, pumpvars
  <1>2. \A x \in Keys : InFlight(x)' = InFlight(x)
    BY <1>1 DEF InFlight
  <1>3. /\ ver(k)' = ver(k) + 1
        /\ \A n \in 1..ver(k) : history'[k][n] = history[k][n]
        /\ history'[k][ver(k) + 1].dropped
        /\ \A x \in Keys \ {k} : history'[x] = history[x]
    <2>1. TRUE \in BOOLEAN
      OBVIOUS
    <2>2. /\ ver(k)' = ver(k) + 1
          /\ \A n \in 1..ver(k) : history'[k][n] = history[k][n]
          /\ history'[k][ver(k) + 1] = [kind |-> kind, changed |-> changed, dropped |-> TRUE]
          /\ \A x \in Keys \ {k} : history'[x] = history[x]
      BY <1>1, <2>1, EmitsType
    <2> QED
      BY <2>2
  <1>4. ver(k) \in Nat
    BY InFlightFacts
  <1>5. ASSUME NEW e \in InFlight(k)
        PROVE  Right(InFlight(k), seen[k], history'[k], e)
    <2>1. e.ver \in 1..ver(k)
      BY InFlightFacts
    <2>2. e.ver \in Nat \ {0} /\ \A n \in 1..e.ver : history'[k][n] = history[k][n]
      BY <1>3, <1>4, <2>1
    <2>3. Right(InFlight(k), seen[k], history[k], e)
      BY DEF CoverInv
    <2> QED
      BY <2>2, <2>3, RightFrame
  <1>6. ASSUME NEW n \in 1..ver(k)'
        PROVE  history'[k][n].dropped \/ n <= seen[k] \/ \E f \in InFlight(k) : n <= f.ver
    BY <1>3, <1>4 DEF CoverInv
  <1>7. \A x \in PendingKeys' : pending'[x].ver = ver(x)'
    <2>1. \A x \in PendingKeys' : x \in PendingKeys /\ x # k
      BY <1>1 DEF PendingKeys
    <2>2. \A x \in Keys \ {k} : ver(x)' = ver(x)
      BY <1>3 DEF ver
    <2> QED
      BY <1>1, <2>1, <2>2 DEF CoverInv, PendingKeys
  <1>8. \A x \in Keys : \A e \in InFlight(x)' : Right(InFlight(x)', seen'[x], history'[x], e)
    BY <1>1, <1>2, <1>5, CoverOthers
  <1>9. \A x \in Keys : \A n \in 1..ver(x)' :
            history'[x][n].dropped \/ n <= seen'[x] \/ \E f \in InFlight(x)' : n <= f.ver
    BY <1>1, <1>2, <1>6, CoverOthers
  <1> QED
    BY <1>7, <1>8, <1>9 DEF CoverInv

\* Event e of the new state of k is pending; F are the events before it.
LEMMA CoverFiled ==
    ASSUME TypeOK, InOrder, Kept, CoverInv, NEW k \in Keys, NEW kind \in Kinds,
           NEW changed \in SUBSET Fields, Emits(k, kind, changed, FALSE),
           NEW e \in Events, e.key = k, e.ver = ver(k) + 1, UNCHANGED <<out, hand, seen>>,
           pending' = [pending EXCEPT ![k] = e],
           NEW F, F = {f \in InFlight(k) : f # pending[k]},
           Right(F \cup {e}, seen[k], history'[k], e)
    PROVE  CoverInv'
  <1>1. /\ ver(k)' = ver(k) + 1 /\ ver(k) \in Nat
        /\ \A n \in 1..ver(k) : history'[k][n] = history[k][n]
        /\ \A x \in Keys \ {k} : history'[x] = history[x]
    BY EmitsType, InFlightFacts
  <1>2. pending'[k] = e /\ e # NoEvent /\ \A x \in Keys \ {k} : pending'[x] = pending[x]
    BY NoEventAssumption DEF TypeOK
  <1>3. \A x \in Keys \ {k} : InFlight(x)' = InFlight(x)
    BY <1>2 DEF InFlight
  <1>4. InFlight(k)' = F \cup {e}
    <2>1. ASSUME NEW i \in DOMAIN out, out[i].key = k PROVE out[i] \in F
      <3>1. out[i] \in InFlight(k)
        BY <2>1 DEF InFlight
      <3>2. pending[k] # NoEvent => out[i].ver < pending[k].ver /\ pending[k].ver \in Nat
        <4>1. pending[k] # NoEvent => k \in PendingKeys /\ pending[k].key = k /\ pending[k] \in Events
          BY DEF PendingKeys, TypeOK, OptEvents
        <4> QED
          BY <2>1, <4>1 DEF InOrder, AfterOut, Events
      <3>3. out[i] # pending[k]
        BY <3>1, <3>2, InFlightFacts, NoEventAssumption
      <3> QED
        BY <3>1, <3>3
    <2>2. ASSUME hand # NoEvent, hand.key = k PROVE hand \in F
      <3>1. hand \in InFlight(k)
        BY <2>2 DEF InFlight
      <3>2. pending[k] # NoEvent => hand.ver < pending[k].ver /\ pending[k].ver \in Nat
        <4>1. pending[k] # NoEvent => k \in PendingKeys /\ pending[k] \in Events
          BY DEF PendingKeys, TypeOK, OptEvents
        <4> QED
          BY <2>2, <4>1 DEF InOrder, Events
      <3>3. hand # pending[k]
        BY <2>2, <3>1, <3>2
      <3> QED
        BY <3>1, <3>3
    <2>3. \A f \in F : \/ \E i \in DOMAIN out : f = out[i] /\ out[i].key = k
                       \/ f = hand /\ hand # NoEvent /\ hand.key = k
      <3>1. \A f \in InFlight(k) : \/ \E i \in DOMAIN out : f = out[i] /\ out[i].key = k
                                   \/ f = hand /\ hand # NoEvent /\ hand.key = k
                                   \/ f = pending[k]
        BY DEF InFlight
      <3>2. \A f \in F : f \in InFlight(k) /\ f # pending[k]
        OBVIOUS
      <3> QED
        BY <3>1, <3>2
    <2>4. \A f \in InFlight(k)' : \/ \E i \in DOMAIN out : f = out[i] /\ out[i].key = k
                                  \/ f = hand /\ hand # NoEvent /\ hand.key = k
                                  \/ f = e
      BY <1>2 DEF InFlight
    <2>5. InFlight(k)' \subseteq F \cup {e}
      BY <2>1, <2>2, <2>4
    <2>6. ASSUME NEW f \in F PROVE f \in InFlight(k)'
      BY <2>3, <2>6 DEF InFlight
    <2>7. e \in InFlight(k)'
      BY <1>2 DEF InFlight
    <2> QED
      BY <2>5, <2>6, <2>7
  <1>5. \A f \in F : f \in InFlight(k) /\ f.ver \in 1..ver(k) /\ (pending[k] # NoEvent => f.ver < pending[k].ver)
    BY InFlightFacts
  <1>6. ASSUME NEW f \in F PROVE Right(F \cup {e}, seen[k], history'[k], f)
    <2>1. f.ver \in Nat \ {0} /\ \A n \in 1..f.ver : history'[k][n] = history[k][n]
      BY <1>1, <1>5
    <2>2. Right(InFlight(k), seen[k], history[k], f)
      BY <1>5 DEF CoverInv
    <2>3. ASSUME NEW d
          PROVE  (d \in InFlight(k) /\ d.ver < f.ver) <=> (d \in F \cup {e} /\ d.ver < f.ver)
      <3>1. CASE d = e
        <4>1. ~ (d.ver < f.ver)
          BY <1>1, <1>5, <3>1
        <4> QED
          BY <4>1
      <3>2. CASE d = pending[k] /\ d # NoEvent
        <4>1. d \in InFlight(k) => d.ver \in Nat /\ f.ver < d.ver
          BY <1>1, <1>5, <3>2, InFlightFacts
        <4>2. d \in F \cup {e} => d = e
          BY <3>2
        <4> QED
          BY <2>1, <3>1, <4>1, <4>2
      <3>3. CASE d # e /\ ~ (d = pending[k] /\ d # NoEvent)
        <4>1. d \in InFlight(k) => d # NoEvent
          BY InFlightFacts, NoEventAssumption
        <4> QED
          BY <3>3, <4>1
      <3> QED
        BY <3>1, <3>2, <3>3
    <2> QED
      BY <2>1, <2>2, <2>3, RightFrame
  <1>7. \A f \in InFlight(k)' : Right(InFlight(k)', seen'[k], history'[k], f)
    BY <1>4, <1>6
  <1>8. \A n \in 1..ver(k)' : \E f \in InFlight(k)' : n <= f.ver
    BY <1>1, <1>4
  <1>9. \A x \in PendingKeys' : pending'[x].ver = ver(x)'
    <2>1. \A x \in Keys \ {k} : ver(x)' = ver(x)
      BY <1>1 DEF ver
    <2> QED
      BY <1>1, <1>2, <2>1 DEF CoverInv, PendingKeys
  <1>10. \A x \in Keys : \A f \in InFlight(x)' : Right(InFlight(x)', seen'[x], history'[x], f)
    BY <1>3, <1>7, CoverOthers
  <1>11. \A x \in Keys : \A n \in 1..ver(x)' :
            history'[x][n].dropped \/ n <= seen'[x] \/ \E f \in InFlight(x)' : n <= f.ver
    BY <1>3, <1>8, CoverOthers
  <1> QED
    BY <1>9, <1>10, <1>11 DEF CoverInv

\* A new state of k, coalesced with the pending event.
LEMMA CoverCoalesced ==
    ASSUME TypeOK, InOrder, Kept, CoverInv, NEW k \in Keys, NEW kind \in Kinds,
           NEW changed \in SUBSET Fields, enqueueCoalesce(k, kind, changed)
    PROVE  CoverInv'
  <1>1. PICK p, n, e, F : /\ p = pending[k] /\ n = Emitted(k, kind, changed) /\ e = coalesce(p, n)
                          /\ F = {f \in InFlight(k) : f # pending[k]}
    OBVIOUS
  <1>2. /\ Emits(k, kind, changed, FALSE) /\ p # NoEvent /\ p \in Events
        /\ pending' = [pending EXCEPT ![k] = e] /\ UNCHANGED <<out, hand, seen>>
    BY <1>1 DEF enqueueCoalesce, TypeOK, OptEvents, pumpvars
  <1>3. e \in Events /\ e.key = k /\ e.ver = ver(k) + 1
    BY <1>1, <1>2, EventType
  <1>4. /\ n.kind = kind /\ n.changed = changed /\ DOMAIN n = {"key", "kind", "ver", "changed"}
    BY <1>1 DEF Emitted
  <1>5. /\ e.kind = (IF p.kind = "Added" /\ kind = "Changed" THEN "Added" ELSE kind)
        /\ e.changed = changed \cup p.changed
    BY <1>1, <1>4 DEF coalesce
  <1>6. /\ \A m \in 1..ver(k) : history'[k][m] = history[k][m]
        /\ history'[k][ver(k) + 1].kind = kind /\ history'[k][ver(k) + 1].changed = changed
        /\ ~ history'[k][ver(k) + 1].dropped
    <2>1. FALSE \in BOOLEAN
      OBVIOUS
    <2>2. /\ \A m \in 1..ver(k) : history'[k][m] = history[k][m]
          /\ history'[k][ver(k) + 1] = [kind |-> kind, changed |-> changed, dropped |-> FALSE]
      BY <1>2, <2>1, EmitsType
    <2> QED
      BY <2>2
  <1>7. p.ver = ver(k)
    BY <1>1, <1>2 DEF CoverInv, PendingKeys
  <1>8. /\ ver(k) \in Nat /\ seen[k] \in Nat /\ seen[k] < ver(k)
        /\ p \in InFlight(k) /\ \A f \in F : f.ver \in Nat /\ f.ver < ver(k)
    BY <1>1, <1>2, <1>7, InFlightFacts
  <1>9. F \cup {p} = InFlight(k) /\ p \notin F /\ e \notin F
    BY <1>1, <1>3, <1>8
  <1>10. Right(F \cup {p}, seen[k], history[k], p)
    BY <1>8, <1>9 DEF CoverInv
  <1>11. /\ history'[k][ver(k) + 1].changed \subseteq e.changed /\ p.changed \subseteq e.changed
         /\ e.kind = IF p.kind = "Added" /\ history'[k][ver(k) + 1].kind = "Changed" THEN "Added"
                     ELSE history'[k][ver(k) + 1].kind
    BY <1>5, <1>6
  <1>12. Right(F \cup {e}, seen[k], history'[k], e)
    BY <1>3, <1>6, <1>7, <1>8, <1>9, <1>10, <1>11, RightCoalesced
  <1> QED
    BY <1>1, <1>2, <1>3, <1>12, CoverFiled

\* A new state of k, of which nothing is pending.
LEMMA CoverInserted ==
    ASSUME TypeOK, InOrder, Kept, CoverInv, NEW k \in Keys, NEW kind \in Kinds,
           NEW changed \in SUBSET Fields, enqueueInsert(k, kind, changed)
    PROVE  CoverInv'
  <1>1. PICK e, F : /\ e = Emitted(k, kind, changed)
                    /\ F = {f \in InFlight(k) : f # pending[k]}
    OBVIOUS
  <1>2. /\ Emits(k, kind, changed, FALSE) /\ pending[k] = NoEvent
        /\ pending' = [pending EXCEPT ![k] = e] /\ UNCHANGED <<out, hand, seen>>
    BY <1>1 DEF enqueueInsert, insert, pumpvars
  <1>3. e \in Events /\ e.key = k /\ e.ver = ver(k) + 1
    BY <1>1, EventType
  <1>4. e.kind = kind /\ e.changed = changed
    BY <1>1 DEF Emitted
  <1>5. /\ \A m \in 1..ver(k) : history'[k][m] = history[k][m]
        /\ history'[k][ver(k) + 1].kind = kind /\ history'[k][ver(k) + 1].changed = changed
        /\ ~ history'[k][ver(k) + 1].dropped
    <2>1. FALSE \in BOOLEAN
      OBVIOUS
    <2>2. /\ \A m \in 1..ver(k) : history'[k][m] = history[k][m]
          /\ history'[k][ver(k) + 1] = [kind |-> kind, changed |-> changed, dropped |-> FALSE]
      BY <1>2, <2>1, EmitsType
    <2> QED
      BY <2>2
  <1>6. /\ ver(k) \in Nat /\ seen[k] \in Nat /\ seen[k] <= ver(k)
        /\ \A f \in InFlight(k) : f \in Events /\ f.ver \in 1..ver(k)
    BY InFlightFacts
  <1>7. F = InFlight(k) /\ e \notin F
    BY <1>1, <1>2, <1>3, <1>6, NoEventAssumption
  <1>8. \A n \in 1..ver(k) : history[k][n].dropped \/ n <= seen[k] \/ \E f \in F : n <= f.ver
    BY <1>7 DEF CoverInv
  <1>9. Right(F \cup {e}, seen[k], history'[k], e)
    <2>1. PICK s, v, h, g : s = seen[k] /\ v = ver(k) /\ h = history[k] /\ g = history'[k]
      OBVIOUS
    <2>2. /\ s \in Nat /\ v \in Nat /\ e \notin F /\ s <= v /\ e.ver = v + 1
          /\ \A f \in F : f.ver \in 1..v
          /\ \A n \in 1..v : g[n] = h[n]
      BY <1>3, <1>5, <1>6, <1>7, <2>1
    <2>3. g[v + 1].kind = e.kind /\ g[v + 1].changed = e.changed /\ ~ g[v + 1].dropped
      BY <1>4, <1>5, <2>1
    <2>4. \A n \in 1..v : h[n].dropped \/ n <= s \/ \E f \in F : n <= f.ver
      BY <1>8, <2>1
    <2>5. Right(F \cup {e}, s, g, e)
      BY <2>2, <2>3, <2>4, RightInserted
    <2> QED
      BY <2>1, <2>5
  <1> QED
    BY <1>1, <1>2, <1>3, <1>9, CoverFiled

\* The consumer reads the oldest event.
LEMMA CoverRead ==
    ASSUME TypeOK, InOrder, Kept, CoverInv, Consume PROVE CoverInv'
  <1>1. PICK e, k : e = Head(out) /\ k = e.key
    OBVIOUS
  <1>2. /\ out \in Seq(Events) /\ out # <<>> /\ out' = Tail(out)
        /\ seen \in [Keys -> Nat] /\ seen' = [seen EXCEPT ![k] = e.ver]
        /\ UNCHANGED <<pending, hand, history>>
    BY <1>1 DEF Consume, TypeOK, qvars
  <1>3. /\ Len(out) \in Nat \ {0} /\ DOMAIN out = 1..Len(out) /\ DOMAIN out' = 1..(Len(out) - 1)
        /\ e = out[1] /\ e \in Events
        /\ \A i \in DOMAIN out' : out'[i] = out[i + 1]
    BY <1>1, <1>2
  <1>4. k \in Keys /\ e.ver \in Nat /\ e.key = k /\ 1 \in DOMAIN out
    BY <1>1, <1>3 DEF Events
  <1>5. /\ \A i \in DOMAIN out' : i + 1 \in DOMAIN out /\ 1 < i + 1
        /\ \A i \in DOMAIN out : i # 1 => i - 1 \in DOMAIN out' /\ out'[i - 1] = out[i] /\ 1 < i
    BY <1>3
  <1>6. \A x \in Keys : seen'[x] = IF x = k THEN e.ver ELSE seen[x]
    BY <1>2, <1>4
  <1>7. e \in InFlight(k)
    BY <1>3, <1>4 DEF InFlight
  <1>8. \A f \in InFlight(k) : f # e => e.ver < f.ver
    <2>1. \A i \in DOMAIN out : 1 < i /\ out[i].key = k => e.ver < out[i].ver
      BY <1>3, <1>4 DEF InOrder
    <2>2. hand # NoEvent /\ hand.key = k => e.ver < hand.ver
      BY <1>3, <1>4 DEF InOrder, AfterOut
    <2>3. pending[k] # NoEvent => e.ver < pending[k].ver
      <3>1. pending[k] # NoEvent => k \in PendingKeys /\ pending[k].key = k
        BY <1>4 DEF PendingKeys, TypeOK
      <3> QED
        BY <1>3, <1>4, <3>1 DEF InOrder, AfterOut
    <2>4. \A f \in InFlight(k) : \/ \E i \in DOMAIN out : f = out[i] /\ out[i].key = k
                                 \/ f = hand /\ hand # NoEvent /\ hand.key = k
                                 \/ f = pending[k] /\ pending[k] # NoEvent
      BY DEF InFlight
    <2> QED
      BY <1>3, <1>5, <2>1, <2>2, <2>3, <2>4
  <1>9. \A x \in Keys : InFlight(x)' = IF x = k THEN InFlight(k) \ {e} ELSE InFlight(x)
    <2> SUFFICES ASSUME NEW x \in Keys
                 PROVE  InFlight(x)' = IF x = k THEN InFlight(k) \ {e} ELSE InFlight(x)
      OBVIOUS
    <2>1. ASSUME NEW f \in InFlight(x), f # e PROVE f \in InFlight(x)'
      <3>1. CASE \E i \in DOMAIN out : f = out[i] /\ out[i].key = x
        BY <1>3, <1>5, <2>1, <3>1 DEF InFlight
      <3>2. CASE f \in {g \in {hand, pending[x]} : g # NoEvent /\ g.key = x}
        BY <1>2, <3>2 DEF InFlight
      <3> QED
        BY <3>1, <3>2 DEF InFlight
    <2>2. ASSUME NEW f \in InFlight(x)' PROVE f \in InFlight(x)
      <3>1. CASE \E i \in DOMAIN out' : f = out'[i] /\ out'[i].key = x
        BY <1>3, <1>5, <3>1 DEF InFlight
      <3>2. CASE f \in {g \in {hand, pending[x]} : g # NoEvent /\ g.key = x}
        BY <3>2 DEF InFlight
      <3> QED
        BY <1>2, <3>1, <3>2 DEF InFlight
    <2>3. x # k => e \notin InFlight(x)
      BY <1>4, InFlightFacts
    <2>4. x = k => e \notin InFlight(x)'
      <3>1. \A i \in DOMAIN out' : out'[i].key = k => e.ver < out'[i].ver
        BY <1>3, <1>4, <1>5 DEF InOrder
      <3>2. hand # NoEvent /\ hand.key = k => e.ver < hand.ver
        BY <1>3, <1>4 DEF InOrder, AfterOut
      <3>3. pending[k] # NoEvent /\ pending[k].key = k => e.ver < pending[k].ver
        <4>1. pending[k] # NoEvent => k \in PendingKeys
          BY <1>4 DEF PendingKeys
        <4> QED
          BY <1>3, <1>4, <4>1 DEF InOrder, AfterOut
      <3>4. ~ (e.ver < e.ver)
        BY <1>4
      <3> QED
        BY <1>2, <3>1, <3>2, <3>3, <3>4 DEF InFlight
    <2>5. CASE x = k
      BY <2>1, <2>2, <2>4, <2>5
    <2>6. CASE x # k
      BY <2>1, <2>2, <2>3, <2>6
    <2> QED
      BY <2>5, <2>6
  <1>10. \A f \in InFlight(k) \ {e} : Right(InFlight(k) \ {e}, e.ver, history[k], f)
    <2>1. /\ seen[k] \in Nat /\ seen[k] < e.ver
          /\ \A f \in InFlight(k) : f.ver \in Nat
      BY <1>4, <1>7, InFlightFacts
    <2>2. \A f \in InFlight(k) : Right(InFlight(k), seen[k], history[k], f)
      BY <1>4 DEF CoverInv
    <2> QED
      BY <1>7, <1>8, <2>1, <2>2, RightRead
  <1>11. \A x \in Keys : \A f \in InFlight(x)' : Right(InFlight(x)', seen'[x], history'[x], f)
    <2>1. ASSUME NEW x \in Keys, x # k
          PROVE  \A f \in InFlight(x)' : Right(InFlight(x)', seen'[x], history'[x], f)
      <3>1. InFlight(x)' = InFlight(x) /\ seen'[x] = seen[x] /\ history'[x] = history[x]
        BY <1>2, <1>6, <1>9, <2>1
      <3> QED
        BY <3>1 DEF CoverInv
    <2>2. InFlight(k)' = InFlight(k) \ {e} /\ seen'[k] = e.ver /\ history'[k] = history[k]
      BY <1>2, <1>4, <1>6, <1>9
    <2> QED
      BY <1>10, <2>1, <2>2
  <1>12. \A x \in Keys : \A n \in 1..ver(x)' :
            history'[x][n].dropped \/ n <= seen'[x] \/ \E f \in InFlight(x)' : n <= f.ver
    <2> SUFFICES ASSUME NEW x \in Keys, NEW n \in 1..ver(x)
                 PROVE  history[x][n].dropped \/ n <= seen'[x] \/ \E f \in InFlight(x)' : n <= f.ver
      BY <1>2 DEF ver
    <2>1. history[x][n].dropped \/ n <= seen[x] \/ \E f \in InFlight(x) : n <= f.ver
      BY DEF CoverInv
    <2>2. CASE x # k
      BY <1>6, <1>9, <2>1, <2>2
    <2>3. CASE x = k
      <3>1. InFlight(k)' = InFlight(k) \ {e} /\ seen'[k] = e.ver
        BY <1>4, <1>6, <1>9
      <3>2. seen[k] < e.ver /\ seen[k] \in Nat /\ n \in Nat
        BY <1>4, <1>7, InFlightFacts
      <3> QED
        BY <1>4, <2>1, <2>3, <3>1, <3>2
    <2> QED
      BY <2>2, <2>3
  <1>13. \A x \in PendingKeys' : pending'[x].ver = ver(x)'
    BY <1>2 DEF CoverInv, PendingKeys, ver
  <1> QED
    BY <1>11, <1>12, <1>13 DEF CoverInv

\* Every step keeps the events in flight right.
LEMMA CoverStep == FlightInv /\ CoverInv /\ [Next]_vars => CoverInv'
  <1> SUFFICES ASSUME FlightInv, CoverInv, [Next]_vars PROVE CoverInv'
    OBVIOUS
  <1> USE DEF FlightInv
  <1>1. ASSUME NEW k \in Keys, NEW kind \in Kinds, NEW changed \in SUBSET Fields,
               \/ enqueueCoalesce(k, kind, changed) \/ enqueueDrop(k, kind, changed)
               \/ enqueueInsert(k, kind, changed)
        PROVE  CoverInv'
    BY <1>1, CoverCoalesced, CoverDropped, CoverInserted
  <1>2. ASSUME NEW next, pump \in {"pop", "drain"}, popEvent(next)
        PROVE  CoverInv'
    <2>1. PICK k : k = order[head + 1]
      OBVIOUS
    <2>2. /\ hand = NoEvent /\ hand' = pending[k] /\ hand' # NoEvent
          /\ pending' = [pending EXCEPT ![k] = NoEvent]
          /\ UNCHANGED <<out, seen, history>> /\ k \in Keys
      BY <1>2, <2>1, PopFirst, NoEventAssumption DEF TypeOK
    <2>3. /\ hand'.key = k /\ pending'[k] = NoEvent
          /\ \A x \in Keys \ {k} : pending'[x] = pending[x] /\ (pending[x] # NoEvent => pending[x].key = x)
      BY <2>2 DEF PendingKeys, TypeOK
    <2>4. ASSUME NEW x \in Keys PROVE InFlight(x)' = InFlight(x)
      <3>1. {e \in {hand', pending'[x]} : e # NoEvent /\ e.key = x}
               = {e \in {hand, pending[x]} : e # NoEvent /\ e.key = x}
        <4>1. CASE x = k
          BY <2>2, <2>3, <4>1
        <4>2. CASE x # k
          BY <2>2, <2>3, <4>2
        <4> QED
          BY <4>1, <4>2
      <3> QED
        BY <2>2, <3>1 DEF InFlight
    <2>5. \A x \in Keys : pending'[x] # NoEvent => pending'[x] = pending[x]
      BY <2>3
    <2> QED
      BY <2>2, <2>4, <2>5, CoverMoved
  <1>3. CASE Send
    <2>1. /\ out \in Seq(Events) /\ hand \in Events /\ hand # NoEvent /\ out' = Append(out, hand)
          /\ hand' = NoEvent /\ UNCHANGED <<pending, seen, history>>
      BY <1>3 DEF Send, TypeOK, OptEvents, qvars
    <2>2. /\ DOMAIN out' = DOMAIN out \cup {Len(out) + 1} /\ out'[Len(out) + 1] = hand
          /\ \A i \in DOMAIN out : out'[i] = out[i]
      BY <2>1
    <2>3. ASSUME NEW x \in Keys PROVE InFlight(x)' = InFlight(x)
      <3>1. ASSUME NEW f PROVE f \in InFlight(x) => f \in InFlight(x)'
        BY <2>1, <2>2 DEF InFlight
      <3>2. ASSUME NEW f PROVE f \in InFlight(x)' => f \in InFlight(x)
        BY <2>1, <2>2 DEF InFlight
      <3> QED
        BY <3>1, <3>2
    <2> QED
      BY <2>1, <2>3, CoverMoved
  <1>4. CASE Consume
    BY <1>4, CoverRead
  <1>5. CASE UNCHANGED <<pending, out, hand, seen, history>>
    <2>1. \A x \in Keys : InFlight(x)' = InFlight(x)
      BY <1>5 DEF InFlight
    <2> QED
      BY <1>5, <2>1, CoverMoved
  <1>6. CASE \/ enqueueNotify \/ PumpReturn \/ Wake \/ StartDrain \/ RunReturns \/ Close
             \/ Join \/ Cancel \/ UNCHANGED vars \/ (\E next : popNothing(next))
    BY <1>5, <1>6 DEF popNothing, enqueueNotify, notifies, PumpReturn, Wake, StartDrain,
                      goesTo, RunReturns, Close, Join, Streams, Cancel, vars, qvars, pumpvars
  <1> QED
    BY <1>1, <1>2, <1>3, <1>4, <1>6 DEF Next, Enqueue, Pump, Pop, Drain

\* An event in flight covers every change it stands for, is a removal exactly if
\* the last of its states is, and an addition exactly if the link was added among
\* them and only changed since, for every order of additions, changes and removals
\* and every interleaving of enqueue, pop, send and read.
THEOREM CoalescingCorrect == Spec => []ChangesCovered
  <1>1. Init => CoverInv
    <2> SUFFICES ASSUME Init PROVE CoverInv
      OBVIOUS
    <2>1. \A k \in Keys : InFlight(k) = {} /\ ver(k) = 0
      BY DEF Init, InFlight, ver
    <2>2. PendingKeys = {}
      BY DEF Init, PendingKeys
    <2> QED
      BY <2>1, <2>2 DEF CoverInv
  <1>2. FlightInv /\ CoverInv => ChangesCovered
    BY CoverImplies DEF FlightInv
  <1> QED
    BY <1>1, <1>2, CoverStep, FlightInductive, PTL DEF Spec

=============================================================================
