---------------------------- MODULE EngineProofs ----------------------------
(***************************************************************************)
(* Proofs that an Engine keeps its buffers, its channels and its cancel    *)
(* function in order for every number of calls of Run, of protocols,       *)
(* backends and slots, and every size of the queues.                       *)
(*                                                                         *)
(* The inductive invariant says which part of Run a goroutine may be alive *)
(* in (Served), what is closed when (Shut), where every slot is (Slotted), *)
(* who waits for whom (Messages) and where every routed packet has gone    *)
(* (Counted).                                                              *)
(***************************************************************************)
EXTENDS Engine, FiniteSetTheorems, TLAPS

-----------------------------------------------------------------------------
(* The inductive invariant.                                                *)

\* Between the compare-and-swap of running and its reset.
Owning == {"publish", "open", "start", "wait", "backends", "workers", "fusion",
           "unpublish", "stop"}
\* Between RunStart and the end of the goroutines.
Serving == {"wait", "backends", "workers", "fusion"}

\* One call of Run at a time owns the engine; e.cancel and the goroutines are its.
Exclusive ==
    /\ \A r \in Runs : run[r] \in Owning => running
    /\ \A r, q \in Runs : run[r] \in Owning /\ run[q] \in Owning => r = q
    /\ CancelIsActive
    /\ \A r \in Runs : run[r] \in Serving => active = r

During(steps) == active \in Runs /\ run[active] \in steps

\* A goroutine lives no longer than Run waits for it, and a worker outlives the
\* backends that feed it.
Served ==
    /\ \A b \in Backends : backend[b].at # "off" => During({"wait", "backends"})
    /\ \A p \in Protocols : worker[p].at # "off" => During({"wait", "backends", "workers"})
    /\ fusion.at # "off" => During(Serving)
    /\ sockets # {} => \E r \in Runs : run[r] \in {"start", "wait"}
    /\ \A b \in Backends, p \in Protocols :
          backend[b].at # "off" /\ worker[p].at = "off" => queuesClosed
    /\ \A p \in Protocols : queue[p] # <<>> => worker[p].at # "off"

\* The calls of Run that have closed the queues.
Closers == {r \in Runs : \/ run[r] \in {"workers", "fusion"}
                         \/ (run[r] \in {"unpublish", "stop", "returned"} /\ result[r] \in Ended)}

\* The queues are closed before decoded, and a Run that closed them is past that.
Shut ==
    /\ \A r \in Runs : run[r] \in {"workers", "fusion"} => queuesClosed
    /\ \A r \in Runs : run[r] = "unpublish" \/ run[r] = "stop" => result[r] \in Ended
    /\ queuesClosed => Closers # {}
    /\ decodedClosed => queuesClosed
    /\ NoPanic

\* A slot is somewhere, and nowhere else.
Placed ==
    \A s \in Slots : \/ s \in free
                     \/ \E b \in Backends : backend[b].slot = s
                     \/ \E p \in Protocols : worker[p].slot = s
                     \/ \E p \in Protocols : \E i \in DOMAIN queue[p] : queue[p][i] = s
FreeAlone ==
    /\ \A b \in Backends : backend[b].slot \notin free
    /\ \A p \in Protocols : worker[p].slot \notin free
    /\ \A p \in Protocols : \A i \in DOMAIN queue[p] : queue[p][i] \notin free
BackendAlone ==
    /\ \A b, c \in Backends :
          backend[b].slot # None /\ backend[b].slot = backend[c].slot => b = c
    /\ \A b \in Backends, p \in Protocols :
          backend[b].slot # None => backend[b].slot # worker[p].slot
    /\ \A b \in Backends, p \in Protocols : \A i \in DOMAIN queue[p] :
          queue[p][i] # backend[b].slot
WorkerAlone ==
    /\ \A p, q \in Protocols :
          worker[p].slot # None /\ worker[p].slot = worker[q].slot => p = q
    /\ \A p, q \in Protocols : \A i \in DOMAIN queue[q] : queue[q][i] # worker[p].slot
QueueAlone ==
    \A p, q \in Protocols : \A i \in DOMAIN queue[p], j \in DOMAIN queue[q] :
        queue[p][i] = queue[q][j] => p = q /\ i = j
Slotted == Placed /\ FreeAlone /\ BackendAlone /\ WorkerAlone /\ QueueAlone

\* The worker of an envelope waits until fusion has acknowledged it.
Messages ==
    /\ \A i \in DOMAIN decoded :
           worker[decoded[i]].at = "ack" /\ decoded[i] \notin ack /\ decoded[i] # fusion.p
    /\ \A i, j \in DOMAIN decoded : decoded[i] = decoded[j] => i = j
    /\ fusion.at = "ack" => worker[fusion.p].at = "ack" /\ fusion.p \notin ack
    /\ \A p \in ack : worker[p].at = "ack"

\* A packet that its worker has received and that is neither rejected nor fused.
InHand(p) ==
    IF worker[p].at = "decode" \/ (worker[p].at = "ack" /\ p \notin ack /\ fusion.p # p)
    THEN 1 ELSE 0
Counted ==
    \A p \in Protocols : routed[p] = rejected[p] + fused[p] + Len(queue[p]) + InHand(p)

EngineInv ==
    /\ TypeOK /\ Exclusive /\ Served /\ Shut /\ Slotted /\ Messages /\ Counted

-----------------------------------------------------------------------------
(* Type correctness.                                                       *)

USE DEF vars, control, capture, channels, decode, counters

\* What a step leaves alone keeps its type.
LEMMA TypeFrames ==
    ASSUME TypeOK
    PROVE  /\ UNCHANGED control => ControlType'
           /\ UNCHANGED capture => CaptureType'
           /\ UNCHANGED <<free, queue>> => BufferType'
           /\ UNCHANGED <<worker, decoded, fusion, ack>> => DecodeType'
           /\ UNCHANGED <<routed, dropped, rejected, fused>> => CounterType'
           /\ UNCHANGED <<queuesClosed, decodedClosed>> =>
                  queuesClosed' \in BOOLEAN /\ decodedClosed' \in BOOLEAN
           /\ UNCHANGED panicked => panicked' \in BOOLEAN
  BY DEF TypeOK, ControlType, CaptureType, BufferType, DecodeType, CounterType

\* So a step of Run that touches the control variables only keeps the types if it
\* keeps theirs.
LEMMA ControlMoves ==
    ASSUME TypeOK, ControlType', Elsewhere PROVE TypeOK'
  BY TypeFrames DEF TypeOK, Elsewhere

\* Every step of Run, of Close and of the contexts keeps the types.
LEMMA RunTypes ==
    ASSUME TypeOK, NEW r \in Runs, RunNext(r) PROVE TypeOK'
  <1> USE DEF Steps
  <1>0. ControlType
    BY DEF TypeOK
  <1>1. CASE RunLoadClosed(r)
    <2>1. ControlType'
      BY <1>0, <1>1 DEF RunLoadClosed, Checks, ControlType
    <2> QED
      BY <1>1, <2>1, ControlMoves DEF RunLoadClosed, Checks
  <1>2. CASE RunCheckContext(r)
    <2>1. ControlType'
      BY <1>0, <1>2 DEF RunCheckContext, Checks, ControlType
    <2> QED
      BY <1>2, <2>1, ControlMoves DEF RunCheckContext, Checks
  <1>3. CASE RunLoadStarted(r)
    <2>1. ControlType'
      BY <1>0, <1>3 DEF RunLoadStarted, Checks, ControlType
    <2> QED
      BY <1>3, <2>1, ControlMoves DEF RunLoadStarted, Checks
  <1>4. CASE RunSwapRunning(r)
    <2>1. ControlType'
      BY <1>0, <1>4 DEF RunSwapRunning, Checks, ControlType
    <2> QED
      BY <1>4, <2>1, ControlMoves DEF RunSwapRunning, Checks
  <1>5. CASE RunPublishCancel(r)
    <2>1. ControlType'
      BY <1>0, <1>5 DEF RunPublishCancel, ControlType
    <2> QED
      BY <1>5, <2>1, ControlMoves DEF RunPublishCancel
  <1>6. CASE RunOpen(r)
    BY <1>6, TypeFrames DEF RunOpen, ControlType, CaptureType, TypeOK
  <1>7. CASE RunOpenFails(r)
    <2>1. ControlType'
      BY <1>0, <1>7 DEF RunOpenFails, ControlType
    <2> QED
      BY <1>7, <2>1, ControlMoves DEF RunOpenFails
  <1>8. CASE RunStart(r)
    <2>1. ControlType'
      BY <1>0, <1>8 DEF RunStart, ControlType
    <2>2. CaptureType'
      BY <1>8, NoneAssumption DEF RunStart, TypeOK, CaptureType, Idle
    <2>3. DecodeType'
      BY <1>8 DEF RunStart, TypeOK, DecodeType
    <2> QED
      BY <1>8, <2>1, <2>2, <2>3, TypeFrames DEF RunStart, TypeOK
  <1>9. CASE RunCloseBackends(r)
    BY <1>9, TypeFrames DEF RunCloseBackends, ControlType, CaptureType, TypeOK
  <1>10. CASE RunCloseQueues(r)
    <2>1. ControlType'
      BY <1>0, <1>10 DEF RunCloseQueues, closesQueues, Panics, ControlType
    <2>2. queuesClosed' \in BOOLEAN /\ decodedClosed' \in BOOLEAN /\ panicked' \in BOOLEAN
      BY <1>10 DEF RunCloseQueues, closesQueues, Panics, TypeOK
    <2>3. UNCHANGED <<capture, free, queue, worker, decoded, fusion, ack, rejected, fused, counters>>
      BY <1>10 DEF RunCloseQueues, closesQueues, Panics
    <2> QED
      BY <2>1, <2>2, <2>3, TypeFrames DEF TypeOK
  <1>11. CASE RunCloseDecoded(r)
    <2>1. ControlType'
      BY <1>0, <1>11 DEF RunCloseDecoded, closesDecoded, ControlType
    <2>2. queuesClosed' \in BOOLEAN /\ decodedClosed' \in BOOLEAN /\ panicked' \in BOOLEAN
      BY <1>11 DEF RunCloseDecoded, closesDecoded, TypeOK
    <2>3. UNCHANGED <<capture, free, queue, worker, decoded, fusion, ack, rejected, fused, counters>>
      BY <1>11 DEF RunCloseDecoded, closesDecoded
    <2> QED
      BY <2>1, <2>2, <2>3, TypeFrames DEF TypeOK
  <1>12. CASE RunResult(r)
    <2>1. ControlType'
      BY <1>0, <1>12 DEF RunResult, ControlType
    <2> QED
      BY <1>12, <2>1, ControlMoves DEF RunResult
  <1>13. CASE RunUnpublish(r)
    <2>1. ControlType'
      BY <1>0, <1>13 DEF RunUnpublish, ControlType
    <2> QED
      BY <1>13, <2>1, ControlMoves DEF RunUnpublish
  <1>14. CASE RunStops(r)
    <2>1. ControlType'
      BY <1>0, <1>14 DEF RunStops, ControlType
    <2> QED
      BY <1>14, <2>1, ControlMoves DEF RunStops
  <1> QED
    BY <1>1, <1>2, <1>3, <1>4, <1>5, <1>6, <1>7, <1>8, <1>9, <1>10, <1>11, <1>12, <1>13, <1>14
       DEF RunNext

\* The steps of a caller (Close, a cancelled context) keep the types.
LEMMA ControlTypes ==
    ASSUME TypeOK, CloseMark \/ CloseCancel \/ \E r \in Runs : Cancel(r) PROVE TypeOK'
  <1>1. ControlType' /\ Elsewhere
    <2>1. CASE CloseMark
      BY <2>1 DEF CloseMark, TypeOK, ControlType
    <2>2. CASE CloseCancel
      BY <2>2 DEF CloseCancel, TypeOK, ControlType
    <2>3. ASSUME NEW r \in Runs, Cancel(r) PROVE ControlType' /\ Elsewhere
      BY <2>3 DEF Cancel, TypeOK, ControlType
    <2> QED
      BY <2>1, <2>2, <2>3
  <1> QED
    BY <1>1, ControlMoves

\* Every step of a backend keeps the types: a slot is taken from free only, and a
\* queue is not filled beyond its capacity.
LEMMA BackendTypes ==
    ASSUME TypeOK, Served, NEW b \in Backends, BackendNext(b) PROVE TypeOK'
  <1> USE TypeFrames, NoneAssumption DEF TypeOK, Moves, At, Idle, CaptureType
  <1>1. CASE Capture(b)
    BY <1>1, SizesAssumption DEF Capture
  <1>2. CASE DropNoSlot(b)
    BY <1>2 DEF DropNoSlot, Drops, CounterType, Counter
  <1>3. CASE TakeSlot(b)
    BY <1>3 DEF TakeSlot, BufferType
  <1>4. CASE OfferSlot(b)
    <2>1. /\ backend[b].p \in Protocols /\ backend[b].slot \in Slots
          /\ queue' = [queue EXCEPT ![backend[b].p] = Append(@, backend[b].slot)]
          /\ Len(queue[backend[b].p]) < QueueSize
          /\ UNCHANGED free
      BY <1>4 DEF OfferSlot
    <2>2. BufferType'
      BY <2>1, SizesAssumption DEF BufferType
    <2>3. CounterType'
      BY <1>4, <2>1 DEF OfferSlot, CounterType, Counter
    <2>4. CaptureType'
      BY <1>4 DEF OfferSlot
    <2> QED
      BY <1>4, <2>2, <2>3, <2>4 DEF OfferSlot
  <1>5. CASE OfferClosed(b)
    BY <1>5 DEF OfferClosed, Panics
  <1>6. CASE DropFull(b)
    <2>1. backend[b].p \in Protocols /\ backend[b].slot \in Slots
      BY <1>6 DEF DropFull
    <2>2. CounterType'
      BY <1>6, <2>1 DEF DropFull, Drops, CounterType, Counter
    <2>4. BufferType'
      BY <1>6, <2>1 DEF DropFull, BufferType
    <2>3. CaptureType'
      BY <1>6 DEF DropFull
    <2> QED
      BY <1>6, <2>2, <2>3, <2>4 DEF DropFull
  <1>7. CASE BackendReturns(b)
    BY <1>7 DEF BackendReturns
  <1>8. CASE BackendFails(b)
    BY <1>8 DEF BackendFails
  <1>9. CASE BackendCancels(b)
    <2>1. active \in Runs
      BY <1>9 DEF BackendCancels, Served, During
    <2> QED
      BY <1>9, <2>1 DEF BackendCancels, ControlType
  <1> QED
    BY <1>1, <1>2, <1>3, <1>4, <1>5, <1>6, <1>7, <1>8, <1>9
       DEF BackendNext, BackendGoesOn

\* Every step of a worker keeps the types.
LEMMA WorkerTypes ==
    ASSUME TypeOK, NEW p \in Protocols, WorkerNext(p) PROVE TypeOK'
  <1> USE TypeFrames, NoneAssumption DEF TypeOK, WorkerMoves, DecodeType
  <1>1. CASE Receive(p)
    <2>1. /\ queue[p] \in Seq(Slots) /\ queue[p] # <<>> /\ Head(queue[p]) \in Slots
          /\ Tail(queue[p]) \in Seq(Slots) /\ Len(Tail(queue[p])) = Len(queue[p]) - 1
          /\ Len(queue[p]) <= QueueSize /\ Len(queue[p]) \in Nat
      BY <1>1 DEF Receive, BufferType
    <2>2. BufferType'
      <3>1. queue' = [queue EXCEPT ![p] = Tail(queue[p])] /\ UNCHANGED free
        BY <1>1 DEF Receive
      <3>2. \A q \in Protocols : queue'[q] = IF q = p THEN Tail(queue[p]) ELSE queue[q]
        BY <3>1 DEF BufferType
      <3>3. queue' \in [Protocols -> Seq(Slots)]
        BY <2>1, <3>1, ZenonT(30) DEF BufferType
      <3>4. Len(Tail(queue[p])) <= QueueSize
        BY <2>1, SizesAssumption
      <3> QED
        BY <3>1, <3>2, <3>3, <3>4 DEF BufferType
    <2>3. DecodeType'
      BY <1>1, <2>1 DEF Receive
    <2> QED
      BY <1>1, <2>2, <2>3 DEF Receive
  <1>2. CASE WorkerExits(p)
    BY <1>2 DEF WorkerExits
  <1>3. CASE Reject(p)
    BY <1>3 DEF Reject, BufferType, CounterType, Counter
  <1>4. CASE SendDecoded(p)
    <2>1. decoded' \in Seq(Protocols) /\ Len(decoded') <= DecodedSize
      BY <1>4, SizesAssumption DEF SendDecoded
    <2> QED
      BY <1>4, <2>1 DEF SendDecoded
  <1>5. CASE Acked(p)
    BY <1>5 DEF Acked, releases, BufferType
  <1> QED
    BY <1>1, <1>2, <1>3, <1>4, <1>5
       DEF WorkerNext

\* Every step of the fusion goroutine keeps the types.
LEMMA FusionTypes ==
    ASSUME TypeOK, FusionNext PROVE TypeOK'
  <1> USE TypeFrames, NoneAssumption DEF TypeOK, DecodeType
  <1>1. CASE Fuse
    <2>1. /\ decoded # <<>> /\ Head(decoded) \in Protocols /\ Tail(decoded) \in Seq(Protocols)
          /\ Len(Tail(decoded)) <= DecodedSize
      BY <1>1, SizesAssumption DEF Fuse
    <2>2. CounterType'
      BY <1>1, <2>1, SMTT(30) DEF Fuse, CounterType, Counter
    <2>3. DecodeType'
      BY <1>1, <2>1 DEF Fuse
    <2> QED
      BY <1>1, <2>2, <2>3 DEF Fuse
  <1>2. CASE SendAck
    BY <1>2 DEF SendAck
  <1>3. CASE FusionExits
    BY <1>3 DEF FusionExits
  <1> QED
    BY <1>1, <1>2, <1>3
       DEF FusionNext

\* Every step keeps the types: one case per part of the pipeline.
LEMMA TypeStep ==
    ASSUME TypeOK, Served, [Next]_vars PROVE TypeOK'
  <1>1. CASE Next
    BY <1>1, RunTypes, ControlTypes, BackendTypes, WorkerTypes, FusionTypes DEF Next
  <1>2. CASE UNCHANGED vars
    BY <1>2, TypeFrames DEF TypeOK
  <1> QED
    BY <1>1, <1>2

-----------------------------------------------------------------------------
(* One call of Run at a time owns the engine.                              *)

\* Only Run itself moves Run.
LEMMA OnlyRunMoves ==
    ASSUME Next PROVE (\E r \in Runs : RunNext(r)) \/ UNCHANGED <<run, running, cancel, active, result>>
  <1>1. CASE \E r \in Runs : Cancel(r)
    BY <1>1 DEF Cancel
  <1>2. CASE CloseMark \/ CloseCancel
    BY <1>2 DEF CloseMark, CloseCancel
  <1>3. CASE \E b \in Backends : BackendNext(b)
    BY <1>3 DEF BackendNext, BackendGoesOn, Capture, DropNoSlot, TakeSlot, OfferSlot, OfferClosed, DropFull, BackendReturns, BackendFails, BackendCancels, Panics
  <1>4. CASE \E p \in Protocols : WorkerNext(p)
    BY <1>4 DEF WorkerNext, Receive, WorkerExits, Reject, SendDecoded, Acked, releases
  <1>5. CASE FusionNext
    BY <1>5 DEF FusionNext, Fuse, SendAck, FusionExits
  <1> QED
    BY <1>1, <1>2, <1>3, <1>4, <1>5 DEF Next

\* The compare-and-swap admits one Run at a time, so e.cancel is its own until it
\* gives the engine up.
LEMMA ExclusiveStep ==
    ASSUME TypeOK, Exclusive, [Next]_vars PROVE Exclusive'
  <1> USE DEF TypeOK, ControlType, Exclusive, CancelIsActive, Owning, Serving
  <1>1. CASE UNCHANGED <<run, running, cancel, active, result>>
    BY <1>1
  <1>2. ASSUME NEW r \in Runs, RunNext(r) PROVE Exclusive'
    <2> USE DEF Steps
    <2>1. CASE RunLoadClosed(r)
      BY <2>1 DEF RunLoadClosed, Checks
    <2>2. CASE RunCheckContext(r)
      BY <2>2 DEF RunCheckContext, Checks
    <2>3. CASE RunLoadStarted(r)
      BY <2>3 DEF RunLoadStarted, Checks
    <2>4. CASE RunSwapRunning(r)
      BY <2>4 DEF RunSwapRunning, Checks
    <2>5. CASE RunPublishCancel(r)
      BY <2>5 DEF RunPublishCancel
    <2>6. CASE RunOpen(r)
      BY <2>6 DEF RunOpen
    <2>7. CASE RunOpenFails(r)
      BY <2>7 DEF RunOpenFails
    <2>8. CASE RunStart(r)
      BY <2>8 DEF RunStart
    <2>9. CASE RunCloseBackends(r)
      BY <2>9 DEF RunCloseBackends
    <2>10. CASE RunCloseQueues(r)
      BY <2>10 DEF RunCloseQueues, closesQueues, Panics
    <2>11. CASE RunCloseDecoded(r)
      BY <2>11 DEF RunCloseDecoded, closesDecoded
    <2>12. CASE RunResult(r)
      BY <2>12 DEF RunResult
    <2>13. CASE RunUnpublish(r)
      BY <2>13 DEF RunUnpublish
    <2>14. CASE RunStops(r)
      BY <2>14 DEF RunStops
    <2> QED
      BY <1>2, <2>1, <2>2, <2>3, <2>4, <2>5, <2>6, <2>7, <2>8, <2>9, <2>10, <2>11, <2>12, <2>13, <2>14
         DEF RunNext
  <1> QED
    BY <1>1, <1>2, OnlyRunMoves

-----------------------------------------------------------------------------
(* No goroutine outlives the Run that waits for it.                        *)

\* Run waits for the backends before the queues are closed, for the workers before
\* decoded is, and for fusion before it returns.
LEMMA ServedStep ==
    ASSUME TypeOK, Exclusive, Served, [Next]_vars PROVE Served'
  <1> USE DEF TypeOK, Served, During
  <1>1. ASSUME NEW r \in Runs, RunNext(r) PROVE Served'
    <2> USE DEF Steps, Elsewhere, ControlType, Exclusive, Owning, Serving
    <2>1. CASE RunLoadClosed(r)
      BY <2>1 DEF RunLoadClosed, Checks
    <2>2. CASE RunCheckContext(r)
      BY <2>2 DEF RunCheckContext, Checks
    <2>3. CASE RunLoadStarted(r)
      BY <2>3 DEF RunLoadStarted, Checks
    <2>4. CASE RunSwapRunning(r)
      BY <2>4 DEF RunSwapRunning, Checks
    <2>5. CASE RunPublishCancel(r)
      BY <2>5 DEF RunPublishCancel
    <2>6. CASE RunOpen(r)
      BY <2>6 DEF RunOpen
    <2>7. CASE RunOpenFails(r)
      BY <2>7 DEF RunOpenFails
    <2>8. CASE RunStart(r)
      BY <2>8 DEF RunStart, Idle
    <2>9. CASE RunCloseBackends(r)
      BY <2>9 DEF RunCloseBackends
    <2>10. CASE RunCloseQueues(r)
      BY <2>10 DEF RunCloseQueues, closesQueues, Panics, BackendsDone
    <2>11. CASE RunCloseDecoded(r)
      BY <2>11 DEF RunCloseDecoded, closesDecoded, WorkersDone
    <2>12. CASE RunResult(r)
      BY <2>12 DEF RunResult
    <2>13. CASE RunUnpublish(r)
      BY <2>13 DEF RunUnpublish
    <2>14. CASE RunStops(r)
      BY <2>14 DEF RunStops
    <2> QED
      BY <1>1, <2>1, <2>2, <2>3, <2>4, <2>5, <2>6, <2>7, <2>8, <2>9, <2>10, <2>11, <2>12, <2>13, <2>14
         DEF RunNext
  <1>2. CASE CloseMark \/ CloseCancel \/ \E r \in Runs : Cancel(r)
    BY <1>2 DEF CloseMark, CloseCancel, Cancel, Elsewhere
  <1>3. ASSUME NEW b \in Backends, BackendNext(b) PROVE Served'
    <2> USE DEF Moves, At, Idle, CaptureType
    <2>1. CASE Capture(b)
      BY <2>1 DEF Capture
    <2>2. CASE DropNoSlot(b)
      BY <2>2 DEF DropNoSlot, Drops
    <2>3. CASE TakeSlot(b)
      BY <2>3 DEF TakeSlot
    <2>4. CASE OfferSlot(b)
      BY <2>4 DEF OfferSlot, BufferType
    <2>5. CASE OfferClosed(b)
      BY <2>5 DEF OfferClosed, Panics
    <2>6. CASE DropFull(b)
      BY <2>6 DEF DropFull, Drops
    <2>7. CASE BackendReturns(b)
      BY <2>7 DEF BackendReturns
    <2>8. CASE BackendFails(b)
      BY <2>8 DEF BackendFails
    <2>9. CASE BackendCancels(b)
      BY <2>9 DEF BackendCancels
    <2> QED
      BY <1>3, <2>1, <2>2, <2>3, <2>4, <2>5, <2>6, <2>7, <2>8, <2>9 DEF BackendNext, BackendGoesOn
  <1>4. ASSUME NEW p \in Protocols, WorkerNext(p) PROVE Served'
    <2> USE DEF WorkerMoves, DecodeType
    <2>1. CASE Receive(p)
      BY <2>1 DEF Receive, BufferType
    <2>2. CASE WorkerExits(p)
      BY <2>2 DEF WorkerExits
    <2>3. CASE Reject(p)
      BY <2>3 DEF Reject
    <2>4. CASE SendDecoded(p)
      BY <2>4 DEF SendDecoded
    <2>5. CASE Acked(p)
      BY <2>5 DEF Acked, releases
    <2> QED
      BY <1>4, <2>1, <2>2, <2>3, <2>4, <2>5 DEF WorkerNext
  <1>5. CASE FusionNext
    BY <1>5 DEF FusionNext, Fuse, SendAck, FusionExits
  <1>6. CASE UNCHANGED vars
    BY <1>6
  <1> QED
    BY <1>1, <1>2, <1>3, <1>4, <1>5, <1>6 DEF Next

-----------------------------------------------------------------------------
(* What is closed when.                                                    *)

\* A channel is closed once, after everybody who sends on it has ended, by a Run
\* that no other Run follows without finding it closed.
LEMMA ShutStep ==
    ASSUME TypeOK, Exclusive, Served, Shut, [Next]_vars PROVE Shut'
  <1> USE DEF TypeOK, Shut, NoPanic, Closers, Ended
  <1>1. ASSUME NEW r \in Runs, RunNext(r) PROVE Shut'
    <2> USE DEF Steps, Elsewhere, ControlType, Exclusive, Owning, Serving
    <2>1. CASE RunLoadClosed(r)
      BY <2>1 DEF RunLoadClosed, Checks
    <2>2. CASE RunCheckContext(r)
      BY <2>2 DEF RunCheckContext, Checks
    <2>3. CASE RunLoadStarted(r)
      BY <2>3 DEF RunLoadStarted, Checks
    <2>4. CASE RunSwapRunning(r)
      BY <2>4 DEF RunSwapRunning, Checks
    <2>5. CASE RunPublishCancel(r)
      BY <2>5 DEF RunPublishCancel
    <2>6. CASE RunOpen(r)
      BY <2>6 DEF RunOpen
    <2>7. CASE RunOpenFails(r)
      BY <2>7 DEF RunOpenFails
    <2>8. CASE RunStart(r)
      BY <2>8 DEF RunStart, Idle, DecodeType
    <2>9. CASE RunCloseBackends(r)
      BY <2>9 DEF RunCloseBackends
    <2>10. CASE RunCloseQueues(r)
      BY <2>10 DEF RunCloseQueues, closesQueues, Panics
    <2>11. CASE RunCloseDecoded(r)
      BY <2>11 DEF RunCloseDecoded, closesDecoded, WorkersDone, Served
    <2>12. CASE RunResult(r)
      BY <2>12 DEF RunResult
    <2>13. CASE RunUnpublish(r)
      BY <2>13 DEF RunUnpublish
    <2>14. CASE RunStops(r)
      BY <2>14 DEF RunStops
    <2> QED
      BY <1>1, <2>1, <2>2, <2>3, <2>4, <2>5, <2>6, <2>7, <2>8, <2>9, <2>10, <2>11, <2>12, <2>13, <2>14
         DEF RunNext
  <1>2. CASE CloseMark \/ CloseCancel \/ \E r \in Runs : Cancel(r)
    BY <1>2 DEF CloseMark, CloseCancel, Cancel, Elsewhere
  <1>3. ASSUME NEW b \in Backends, BackendNext(b) PROVE Shut'
    <2> USE DEF Moves, At, Idle
    <2>1. CASE Capture(b)
      BY <2>1 DEF Capture
    <2>2. CASE DropNoSlot(b)
      BY <2>2 DEF DropNoSlot, Drops
    <2>3. CASE TakeSlot(b)
      BY <2>3 DEF TakeSlot
    <2>4. CASE OfferSlot(b)
      BY <2>4 DEF OfferSlot, BufferType, CaptureType
    <2>5. CASE OfferClosed(b)
      BY <2>5 DEF OfferClosed, Panics, Served, During, Exclusive, Owning, Serving, ControlType
    <2>6. CASE DropFull(b)
      BY <2>6 DEF DropFull, Drops
    <2>7. CASE BackendReturns(b)
      BY <2>7 DEF BackendReturns
    <2>8. CASE BackendFails(b)
      BY <2>8 DEF BackendFails
    <2>9. CASE BackendCancels(b)
      BY <2>9 DEF BackendCancels
    <2> QED
      BY <1>3, <2>1, <2>2, <2>3, <2>4, <2>5, <2>6, <2>7, <2>8, <2>9 DEF BackendNext, BackendGoesOn
  <1>4. ASSUME NEW p \in Protocols, WorkerNext(p) PROVE Shut'
    <2> USE DEF WorkerMoves, DecodeType, BufferType
    <2>1. CASE Receive(p)
      BY <2>1 DEF Receive
    <2>2. CASE WorkerExits(p)
      BY <2>2 DEF WorkerExits
    <2>3. CASE Reject(p)
      BY <2>3 DEF Reject
    <2>4. CASE SendDecoded(p)
      BY <2>4 DEF SendDecoded
    <2>5. CASE Acked(p)
      BY <2>5 DEF Acked, releases
    <2> QED
      BY <1>4, <2>1, <2>2, <2>3, <2>4, <2>5 DEF WorkerNext
  <1>5. CASE FusionNext
    <2>1. CASE Fuse
      BY <2>1 DEF Fuse
    <2>2. CASE SendAck
      BY <2>2 DEF SendAck
    <2>3. CASE FusionExits
      BY <2>3 DEF FusionExits
    <2> QED
      BY <1>5, <2>1, <2>2, <2>3 DEF FusionNext
  <1>6. CASE UNCHANGED vars
    BY <1>6
  <1> QED
    BY <1>1, <1>2, <1>3, <1>4, <1>5, <1>6 DEF Next

-----------------------------------------------------------------------------
(* The worker of an envelope waits for its ack.                            *)

\* Fusion acknowledges an envelope once, and its worker touches neither the
\* message nor the packet before that.
LEMMA MessagesStep ==
    ASSUME TypeOK, Exclusive, Served, Messages, [Next]_vars PROVE Messages'
  <1> USE NoneAssumption DEF TypeOK, Messages, DecodeType
  <1>1. ASSUME NEW r \in Runs, RunNext(r) PROVE Messages'
    <2> USE DEF Steps, Elsewhere
    <2>1. CASE RunLoadClosed(r)
      BY <2>1 DEF RunLoadClosed, Checks
    <2>2. CASE RunCheckContext(r)
      BY <2>2 DEF RunCheckContext, Checks
    <2>3. CASE RunLoadStarted(r)
      BY <2>3 DEF RunLoadStarted, Checks
    <2>4. CASE RunSwapRunning(r)
      BY <2>4 DEF RunSwapRunning, Checks
    <2>5. CASE RunPublishCancel(r)
      BY <2>5 DEF RunPublishCancel
    <2>6. CASE RunOpen(r)
      BY <2>6 DEF RunOpen
    <2>7. CASE RunOpenFails(r)
      BY <2>7 DEF RunOpenFails
    <2>8. CASE RunStart(r)
      BY <2>8 DEF RunStart, Idle, Exclusive, Served, During, Owning, Serving, ControlType
    <2>9. CASE RunCloseBackends(r)
      BY <2>9 DEF RunCloseBackends
    <2>10. CASE RunCloseQueues(r)
      BY <2>10 DEF RunCloseQueues, closesQueues, Panics
    <2>11. CASE RunCloseDecoded(r)
      BY <2>11 DEF RunCloseDecoded, closesDecoded
    <2>12. CASE RunResult(r)
      BY <2>12 DEF RunResult
    <2>13. CASE RunUnpublish(r)
      BY <2>13 DEF RunUnpublish
    <2>14. CASE RunStops(r)
      BY <2>14 DEF RunStops
    <2> QED
      BY <1>1, <2>1, <2>2, <2>3, <2>4, <2>5, <2>6, <2>7, <2>8, <2>9, <2>10, <2>11, <2>12, <2>13, <2>14
         DEF RunNext
  <1>2. CASE CloseMark \/ CloseCancel \/ \E r \in Runs : Cancel(r)
    BY <1>2 DEF CloseMark, CloseCancel, Cancel, Elsewhere
  <1>3. ASSUME NEW b \in Backends, BackendNext(b) PROVE Messages'
    <2> USE DEF Moves, At, Idle
    <2>1. CASE Capture(b)
      BY <2>1 DEF Capture
    <2>2. CASE DropNoSlot(b)
      BY <2>2 DEF DropNoSlot, Drops
    <2>3. CASE TakeSlot(b)
      BY <2>3 DEF TakeSlot
    <2>4. CASE OfferSlot(b)
      BY <2>4 DEF OfferSlot
    <2>5. CASE OfferClosed(b)
      BY <2>5 DEF OfferClosed, Panics
    <2>6. CASE DropFull(b)
      BY <2>6 DEF DropFull, Drops
    <2>7. CASE BackendReturns(b)
      BY <2>7 DEF BackendReturns
    <2>8. CASE BackendFails(b)
      BY <2>8 DEF BackendFails
    <2>9. CASE BackendCancels(b)
      BY <2>9 DEF BackendCancels
    <2> QED
      BY <1>3, <2>1, <2>2, <2>3, <2>4, <2>5, <2>6, <2>7, <2>8, <2>9 DEF BackendNext, BackendGoesOn
  <1>4. ASSUME NEW p \in Protocols, WorkerNext(p) PROVE Messages'
    <2> USE DEF WorkerMoves
    <2>1. CASE Receive(p)
      BY <2>1 DEF Receive
    <2>2. CASE WorkerExits(p)
      BY <2>2 DEF WorkerExits
    <2>3. CASE Reject(p)
      BY <2>3 DEF Reject
    <2>4. CASE SendDecoded(p)
      BY <2>4 DEF SendDecoded
    <2>5. CASE Acked(p)
      BY <2>5 DEF Acked, releases
    <2> QED
      BY <1>4, <2>1, <2>2, <2>3, <2>4, <2>5 DEF WorkerNext
  <1>5. CASE FusionNext
    <2>1. CASE Fuse
      BY <2>1 DEF Fuse
    <2>2. CASE SendAck
      BY <2>2 DEF SendAck
    <2>3. CASE FusionExits
      BY <2>3 DEF FusionExits
    <2> QED
      BY <1>5, <2>1, <2>2, <2>3 DEF FusionNext
  <1>6. CASE UNCHANGED vars
    BY <1>6
  <1> QED
    BY <1>1, <1>2, <1>3, <1>4, <1>5, <1>6 DEF Next

-----------------------------------------------------------------------------
(* Every routed packet is accounted for.                                   *)

\* A step that moves a packet of protocol p, and the sum over where it may be.
LEMMA CountMoves ==
    ASSUME Counted, NEW p \in Protocols,
           \A q \in Protocols : q # p =>
               /\ routed'[q] = routed[q] /\ rejected'[q] = rejected[q] /\ fused'[q] = fused[q]
               /\ queue'[q] = queue[q] /\ InHand(q)' = InHand(q),
           routed'[p] = rejected'[p] + fused'[p] + Len(queue'[p]) + InHand(p)'
    PROVE  Counted'
  BY DEF Counted

\* A step that moves no packet.
LEMMA CountStays ==
    ASSUME Counted, UNCHANGED <<routed, rejected, fused, queue>>,
           \A q \in Protocols : InHand(q)' = InHand(q)
    PROVE  Counted'
  BY DEF Counted

\* A routed packet is on its queue, with its worker, rejected or fused.
LEMMA CountedStep ==
    ASSUME TypeOK, Exclusive, Served, Messages, Counted, [Next]_vars PROVE Counted'
  <1> USE NoneAssumption DEF TypeOK, Counted, InHand, BufferType, CounterType, Counter
  <1>1. ASSUME NEW r \in Runs, RunNext(r) PROVE Counted'
    <2> USE DEF Steps, Elsewhere
    <2>1. CASE RunLoadClosed(r)
      BY <2>1 DEF RunLoadClosed, Checks
    <2>2. CASE RunCheckContext(r)
      BY <2>2 DEF RunCheckContext, Checks
    <2>3. CASE RunLoadStarted(r)
      BY <2>3 DEF RunLoadStarted, Checks
    <2>4. CASE RunSwapRunning(r)
      BY <2>4 DEF RunSwapRunning, Checks
    <2>5. CASE RunPublishCancel(r)
      BY <2>5 DEF RunPublishCancel
    <2>6. CASE RunOpen(r)
      BY <2>6 DEF RunOpen
    <2>7. CASE RunOpenFails(r)
      BY <2>7 DEF RunOpenFails
    <2>8. CASE RunStart(r)
      <3>1. run[r] = "start" /\ UNCHANGED <<routed, rejected, fused, queue>>
        BY <2>8 DEF RunStart
      <3>2. \A q \in Protocols : worker[q].at = "off" /\ worker'[q].at = "recv"
        <4>1. ~ During({"wait", "backends", "workers"})
          BY <3>1 DEF Exclusive, During, Owning, Serving
        <4> QED
          BY <2>8, <4>1 DEF RunStart, Served
      <3>3. \A q \in Protocols : InHand(q)' = InHand(q)
        BY <3>2
      <3> QED
        BY <3>1, <3>3, CountStays
    <2>9. CASE RunCloseBackends(r)
      BY <2>9 DEF RunCloseBackends
    <2>10. CASE RunCloseQueues(r)
      BY <2>10 DEF RunCloseQueues, closesQueues, Panics
    <2>11. CASE RunCloseDecoded(r)
      BY <2>11 DEF RunCloseDecoded, closesDecoded
    <2>12. CASE RunResult(r)
      BY <2>12 DEF RunResult
    <2>13. CASE RunUnpublish(r)
      BY <2>13 DEF RunUnpublish
    <2>14. CASE RunStops(r)
      BY <2>14 DEF RunStops
    <2> QED
      BY <1>1, <2>1, <2>2, <2>3, <2>4, <2>5, <2>6, <2>7, <2>8, <2>9, <2>10, <2>11, <2>12, <2>13, <2>14
         DEF RunNext
  <1>2. CASE CloseMark \/ CloseCancel \/ \E r \in Runs : Cancel(r)
    BY <1>2 DEF CloseMark, CloseCancel, Cancel, Elsewhere
  <1>3. ASSUME NEW b \in Backends, BackendNext(b) PROVE Counted'
    <2> USE DEF Moves, At, Idle
    <2>1. CASE Capture(b)
      BY <2>1 DEF Capture
    <2>2. CASE DropNoSlot(b)
      BY <2>2 DEF DropNoSlot, Drops
    <2>3. CASE TakeSlot(b)
      BY <2>3 DEF TakeSlot
    <2>4. CASE OfferSlot(b)
      <3>1. PICK p \in Protocols :
            /\ p = backend[b].p /\ backend[b].slot \in Slots
            /\ queue' = [queue EXCEPT ![p] = Append(@, backend[b].slot)]
            /\ routed' = [routed EXCEPT ![p] = @ + 1]
            /\ UNCHANGED <<worker, ack, fusion, rejected, fused>>
        BY <2>4 DEF OfferSlot, CaptureType
      <3>2. /\ Len(queue'[p]) = Len(queue[p]) + 1 /\ Len(queue[p]) \in Nat
            /\ routed'[p] = routed[p] + 1
            /\ \A q \in Protocols : q # p => queue'[q] = queue[q] /\ routed'[q] = routed[q]
        BY <3>1
      <3>3. \A q \in Protocols : InHand(q)' = InHand(q) /\ InHand(q) \in {0, 1}
        BY <3>1
      <3>4. routed[p] \in Nat /\ rejected[p] \in Nat /\ fused[p] \in Nat
        BY <3>1
      <3>5. routed[p] = rejected[p] + fused[p] + Len(queue[p]) + InHand(p)
        BY <3>1
      <3> HIDE DEF Counted, InHand, TypeOK, BufferType, CounterType
      <3>6. InHand(p)' = InHand(p) /\ InHand(p) \in Nat /\ rejected' = rejected /\ fused' = fused
        BY <3>1, <3>3
      <3>7. routed'[p] = rejected'[p] + fused'[p] + Len(queue'[p]) + InHand(p)'
        BY <3>2, <3>4, <3>5, <3>6
      <3> QED
        BY <3>1, <3>2, <3>3, <3>7, CountMoves
    <2>5. CASE OfferClosed(b)
      BY <2>5 DEF OfferClosed, Panics
    <2>6. CASE DropFull(b)
      BY <2>6 DEF DropFull, Drops
    <2>7. CASE BackendReturns(b)
      BY <2>7 DEF BackendReturns
    <2>8. CASE BackendFails(b)
      BY <2>8 DEF BackendFails
    <2>9. CASE BackendCancels(b)
      BY <2>9 DEF BackendCancels
    <2> QED
      BY <1>3, <2>1, <2>2, <2>3, <2>4, <2>5, <2>6, <2>7, <2>8, <2>9 DEF BackendNext, BackendGoesOn
  <1>4. ASSUME NEW p \in Protocols, WorkerNext(p) PROVE Counted'
    <2> USE DEF WorkerMoves
    <2>1. CASE Receive(p)
      <3>1. /\ Len(queue'[p]) = Len(queue[p]) - 1 /\ Len(queue[p]) \in Nat
            /\ \A q \in Protocols : q # p => queue'[q] = queue[q]
        BY <2>1 DEF Receive
      <3>2. /\ worker[p].at = "recv"
            /\ \A q \in Protocols : worker'[q].at = IF q = p THEN "decode" ELSE worker[q].at
            /\ UNCHANGED <<ack, fusion, rejected, fused, routed>>
        BY <2>1 DEF Receive, DecodeType
      <3>3. InHand(p) = 0 /\ InHand(p)' = 1
        BY <3>2
      <3>4. \A q \in Protocols : q # p => InHand(q)' = InHand(q)
        BY <3>2
      <3>5. routed[p] \in Nat /\ rejected[p] \in Nat /\ fused[p] \in Nat
        OBVIOUS
      <3>6. routed[p] = rejected[p] + fused[p] + Len(queue[p]) + InHand(p)
        OBVIOUS
      <3> HIDE DEF Counted, InHand, TypeOK, BufferType, CounterType
      <3>7. routed'[p] = rejected'[p] + fused'[p] + Len(queue'[p]) + InHand(p)'
        BY <3>1, <3>2, <3>3, <3>5, <3>6
      <3> QED
        BY <3>1, <3>2, <3>4, <3>7, CountMoves
    <2>2. CASE WorkerExits(p)
      <3>1. /\ worker[p].at = "recv"
            /\ \A q \in Protocols : worker'[q].at = IF q = p THEN "off" ELSE worker[q].at
            /\ UNCHANGED <<ack, fusion, rejected, fused, routed, queue>>
        BY <2>2 DEF WorkerExits, DecodeType
      <3>2. \A q \in Protocols : InHand(q)' = InHand(q)
        BY <3>1
      <3> QED
        BY <3>1, <3>2, CountStays
    <2>3. CASE Reject(p)
      <3>1. /\ worker[p].at = "decode"
            /\ \A q \in Protocols : worker'[q].at = IF q = p THEN "recv" ELSE worker[q].at
            /\ UNCHANGED <<ack, fusion, fused, routed, queue>>
        BY <2>3 DEF Reject, DecodeType
      <3>2. InHand(p) = 1 /\ InHand(p)' = 0
        BY <3>1
      <3>3. \A q \in Protocols : q # p => InHand(q)' = InHand(q)
        BY <3>1
      <3>4. /\ rejected'[p] = rejected[p] + 1
            /\ \A q \in Protocols : q # p => rejected'[q] = rejected[q]
        BY <2>3 DEF Reject
      <3>5. /\ routed[p] \in Nat /\ rejected[p] \in Nat /\ fused[p] \in Nat
            /\ Len(queue[p]) \in Nat
        OBVIOUS
      <3>6. routed[p] = rejected[p] + fused[p] + Len(queue[p]) + InHand(p)
        OBVIOUS
      <3> HIDE DEF Counted, InHand, TypeOK, BufferType, CounterType
      <3>7. routed'[p] = rejected'[p] + fused'[p] + Len(queue'[p]) + InHand(p)'
        BY <3>1, <3>2, <3>4, <3>5, <3>6, SMTT(30)
      <3> QED
        BY <3>1, <3>3, <3>4, <3>7, CountMoves
    <2>4. CASE SendDecoded(p)
      <3>1. /\ worker[p].at = "decode"
            /\ \A q \in Protocols : worker'[q].at = IF q = p THEN "ack" ELSE worker[q].at
            /\ UNCHANGED <<ack, fusion, rejected, fused, routed, queue>>
        BY <2>4 DEF SendDecoded, DecodeType
      <3>2. p \notin ack /\ fusion.p # p
        BY <3>1 DEF Messages, DecodeType
      <3>3. \A q \in Protocols : InHand(q)' = InHand(q)
        BY <3>1, <3>2
      <3> QED
        BY <3>1, <3>3, CountStays
    <2>5. CASE Acked(p)
      <3>1. /\ worker[p].at = "ack" /\ p \in ack /\ ack' = ack \ {p}
            /\ \A q \in Protocols : worker'[q].at = IF q = p THEN "recv" ELSE worker[q].at
            /\ UNCHANGED <<fusion, rejected, fused, routed, queue>>
        BY <2>5 DEF Acked, releases, DecodeType
      <3>2. \A q \in Protocols : InHand(q)' = InHand(q)
        BY <3>1
      <3> QED
        BY <3>1, <3>2, CountStays
    <2> QED
      BY <1>4, <2>1, <2>2, <2>3, <2>4, <2>5 DEF WorkerNext
  <1>5. CASE FusionNext
    <2>1. CASE Fuse
      <3>0. decoded[1] \in Protocols /\ Head(decoded) = decoded[1] /\ 1 \in DOMAIN decoded
        BY <2>1 DEF Fuse, DecodeType
      <3>1. PICK p \in Protocols :
            /\ p = decoded[1] /\ 1 \in DOMAIN decoded
            /\ fused' = [fused EXCEPT ![p] = @ + 1] /\ fusion.p = None /\ fusion'.p = p
            /\ UNCHANGED <<worker, queue, ack, rejected, routed>>
        BY <2>1, <3>0 DEF Fuse, DecodeType
      <3>2. worker[p].at = "ack" /\ p \notin ack
        BY <3>1 DEF Messages
      <3>3. InHand(p) = 1 /\ InHand(p)' = 0
        BY <3>1, <3>2
      <3>4. \A q \in Protocols : q # p => InHand(q)' = InHand(q) /\ fused'[q] = fused[q]
        BY <3>1
      <3>5. /\ routed[p] \in Nat /\ rejected[p] \in Nat /\ fused[p] \in Nat
            /\ Len(queue[p]) \in Nat /\ fused'[p] = fused[p] + 1
        BY <3>1
      <3>6. routed[p] = rejected[p] + fused[p] + Len(queue[p]) + InHand(p)
        BY <3>1
      <3> HIDE DEF Counted, InHand, TypeOK, BufferType, CounterType
      <3>7. routed'[p] = rejected'[p] + fused'[p] + Len(queue'[p]) + InHand(p)'
        BY <3>1, <3>3, <3>5, <3>6
      <3> QED
        BY <3>1, <3>4, <3>7, CountMoves
    <2>2. CASE SendAck
      <3>1. /\ fusion.at = "ack" /\ fusion.p \in Protocols /\ fusion'.p = None
            /\ ack' = ack \cup {fusion.p}
            /\ UNCHANGED <<worker, rejected, fused, routed, queue>>
        BY <2>2 DEF SendAck, DecodeType
      <3>2. \A q \in Protocols : InHand(q)' = InHand(q)
        BY <3>1
      <3> QED
        BY <3>1, <3>2, CountStays
    <2>3. CASE FusionExits
      <3>1. /\ fusion.p = None /\ fusion'.p = None
            /\ UNCHANGED <<worker, ack, rejected, fused, routed, queue>>
        BY <2>3 DEF FusionExits, DecodeType
      <3>2. \A q \in Protocols : InHand(q)' = InHand(q)
        BY <3>1
      <3> QED
        BY <3>1, <3>2, CountStays
    <2> QED
      BY <1>5, <2>1, <2>2, <2>3 DEF FusionNext
  <1>6. CASE UNCHANGED vars
    BY <1>6
  <1> QED
    BY <1>1, <1>2, <1>3, <1>4, <1>5, <1>6 DEF Next

-----------------------------------------------------------------------------
(* A slot is in one place.                                                 *)

\* The slots of everybody but backends B and workers W stay.
Stays(B, W) ==
    /\ \A b \in Backends \ B : backend'[b].slot = backend[b].slot
    /\ \A p \in Protocols \ W : worker'[p].slot = worker[p].slot

\* A step that leaves the free list, the queues and the slots in hand alone
\* keeps every slot in one place.
LEMMA SlotsStay ==
    ASSUME Slotted, UNCHANGED <<free, queue>>, Stays({}, {}) PROVE Slotted'
  BY DEF Slotted, Placed, FreeAlone, BackendAlone, WorkerAlone, QueueAlone, Stays

\* enqueue takes a slot out of free.
LEMMA SlotTaken ==
    ASSUME TypeOK, Slotted, NEW b \in Backends, NEW s \in free, free' = free \ {s},
           backend[b].slot = None, backend'[b].slot = s, UNCHANGED queue, Stays({b}, {})
    PROVE  Slotted'
  <1> USE NoneAssumption DEF Slotted, Stays, TypeOK, BufferType
  <1>1. Placed'
    <2> SUFFICES ASSUME NEW t \in Slots, t \notin free'
                 PROVE  \/ \E c \in Backends : backend'[c].slot = t
                        \/ \E p \in Protocols : worker'[p].slot = t
                        \/ \E p \in Protocols : \E i \in DOMAIN queue[p] : queue[p][i] = t
      BY DEF Placed
    <2>1. CASE t = s
      BY <2>1
    <2>2. CASE t # s
      <3>1. t \notin free /\ t # None
        BY <2>2
      <3>2. ASSUME NEW c \in Backends, backend[c].slot = t PROVE backend'[c].slot = t
        BY <3>1, <3>2
      <3>3. \A p \in Protocols : worker'[p].slot = worker[p].slot
        OBVIOUS
      <3> QED
        BY <3>1, <3>2, <3>3 DEF Placed
    <2> QED
      BY <2>1, <2>2
  <1>2. FreeAlone'
    BY DEF FreeAlone
  <1>3. BackendAlone'
    BY DEF BackendAlone, FreeAlone
  <1>4. WorkerAlone' /\ QueueAlone'
    BY DEF WorkerAlone, QueueAlone
  <1> QED
    BY <1>1, <1>2, <1>3, <1>4

\* A slot goes back to free: from a backend, or from a worker.
LEMMA SlotDropped ==
    ASSUME TypeOK, Slotted, NEW b \in Backends, backend[b].slot \in Slots,
           free' = free \cup {backend[b].slot},
           backend'[b].slot = None, UNCHANGED queue, Stays({b}, {})
    PROVE  Slotted'
  <1> USE NoneAssumption DEF Slotted, Stays, TypeOK, BufferType
  <1>1. Placed'
    BY SMTT(30) DEF Placed
  <1>2. FreeAlone'
    <2> DEFINE x == backend[b].slot
    <2>1. x # None /\ free \subseteq Slots /\ None \notin free'
      OBVIOUS
    <2>2. \A c \in Backends : backend'[c].slot \notin free'
      <3> TAKE c \in Backends
      <3>1. c # b => backend[c].slot # x /\ backend[c].slot \notin free
        BY <2>1 DEF FreeAlone, BackendAlone
      <3> QED
        BY <2>1, <3>1
    <2>3. \A p \in Protocols : worker'[p].slot \notin free'
      BY <2>1 DEF FreeAlone, BackendAlone
    <2>4. \A p \in Protocols : \A i \in DOMAIN queue'[p] : queue'[p][i] \notin free'
      BY <2>1 DEF FreeAlone, BackendAlone
    <2> QED
      BY <2>2, <2>3, <2>4 DEF FreeAlone
  <1>3. BackendAlone'
    BY DEF BackendAlone
  <1>4. WorkerAlone' /\ QueueAlone'
    BY DEF WorkerAlone, QueueAlone
  <1> QED
    BY <1>1, <1>2, <1>3, <1>4

\* A worker that puts its slot back on the free list keeps every slot in one
\* place.
LEMMA SlotReleased ==
    ASSUME TypeOK, Slotted, NEW p \in Protocols, worker[p].slot \in Slots,
           free' = free \cup {worker[p].slot},
           worker'[p].slot = None, UNCHANGED queue, Stays({}, {p})
    PROVE  Slotted'
  <1> USE NoneAssumption DEF Slotted, Stays, TypeOK, BufferType
  <1>1. Placed'
    BY SMTT(30) DEF Placed
  <1>2. FreeAlone'
    BY DEF FreeAlone, BackendAlone, WorkerAlone
  <1>3. BackendAlone'
    <2>1. \A c \in Backends : backend'[c].slot = backend[c].slot
      OBVIOUS
    <2>2. \A q \in Protocols : worker'[q].slot \in {worker[q].slot, None}
      OBVIOUS
    <2>3. \A c \in Backends, q \in Protocols :
              backend'[c].slot # None => backend'[c].slot # worker'[q].slot
      BY <2>1, <2>2 DEF BackendAlone
    <2>4. \A c \in Backends, q \in Protocols : \A i \in DOMAIN queue'[q] :
              queue'[q][i] # backend'[c].slot
      BY <2>1 DEF BackendAlone
    <2>5. \A c, d \in Backends :
              backend'[c].slot # None /\ backend'[c].slot = backend'[d].slot => c = d
      BY <2>1 DEF BackendAlone
    <2> QED
      BY <2>3, <2>4, <2>5 DEF BackendAlone
  <1>4. WorkerAlone'
    <2>1. \A q \in Protocols : worker'[q].slot = IF q = p THEN None ELSE worker[q].slot
      OBVIOUS
    <2>2. \A q \in Protocols : \A i \in DOMAIN queue[q] : queue[q][i] \in Slots
      OBVIOUS
    <2>3. \A q, z \in Protocols :
              worker'[q].slot # None /\ worker'[q].slot = worker'[z].slot => q = z
      BY <2>1, SMTT(30) DEF WorkerAlone
    <2>4. \A q, z \in Protocols : \A i \in DOMAIN queue'[z] : queue'[z][i] # worker'[q].slot
      BY <2>1, <2>2, SMTT(30) DEF WorkerAlone
    <2> QED
      BY <2>3, <2>4 DEF WorkerAlone
  <1>5. QueueAlone'
    BY DEF QueueAlone
  <1> QED
    BY <1>1, <1>2, <1>3, <1>4, <1>5

\* A slot goes from a backend to the end of a queue.
LEMMA SlotOffered ==
    ASSUME TypeOK, Slotted, NEW b \in Backends, NEW p \in Protocols, backend[b].slot \in Slots,
           queue' = [queue EXCEPT ![p] = Append(@, backend[b].slot)],
           backend'[b].slot = None, UNCHANGED free, Stays({b}, {})
    PROVE  Slotted'
  <1> DEFINE n == Len(queue[p])
  <1>1. /\ n \in Nat /\ DOMAIN queue[p] = 1..n /\ DOMAIN queue'[p] = 1..(n + 1)
        /\ queue'[p][n + 1] = backend[b].slot
        /\ \A i \in 1..n : queue'[p][i] = queue[p][i]
        /\ \A q \in Protocols : q # p => queue'[q] = queue[q]
    BY DEF TypeOK, BufferType
  <1>2. \A i \in DOMAIN queue'[p] : i \in DOMAIN queue[p] \/ i = n + 1
    BY <1>1
  <1>3. \A i \in DOMAIN queue[p] : i \in DOMAIN queue'[p] /\ queue'[p][i] = queue[p][i]
    BY <1>1
  <1> HIDE DEF n
  <1> USE NoneAssumption DEF Slotted, Stays
  <1>4. Placed'
    BY <1>1, <1>3, SMTT(30) DEF Placed
  <1>9. /\ None \notin free /\ backend[b].slot # None
        /\ \A q \in Protocols : \A i \in DOMAIN queue[q] : queue[q][i] # None
    BY DEF TypeOK, BufferType
  <1>10. \A c \in Backends : backend'[c].slot = IF c = b THEN None ELSE backend[c].slot
    OBVIOUS
  <1>11. \A q \in Protocols : worker'[q].slot = worker[q].slot
    OBVIOUS
  <1>12. \A q \in Protocols : \A i \in DOMAIN queue'[q] :
            (i \in DOMAIN queue[q] /\ queue'[q][i] = queue[q][i]) \/ queue'[q][i] = backend[b].slot
    BY <1>1, <1>2, <1>3
  <1>5. FreeAlone'
    BY <1>9, <1>10, <1>11, <1>12 DEF FreeAlone
  <1>6. BackendAlone'
    <2>1. \A c, d \in Backends :
              backend'[c].slot # None /\ backend'[c].slot = backend'[d].slot => c = d
      BY <1>10 DEF BackendAlone
    <2>2. \A c \in Backends, q \in Protocols :
              backend'[c].slot # None => backend'[c].slot # worker'[q].slot
      BY <1>10, <1>11 DEF BackendAlone
    <2>3. \A c \in Backends, q \in Protocols : \A i \in DOMAIN queue'[q] :
              queue'[q][i] # backend'[c].slot
      BY <1>9, <1>10, <1>12 DEF BackendAlone
    <2> QED
      BY <2>1, <2>2, <2>3 DEF BackendAlone
  <1>7. WorkerAlone'
    BY <1>1, <1>2, <1>3 DEF WorkerAlone, BackendAlone
  <1>8. QueueAlone'
    BY <1>1, <1>2, <1>3 DEF QueueAlone, BackendAlone
  <1> QED
    BY <1>4, <1>5, <1>6, <1>7, <1>8

\* A slot goes from the head of a queue to its worker.
LEMMA SlotReceived ==
    ASSUME TypeOK, Slotted, NEW p \in Protocols, queue[p] # <<>>, worker[p].slot = None,
           worker'[p].slot = Head(queue[p]), queue' = [queue EXCEPT ![p] = Tail(@)],
           UNCHANGED free, Stays({}, {p})
    PROVE  Slotted'
  <1> DEFINE n == Len(queue[p])
  <1>1. /\ n \in Nat \ {0} /\ DOMAIN queue[p] = 1..n /\ DOMAIN queue'[p] = 1..(n - 1)
        /\ worker'[p].slot = queue[p][1] /\ queue[p][1] \in Slots
        /\ \A i \in 1..(n - 1) : queue'[p][i] = queue[p][i + 1]
        /\ \A q \in Protocols : q # p => queue'[q] = queue[q]
    BY DEF TypeOK, BufferType
  <1>2. /\ 1 \in DOMAIN queue[p]
        /\ \A i \in DOMAIN queue'[p] : /\ i + 1 \in DOMAIN queue[p] /\ i + 1 # 1
                                       /\ queue'[p][i] = queue[p][i + 1]
        /\ \A i \in DOMAIN queue[p] : i # 1 => i - 1 \in DOMAIN queue'[p]
                                                /\ queue'[p][i - 1] = queue[p][i]
        /\ \A i, j \in DOMAIN queue'[p] : i + 1 = j + 1 => i = j
    BY <1>1
  <1> HIDE DEF n
  <1> USE NoneAssumption DEF Slotted, Stays
  <1>9. \A q \in Protocols : worker'[q].slot = IF q = p THEN queue[p][1] ELSE worker[q].slot
    BY <1>1
  <1>10. \A c \in Backends : backend'[c].slot = backend[c].slot
    OBVIOUS
  <1>11. \A q \in Protocols : \A i \in DOMAIN queue'[q] :
            \E j \in DOMAIN queue[q] : queue'[q][i] = queue[q][j] /\ (q = p => j # 1)
    BY <1>1, <1>2, SMTT(30)
  <1>12. \A q \in Protocols : \A i \in DOMAIN queue[q] :
            \/ q = p /\ i = 1
            \/ \E j \in DOMAIN queue'[q] : queue'[q][j] = queue[q][i]
    <2> TAKE q \in Protocols
    <2> TAKE i \in DOMAIN queue[q]
    <2>1. CASE q # p
      BY <1>1, <2>1
    <2>2. CASE q = p /\ i # 1
      <3>1. i - 1 \in DOMAIN queue'[q] /\ queue'[q][i - 1] = queue[q][i]
        BY <1>2, <2>2
      <3> QED
        BY <3>1, Zenon
    <2> QED
      BY <2>1, <2>2
  <1>4. Placed'
    <2> SUFFICES ASSUME NEW t \in Slots, t \notin free,
                        \A c \in Backends : backend'[c].slot # t,
                        \A q \in Protocols : worker'[q].slot # t
                 PROVE  \E q \in Protocols : \E i \in DOMAIN queue'[q] : queue'[q][i] = t
      BY DEF Placed
    <2>1. \A q \in Protocols : worker[q].slot # t
      BY <1>9
    <2>2. PICK q \in Protocols : \E i \in DOMAIN queue[q] : queue[q][i] = t
      BY <1>10, <2>1 DEF Placed
    <2>3. PICK i \in DOMAIN queue[q] : queue[q][i] = t
      BY <2>2
    <2>4. ~ (q = p /\ i = 1)
      BY <1>9, <2>3
    <2> QED
      BY <1>12, <2>3, <2>4
  <1>5. FreeAlone'
    <2>1. \A c \in Backends : backend'[c].slot \notin free'
      BY <1>10 DEF FreeAlone
    <2>2. \A q \in Protocols : worker'[q].slot \notin free'
      BY <1>2, <1>9 DEF FreeAlone
    <2>3. \A q \in Protocols : \A i \in DOMAIN queue'[q] : queue'[q][i] \notin free'
      BY <1>11 DEF FreeAlone
    <2> QED
      BY <2>1, <2>2, <2>3 DEF FreeAlone
  <1>6. BackendAlone'
    BY <1>2, <1>9, <1>10, <1>11 DEF BackendAlone
  <1>7. WorkerAlone'
    <2>1. \A q, w \in Protocols :
              worker'[q].slot # None /\ worker'[q].slot = worker'[w].slot => q = w
      BY <1>2, <1>9 DEF WorkerAlone
    <2>2. \A q, w \in Protocols : \A i \in DOMAIN queue'[w] : queue'[w][i] # worker'[q].slot
      <3> SUFFICES ASSUME NEW q \in Protocols, NEW w \in Protocols, NEW i \in DOMAIN queue'[w]
                   PROVE  queue'[w][i] # worker'[q].slot
        OBVIOUS
      <3>1. PICK j \in DOMAIN queue[w] : queue'[w][i] = queue[w][j] /\ (w = p => j # 1)
        BY <1>11
      <3> QED
        BY <1>2, <1>9, <3>1 DEF WorkerAlone, QueueAlone
    <2> QED
      BY <2>1, <2>2 DEF WorkerAlone
  <1>8. QueueAlone'
    BY <1>1, <1>2 DEF QueueAlone
  <1> QED
    BY <1>4, <1>5, <1>6, <1>7, <1>8

\* Every step leaves each slot in one place.
LEMMA SlottedStep ==
    ASSUME TypeOK, Exclusive, Served, Slotted, [Next]_vars PROVE Slotted'
  <1>1. ASSUME NEW r \in Runs, RunNext(r) PROVE Slotted'
    <2>1. CASE RunStart(r)
      <3>1. /\ \A b \in Backends : backend[b].at = "off"
            /\ \A p \in Protocols : worker[p].at = "off"
        BY <2>1 DEF RunStart, Steps, Served, During, Exclusive, Owning, Serving, TypeOK, ControlType
      <3>2. /\ \A b \in Backends : backend[b].slot = None
            /\ \A p \in Protocols : worker[p].slot = None
        BY <3>1 DEF TypeOK, CaptureType, DecodeType
      <3>3. Stays({}, {}) /\ UNCHANGED <<free, queue>>
        BY <2>1, <3>2 DEF RunStart, Idle, Stays
      <3> QED
        BY <3>3, SlotsStay
    <2>2. CASE ~ RunStart(r)
      <3>1. UNCHANGED <<free, queue, backend, worker>>
        BY <1>1, <2>2 DEF RunNext, RunLoadClosed, RunCheckContext, RunLoadStarted,
           RunSwapRunning, Checks, RunPublishCancel, RunOpen, RunOpenFails, RunCloseBackends,
           RunCloseQueues, closesQueues, Panics, RunCloseDecoded, closesDecoded, RunResult,
           RunUnpublish, RunStops, Elsewhere
      <3> QED
        BY <3>1, SlotsStay DEF Stays
    <2> QED
      BY <2>1, <2>2
  <1>2. CASE CloseMark \/ CloseCancel \/ \E r \in Runs : Cancel(r)
    BY <1>2, SlotsStay DEF Stays, CloseMark, CloseCancel, Cancel, Elsewhere
  <1>3. ASSUME NEW b \in Backends, BackendNext(b) PROVE Slotted'
    <2> USE DEF Moves, At, Idle, Stays, TypeOK, CaptureType
    <2>1. CASE Capture(b)
      BY <2>1, SlotsStay DEF Capture
    <2>2. CASE DropNoSlot(b)
      BY <2>2, SlotsStay DEF DropNoSlot
    <2>3. CASE TakeSlot(b)
      <3>1. PICK s \in free : free' = free \ {s} /\ backend'[b].slot = s
        BY <2>3 DEF TakeSlot
      <3>2. backend[b].slot = None /\ UNCHANGED queue /\ Stays({b}, {})
        BY <2>3 DEF TakeSlot
      <3> QED
        BY <3>1, <3>2, SlotTaken
    <2>4. CASE OfferSlot(b)
      <3>1. PICK p \in Protocols : p = backend[b].p
        BY <2>4 DEF OfferSlot
      <3>2. /\ backend[b].slot \in Slots /\ UNCHANGED free /\ Stays({b}, {})
            /\ queue' = [queue EXCEPT ![p] = Append(@, backend[b].slot)]
            /\ backend'[b].slot = None
        BY <2>4, <3>1 DEF OfferSlot
      <3> QED
        BY <3>2, SlotOffered
    <2>5. CASE OfferClosed(b)
      BY <2>5, SlotsStay DEF OfferClosed, Panics
    <2>6. CASE DropFull(b)
      <3>1. /\ backend[b].slot \in Slots /\ free' = free \cup {backend[b].slot}
            /\ backend'[b].slot = None /\ UNCHANGED queue /\ Stays({b}, {})
        BY <2>6 DEF DropFull
      <3> QED
        BY <3>1, SlotDropped
    <2>7. CASE BackendReturns(b)
      BY <2>7, SlotsStay DEF BackendReturns
    <2>8. CASE BackendFails(b)
      BY <2>8, SlotsStay DEF BackendFails
    <2>9. CASE BackendCancels(b)
      BY <2>9, SlotsStay DEF BackendCancels
    <2> QED
      BY <1>3, <2>1, <2>2, <2>3, <2>4, <2>5, <2>6, <2>7, <2>8, <2>9
         DEF BackendNext, BackendGoesOn
  <1>4. ASSUME NEW p \in Protocols, WorkerNext(p) PROVE Slotted'
    <2> USE DEF WorkerMoves, Stays, TypeOK, DecodeType
    <2>1. CASE Receive(p)
      <3>1. /\ queue[p] # <<>> /\ worker[p].slot = None /\ worker'[p].slot = Head(queue[p])
            /\ queue' = [queue EXCEPT ![p] = Tail(@)] /\ UNCHANGED free /\ Stays({}, {p})
        BY <2>1 DEF Receive
      <3> QED
        BY <3>1, SlotReceived
    <2>2. CASE WorkerExits(p)
      BY <2>2, SlotsStay DEF WorkerExits
    <2>3. CASE Reject(p) \/ Acked(p)
      <3>1. /\ worker[p].slot \in Slots /\ free' = free \cup {worker[p].slot}
            /\ worker'[p].slot = None /\ UNCHANGED queue /\ Stays({}, {p})
        BY <2>3 DEF Reject, Acked, releases
      <3> QED
        BY <3>1, SlotReleased
    <2>4. CASE SendDecoded(p)
      BY <2>4, SlotsStay DEF SendDecoded
    <2> QED
      BY <1>4, <2>1, <2>2, <2>3, <2>4 DEF WorkerNext
  <1>5. CASE FusionNext
    BY <1>5, SlotsStay DEF FusionNext, Fuse, SendAck, FusionExits, Stays
  <1>6. CASE UNCHANGED vars
    BY <1>6, SlotsStay DEF Stays
  <1> QED
    BY <1>1, <1>2, <1>3, <1>4, <1>5, <1>6 DEF Next

-----------------------------------------------------------------------------
(* The theorems.                                                           *)

\* The inductive invariant holds when New returns, and every step keeps it.
LEMMA InvHolds == Spec => []EngineInv
  <1>1. Init => EngineInv
    <2> SUFFICES ASSUME Init PROVE EngineInv
      OBVIOUS
    <2> USE NoneAssumption, SizesAssumption DEF Init, Idle
    <2>1. TypeOK
      <3>1. ControlType
        BY DEF ControlType
      <3>2. CaptureType
        BY DEF CaptureType
      <3>3. BufferType
        BY DEF BufferType
      <3>4. DecodeType
        BY DEF DecodeType
      <3>5. CounterType
        BY DEF CounterType, Counter
      <3> QED
        BY <3>1, <3>2, <3>3, <3>4, <3>5 DEF TypeOK
    <2>2. Exclusive /\ Served
      BY DEF Exclusive, CancelIsActive, Owning, Serving, Served
    <2>3. Shut
      BY DEF Shut, NoPanic
    <2>4. Slotted
      BY DEF Slotted, Placed, FreeAlone, BackendAlone, WorkerAlone, QueueAlone
    <2>5. Messages /\ Counted
      BY DEF Messages, Counted, InHand
    <2> QED
      BY <2>1, <2>2, <2>3, <2>4, <2>5 DEF EngineInv
  <1>2. EngineInv /\ [Next]_vars => EngineInv'
    BY TypeStep, ExclusiveStep, ServedStep, ShutStep, SlottedStep, MessagesStep, CountedStep
       DEF EngineInv
  <1> QED
    BY <1>1, <1>2, PTL DEF Spec

\* Every variable keeps its type, the queues stay within Config.ProtocolQueue and
\* decoded within its capacity, and a goroutine holds a slot or an envelope just
\* where its code has one.
THEOREM TypeCorrect == Spec => []TypeOK
  BY InvHolds, PTL DEF EngineInv

\* A packet slot is always in exactly one place, and a worker's message is never
\* written while fusion may read it.
THEOREM BuffersAreOwned == Spec => []BuffersOwned
  <1>1. EngineInv => BuffersOwned
    <2> SUFFICES ASSUME EngineInv PROVE BuffersOwned
      OBVIOUS
    <2> USE DEF EngineInv
    <2>1. ASSUME NEW s \in Slots PROVE Cardinality(Holders(s)) = 1
      <3> USE DEF Slotted
      <3> DEFINE B == {b \in Backends : backend[b].slot = s}
                 W == {p \in Protocols : worker[p].slot = s}
                 Q(p) == {i \in DOMAIN queue[p] : queue[p][i] = s}
      <3>1. s # None
        BY NoneAssumption
      <3>2. Holders(s) = {<<"free", 0>> : x \in {s} \cap free} \cup {<<"backend", b>> : b \in B}
                           \cup {<<"worker", p>> : p \in W}
                           \cup UNION {{<<"queue", p, i>> : i \in Q(p)} : p \in Protocols}
        BY DEF Holders
      <3>3. \E h : Holders(s) = {h}
        <4>1. CASE s \in free
          <5>1. B = {} /\ W = {} /\ \A p \in Protocols : Q(p) = {}
            BY <4>1 DEF FreeAlone
          <5>2. Holders(s) = {<<"free", 0>>}
            BY <3>2, <4>1, <5>1
          <5> QED
            BY <5>2
        <4>2. ASSUME NEW b \in Backends, backend[b].slot = s PROVE \E h : Holders(s) = {h}
          <5>1. s \notin free /\ B = {b} /\ W = {} /\ \A p \in Protocols : Q(p) = {}
            BY <3>1, <4>2 DEF FreeAlone, BackendAlone
          <5>2. Holders(s) = {<<"backend", b>>}
            BY <3>2, <5>1
          <5> QED
            BY <5>2
        <4>3. ASSUME NEW p \in Protocols, worker[p].slot = s PROVE \E h : Holders(s) = {h}
          <5>1. s \notin free /\ B = {} /\ W = {p} /\ \A q \in Protocols : Q(q) = {}
            BY <3>1, <4>3 DEF FreeAlone, BackendAlone, WorkerAlone
          <5>2. Holders(s) = {<<"worker", p>>}
            BY <3>2, <5>1
          <5> QED
            BY <5>2
        <4>4. ASSUME NEW p \in Protocols, NEW i \in DOMAIN queue[p], queue[p][i] = s
              PROVE  \E h : Holders(s) = {h}
          <5>1. s \notin free /\ B = {} /\ W = {}
            BY <3>1, <4>4 DEF FreeAlone, BackendAlone, WorkerAlone
          <5>2. Q(p) = {i} /\ \A q \in Protocols : q # p => Q(q) = {}
            BY <4>4 DEF QueueAlone
          <5> HIDE DEF B, W, Q
          <5>3. UNION {{<<"queue", q, j>> : j \in Q(q)} : q \in Protocols} = {<<"queue", p, i>>}
            BY <5>2
          <5>4. Holders(s) = {<<"queue", p, i>>}
            BY <3>2, <5>1, <5>3
          <5> QED
            BY <5>4
        <4> QED
          BY <4>1, <4>2, <4>3, <4>4 DEF Placed
      <3> QED
        BY <3>3, FS_Singleton
    <2> QED
      BY <2>1 DEF BuffersOwned, Messages
  <1> QED
    BY <1>1, InvHolds, PTL

\* When the goroutines of a Run are gone nothing it captured is left over: every
\* socket is closed, every slot free, every routed packet rejected or fused.
THEOREM ShutdownDrains == Spec => []DrainedOnReturn
  <1>1. EngineInv => DrainedOnReturn
    <2> SUFFICES ASSUME EngineInv, active \in Runs,
                        run[active] \in {"unpublish", "stop"} \/ (run[active] = "returned" /\ ~ running)
                 PROVE  /\ sockets = {} /\ free = Slots /\ decoded = <<>>
                        /\ \A p \in Protocols : queue[p] = <<>> /\ routed[p] = rejected[p] + fused[p]
      BY DEF DrainedOnReturn
    <2> USE DEF EngineInv
    <2>1. /\ \A b \in Backends : backend[b].at = "off"
          /\ \A p \in Protocols : worker[p].at = "off" /\ queue[p] = <<>>
      BY DEF Served, During
    <2>2. sockets = {}
      BY DEF Served, Exclusive, Owning
    <2>3. free = Slots
      <3>1. /\ \A b \in Backends : backend[b].slot = None
            /\ \A p \in Protocols : worker[p].slot = None
        BY <2>1 DEF TypeOK, CaptureType, DecodeType
      <3> QED
        BY <2>1, <3>1, NoneAssumption DEF Slotted, Placed, TypeOK, BufferType
    <2>4. decoded = <<>>
      BY <2>1 DEF Messages, TypeOK, DecodeType
    <2>5. ASSUME NEW p \in Protocols PROVE routed[p] = rejected[p] + fused[p]
      <3>1. InHand(p) = 0 /\ Len(queue[p]) = 0
        BY <2>1 DEF InHand
      <3>2. rejected[p] \in Nat /\ fused[p] \in Nat
        BY DEF TypeOK, CounterType, Counter
      <3> QED
        BY <3>1, <3>2 DEF Counted
    <2> QED
      BY <2>1, <2>2, <2>3, <2>4, <2>5
  <1> QED
    BY <1>1, InvHolds, PTL

\* A Run sends on a closed channel, or closes one again, only after another Run has
\* run the engine to its end.
THEOREM PanicNeedsSecondRun == Spec => []NoPanic
  BY InvHolds, PTL DEF EngineInv, Shut

\* Close reaches the Run that owns the engine, however many calls of Run fail or
\* return meanwhile.
THEOREM CancelReachesRun == Spec => []CancelIsActive
  BY InvHolds, PTL DEF EngineInv, Exclusive
=============================================================================
