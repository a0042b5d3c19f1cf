------------------------------- MODULE Engine -------------------------------
(***************************************************************************)
(* The goroutines of an Engine and their shutdown (engine.go): callers of  *)
(* Run, a caller of Close, the capture backends, one decode worker per     *)
(* protocol and the fusion goroutine, with the channels between them.      *)
(*                                                                         *)
(* A packet is the slot that carries it.  Which protocol a frame belongs   *)
(* to, whether its payload fits and how it decodes are the environment's   *)
(* choice.  What fusion does with a message is module Fusion; its tick     *)
(* shares no state with the rest and does not appear here.  Contexts,      *)
(* sockets and the Go runtime are external: a canceled parent cancels its  *)
(* child at once, a read of a closed socket fails, a send on a closed      *)
(* channel or closing it again panics, which ends the program.             *)
(***************************************************************************)
EXTENDS Integers, Sequences, FiniteSets

CONSTANTS
    Runs,         \* calls of Run, each with a context of its own
    Protocols,    \* enabled protocols
    Backends,     \* capture backends
    Slots,        \* packet slots
    QueueSize,    \* Config.ProtocolQueue
    DecodedSize,  \* capacity of decoded, 8 in New
    MaxFrames,    \* bound: frames captured
    None          \* no slot, no run

ASSUME SlotsAssumption ==
    Cardinality(Slots) = QueueSize * Cardinality(Protocols) + Cardinality(Protocols)
ASSUME SizesAssumption ==
    QueueSize \in Nat \ {0} /\ DecodedSize \in Nat \ {0} /\ MaxFrames \in Nat
ASSUME NoneAssumption == None \notin Slots \cup Runs \cup Protocols

VARIABLES
    closed, started, running,   \* the Engine's atomic flags
    cancel,                     \* e.cancel: the run it cancels, or None
    ctxDone,                    \* runs whose own context is canceled
    runDone,                    \* runs whose runCtx is canceled
    run,                        \* where each call of Run is
    result,                     \* what it returned
    closer,                     \* where the call of Close is
    active,                     \* the run that started the goroutines
    failed,                     \* errCh holds an error
    backend,                    \* each backend: where it is, its frame's protocol and slot
    sockets,                    \* backends whose socket is open
    frames,                     \* frames captured
    free,                       \* freePackets
    queue, queuesClosed,        \* the protocol queues
    worker,                     \* each decode worker: where it is and its slot
    decoded, decodedClosed,     \* envelopes, each the protocol it is of
    fusion,                     \* where the fusion goroutine is, and the envelope it holds
    ack,                        \* protocols whose ack channel holds a token
    routed, dropped, rejected, fused,   \* counters; rejected: malformed or ignored
    panicked
control == <<closed, started, running, cancel, ctxDone, runDone, run, result, closer, active, failed>>
capture == <<backend, sockets, frames>>
channels == <<queuesClosed, decodedClosed>>
decode == <<worker, decoded, fusion, ack, rejected, fused>>
counters == <<routed, dropped>>
vars == <<control, capture, free, queue, channels, decode, counters, panicked>>

Idle == [at |-> "off", p |-> None, slot |-> None]

\* New.
Init ==
    /\ closed = FALSE /\ started = FALSE /\ running = FALSE
    /\ cancel = None /\ ctxDone = {} /\ runDone = {}
    /\ run = [r \in Runs |-> "loadClosed"] /\ result = [r \in Runs |-> "none"]
    /\ closer = "idle" /\ active = None /\ failed = FALSE
    /\ backend = [b \in Backends |-> Idle] /\ sockets = {} /\ frames = 0
    /\ free = Slots /\ queue = [p \in Protocols |-> <<>>]
    /\ queuesClosed = FALSE /\ decodedClosed = FALSE
    /\ worker = [p \in Protocols |-> [at |-> "off", slot |-> None]]
    /\ decoded = <<>> /\ fusion = [at |-> "off", p |-> None] /\ ack = {}
    /\ routed = [p \in Protocols |-> 0] /\ dropped = [p \in Protocols |-> 0]
    /\ rejected = [p \in Protocols |-> 0] /\ fused = [p \in Protocols |-> 0]
    /\ panicked = FALSE

-----------------------------------------------------------------------------
(* Run, from the checks to the goroutines.                                 *)

Elsewhere == UNCHANGED <<capture, free, queue, channels, decode, counters, panicked>>
Steps(r, from, to) ==
    /\ run[r] = from /\ run' = [run EXCEPT ![r] = to]
    /\ UNCHANGED <<closed, ctxDone, closer>>
Checks(r, at, fails, how, next) ==
    /\ Steps(r, at, IF fails THEN "returned" ELSE next)
    /\ result' = [result EXCEPT ![r] = IF fails THEN how ELSE @]
    /\ UNCHANGED <<started, cancel, runDone, active, failed>> /\ Elsewhere

\* The four checks, each an atomic load or a compare-and-swap.
RunLoadClosed(r) ==
    Checks(r, "loadClosed", closed, "ErrClosed", "ctxErr") /\ UNCHANGED running
RunCheckContext(r) ==
    Checks(r, "ctxErr", r \in ctxDone, "ctx", "loadStarted") /\ UNCHANGED running
RunLoadStarted(r) ==
    Checks(r, "loadStarted", started, "ErrAlreadyRunning", "swap") /\ UNCHANGED running

\* Mutant: the flag is set without looking at it.
RunSwapBlind(r) == Checks(r, "swap", FALSE, "", "publish") /\ running' = TRUE

RunSwapRunning(r) ==
    Checks(r, "swap", running, "ErrAlreadyRunning", "publish") /\ running' = TRUE

\* runCtx is made, and e.cancel set.
RunPublishCancel(r) ==
    /\ Steps(r, "publish", "open")
    /\ cancel' = r
    /\ runDone' = IF r \in ctxDone THEN runDone \cup {r} ELSE runDone
    /\ UNCHANGED <<started, running, result, active, failed>>
    /\ Elsewhere

\* openCaptureBackends opens every socket or none.
RunOpen(r) ==
    /\ Steps(r, "open", "start")
    /\ sockets' = Backends
    /\ UNCHANGED <<started, running, cancel, runDone, result, active, failed>>
    /\ UNCHANGED <<backend, frames, free, queue, channels, decode, counters, panicked>>
RunOpenFails(r) ==
    /\ Steps(r, "open", "unpublish")
    /\ result' = [result EXCEPT ![r] = "err"]
    /\ UNCHANGED <<started, running, cancel, runDone, active, failed>>
    /\ Elsewhere

\* e.started.Store(true), and the goroutines.
RunStart(r) ==
    /\ Steps(r, "start", "wait")
    /\ started' = TRUE /\ active' = r /\ failed' = FALSE
    /\ backend' = [b \in Backends |-> [Idle EXCEPT !.at = "read"]]
    /\ worker' = [p \in Protocols |-> [at |-> "recv", slot |-> None]]
    /\ fusion' = [at |-> "select", p |-> None]
    /\ UNCHANGED <<running, cancel, runDone, result>>
    /\ UNCHANGED <<sockets, frames, free, queue, channels, decoded, ack, rejected, fused, counters, panicked>>

-----------------------------------------------------------------------------
(* Run, shutting down.                                                     *)

Panics ==
    /\ panicked' = TRUE
    /\ UNCHANGED <<control, capture, free, queue, channels, decode, counters>>

\* <-runCtx.Done(), then b.close() for every backend.
RunCloseBackends(r) ==
    /\ r \in runDone /\ Steps(r, "wait", "backends")
    /\ sockets' = {}
    /\ UNCHANGED <<started, running, cancel, runDone, result, active, failed>>
    /\ UNCHANGED <<backend, frames, free, queue, channels, decode, counters, panicked>>

BackendsDone == \A b \in Backends : backend[b].at = "off"
WorkersDone == \A p \in Protocols : worker[p].at = "off"

closesQueues(r) ==
    /\ run[r] = "backends"
    /\ \/ queuesClosed /\ Panics
       \/ /\ ~ queuesClosed /\ queuesClosed' = TRUE /\ Steps(r, "backends", "workers")
          /\ UNCHANGED <<started, running, cancel, runDone, result, active, failed>>
          /\ UNCHANGED <<capture, free, queue, decodedClosed, decode, counters, panicked>>

\* Mutants: the queues are closed without waiting for the backends, or not at all.
RunCloseQueuesEarly(r) == closesQueues(r)
RunCloseQueuesForgets(r) ==
    /\ BackendsDone /\ Steps(r, "backends", "workers")
    /\ UNCHANGED <<started, running, cancel, runDone, result, active, failed>>
    /\ Elsewhere

\* backendWG.Wait(), then close(e.queues[p]).
RunCloseQueues(r) == BackendsDone /\ closesQueues(r)

closesDecoded(r) ==
    /\ Steps(r, "workers", "fusion")
    /\ decodedClosed' = TRUE
    /\ UNCHANGED <<started, running, cancel, runDone, result, active, failed>>
    /\ UNCHANGED <<capture, free, queue, queuesClosed, decode, counters, panicked>>

\* Mutant: the workers are not waited for.
RunCloseDecodedEarly(r) == closesDecoded(r)

\* workerWG.Wait(), then close(e.decoded).  (No run closes it twice: the queues
\* are closed first.)
RunCloseDecoded(r) == WorkersDone /\ closesDecoded(r)

\* <-fusionDone, and the result.
RunResult(r) ==
    /\ fusion.at = "off" /\ Steps(r, "fusion", "unpublish")
    /\ result' = [result EXCEPT
            ![r] = IF failed THEN "err" ELSE IF r \in ctxDone THEN "ctx" ELSE "nil"]
    /\ UNCHANGED <<started, running, cancel, runDone, active, failed>>
    /\ Elsewhere

\* The deferred functions: cancel() and e.cancel = nil, then running.
RunUnpublish(r) ==
    /\ Steps(r, "unpublish", "stop")
    /\ cancel' = None /\ runDone' = runDone \cup {r}
    /\ UNCHANGED <<started, running, result, active, failed>>
    /\ Elsewhere
RunStops(r) ==
    /\ Steps(r, "stop", "returned")
    /\ running' = FALSE
    /\ UNCHANGED <<started, cancel, runDone, result, active, failed>>
    /\ Elsewhere

RunNext(r) ==
    \/ RunLoadClosed(r) \/ RunCheckContext(r) \/ RunLoadStarted(r) \/ RunSwapRunning(r)
    \/ RunPublishCancel(r) \/ RunOpen(r) \/ RunOpenFails(r) \/ RunStart(r)
    \/ RunCloseBackends(r) \/ RunCloseQueues(r) \/ RunCloseDecoded(r) \/ RunResult(r)
    \/ RunUnpublish(r) \/ RunStops(r)

-----------------------------------------------------------------------------
(* Close and the contexts.                                                 *)

CloseMark ==
    /\ closer = "idle" /\ ~ closed
    /\ closed' = TRUE /\ closer' = "cancel"
    /\ UNCHANGED <<started, running, cancel, ctxDone, runDone, run, result, active, failed>>
    /\ Elsewhere

CloseCancel ==
    /\ closer = "cancel" /\ closer' = "returned"
    /\ runDone' = IF cancel = None THEN runDone ELSE runDone \cup {cancel}
    /\ UNCHANGED <<closed, started, running, cancel, ctxDone, run, result, active, failed>>
    /\ Elsewhere

\* The caller of Run cancels its context; runCtx, once there, follows.
Cancel(r) ==
    /\ r \notin ctxDone
    /\ ctxDone' = ctxDone \cup {r}
    /\ runDone' = IF run[r] \in {"loadClosed", "ctxErr", "loadStarted", "swap", "publish"}
                  THEN runDone ELSE runDone \cup {r}
    /\ UNCHANGED <<closed, started, running, cancel, run, result, closer, active, failed>>
    /\ Elsewhere

-----------------------------------------------------------------------------
(* The backends: run, routeCapture and enqueue.                            *)

Moves(b, from, to) == backend[b].at = from /\ backend' = [backend EXCEPT ![b] = to]
At(where, p, slot) == [at |-> where, p |-> p, slot |-> slot]

\* A frame is read; the ring of a raw socket still has some once it is closed.
\* routeCapture finds the protocol it is for; frames of no enabled protocol are
\* left where they are.
Capture(b) ==
    /\ frames < MaxFrames /\ frames' = frames + 1
    /\ \/ \E p \in Protocols : Moves(b, "read", At("take", p, None))
       \/ backend[b].at = "read" /\ UNCHANGED backend
    /\ UNCHANGED <<control, sockets, free, queue, channels, decode, counters, panicked>>

Drops(p) == dropped' = [dropped EXCEPT ![p] = @ + 1] /\ UNCHANGED routed

\* enqueue: no slot is free.  (A payload larger than a slot would be dropped
\* too, but no backend reads more than MaxFrameSize bytes of a frame.)
DropNoSlot(b) ==
    /\ free = {} /\ Moves(b, "take", At("read", None, None))
    /\ Drops(backend[b].p)
    /\ UNCHANGED <<control, sockets, frames, free, queue, channels, decode, panicked>>

\* enqueue: a slot is taken, and the payload copied into it.
TakeSlot(b) ==
    /\ \E s \in free :
           /\ Moves(b, "take", At("offer", backend[b].p, s))
           /\ free' = free \ {s}
    /\ UNCHANGED <<control, sockets, frames, queue, channels, decode, counters, panicked>>

\* enqueue: the slot is sent on the queue if that has room.
OfferSlot(b) ==
    LET p == backend[b].p IN
    /\ Moves(b, "offer", At("read", None, None))
    /\ ~ queuesClosed /\ Len(queue[p]) < QueueSize
    /\ queue' = [queue EXCEPT ![p] = Append(@, backend[b].slot)]
    /\ routed' = [routed EXCEPT ![p] = @ + 1]
    /\ UNCHANGED <<control, sockets, frames, free, channels, decode, dropped, panicked>>
OfferClosed(b) == backend[b].at = "offer" /\ queuesClosed /\ Panics

DropFull(b) ==
    /\ Moves(b, "offer", At("read", None, None))
    /\ ~ queuesClosed /\ Len(queue[backend[b].p]) = QueueSize
    /\ Drops(backend[b].p)
    /\ free' = free \cup {backend[b].slot}
    /\ UNCHANGED <<control, sockets, frames, queue, channels, decode, panicked>>

\* run returns: its context is canceled (and soon its socket is closed).
BackendReturns(b) ==
    /\ active \in runDone
    /\ Moves(b, "read", Idle)
    /\ UNCHANGED <<control, sockets, frames, free, queue, channels, decode, counters, panicked>>

\* run returns an error, and runCtx.Err() == nil; then the error is sent on
\* errCh, and the run canceled.
BackendFails(b) ==
    /\ b \in sockets /\ active \notin runDone
    /\ Moves(b, "read", At("fail", None, None))
    /\ UNCHANGED <<control, sockets, frames, free, queue, channels, decode, counters, panicked>>

BackendCancels(b) ==
    /\ Moves(b, "fail", Idle)
    /\ failed' = TRUE /\ runDone' = runDone \cup {active}
    /\ UNCHANGED <<closed, started, running, cancel, ctxDone, run, result, closer, active>>
    /\ UNCHANGED <<sockets, frames, free, queue, channels, decode, counters, panicked>>

\* What a backend does by itself; frames and failures come from outside.
BackendGoesOn(b) ==
    \/ DropNoSlot(b) \/ TakeSlot(b) \/ OfferSlot(b) \/ OfferClosed(b) \/ DropFull(b)
    \/ BackendReturns(b) \/ BackendCancels(b)
BackendNext(b) == Capture(b) \/ BackendFails(b) \/ BackendGoesOn(b)

-----------------------------------------------------------------------------
(* The decode workers.                                                     *)

WorkerMoves(p, from, to, slot) ==
    worker[p].at = from /\ worker' = [worker EXCEPT ![p] = [at |-> to, slot |-> slot]]

Receive(p) ==
    /\ queue[p] # <<>> /\ WorkerMoves(p, "recv", "decode", Head(queue[p]))
    /\ queue' = [queue EXCEPT ![p] = Tail(@)]
    /\ UNCHANGED <<control, capture, free, channels, decoded, fusion, ack, rejected, fused,
                   counters, panicked>>

\* range ends: the queue is closed and empty.
WorkerExits(p) ==
    /\ queuesClosed /\ queue[p] = <<>> /\ WorkerMoves(p, "recv", "off", None)
    /\ UNCHANGED <<control, capture, free, queue, channels, decoded, fusion, ack, rejected,
                   fused, counters, panicked>>

\* DecodeFatal or DecodeIgnored: counted, released, next.
Reject(p) ==
    /\ WorkerMoves(p, "decode", "recv", None)
    /\ rejected' = [rejected EXCEPT ![p] = @ + 1]
    /\ free' = free \cup {worker[p].slot}
    /\ UNCHANGED <<control, capture, queue, channels, decoded, fusion, ack, fused, counters,
                   panicked>>

\* e.decoded <- env, with a pointer to the worker's own message.
SendDecoded(p) ==
    /\ Len(decoded) < DecodedSize
    /\ WorkerMoves(p, "decode", "ack", worker[p].slot)
    /\ decoded' = Append(decoded, p)
    /\ UNCHANGED <<control, capture, free, queue, channels, fusion, ack, rejected, fused,
                   counters, panicked>>

releases(p) ==
    /\ WorkerMoves(p, "ack", "recv", None)
    /\ ack' = ack \ {p}
    /\ free' = free \cup {worker[p].slot}
    /\ UNCHANGED <<control, capture, queue, channels, decoded, fusion, rejected, fused,
                   counters, panicked>>

\* Mutant: the worker goes on without waiting for the ack.
AckedUnread(p) == releases(p)

\* <-ack, and the slot is released.
Acked(p) == p \in ack /\ releases(p)

WorkerNext(p) == Receive(p) \/ WorkerExits(p) \/ Reject(p) \/ SendDecoded(p) \/ Acked(p)

-----------------------------------------------------------------------------
(* The fusion goroutine.                                                   *)

\* The message is observed under stateMu and its events are delivered.
Fuse ==
    /\ fusion.at = "select" /\ decoded # <<>>
    /\ fusion' = [at |-> "ack", p |-> Head(decoded)]
    /\ decoded' = Tail(decoded)
    /\ fused' = [fused EXCEPT ![Head(decoded)] = @ + 1]
    /\ UNCHANGED <<control, capture, free, queue, channels, worker, ack, rejected, counters,
                   panicked>>

\* Mutant: the worker is not told.
SendAckForgets ==
    /\ fusion.at = "ack" /\ fusion' = [at |-> "select", p |-> None]
    /\ UNCHANGED <<control, capture, free, queue, channels, worker, decoded, ack, rejected,
                   fused, counters, panicked>>

\* env.ack <- struct{}{}, a channel of capacity 1.
SendAck ==
    /\ fusion.at = "ack" /\ fusion.p \notin ack
    /\ ack' = ack \cup {fusion.p} /\ fusion' = [at |-> "select", p |-> None]
    /\ UNCHANGED <<control, capture, free, queue, channels, worker, decoded, rejected, fused,
                   counters, panicked>>

\* decoded is closed and empty.
FusionExits ==
    /\ fusion.at = "select" /\ decodedClosed /\ decoded = <<>>
    /\ fusion' = [at |-> "off", p |-> None]
    /\ UNCHANGED <<control, capture, free, queue, channels, worker, decoded, ack, rejected,
                   fused, counters, panicked>>

FusionNext == Fuse \/ SendAck \/ FusionExits

-----------------------------------------------------------------------------

Next ==
    /\ ~ panicked
    /\ \/ \E r \in Runs : RunNext(r) \/ Cancel(r)
       \/ CloseMark \/ CloseCancel
       \/ \E b \in Backends : BackendNext(b)
       \/ \E p \in Protocols : WorkerNext(p)
       \/ FusionNext

Spec == Init /\ [][Next]_vars

\* Every goroutine goes on while it can: its blocking calls are the channel
\* operations and socket reads of the model, and a read returns once its socket
\* is closed.  Nobody has to send frames, call Run or Close or cancel a context,
\* but a call that began goes on.
Fairness ==
    /\ \A r \in Runs : WF_vars(~ panicked /\ run[r] # "loadClosed" /\ RunNext(r))
    /\ WF_vars(~ panicked /\ CloseCancel)
    /\ \A b \in Backends : WF_vars(~ panicked /\ BackendGoesOn(b))
    /\ \A p \in Protocols : WF_vars(~ panicked /\ WorkerNext(p))
    /\ WF_vars(~ panicked /\ FusionNext)
FairSpec == Spec /\ Fairness

-----------------------------------------------------------------------------
(* Properties.                                                             *)

Counter == [Protocols -> Nat]

ControlType ==
    /\ closed \in BOOLEAN /\ started \in BOOLEAN /\ running \in BOOLEAN /\ failed \in BOOLEAN
    /\ cancel \in Runs \cup {None} /\ active \in Runs \cup {None}
    /\ ctxDone \subseteq Runs /\ runDone \subseteq Runs
    /\ run \in [Runs -> {"loadClosed", "ctxErr", "loadStarted", "swap", "publish", "open",
                         "start", "wait", "backends", "workers", "fusion", "unpublish",
                         "stop", "returned"}]
    /\ result \in [Runs -> {"none", "nil", "err", "ctx", "ErrClosed", "ErrAlreadyRunning"}]
    /\ closer \in {"idle", "cancel", "returned"}
CaptureType ==
    /\ backend \in [Backends -> [at : {"off", "read", "take", "offer", "fail"},
                                 p : Protocols \cup {None}, slot : Slots \cup {None}]]
    /\ \A b \in Backends : /\ backend[b].slot # None <=> backend[b].at = "offer"
                           /\ backend[b].p # None <=> backend[b].at \in {"take", "offer"}
    /\ sockets \subseteq Backends /\ frames \in 0..MaxFrames
BufferType ==
    /\ free \subseteq Slots
    /\ queue \in [Protocols -> Seq(Slots)] /\ \A p \in Protocols : Len(queue[p]) <= QueueSize
DecodeType ==
    /\ worker \in [Protocols -> [at : {"off", "recv", "decode", "ack"},
                                 slot : Slots \cup {None}]]
    /\ \A p \in Protocols : worker[p].slot # None <=> worker[p].at \in {"decode", "ack"}
    /\ decoded \in Seq(Protocols) /\ Len(decoded) <= DecodedSize
    /\ fusion \in [at : {"off", "select", "ack"}, p : Protocols \cup {None}]
    /\ fusion.p # None <=> fusion.at = "ack"
    /\ ack \subseteq Protocols
CounterType ==
    /\ routed \in Counter /\ dropped \in Counter /\ rejected \in Counter /\ fused \in Counter

\* Every variable has its type, a channel holds no more than its capacity, and a
\* goroutine holds a slot or an envelope just where its code has one.
TypeOK ==
    /\ ControlType /\ CaptureType /\ BufferType /\ DecodeType /\ CounterType
    /\ panicked \in BOOLEAN /\ queuesClosed \in BOOLEAN /\ decodedClosed \in BOOLEAN

\* Where a slot may be.
Holders(s) ==
    {<<"free", 0>> : x \in {s} \cap free}
    \cup {<<"backend", b>> : b \in {x \in Backends : backend[x].slot = s}}
    \cup {<<"worker", p>> : p \in {x \in Protocols : worker[x].slot = s}}
    \cup UNION {{<<"queue", p, i>> : i \in {j \in DOMAIN queue[p] : queue[p][j] = s}}
                   : p \in Protocols}

\* A packet slot is in exactly one place, so its bytes are never overwritten
\* while they are decoded, none leaks, and releasePacket (whose channel has
\* room for all) never blocks.  A worker decodes the next packet into its
\* message only after fusion is done with the last one: an envelope that is
\* queued or being fused belongs to a worker that waits for its ack, and
\* decoded never holds two of a worker.
BuffersOwned ==
    /\ \A s \in Slots : Cardinality(Holders(s)) = 1
    /\ \A i \in DOMAIN decoded :
           worker[decoded[i]].at = "ack" /\ decoded[i] \notin ack
               /\ decoded[i] # fusion.p
    /\ \A i, j \in DOMAIN decoded : decoded[i] = decoded[j] => i = j
    /\ fusion.at = "ack" => worker[fusion.p].at = "ack" /\ fusion.p \notin ack
    /\ \A p \in ack : worker[p].at = "ack"

\* Shutdown drains: when the goroutines of a Run are gone, and until another Run
\* begins, every socket is closed, every slot free again and every routed packet
\* was rejected or fused.
DrainedOnReturn ==
    \A r \in Runs :
        r = active /\ (run[r] \in {"unpublish", "stop"} \/ (run[r] = "returned" /\ ~ running)) =>
            /\ sockets = {} /\ free = Slots /\ decoded = <<>>
            /\ \A p \in Protocols : queue[p] = <<>> /\ routed[p] = rejected[p] + fused[p]

\* The results of a Run that got past its checks (or had no valid context).
Ended == {"nil", "err", "ctx"}

\* A Run never sends on a closed channel, nor closes one twice, unless another
\* Run came to its end before it: the backends are gone when the queues are
\* closed, and no worker has anything left to send when decoded is.
NoPanic ==
    /\ panicked => \E r \in Runs \ {active} : run[r] = "returned" /\ result[r] \in Ended
    /\ decodedClosed => \A p \in Protocols : worker[p].at \notin {"decode", "ack"}
                                             /\ queue[p] = <<>>

\* While a Run waits for its end, Close can reach it: e.cancel is its own, even
\* when another Run has just failed or returned.
CancelIsActive ==
    \A r \in Runs : run[r] \in {"open", "start", "wait", "backends", "workers", "fusion"}
                        => cancel = r

\* A canceled Run returns: every backend, worker and the fusion goroutine ends,
\* whatever they were blocked on (unless a second Run brought the process down).
CanceledReturns == \A r \in Runs : r \in runDone ~> run[r] = "returned" \/ panicked

\* A packet on a queue is decoded even if nothing else happens.
QueuedIsDecoded == \A p \in Protocols : queue[p] # <<>> ~> queue[p] = <<>> \/ panicked

\* engine.go:117, "Run captures until ctx is canceled, a backend fails, or Close
\* is called": a Run that Close overtakes ends.
CloseEndsRun == \A r \in Runs : closed /\ run[r] = "wait" ~> run[r] = "returned"

\* engine.go:117 again: until one of these, the goroutines go on.
RunsUntilTold == panicked => active \in ctxDone \/ failed \/ closed
=============================================================================
