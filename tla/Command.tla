------------------------------ MODULE Command -------------------------------
(***************************************************************************)
(* The command omnidiscover (main.go) from its arguments to its exit code: *)
(* the configuration (config.go), the choice between dashboard and plain   *)
(* output, and Engine.Run as the command sees it: the backends are opened, *)
(* run until the context is canceled or one fails, are closed and waited   *)
(* for.  What Run does with frames in between is Engine.tla.               *)
(***************************************************************************)
EXTENDS Capture, Dashboard

CONSTANTS
    Scenarios,       \* [os, interfaces, faults, args, keys, store, terminal]: what it starts with
    Defaults,        \* the Default... constants of config.go
    MaxFrameRange,   \* 512..65535
    MaxAltRange      \* 1..32

\* A machine has finitely many interfaces; -interfaces is a list of names.
ASSUME ScenariosAssumption ==
    \A s \in Scenarios : /\ s.os \in {"linux", "darwin", "windows", "other"}
                         /\ IsFiniteSet(DOMAIN s.interfaces)
                         /\ s.args.interfaces \in Seq(STRING)

VARIABLES
    args,            \* the flags
    keys,            \* bound on the keys the user presses, and on discoveries
    main,            \* where run() of main.go is
    protocols,       \* Config.Protocols
    tui,             \* the terminal is the dashboard's
    events,          \* keys not yet handled
    parent,          \* the context of the command: nil, canceled or deadline
    canceled,        \* runCtx is done
    run,             \* where Engine.Run is
    errCh,           \* errors of backends
    result,          \* what Run returned
    exit             \* the exit code, -1 before
commandVars == <<args, keys, main, protocols, tui, events, parent, canceled, run, errCh, result, exit>>
vars == <<captureVars, dashboardVars, commandVars>>

-----------------------------------------------------------------------------
(* Configuration.                                                          *)

All == L2 \cup OverUDP
Bad == {"?"}

\* -protocols: a list of names; a word stands for itself, an alias for mDNS.
parseProtocols(names) ==
    CASE names \in {<<>>, <<"default">>} -> {}
      [] names = <<"all">> -> All
      [] OTHER -> LET meant == {IF n = "bonjour" THEN "MDNS" ELSE n : n \in ToSet(names)}
                  IN  IF meant \subseteq All THEN meant ELSE Bad

withDefaults(c) ==
    [protocols |-> IF c.protocols # {} THEN c.protocols ELSE IF os = "windows" THEN OverUDP ELSE All,
     limits |-> [f \in DOMAIN c.limits |-> IF c.limits[f] <= 0 THEN Defaults[f] ELSE c.limits[f]]]

valid(c) ==
    /\ c.protocols \subseteq All
    /\ os = "windows" => c.protocols \cap L2 = {}
    /\ c.limits["MaxFrameSize"] \in MaxFrameRange
    /\ c.limits["MaxAlternatives"] \in MaxAltRange

NoLimits == [f \in DOMAIN Defaults |-> 0]

-----------------------------------------------------------------------------
(* run() of main.go.                                                       *)

Init ==
    /\ \E s \in Scenarios :
          /\ os = s.os /\ interfaces = s.interfaces /\ faults = s.faults
          /\ args = s.args /\ keys = s.keys
          /\ DashboardInit(s.store, s.terminal)
    /\ descriptors = {} /\ mappings = {} /\ backends = <<>> /\ position = <<>>
    /\ ring = <<>> /\ stored = <<>> /\ emitted = <<>>
    /\ main = "start" /\ protocols = {} /\ tui = FALSE /\ events = <<>>
    /\ parent = "nil" /\ canceled = FALSE /\ run = "idle" /\ errCh = <<>> /\ result = "none" /\ exit = -1

\* Flags are parsed and the engine is made.
Start ==
    /\ main = "start"
    /\ LET parsed == parseProtocols(args.protocols)
           cfg == withDefaults([protocols |-> parsed, limits |-> NoLimits])
       IN  IF args.parse = "help" THEN main' = "done" /\ exit' = 0 /\ UNCHANGED protocols
           ELSE IF args.parse = "bad" \/ parsed = Bad THEN main' = "done" /\ exit' = 2 /\ UNCHANGED protocols
           ELSE IF ~ valid(cfg) THEN main' = "done" /\ exit' = 1 /\ UNCHANGED protocols
           ELSE /\ main' = IF args.mode = "dashboard" THEN "dashboard" ELSE "run"
                /\ protocols' = cfg.protocols /\ UNCHANGED exit
    /\ UNCHANGED <<captureVars, dashboardVars, args, keys, tui, events, parent, canceled, run, errCh, result>>

\* json or plain: Run on this goroutine.
RunPlain ==
    /\ main = "run" /\ run = "idle"
    /\ run' = "entered" /\ main' = "wait"
    /\ UNCHANGED <<captureVars, dashboardVars, args, keys, protocols, tui, events, parent, canceled, errCh, result, exit>>

\* The dashboard takes the terminal and runs the engine beside it; without a
\* terminal the command goes on with plain output.
InitDashboard ==
    /\ main = "dashboard"
    /\ IF <<"terminal">> \in faults
       THEN main' = "run" /\ UNCHANGED <<tui, run>>
       ELSE main' = "first" /\ tui' = TRUE /\ run' = "entered"
    /\ UNCHANGED <<captureVars, dashboardVars, args, keys, protocols, events, parent, canceled, errCh, result, exit>>

DashboardElse == UNCHANGED <<captureVars, args, keys, protocols, parent, errCh, result, exit>>
FirstRefresh ==
    /\ main = "first" /\ main' = "select"
    /\ Redraw
    /\ DashboardElse /\ UNCHANGED <<tui, events, run, canceled>>

\* The cases of the dashboard's select.
Tick ==
    /\ main = "select"
    /\ Redraw
    /\ DashboardElse /\ UNCHANGED <<main, tui, events, run, canceled>>
TakeKey ==
    /\ main = "select" /\ events # <<>>
    /\ events' = Tail(events)
    /\ IF Head(events) = "q" THEN main' = "quit" /\ canceled' = TRUE /\ UNCHANGED dashboardVars
       ELSE handleEvent(Head(events)) /\ UNCHANGED <<main, canceled>>
    /\ DashboardElse /\ UNCHANGED <<tui, run>>
ParentDone ==
    /\ main = "select" /\ parent # "nil"
    /\ main' = "quit" /\ canceled' = TRUE
    /\ DashboardElse /\ UNCHANGED <<dashboardVars, tui, events, run>>

normalizedRunError(err) == IF err \in {"canceled", "deadline"} THEN "nil" ELSE err

\* Run has returned: at the select, after quitting, or on this goroutine.
\* ui.Close gives the terminal back.
Leave ==
    /\ main \in {"select", "quit", "wait"} /\ run = "returned"
    /\ main' = "done" /\ tui' = FALSE
    /\ exit' = IF normalizedRunError(result) = "nil" THEN 0 ELSE 1
    /\ UNCHANGED <<captureVars, dashboardVars, args, keys, protocols, events, parent, canceled, run, errCh, result>>

-----------------------------------------------------------------------------
(* Engine.Run.                                                             *)

RunElse == UNCHANGED <<dashboardVars, args, keys, main, protocols, tui, events, parent, exit>>

\* A context that is done already, or backends that cannot be opened.
Enter(s) ==
    IF parent # "nil" \/ canceled
    THEN /\ run' = "returned" /\ result' = (IF parent # "nil" THEN parent ELSE "canceled")
         /\ UNCHANGED <<captureVars, canceled>>
    ELSE IF s.err
    THEN /\ run' = "returned" /\ result' = "open failed" /\ canceled' = TRUE
         /\ descriptors' = s.open /\ mappings' = s.mapped
         /\ UNCHANGED <<os, interfaces, faults, backends, position, ring, stored, emitted>>
    ELSE /\ run' = "running" /\ descriptors' = s.open /\ mappings' = s.mapped /\ backends' = s.out
         /\ position' = [b \in DOMAIN s.out |->
                CASE s.out[b].kind = "ring" -> "look" [] s.out[b].kind = "raw" -> "poll" [] OTHER -> "read"]
         /\ ring' = [b \in s.mapped |-> NewRing]
         /\ stored' = [b \in s.mapped |-> <<>>] /\ emitted' = [b \in s.mapped |-> <<>>]
         /\ UNCHANGED <<os, interfaces, faults, result, canceled>>
RunEnter ==
    /\ run = "entered"
    /\ \E s \in {openCaptureBackends(protocols, captureInterfaces(args.interfaces, args.loopback))} : Enter(s)
    /\ RunElse /\ UNCHANGED errCh

Backend(b) ==
    /\ run \in {"running", "closed"}
    /\ BackendStep(b, canceled)
    /\ RunElse /\ UNCHANGED <<canceled, run, errCh, result>>

Fail(b) ==
    /\ run \in {"running", "closed"}
    /\ CallFails(b)
    /\ RunElse /\ UNCHANGED <<canceled, run, errCh, result>>

\* Mutant: a backend's error does not end the others.
ReportOnly(b) ==
    /\ run \in {"running", "closed"} /\ position[b] = "failed"
    /\ errCh' = IF canceled THEN errCh ELSE Append(errCh, "backend failed")
    /\ Moves(b, "returned")
    /\ CaptureElse /\ RunElse /\ UNCHANGED <<canceled, run, result>>

\* The goroutine around b.run: an error counts unless the run has been canceled.
Report(b) ==
    /\ run \in {"running", "closed"} /\ position[b] = "failed"
    /\ errCh' = IF canceled THEN errCh ELSE Append(errCh, "backend failed")
    /\ canceled' = TRUE
    /\ Moves(b, "returned")
    /\ CaptureElse /\ RunElse /\ UNCHANGED <<run, result>>

\* The context of a run is done when that of the command is.
Propagate ==
    /\ run \in {"running", "closed"} /\ parent # "nil" /\ ~ canceled
    /\ canceled' = TRUE
    /\ RunElse /\ UNCHANGED <<captureVars, run, errCh, result>>

\* <-runCtx.Done(): every backend is closed.
CloseBackends ==
    /\ run = "running" /\ canceled
    /\ run' = "closed"
    /\ descriptors' = descriptors \ {b.fd : b \in ToSet(backends)}
    /\ RunElse /\ UNCHANGED <<canceled, errCh, result, os, interfaces, faults, mappings, backends, position,
                              ring, stored, emitted>>

\* backendWG.Wait(), and the workers after it (Engine.tla).
RunReturn ==
    /\ run = "closed" /\ \A b \in DOMAIN backends : position[b] = "returned"
    /\ run' = "returned"
    /\ result' = IF errCh # <<>> THEN Head(errCh) ELSE IF parent # "nil" THEN parent
                 ELSE IF tui THEN "canceled" ELSE "nil"
    /\ RunElse /\ UNCHANGED <<captureVars, canceled, errCh>>

-----------------------------------------------------------------------------
(* The user, the clock and the network.                                    *)

Press(key) ==
    /\ main = "select" /\ keys > 0 /\ events = <<>>
    /\ events' = <<key>> /\ keys' = keys - 1
    /\ UNCHANGED <<captureVars, dashboardVars, args, main, protocols, tui, parent, canceled, run, errCh, result, exit>>

Interrupt ==
    /\ main \notin {"start", "done"} /\ parent = "nil"
    /\ parent' \in {"canceled"} \cup (IF args.duration THEN {"deadline"} ELSE {})
    /\ UNCHANGED <<captureVars, dashboardVars, args, keys, main, protocols, tui, events, canceled, run, errCh, result, exit>>

World ==
    /\ main = "select" /\ keys > 0
    /\ Discover \/ Resize
    /\ keys' = keys - 1
    /\ UNCHANGED <<captureVars, args, main, protocols, tui, events, parent, canceled, run, errCh, result, exit>>

Network ==
    /\ \E b \in DOMAIN ring : FrameArrives(b) \/ Retire(b)
    /\ UNCHANGED <<dashboardVars, commandVars>>

Program == Start \/ RunPlain \/ InitDashboard \/ FirstRefresh \/ Leave \/ RunEnter \/ Propagate
           \/ CloseBackends \/ RunReturn
Next ==
    \/ Program \/ Tick \/ TakeKey \/ ParentDone
    \/ \E b \in DOMAIN backends : Backend(b) \/ Fail(b) \/ Report(b)
    \/ \E key \in Keys \cup {"q"} : Press(key)
    \/ Interrupt \/ World \/ Network

\* Goroutines run and select is fair among its cases; polls and reads end at
\* their deadlines.  Nothing is assumed of the user, the network and the faults.
\* MaxBackends bounds the sockets: seven for UDP on two interfaces.
MaxBackends == 7
Fairness ==
    /\ WF_vars(Program) /\ WF_vars(TakeKey) /\ WF_vars(ParentDone)
    /\ \A b \in 1..MaxBackends : WF_vars(b \in DOMAIN backends /\ (Backend(b) \/ Report(b)))
Spec == Init /\ [][Next]_vars /\ Fairness

-----------------------------------------------------------------------------
(* Properties.                                                             *)

\* When Run returns, nothing it opened is open any more, however many of the
\* sockets could be opened and whichever backend failed first; a ring is unmapped
\* too, unless opening failed (close does not unmap); and when the command ends
\* the terminal is given back.  It ends with 1 just if the configuration cannot
\* run, opening failed or a backend failed before anybody asked the run to end.
CaptureReleased ==
    /\ run = "returned" =>
          /\ descriptors = {}
          /\ result # "open failed" => mappings = {}
    /\ exit >= 0 => ~ tui
    /\ exit >= 0 /\ run = "returned" => (exit = 1 <=> errCh # <<>> \/ result = "open failed")

\* Whoever ends the run, a key, an interrupt, the deadline or a backend that
\* fails, the command ends: nobody waits for a backend that waits for traffic.
\* (A ring that is never empty keeps runRing from looking at its context.  The
\* frames that reach a ring here are finitely many.)
QuitEnds ==
    main = "quit" \/ parent # "nil" \/ canceled \/ errCh # <<>> ~> main = "done"
=============================================================================
