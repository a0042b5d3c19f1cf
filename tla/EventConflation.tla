-------------------------- MODULE EventConflation ---------------------------
(***************************************************************************)
(* What Engine.Stream promises its consumer: a view of every link that only*)
(* moves forward, through states the link really had, and may skip some.   *)
(* README.md: the "bounded pending queue coalesces changes by link key and *)
(* drops a new key when full rather than blocking capture".                *)
(***************************************************************************)
EXTENDS Naturals

CONSTANT Keys

VARIABLES
    latest,   \* how many states each link has had
    lost,     \* the states whose event was dropped and counted
    shown     \* the state the consumer sees each link in, 0 for none yet
vars == <<latest, lost, shown>>

Init ==
    /\ latest = [k \in Keys |-> 0]
    /\ lost = [k \in Keys |-> {}]
    /\ shown = [k \in Keys |-> 0]

\* A link takes a new state; the consumer is not waited for.
Publish(k) ==
    /\ latest' = [latest EXCEPT ![k] = @ + 1]
    /\ lost' \in {lost, [lost EXCEPT ![k] = @ \cup {latest[k] + 1}]}
    /\ UNCHANGED shown

\* The consumer is shown a later state of a link, never a dropped one.
Show(k) ==
    /\ \E n \in (shown[k] + 1)..latest[k] :
           n \notin lost[k] /\ shown' = [shown EXCEPT ![k] = n]
    /\ UNCHANGED <<latest, lost>>

Next == \E k \in Keys : Publish(k) \/ Show(k)

Spec == Init /\ [][Next]_vars

=============================================================================
