--------------------------- MODULE MCStreamQueue ----------------------------
(* What links say, and symmetry for the safety run of StreamQueue.         *)
EXTENDS StreamQueue, TLC

CONSTANT Telling   \* the links with events of all kinds; the others only change
MCSays ==
    [k \in Keys |-> IF k \in Telling
        THEN {<<"Added", Fields>>, <<"Changed", Fields>>, <<"Changed", {}>>, <<"Removed", {}>>}
        ELSE {<<"Changed", {}>>}]

Symmetry == Permutations(Telling) \cup Permutations(Keys \ Telling)

=============================================================================
