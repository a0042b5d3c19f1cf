------------------------------ MODULE MCEngine ------------------------------
(* Symmetry for the safety runs of Engine: slots, and also protocols and    *)
(* backends, are interchangeable.                                           *)
EXTENDS Engine, TLC

Symmetry == Permutations(Slots) \cup Permutations(Protocols) \cup Permutations(Backends)

=============================================================================
