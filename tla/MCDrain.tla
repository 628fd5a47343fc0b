------------------------------ MODULE MCDrain ------------------------------
(* Instances of Drain for TLC. *)
EXTENDS Drain, TLC

Symmetry == Permutations(Query) \cup Permutations(Probe)
=============================================================================
