-------------------------- MODULE MCControlReadiness ------------------------
(* A small instance of ControlReadiness for TLC.                           *)
EXTENDS ControlReadiness, TLC

Symmetry == Permutations(Key) \cup Permutations(Assessment)
=============================================================================
