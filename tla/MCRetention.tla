----------------------------- MODULE MCRetention -----------------------------
(* Instances of the evidence store for TLC. *)
EXTENDS Retention, TLC

CONSTANTS a1, a2, a3

Symmetry == Permutations(Artifacts)
=============================================================================
