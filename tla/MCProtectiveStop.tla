-------------------------- MODULE MCProtectiveStop --------------------------
(* Model-checking instance of ProtectiveStop. *)
EXTENDS ProtectiveStop, TLC

CONSTANTS w1, w2

Symmetry == Permutations({w1, w2})

=============================================================================
