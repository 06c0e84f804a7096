-------------------------- MODULE MCPositionOutbox --------------------------
(* Model-checking instance of PositionOutbox. *)
EXTENDS PositionOutbox, TLC

CONSTANTS d1, d2, c1, c2

(* Drains are interchangeable, and so are cases, for the safety checks. *)
Symmetry == Permutations({d1, d2}) \cup Permutations({c1, c2})

=============================================================================
