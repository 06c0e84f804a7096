-------------------------- MODULE MCEntryPlacement --------------------------
(* Model-checking instance of EntryPlacement. *)
EXTENDS EntryPlacement, TLC

CONSTANTS w1, w2, i1, i2

Symmetry == Permutations({w1, w2}) \cup Permutations({i1, i2})

=============================================================================
