-------------------------- MODULE MCApprovalJournal --------------------------
(* Model-checking instance of ApprovalJournal: two calls, two callbacks. *)
EXTENDS ApprovalJournal

CONSTANTS w1, w2, e1, e2

=============================================================================
