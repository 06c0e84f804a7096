---------------------------- MODULE ApprovalCase ----------------------------
(***************************************************************************)
(* What the approval journal promises the operator about one case, seen    *)
(* from outside: proposals are offered one at a time, each newer than the  *)
(* ones before; an offer is withdrawn or decided, only the offered         *)
(* proposal can be decided, and the outcome is final.                      *)
(***************************************************************************)
EXTENDS Naturals

VARIABLES
    offer,       \* the proposal the operator may decide now, or 0
    newest,      \* the newest proposal ever offered
    outcome      \* "OPEN", or how the case ended
    
vars == <<offer, newest, outcome>>

Init == offer = 0 /\ newest = 0 /\ outcome = "OPEN"

Offer ==
    /\ outcome = "OPEN" /\ offer = 0
    /\ offer' > newest
    /\ newest' = offer'
    /\ UNCHANGED outcome

(* The operator asks for a review or takes the case over by hand. *)
Withdraw ==
    /\ offer # 0
    /\ offer' = 0
    /\ UNCHANGED <<newest, outcome>>

Decide ==
    /\ outcome = "OPEN" /\ offer # 0
    /\ outcome' \in {"APPROVED", "REJECTED"}
    /\ offer' = 0
    /\ UNCHANGED newest

Expire ==
    /\ outcome = "OPEN"
    /\ outcome' = "EXPIRED"
    /\ offer' = 0
    /\ UNCHANGED newest

Next == Offer \/ Withdraw \/ Decide \/ Expire

Spec == Init /\ [][Next]_vars

=============================================================================
