-------------------------- MODULE SymbolExposure ---------------------------
(***************************************************************************)
(* What the placement of entries promises about the symbol, seen from      *)
(* outside: an approved intent sends its entry at most once, and only      *)
(* while no other intent is exposed; an entry that is over stays over; an  *)
(* intent that was let go of sends nothing any more, and none is let go    *)
(* of while its entry may still fill.                                      *)
(***************************************************************************)

CONSTANT Intents

VARIABLES
    entry,       \* [Intents -> "unsent", "working", "position" or "over"]
    letGo        \* the intents whose protection owner was released

exposureVars == <<entry, letGo>>

Exposed(i) == entry[i] \in {"working", "position"}

Init == entry = [i \in Intents |-> "unsent"] /\ letGo = {}

Becomes(i, phases) ==
    /\ \E p \in phases : entry' = [entry EXCEPT ![i] = p]
    /\ UNCHANGED letGo

(* The POST goes out.  It may be filled before it is answered. *)
Send(i) ==
    /\ entry[i] = "unsent" /\ i \notin letGo
    /\ \A j \in Intents : ~Exposed(j)
    /\ Becomes(i, {"working", "position"})

(* The order is filled, canceled or was lost on the way. *)
Settle(i) == entry[i] = "working" /\ Becomes(i, {"position", "over"})

Close(i) == entry[i] = "position" /\ Becomes(i, {"over"})

LetGo(i) ==
    /\ i \notin letGo /\ entry[i] # "working"
    /\ letGo' = letGo \cup {i}
    /\ UNCHANGED entry

Next == \E i \in Intents : Send(i) \/ Settle(i) \/ Close(i) \/ LetGo(i)

Spec == Init /\ [][Next]_exposureVars

=============================================================================
