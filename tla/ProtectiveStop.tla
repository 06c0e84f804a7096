--------------------------- MODULE ProtectiveStop ---------------------------
(***************************************************************************)
(* The protective stop of one filled intent: ProtectionStore               *)
(* (execution/protection.py) and the part of TestnetExecutionBackend that  *)
(* works on it (backend.py: the second half of reconcile_authorized,       *)
(* _reconcile_protective_stop, _cancel_protective_stop,                    *)
(* _place_protective_stop).                                                *)
(*                                                                         *)
(* Workers are threads that reconcile the same intent: the 5 s and 30 s    *)
(* loops share a lock, but a replayed execute_intent reconciles without    *)
(* it, and so does the executor after its own POST.  Every transaction and *)
(* every request is one step.  A request may fail at any time; then the    *)
(* kill switch is tripped and the call raises.                             *)
(*                                                                         *)
(* The client id of a stop is a digest of the owner and its generation, so *)
(* a stop is named by its generation; the exchange's id of a stop is known *)
(* to the owner row (exch) or not.                                         *)
(***************************************************************************)
EXTENDS Naturals

CONSTANTS
    Workers,
    Qty,          \* the intent's quantity, in fills
    MaxGen        \* bound on the stops tried

ASSUME QtyAssumption == Qty \in Nat \ {0}
ASSUME MaxGenAssumption == MaxGen \in Nat \ {0}

VARIABLES
    owner,        \* the row of live_protection_owners
    row,          \* the entry's row of live_execution_orders
    local,        \* [Gens -> status of the protective row, "NONE" if there is none]
    killed,       \* live_kill_switch_state.is_killed
    entry,        \* the entry order on the exchange
    open,         \* the position on the exchange
    remote,       \* [Gens -> the protective order on the exchange]
    cancels,      \* history: [Gens -> cancel requests sent]
    call          \* [Workers -> the reconciliation it runs]

dbVars == <<owner, row, local, killed>>
exchangeVars == <<entry, open, remote, cancels>>
vars == <<owner, row, local, killed, entry, open, remote, cancels, call>>

Gens == 1..MaxGen
None == 0

(* An entry is done when it is FILLED, CANCELED, EXPIRED or REJECTED. *)
Entries == [filled : 0..Qty, done : BOOLEAN]
NewEntry == [filled |-> 0, done |-> FALSE]
Ended(e) == e.done /\ e.filled < Qty

OwnerStatuses ==
    {"RESERVED", "PENDING_CONFIRMATION", "ACTIVE", "CANCEL_PENDING", "TERMINAL_CONFIRMED", "RELEASED"}
Owners == [st : OwnerStatuses, gen : 0..MaxGen, client : 0..MaxGen, exch : 0..MaxGen, qty : 0..Qty]
Reserved == [st |-> "RESERVED", gen |-> 0, client |-> None, exch |-> None, qty |-> 0]

(* ENDED is CANCELED or EXPIRED, FIRED is every status the code has no use *)
(* for; the exchange may at last forget both.                              *)
StopStatuses == {"NONE", "SENT", "NEW", "ENDED", "FIRED"}

(* What _query_exact_protection says of a stop; in a protective row        *)
(* EXPIRED and NOT_FOUND are alike, as only CANCELED is asked for.         *)
Answers == {"NEW", "CANCELED", "EXPIRED", "NOT_FOUND"}
Rows == {"NONE", "NEW", "CANCELED", "OTHER"}
RowStatus(answer) == IF answer = "CANCELED" THEN answer ELSE "OTHER"

Steps == {"down", "idle", "upsert", "decide", "owner", "position", "clear", "reread", "exact", "finish",
          "replace", "renew", "list", "keep", "begin cancel", "cancel", "check cancel",
          "end cancel", "vacate", "release", "size", "next", "mint", "post", "pending",
          "verify", "resize", "record"}

(* seen: the entry as it was read; target: target_qty; mine: the owner as  *)
(* it was read; said: what the exchange answered of its stop.              *)
Calls == [pc : Steps, seen : Entries, target : 0..Qty, mine : Owners,
          said : Rows]
Idle == [pc |-> "idle", seen |-> NewEntry, target |-> 0, mine |-> Reserved, said |-> "NONE"]

TypeOK ==
    /\ owner \in Owners
    /\ row \in Entries
    /\ local \in [Gens -> Rows]
    /\ killed \in BOOLEAN
    /\ entry \in Entries
    /\ open \in 0..Qty
    /\ remote \in [Gens -> [st : StopStatuses, qty : 0..Qty]]
    /\ cancels \in [Gens -> Nat]
    /\ call \in [Workers -> Calls]

(* The owner is reserved, the entry accepted and recorded. *)
Init ==
    /\ owner = Reserved
    /\ row = NewEntry
    /\ local = [g \in Gens |-> "NONE"]
    /\ killed = FALSE
    /\ entry = NewEntry
    /\ open = 0
    /\ remote = [g \in Gens |-> [st |-> "NONE", qty |-> 0]]
    /\ cancels = [g \in Gens |-> 0]
    /\ call = [w \in Workers |-> Idle]

-----------------------------------------------------------------------------

At(w, step) == call[w].pc = step

(* The call goes on, keeping of its locals only what it will read again. *)
Kept(c, step) ==
    [c EXCEPT !.pc = step,
              !.seen = IF step \in {"upsert", "decide", "owner", "position"} THEN @ ELSE NewEntry,
              !.mine = IF step \in {"release", "size", "next"} THEN Reserved ELSE @,
              !.said = IF step \in {"list", "finish", "end cancel"} THEN @ ELSE "NONE",
              !.target = IF step = "release" THEN 0 ELSE @]

Goto(w, step) == call' = [call EXCEPT ![w] = Kept(@, step)]
GotoWith(w, step, c) == call' = [call EXCEPT ![w] = Kept(c, step)]
Return(w) == call' = [call EXCEPT ![w] = Idle]

(* Every exception trips the kill switch before it is raised. *)
Raise(w) == killed' = TRUE /\ Return(w)

Least(a, b) == IF a < b THEN a ELSE b

(* A conditional UPDATE, and the step after it; no row matched raises      *)
(* PROTECTION_OWNER_CHANGED.                                               *)
UpdateOwner(w, matches, new, step) ==
    IF matches
    THEN owner' = new /\ Goto(w, step) /\ UNCHANGED killed
    ELSE Raise(w) /\ UNCHANGED owner

(* A request that fails, at every step that sends one.                     *)
RequestFails(w) ==
    /\ call[w].pc \in {"position", "exact", "list", "check cancel", "size", "verify", "resize"}
    /\ Raise(w)
    /\ UNCHANGED <<owner, row, local, exchangeVars>>

(* The process dies, which trips nothing, and is restarted on its database.*)
Crash ==
    /\ \E w \in Workers : ~At(w, "down")
    /\ call' = [w \in Workers |-> [Idle EXCEPT !.pc = "down"]]
    /\ UNCHANGED <<dbVars, exchangeVars>>

Restart ==
    /\ \A w \in Workers : At(w, "down")
    /\ call' = [w \in Workers |-> Idle]
    /\ UNCHANGED <<dbVars, exchangeVars>>

-----------------------------------------------------------------------------

(* reconcile_authorized: the entry is read ... *)
ReadEntry(w) ==
    /\ At(w, "idle")
    /\ GotoWith(w, "upsert", [call[w] EXCEPT !.seen = entry])
    /\ UNCHANGED <<dbVars, exchangeVars>>

(* ... and written, however old the read is by now. *)
UpsertEntry(w) ==
    /\ At(w, "upsert")
    /\ row' = call[w].seen
    /\ Goto(w, "decide")
    /\ UNCHANGED <<owner, local, killed, exchangeVars>>

HasStop == \E g \in Gens : local[g] \notin {"NONE", "CANCELED"}

Decide(w) ==
    /\ At(w, "decide")
    /\ IF call[w].seen.filled > 0 \/ HasStop \/ Ended(call[w].seen)
       THEN Goto(w, "owner")
       ELSE Return(w)
    /\ UNCHANGED <<dbVars, exchangeVars>>

(* A released owner claims nothing any more. *)
GetOwner(w) ==
    /\ At(w, "owner")
    /\ IF owner.st = "RELEASED"
       THEN Return(w)
       ELSE GotoWith(w, "position", [call[w] EXCEPT !.mine = owner])
    /\ UNCHANGED <<dbVars, exchangeVars>>

(* A stop whose id on the exchange is not known stays uncertain for ever;  *)
(* an owner without a stop goes straight to the listing.                   *)
StepFor(o) == CASE o.client = None /\ o.st = "RESERVED" -> "list"
                [] o.client # None /\ o.exch # None -> "exact"
                [] OTHER -> "raise"

(* target_qty = min(open position, filled quantity, intent quantity). *)
TargetQty(w) == Least(open, call[w].seen.filled)

QueryPosition(w) ==
    LET o == call[w].mine
        t == TargetQty(w)
        step == IF o.st # "TERMINAL_CONFIRMED" THEN StepFor(o)
                ELSE IF t = 0 THEN "release" ELSE "clear" IN
    /\ At(w, "position")
    /\ IF step = "raise"
       THEN Raise(w)
       ELSE GotoWith(w, step, [call[w] EXCEPT !.target = t]) /\ UNCHANGED killed
    /\ UNCHANGED <<owner, row, local, exchangeVars>>

(* ProtectionStore.clear_stop: only what is confirmed to be over makes     *)
(* room for another stop.                                                  *)
ClearStop(w, step) ==
    LET o == call[w].mine IN
    /\ UpdateOwner(w, /\ owner.st = "TERMINAL_CONFIRMED"
                      /\ owner.client = o.client /\ owner.exch = o.exch,
                   [owner EXCEPT !.st = "RESERVED", !.client = None, !.exch = None, !.qty = 0],
                   step)
    /\ UNCHANGED <<row, local, exchangeVars>>

(* An earlier reconciliation ended with TERMINAL_CONFIRMED. *)
ClearConfirmed(w) == At(w, "clear") /\ ClearStop(w, "reread")

RereadOwner(w) ==
    LET step == IF owner.st \in {"TERMINAL_CONFIRMED", "RELEASED"} THEN "raise" ELSE StepFor(owner) IN
    /\ At(w, "reread")
    /\ IF step = "raise"
       THEN Raise(w)
       ELSE GotoWith(w, step, [call[w] EXCEPT !.mine = owner]) /\ UNCHANGED killed
    /\ UNCHANGED <<owner, row, local, exchangeVars>>

(* _query_exact_protection.  Absence is an answer only if nothing is left  *)
(* to protect.  A stop that is neither NEW nor over is a contract mismatch *)
(* (RequestFails).                                                         *)
MayAnswer(g) == CASE remote[g].st = "NEW" -> {"NEW"}
                  [] remote[g].st = "ENDED" -> {"CANCELED", "EXPIRED", "NOT_FOUND"}
                  [] OTHER -> {"NOT_FOUND"}

QueryExact(w) ==
    LET o == call[w].mine IN
    /\ At(w, "exact")
    /\ \E a \in MayAnswer(o.exch) :
          CASE a = "NEW" /\ o.st # "CANCEL_PENDING" ->
                 GotoWith(w, "list", [call[w] EXCEPT !.said = "NEW"]) /\ UNCHANGED killed
            [] a \in {"CANCELED", "EXPIRED"} \/ (a = "NOT_FOUND" /\ call[w].target = 0) ->
                 GotoWith(w, "finish", [call[w] EXCEPT !.said = RowStatus(a)]) /\ UNCHANGED killed
            [] OTHER -> Raise(w)
    /\ UNCHANGED <<owner, row, local, exchangeVars>>

(* ProtectionStore.confirm_terminal, in one transaction with the           *)
(* protective row.                                                         *)
ConfirmTerminal(w, step) ==
    LET o == call[w].mine
        matches == /\ owner.st \in {"ACTIVE", "PENDING_CONFIRMATION", "CANCEL_PENDING"}
                   /\ owner.client = o.client /\ owner.exch = o.exch IN
    /\ local' = IF matches /\ local[o.client] # "NONE"
                THEN [local EXCEPT ![o.client] = call[w].said] ELSE local
    /\ IF step = "raise"
       THEN /\ owner' = IF matches THEN [owner EXCEPT !.st = "TERMINAL_CONFIRMED"] ELSE owner
            /\ Raise(w)
       ELSE UpdateOwner(w, matches, [owner EXCEPT !.st = "TERMINAL_CONFIRMED"], step)
    /\ UNCHANGED <<row, exchangeVars>>

(* The stop turned out to be over: release, replace after a cancel, or     *)
(* raise PROTECTION_ORDER_MISSING.                                         *)
StopIsOver(w) ==
    /\ At(w, "finish")
    /\ ConfirmTerminal(w, IF call[w].target = 0 THEN "release"
                          ELSE IF call[w].mine.st = "CANCEL_PENDING" THEN "replace" ELSE "raise")

ClearCanceled(w) == At(w, "replace") /\ ClearStop(w, "renew")

RenewOwner(w) ==
    /\ At(w, "renew")
    /\ GotoWith(w, "list", [call[w] EXCEPT !.mine = owner])
    /\ UNCHANGED <<dbVars, exchangeVars>>

(* A stop was confirmed by its exact query. *)
Confirmed(w) == call[w].mine.client # None /\ call[w].said = "NEW"

(* Mutant: a stop of the wrong size is kept. *)
ListStopsAnySize(w) ==
    /\ At(w, "list")
    /\ Goto(w, IF ~Confirmed(w) THEN IF call[w].target = 0 THEN "release" ELSE "size"
               ELSE IF call[w].target > 0 THEN "keep" ELSE "begin cancel")
    /\ UNCHANGED <<dbVars, exchangeVars>>

(* open_protective_orders: while there is something to protect every stop  *)
(* on the symbol must be the owner's.                                      *)
ListStops(w) ==
    LET o == call[w].mine
        t == call[w].target
        foreign == \E g \in Gens : remote[g].st = "NEW" /\ g # o.client IN
    /\ At(w, "list")
    /\ IF t > 0 /\ foreign
       THEN Raise(w)
       ELSE /\ Goto(w, IF ~Confirmed(w) THEN IF t = 0 THEN "release" ELSE "size"
                       ELSE IF t > 0 /\ o.qty = t THEN "keep" ELSE "begin cancel")
            /\ UNCHANGED killed
    /\ UNCHANGED <<owner, row, local, exchangeVars>>

(* ProtectionStore.record_stop, in one transaction with the protective row.*)
RecordStop(w, g, q) ==
    LET matches == /\ owner.st \in {"ACTIVE", "PENDING_CONFIRMATION"}
                   /\ owner.client = g /\ owner.exch \in {None, g} IN
    /\ IF matches
       THEN /\ owner' = [owner EXCEPT !.exch = g, !.qty = q, !.st = "ACTIVE"]
            /\ local' = [local EXCEPT ![g] = "NEW"]
            /\ Return(w) /\ UNCHANGED killed
       ELSE Raise(w) /\ UNCHANGED <<owner, local>>
    /\ UNCHANGED <<row, exchangeVars>>

KeepStop(w) == At(w, "keep") /\ RecordStop(w, call[w].mine.client, call[w].target)

-----------------------------------------------------------------------------

(* Mutant: a cancellation that has begun may begin again. *)
BeginCancellationAgain(w) ==
    LET o == call[w].mine IN
    /\ At(w, "begin cancel")
    /\ UpdateOwner(w, owner.client = o.client /\ owner.exch \in {None, o.exch},
                   [owner EXCEPT !.st = "CANCEL_PENDING", !.exch = o.exch], "cancel")
    /\ UNCHANGED <<row, local, exchangeVars>>

(* _cancel_protective_stop.  CANCEL_PENDING is durable before the request  *)
(* can take the stop away.                                                 *)
BeginCancellation(w) ==
    LET o == call[w].mine IN
    /\ At(w, "begin cancel")
    /\ UpdateOwner(w, /\ owner.st \in {"ACTIVE", "PENDING_CONFIRMATION"}
                      /\ owner.client = o.client /\ owner.exch \in {None, o.exch},
                   [owner EXCEPT !.st = "CANCEL_PENDING", !.exch = o.exch], "cancel")
    /\ UNCHANGED <<row, local, exchangeVars>>

(* The cancel takes effect, now or later, or the request fails. *)
SendCancel(w) ==
    LET g == call[w].mine.exch IN
    /\ At(w, "cancel")
    /\ cancels' = [cancels EXCEPT ![g] = @ + 1]
    /\ \/ /\ remote[g].st = "NEW"
          /\ remote' = [remote EXCEPT ![g].st = "ENDED"]
          /\ Goto(w, "check cancel") /\ UNCHANGED killed
       \/ /\ remote[g].st = "NEW"
          /\ Goto(w, "check cancel") /\ UNCHANGED <<remote, killed>>
       \/ Raise(w) /\ UNCHANGED remote
    /\ UNCHANGED <<owner, row, local, entry, open>>

CheckCancel(w) ==
    /\ At(w, "check cancel")
    /\ \E a \in MayAnswer(call[w].mine.exch) :
          IF a = "NEW"
          THEN Raise(w)
          ELSE GotoWith(w, "end cancel", [call[w] EXCEPT !.said = RowStatus(a)]) /\ UNCHANGED killed
    /\ UNCHANGED <<owner, row, local, exchangeVars>>

EndCancellation(w) ==
    /\ At(w, "end cancel")
    /\ ConfirmTerminal(w, IF call[w].target = 0 THEN "release" ELSE "vacate")

VacateStop(w) == At(w, "vacate") /\ ClearStop(w, "size")

(* Mutant: whatever the owner became since it was read. *)
ReleaseFlatBlindly(w) ==
    /\ At(w, "release")
    /\ owner' = IF row.done
                THEN [owner EXCEPT !.st = "RELEASED", !.client = None, !.exch = None, !.qty = 0]
                ELSE owner
    /\ Return(w)
    /\ UNCHANGED <<row, local, killed, exchangeVars>>

(* Mutant: an owner that still names a stop is not released. *)
ReleaseFlatReserved(w) ==
    /\ At(w, "release")
    /\ IF row.done /\ owner.client = None
       THEN owner' = [owner EXCEPT !.st = "RELEASED"] /\ Return(w) /\ UNCHANGED killed
       ELSE Raise(w) /\ UNCHANGED owner
    /\ UNCHANGED <<row, local, exchangeVars>>

(* ProtectionStore.release_flat: not while the entry's row may still fill, *)
(* never over a stop that is not confirmed to be over.                     *)
ReleaseFlat(w) ==
    /\ At(w, "release")
    /\ IF ~row.done
       THEN Return(w) /\ UNCHANGED <<owner, killed>>
       ELSE IF owner.st = "TERMINAL_CONFIRMED" \/ (owner.client = None /\ owner.st \in {"RESERVED", "RELEASED"})
       THEN /\ owner' = [owner EXCEPT !.st = "RELEASED", !.client = None, !.exch = None, !.qty = 0]
            /\ Return(w) /\ UNCHANGED killed
       ELSE Raise(w) /\ UNCHANGED owner
    /\ UNCHANGED <<row, local, exchangeVars>>

-----------------------------------------------------------------------------

(* _place_protective_stop: the position is read again, ... *)
SizeStop(w) ==
    LET t == Least(call[w].target, open) IN
    /\ At(w, "size")
    /\ IF t = 0
       THEN Raise(w)
       ELSE GotoWith(w, "next", [call[w] EXCEPT !.target = t]) /\ UNCHANGED killed
    /\ UNCHANGED <<owner, row, local, exchangeVars>>

(* ... next_client_id reads the owner (past the bound MaxGen, the worker   *)
(* gives up as it does when the request before this step fails) ...        *)
NextClientId(w) ==
    /\ At(w, "next")
    /\ IF /\ owner.st \in {"RESERVED", "PENDING_CONFIRMATION", "ACTIVE"} /\ owner.client = None
          /\ owner.gen < MaxGen
       THEN GotoWith(w, "mint", [call[w] EXCEPT !.mine = owner]) /\ UNCHANGED killed
       ELSE Raise(w)
    /\ UNCHANGED <<owner, row, local, exchangeVars>>

(* ... and takes the next generation if nobody else did. *)
MintClientId(w) ==
    LET o == call[w].mine
        g == o.gen + 1 IN
    /\ At(w, "mint")
    /\ IF owner.st = "RESERVED" /\ owner.gen = o.gen /\ owner.client = None
       THEN /\ owner' = [st |-> "PENDING_CONFIRMATION", gen |-> g, client |-> g, exch |-> None,
                         qty |-> call[w].target]
            /\ GotoWith(w, "post", [call[w] EXCEPT !.mine = owner']) /\ UNCHANGED killed
       ELSE Raise(w) /\ UNCHANGED owner
    /\ UNCHANGED <<row, local, exchangeVars>>

(* place_protective_order: answered, or failed and on its way. *)
PostStop(w) ==
    LET g == call[w].mine.client IN
    /\ At(w, "post")
    /\ \E st \in {"NEW", "SENT"} :
          /\ remote' = [remote EXCEPT ![g] = [st |-> st, qty |-> call[w].target]]
          /\ IF st = "NEW" THEN Goto(w, "pending") /\ UNCHANGED killed ELSE Raise(w)
    /\ UNCHANGED <<owner, row, local, entry, open, cancels>>

PendingExchangeId(w) ==
    LET g == call[w].mine.client IN
    /\ At(w, "pending")
    /\ UpdateOwner(w, owner.st = "PENDING_CONFIRMATION" /\ owner.client = g /\ owner.exch \in {None, g},
                   [owner EXCEPT !.exch = g], "verify")
    /\ UNCHANGED <<row, local, exchangeVars>>

(* Only the query establishes that the stop is installed. *)
VerifyStop(w) ==
    /\ At(w, "verify")
    /\ IF remote[call[w].mine.client].st = "NEW"
       THEN Goto(w, "resize") /\ UNCHANGED killed
       ELSE Raise(w)
    /\ UNCHANGED <<owner, row, local, exchangeVars>>

StillFits(w) ==
    /\ At(w, "resize")
    /\ IF call[w].target > open THEN Raise(w) ELSE Goto(w, "record") /\ UNCHANGED killed
    /\ UNCHANGED <<owner, row, local, exchangeVars>>

RecordNewStop(w) == At(w, "record") /\ RecordStop(w, call[w].mine.client, call[w].target)

-----------------------------------------------------------------------------

(* The exchange. *)
EntryFills ==
    /\ ~entry.done
    /\ entry' = [filled |-> entry.filled + 1, done |-> entry.filled + 1 = Qty]
    /\ open' = open + 1
    /\ UNCHANGED <<dbVars, remote, cancels, call>>

EntryEnds ==
    /\ ~entry.done
    /\ entry' = [entry EXCEPT !.done = TRUE]
    /\ UNCHANGED <<dbVars, open, remote, cancels, call>>

PositionCloses ==
    /\ open > 0
    /\ open' = 0
    /\ UNCHANGED <<dbVars, entry, remote, cancels, call>>

StopArrives(g) ==
    /\ remote[g].st = "SENT"
    /\ \E st \in {"NEW", "NONE"} : remote' = [remote EXCEPT ![g].st = st]
    /\ UNCHANGED <<dbVars, entry, open, cancels, call>>

(* reduceOnly: a stop closes at most what is open. *)
StopFires(g) ==
    /\ remote[g].st = "NEW"
    /\ open > 0
    /\ remote' = [remote EXCEPT ![g].st = "FIRED"]
    /\ open' = open - Least(open, remote[g].qty)
    /\ UNCHANGED <<dbVars, entry, cancels, call>>

(* By the operator, by the exchange, or by a cancel that was on its way. *)
StopEnds(g) ==
    /\ remote[g].st = "NEW"
    /\ remote' = [remote EXCEPT ![g].st = "ENDED"]
    /\ UNCHANGED <<dbVars, entry, open, cancels, call>>

Reconcile(w) ==
    \/ ReadEntry(w) \/ UpsertEntry(w) \/ Decide(w) \/ GetOwner(w) \/ QueryPosition(w)
    \/ ClearConfirmed(w) \/ RereadOwner(w) \/ QueryExact(w) \/ StopIsOver(w) \/ ClearCanceled(w)
    \/ RenewOwner(w) \/ ListStops(w) \/ KeepStop(w) \/ ReleaseFlat(w)

Cancel(w) ==
    BeginCancellation(w) \/ SendCancel(w) \/ CheckCancel(w) \/ EndCancellation(w) \/ VacateStop(w)

Place(w) ==
    \/ SizeStop(w) \/ NextClientId(w) \/ MintClientId(w) \/ PostStop(w) \/ PendingExchangeId(w)
    \/ VerifyStop(w) \/ StillFits(w) \/ RecordNewStop(w)

Exchange ==
    \/ EntryFills \/ EntryEnds \/ PositionCloses
    \/ \E g \in Gens : StopArrives(g) \/ StopFires(g) \/ StopEnds(g)

Next ==
    \/ \E w \in Workers : Reconcile(w) \/ Cancel(w) \/ Place(w) \/ RequestFails(w)
    \/ Exchange
    \/ Crash \/ Restart

Spec == Init /\ [][Next]_vars

(* The loops of live_runtime.py reconcile the intent again and again, a    *)
(* call that has begun goes on (requests have timeouts), the exchange      *)
(* answers a repeated query now and then, and at last the process stays    *)
(* up.  Nothing is assumed of a POST or a cancel: each is sent only once.  *)
Fairness ==
    /\ \A w \in Workers :
          /\ WF_vars(Reconcile(w) \/ Cancel(w) \/ Place(w) \/ RequestFails(w))
          /\ SF_vars(QueryPosition(w))
          /\ SF_vars(QueryExact(w))
          /\ SF_vars(ListStops(w))
          /\ SF_vars(SizeStop(w))
    /\ \A g \in Gens : WF_vars(StopArrives(g))
    /\ <>[](\A w \in Workers : ~At(w, "down"))

FairSpec == Spec /\ Fairness

-----------------------------------------------------------------------------

Live(g) == remote[g].st \in {"SENT", "NEW"}

(* However reconciliations, lost answers and crashes interleave, at most   *)
(* one protective order of the intent is on the exchange or on its way,    *)
(* and the owner row names it: a restarted process never loses it, and an  *)
(* owner is never released over it.                                        *)
LiveStopIsOwned == \A g \in Gens : Live(g) => owner.client = g

(* ACTIVE means installed: the exchange accepted exactly this stop, with   *)
(* this quantity (protection.py: only confirmed installation is ACTIVE).   *)
ActiveWasInstalled ==
    owner.st = "ACTIVE" =>
        /\ owner.exch = owner.client
        /\ remote[owner.client].st \notin {"NONE", "SENT"}
        /\ remote[owner.client].qty = owner.qty

(* A cancel is never repeated blindly, not even after a restart.           *)
CanceledOnce == \A g \in Gens : cancels[g] <= 1

(* An owner is released only after the position is flat                    *)
(* (test_proven_pre_entry_abort_releases_owner_only_after_absence_and_flat,*)
(* test_settled_owner_never_claims_a_later_same_symbol_position).          *)
ReleasedIsFlat == owner.st = "RELEASED" => open = 0

(* What the code leaves to the operator: the stop's id was lost, a cancel  *)
(* may still be in flight, or the stop is in a state it has no use for.    *)
StopUncertain ==
    /\ owner.client # None
    /\ \/ owner.exch = None
       \/ owner.st = "CANCEL_PENDING" /\ remote[owner.client].st = "NEW"
       \/ remote[owner.client].st = "FIRED"

(* Once the entry is over and its position closed, the owner is released   *)
(* and the symbol is free again, unless the stop is uncertain.             *)
SettlesWhenFlat ==
    entry.done /\ open = 0 ~> owner.st = "RELEASED" \/ StopUncertain

=============================================================================
