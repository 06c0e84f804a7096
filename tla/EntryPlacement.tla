--------------------------- MODULE EntryPlacement ---------------------------
(***************************************************************************)
(* How an approved intent becomes at most one entry order on the exchange: *)
(* LiveExecutionService (execution/executor.py), AuthorizationStore        *)
(* (authorization.py), IntentStore (intents.py) and                        *)
(* TestnetExecutionBackend.submit_authorized / reconcile_authorized        *)
(* (backend.py), all intents being on the one configured symbol.           *)
(*                                                                         *)
(* Workers are the threads these calls run in (asyncio.to_thread): the     *)
(* approval path, its replays, and the reconciliation loops.  Every SQLite *)
(* transaction and every exchange request is one step, so any two calls    *)
(* interleave between them.  A validation, an account or a market read may *)
(* succeed or fail at any time; a receipt may expire at any check.         *)
(* Receipts are not numbered: the claim row names the worker that holds    *)
(* the claimed receipt, which only that worker ever replaces.              *)
(*                                                                         *)
(* What happens inside _reconcile_protective_stop is module                *)
(* ProtectiveStop's; here it reads the position and then keeps the owner,  *)
(* perhaps with a new protective row, releases it when there is nothing to *)
(* protect, or fails and trips the kill switch.                            *)
(***************************************************************************)
EXTENDS Naturals

CONSTANTS
    Intents,     \* approved intents (one per approval event), one symbol
    Workers,     \* threads running an execution or a reconciliation
    NoWorker,
    NoIntent,
    Qty          \* the quantity of an intent, in fills

ASSUME QtyAssumption == Qty \in Nat \ {0}
ASSUME NoWorkerAssumption == NoWorker \notin Workers
ASSUME NoIntentAssumption == NoIntent \notin Intents

VARIABLES
    status,      \* [Intents -> live_trade_intents.status]
    reason,      \* [Intents -> reason of the latest live_intent_transitions row]
    claim,       \* [Intents -> holder of the live_execution_claims row]
    owner,       \* [Intents -> live_protection_owners.status: held or released]
    row,         \* [Intents -> the entry's row of live_execution_orders]
    stop,        \* [Intents -> has it a protective row that is not CANCELED]
    killed,      \* live_kill_switch_state.is_killed
    order,       \* [Intents -> the entry order on the exchange]
    open,        \* [Intents -> the part of its fill that is still a position]
    posts,       \* history: [Intents -> entry POSTs sent]
    pc,          \* [Workers -> where the call is]
    job,         \* [Workers -> the intent it works on]
    seen,        \* [Workers -> the order it last read from the exchange]
    report       \* [Workers -> the status of the ExecutionReport it will return]

dbVars == <<status, reason, claim, owner, row, stop, killed>>
exchangeVars == <<order, open, posts>>
workerVars == <<pc, job, seen, report>>
vars == <<status, reason, claim, owner, row, stop, killed, order, open, posts,
          pc, job, seen, report>>

(* CANCELED stands for CANCELED, EXPIRED and REJECTED, which the code      *)
(* always treats alike.                                                    *)
OrderStatuses == {"NONE", "SENT", "NEW", "PARTIALLY_FILLED", "FILLED", "CANCELED"}
Orders == [st : OrderStatuses, filled : 0..Qty]
NoOrder == [st |-> "NONE", filled |-> 0]

IntentStatuses == {"PENDING_VALIDATION", "AUTHORIZED", "SUBMITTING", "UNKNOWN", "NEW",
                   "PARTIALLY_FILLED", "FILLED", "CANCELED", "ABORTED"}
NoReport == "UNKNOWN"

Steps == {"down", "idle", "gate", "authorize", "recheck", "reauthorize", "claim", "reserve",
          "configure", "refresh", "confirm", "aborting", "activate", "place", "probe", "insert",
          "query", "absent", "prove", "release", "upsert",
          "protect", "flat", "report"}

TypeOK ==
    /\ status \in [Intents -> IntentStatuses]
    /\ reason \in [Intents -> {"PRE_ENTRY_ABORTED", "OTHER"}]
    /\ claim \in [Intents -> Workers \cup {NoWorker}]
    /\ owner \in [Intents -> {"NONE", "HELD", "RELEASED"}]
    /\ row \in [Intents -> Orders]
    /\ stop \in [Intents -> BOOLEAN]
    /\ killed \in BOOLEAN
    /\ order \in [Intents -> Orders]
    /\ open \in [Intents -> 0..Qty]
    /\ posts \in [Intents -> Nat]
    /\ pc \in [Workers -> Steps]
    /\ job \in [Workers -> Intents \cup {NoIntent}]
    /\ seen \in [Workers -> Orders]
    /\ report \in [Workers -> IntentStatuses]

Init ==
    /\ status = [i \in Intents |-> "PENDING_VALIDATION"]
    /\ reason = [i \in Intents |-> "OTHER"]
    /\ claim = [i \in Intents |-> NoWorker]
    /\ owner = [i \in Intents |-> "NONE"]
    /\ row = [i \in Intents |-> NoOrder]
    /\ stop = [i \in Intents |-> FALSE]
    /\ killed = FALSE
    /\ order = [i \in Intents |-> NoOrder]
    /\ open = [i \in Intents |-> 0]
    /\ posts = [i \in Intents |-> 0]
    /\ pc = [w \in Workers |-> "idle"]
    /\ job = [w \in Workers |-> NoIntent]
    /\ seen = [w \in Workers |-> NoOrder]
    /\ report = [w \in Workers |-> NoReport]

-----------------------------------------------------------------------------

(* Mutant: only the status is looked at, as before claims were durable. *)
HasSideEffectByStatus(i) ==
    status[i] \in {"SUBMITTING", "UNKNOWN", "NEW", "PARTIALLY_FILLED", "FILLED"}

(* IntentStore.has_existing_side_effect. *)
HasSideEffect(i) ==
    /\ ~(status[i] \in {"FILLED", "CANCELED", "ABORTED"} /\ owner[i] = "RELEASED")
    /\ \/ status[i] \in {"SUBMITTING", "UNKNOWN", "NEW", "PARTIALLY_FILLED", "FILLED"}
       \/ claim[i] # NoWorker
       \/ row[i] # NoOrder

Goto(w, step) == pc' = [pc EXCEPT ![w] = step]

(* The call returns or raises; nothing of it is left. *)
Finish(w) ==
    /\ pc' = [pc EXCEPT ![w] = "idle"]
    /\ job' = [job EXCEPT ![w] = NoIntent]
    /\ seen' = [seen EXCEPT ![w] = NoOrder]
    /\ report' = [report EXCEPT ![w] = NoReport]

Returns(w, st) == report' = [report EXCEPT ![w] = st]

(* IntentStore.update_status: the last writer wins. *)
SetStatus(i, st, why) ==
    /\ status' = [status EXCEPT ![i] = st]
    /\ reason' = [reason EXCEPT ![i] = why]

(* execute_approved_intent: an intent with a side effect is only ever      *)
(* reconciled, any other goes through the gates.                           *)
BeginExecute(w, i) ==
    /\ pc[w] = "idle"
    /\ job' = [job EXCEPT ![w] = i]
    /\ Goto(w, IF HasSideEffect(i) THEN "query" ELSE "gate")
    /\ UNCHANGED <<dbVars, exchangeVars, seen, report>>

(* No market, no account snapshot, or the validation fails, perhaps only   *)
(* because the kill switch is on: ABORTED, whatever the status is by now.  *)
GateRefuses(w) ==
    /\ pc[w] = "gate"
    /\ SetStatus(job[w], "ABORTED", "OTHER")
    /\ Finish(w)
    /\ UNCHANGED <<claim, owner, row, stop, killed, exchangeVars>>

GatePasses(w) ==
    /\ pc[w] = "gate"
    /\ ~killed
    /\ Goto(w, "authorize")
    /\ UNCHANGED <<dbVars, exchangeVars, job, seen, report>>

(* AuthorizationStore.issue, called by execute_approved_intent and again   *)
(* by _fresh_placement_authority(claimed=False).  The kill switch was read *)
(* just before; a trip since then is seen by the next read.                *)
Issue(w) ==
    LET i == job[w] IN
    /\ \/ pc[w] = "authorize" /\ Goto(w, "recheck")
       \/ pc[w] = "reauthorize" /\ Goto(w, "claim")
    /\ status[i] \in {"PENDING_VALIDATION", "AUTHORIZED"}
    /\ SetStatus(i, "AUTHORIZED", "OTHER")
    /\ UNCHANGED <<claim, owner, row, stop, killed, exchangeVars, job, seen, report>>

(* A refusal before the claim raises and leaves the intent as it is: not   *)
(* eligible, receipt expired, kill switch, or a provider that failed.      *)
RefusedBeforeClaim(w) ==
    /\ pc[w] \in {"authorize", "recheck", "reauthorize", "claim"}
    /\ Finish(w)
    /\ UNCHANGED <<dbVars, exchangeVars>>

(* submit_authorized looks for side effects once more. *)
Recheck(w) ==
    /\ pc[w] = "recheck"
    /\ \/ HasSideEffect(job[w]) /\ Goto(w, "query")
       \/ ~HasSideEffect(job[w]) /\ ~killed /\ Goto(w, "reauthorize")
    /\ UNCHANGED <<dbVars, exchangeVars, job, seen, report>>

(* Mutant: the claim is inserted or replaced, unchecked. *)
ClaimReplaces(w) ==
    /\ pc[w] = "claim"
    /\ claim' = [claim EXCEPT ![job[w]] = w]
    /\ SetStatus(job[w], "SUBMITTING", "OTHER")
    /\ Goto(w, "reserve")
    /\ UNCHANGED <<owner, row, stop, killed, exchangeVars, job, seen, report>>

(* AuthorizationStore.claim: one claim per intent, ever. *)
Claim(w) ==
    LET i == job[w] IN
    /\ pc[w] = "claim"
    /\ claim[i] = NoWorker
    /\ status[i] = "AUTHORIZED"
    /\ claim' = [claim EXCEPT ![i] = w]
    /\ SetStatus(i, "SUBMITTING", "OTHER")
    /\ Goto(w, "reserve")
    /\ UNCHANGED <<owner, row, stop, killed, exchangeVars, job, seen, report>>

(* Mutant: other owners on the symbol are not looked for. *)
ReserveOwnerAlone(w) ==
    /\ pc[w] = "reserve"
    /\ Goto(w, "configure")
    /\ owner' = [owner EXCEPT ![job[w]] = "HELD"]
    /\ UNCHANGED <<status, reason, claim, row, stop, killed, exchangeVars, job, seen, report>>

(* ProtectionStore.reserve_owner: no other owner may be unreleased on the  *)
(* symbol, and a released owner is not taken back.                         *)
ReserveOwner(w) ==
    LET i == job[w] IN
    /\ pc[w] = "reserve"
    /\ IF (\E j \in Intents \ {i} : owner[j] = "HELD") \/ owner[i] = "RELEASED"
       THEN Goto(w, "aborting") /\ UNCHANGED owner
       ELSE Goto(w, "configure") /\ owner' = [owner EXCEPT ![i] = "HELD"]
    /\ UNCHANGED <<status, reason, claim, row, stop, killed, exchangeVars, job, seen, report>>

SymbolFlat == \A i \in Intents : open[i] = 0

(* Margin type, leverage, the forced account and market reads and the      *)
(* validation they feed, which wants no position on the symbol.            *)
Configure(w) ==
    /\ pc[w] = "configure"
    /\ ~killed
    /\ SymbolFlat
    /\ Goto(w, "refresh")
    /\ UNCHANGED <<dbVars, exchangeVars, job, seen, report>>

(* AuthorizationStore.refresh_claimed, the last check under the claim. *)
StillClaimed(w) ==
    LET i == job[w] IN
    claim[i] = w /\ status[i] = "SUBMITTING" /\ row[i] = NoOrder

RefreshClaimed(w) ==
    /\ pc[w] = "refresh"
    /\ StillClaimed(w)
    /\ reason' = [reason EXCEPT ![job[w]] = "OTHER"]
    /\ Goto(w, "confirm")
    /\ UNCHANGED <<status, claim, owner, row, stop, killed, exchangeVars, job, seen, report>>

(* The new receipt is loaded and validated once more, and must be the one  *)
(* the claim names.                                                        *)
ConfirmClaim(w) ==
    /\ pc[w] = "confirm"
    /\ ~killed
    /\ claim[job[w]] = w
    /\ Goto(w, "activate")
    /\ UNCHANGED <<dbVars, exchangeVars, job, seen, report>>

(* Any exception of that phase ... *)
FailsBeforeEntry(w) ==
    /\ pc[w] \in {"configure", "refresh", "confirm"}
    /\ Goto(w, "aborting")
    /\ UNCHANGED <<dbVars, exchangeVars, job, seen, report>>

(* ... is recorded as PRE_ENTRY_ABORTED before it is raised. *)
AbortPreEntry(w) ==
    /\ pc[w] = "aborting"
    /\ SetStatus(job[w], "ABORTED", "PRE_ENTRY_ABORTED")
    /\ Finish(w)
    /\ UNCHANGED <<claim, owner, row, stop, killed, exchangeVars>>

(* The last _active_receipt is outside the try: the claim, the owner and   *)
(* SUBMITTING stay.                                                        *)
ReceiptExpiresAtPlacement(w) ==
    /\ pc[w] = "activate"
    /\ Finish(w)
    /\ UNCHANGED <<dbVars, exchangeVars>>

ActiveReceipt(w) ==
    /\ pc[w] = "activate"
    /\ ~killed
    /\ Goto(w, "place")
    /\ UNCHANGED <<dbVars, exchangeVars, job, seen, report>>

-----------------------------------------------------------------------------

(* place_order.  The request reaches the exchange and is answered, or the  *)
(* answer fails and the request may arrive later, or never.                *)
PlaceOrder(w) ==
    LET i == job[w] IN
    /\ pc[w] = "place"
    /\ posts' = [posts EXCEPT ![i] = @ + 1]
    /\ \/ /\ order' = [order EXCEPT ![i] = [st |-> "NEW", filled |-> 0]]
          /\ seen' = [seen EXCEPT ![w] = [st |-> "NEW", filled |-> 0]]
          /\ open' = open
          /\ Goto(w, "insert")
       \/ /\ order' = [order EXCEPT ![i] = [st |-> "FILLED", filled |-> Qty]]
          /\ seen' = [seen EXCEPT ![w] = [st |-> "FILLED", filled |-> Qty]]
          /\ open' = [open EXCEPT ![i] = Qty]
          /\ Goto(w, "insert")
       \/ /\ order' = [order EXCEPT ![i] = [st |-> "SENT", filled |-> 0]]
          /\ seen' = seen
          /\ open' = open
          /\ Goto(w, "probe")
    /\ UNCHANGED <<dbVars, job, report>>

Exists(i) == order[i].st \notin {"NONE", "SENT"}

(* The query by client id after a failed POST. *)
ProbeFinds(w) ==
    /\ pc[w] = "probe"
    /\ Exists(job[w])
    /\ seen' = [seen EXCEPT ![w] = order[job[w]]]
    /\ Goto(w, "insert")
    /\ UNCHANGED <<dbVars, exchangeVars, job, report>>

(* -2013: reported as TRANSPORT_FAILURE_PROVEN_ABSENT. *)
ProbeAbsent(w) ==
    /\ pc[w] = "probe"
    /\ ~Exists(job[w])
    /\ Returns(w, "ABORTED")
    /\ Goto(w, "report")
    /\ UNCHANGED <<dbVars, exchangeVars, job, seen>>

(* The query fails too: raised as transport uncertainty. *)
ProbeFails(w) ==
    /\ pc[w] = "probe"
    /\ Finish(w)
    /\ UNCHANGED <<dbVars, exchangeVars>>

(* The INSERT of the order row; a reconciler that was faster makes it an   *)
(* IntegrityError that leaves the stop to reconcilers.                     *)
InsertRow(w) ==
    LET i == job[w] IN
    /\ pc[w] = "insert"
    /\ IF row[i] # NoOrder
       THEN Finish(w) /\ UNCHANGED row
       ELSE /\ row' = [row EXCEPT ![i] = seen[w]]
            /\ Returns(w, seen[w].st)
            /\ Goto(w, IF seen[w].filled > 0 THEN "protect" ELSE "report")
            /\ UNCHANGED <<job, seen>>
    /\ UNCHANGED <<status, reason, claim, owner, stop, killed, exchangeVars>>

-----------------------------------------------------------------------------

(* reconcile_unfinished_intents hands every unfinished intent to           *)
(* reconcile_intent; without a claim that raises AUTHORIZATION_REQUIRED.   *)
BeginReconcile(w, i) ==
    /\ pc[w] = "idle"
    /\ HasSideEffect(i)
    /\ claim[i] # NoWorker
    /\ job' = [job EXCEPT ![w] = i]
    /\ Goto(w, "query")
    /\ UNCHANGED <<dbVars, exchangeVars, seen, report>>

QueryFinds(w) ==
    /\ pc[w] = "query"
    /\ Exists(job[w])
    /\ seen' = [seen EXCEPT ![w] = order[job[w]]]
    /\ Goto(w, "upsert")
    /\ UNCHANGED <<dbVars, exchangeVars, job, report>>

QueryAbsent(w) ==
    /\ pc[w] = "query"
    /\ ~Exists(job[w])
    /\ Goto(w, "absent")
    /\ UNCHANGED <<dbVars, exchangeVars, job, seen, report>>

(* Any other answer trips the kill switch, as every uncertainty does; for  *)
(* a released owner the exchange is not asked.                             *)
Uncertain(w) ==
    /\ pc[w] \in {"query", "prove", "protect", "flat"}
    /\ pc[w] = "protect" => owner[job[w]] # "RELEASED"
    /\ killed' = TRUE
    /\ Finish(w)
    /\ UNCHANGED <<status, reason, claim, owner, row, stop, exchangeVars>>

(* Mutant: absence alone proves the abort. *)
AbsenceProvesAbort(i) == row[i] = NoOrder

(* Only a PRE_ENTRY_ABORTED intent that never got an order row may go on   *)
(* to release its owner.                                                   *)
PreEntryAbortProven(i) == reason[i] = "PRE_ENTRY_ABORTED" /\ row[i] = NoOrder

JudgeAbsence(w) ==
    LET i == job[w] IN
    /\ pc[w] = "absent"
    /\ IF PreEntryAbortProven(i) /\ owner[i] # "NONE"
       THEN Goto(w, "prove") /\ UNCHANGED report
       ELSE Goto(w, "report") /\ Returns(w, "UNKNOWN")
    /\ UNCHANGED <<dbVars, exchangeVars, job, seen>>

(* The position query: the symbol must be flat. *)
ProveFlat(w) ==
    /\ pc[w] = "prove"
    /\ IF SymbolFlat
       THEN Goto(w, "release") /\ UNCHANGED report
       ELSE Goto(w, "report") /\ Returns(w, "UNKNOWN")
    /\ UNCHANGED <<dbVars, exchangeVars, job, seen>>

(* release_flat leaves the owner while the entry's row may still fill. *)
ReleaseFlat(i) ==
    owner' = [owner EXCEPT ![i] = IF row[i].st \in {"NEW", "PARTIALLY_FILLED"}
                                  THEN @ ELSE "RELEASED"]

ReleaseAborted(w) ==
    /\ pc[w] = "release"
    /\ ReleaseFlat(job[w])
    /\ Returns(w, "ABORTED")
    /\ Goto(w, "report")
    /\ UNCHANGED <<status, reason, claim, row, stop, killed, exchangeVars, job, seen>>

(* The upsert writes what was read, however stale it is by now.  With a    *)
(* fill, a protective row or a terminal order the stop is reconciled.      *)
UpsertRow(w) ==
    LET i == job[w] IN
    /\ pc[w] = "upsert"
    /\ row' = [row EXCEPT ![i] = seen[w]]
    /\ Returns(w, seen[w].st)
    /\ Goto(w, IF seen[w].filled > 0 \/ stop[i] \/ seen[w].st = "CANCELED"
               THEN "protect" ELSE "report")
    /\ UNCHANGED <<status, reason, claim, owner, stop, killed, exchangeVars, job, seen>>

(* _reconcile_protective_stop, seen from outside: a released owner is left *)
(* alone; what is open of the fill that was read gets a stop (module       *)
(* ProtectiveStop); with nothing to protect the stop is taken down, ...    *)
Protect(w) ==
    LET i == job[w]
        nothing == SymbolFlat \/ seen[w].filled = 0 IN
    /\ pc[w] = "protect"
    /\ \/ /\ owner[i] = "RELEASED"
          /\ Goto(w, "report")
          /\ UNCHANGED stop
       \/ /\ owner[i] = "HELD" /\ ~nothing
          /\ Goto(w, "report")
          /\ stop' = [stop EXCEPT ![i] = TRUE]
       \/ /\ owner[i] = "HELD" /\ nothing
          /\ Goto(w, "flat")
          /\ \E canceled \in BOOLEAN : stop' = [stop EXCEPT ![i] = @ /\ ~canceled]
    /\ UNCHANGED <<status, reason, claim, owner, row, killed, exchangeVars, job, seen, report>>

(* ... and the owner is released. *)
ReleaseSettled(w) ==
    /\ pc[w] = "flat"
    /\ ReleaseFlat(job[w])
    /\ Goto(w, "report")
    /\ UNCHANGED <<status, reason, claim, row, stop, killed, exchangeVars, job, seen, report>>

(* The executor writes the report's status. *)
WriteReport(w) ==
    /\ pc[w] = "report"
    /\ SetStatus(job[w], report[w], "OTHER")
    /\ Finish(w)
    /\ UNCHANGED <<claim, owner, row, stop, killed, exchangeVars>>

-----------------------------------------------------------------------------

(* The exchange.  A request whose answer was lost arrives late, or never.  *)
RequestArrives(i) ==
    /\ order[i].st = "SENT"
    /\ order' = [order EXCEPT ![i] = [st |-> "NEW", filled |-> 0]]
    /\ UNCHANGED <<dbVars, open, posts, workerVars>>

RequestLost(i) ==
    /\ order[i].st = "SENT"
    /\ order' = [order EXCEPT ![i] = NoOrder]
    /\ UNCHANGED <<dbVars, open, posts, workerVars>>

OrderFills(i) ==
    /\ order[i].st \in {"NEW", "PARTIALLY_FILLED"}
    /\ order' = [order EXCEPT ![i] =
                   [st |-> IF @.filled + 1 = Qty THEN "FILLED" ELSE "PARTIALLY_FILLED",
                    filled |-> @.filled + 1]]
    /\ open' = [open EXCEPT ![i] = @ + 1]
    /\ UNCHANGED <<dbVars, posts, workerVars>>

OrderCanceled(i) ==
    /\ order[i].st \in {"NEW", "PARTIALLY_FILLED"}
    /\ order' = [order EXCEPT ![i].st = "CANCELED"]
    /\ UNCHANGED <<dbVars, open, posts, workerVars>>

(* The stop or a manual order closes the position. *)
PositionCloses(i) ==
    /\ open[i] > 0
    /\ open' = [open EXCEPT ![i] = 0]
    /\ UNCHANGED <<dbVars, order, posts, workerVars>>

(* The process dies with all its threads, and is restarted on its database.*)
Crash ==
    /\ \E w \in Workers : pc[w] # "down"
    /\ pc' = [w \in Workers |-> "down"]
    /\ job' = [w \in Workers |-> NoIntent]
    /\ seen' = [w \in Workers |-> NoOrder]
    /\ report' = [w \in Workers |-> NoReport]
    /\ UNCHANGED <<dbVars, exchangeVars>>

Restart ==
    /\ \A w \in Workers : pc[w] = "down"
    /\ pc' = [w \in Workers |-> "idle"]
    /\ UNCHANGED <<dbVars, exchangeVars, job, seen, report>>

Execute(w) ==
    \/ \E i \in Intents : BeginExecute(w, i)
    \/ GateRefuses(w) \/ GatePasses(w) \/ Issue(w) \/ RefusedBeforeClaim(w) \/ Recheck(w)
    \/ Claim(w) \/ ReserveOwner(w) \/ Configure(w) \/ RefreshClaimed(w) \/ ConfirmClaim(w)
    \/ FailsBeforeEntry(w) \/ AbortPreEntry(w) \/ ReceiptExpiresAtPlacement(w) \/ ActiveReceipt(w)
    \/ PlaceOrder(w) \/ ProbeFinds(w) \/ ProbeAbsent(w) \/ ProbeFails(w) \/ InsertRow(w)

Reconcile(w) ==
    \/ \E i \in Intents : BeginReconcile(w, i)
    \/ QueryFinds(w) \/ QueryAbsent(w) \/ Uncertain(w) \/ JudgeAbsence(w) \/ ProveFlat(w)
    \/ ReleaseAborted(w) \/ UpsertRow(w)

Finishing(w) == Protect(w) \/ ReleaseSettled(w) \/ WriteReport(w)

Exchange(i) ==
    RequestArrives(i) \/ RequestLost(i) \/ OrderFills(i) \/ OrderCanceled(i) \/ PositionCloses(i)

Next ==
    \/ \E w \in Workers : Execute(w) \/ Reconcile(w) \/ Finishing(w)
    \/ \E i \in Intents : Exchange(i)
    \/ Crash \/ Restart

Spec == Init /\ [][Next]_vars

(* The REST loop of live_runtime.py starts a reconciliation every 30 s for *)
(* ever (the position loop every 5 s, until its first exception).  Calls   *)
(* are awaited and requests have timeouts, so a call that has begun goes   *)
(* on; the exchange answers a repeated query now and then, and at last the *)
(* process stays up.  All of this is said of one unfinished intent:        *)
(* reconcile_unfinished_intents gives up a round at the first intent that  *)
(* raises, so it promises nothing for a later one.                         *)
Fairness ==
    /\ \A i \in Intents : SF_vars(\E w \in Workers : BeginReconcile(w, i))
    /\ \A w \in Workers :
          /\ WF_vars(pc[w] # "idle" /\ (Execute(w) \/ Reconcile(w) \/ Finishing(w)))
          /\ SF_vars(QueryFinds(w) \/ QueryAbsent(w))
          /\ SF_vars(ProveFlat(w))
    /\ \A i \in Intents : WF_vars(RequestArrives(i) \/ RequestLost(i))
    /\ <>[](\A w \in Workers : pc[w] # "down")

FairSpec == Spec /\ Fairness

-----------------------------------------------------------------------------

(* A request that may still arrive, or an order that may still fill. *)
Working(i) == order[i].st \in {"SENT", "NEW", "PARTIALLY_FILLED"}

(* An approval is turned into at most one entry order, through replays,    *)
(* concurrent reconciliations, lost answers and crashes (runbook 5.9:      *)
(* blind retry is forbidden).                                              *)
EntryPostedOnce == \A i \in Intents : posts[i] <= 1

(* No two intents ever have exposure, or an entry that may still become    *)
(* one, on the symbol at the same time (validator.py: V1 explicitly        *)
(* forbids aggregation with earlier same-symbol risk).                     *)
OneLiveEntry ==
    \A i, j \in Intents :
        (Working(i) \/ open[i] > 0) /\ (Working(j) \/ open[j] > 0) => i = j

(* release_flat never lets go of an owner whose entry may still fill, even *)
(* when the row it decides from was written by a stale reconciliation.     *)
ReleasedEntryIsOver == \A i \in Intents : owner[i] = "RELEASED" => ~Working(i)

(* Seen from outside, every step is one of SymbolExposure or none: an      *)
(* entry that is over never comes back, and an intent that was let go of   *)
(* is not posted by a thread that was held up (authorization.py: one claim *)
(* per intent; protection.py: a released owner is not taken back).         *)
EntryPhase(i) ==
    CASE posts[i] = 0 -> "unsent"
      [] posts[i] > 0 /\ Working(i) -> "working"
      [] posts[i] > 0 /\ ~Working(i) /\ open[i] > 0 -> "position"
      [] OTHER -> "over"

Exposure == INSTANCE SymbolExposure WITH
    entry <- [i \in Intents |-> EntryPhase(i)],
    letGo <- {i \in Intents : owner[i] = "RELEASED"}

ImplementsExposure == Exposure!Spec

(* While its entry may still fill an intent stays in unfinished_intent_ids,*)
(* whatever statuses late writers leave behind (intents.py: durable claims *)
(* and order identities survive stale ABORTED transitions).                *)
WorkingIsReconciled == \A i \in Intents : Working(i) => HasSideEffect(i)

(* However an answer was lost and whoever crashed, the database learns the *)
(* outcome of the entry before the intent is let go (runbook 5.9:          *)
(* reconciliation resolves the true exchange state).                       *)
OutcomeIsRecorded ==
    \A i \in Intents :
        order[i].st \in {"FILLED", "CANCELED"} ~> row[i] = order[i] \/ owner[i] = "RELEASED"

(* An intent aborted before its entry gives its owner back, so that it     *)
(* does not block the symbol                                               *)
(* (test_proven_pre_entry_abort_releases_owner_only_after_absence_and_flat *)
(* in tests/test_live_v1_execution_recovery_r3.py).                        *)
PreEntryAbortReleases ==
    \A i \in Intents :
        reason[i] = "PRE_ENTRY_ABORTED" /\ owner[i] = "HELD" ~> owner[i] = "RELEASED"

=============================================================================
