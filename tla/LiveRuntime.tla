---------------------------- MODULE LiveRuntime ----------------------------
(***************************************************************************)
(* LiveV1Runtime (live_runtime.py): start, the REST loop, the position     *)
(* loop, execute_intent, stop and the death of the process, with the latch *)
(* of the kill switch and the authority of the account watch it owns       *)
(* (AccountAuthority, which AccountWatch implements).  The tasks share one *)
(* event loop: a step runs from one await to the next.  A round of         *)
(* reconcile_unfinished_intents holds _reconcile_lock and goes through the *)
(* unfinished intents in the order they were made; its reconciliations are *)
(* those of EntryPlacement and ProtectiveStop, here they resolve an intent *)
(* or leave it open, or raise.                                             *)
(***************************************************************************)
EXTENDS Naturals, AccountAuthority

CONSTANTS Intents       \* intent ids, ordered by created_at_ms

ASSUME IntentsAssumption == Intents \subseteq Nat

VARIABLES
    main,        \* where start, stop and the process are
    accepting,   \* accepting_risk
    killed,      \* live_kill_switch_state.is_killed
    market,      \* MarketStreamService.is_connected
    dead,        \* tasks that ended by an exception
    loop,        \* where _rest_loop is
    position,    \* where _position_loop is
    round,       \* the holder of _reconcile_lock and the intents left to it
    unfinished,  \* unfinished_intent_ids
    request,     \* an execute_intent call under way
    clean        \* history: the last start or REST round went through

runVars == <<main, accepting, killed, market, dead, loop, position, round, unfinished, request, clean>>
vars == <<authorityVars, runVars>>

Rounds == [by : {"none", "start", "loop", "position"}, left : SUBSET Intents]
NoRound == [by |-> "none", left |-> {}]

TypeOK ==
    /\ connected \in BOOLEAN /\ sound \in BOOLEAN
    /\ stream \in {"off", "down", "repair", "reading"}
    /\ main \in {"off", "recon", "rest", "case", "up", "stopping"}
    /\ accepting \in BOOLEAN /\ killed \in BOOLEAN /\ market \in BOOLEAN /\ clean \in BOOLEAN
    /\ dead \subseteq {"position", "outbox"}
    /\ loop \in {"off", "wait", "rest", "case", "recon", "check"}
    /\ position \in {"off", "wait", "recon", "observe"}
    /\ round \in Rounds
    /\ unfinished \subseteq Intents
    /\ request \subseteq Intents

Init ==
    /\ AuthorityInit
    /\ main = "off" /\ accepting = FALSE /\ killed = FALSE /\ market = FALSE
    /\ dead = {}
    /\ loop = "off" /\ position = "off"
    /\ round = NoRound
    /\ unfinished = {} /\ request = {}
    /\ clean = FALSE

-----------------------------------------------------------------------------

(* reconcile_unfinished_intents: take the lock and read the ids ... *)
BeginRound(c) ==
    /\ round.by = "none"
    /\ round' = [by |-> c, left |-> unfinished]

Oldest == CHOOSE i \in round.left : \A j \in round.left : i <= j

(* ... reconcile the oldest that is left ... *)
ReconcileOne(c, resolved) ==
    /\ round.by = c /\ round.left # {}
    /\ round' = [round EXCEPT !.left = @ \ {Oldest}]
    /\ unfinished' = IF resolved THEN unfinished \ {Oldest} ELSE unfinished

(* ... and the first exception ends the round. *)
RoundRaises(c) == round.by = c /\ round.left # {} /\ round' = NoRound
RoundEnds(c) == round.by = c /\ round.left = {} /\ round' = NoRound

Reconcile ==
    /\ \E c \in {"start", "loop", "position"}, r \in BOOLEAN : ReconcileOne(c, r)
    /\ UNCHANGED <<authorityVars, main, accepting, killed, market, dead, loop, position, request, clean>>

(* assert_current_new_risk_authority; the identity of account and symbol   *)
(* never changes.                                                          *)
Authority == main = "up" /\ ~killed /\ dead = {} /\ market /\ connected /\ sound

-----------------------------------------------------------------------------

(* The tasks end and the memory of the process is gone; the snapshot is    *)
(* restored from the store as stale.                                       *)
Forget ==
    /\ main' = "off" /\ accepting' = FALSE /\ market' = FALSE /\ dead' = {}
    /\ loop' = "off" /\ position' = "off" /\ round' = NoRound /\ request' = {} /\ clean' = FALSE
    /\ Disconnected("off")
    /\ UNCHANGED <<killed, unfinished>>

(* start: nothing may be entered until it has gone through. *)
Start ==
    /\ main = "off"
    /\ Disconnected("off")
    /\ BeginRound("start")
    /\ main' = "recon"
    /\ UNCHANGED <<accepting, killed, market, dead, loop, position, unfinished, request, clean>>

StartRest ==
    /\ main = "recon"
    /\ RoundEnds("start")
    /\ main' = "rest"
    /\ UNCHANGED <<authorityVars, accepting, killed, market, dead, loop, position, unfinished, request, clean>>

(* reconcile_rest_async gave a baseline. *)
StartCase ==
    /\ main = "rest"
    /\ sound' = TRUE
    /\ main' = "case"
    /\ UNCHANGED <<connected, stream, accepting, killed, market, dead, loop, position, round, unfinished,
                   request, clean>>

(* The case is fresh and the outbox drained: the tasks are created. *)
Started ==
    /\ main = "case"
    /\ main' = "up" /\ loop' = "wait" /\ position' = "wait" /\ stream' = "down"
    /\ accepting' = ~killed /\ clean' = TRUE
    /\ UNCHANGED <<connected, sound, killed, market, dead, round, unfinished, request>>

(* Any exception of start, or a read that is no baseline, stops the        *)
(* runtime and ends the process.                                           *)
StartRaises ==
    /\ \/ main = "recon" /\ RoundRaises("start")
       \/ main \in {"rest", "case"}
    /\ Forget

(* stop: the position loop is left to finish its poll. *)
Stop ==
    /\ main = "up"
    /\ main' = "stopping" /\ accepting' = FALSE
    /\ Disconnected(stream)
    /\ UNCHANGED <<killed, market, dead, loop, position, round, unfinished, request, clean>>

Stopped ==
    /\ main = "stopping" /\ position \in {"off", "wait"}
    /\ Forget

Crash == main # "off" /\ Forget

-----------------------------------------------------------------------------

(* _rest_loop. *)
LoopWakes ==
    /\ loop = "wait"
    /\ loop' = "rest"
    /\ UNCHANGED <<authorityVars, main, accepting, killed, market, dead, position, round, unfinished,
                   request, clean>>

LoopRestFailed ==
    /\ loop = "rest"
    /\ accepting' = FALSE /\ clean' = FALSE
    /\ Disconnected(stream)
    /\ loop' = "wait"
    /\ UNCHANGED <<main, killed, market, dead, position, round, unfinished, request>>

LoopRestOk ==
    /\ loop = "rest"
    /\ Read
    /\ loop' = "case"
    /\ UNCHANGED <<main, accepting, killed, market, dead, position, round, unfinished, request, clean>>

(* Mutant: the round is left to the position loop. *)
LoopCaseOnly ==
    /\ loop = "case"
    /\ loop' = "check"
    /\ UNCHANGED <<authorityVars, main, accepting, killed, market, dead, position, round, unfinished,
                   request, clean>>

(* _refresh_case returned; the round of intents follows. *)
LoopCase ==
    /\ loop = "case"
    /\ BeginRound("loop")
    /\ loop' = "recon"
    /\ UNCHANGED <<authorityVars, main, accepting, killed, market, dead, position, unfinished, request, clean>>

LoopRecoveryFailed ==
    /\ \/ loop = "case" /\ UNCHANGED round
       \/ loop = "recon" /\ RoundRaises("loop")
    /\ accepting' = FALSE /\ clean' = FALSE
    /\ loop' = "wait"
    /\ UNCHANGED <<authorityVars, main, killed, market, dead, position, unfinished, request>>

LoopRecovered ==
    /\ loop = "recon" /\ RoundEnds("loop")
    /\ loop' = "check"
    /\ UNCHANGED <<authorityVars, main, accepting, killed, market, dead, position, unfinished, request, clean>>

LoopChecks ==
    /\ loop = "check"
    /\ accepting' = Authority
    /\ clean' = TRUE
    /\ loop' = "wait"
    /\ UNCHANGED <<authorityVars, main, killed, market, dead, position, round, unfinished, request>>

-----------------------------------------------------------------------------

(* _position_loop and poll_positions. *)
PositionWakes ==
    /\ main = "up" /\ position = "wait"
    /\ BeginRound("position")
    /\ position' = "recon"
    /\ UNCHANGED <<authorityVars, main, accepting, killed, market, dead, loop, unfinished, request, clean>>

PositionReconciled ==
    /\ position = "recon" /\ RoundEnds("position")
    /\ position' = "observe"
    /\ UNCHANGED <<authorityVars, main, accepting, killed, market, dead, loop, unfinished, request, clean>>

PollPositions ==
    /\ position = "observe"
    /\ accepting' = (accepting /\ sound)
    /\ position' = "wait"
    /\ UNCHANGED <<authorityVars, main, killed, market, dead, loop, round, unfinished, request, clean>>

(* An exception ends the loop for the life of the process. *)
PositionDies ==
    /\ \/ position = "recon" /\ RoundRaises("position")
       \/ position = "observe" /\ UNCHANGED round
    /\ position' = "off"
    /\ dead' = dead \cup {"position"}
    /\ UNCHANGED <<authorityVars, main, accepting, killed, market, loop, unfinished, request, clean>>

(* run_position_outbox raises out of drain_pending_dispatches. *)
OutboxDies ==
    /\ main = "up" /\ dead' = dead \cup {"outbox"}
    /\ UNCHANGED <<authorityVars, main, accepting, killed, market, loop, position, round, unfinished,
                   request, clean>>

-----------------------------------------------------------------------------

(* execute_intent of an intent without a side effect, to its first await. *)
ExecuteIntent(i) ==
    /\ i \notin unfinished \cup request
    /\ accepting /\ Authority
    /\ request' = request \cup {i}
    /\ UNCHANGED <<authorityVars, main, accepting, killed, market, dead, loop, position, round, unfinished,
                   clean>>

(* Mutant: nothing is checked again after the case was refreshed. *)
RecheckedNot == TRUE

Rechecked == Authority /\ accepting

(* _refresh_case returned: both checks again, then the executor. *)
HandOver(i) ==
    /\ i \in request
    /\ Rechecked
    /\ request' = request \ {i}
    /\ unfinished' = unfinished \cup {i}
    /\ UNCHANGED <<authorityVars, main, accepting, killed, market, dead, loop, position, round, clean>>

Refuse(i) ==
    /\ i \in request
    /\ request' = request \ {i}
    /\ UNCHANGED <<authorityVars, main, accepting, killed, market, dead, loop, position, round, unfinished,
                   clean>>

(* KillSwitch._latch, from any thread or process. *)
Latch ==
    /\ ~killed
    /\ killed' = TRUE
    /\ UNCHANGED <<authorityVars, main, accepting, market, dead, loop, position, round, unfinished, request, clean>>

(* External: the operator resets the row while the service is stopped. *)
ResetKillSwitch ==
    /\ main = "off" /\ killed
    /\ killed' = FALSE
    /\ UNCHANGED <<authorityVars, main, accepting, market, dead, loop, position, round, unfinished, request, clean>>

(* MarketStreamService.run_stream connects, or loses its socket. *)
MarketFlips ==
    /\ main = "up" /\ market' = ~market
    /\ UNCHANGED <<authorityVars, main, accepting, killed, dead, loop, position, round, unfinished, request, clean>>

RestLoop == main = "up" /\ (LoopWakes \/ LoopRestFailed \/ LoopRestOk \/ LoopCase
                             \/ LoopRecoveryFailed \/ LoopRecovered \/ LoopChecks)
PositionLoop == PositionWakes \/ PositionReconciled \/ PollPositions \/ PositionDies
Starting == Start \/ StartRest \/ StartCase \/ Started \/ StartRaises
Stopping == Stop \/ Stopped
Execution == \E i \in Intents : ExecuteIntent(i) \/ HandOver(i) \/ Refuse(i)

(* The watch: its stream, and the reads of the execution backend. *)
Watching ==
    /\ main = "up"
    /\ AuthorityNext
    /\ UNCHANGED runVars

Next == Starting \/ Stopping \/ Crash \/ RestLoop \/ PositionLoop \/ OutboxDies \/ Reconcile \/ Execution
        \/ Latch \/ ResetKillSwitch \/ MarketFlips \/ Watching

Spec == Init /\ [][Next]_vars

(***************************************************************************)
(* Every step that is due is taken.  Asked again and again, the exchange   *)
(* some time answers a REST read, the market scan gives a case, and the    *)
(* reconciliation of an intent resolves it; the process stops finitely     *)
(* often and is started again.                                             *)
(***************************************************************************)
Resolves(i) == Reconcile /\ i \in unfinished /\ i \notin unfinished'
UpDown == Crash \/ Stop

Fairness ==
    /\ <>[][~UpDown]_vars
    /\ WF_vars(Start) /\ WF_vars(StartRest) /\ SF_vars(StartCase) /\ SF_vars(Started) /\ WF_vars(Stopped)
    /\ WF_vars(RestLoop) /\ SF_vars(LoopRestOk) /\ SF_vars(LoopCase) /\ WF_vars(PositionLoop)
    /\ WF_vars(Reconcile)
    /\ \A i \in Intents : SF_vars(Resolves(i))

FairSpec == Spec /\ Fairness

-----------------------------------------------------------------------------

(***************************************************************************)
(* An intent is handed to the executor only while the kill switch is       *)
(* armed, every task lives, the account is trusted and the last start or   *)
(* REST round went through: not even when any of this ends while           *)
(* execute_intent awaits the market scan, or a stop or a failed round      *)
(* comes between.                                                          *)
(***************************************************************************)
RiskOnlyWhenSound ==
    [][unfinished' \ unfinished # {} => main = "up" /\ ~killed /\ dead = {} /\ connected /\ sound /\ clean]_vars

(***************************************************************************)
(* Every intent that reached the executor is resolved in the end: the REST *)
(* loop goes on with the rounds when the position loop has died at its     *)
(* first exception, a round that an older intent ends early is repeated,   *)
(* and a start does not pass over what an earlier process left.            *)
(***************************************************************************)
IntentsResolved == \A i \in Intents : (i \in unfinished) ~> (i \notin unfinished)

(***************************************************************************)
(* docs/LIVE_V1_RC1_OPERATIONAL_RUNBOOK.md 5.5: when the account is stale, *)
(* restore connectivity "and wait for the next 30-second REST              *)
(* reconciliation cycle".  While everything stays healthy, rounds go       *)
(* through, the account is reconciled and the user stream is read, new     *)
(* risk is accepted again.                                                 *)
(***************************************************************************)
Healthy == main = "up" /\ ~killed /\ dead = {} /\ market /\ sound /\ stream = "reading" /\ clean
RestCycleUnblocks == <>[]Healthy => []<>accepting

=============================================================================
