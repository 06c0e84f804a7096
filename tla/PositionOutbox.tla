--------------------------- MODULE PositionOutbox ---------------------------
(***************************************************************************)
(* The durable dispatch outbox of the position supervisor                  *)
(* (position_supervisor/supervisor.py).  Every position event is inserted  *)
(* together with a PENDING row of live_position_case_dispatches; drains    *)
(* run by the outbox loop, by the position loop and at start lease a row,  *)
(* freeze the position case, mint the one-shot analysis admission, call    *)
(* the analysis provider and complete the row.                             *)
(*                                                                         *)
(* Every SQLite transaction is one step, so drains of several tasks or     *)
(* processes interleave between transactions and external calls.  A lease  *)
(* is kept as the time it has left: lease_expires_at_ms <= now is          *)
(* left[e] = 0, and Tick lets time pass.  secrets.token_hex gives every    *)
(* claim a token of its own; since a claim also increments retry_count,    *)
(* the claim's ordinal stands for its token (0 is NULL).  Rows edited      *)
(* behind the program's back (the hash and identity mismatches the         *)
(* checkpoints look for) are not states of the program.                    *)
(***************************************************************************)
EXTENDS Naturals, Sequences

CONSTANTS
    Events,      \* identities of position events (event_id)
    Drains,      \* concurrent calls of drain_pending_dispatches
    Cases,       \* position cases the market can be materialized into
    NoCase,      \* the empty position_case_json
    NoEvent,     \* a drain that holds no row
    LeaseTime,   \* lease_ms, in ticks
    MaxRetries   \* max_retries

ASSUME LeaseAssumption == LeaseTime \in Nat \ {0}
ASSUME RetriesAssumption == MaxRetries \in Nat \ {0}
ASSUME NoCaseAssumption == NoCase \notin Cases
ASSUME NoEventAssumption == NoEvent \notin Events

VARIABLES
    state,       \* [Events -> the row's state, "ABSENT" before the insert]
    created,     \* [Events -> Nat]: created_at_ms
    now,         \* the created_at_ms of the latest insert
    retries,     \* [Events -> Nat]: retry_count
    token,       \* [Events -> Nat]: lease_token, 0 for NULL
    left,        \* [Events -> Nat]: lease_expires_at_ms - now, never below 0
    frozen,      \* [Events -> Cases or NoCase]: position_case_json
    admitted,    \* [Events -> Nat]: the lease in dispatch_authority_json, 0 for ''
    completed,   \* [Events -> BOOLEAN]: analysis_completed
    step,        \* [Drains -> where the drain's loop body is]
    at,          \* [Drains -> the row it claimed]
    mine,        \* [Drains -> Nat]: its local lease_token
    hold,        \* [Drains -> Cases or NoCase]: its local pos_case
    calls        \* history: [Events -> the cases analyze_case was called with]

rowVars == <<state, created, now, retries, token, left, frozen, admitted, completed>>
drainVars == <<step, at, mine, hold>>
vars == <<state, created, now, retries, token, left, frozen, admitted, completed,
          step, at, mine, hold, calls>>

RowStates == {"ABSENT", "PENDING", "DISPATCHING", "DONE", "FAILED_CLOSED"}
Terminal == {"DONE", "FAILED_CLOSED"}

(* The places where the loop body of drain_pending_dispatches can be       *)
(* between two transactions or external calls; "idle" is the loop's head.  *)
Steps == {"idle", "claimed", "verified", "materializing", "materialized",
          "freezing", "frozen", "admitted", "analysing", "analysed"}

TypeOK ==
    /\ state \in [Events -> RowStates]
    /\ created \in [Events -> Nat]
    /\ now \in Nat
    /\ retries \in [Events -> 0..MaxRetries]
    /\ token \in [Events -> 0..MaxRetries]
    /\ left \in [Events -> 0..LeaseTime]
    /\ frozen \in [Events -> Cases \cup {NoCase}]
    /\ admitted \in [Events -> 0..MaxRetries]
    /\ completed \in [Events -> BOOLEAN]
    /\ step \in [Drains -> Steps]
    /\ at \in [Drains -> Events \cup {NoEvent}]
    /\ mine \in [Drains -> 0..MaxRetries]
    /\ hold \in [Drains -> Cases \cup {NoCase}]
    /\ calls \in [Events -> Seq(Cases)]

Init ==
    /\ state = [e \in Events |-> "ABSENT"]
    /\ created = [e \in Events |-> 0]
    /\ now = 0
    /\ retries = [e \in Events |-> 0]
    /\ token = [e \in Events |-> 0]
    /\ left = [e \in Events |-> 0]
    /\ frozen = [e \in Events |-> NoCase]
    /\ admitted = [e \in Events |-> 0]
    /\ completed = [e \in Events |-> FALSE]
    /\ step = [d \in Drains |-> "idle"]
    /\ at = [d \in Drains |-> NoEvent]
    /\ mine = [d \in Drains |-> 0]
    /\ hold = [d \in Drains |-> NoCase]
    /\ calls = [e \in Events |-> <<>>]

-----------------------------------------------------------------------------

(* evaluate() inserts the events of one observation, one or several (a     *)
(* flip closes and opens), with blank PENDING rows in one transaction;     *)
(* observations of one millisecond share created_at_ms.                    *)
Enqueue(S) ==
    /\ S # {}
    /\ \A e \in S : state[e] = "ABSENT"
    /\ now' \in {now, now + 1}
    /\ state' = [e \in Events |-> IF e \in S THEN "PENDING" ELSE state[e]]
    /\ created' = [e \in Events |-> IF e \in S THEN now' ELSE created[e]]
    /\ UNCHANGED <<retries, token, left, frozen, admitted, completed,
                   step, at, mine, hold, calls>>

(* Mutant of Claimable: expired leases are not taken over. *)
ClaimableOnlyPending(e) == state[e] = "PENDING"

(* The WHERE clause of the candidate query. *)
Claimable(e) ==
    \/ state[e] = "PENDING"
    \/ state[e] = "DISPATCHING" /\ left[e] = 0

(* ... ORDER BY created_at_ms ASC LIMIT 1. *)
Candidate(e) ==
    /\ Claimable(e)
    /\ \A f \in Events : Claimable(f) => created[e] <= created[f]

(* Mutant: an admitted analysis that never completed is claimed again. *)
MustCloseNoAdmission(e) == retries[e] >= MaxRetries

(* A candidate whose analysis was admitted and never completed, or whose   *)
(* retries are spent, is closed instead of claimed.                        *)
MustClose(e) ==
    \/ admitted[e] # 0 /\ ~completed[e]
    \/ retries[e] >= MaxRetries

(* The drain is back at the head of its loop, or has returned. *)
Release(d) ==
    /\ step' = [step EXCEPT ![d] = "idle"]
    /\ at' = [at EXCEPT ![d] = NoEvent]
    /\ mine' = [mine EXCEPT ![d] = 0]
    /\ hold' = [hold EXCEPT ![d] = NoCase]

CloseCandidate(d, e) ==
    /\ step[d] = "idle"
    /\ Candidate(e)
    /\ MustClose(e)
    /\ state' = [state EXCEPT ![e] = "FAILED_CLOSED"]
    /\ token' = [token EXCEPT ![e] = 0]
    /\ UNCHANGED <<created, now, retries, left, frozen, admitted, completed,
                   step, at, mine, hold, calls>>

Claim(d, e) ==
    /\ step[d] = "idle"
    /\ Candidate(e)
    /\ ~MustClose(e)
    /\ state' = [state EXCEPT ![e] = "DISPATCHING"]
    /\ retries' = [retries EXCEPT ![e] = @ + 1]
    /\ token' = [token EXCEPT ![e] = retries[e] + 1]
    /\ left' = [left EXCEPT ![e] = LeaseTime]
    /\ step' = [step EXCEPT ![d] = "claimed"]
    /\ at' = [at EXCEPT ![d] = e]
    /\ mine' = [mine EXCEPT ![d] = retries[e] + 1]
    /\ UNCHANGED <<created, now, frozen, admitted, completed, hold, calls>>

-----------------------------------------------------------------------------

(* _verify_durable_authority without check_lease_now: the row still        *)
(* carries the drain's token.  It does not ask whether the lease ran out.  *)
Owns(d) ==
    /\ token[at[d]] = mine[d]
    /\ state[at[d]] = "DISPATCHING"

(* ... and with check_lease_now, or in the WHERE clause of an UPDATE. *)
OwnsLive(d) == Owns(d) /\ left[at[d]] > 0

(* Checkpoint 1: a stored case is reused and never materialized again. *)
CheckpointClaim(d) ==
    /\ step[d] = "claimed"
    /\ Owns(d)
    /\ IF frozen[at[d]] # NoCase
       THEN /\ step' = [step EXCEPT ![d] = "frozen"]
            /\ hold' = [hold EXCEPT ![d] = frozen[at[d]]]
       ELSE /\ step' = [step EXCEPT ![d] = "verified"]
            /\ UNCHANGED hold
    /\ UNCHANGED <<rowVars, at, mine, calls>>

(* Checkpoint 2, before the call of fresh_market_case, and checkpoint 3,   *)
(* after it.                                                               *)
CheckpointMaterialize(d) ==
    /\ \/ /\ step[d] = "verified"
          /\ step' = [step EXCEPT ![d] = "materializing"]
       \/ /\ step[d] = "materialized"
          /\ step' = [step EXCEPT ![d] = "freezing"]
    /\ Owns(d)
    /\ UNCHANGED <<rowVars, at, mine, hold, calls>>

(* KeyError at a checkpoint: the drain breaks out of its loop. *)
CheckpointLost(d) ==
    /\ step[d] \in {"claimed", "verified", "materialized"}
    /\ ~Owns(d)
    /\ Release(d)
    /\ UNCHANGED <<rowVars, calls>>

(* fresh_market_case returns a base case for the event's symbol. *)
Materialize(d, c) ==
    /\ step[d] = "materializing"
    /\ step' = [step EXCEPT ![d] = "materialized"]
    /\ hold' = [hold EXCEPT ![d] = c]
    /\ UNCHANGED <<rowVars, at, mine, calls>>

(* Mutant of MaterializeFails: the UPDATE forgets AND lease_token = ?. *)
MaterializeFailsUnfenced(d, wrongSymbol) ==
    LET e == at[d] IN
    /\ step[d] = "materializing"
    /\ state' = [state EXCEPT ![e] =
                   IF wrongSymbol \/ retries[e] >= MaxRetries
                   THEN "FAILED_CLOSED" ELSE "PENDING"]
    /\ token' = [token EXCEPT ![e] = 0]
    /\ left' = [left EXCEPT ![e] = 0]
    /\ Release(d)
    /\ UNCHANGED <<created, now, retries, frozen, admitted, completed, calls>>

(* It fails, or (wrongSymbol) returns a case of another symbol: the row    *)
(* goes back to PENDING, or is closed, if it still carries the token.      *)
MaterializeFails(d, wrongSymbol) ==
    LET e == at[d] IN
    /\ step[d] = "materializing"
    /\ IF token[e] = mine[d]
       THEN /\ state' = [state EXCEPT ![e] =
                           IF wrongSymbol \/ retries[e] >= MaxRetries
                           THEN "FAILED_CLOSED" ELSE "PENDING"]
            /\ token' = [token EXCEPT ![e] = 0]
            /\ left' = [left EXCEPT ![e] = 0]
       ELSE UNCHANGED <<state, token, left>>
    /\ Release(d)
    /\ UNCHANGED <<created, now, retries, frozen, admitted, completed, calls>>

(* The durable freeze of the position case. *)
Freeze(d) ==
    /\ step[d] = "freezing"
    /\ OwnsLive(d)
    /\ frozen[at[d]] = NoCase
    /\ frozen' = [frozen EXCEPT ![at[d]] = hold[d]]
    /\ step' = [step EXCEPT ![d] = "frozen"]
    /\ UNCHANGED <<state, created, now, retries, token, left, admitted, completed,
                   at, mine, hold, calls>>

FreezeLost(d) ==
    /\ step[d] = "freezing"
    /\ ~(OwnsLive(d) /\ frozen[at[d]] = NoCase)
    /\ Release(d)
    /\ UNCHANGED <<rowVars, calls>>

-----------------------------------------------------------------------------

(* Mutants of MintAdmission: the ownership checks are dropped, and an      *)
(* admission is mistaken for a completed analysis.                         *)
MintUnguarded(d) ==
    /\ step[d] = "frozen"
    /\ admitted' = [admitted EXCEPT ![at[d]] = mine[d]]
    /\ left' = [left EXCEPT ![at[d]] = LeaseTime]
    /\ step' = [step EXCEPT ![d] = "admitted"]
    /\ UNCHANGED <<state, created, now, retries, token, frozen, completed,
                   at, mine, hold, calls>>

MintSkipsProvider(d) ==
    /\ step[d] = "frozen"
    /\ OwnsLive(d)
    /\ hold[d] = frozen[at[d]]
    /\ admitted[at[d]] = 0
    /\ admitted' = [admitted EXCEPT ![at[d]] = mine[d]]
    /\ left' = [left EXCEPT ![at[d]] = LeaseTime]
    /\ step' = [step EXCEPT ![d] = "analysed"]
    /\ UNCHANGED <<state, created, now, retries, token, frozen, completed,
                   at, mine, hold, calls>>

(* _mint_analysis_admission: the one-shot receipt, and a fresh lease for   *)
(* the analysis.  An admission it finds already there would be refused:    *)
(* NoForeignAdmission says that never happens to a drain that gets here.   *)
MintAdmission(d) ==
    /\ step[d] = "frozen"
    /\ OwnsLive(d)
    /\ hold[d] = frozen[at[d]]
    /\ admitted[at[d]] = 0
    /\ admitted' = [admitted EXCEPT ![at[d]] = mine[d]]
    /\ left' = [left EXCEPT ![at[d]] = LeaseTime]
    /\ step' = [step EXCEPT ![d] = "admitted"]
    /\ UNCHANGED <<state, created, now, retries, token, frozen, completed,
                   at, mine, hold, calls>>

MintLost(d) ==
    /\ step[d] = "frozen"
    /\ ~OwnsLive(d)
    /\ Release(d)
    /\ UNCHANGED <<rowVars, calls>>

(* analyze_case is called with the admitted case ... *)
CallAnalysis(d) ==
    /\ step[d] = "admitted"
    /\ calls' = [calls EXCEPT ![at[d]] = Append(@, hold[d])]
    /\ step' = [step EXCEPT ![d] = "analysing"]
    /\ UNCHANGED <<rowVars, at, mine, hold>>

(* ... and returns ... *)
AnalysisReturns(d) ==
    /\ step[d] = "analysing"
    /\ step' = [step EXCEPT ![d] = "analysed"]
    /\ UNCHANGED <<rowVars, at, mine, hold, calls>>

(* Mutant of AnalysisFails: a failed analysis is put back for a retry. *)
AnalysisFailsRetried(d) ==
    LET e == at[d] IN
    /\ step[d] = "analysing"
    /\ Owns(d)
    /\ state' = [state EXCEPT ![e] = "PENDING"]
    /\ token' = [token EXCEPT ![e] = 0]
    /\ left' = [left EXCEPT ![e] = 0]
    /\ admitted' = [admitted EXCEPT ![e] = 0]
    /\ Release(d)
    /\ UNCHANGED <<created, now, retries, frozen, completed, calls>>

(* ... or raises: the row is closed if the drain still owns it ... *)
AnalysisFails(d) ==
    LET e == at[d] IN
    /\ step[d] = "analysing"
    /\ IF Owns(d)
       THEN /\ state' = [state EXCEPT ![e] = "FAILED_CLOSED"]
            /\ token' = [token EXCEPT ![e] = 0]
            /\ left' = [left EXCEPT ![e] = 0]
       ELSE UNCHANGED <<state, token, left>>
    /\ Release(d)
    /\ UNCHANGED <<created, now, retries, frozen, admitted, completed, calls>>

(* ... except that a KeyError out of the provider is taken for a lost      *)
(* lease and leaves the row to whoever finds its lease expired.            *)
AnalysisRaisesKeyError(d) ==
    /\ step[d] = "analysing"
    /\ Release(d)
    /\ UNCHANGED <<rowVars, calls>>

(* _complete_analysis. *)
Complete(d) ==
    LET e == at[d] IN
    /\ step[d] = "analysed"
    /\ OwnsLive(d)
    /\ admitted[e] = mine[d]
    /\ frozen[e] = hold[d]
    /\ state' = [state EXCEPT ![e] = "DONE"]
    /\ completed' = [completed EXCEPT ![e] = TRUE]
    /\ token' = [token EXCEPT ![e] = 0]
    /\ left' = [left EXCEPT ![e] = 0]
    /\ Release(d)
    /\ UNCHANGED <<created, now, retries, frozen, admitted, calls>>

CompleteLost(d) ==
    /\ step[d] = "analysed"
    /\ ~OwnsLive(d)
    /\ Release(d)
    /\ UNCHANGED <<rowVars, calls>>

-----------------------------------------------------------------------------

(* The process dies, or the task is cancelled, between two transactions. *)
Crash(d) ==
    /\ step[d] # "idle"
    /\ Release(d)
    /\ UNCHANGED <<rowVars, calls>>

Tick ==
    /\ \E e \in Events : left[e] > 0
    /\ left' = [e \in Events |-> IF left[e] > 0 THEN left[e] - 1 ELSE 0]
    /\ UNCHANGED <<state, created, now, retries, token, frozen, admitted, completed,
                   step, at, mine, hold, calls>>

DrainStep(d) ==
    \/ \E e \in Events : CloseCandidate(d, e) \/ Claim(d, e)
    \/ CheckpointClaim(d) \/ CheckpointMaterialize(d) \/ CheckpointLost(d)
    \/ \E c \in Cases : Materialize(d, c)
    \/ \E wrongSymbol \in BOOLEAN : MaterializeFails(d, wrongSymbol)
    \/ Freeze(d) \/ FreezeLost(d)
    \/ MintAdmission(d) \/ MintLost(d)
    \/ CallAnalysis(d)
    \/ AnalysisReturns(d) \/ AnalysisFails(d) \/ AnalysisRaisesKeyError(d)
    \/ Complete(d) \/ CompleteLost(d)

Next ==
    \/ \E S \in SUBSET Events : Enqueue(S)
    \/ \E d \in Drains : DrainStep(d) \/ Crash(d)
    \/ Tick

Spec == Init /\ [][Next]_vars

(* run_position_outbox drains again and again, the analysis and market     *)
(* calls end (they carry timeouts), and time passes.                       *)
Fairness == WF_vars(Tick) /\ \A d \in Drains : WF_vars(DrainStep(d))

FairSpec == Spec /\ Fairness

-----------------------------------------------------------------------------

(* The provider is called at most once for an event, whatever crashes,     *)
(* lease expiries and concurrent drains do, and with the frozen case       *)
(* (drain_pending_dispatches: "admitted completion is uncertain: never     *)
(* replay").                                                               *)
AnalysedAtMostOnce ==
    \A e \in Events : calls[e] \in {<<>>, <<frozen[e]>>}

(* A DONE row was analysed, and its completion marker says so.             *)
DoneWasAnalysed ==
    \A e \in Events : state[e] = "DONE" =>
        /\ Len(calls[e]) = 1
        /\ completed[e] /\ admitted[e] # 0 /\ frozen[e] # NoCase

(* A drain that reaches the mint with a live lease never finds an          *)
(* admission of an earlier lease: the "uncertain admitted analysis" branch *)
(* of _mint_analysis_admission is never the one that saves the day.        *)
NoForeignAdmission ==
    \A d \in Drains :
        step[d] \in {"frozen", "freezing"} /\ Owns(d) => admitted[at[d]] = 0

(* Between the admission and its completion the admitting lease is the     *)
(* only one the row ever has, so at most one drain is inside the provider  *)
(* for an event.                                                           *)
OneAnalyser ==
    \A d1, d2 \in Drains :
        /\ step[d1] \in {"admitted", "analysing", "analysed"}
        /\ step[d2] \in {"admitted", "analysing", "analysed"}
        /\ at[d1] = at[d2]
        => d1 = d2

(* No late write of a drain that lost its lease reopens a terminal row, a  *)
(* frozen case is never replaced and an admission never reassigned         *)
(* (triggers trg_live_position_dispatch_admission_immutable and            *)
(* trg_live_position_dispatch_done_requires_completion agree).             *)
KeepsHistory ==
    \A e \in Events :
        /\ state[e] \in Terminal => state'[e] = state[e]
        /\ frozen[e] # NoCase => frozen'[e] = frozen[e]
        /\ admitted[e] # 0 => admitted'[e] = admitted[e]

RowHistoryFinal == [][KeepsHistory]_vars

(* Every inserted event is eventually dispatched or closed. *)
EventuallyResolved ==
    \A e \in Events : state[e] = "PENDING" ~> state[e] \in Terminal

=============================================================================
