----------------------------- MODULE MarketScan -----------------------------
(***************************************************************************)
(* The market watch scan of one symbol: scan_universe assesses the closed  *)
(* bar against the saved row, saves the row and records a shadow           *)
(* observation, each in a transaction of its own; the process may die      *)
(* between two of them.                                                    *)
(*                                                                         *)
(* Playbooks, gates and scores are abstracted to the plan they select: any *)
(* setup, decision and entry quality they can produce together.  The other *)
(* symbols of the universe only show in an exception that ends the scan.   *)
(* The evidence of an assessment, which is written with the row, and the   *)
(* alerts, which nothing reads but later alerts, are left out.             *)
(***************************************************************************)
EXTENDS Naturals, FiniteSets

CONSTANTS
    Setups,         \* what a playbook can find: [name, dir, anchor, level, marked]
    MaxAge,         \* max_signal_age_bars
    MinQuality,     \* min_action_entry_quality: 0 POOR, 1 MARGINAL, 2 GOOD
    LastBar         \* bound on the closed 15 minute bars

VARIABLES
    bar,        \* the last closed 15 minute bar
    row,        \* market_watch_symbol_state
    scan,       \* locals of the running scan_universe
    records,    \* the ACTIONABLE_TRIGGERED rows of market_watch_shadow_records
    since       \* history: bar since which the saved signal is ARMED or TRIGGERED

vars == <<bar, row, scan, records, since>>

----------------------------------------------------------------------------

NoTrade == [name |-> "NO_TRADE", dir |-> "NONE", anchor |-> 0, level |-> 0, marked |-> FALSE]
Live == {"ARMED", "TRIGGERED"}
Over == {"INVALIDATED", "EXPIRED"}
NoRow == [life |-> "NONE", key |-> <<>>, act |-> FALSE, started |-> 0, sig |-> <<>>,
          level |-> 0, dir |-> "NONE", created |-> 0, bar |-> 0,
          armedId |-> <<>>, triggeredId |-> <<>>, done |-> TRUE]
Idle == [pc |-> "idle"]

Init ==
    /\ bar = 1 /\ row = NoRow /\ scan = Idle
    /\ records = {} /\ since = 0

(* extract_setup_key, extract_signal_identity. *)
Key(s) == <<s.name, s.dir, s.anchor>>
Signal(s, started) == <<Key(s), started>>

(* What the playbooks, the quality gate and the benchmark, derivatives and  *)
(* veto gates leave of a setup: raw is the decision behind the quality      *)
(* gate, act the final one, confirmed BREAKOUT_CONFIRMED.                   *)
Plans ==
    {p \in [setup : Setups \cup {NoTrade}, raw : BOOLEAN, act : BOOLEAN,
            confirmed : BOOLEAN, quality : 0 .. 2] :
        /\ p.act => p.raw
        /\ p.raw => p.setup # NoTrade /\ p.quality >= MinQuality
        /\ p.confirmed => p.setup.level # 0}

----------------------------------------------------------------------------
(* The lifecycle.                                                           *)

(* advance_lifecycle_state. *)
AdvanceLifecycle(previous, p, invalid, near, age) ==
    IF invalid THEN "INVALIDATED"
    ELSE IF age >= MaxAge /\ previous \in Live THEN "EXPIRED"
    ELSE IF p.act THEN IF p.quality >= 2 THEN "TRIGGERED" ELSE "ARMED"
    ELSE IF \/ near
            \/ p.setup # NoTrade /\ (p.quality = 1 \/ previous = "ARMED") THEN "ARMED"
    ELSE IF previous = "TRIGGERED" THEN "EXPIRED"
    ELSE "CANDIDATE"

(* The setup instance goes on while its key stays and it is not over. *)
SameSetup(s) == row.key = Key(s) /\ s # NoTrade /\ row.life \notin Over \cup {"NONE"}
Started(s) == IF SameSetup(s) /\ row.started # 0 THEN row.started ELSE bar

LevelChanged(s) == s.level # 0 /\ row.level # 0 /\ s.level # row.level
DirChanged(s) == row.dir # "NONE" /\ s.dir # "NONE" /\ row.dir # s.dir

SameSignal(s) ==
    /\ row.sig = Signal(s, Started(s))
    /\ ~LevelChanged(s) /\ ~DirChanged(s) /\ s # NoTrade

(* assess_symbol. *)
Assess(p) ==
    LET s == p.setup
        same == SameSignal(s)
        age == IF same /\ row.created # 0 /\ bar >= row.created THEN bar - row.created ELSE 0
        near == p.confirmed \/ (s # NoTrade /\ p.raw)
        invalid == row.life \in Live /\ same /\ ~p.act /\ ~near
        life == AdvanceLifecycle(IF same THEN row.life ELSE "NONE", p, invalid, near, age)
        sig == Signal(s, Started(s))
    IN [setup |-> s, act |-> p.act, life |-> life, started |-> Started(s), sig |-> sig]

----------------------------------------------------------------------------
(* scan_universe.                                                           *)

NewBar ==
    /\ scan = Idle /\ bar < LastBar
    /\ bar' = bar + 1
    /\ UNCHANGED <<row, scan, records, since>>

(* collect_symbol_snapshot and assess_symbol.  Core candles that fail leave *)
(* the symbol out of the scan, and an exception elsewhere ends it; nothing  *)
(* has been written then.                                                   *)
BeginScan(p) ==
    /\ scan = Idle
    /\ scan' = [pc |-> "save", a |-> Assess(p)]
    /\ UNCHANGED <<bar, row, records, since>>

----------------------------------------------------------------------------
(* save_symbol_state.                                                       *)

IsReset(a) ==
    \/ LevelChanged(a.setup) \/ DirChanged(a.setup)
    \/ row.sig # <<>> /\ row.sig # a.sig
    \/ a.setup = NoTrade \/ a.life \in Over

(* Mutant: a save starts the age again whenever the lifecycle moved. *)
CreatedOnMove(a) ==
    IF IsReset(a) \/ row.life # a.life \/ row.created = 0 THEN bar ELSE row.created

(* created_bar_end_ms. *)
Created(a) == IF IsReset(a) \/ row.created = 0 THEN bar ELSE row.created

(* The breakout direction outlives a plan that names none. *)
SavedDir(a) ==
    IF a.setup.marked \/ a.act THEN a.setup.dir ELSE row.dir

(* The dedupe markers survive a reset only for the same signal. *)
Kept(id, a) == IF IsReset(a) /\ id # a.sig THEN <<>> ELSE id

SavedRow(a) ==
    [life |-> a.life, key |-> Key(a.setup), act |-> a.act, started |-> a.started,
     sig |-> a.sig, level |-> IF a.setup.level # 0 THEN a.setup.level ELSE row.level,
     dir |-> SavedDir(a), created |-> Created(a), bar |-> bar,
     armedId |-> Kept(row.armedId, a), triggeredId |-> Kept(row.triggeredId, a),
     done |-> FALSE]

SaveSymbolState ==
    LET a == scan.a IN
    /\ scan.pc = "save"
    /\ row' = SavedRow(a)
    /\ since' = IF a.life \notin Live THEN 0
                ELSE IF since = 0 \/ row.sig # a.sig \/ LevelChanged(a.setup)
                        \/ DirChanged(a.setup) THEN bar
                ELSE since
    /\ scan' = [scan EXCEPT !.pc = "record"]
    /\ UNCHANGED <<bar, records>>

----------------------------------------------------------------------------
(* _record_shadow_observations_if_needed.                                   *)

Triggered(sig) == {r \in records : r.sig = sig}

(* Mutant: the markers of the row are the only guard. *)
RecordedUnguarded(sig) ==
    records \cup {[sig |-> sig, n |-> 1 + Cardinality(Triggered(sig))]}

(* record_shadow_observation: a second ACTIONABLE_TRIGGERED record of a     *)
(* signal is not inserted.                                                  *)
Recorded(sig) ==
    IF Triggered(sig) # {} THEN records ELSE records \cup {[sig |-> sig, n |-> 1]}

(* SETUP_ARMED records are inserted without that guard, and nothing here    *)
(* reads them.                                                              *)
RecordArmed ==
    LET a == scan.a IN
    /\ scan.pc = "record" /\ a.life = "ARMED" /\ row.armedId # a.sig
    /\ scan' = [scan EXCEPT !.pc = "mark"]
    /\ UNCHANGED <<bar, row, records, since>>

RecordTriggered ==
    LET a == scan.a IN
    /\ scan.pc = "record" /\ a.life = "TRIGGERED" /\ a.act /\ row.triggeredId # a.sig
    /\ records' = Recorded(a.sig)
    /\ scan' = [scan EXCEPT !.pc = "mark"]
    /\ UNCHANGED <<bar, row, since>>

(* set_last_shadow_signal_ids and set_last_shadow_recorded_state. *)
MarkRecorded ==
    LET a == scan.a IN
    /\ scan.pc = "mark"
    /\ row' = IF a.life = "ARMED" THEN [row EXCEPT !.armedId = a.sig, !.done = TRUE]
              ELSE [row EXCEPT !.triggeredId = a.sig, !.done = TRUE]
    /\ scan' = Idle
    /\ UNCHANGED <<bar, records, since>>

(* Nothing to record; without a setup the markers are cleared. *)
RecordNothing ==
    LET a == scan.a
        clear == a.life \notin Live /\ a.setup = NoTrade
    IN /\ scan.pc = "record"
       /\ ~(a.life = "ARMED" /\ row.armedId # a.sig)
       /\ ~(a.life = "TRIGGERED" /\ a.act /\ row.triggeredId # a.sig)
       /\ row' = IF clear THEN [row EXCEPT !.armedId = <<>>, !.triggeredId = <<>>, !.done = TRUE]
                 ELSE [row EXCEPT !.done = TRUE]
       /\ scan' = Idle
       /\ UNCHANGED <<bar, records, since>>

(* The process dies, or an exception ends the scan. *)
Crash ==
    /\ scan # Idle
    /\ scan' = Idle
    /\ UNCHANGED <<bar, row, records, since>>

Next ==
    \/ NewBar \/ SaveSymbolState \/ RecordArmed \/ RecordTriggered \/ MarkRecorded
    \/ RecordNothing \/ Crash
    \/ \E p \in Plans : BeginScan(p)

Spec == Init /\ [][Next]_vars

----------------------------------------------------------------------------

(* A signal has at most one ACTIONABLE_TRIGGERED observation whatever       *)
(* crashes and rescans, and a scan that ran to its end has left one for the *)
(* TRIGGERED signal of the row.                                             *)
OneRecordPerTrigger ==
    /\ \A r \in records : Cardinality(Triggered(r.sig)) = 1
    /\ row.done /\ row.life = "TRIGGERED" /\ row.act => Triggered(row.sig) # {}

(* A signal that the row has kept ARMED or TRIGGERED, with its level and    *)
(* against no other saved direction, does not outlive max_signal_age_bars:  *)
(* the age that assess_symbol reads is the one save_symbol_state kept.      *)
SignalsExpire ==
    row.life \in Live => row.bar < since + MaxAge

=============================================================================
