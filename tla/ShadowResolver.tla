--------------------------- MODULE ShadowResolver ---------------------------
(***************************************************************************)
(* ShadowEvaluationManager.resolve_pending_observations                    *)
(* (market_watch/shadow.py): what became of a LONG shadow observation, for *)
(* one eligible record, judged call after call from 15 minute candles and, *)
(* where these do not tell, from 1 minute candles.                         *)
(*                                                                         *)
(* Time is counted in ticks, two to a minute: minute m opens at 2m and     *)
(* closes at 2m + 1, the last tick before the next one opens, as the       *)
(* exchange's closes are inclusive.  Prices are five bands: 1 the stop and *)
(* below, 3 the entry zone, 5 the first target and above.  Excursions,     *)
(* costs and R are left out, and so is the second target, which decides    *)
(* nothing.  A SHORT is the mirror image.                                  *)
(***************************************************************************)
EXTENDS Integers, Sequences, FiniteSetsExt

CONSTANTS
    BarMinutes,     \* minutes of a bar (15)
    Signal,         \* signal_time_ms, within bar 0
    EntryBars,      \* entry_window_bars
    HorizonBars,    \* evaluation_horizon_bars
    LastBar,        \* bound: the last bar that is traded
    Ranges          \* bands a minute may reach: <<low, high>>

VARIABLES
    path,    \* the minutes that were traded so far
    rec,     \* the row of market_watch_shadow_records
    lossy    \* history: a call did without data that existed, or died midway

vars == <<path, rec, lossy>>

Bars == 0..LastBar
BarTicks == 2 * BarMinutes
WindowEnd == Signal + EntryBars * BarTicks
Horizon == HorizonBars * BarTicks
Now == 2 * Len(path)

Open(m) == 2 * m
Close(m) == 2 * m + 1
BarOpen(b) == b * BarTicks
BarClose(b) == BarOpen(b + 1) - 1

Traded == 0..(Len(path) - 1)
MinutesOf(b) == {m \in Traded : BarOpen(b) <= Open(m) /\ Close(m) <= BarClose(b)}
Closed == {b \in Bars : BarClose(b) < Now}

(* A candle of the minutes ms: what its low and high reach. *)
LowTo(ms, p) == \E m \in ms : path[m + 1][1] <= p
HighTo(ms, p) == \E m \in ms : path[m + 1][2] >= p
Entry(ms) == LowTo(ms, 3) /\ HighTo(ms, 3)
StopHit(ms) == LowTo(ms, 1)
TargetHit(ms) == HighTo(ms, 5)

Waiting == [status |-> "WAITING_FOR_FILL", fill |-> 0, end |-> Signal + Horizon,
            regime |-> "UNKNOWN", reason |-> "none", resolved |-> FALSE, saved |-> FALSE]

(* The observation is recorded at the signal; the minutes begun before it  *)
(* are never looked at.                                                    *)
Init ==
    /\ path = [m \in 1..((Signal + 1) \div 2) |-> <<4, 4>>]
    /\ rec = Waiting
    /\ lossy = FALSE

(* External: a minute is traded.  A call takes less than a minute. *)
Minute(r) ==
    /\ ~rec.resolved
    /\ Len(path) < (LastBar + 1) * BarMinutes
    /\ path' = Append(path, r)
    /\ UNCHANGED <<rec, lossy>>

-----------------------------------------------------------------------------

(* Mutant: candles that start after the window are taken for the window. *)
CoveredFromFirst(opens, length, start, end) ==
    /\ opens # {}
    /\ Max(opens) + length - 1 >= (IF end > start THEN end - 1 ELSE end)
    /\ \A o \in opens : o = Max(opens) \/ o + length \in opens

(* validate_time_coverage, of candles that open at these times. *)
Covered(opens, length, start, end) ==
    /\ opens # {} /\ Min(opens) <= start
    /\ Max(opens) + length - 1 >= (IF end > start THEN end - 1 ELSE end)
    /\ \A o \in opens : o = Max(opens) \/ o + length \in opens

BarsCovered(bs, start, end) == Covered({BarOpen(b) : b \in bs}, BarTicks, start, end)
MinutesCovered(ms, start, end) == Covered({Open(m) : m \in ms}, 2, start, end)

(* A request finds everything, or a candle is missing, or it fails; one    *)
(* for minutes finds them all or fails.                                    *)
Found(candles) == {candles, {}} \cup {candles \ {c} : c \in candles}

(* The 15 minute candles of a call: the closed ones, from before the       *)
(* signal on, or else what historical_klines has from the signal on, the   *)
(* bar that is not closed yet among it while the end asked for is ahead.   *)
Recovered ==
    {b \in Bars : /\ BarOpen(b) >= Signal /\ BarOpen(b) < Now
                  /\ BarClose(b) <= (IF rec.status = "FILLED" THEN Min({Now, rec.end}) ELSE rec.end)}
Fetches == {bs \in Found(Closed) : bs # {} /\ BarOpen(Min(bs)) <= Signal} \cup Found(Recovered)

NoFill == [kind |-> "none"]
Gap == [kind |-> "gap"]
FilledAt(t, rest, stopped) == [kind |-> "fill", t |-> t, rest |-> rest, stopped |-> stopped]

(* The first minute of ms that touches the entry zone, and the rest. *)
TouchFill(ms) ==
    LET touching == {m \in ms : Open(m) >= Signal /\ Entry({m})}
    IN  IF touching = {} THEN NoFill
        ELSE FilledAt(Close(Min(touching)), {m \in ms : m >= Min(touching)}, FALSE)

(* What stage 1 makes of a candle.  A signal within the bar asks for its   *)
(* minutes; a bar that touches the entry and more is looked into, and      *)
(* without its minutes counts as stopped if it touches the stop.           *)
FillIn(b, mins) ==
    LET ms == mins \cap MinutesOf(b)
    IN  IF BarOpen(b) < Signal
        THEN IF MinutesCovered(ms, BarOpen(b), BarClose(b)) \/ MinutesCovered(ms, Signal, BarClose(b))
             THEN TouchFill({m \in ms : Close(m) > Signal})
             ELSE Gap
        ELSE LET all == MinutesOf(b)
                 looked == /\ StopHit(all) \/ TargetHit(all)
                           /\ MinutesCovered(ms, BarOpen(b), BarClose(b))
                           /\ TouchFill(ms) # NoFill
             IN  CASE ~Entry(all) -> NoFill
                   [] Entry(all) /\ looked -> TouchFill(ms)
                   [] OTHER -> FilledAt(BarClose(b), {}, StopHit(all))

ForFill(raw) == {b \in raw : BarClose(b) > Signal /\ BarOpen(b) < WindowEnd}

(* PENDING_DATA_GAP, with its coverage_reason. *)
Pending(r, why) == [r EXCEPT !.regime = why]
Resolved(r, regime, reason) == [r EXCEPT !.regime = regime, !.reason = reason, !.resolved = TRUE]

(* What a call knows when it comes to stage 2: the row, the fill bar and   *)
(* its minutes from the fill on.                                           *)
Stage(r, bar, rest, stopped) == [rec |-> r, bar |-> bar, rest |-> rest, stopped |-> stopped]

(* A record whose fill an earlier call found: nothing is known of the rest *)
(* of the minutes of its fill bar.                                         *)
Resumed == Stage(rec, -1, {}, FALSE)

(* Stage 1, for a record that waits: the first candle that decides. *)
ResolveFill(raw, mins) ==
    LET deciding == {b \in ForFill(raw) : FillIn(b, mins) # NoFill}
        first == FillIn(Min(deciding), mins)
        after(r) == Stage(r, -1, {}, FALSE)
    IN  CASE deciding # {} /\ first = Gap -> after(Pending(rec, "PARTIAL_SIGNAL_BAR_DATA_GAP"))
          [] deciding # {} /\ first # Gap ->           \* update_shadow_fill
                 Stage([rec EXCEPT !.status = "FILLED", !.fill = first.t, !.end = first.t + Horizon],
                       Min(deciding), first.rest, first.stopped)
          [] deciding = {} /\ Now < WindowEnd -> after(rec)
          [] deciding = {} /\ Now >= WindowEnd /\ ~BarsCovered(ForFill(raw), Signal, WindowEnd) ->
                 after(Pending(rec, "ENTRY_WINDOW_DATA_GAP"))
          [] OTHER -> after([Resolved(rec, "NO_FILL", "NO_FILL") EXCEPT !.status = "NO_FILL"])

-----------------------------------------------------------------------------

(* Mutant: the target goes before the stop within a minute. *)
IntrabarTargetFirst(ms, fillMinute) ==
    LET ending == {m \in ms : StopHit({m}) \/ (TargetHit({m}) /\ m # fillMinute)}
    IN  CASE ending = {} -> "none"
          [] ending # {} /\ TargetHit({Min(ending)}) -> "TP1"
          [] OTHER -> "STOP"

(* evaluate_intrabar_path: the stop comes first within a minute, and the   *)
(* minute of the fill earns no target.                                     *)
Intrabar(ms, fillMinute) ==
    LET ending == {m \in ms : StopHit({m}) \/ (TargetHit({m}) /\ m # fillMinute)}
    IN  CASE ending = {} -> "none"
          [] ending # {} /\ StopHit({Min(ending)}) -> "STOP"
          [] OTHER -> "TP1"

(* evaluate_forward_outcomes, of one bar: its minutes are asked for only   *)
(* when it touches both, and taken as they come.                           *)
BarOutcome(b, mins) ==
    LET all == MinutesOf(b)
        ms == mins \cap all
    IN  CASE StopHit(all) /\ TargetHit(all) /\ ms # {} -> Intrabar(ms, -1)
          [] StopHit(all) /\ ~(TargetHit(all) /\ ms # {}) -> "STOP"
          [] TargetHit(all) /\ ~StopHit(all) -> "TP1"
          [] OTHER -> "none"

Forward(bs, mins) ==
    LET ending == {b \in bs : BarOutcome(b, mins) # "none"}
    IN  IF ending = {} THEN "none" ELSE BarOutcome(Min(ending), mins)

FillBarOutcome(s) ==
    CASE s.stopped -> "STOP"
      [] ~s.stopped /\ s.rest # {} -> Intrabar(s.rest, Min(s.rest))
      [] OTHER -> "none"

FillBarClose(s, raw) ==
    LET holding == {b \in raw : BarOpen(b) < s.rec.fill /\ s.rec.fill <= BarClose(b)}
    IN  CASE s.bar >= 0 -> BarClose(s.bar)
          [] s.bar < 0 /\ holding # {} -> BarClose(Min(holding))
          [] OTHER -> s.rec.fill

FetchEnd(s) == Min({Now, s.rec.end})
Later(s, fillClose, bs) == {b \in bs : BarClose(b) > fillClose /\ BarClose(b) <= FetchEnd(s)}

(* The bars after the fill; when they decide nothing and end early, those  *)
(* that a further request finds, in their place.                           *)
Candidates(s, raw, mins) ==
    LET close == FillBarClose(s, raw)
        have == Later(s, close, raw)
        short == /\ Forward(have, mins) = "none" /\ FetchEnd(s) > close
                 /\ have = {} \/ BarClose(Max(have)) < FetchEnd(s)
        more == {b \in Later(s, close, Bars) : BarOpen(b) >= close}
    IN  IF short THEN {IF bs = {} THEN have ELSE bs : bs \in Found(more)} ELSE {have}

(* Stage 2, with the bars bs after the fill. *)
ResolveOutcome(s, raw, mins, bs) ==
    LET r == s.rec
        ended == IF FillBarOutcome(s) # "none" THEN FillBarOutcome(s) ELSE Forward(bs, mins)
    IN  CASE ended # "none" -> Resolved(r, "RESOLVED_TERMINAL", ended)
          [] ended = "none" /\ (bs = {} \/ Now < r.end) -> r
          [] ended = "none" /\ bs # {} /\ Now >= r.end /\ BarsCovered(bs, FillBarClose(s, raw), r.end) ->
                 Resolved(r, "RESOLVED_MATURED", "TIMEOUT")
          [] OTHER -> Pending(r, "OUTCOME_WINDOW_DATA_GAP")

(* _materialize_and_save_shadow_evaluation of a resolved record. *)
Materialized(r) == [r EXCEPT !.saved = r.resolved]

(* A call of resolve_pending_observations.  Nobody else writes to the      *)
(* record, so its writes are taken as one step, after any of which the     *)
(* process may die.                                                        *)
Resolve(raw, mins) ==
    /\ ~rec.resolved
    /\ LET s == IF rec.status = "FILLED" THEN Resumed ELSE ResolveFill(raw, mins)
       IN  \/ /\ s.rec.status # "FILLED"
              /\ rec' \in {s.rec, Materialized(s.rec)}
              /\ lossy' = (lossy \/ raw # Closed)
           \/ /\ s.rec.status = "FILLED"
              /\ \E bs \in Candidates(s, raw, mins) :
                    LET r == ResolveOutcome(s, raw, mins, bs) IN
                    /\ rec' \in {r, Materialized(r)}
                    /\ lossy' = (lossy \/ raw # Closed \/ bs # Later(s, FillBarClose(s, raw), Closed))
           \/ /\ s.rec.status = "FILLED"               \* it dies after update_shadow_fill
              /\ rec' = s.rec /\ lossy' = TRUE
    /\ UNCHANGED path

Next ==
    \/ \E r \in Ranges : Minute(r)
    \/ \E raw \in Fetches, mins \in {Traded, {}} : Resolve(raw, mins)

Spec == Init /\ [][Next]_vars

-----------------------------------------------------------------------------

AfterSignal(m) == Open(m) >= Signal
InWindow(m) == \E b \in Bars : m \in MinutesOf(b) /\ BarOpen(b) < WindowEnd

(***************************************************************************)
(* A signal that went without a fill had none: whatever candles were       *)
(* missing, from whichever request, no minute after the signal touched the *)
(* entry zone in the bars of the window.                                   *)
(***************************************************************************)
NoFillIsTrue ==
    rec.reason = "NO_FILL" => \A m \in Traded : AfterSignal(m) /\ InWindow(m) => ~Entry({m})

(***************************************************************************)
(* A target is earned: with nothing lost on the way, the stop was not      *)
(* touched from the first touch of the entry zone up to the minute of the  *)
(* target, however the bars were told apart.                               *)
(***************************************************************************)
TargetIsEarned ==
    rec.reason = "TP1" /\ ~lossy =>
        \E f, t \in Traded :
            /\ f < t /\ AfterSignal(f) /\ Entry({f}) /\ TargetHit({t})
            /\ \A m \in Traded : AfterSignal(m) /\ m < f => ~Entry({m})
            /\ \A m \in f..t : ~StopHit({m})

(***************************************************************************)
(* tests/test_market_watch.py:3814: a complete outcome window that touched *)
(* neither stop nor target becomes a TIMEOUT.  With nothing lost on the    *)
(* way, a horizon that ends with its last bar leaves no gap to wait for.   *)
(***************************************************************************)
CompleteWindowResolves ==
    ~lossy /\ (\E b \in Bars : BarClose(b) = rec.end)
        => rec.regime # "OUTCOME_WINDOW_DATA_GAP"

=============================================================================
