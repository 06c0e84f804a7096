--------------------------- MODULE CoverageAudit ---------------------------
(***************************************************************************)
(* MicrostructureStore.status: how complete the recorded aggregates are,   *)
(* computed from the coverage segments and gaps of all partitions with     *)
(* merged intervals, running hints and a summary that is cached for every  *)
(* sealed day, and checked against the definition by single instants.      *)
(*                                                                         *)
(* Trade, depth and sequence-valid segments go through the same code; one  *)
(* kind is kept.  The rows of a partition are read or come from the cache  *)
(* under the file's fingerprint, which makes no difference to their        *)
(* content; only the cached bucket summaries can be stale.  A day has a    *)
(* partition once a row was written on it, and status looks at no others.  *)
(***************************************************************************)
EXTENDS Integers, Sequences, SequencesExt, FiniteSets, FiniteSetsExt

CONSTANTS
    Day,            \* length of a day
    Horizon,        \* bound on time
    Intervals,      \* INTERVALS_MS
    MaxRows         \* bound on the segments, and on the gaps

VARIABLES
    now,        \* time
    segs,       \* coverage segments <<start, end>>, the last may be open
    open,       \* whether the last segment is still carried on
    gaps,       \* gaps <<start, end>>
    files,      \* days that have a partition
    sealed,     \* days of the manifest
    summary     \* stats cache: sealed day -> bucket_summary

vars == <<now, segs, open, gaps, files, sealed, summary>>

----------------------------------------------------------------------------

DayOf(t) == t \div Day
Days == 0 .. DayOf(Horizon)
NoSummary == [known |-> FALSE]

Init ==
    /\ now = 0 /\ segs = <<>> /\ open = FALSE /\ gaps = {}
    /\ files = {} /\ sealed = {}
    /\ summary = [d \in Days |-> NoSummary]

(* The recorder: time passes and an open segment is carried on. *)
Tick ==
    /\ now < Horizon
    /\ now' = now + 1
    /\ segs' = IF open THEN [segs EXCEPT ![Len(segs)] = <<@[1], now + 1>>] ELSE segs
    /\ UNCHANGED <<open, gaps, files, sealed, summary>>

(* _connect: the first row of a day makes its partition. *)
FileOf(t) == files' = files \cup {DayOf(t)}

(* A row that status reads nothing else from: of an instance, a trade, an  *)
(* event, a clock measurement.                                             *)
Write ==
    /\ FileOf(now)
    /\ UNCHANGED <<now, segs, open, gaps, sealed, summary>>

BeginSegment ==
    /\ ~open /\ Len(segs) < MaxRows
    /\ segs' = Append(segs, <<now, now>>) /\ open' = TRUE
    /\ FileOf(now)
    /\ UNCHANGED <<now, gaps, sealed, summary>>

EndSegment ==
    /\ open /\ open' = FALSE
    /\ UNCHANGED <<now, segs, gaps, files, sealed, summary>>

(* A gap is filed under the day it begins.  It reaches back at most to the *)
(* end of a dead instance's lease, which comes after every sealed day: the *)
(* instance is recovered before a day that follows it is sealed.           *)
Gap(s) ==
    /\ Cardinality(gaps) < MaxRows /\ s <= now
    /\ \A d \in sealed : (d + 1) * Day <= s
    /\ gaps' = gaps \cup {<<s, now>>}
    /\ FileOf(s)
    /\ UNCHANGED <<now, segs, open, sealed, summary>>

(* finalize_partitions runs when the recorder has stopped. *)
Seal(d) ==
    /\ ~open /\ d \in files \ sealed /\ (d + 1) * Day <= now
    /\ sealed' = sealed \cup {d}
    /\ UNCHANGED <<now, segs, open, gaps, files, summary>>

----------------------------------------------------------------------------
(* The interval algorithms.                                                 *)

Larger(a, b) == IF a > b THEN a ELSE b
Smaller(a, b) == IF a < b THEN a ELSE b

(* v[1] + ... + v[n] *)
Added(v, n) ==
    LET sum[k \in 0 .. n] == IF k = 0 THEN 0 ELSE sum[k - 1] + v[k] IN sum[n]

Before(a, b) == a[1] < b[1] \/ (a[1] = b[1] /\ a[2] <= b[2])

Sorted(S) ==
    CHOOSE q \in [1 .. Cardinality(S) -> S] :
        /\ \A i \in S : \E k \in 1 .. Cardinality(S) : q[k] = i
        /\ \A j, k \in 1 .. Cardinality(S) : j < k => Before(q[j], q[k])

(* One interval of _merge_intervals: an empty one is dropped, one that      *)
(* touches the last is joined to it.                                        *)
Joined(merged, i) ==
    IF i[2] <= i[1] THEN merged
    ELSE IF merged # <<>> /\ i[1] <= merged[Len(merged)][2]
         THEN [merged EXCEPT ![Len(merged)] = <<@[1], Larger(@[2], i[2])>>]
         ELSE Append(merged, i)

MergeIntervals(S) ==
    LET merged[k \in 0 .. Cardinality(S)] ==
            IF k = 0 THEN <<>> ELSE Joined(merged[k - 1], Sorted(S)[k])
    IN merged[Cardinality(S)]

(* _covered_ms: the clipped intervals are joined while they are scanned.   *)
Clipped(S, start, end) ==
    {<<Larger(i[1], start), Smaller(i[2], end)>> : i \in {j \in S : j[2] > start /\ j[1] < end}}

Scanned(c, i) ==
    IF i[2] <= i[1] THEN c
    ELSE IF c.any /\ i[1] <= c.to
         THEN [c EXCEPT !.to = Larger(@, i[2])]
         ELSE [any |-> TRUE, sum |-> c.sum + (c.to - c.from), from |-> i[1], to |-> i[2]]

CoveredMs(S, start, end) ==
    LET clipped == Clipped(S, start, end)
        scan[k \in 0 .. Cardinality(clipped)] ==
            IF k = 0 THEN [any |-> FALSE, sum |-> 0, from |-> 0, to |-> 0]
            ELSE Scanned(scan[k - 1], Sorted(clipped)[k])
        last == scan[Cardinality(clipped)]
    IN last.sum + (last.to - last.from)

(* Mutant: bisect_right without the step back to the interval that may      *)
(* still cover the start.                                                   *)
BisectNext(merged, start, hint) ==
    LET before == {k \in hint .. Len(merged) : merged[k][1] <= start}
        index == IF before = {} THEN hint - 1 ELSE Max(before)
    IN IF before # {} /\ index < Len(merged) THEN index + 1
       ELSE IF index < 1 THEN 1 ELSE index

(* bisect_right(merged, (start, 10**18), lo=hint) - 1, at least 0, counted  *)
(* from 1: the last interval that begins at or before start.                *)
Bisect(merged, start, hint) ==
    LET before == {k \in hint .. Len(merged) : merged[k][1] <= start}
        index == IF before = {} THEN hint - 1 ELSE Max(before)
    IN IF index < 1 THEN 1 ELSE index

(* _fast_covered, from the hint on, up to the first interval past the end. *)
Overlap(i, start, end) == Larger(0, Smaller(i[2], end) - Larger(i[1], start))

FastCovered(merged, start, end, hint) ==
    IF merged = <<>> THEN [sum |-> 0, hint |-> hint]
    ELSE LET k == Bisect(merged, start, hint)
             covered == [j \in 1 .. Len(merged) |->
                            IF k <= j /\ merged[j][1] < end
                            THEN Overlap(merged[j], start, end) ELSE 0]
         IN [sum |-> Added(covered, Len(merged)), hint |-> k]

(* _fast_has_gap: a gap that ends where the bucket begins counts. *)
FastHasGap(merged, start, end, hint) ==
    IF merged = <<>> THEN [any |-> FALSE, hint |-> hint]
    ELSE LET k == Bisect(merged, start, hint)
         IN [any |-> \E j \in k .. Len(merged) : merged[j][1] < end /\ merged[j][2] >= start,
             hint |-> k]

----------------------------------------------------------------------------
(* status.                                                                  *)

SegmentSet == ToSet(segs)
EvaluationStart == IF segs = <<>> THEN now ELSE Min({i[1] : i \in SegmentSet})

(* The gaps of a partition are merged first, those of all of them again. *)
MergedGaps ==
    MergeIntervals(UNION {ToSet(MergeIntervals({g \in gaps : DayOf(g[1]) = d})) : d \in files})

(* minimum_*_coverage = 0.95. *)
Enough(covered, length) == 20 * covered >= 19 * length

(* The buckets of one interval that begin in range(first, last + 1,        *)
(* length), with the hints carried from bucket to bucket.                  *)
Count(c, start, length) ==
    LET gap == FastHasGap(MergedGaps, start, start + length, c.gapHint)
        cov == FastCovered(MergeIntervals(SegmentSet), start, start + length, c.covHint)
    IN [closed |-> c.closed + 1,
        affected |-> c.affected + (IF gap.any THEN 1 ELSE 0),
        complete |-> c.complete + (IF Enough(cov.sum, length) /\ ~gap.any THEN 1 ELSE 0),
        gapHint |-> gap.hint, covHint |-> cov.hint]

Buckets(length, first, last) ==
    LET number == IF first > last THEN 0 ELSE (last - first) \div length + 1
        count[n \in 0 .. number] ==
            IF n = 0 THEN [closed |-> 0, affected |-> 0, complete |-> 0, gapHint |-> 1, covHint |-> 1]
            ELSE Count(count[n - 1], first + (n - 1) * length, length)
        all == count[number]
    IN <<all.closed, all.affected, all.complete>>

(* The first bucket of a day. *)
FirstBucket(d, length) == Larger(d * Day, (EvaluationStart \div length) * length)

(* A sealed day: the cached summary if it was made from the same start of   *)
(* the evaluation, or both starts are before the day.                       *)
SummaryValid(d) ==
    /\ summary[d].known
    /\ \/ summary[d].start = EvaluationStart
       \/ summary[d].start <= d * Day /\ EvaluationStart <= d * Day

SealedBuckets(d) ==
    [i \in Intervals |-> IF SummaryValid(d) THEN summary[d].counts[i]
                         ELSE Buckets(i, FirstBucket(d, i), (d + 1) * Day - 1)]

(* An open day counts the buckets that are over. *)
OpenBuckets(d) ==
    [i \in Intervals |->
        LET end == (Smaller((d + 1) * Day, now) \div i) * i IN
        IF end < i THEN <<0, 0, 0>> ELSE Buckets(i, FirstBucket(d, i), end - i)]

DayBuckets(d) == IF d \in sealed THEN SealedBuckets(d) ELSE OpenBuckets(d)

(* The gaps of a window ending now: sealed days inside the window count as  *)
(* a whole, those before it by the gaps that spill over midnight, and the   *)
(* others by extremes or by a query.                                        *)
WindowGaps(d, start) ==
    LET rows == {g \in gaps : DayOf(g[1]) = d}
        query == Cardinality({g \in rows : g[1] < now /\ g[2] >= start})
        inside == d * Day >= start /\ (d + 1) * Day <= now
        spill == {g \in rows : g[2] >= (d + 1) * Day}
    IN
    IF d \notin sealed THEN query
    ELSE IF inside THEN Cardinality(rows)
    ELSE IF (d + 1) * Day <= start THEN Cardinality({g \in spill : g[1] < now /\ g[2] >= start})
    ELSE IF rows = {} \/ Max({g[2] : g \in rows}) < start THEN 0
    ELSE IF Min({g[1] : g \in rows}) >= start /\ (d + 1) * Day <= now THEN Cardinality(rows)
    ELSE query

(* What a call returns, over the partitions there are ... *)
ThisDay == DayOf(now)
Total(i, k) ==
    Added([n \in 1 .. ThisDay + 1 |->
              IF n - 1 \in files THEN DayBuckets(n - 1)[i][k] ELSE 0], ThisDay + 1)
WindowStart(window) == Larger(EvaluationStart, now - Smaller(window, now))
WindowGapCount(start) ==
    Added([n \in 1 .. ThisDay + 1 |->
              IF n - 1 \in files THEN WindowGaps(n - 1, start) ELSE 0], ThisDay + 1)

(* ... and what it leaves behind: the summaries of the sealed days it had   *)
(* to count.                                                                *)
Status ==
    /\ summary' = [d \in Days |->
                      IF d \in sealed /\ ~SummaryValid(d)
                      THEN [known |-> TRUE, start |-> EvaluationStart,
                            counts |-> SealedBuckets(d)]
                      ELSE summary[d]]
    /\ UNCHANGED <<now, segs, open, gaps, files, sealed>>

Next ==
    \/ Tick \/ Write \/ BeginSegment \/ EndSegment \/ Status
    \/ \E s \in 0 .. Horizon : Gap(s)
    \/ \E d \in Days : Seal(d)

Spec == Init /\ [][Next]_vars

----------------------------------------------------------------------------

Instants(start, end) == {t \in start .. end - 1 : \E i \in SegmentSet : i[1] <= t /\ t < i[2]}
Overlapped(start, end) == \E g \in gaps : g[1] < g[2] /\ g[1] < end /\ g[2] >= start

(* What status reports is what the rows say: every bucket that is over is   *)
(* counted once, if a row was written on its day, and no other -- a day on  *)
(* which nothing ran lowers no ratio; it is complete when enough of its     *)
(* instants are covered and no gap touches it, although sealed days come    *)
(* from the cache; the covered time is the number of covered instants, and  *)
(* the gaps of a window are those that reach into it.                       *)
StatusIsExact ==
    LET bucketsOf(i) == {b \in 0 .. now : /\ b % i = 0 /\ b + i <= now
                                          /\ b >= (EvaluationStart \div i) * i
                                          /\ DayOf(b) \in files}
    IN
    /\ \A i \in Intervals :
           /\ Total(i, 1) = Cardinality(bucketsOf(i))
           /\ Total(i, 2) = Cardinality({b \in bucketsOf(i) : Overlapped(b, b + i)})
           /\ Total(i, 3) = Cardinality({b \in bucketsOf(i) :
                                /\ Enough(Cardinality(Instants(b, b + i)), i)
                                /\ ~Overlapped(b, b + i)})
    /\ \A window \in {Day, 2 * Day} :
           LET start == WindowStart(window) IN
           /\ CoveredMs(SegmentSet, start, now) = Cardinality(Instants(start, now))
           /\ WindowGapCount(start) =
                  Cardinality({g \in gaps : g[1] < now /\ g[2] >= start})

=============================================================================
