---------------------------- MODULE DepthStream ----------------------------
(***************************************************************************)
(* The depth recorder of the microstructure campaign: LocalOrderBook and   *)
(* the depth_loop of run_daemon, against an exchange that changes one      *)
(* price level per update, packs consecutive updates into diff events,     *)
(* loses some of them, and serves REST snapshots while the stream runs.    *)
(*                                                                         *)
(* A side of the book is a function from its price levels, numbered from   *)
(* the best one, to a quantity, 0 where there is no level; the quantity an *)
(* update leaves is the number of that update, so that two books are equal *)
(* only when they hold the same updates.  A sample row keeps the book it   *)
(* was computed from.  One recorder process runs throughout, so that no    *)
(* partition is sealed meanwhile.                                          *)
(***************************************************************************)
EXTENDS Naturals, Sequences, FiniteSets, FiniteSetsExt

CONSTANTS
    Levels,         \* price levels
    Limit,          \* levels of a side that a REST snapshot serves
    MaxUpdate,      \* bound on the updates of the exchange
    MaxSessions,    \* bound on the connections of the depth stream
    MaxDay          \* bound on the days

VARIABLES
    changes,    \* the exchange's updates: sequence of [level, gone]
    sent,       \* final update id of the last event the exchange packed
    wire,       \* events on the connection that were not read yet
    day,        \* today, whose partition is written to
    session,    \* number of the connection, whether it is open, and the day
                \* whose partition holds its row
    book,       \* LocalOrderBook: levels and update_id (0: None), with the
                \* lastUpdateId of its snapshot as history
    buffered,   \* events kept until the book is bootstrapped
    snapshot,   \* snapshot_task: [st, last]
    samples,    \* book_samples: final_update_id, with the book as history
    depths,     \* depth_events: final update ids
    segments    \* OPEN depth rows of coverage_segments: the day of their
                \* partition and sequence_valid, with the session that wrote
                \* them and the day of its row as history

vars == <<changes, sent, wire, day, session, book, buffered, snapshot, samples, depths, segments>>

----------------------------------------------------------------------------

Empty == [l \in Levels |-> 0]
NoBook == [levels |-> Empty, update_id |-> 0, base |-> 0]
NoTask == [st |-> "none", last |-> 0]

(* The exchange's book after its first n updates. *)
Truth(n) ==
    [l \in Levels |->
        LET touched == {k \in 1 .. n : changes[k].level = l}
            newest == CHOOSE k \in touched : \A j \in touched : j <= k
        IN IF touched = {} \/ changes[newest].gone THEN 0 ELSE newest]

(* What a snapshot of that book serves: its best levels, up to the limit.  *)
Ahead(n, l) == {m \in Levels : m < l /\ Truth(n)[m] # 0}
Served(n) == [l \in Levels |-> IF Cardinality(Ahead(n, l)) < Limit THEN Truth(n)[l] ELSE 0]

Init ==
    /\ changes = <<>> /\ sent = 0 /\ wire = <<>> /\ day = 0
    /\ session = [n |-> 0, open |-> FALSE, day |-> 0]
    /\ book = NoBook /\ buffered = <<>> /\ snapshot = NoTask
    /\ samples = <<>> /\ depths = {} /\ segments = {}

----------------------------------------------------------------------------
(* The exchange.                                                            *)

Update(l, gone) ==
    /\ Len(changes) < MaxUpdate
    /\ changes' = Append(changes, [level |-> l, gone |-> gone])
    /\ UNCHANGED <<sent, wire, day, session, book, buffered, snapshot, samples, depths, segments>>

(* The updates since the last event become the next one; it reaches an open *)
(* connection, or is lost.                                                  *)
Event(n) ==
    [first |-> sent + 1, final |-> n, previous |-> sent,
     levels |-> {changes[k].level : k \in sent + 1 .. n}, after |-> Truth(n)]

Pack(lost) ==
    /\ sent < Len(changes)
    /\ sent' = Len(changes)
    /\ wire' = IF session.open /\ ~lost THEN Append(wire, Event(Len(changes))) ELSE wire
    /\ UNCHANGED <<changes, day, session, book, buffered, snapshot, samples, depths, segments>>

(* The REST snapshot is taken at any moment between its request and the     *)
(* message that finds its task done; the request may fail as well.          *)
Answer ==
    /\ snapshot.st = "asked"
    /\ snapshot' \in {[st |-> "done", last |-> Len(changes)], [st |-> "failed", last |-> 0]}
    /\ UNCHANGED <<changes, sent, wire, day, session, book, buffered, samples, depths, segments>>

Midnight ==
    /\ day < MaxDay
    /\ day' = day + 1
    /\ UNCHANGED <<changes, sent, wire, session, book, buffered, snapshot, samples, depths, segments>>

----------------------------------------------------------------------------
(* LocalOrderBook.                                                          *)

(* _apply_levels: the quantities of the event replace those of the book.    *)
ApplyLevels(b, e) ==
    [levels |-> [l \in Levels |-> IF l \in e.levels THEN e.after[l] ELSE b.levels[l]],
     update_id |-> e.final, base |-> b.base]

(* Mutant: continuity is only asked of the first update id. *)
FollowsLoosely(b, e) == e.first > b.update_id

(* pu continuity of the event with the book. *)
Follows(b, e) == e.previous = b.update_id

(* apply: an old event is skipped, a discontinuity resets the book and      *)
(* raises SequenceGap (NoBook).                                             *)
Apply(b, e) ==
    IF b.update_id = 0 \/ e.final <= b.update_id THEN b
    ELSE IF Follows(b, e) THEN ApplyLevels(b, e) ELSE NoBook

(* The first event kept must bridge the snapshot. *)
Bridges(e, last) == e.first <= last /\ last <= e.final

(* bootstrap: of the events from the snapshot on, the first must bridge it  *)
(* and is applied to the levels served, the others follow.  NoBook stands   *)
(* for SequenceGap.                                                         *)
Bootstrap(last, events) ==
    LET kept == {i \in 1 .. Len(events) : events[i].final >= last}
        first == Min(kept)
        served == [levels |-> Served(last), update_id |-> last, base |-> last]
        after[i \in 0 .. Len(events)] ==
            CASE i < first -> served
              [] i = first -> ApplyLevels(served, events[i])
              [] i > first /\ i \in kept -> Apply(after[i - 1], events[i])
              [] OTHER -> after[i - 1]
    IN IF kept = {} \/ ~Bridges(events[first], last) THEN NoBook ELSE after[Len(events)]

----------------------------------------------------------------------------
(* depth_loop.                                                              *)

(* A row of coverage_segments goes to the partition of its own day. *)
Segment(s, valid) ==
    [day |-> day, valid |-> valid, session |-> s.n, opened |-> s.day]

(* A new connection: session_start opens a segment that is not valid yet.   *)
Connect ==
    /\ ~session.open /\ session.n < MaxSessions
    /\ session' = [n |-> session.n + 1, open |-> TRUE, day |-> day]
    /\ wire' = <<>> /\ book' = NoBook /\ buffered' = <<>> /\ snapshot' = NoTask
    /\ segments' = segments \cup {Segment(session', FALSE)}
    /\ UNCHANGED <<changes, sent, day, samples, depths>>

(* append_book_sample: INSERT OR IGNORE under the event's update id. *)
Sample(e, b) ==
    IF \E k \in 1 .. Len(samples) : samples[k].id = e.final THEN samples
    ELSE Append(samples, [id |-> e.final, levels |-> b.levels, base |-> b.base])

(* A message while the book is not bootstrapped: it is buffered, the        *)
(* snapshot is asked for if it was not, and a finished task is used: it     *)
(* failed, its snapshot does not fit (both are recorded as gaps and asked   *)
(* again later), or the book is synchronised.  depth_sequence_state then    *)
(* closes every OPEN depth segment, of all partitions, and opens a valid    *)
(* one in today's.                                                          *)
Buffer ==
    LET e == Head(wire)
        events == Append(buffered, e)
        b == Bootstrap(snapshot.last, events)
    IN
    /\ session.open /\ wire # <<>> /\ book.update_id = 0
    /\ wire' = Tail(wire)
    /\ depths' = depths \cup {e.final}
    /\ \/ /\ snapshot.st \in {"none", "asked"}
          /\ snapshot' = [st |-> "asked", last |-> 0]
          /\ buffered' = events
          /\ UNCHANGED <<book, samples, segments>>
       \/ /\ snapshot.st = "failed" \/ (snapshot.st = "done" /\ b = NoBook)
          /\ snapshot' = NoTask
          /\ buffered' = events
          /\ UNCHANGED <<book, samples, segments>>
       \/ /\ snapshot.st = "done" /\ b # NoBook
          /\ book' = b
          /\ buffered' = <<>> /\ snapshot' = NoTask
          /\ samples' = Sample(e, b)
          /\ segments' = {Segment(session, TRUE)}
    /\ UNCHANGED <<changes, sent, day, session>>

(* session_end closes the OPEN depth segments of the partition that holds   *)
(* the session's row, and no others.                                        *)
SessionEnd(open) == {g \in open : g.day # session.day}

(* The connection ends: the socket is left to the next iteration of the     *)
(* loop.  After a failure depth_sequence_state has closed every segment and *)
(* opened one that is not valid; a socket that is closed cleanly, or a      *)
(* cancellation, only ends the session.                                     *)
Hangup(failed) ==
    /\ session' = [session EXCEPT !.open = FALSE]
    /\ segments' = SessionEnd(IF failed THEN {Segment(session, FALSE)} ELSE segments)

(* A message for a synchronised book: it is applied and sampled, or the     *)
(* discontinuity resets the book and the connection is given up.            *)
Follow ==
    LET e == Head(wire)
        b == Apply(book, e)
    IN
    /\ session.open /\ wire # <<>> /\ book.update_id # 0
    /\ wire' = Tail(wire)
    /\ depths' = depths \cup {e.final}
    /\ book' = b
    /\ IF b = NoBook
       THEN Hangup(TRUE) /\ UNCHANGED samples
       ELSE samples' = Sample(e, b) /\ UNCHANGED <<session, segments>>
    /\ UNCHANGED <<changes, sent, day, buffered, snapshot>>

(* Any other failure, or the end of the socket. *)
Disconnect(failed) ==
    /\ session.open
    /\ Hangup(failed)
    /\ UNCHANGED <<changes, sent, wire, day, book, buffered, snapshot, samples, depths>>

Next ==
    \/ \E l \in Levels, gone \in BOOLEAN : Update(l, gone)
    \/ \E lost \in BOOLEAN : Pack(lost)
    \/ Answer \/ Midnight \/ Connect \/ Buffer \/ Follow
    \/ \E failed \in BOOLEAN : Disconnect(failed)

Spec == Init /\ [][Next]_vars

----------------------------------------------------------------------------

(* The levels of a local book against the exchange's book at its update    *)
(* id: a level that is listed is exact, and one that is missing has not    *)
(* changed since the snapshot, which did not reach down to it.             *)
Exact(levels, id, base) ==
    \A l \in Levels :
        \/ levels[l] = Truth(id)[l]
        \/ levels[l] = 0 /\ Served(base)[l] = 0 /\ Truth(id)[l] <= base

Synchronised == session.open /\ book.update_id # 0

(* The local book is the exchange's at the update id it carries, as deep   *)
(* as its snapshot, whatever was lost, and so is the book of every sample. *)
(* While there is one, its own segment is OPEN, valid and the only one.  A *)
(* valid segment is OPEN without it in one case, which session_end leaves  *)
(* behind: the book was synchronised on a later day than its session began. *)
RecordedBooksAreExact ==
    /\ book.update_id # 0 => Exact(book.levels, book.update_id, book.base)
    /\ \A k \in 1 .. Len(samples) : Exact(samples[k].levels, samples[k].id, samples[k].base)
    /\ Synchronised =>
           segments # {} /\ \A g \in segments : g.valid /\ g.session = session.n
    /\ \A g \in segments : g.valid => Synchronised \/ g.opened < g.day

=============================================================================
