-------------------------- MODULE RecorderLedger --------------------------
(***************************************************************************)
(* MicrostructureStore: the daily partitions in which the recorder keeps   *)
(* its process instances, sessions and coverage segments, across           *)
(* reconnections, midnights, crashes and restarts; orphan recovery by      *)
(* lease; and the sealing of past days when the recorder stops.            *)
(*                                                                         *)
(* Every row knows the day of the partition it is in, which is the day it  *)
(* was inserted on, and every statement reaches only the rows of one       *)
(* partition.  Market data rows are left out: they are inserted under      *)
(* their own key and never touched again.                                  *)
(***************************************************************************)
EXTENDS Naturals, FiniteSets

CONSTANTS
    Streams,        \* "depth" and "trade"
    Day,            \* length of a day
    LastTime,       \* bound on time
    Lease,          \* lease_timeout_ms
    Grace,          \* finalization_grace_ms
    MaxRuns,        \* bound on the starts of the recorder
    MaxSessions     \* bound on the connections of a stream per run

VARIABLES
    now,        \* time
    run,        \* the running instance, 0 when there is none
    runs,       \* number of instances so far
    socket,     \* stream -> connected
    instances,  \* process_instances: [id, day, beat, st]
    sessions,   \* sessions: [run, stream, n, day, open]
    segments,   \* coverage_segments: [run, stream, n, day, end, valid, open]
    gaps,       \* gaps of kind PROCESS_OR_HOST_GAP: [run, start, end]
    manifest,   \* days in finalized-partitions
    dead        \* history: run -> time of its crash or stop

vars == <<now, run, runs, socket, instances, sessions, segments, gaps, manifest, dead>>

----------------------------------------------------------------------------

DayOf(t) == t \div Day
Runs == 1 .. MaxRuns
Never == LastTime + Lease + 1

(* Mutant: the manifest is not consulted before a write. *)
WritableAlways(d) == TRUE

(* _is_finalized guards every statement on a partition. *)
Writable(d) == d \notin manifest

Init ==
    /\ now = 0 /\ run = 0 /\ runs = 0 /\ socket = [s \in Streams |-> FALSE]
    /\ instances = {} /\ sessions = {} /\ segments = {} /\ gaps = {}
    /\ manifest = {} /\ dead = [r \in Runs |-> Never]

Tick ==
    /\ now < LastTime
    /\ now' = now + 1
    /\ UNCHANGED <<run, runs, socket, instances, sessions, segments, gaps, manifest, dead>>

----------------------------------------------------------------------------
(* The statements, on one set of rows.                                      *)

Expired(i, t) == i.st = "ACTIVE" /\ i.beat + Lease < t

(* recover_orphan_instances(t, exclude): the expired instances, with the    *)
(* sessions and segments of their own partition, end with their lease, and  *)
(* the time since then is a gap.                                            *)
Orphans(t, exclude) ==
    {i \in instances : Writable(i.day) /\ Expired(i, t) /\ i.id # exclude}

(* Mutant: the dead instance is given the time up to its recovery. *)
LeaseEndNow(o) == now

LeaseEnd(o) == o.beat + Lease

RecoveredInstances(O) == (instances \ O) \cup {[o EXCEPT !.st = "ORPHANED"] : o \in O}
RecoveredSessions(O) ==
    {IF \E o \in O : s.run = o.id /\ s.day = o.day THEN [s EXCEPT !.open = FALSE] ELSE s
        : s \in sessions}
RecoveredSegments(O) ==
    {LET mine == {o \in O : g.run = o.id /\ g.day = o.day} IN
     IF mine = {} \/ ~g.open THEN g
     ELSE [g EXCEPT !.open = FALSE, !.end = LeaseEnd(CHOOSE o \in mine : TRUE)]
        : g \in segments}
RecoveredGaps(O, t) ==
    gaps \cup {[run |-> o.id, start |-> LeaseEnd(o), end |-> t] : o \in O}

(* heartbeat: in every open partition the instance, its open sessions and   *)
(* its open segments are carried on to t.                                   *)
Beat(G, r, t) ==
    {IF g.run = r /\ g.open /\ Writable(g.day) THEN [g EXCEPT !.end = t] ELSE g : g \in G}
BeatInstances(I, r, t) ==
    {IF i.id = r /\ i.st = "ACTIVE" /\ Writable(i.day) THEN [i EXCEPT !.beat = t] ELSE i
        : i \in I}

(* A segment is closed at t. *)
Closed(g, t) == [g EXCEPT !.open = FALSE, !.end = t]

OpenSegment(G, s, n, valid) ==
    G \cup {[run |-> run, stream |-> s, n |-> n, day |-> DayOf(now), end |-> now,
             valid |-> valid, open |-> TRUE]}

SegmentNo(s) == Cardinality({g \in segments : g.run = run /\ g.stream = s})

----------------------------------------------------------------------------
(* The recorder.                                                            *)

(* instance_start: recovery, then the row of the new instance. *)
Start ==
    LET O == Orphans(now, 0) IN
    /\ run = 0 /\ runs < MaxRuns /\ Writable(DayOf(now))
    /\ run' = runs + 1 /\ runs' = runs + 1
    /\ instances' = RecoveredInstances(O) \cup
                    {[id |-> runs + 1, day |-> DayOf(now), beat |-> now, st |-> "ACTIVE"]}
    /\ sessions' = RecoveredSessions(O)
    /\ segments' = RecoveredSegments(O)
    /\ gaps' = RecoveredGaps(O, now)
    /\ UNCHANGED <<now, socket, manifest, dead>>

(* session_start: a trade stream is valid at once, a depth stream is not.   *)
Connect(s) ==
    LET n == Cardinality({x \in sessions : x.run = run /\ x.stream = s}) IN
    /\ run # 0 /\ ~socket[s] /\ n < MaxSessions /\ Writable(DayOf(now))
    /\ socket' = [socket EXCEPT ![s] = TRUE]
    /\ sessions' = sessions \cup {[run |-> run, stream |-> s, n |-> n,
                                   day |-> DayOf(now), open |-> TRUE]}
    /\ segments' = OpenSegment(segments, s, SegmentNo(s), s = "trade")
    /\ UNCHANGED <<now, run, runs, instances, gaps, manifest, dead>>

(* depth_sequence_state: the open depth segments of every open partition    *)
(* end and the next one begins in the partition of today.                   *)
SequenceState(valid) ==
    OpenSegment({IF g.run = run /\ g.stream = "depth" /\ g.open /\ Writable(g.day)
                 THEN Closed(g, now) ELSE g : g \in segments},
                "depth", SegmentNo("depth"), valid)

(* The book of the depth stream is synchronised. *)
Synchronise ==
    /\ run # 0 /\ "depth" \in Streams /\ socket["depth"] /\ Writable(DayOf(now))
    /\ ~ \E g \in segments : g.run = run /\ g.stream = "depth" /\ g.open /\ g.valid
    /\ segments' = SequenceState(TRUE)
    /\ UNCHANGED <<now, run, runs, socket, instances, sessions, gaps, manifest, dead>>

(* session_end: the session, and the open segments of its stream in the     *)
(* partition of the session.                                                *)
EndSession(s, G) ==
    LET x == CHOOSE x \in sessions : x.run = run /\ x.stream = s /\ x.open IN
    /\ sessions' = (sessions \ {x}) \cup {[x EXCEPT !.open = FALSE]}
    /\ segments' = {IF g.run = run /\ g.stream = s /\ g.open /\ g.day = x.day
                    THEN Closed(g, now) ELSE g : g \in G}

(* The socket ends by itself, or fails; a failing depth stream first        *)
(* records that its sequence is broken.                                     *)
Disconnect(s, fails) ==
    /\ run # 0 /\ socket[s] /\ Writable(DayOf(now))
    /\ socket' = [socket EXCEPT ![s] = FALSE]
    /\ EndSession(s, IF fails /\ s = "depth" THEN SequenceState(FALSE) ELSE segments)
    /\ UNCHANGED <<now, run, runs, instances, gaps, manifest, dead>>

(* The heartbeat thread: recovery of others, then the own rows. *)
Heartbeat ==
    LET O == Orphans(now, run) IN
    /\ run # 0
    /\ instances' = BeatInstances(RecoveredInstances(O), run, now)
    /\ sessions' = RecoveredSessions(O)
    /\ segments' = Beat(RecoveredSegments(O), run, now)
    /\ gaps' = RecoveredGaps(O, now)
    /\ UNCHANGED <<now, run, runs, socket, manifest, dead>>

(* finalize_partitions: a past day with no open session in its partition,   *)
(* after the grace, is hashed into the manifest.                            *)
Sealable(d) ==
    /\ \E i \in instances : i.day = d
       \/ \E x \in sessions : x.day = d
    /\ (d + 1) * Day + Grace <= now
    /\ ~ \E x \in sessions' : x.day = d /\ x.open

(* The recorder stops: the streams end their sessions, instance_end beats a *)
(* last time and closes what is left, and the past days are sealed.         *)
Stop ==
    LET O == Orphans(now, run) IN
    /\ run # 0
    /\ run' = 0 /\ socket' = [s \in Streams |-> FALSE]
    /\ dead' = [dead EXCEPT ![run] = now]
    /\ instances' = {IF i.id = run /\ i.st = "ACTIVE" /\ Writable(i.day)
                     THEN [i EXCEPT !.st = "CLOSED"] ELSE i
                        : i \in BeatInstances(RecoveredInstances(O), run, now)}
    /\ sessions' = {IF x.run = run THEN [x EXCEPT !.open = FALSE] ELSE x
                        : x \in RecoveredSessions(O)}
    /\ segments' = {IF g.run = run /\ g.open /\ Writable(g.day) THEN Closed(g, now) ELSE g
                        : g \in RecoveredSegments(O)}
    /\ gaps' = RecoveredGaps(O, now)
    /\ manifest' = manifest \cup {d \in 0 .. DayOf(now) : Sealable(d)}
    /\ UNCHANGED <<now, runs>>

(* The process or the host dies: nothing is written. *)
Crash ==
    /\ run # 0
    /\ run' = 0 /\ socket' = [s \in Streams |-> FALSE]
    /\ dead' = [dead EXCEPT ![run] = now]
    /\ UNCHANGED <<now, runs, instances, sessions, segments, gaps, manifest>>

Next ==
    \/ Tick \/ Start \/ Synchronise \/ Heartbeat \/ Stop \/ Crash
    \/ \E s \in Streams : Connect(s)
    \/ \E s \in Streams, fails \in BOOLEAN : Disconnect(s, fails)

Spec == Init /\ [][Next]_vars

----------------------------------------------------------------------------

(* A sealed partition never changes again: no session, segment, instance or *)
(* gap of its day is inserted, closed or carried on, by any later process.  *)
InDay(R, d) == {r \in R : r.day = d}
SealedStays ==
    \A d \in manifest :
        /\ d \in manifest'
        /\ InDay(instances', d) = InDay(instances, d)
        /\ InDay(sessions', d) = InDay(sessions, d)
        /\ InDay(segments', d) = InDay(segments, d)
        /\ {g \in gaps' : DayOf(g.start) = d} = {g \in gaps : DayOf(g.start) = d}
SealedIsFinal == [][SealedStays]_vars

(* Coverage is not invented: a segment of a process that is gone ends at    *)
(* the latest one lease after its end, and a running process has written    *)
(* none beyond the present.                                                 *)
CoverageWasAlive ==
    \A g \in segments : g.end <= IF g.run = run THEN now ELSE dead[g.run] + Lease

=============================================================================
