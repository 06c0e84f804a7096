------------------------- MODULE AccountWatchProofs -------------------------
(***************************************************************************)
(* Proofs about AccountWatch: for every set of items and every bound on    *)
(* changes and on waiting messages, a snapshot that new risk is judged by  *)
(* is current up to what waits on the stream, and the watch implements     *)
(* AccountAuthority.  The other watch, the scan of the market and what its *)
(* shadow observations come to, follows at the end.                        *)
(***************************************************************************)
EXTENDS AccountWatch, Integers, FiniteSetTheorems, SequenceTheorems, WellFoundedInduction, TLAPS

(* The message m says that item i has changed at t; one such is waiting.   *)
Brings(m, i, t) == m.kind = "update" /\ m.item = i /\ m.at = t
Waiting(q, i, t) == \E k \in 1..Len(q) : Brings(q[k], i, t)

(* View v shows item i as of t, or the change is still on its way in q; it *)
(* is not behind the last event that was applied, which is why a duplicate *)
(* may be skipped.                                                         *)
Shows(v, i, t, last, q) == v[i] >= last /\ (v[i] = t \/ Waiting(q, i, t))
Covers(v, i) == Shows(v, i, account[i], prior[i], queue)

(* No view and no event is ahead of the exchange.                          *)
Behind(v) == \A i \in Items : v[i] <= account[i]
Bounded ==
    /\ Behind(snap.view) /\ Behind(seen.view) /\ Behind(rest.view) /\ Behind(prior)
    /\ \A i \in Items : account[i] <= time

(* No message is ahead of the exchange, and one that tells of an old value *)
(* is followed by one with the new: what is on the socket came over it     *)
(* without a gap.                                                          *)
QueueInv ==
    /\ ~socket => queue = <<>>
    /\ \A k \in 1..Len(queue) : queue[k].kind = "update" =>
          \E l \in k..Len(queue) : Brings(queue[l], queue[k].item, account[queue[k].item])
    /\ \A k \in 1..Len(queue) : queue[k].at <= account[queue[k].item]

(* Where the stream, the REST read and those who wait for it stand.        *)
PhaseInv ==
    /\ answer["stream"] # "none" <=> stream = "repair"
    /\ rest.by # "none" => answer[rest.by] = "asked"
    /\ rest.by = "none" <=> rest.step = "none"
    /\ rest.step \in {"mark", "build", "commit"} => rest.got = Items
    /\ connected => stream \in {"repair", "join", "reading"}
    /\ connected \/ answer["stream"] = "ok" => snap.some
    /\ stream = "join" => seen.some

(* A read that may become the baseline, or that the stream waits for, was  *)
(* made on the socket that is open now.                                    *)
OnThisSocket(r) == r.by # "none" /\ (~r.moved \/ r.by = "stream")
RestInv == socket /\ OnThisSocket(rest) => \A i \in rest.got : Covers(rest.view, i)

(* The snapshot, once the stream may be joined to it, and the copy of it   *)
(* that run_user_stream is about to write back.                            *)
Joinable == connected \/ answer["stream"] = "ok"
SnapInv ==
    /\ socket /\ snap.rec /\ Joinable => \A i \in Items : Covers(snap.view, i)
    /\ socket /\ seen.rec /\ stream = "join" => \A i \in Items : Covers(seen.view, i)

Bound == MaxChanges \in Nat
IInv == Bound /\ TypeOK /\ Bounded /\ QueueInv /\ PhaseInv /\ RestInv /\ SnapInv

-----------------------------------------------------------------------------

LEMMA TimesNat == Bound => Times \subseteq Nat /\ 0 \in Times
BY DEF Bound, Times

LEMMA NothingYet ==
    ASSUME Bound
    PROVE  /\ Zero \in [Items -> Times] /\ \A i \in Items : Zero[i] = 0
           /\ NoSnap \in Snaps /\ NoSnap.view = Zero /\ ~NoSnap.some /\ ~NoSnap.rec
           /\ NoRest \in Rests /\ NoRest.by = "none" /\ NoRest.step = "none" /\ NoRest.view = Zero
           /\ NoRest.got = {}
<1>1. Zero \in [Items -> Times] /\ \A i \in Items : Zero[i] = 0
  BY TimesNat DEF Zero
<1>2. NoSnap \in Snaps /\ NoSnap.view = Zero /\ ~NoSnap.some /\ ~NoSnap.rec
  BY <1>1, TimesNat DEF NoSnap, Snaps
<1>3. /\ NoRest \in Rests /\ NoRest.by = "none" /\ NoRest.step = "none" /\ NoRest.view = Zero
      /\ NoRest.got = {}
  BY <1>1, TimesNat DEF NoRest, Rests, Callers
<1> QED
  BY <1>1, <1>2, <1>3

(* Moving the generation only marks the read that is under way.            *)
LEMMA GenerationMarks ==
    ASSUME NEW r \in Rests
    PROVE  /\ Generation(r) \in Rests
           /\ Generation(r).by = r.by /\ Generation(r).step = r.step
           /\ Generation(r).view = r.view /\ Generation(r).got = r.got
           /\ Generation(r).moved <=> r.by # "none"
BY DEF Generation, Rests

LEMMA StaleIsUnsound ==
    ASSUME NEW s \in Snaps
    PROVE  Stale(s) \in Snaps /\ Stale(s).view = s.view /\ ~Stale(s).rec /\ (Stale(s).some <=> s.some)
BY DEF Stale, Snaps

(* mark_stream_disconnected: no flag is left, and nothing that was read    *)
(* before counts as a baseline.                                            *)
LEMMA MarkClears ==
    ASSUME TypeOK, MarkDisconnected
    PROVE  /\ rest' = Generation(rest) /\ rest' \in Rests
           /\ ~connected' /\ ~reconciled' /\ connected' \in BOOLEAN /\ reconciled' \in BOOLEAN
           /\ snap' \in Snaps /\ snap'.view = snap.view /\ (snap'.some <=> snap.some)
           /\ ~(snap'.some /\ snap'.rec)
<1>1. rest' = Generation(rest) /\ rest' \in Rests
  BY GenerationMarks DEF TypeOK, MarkDisconnected
<1>2. CASE snap.some
  BY <1>1, <1>2, StaleIsUnsound DEF TypeOK, MarkDisconnected
<1>3. CASE ~snap.some
  BY <1>1, <1>3 DEF TypeOK, MarkDisconnected
<1> QED
  BY <1>2, <1>3

(* What a queue brings when a message is added to it or taken from it.     *)
LEMMA WaitingAppend ==
    ASSUME NEW q \in Seq(Messages), NEW m \in Messages, NEW i, NEW t
    PROVE  Waiting(Append(q, m), i, t) <=> Waiting(q, i, t) \/ Brings(m, i, t)
<1>1. /\ Len(q) \in Nat /\ Len(Append(q, m)) = Len(q) + 1
      /\ \A k \in 1..Len(q) : Append(q, m)[k] = q[k]
      /\ Append(q, m)[Len(q) + 1] = m
  BY AppendProperties, LenProperties
<1> QED
  BY <1>1 DEF Waiting

LEMMA WaitingTail ==
    ASSUME NEW q \in Seq(Messages), q # <<>>, NEW i, NEW t
    PROVE  Waiting(q, i, t) => Waiting(Tail(q), i, t) \/ Brings(Head(q), i, t)
<1>1. /\ Len(q) \in Nat \ {0} /\ Len(Tail(q)) = Len(q) - 1
      /\ \A k \in 1..Len(Tail(q)) : Tail(q)[k] = q[k + 1]
      /\ Head(q) = q[1]
  BY HeadTailProperties, EmptySeq, LenProperties
<1> SUFFICES ASSUME NEW k \in 1..Len(q), Brings(q[k], i, t), k # 1
             PROVE  Waiting(Tail(q), i, t)
  BY <1>1 DEF Waiting
<1>2. k - 1 \in 1..Len(Tail(q)) /\ Tail(q)[k - 1] = q[k]
  BY <1>1
<1> QED
  BY <1>2 DEF Waiting

-----------------------------------------------------------------------------
(* Every step keeps the types.                                             *)

LEMMA RestType == ASSUME Bound, TypeOK, Rest PROVE TypeOK'
<1>1. ASSUME NEW c \in Callers, RestStart(c) PROVE TypeOK'
  <2>1. PICK now \in Times : rest' = [NoRest EXCEPT !.by = c, !.step = "read", !.at = now]
    BY <1>1 DEF RestStart
  <2>2. rest' \in Rests
    BY <2>1, NothingYet DEF Rests
  <2> QED
    BY <1>1, <2>2 DEF TypeOK, RestStart, exchangeVars, socketVars
<1>2. CASE RestRead
  <2>1. PICK i \in Items \ rest.got :
           rest' = [rest EXCEPT !.view[i] = account[i], !.got = @ \cup {i},
                                !.step = IF rest.got \cup {i} = Items THEN "mark" ELSE "read"]
    BY <1>2 DEF RestRead
  <2>2. rest' \in Rests
    BY <2>1 DEF TypeOK, Rests
  <2> QED
    BY <1>2, <2>2 DEF TypeOK, RestRead, exchangeVars, socketVars
<1>3. CASE RestFails
  <2>1. rest' \in Rests /\ answer' \in [Callers -> {"none", "asked", "ok", "failed"}]
    BY <1>3, NothingYet DEF RestFails, TypeOK
  <2> QED
    BY <1>3, <2>1 DEF TypeOK, RestFails, exchangeVars, socketVars
<1>4. CASE RestMark
  <2>1. rest' \in Rests /\ reconciled' \in BOOLEAN
    BY <1>4 DEF RestMark, TypeOK, Rests
  <2> QED
    BY <1>4, <2>1 DEF TypeOK, RestMark, exchangeVars, socketVars
<1>5. CASE RestBuild
  <2>1. rest' \in Rests
    BY <1>5 DEF RestBuild, TypeOK, Rests
  <2> QED
    BY <1>5, <2>1 DEF TypeOK, RestBuild, exchangeVars, socketVars
<1>6. CASE RestCommit
  <2>1. rest' \in Rests /\ answer' \in [Callers -> {"none", "asked", "ok", "failed"}]
    BY <1>6, NothingYet DEF RestCommit, TypeOK
  <2>2. CASE rest.moved /\ snap.some
    <3>1. PICK t \in Times : snap' = [snap EXCEPT !.rec = FALSE, !.at = t]
      BY <1>6, <2>2 DEF RestCommit, TypeOK, Snaps, Rests
    <3>2. snap' \in Snaps /\ reconciled' \in BOOLEAN
      BY <1>6, <2>2, <3>1 DEF RestCommit, TypeOK, Snaps
    <3> QED
      BY <1>6, <2>1, <3>2 DEF TypeOK, RestCommit, exchangeVars, socketVars
  <2>3. CASE ~(rest.moved /\ snap.some)
    <3>1. snap' = Built /\ UNCHANGED reconciled
      BY <1>6, <2>3 DEF RestCommit
    <3>2. Built \in Snaps
      BY DEF TypeOK, Snaps, Rests, Built
    <3> QED
      BY <1>6, <2>1, <3>1, <3>2 DEF TypeOK, RestCommit, exchangeVars, socketVars
  <2> QED
    BY <2>2, <2>3
<1> QED
  BY <1>1, <1>2, <1>3, <1>4, <1>5, <1>6 DEF Rest

LEMMA ExchangeType == ASSUME Bound, TypeOK, Exchange PROVE TypeOK'
<1>1. CASE Change
  <2>1. time' = time + 1 /\ time' \in Times
    BY <1>1 DEF Change, TypeOK, Bound, Times
  <2>2. PICK i \in Items :
           /\ account' = [account EXCEPT ![i] = time + 1]
           /\ queue' = IF socket THEN Append(queue, [kind |-> "update", item |-> i, at |-> time + 1]) ELSE queue
    BY <1>1 DEF Change
  <2>3. [kind |-> "update", item |-> i, at |-> time + 1] \in Messages
    BY <2>1 DEF Messages
  <2>4. account' \in [Items -> Times] /\ queue' \in Seq(Messages)
    BY <2>1, <2>2, <2>3, AppendProperties DEF TypeOK
  <2> QED
    BY <1>1, <2>1, <2>4 DEF TypeOK, Change
<1>2. CASE Chatter
  <2>1. PICK i \in Items, k \in {"update", "foreign", "closing"} :
           queue' = Append(queue, [kind |-> k, item |-> i, at |-> account[i]])
    BY <1>2 DEF Chatter
  <2>2. [kind |-> k, item |-> i, at |-> account[i]] \in Messages
    BY DEF Messages, TypeOK
  <2>3. queue' \in Seq(Messages)
    BY <2>1, <2>2, AppendProperties DEF TypeOK
  <2> QED
    BY <1>2, <2>3 DEF TypeOK, Chatter, exchangeVars
<1>3. CASE SocketLost
  <2>1. queue' \in Seq(Messages) /\ socket' \in BOOLEAN
    BY <1>3, EmptySeq DEF SocketLost
  <2> QED
    BY <1>3, <2>1 DEF TypeOK, SocketLost, exchangeVars
<1> QED
  BY <1>1, <1>2, <1>3 DEF Exchange

LEMMA DropType ==
    ASSUME TypeOK, Drop, UNCHANGED <<exchangeVars, prior, seen>>
    PROVE  TypeOK'
<1>1. queue' \in Seq(Messages) /\ socket' \in BOOLEAN
  BY EmptySeq DEF Drop
<1>2. MarkDisconnected /\ answer' \in [Callers -> {"none", "asked", "ok", "failed"}]
  BY DEF Drop, TypeOK
<1> QED
  BY <1>1, <1>2, MarkClears DEF TypeOK, Drop, exchangeVars

LEMMA EventType == ASSUME Bound, TypeOK, HandleUserEvent PROVE TypeOK'
<1> DEFINE m == Head(queue)
<1>1. queue # <<>> /\ m \in Messages /\ Tail(queue) \in Seq(Messages)
  BY HeadTailProperties DEF HandleUserEvent, TypeOK
<1>2. m.item \in Items /\ m.at \in Times
  BY <1>1 DEF Messages
<1>3. UNCHANGED <<time, account, seen>>
  BY DEF HandleUserEvent, exchangeVars
<1>4. CASE /\ snap' = [snap EXCEPT !.view[m.item] = m.at, !.conn = TRUE]
           /\ prior' = [prior EXCEPT ![m.item] = m.at]
           /\ rest' = Generation(rest)
           /\ queue' = Tail(queue)
           /\ UNCHANGED <<socket, connected, reconciled, answer, stream>>
  <2>1. snap' \in Snaps
    BY <1>2, <1>4 DEF TypeOK, Snaps
  <2>2. prior' \in [Items -> Times] /\ rest' \in Rests
    BY <1>2, <1>4, GenerationMarks DEF TypeOK
  <2> QED
    BY <1>1, <1>3, <1>4, <2>1, <2>2 DEF TypeOK
<1>5. CASE /\ queue' = Tail(queue)
           /\ IF reconciled THEN UNCHANGED <<answer, stream>>
              ELSE stream' = "repair" /\ answer' = [answer EXCEPT !["stream"] = "asked"]
           /\ UNCHANGED <<socket, connected, reconciled, snap, prior, rest>>
  <2>1. answer' \in [Callers -> {"none", "asked", "ok", "failed"}]
    BY <1>5 DEF TypeOK
  <2>2. stream' \in {"off", "down", "repair", "join", "reading"}
    BY <1>5 DEF TypeOK
  <2> QED
    BY <1>1, <1>3, <1>5, <2>1, <2>2 DEF TypeOK
<1>6. CASE MarkDisconnected /\ After(m) /\ UNCHANGED prior
  <2>1. answer' \in [Callers -> {"none", "asked", "ok", "failed"}]
    BY <1>6 DEF After, TypeOK
  <2>2. /\ stream' \in {"off", "down", "repair", "join", "reading"} /\ socket' \in BOOLEAN
        /\ queue' \in Seq(Messages)
    BY <1>1, <1>6, EmptySeq DEF After, TypeOK
  <2> QED
    BY <1>3, <1>6, <2>1, <2>2, MarkClears DEF TypeOK
<1> QED
  BY <1>4, <1>5, <1>6 DEF HandleUserEvent

LEMMA UserStreamType == ASSUME Bound, TypeOK, UserStream PROVE TypeOK'
<1>1. CASE ConnectFails \/ RepairFails \/ ReadFails
  BY <1>1, DropType DEF ConnectFails, RepairFails, ReadFails
<1>2. CASE Connect
  <2>1. queue' \in Seq(Messages) /\ socket' \in BOOLEAN
    BY <1>2, EmptySeq DEF Connect
  <2>2. MarkDisconnected /\ answer' \in [Callers -> {"none", "asked", "ok", "failed"}]
    BY <1>2 DEF Connect, TypeOK
  <2> QED
    BY <1>2, <2>1, <2>2, MarkClears DEF TypeOK, Connect, exchangeVars
<1>3. CASE Join
  <2>1. answer' \in [Callers -> {"none", "asked", "ok", "failed"}]
    BY <1>3 DEF Join, TypeOK
  <2> QED
    BY <1>3, <2>1 DEF TypeOK, Join, exchangeVars, socketVars
<1>4. CASE Joined
  <2>1. snap' \in Snaps /\ seen' \in Snaps
    BY <1>4, NothingYet DEF Joined, TypeOK, Snaps
  <2> QED
    BY <1>4, <2>1 DEF TypeOK, Joined, exchangeVars, socketVars
<1>5. CASE HandleUserEvent
  BY <1>5, EventType
<1>6. CASE RefusedUnnoticed
  <2>1. rest' \in Rests
    BY <1>6 DEF RefusedUnnoticed, TypeOK, Rests
  <2>2. snap' \in Snaps
    BY <1>6, StaleIsUnsound DEF RefusedUnnoticed, TypeOK
  <2>3. queue' \in Seq(Messages)
    BY <1>6, HeadTailProperties DEF RefusedUnnoticed, TypeOK
  <2> QED
    BY <1>6, <2>1, <2>2, <2>3 DEF TypeOK, RefusedUnnoticed, exchangeVars
<1> QED
  BY <1>1, <1>2, <1>3, <1>4, <1>5, <1>6 DEF UserStream

LEMMA OthersType == ASSUME Bound, TypeOK, Others PROVE TypeOK'
<1>1. ASSUME NEW c \in Callers, Ask(c) PROVE TypeOK'
  <2>1. answer' \in [Callers -> {"none", "asked", "ok", "failed"}]
    BY <1>1 DEF Ask, TypeOK
  <2> QED
    BY <1>1, <2>1 DEF TypeOK, Ask, exchangeVars, socketVars
<1>2. CASE LoopFails
  <2>1. MarkDisconnected /\ answer' \in [Callers -> {"none", "asked", "ok", "failed"}]
    BY <1>2 DEF LoopFails, TypeOK
  <2> QED
    BY <1>2, <2>1, MarkClears DEF TypeOK, LoopFails, exchangeVars, socketVars
<1>3. CASE Begin
  BY <1>3 DEF TypeOK, Begin, exchangeVars, socketVars
<1>4. CASE Restart
  <2>1. answer' \in [Callers -> {"none", "asked", "ok", "failed"}] /\ queue' \in Seq(Messages)
    BY <1>4, EmptySeq DEF Restart
  <2>2. /\ snap' \in Snaps /\ seen' \in Snaps /\ prior' \in [Items -> Times] /\ rest' \in Rests
    BY <1>4, NothingYet, StaleIsUnsound DEF Restart, TypeOK
  <2> QED
    BY <1>4, <2>1, <2>2 DEF TypeOK, Restart, exchangeVars
<1> QED
  BY <1>1, <1>2, <1>3, <1>4 DEF Others

LEMMA StepType == ASSUME Bound, TypeOK, [Next]_vars PROVE TypeOK'
<1>1. CASE UNCHANGED vars
  BY <1>1 DEF vars, TypeOK
<1> QED
  BY <1>1, RestType, ExchangeType, UserStreamType, OthersType DEF Next

-----------------------------------------------------------------------------

(* On a socket that stays open, a view that covers an item goes on to      *)
(* cover it.                                                               *)
KeepsCover ==
    socket' => /\ socket
               /\ \A v \in [Items -> Times], i \in Items :
                     v[i] <= account[i] /\ Covers(v, i) => Shows(v, i, account'[i], prior'[i], queue')

LEMMA QuietCover == UNCHANGED <<account, prior, queue, socket>> => KeepsCover
BY DEF KeepsCover, Covers

LEMMA ClosedCover == ~socket' => KeepsCover
BY DEF KeepsCover

(* The event of a change waits behind it.                                  *)
LEMMA ExchangeCover == ASSUME IInv, Exchange PROVE KeepsCover
<1> SUFFICES ASSUME socket', NEW v \in [Items -> Times], NEW i \in Items, v[i] <= account[i], Covers(v, i)
             PROVE  socket /\ Shows(v, i, account'[i], prior'[i], queue')
  BY DEF KeepsCover, Exchange, Change, Chatter, SocketLost
<1>0. queue \in Seq(Messages) /\ account \in [Items -> Times] /\ Times \subseteq Nat
  BY TimesNat DEF IInv, TypeOK
<1>1. CASE Change
  <2>1. PICK j \in Items :
           /\ account' = [account EXCEPT ![j] = time + 1]
           /\ queue' = IF socket THEN Append(queue, [kind |-> "update", item |-> j, at |-> time + 1]) ELSE queue
    BY <1>1 DEF Change
  <2> DEFINE m == [kind |-> "update", item |-> j, at |-> time + 1]
  <2>2. socket /\ prior' = prior /\ queue' = Append(queue, m)
    BY <1>1, <2>1 DEF Change
  <2>3. m \in Messages /\ Brings(m, j, time + 1)
    BY <1>1 DEF Messages, Brings, Change, IInv, TypeOK, Bound, Times
  <2>4. CASE i = j
    <3>1. Waiting(queue', i, account'[i])
      BY <1>0, <2>1, <2>2, <2>3, <2>4, WaitingAppend
    <3> QED
      BY <2>2, <3>1 DEF Covers, Shows
  <2>5. CASE i # j
    <3>1. account'[i] = account[i]
      BY <1>0, <2>1, <2>5
    <3> QED
      BY <1>0, <2>2, <2>3, <3>1, WaitingAppend DEF Covers, Shows
  <2> QED
    BY <2>4, <2>5
<1>2. CASE Chatter
  <2>1. PICK j \in Items, k \in {"update", "foreign", "closing"} :
           queue' = Append(queue, [kind |-> k, item |-> j, at |-> account[j]])
    BY <1>2 DEF Chatter
  <2>2. [kind |-> k, item |-> j, at |-> account[j]] \in Messages
    BY <1>0 DEF Messages
  <2>3. socket /\ prior' = prior /\ account' = account
    BY <1>2 DEF Chatter, exchangeVars
  <2> QED
    BY <1>0, <2>1, <2>2, <2>3, WaitingAppend DEF Covers, Shows
<1> QED
  BY <1>1, <1>2 DEF Exchange, SocketLost

(* A duplicate brings nothing that a covering view does not show already.  *)
LEMMA DuplicateCover ==
    ASSUME IInv, queue # <<>>, Duplicate(Head(queue)), queue' = Tail(queue),
           UNCHANGED <<account, prior, socket>>
    PROVE  KeepsCover
<1> SUFFICES ASSUME socket', NEW v \in [Items -> Times], NEW i \in Items, v[i] <= account[i], Covers(v, i)
             PROVE  Shows(v, i, account[i], prior[i], Tail(queue))
  BY DEF KeepsCover
<1>0. queue \in Seq(Messages) /\ account \in [Items -> Times] /\ prior \in [Items -> Times] /\ Times \subseteq Nat
  BY TimesNat DEF IInv, TypeOK
<1>1. CASE Brings(Head(queue), i, account[i])
  <2>1. prior[i] = account[i]
    BY <1>1 DEF Brings, Duplicate
  <2>2. v[i] >= prior[i] /\ v[i] \in Nat /\ account[i] \in Nat
    BY <1>0 DEF Covers, Shows
  <2> QED
    BY <2>1, <2>2 DEF Shows
<1>2. CASE ~Brings(Head(queue), i, account[i])
  BY <1>0, <1>2, WaitingTail DEF Covers, Shows
<1> QED
  BY <1>1, <1>2

-----------------------------------------------------------------------------
(* The parts of the invariant, as far as a step leaves them alone.         *)

(* The snapshot keeps its view, or loses the flag.                         *)
LEMMA SnapKept ==
    ASSUME IInv, KeepsCover,
           snap'.rec /\ Joinable' => snap'.view = snap.view /\ snap.rec /\ Joinable,
           stream' = "join" => stream = "join" /\ seen' = seen
    PROVE  SnapInv'
<1>0. /\ snap.view \in [Items -> Times] /\ seen.view \in [Items -> Times]
      /\ Behind(snap.view) /\ Behind(seen.view)
  BY DEF IInv, TypeOK, Bounded, Snaps
<1>1. ASSUME socket', snap'.rec, Joinable', NEW i \in Items PROVE Covers(snap.view, i)
  BY <1>1 DEF IInv, SnapInv, KeepsCover
<1>2. ASSUME socket', snap'.rec, Joinable', NEW i \in Items PROVE Covers(snap.view, i)'
  <2>1. Shows(snap.view, i, account'[i], prior'[i], queue')
    BY <1>0, <1>1, <1>2 DEF KeepsCover, Behind
  <2> QED
    BY <1>2, <2>1 DEF Covers
<1>3. ASSUME socket', seen'.rec, stream' = "join", NEW i \in Items PROVE Covers(seen.view, i)'
  <2>1. Covers(seen.view, i)
    BY <1>3 DEF IInv, SnapInv, KeepsCover
  <2>2. Shows(seen.view, i, account'[i], prior'[i], queue')
    BY <1>0, <1>3, <2>1 DEF KeepsCover, Behind
  <2> QED
    BY <1>3, <2>2 DEF Covers
<1> QED
  BY <1>2, <1>3 DEF SnapInv

(* The read that is under way goes on as it was, or no longer counts.      *)
LEMMA RestKept ==
    ASSUME IInv, KeepsCover,
           OnThisSocket(rest') => OnThisSocket(rest) /\ rest'.view = rest.view /\ rest'.got = rest.got
    PROVE  RestInv'
<1>0. rest.view \in [Items -> Times] /\ rest.got \subseteq Items /\ Behind(rest.view)
  BY DEF IInv, TypeOK, Bounded, Rests
<1>1. ASSUME socket', OnThisSocket(rest'), NEW i \in rest'.got PROVE Covers(rest.view, i)'
  <2>1. i \in Items /\ Covers(rest.view, i)
    BY <1>0, <1>1 DEF IInv, RestInv, KeepsCover
  <2>2. Shows(rest.view, i, account'[i], prior'[i], queue')
    BY <1>0, <1>1, <2>1 DEF KeepsCover, Behind
  <2> QED
    BY <1>1, <2>2 DEF Covers
<1> QED
  BY <1>1 DEF RestInv, OnThisSocket

LEMMA QueueKept ==
    ASSUME IInv, UNCHANGED <<account, queue, socket>>
    PROVE  QueueInv'
BY DEF IInv, QueueInv, Brings

LEMMA BoundedKept ==
    ASSUME IInv, UNCHANGED <<account, time>>, Behind(snap'.view), Behind(seen'.view), Behind(rest'.view),
           Behind(prior')
    PROVE  Bounded'
BY DEF IInv, Bounded, Behind

LEMMA NothingBehind == IInv => Behind(Zero)
<1> SUFFICES ASSUME IInv, NEW i \in Items PROVE Zero[i] <= account[i]
  BY DEF Behind
<1>1. Zero[i] = 0 /\ account[i] \in Nat
  BY NothingYet, TimesNat DEF IInv, TypeOK
<1> QED
  BY <1>1

-----------------------------------------------------------------------------
(* The REST read.                                                          *)

LEMMA RestStartKeepsInv ==
    ASSUME IInv, TypeOK', NEW c \in Callers, RestStart(c)
    PROVE  IInv'
<1>1. PICK now \in Times : rest' = [NoRest EXCEPT !.by = c, !.step = "read", !.at = now]
  BY DEF RestStart
<1>2. rest'.by = c /\ rest'.step = "read" /\ rest'.view = Zero /\ rest'.got = {} /\ c # "none"
  BY <1>1 DEF NoRest, Callers
<1>3. /\ UNCHANGED <<time, account, socket, queue, connected, reconciled, snap, prior, answer, stream, seen>>
      /\ answer[c] = "asked"
  BY DEF RestStart, exchangeVars, socketVars
<1>4. Bounded' /\ QueueInv'
  BY <1>2, <1>3, BoundedKept, QueueKept, NothingBehind DEF IInv, Bounded
<1>5. PhaseInv'
  BY <1>2, <1>3 DEF IInv, PhaseInv
<1>6. RestInv'
  BY <1>2 DEF RestInv
<1>7. SnapInv'
  BY <1>3, QuietCover, SnapKept DEF Joinable
<1> QED
  BY <1>4, <1>5, <1>6, <1>7 DEF IInv, Bound

LEMMA RestReadKeepsInv == ASSUME IInv, TypeOK', RestRead PROVE IInv'
<1>1. PICK j \in Items \ rest.got :
         rest' = [rest EXCEPT !.view[j] = account[j], !.got = @ \cup {j},
                              !.step = IF rest.got \cup {j} = Items THEN "mark" ELSE "read"]
  BY DEF RestRead
<1>2. /\ rest'.by = rest.by /\ (rest'.moved <=> rest.moved) /\ rest'.got = rest.got \cup {j}
      /\ rest'.view = [rest.view EXCEPT ![j] = account[j]]
      /\ rest'.step = IF rest.got \cup {j} = Items THEN "mark" ELSE "read"
  BY <1>1 DEF IInv, TypeOK, Rests
<1>3. /\ UNCHANGED <<time, account, socket, queue, connected, reconciled, snap, prior, answer, stream, seen>>
      /\ rest.step = "read"
  BY DEF RestRead, exchangeVars, socketVars
<1>4. /\ rest.view \in [Items -> Times] /\ account \in [Items -> Times] /\ prior \in [Items -> Times]
      /\ Times \subseteq Nat /\ rest.got \subseteq Items
  BY TimesNat DEF IInv, TypeOK, Rests
<1>5. Behind(rest'.view)
  <2> SUFFICES ASSUME NEW i \in Items PROVE rest'.view[i] <= account[i]
    BY DEF Behind
  <2>1. rest.view[i] <= account[i]
    BY DEF IInv, Bounded, Behind
  <2>2. account[i] \in Nat
    BY <1>4
  <2> QED
    BY <1>2, <1>4, <2>1, <2>2
<1>6. Bounded' /\ QueueInv'
  BY <1>3, <1>5, BoundedKept, QueueKept DEF IInv, Bounded
<1>7. PhaseInv'
  BY <1>2, <1>3 DEF IInv, PhaseInv
<1>8. RestInv'
  <2> SUFFICES ASSUME socket', OnThisSocket(rest'), NEW i \in rest'.got PROVE Covers(rest.view, i)'
    BY DEF RestInv, OnThisSocket
  <2>1. CASE i = j
    <3>1. rest'.view[i] = account[i] /\ account[i] >= prior[i]
      BY <1>2, <1>4, <2>1 DEF IInv, Bounded, Behind
    <3> QED
      BY <1>3, <3>1 DEF Covers, Shows
  <2>2. CASE i # j
    <3>1. i \in rest.got /\ rest'.view[i] = rest.view[i]
      BY <1>2, <1>4, <2>2
    <3>2. Covers(rest.view, i)
      BY <1>2, <1>3, <3>1 DEF IInv, RestInv, OnThisSocket
    <3> QED
      BY <1>3, <3>1, <3>2 DEF Covers, Shows
  <2> QED
    BY <2>1, <2>2
<1>9. SnapInv'
  BY <1>3, QuietCover, SnapKept DEF Joinable
<1> QED
  BY <1>6, <1>7, <1>8, <1>9 DEF IInv, Bound

LEMMA RestFailsKeepsInv == ASSUME IInv, TypeOK', RestFails PROVE IInv'
<1>1. /\ UNCHANGED <<time, account, socket, queue, connected, reconciled, snap, prior, stream, seen>>
      /\ rest' = NoRest /\ rest.step = "read" /\ answer' = [answer EXCEPT ![rest.by] = "failed"]
  BY DEF RestFails, exchangeVars, socketVars
<1>2. rest'.by = "none" /\ rest'.step = "none" /\ rest'.view = Zero
  BY <1>1 DEF NoRest
<1>3. rest.by \in Callers /\ answer[rest.by] = "asked" /\ "stream" \in Callers
  BY <1>1 DEF IInv, TypeOK, PhaseInv, Rests, Callers
<1>4. answer'["stream"] = IF rest.by = "stream" THEN "failed" ELSE answer["stream"]
  BY <1>1, <1>3 DEF IInv, TypeOK
<1>5. Bounded' /\ QueueInv'
  BY <1>1, <1>2, BoundedKept, QueueKept, NothingBehind DEF IInv, Bounded
<1>6. PhaseInv'
  BY <1>1, <1>2, <1>3, <1>4 DEF IInv, PhaseInv
<1>7. RestInv'
  BY <1>2 DEF RestInv, OnThisSocket
<1>8. SnapInv'
  BY <1>1, <1>4, QuietCover, SnapKept DEF Joinable
<1> QED
  BY <1>5, <1>6, <1>7, <1>8 DEF IInv, Bound

LEMMA RestBuildKeepsInv == ASSUME IInv, TypeOK', RestMark \/ RestBuild PROVE IInv'
<1>1. /\ UNCHANGED <<time, account, socket, queue, connected, snap, prior, answer, stream, seen>>
      /\ rest.step \in {"mark", "build"}
  BY DEF RestMark, RestBuild, exchangeVars, socketVars
<1>2. /\ rest'.by = rest.by /\ (rest'.moved <=> rest.moved) /\ rest'.got = rest.got /\ rest'.view = rest.view
      /\ rest'.step \in {"build", "commit"}
  <2>1. rest \in Rests
    BY DEF IInv, TypeOK
  <2>2. CASE rest' = [rest EXCEPT !.step = "build"]
    BY <2>1, <2>2 DEF Rests
  <2>3. CASE rest' = [rest EXCEPT !.step = "commit", !.conn = connected, !.rec = reconciled]
    BY <2>1, <2>3 DEF Rests
  <2> QED BY <2>2, <2>3 DEF RestMark, RestBuild
<1>3. Bounded' /\ QueueInv'
  BY <1>1, <1>2, BoundedKept, QueueKept DEF IInv, Bounded
<1>4. PhaseInv'
  BY <1>1, <1>2 DEF IInv, PhaseInv
<1>5. RestInv'
  BY <1>1, <1>2, QuietCover, RestKept DEF OnThisSocket
<1>6. SnapInv'
  BY <1>1, QuietCover, SnapKept DEF Joinable
<1> QED
  BY <1>3, <1>4, <1>5, <1>6 DEF IInv, Bound

(***************************************************************************)
(* The commit.  A read whose generation moved leaves an unsound snapshot,  *)
(* unless there is none yet: then nobody has joined the stream, and the    *)
(* one who waits to join it is answered only by a read of its own.         *)
(***************************************************************************)
LEMMA RestCommitKeepsInv == ASSUME IInv, TypeOK', RestCommit PROVE IInv'
<1>1. /\ UNCHANGED <<time, account, socket, queue, connected, prior, stream, seen>>
      /\ rest' = NoRest /\ rest.step = "commit" /\ answer' = [answer EXCEPT ![rest.by] = "ok"]
  BY DEF RestCommit, exchangeVars, socketVars
<1>2. rest'.by = "none" /\ rest'.step = "none" /\ rest'.view = Zero
  BY <1>1 DEF NoRest
<1>3. /\ rest.by \in Callers /\ rest.by # "none" /\ answer[rest.by] = "asked" /\ "stream" \in Callers
      /\ rest.got = Items
  BY <1>1 DEF IInv, TypeOK, PhaseInv, Rests, Callers
<1>4. answer'["stream"] = IF rest.by = "stream" THEN "ok" ELSE answer["stream"]
  BY <1>1, <1>3 DEF IInv, TypeOK
<1>5. CASE rest.moved /\ snap.some
  <2>1. snap'.view = snap.view /\ snap'.some /\ ~snap'.rec
    BY <1>5 DEF RestCommit, IInv, TypeOK, Snaps
  <2>2. Bounded' /\ QueueInv'
    BY <1>1, <1>2, <2>1, BoundedKept, QueueKept, NothingBehind DEF IInv, Bounded
  <2>3. PhaseInv'
    BY <1>1, <1>2, <1>3, <1>4, <2>1 DEF IInv, PhaseInv
  <2>4. SnapInv'
    BY <1>1, <2>1, QuietCover, SnapKept DEF Joinable
  <2> QED
    BY <1>2, <2>2, <2>3, <2>4 DEF IInv, Bound, RestInv, OnThisSocket
<1>6. CASE ~(rest.moved /\ snap.some)
  <2>0. snap' = Built
    BY <1>6 DEF RestCommit
  <2>1. snap'.view = rest.view /\ snap'.some
    BY <2>0 DEF Built
  <2>2. Bounded' /\ QueueInv'
    BY <1>1, <1>2, <2>1, BoundedKept, QueueKept, NothingBehind DEF IInv, Bounded
  <2>3. PhaseInv'
    BY <1>1, <1>2, <1>3, <1>4, <2>1 DEF IInv, PhaseInv
  <2>4. Joinable' => OnThisSocket(rest)
    BY <1>1, <1>3, <1>4, <1>6 DEF IInv, PhaseInv, Joinable, OnThisSocket
  <2>5. ASSUME socket', Joinable', NEW i \in Items PROVE Covers(snap.view, i)'
    <3>1. Covers(rest.view, i)
      BY <1>1, <1>3, <2>4, <2>5 DEF IInv, RestInv
    <3> QED
      BY <1>1, <2>1, <3>1 DEF Covers
  <2>6. ASSUME socket', seen'.rec, stream' = "join", NEW i \in Items PROVE Covers(seen.view, i)'
    BY <1>1, <2>6 DEF IInv, SnapInv, Covers
  <2>7. SnapInv'
    BY <2>5, <2>6 DEF SnapInv
  <2> QED
    BY <1>2, <2>2, <2>3, <2>7 DEF IInv, Bound, RestInv, OnThisSocket
<1> QED
  BY <1>5, <1>6

LEMMA RestKeepsInv == ASSUME IInv, TypeOK', Rest PROVE IInv'
BY RestStartKeepsInv, RestReadKeepsInv, RestFailsKeepsInv, RestBuildKeepsInv, RestCommitKeepsInv DEF Rest

-----------------------------------------------------------------------------
(* What the exchange does, and the queue.                                  *)

LEMMA AppendKeepsQueue ==
    ASSUME IInv, socket', NEW m \in Messages, queue' = Append(queue, m),
           m.at = account'[m.item],
           \A i \in Items : account'[i] = account[i] \/ Brings(m, i, account'[i]),
           \A i \in Items : account[i] <= account'[i] /\ account[i] \in Nat /\ account'[i] \in Nat
    PROVE  QueueInv'
<1>0. queue \in Seq(Messages) /\ Len(queue) \in Nat
  BY LenProperties DEF IInv, TypeOK
<1>1. /\ Len(queue') = Len(queue) + 1 /\ queue'[Len(queue) + 1] = m
      /\ \A k \in 1..Len(queue) : queue'[k] = queue[k] /\ queue[k] \in Messages
  BY <1>0, AppendProperties, ElementOfSeq
<1>b. ASSUME NEW k \in 1..Len(queue') PROVE queue'[k].at <= account'[queue'[k].item]
  <2>1. CASE k = Len(queue) + 1
    <3>1. m.item \in Items
      BY DEF Messages
    <3> QED
      BY <1>1, <2>1, <3>1
  <2>2. CASE k # Len(queue) + 1
    <3>1. k \in 1..Len(queue) /\ queue'[k] = queue[k]
      BY <1>0, <1>1, <1>b, <2>2
    <3>2. queue[k].item \in Items /\ queue[k].at \in Nat
      BY <1>1, <3>1, TimesNat DEF Messages, IInv
    <3>3. queue[k].at <= account[queue[k].item]
      BY <3>1 DEF IInv, QueueInv
    <3> QED
      BY <3>1, <3>2, <3>3
  <2> QED
    BY <2>1, <2>2
<1> SUFFICES ASSUME NEW k \in 1..Len(queue'), queue'[k].kind = "update"
             PROVE  \E l \in k..Len(queue') : Brings(queue'[l], queue'[k].item, account'[queue'[k].item])
  BY <1>b DEF QueueInv
<1>2. CASE k = Len(queue) + 1
  <2>1. Brings(queue'[k], queue'[k].item, account'[queue'[k].item])
    BY <1>1, <1>2 DEF Brings
  <2> QED
    BY <1>0, <1>1, <1>2, <2>1
<1>3. CASE k # Len(queue) + 1
  <2> DEFINE j == queue[k].item
  <2>1. k \in 1..Len(queue) /\ queue'[k] = queue[k] /\ j \in Items
    BY <1>0, <1>1, <1>3 DEF Messages
  <2>2. CASE account'[j] = account[j]
    <3>1. PICK l \in k..Len(queue) : Brings(queue[l], j, account[j])
      BY <2>1 DEF IInv, QueueInv
    <3>2. l \in k..Len(queue') /\ queue'[l] = queue[l]
      BY <1>0, <1>1, <2>1
    <3> QED
      BY <2>1, <2>2, <3>1, <3>2
  <2>3. CASE Brings(m, j, account'[j])
    <3>1. Len(queue) + 1 \in k..Len(queue')
      BY <1>0, <1>1, <2>1
    <3> QED
      BY <1>1, <2>1, <2>3, <3>1
  <2> QED
    BY <2>1, <2>2, <2>3
<1> QED
  BY <1>2, <1>3

LEMMA TailKeepsQueue ==
    ASSUME IInv, queue # <<>>, queue' = Tail(queue), UNCHANGED <<account, socket>>
    PROVE  QueueInv'
<1>1. /\ queue \in Seq(Messages) /\ Len(queue) \in Nat \ {0} /\ Len(queue') = Len(queue) - 1
      /\ \A k \in 1..Len(queue') : queue'[k] = queue[k + 1]
  BY HeadTailProperties, EmptySeq DEF IInv, TypeOK
<1>2. socket
  BY DEF IInv, QueueInv
<1>b. \A k \in 1..Len(queue') : queue'[k].at <= account[queue'[k].item]
  BY <1>1 DEF IInv, QueueInv
<1> SUFFICES ASSUME NEW k \in 1..Len(queue'), queue'[k].kind = "update"
             PROVE  \E l \in k..Len(queue') : Brings(queue'[l], queue'[k].item, account[queue'[k].item])
  BY <1>2, <1>b DEF QueueInv
<1>3. k + 1 \in 1..Len(queue) /\ queue'[k] = queue[k + 1]
  BY <1>1
<1>4. PICK l \in (k + 1)..Len(queue) : Brings(queue[l], queue'[k].item, account[queue'[k].item])
  BY <1>3 DEF IInv, QueueInv
<1>5. l - 1 \in k..Len(queue') /\ queue'[l - 1] = queue[l]
  BY <1>1
<1> QED
  BY <1>4, <1>5

LEMMA EmptyQueue == queue' = <<>> => QueueInv'
BY DEF QueueInv

LEMMA ExchangeKeepsInv == ASSUME IInv, TypeOK', Exchange PROVE IInv'
<1>1. UNCHANGED <<connected, reconciled, snap, prior, rest, answer, stream, seen>>
  BY DEF Exchange, Change, Chatter, SocketLost
<1>2. KeepsCover
  BY ExchangeCover
<1>3. /\ account \in [Items -> Times] /\ Times \subseteq Nat /\ time \in Times
      /\ \A i \in Items : /\ snap.view[i] \in Nat /\ seen.view[i] \in Nat /\ rest.view[i] \in Nat
                          /\ prior[i] \in Nat /\ account[i] \in Nat
  BY TimesNat DEF IInv, TypeOK, Snaps, Rests
<1>4. Bounded' /\ QueueInv'
  <2>1. CASE Change
    <3>1. PICK j \in Items :
           /\ account' = [account EXCEPT ![j] = time + 1]
           /\ queue' = IF socket THEN Append(queue, [kind |-> "update", item |-> j, at |-> time + 1]) ELSE queue
      BY <2>1 DEF Change
    <3> DEFINE m == [kind |-> "update", item |-> j, at |-> time + 1]
    <3>2. time' = time + 1 /\ socket' = socket
      BY <2>1 DEF Change
    <3>3. m \in Messages /\ m.at = account'[m.item]
      BY <1>3, <2>1, <3>1 DEF Messages, Change, IInv, TypeOK, Bound, Times
    <3>4. \A i \in Items : account'[i] = account[i] \/ Brings(m, i, account'[i])
      BY <1>3, <3>1 DEF Brings
    <3>5. \A i \in Items : account[i] <= account'[i] /\ account'[i] <= time'
      BY <1>3, <3>1, <3>2 DEF IInv, Bounded
    <3>6. \A i \in Items : account'[i] \in Nat
      BY <1>3, <3>1
    <3>7. Bounded'
      BY <1>1, <1>3, <3>5, <3>6 DEF IInv, Bounded, Behind
    <3>8. QueueInv'
      <4>1. CASE socket
        BY <1>3, <3>1, <3>2, <3>3, <3>4, <3>5, <3>6, <4>1, AppendKeepsQueue
      <4>2. CASE ~socket
        BY <3>1, <4>2, EmptyQueue DEF IInv, QueueInv
      <4> QED
        BY <4>1, <4>2
    <3> QED
      BY <3>7, <3>8
  <2>2. CASE Chatter
    <3>1. PICK j \in Items, k \in {"update", "foreign", "closing"} :
             queue' = Append(queue, [kind |-> k, item |-> j, at |-> account[j]])
      BY <2>2 DEF Chatter
    <3>2. UNCHANGED <<time, account, socket>> /\ socket
      BY <2>2 DEF Chatter, exchangeVars
    <3>3. [kind |-> k, item |-> j, at |-> account[j]] \in Messages
      BY <1>3 DEF Messages
    <3>4. QueueInv'
      BY <1>3, <3>1, <3>2, <3>3, AppendKeepsQueue
    <3> QED
      BY <1>1, <3>2, <3>4, BoundedKept DEF IInv, Bounded
  <2>3. CASE SocketLost
    BY <1>1, <2>3, EmptyQueue, BoundedKept DEF SocketLost, exchangeVars, IInv, Bounded
  <2> QED
    BY <2>1, <2>2, <2>3 DEF Exchange
<1>5. PhaseInv'
  BY <1>1 DEF IInv, PhaseInv
<1>6. RestInv' /\ SnapInv'
  BY <1>1, <1>2, RestKept, SnapKept DEF Joinable
<1> QED
  BY <1>4, <1>5, <1>6 DEF IInv, Bound

-----------------------------------------------------------------------------
(* The stream.                                                             *)

(* mark_stream_disconnected takes from the snapshot and the read what      *)
(* SnapInv and RestInv ask of them.                                        *)
LEMMA MarkKeeps ==
    ASSUME IInv, MarkDisconnected, KeepsCover, stream' # "join", answer'["stream"] # "ok" \/ snap.some
    PROVE  RestInv' /\ SnapInv'
<1>1. /\ rest' = Generation(rest) /\ ~connected'
      /\ ~(snap'.some /\ snap'.rec) /\ (snap'.some <=> snap.some)
  BY MarkClears DEF IInv
<1>2. /\ rest'.by = rest.by /\ rest'.view = rest.view /\ rest'.got = rest.got
      /\ rest'.moved <=> rest.by # "none"
  BY <1>1, GenerationMarks DEF IInv, TypeOK
<1>3. OnThisSocket(rest') => OnThisSocket(rest)
  BY <1>2 DEF OnThisSocket
<1>4. RestInv'
  BY <1>2, <1>3, RestKept
<1>5. ~(snap'.rec /\ Joinable')
  BY <1>1 DEF Joinable
<1> QED
  BY <1>4, <1>5, SnapKept

(* ... and leaves the views and the phases of the read as they were.       *)
LEMMA MarkLeaves ==
    ASSUME IInv, MarkDisconnected, UNCHANGED <<account, time, prior, seen>>
    PROVE  /\ Bounded'
           /\ rest'.by = rest.by /\ rest'.step = rest.step /\ rest'.got = rest.got
           /\ ~connected' /\ (snap'.some <=> snap.some)
<1>1. rest' = Generation(rest) /\ ~connected' /\ snap'.view = snap.view /\ (snap'.some <=> snap.some)
  BY MarkClears DEF IInv
<1>2. rest'.by = rest.by /\ rest'.step = rest.step /\ rest'.got = rest.got /\ rest'.view = rest.view
  BY <1>1, GenerationMarks DEF IInv, TypeOK
<1> QED
  BY <1>1, <1>2, BoundedKept DEF IInv, Bounded

(* The read that the stream has asked for is over before the stream moves. *)
LEMMA StreamIsAnswered ==
    ASSUME IInv, answer["stream"] # "asked"
    PROVE  rest.by # "stream"
BY DEF IInv, PhaseInv

LEMMA DropKeepsInv ==
    ASSUME IInv, TypeOK', Drop, UNCHANGED <<exchangeVars, prior, seen>>, answer["stream"] # "asked"
    PROVE  IInv'
<1>1. /\ stream' = "down" /\ ~socket' /\ queue' = <<>> /\ MarkDisconnected
      /\ answer' = [answer EXCEPT !["stream"] = "none"]
      /\ UNCHANGED <<time, account, prior, seen>>
  BY DEF Drop, exchangeVars
<1>2. /\ answer'["stream"] = "none"
      /\ \A c \in Callers : c # "stream" => answer'[c] = answer[c]
  BY <1>1 DEF IInv, TypeOK, Callers
<1>3. Bounded' /\ QueueInv'
  BY <1>1, MarkLeaves, EmptyQueue
<1>4. PhaseInv'
  <2>1. rest.by # "none" => rest.by \in Callers /\ rest.by # "stream"
    BY StreamIsAnswered DEF IInv, TypeOK, Rests
  <2> QED
    BY <1>1, <1>2, <2>1, MarkLeaves DEF IInv, PhaseInv
<1>5. RestInv' /\ SnapInv'
  BY <1>1, <1>2, ClosedCover, MarkKeeps
<1> QED
  BY <1>3, <1>4, <1>5 DEF IInv, Bound

(* A read that began before the socket was opened is marked as moved.      *)
LEMMA ConnectKeepsInv == ASSUME IInv, TypeOK', Connect PROVE IInv'
<1>1. /\ stream = "down" /\ stream' = "repair" /\ queue' = <<>> /\ MarkDisconnected
      /\ answer' = [answer EXCEPT !["stream"] = "asked"]
      /\ UNCHANGED <<time, account, prior, seen>>
  BY DEF Connect, exchangeVars
<1>2. /\ answer'["stream"] = "asked"
      /\ \A c \in Callers : c # "stream" => answer'[c] = answer[c]
  BY <1>1 DEF IInv, TypeOK, Callers
<1>3. Bounded' /\ QueueInv'
  BY <1>1, MarkLeaves, EmptyQueue
<1>4. rest.by # "none" => rest.by \in Callers /\ rest.by # "stream"
  BY <1>1, StreamIsAnswered DEF IInv, TypeOK, Rests, PhaseInv
<1>5. PhaseInv'
  BY <1>1, <1>2, <1>4, MarkLeaves DEF IInv, PhaseInv
<1>6. rest'.by = rest.by /\ (rest'.moved <=> rest.by # "none")
  BY <1>1, MarkClears, GenerationMarks DEF IInv, TypeOK
<1>7. ~OnThisSocket(rest')
  BY <1>4, <1>6 DEF OnThisSocket
<1>8. RestInv'
  BY <1>7 DEF RestInv, OnThisSocket
<1>9. ~Joinable'
  BY <1>2, <1>1, MarkLeaves DEF Joinable
<1>10. SnapInv'
  BY <1>1, <1>9 DEF SnapInv
<1> QED
  BY <1>3, <1>5, <1>8, <1>10 DEF IInv, Bound

LEMMA JoinKeepsInv == ASSUME IInv, TypeOK', Join PROVE IInv'
<1>1. /\ stream = "repair" /\ answer["stream"] = "ok" /\ stream' = "join" /\ seen' = snap
      /\ answer' = [answer EXCEPT !["stream"] = "none"]
      /\ UNCHANGED <<time, account, socket, queue, snap, prior, rest>>
  BY DEF Join, exchangeVars, socketVars
<1>2. /\ answer'["stream"] = "none"
      /\ \A c \in Callers : c # "stream" => answer'[c] = answer[c]
  BY <1>1 DEF IInv, TypeOK, Callers
<1>3. Bounded' /\ QueueInv'
  BY <1>1, BoundedKept, QueueKept DEF IInv, Bounded
<1>4. rest.by # "none" => rest.by \in Callers /\ rest.by # "stream"
  BY <1>1, StreamIsAnswered DEF IInv, TypeOK, Rests
<1>5. PhaseInv'
  BY <1>1, <1>2, <1>4 DEF IInv, PhaseInv
<1>6. RestInv'
  BY <1>1, QuietCover, RestKept
<1>7. ASSUME socket, snap.rec, NEW i \in Items PROVE Covers(snap.view, i) /\ Covers(snap.view, i)'
  BY <1>1, <1>7 DEF IInv, SnapInv, Joinable, Covers
<1>8. SnapInv'
  BY <1>1, <1>7 DEF SnapInv, Covers
<1> QED
  BY <1>3, <1>5, <1>6, <1>8 DEF IInv, Bound

(* What run_user_stream writes back may undo a conflict that a thread has  *)
(* just found, but no event was lost since it read the snapshot.           *)
LEMMA JoinedKeepsInv == ASSUME IInv, TypeOK', Joined PROVE IInv'
<1>1. /\ stream = "join" /\ stream' = "reading" /\ snap' = [seen EXCEPT !.conn = TRUE] /\ seen' = NoSnap
      /\ UNCHANGED <<time, account, socket, queue, connected, prior, rest, answer>>
  BY DEF Joined, exchangeVars, socketVars
<1>2. snap'.view = seen.view /\ (snap'.some <=> seen.some) /\ (snap'.rec <=> seen.rec) /\ seen'.view = Zero
  BY <1>1 DEF IInv, TypeOK, Snaps, NoSnap
<1>3. Bounded' /\ QueueInv'
  BY <1>1, <1>2, BoundedKept, QueueKept, NothingBehind DEF IInv, Bounded
<1>4. PhaseInv'
  BY <1>1, <1>2 DEF IInv, PhaseInv
<1>5. RestInv'
  BY <1>1, QuietCover, RestKept
<1>6. ASSUME socket', snap'.rec, NEW i \in Items PROVE Covers(snap.view, i)'
  <2>1. Covers(seen.view, i)
    BY <1>1, <1>2, <1>6 DEF IInv, SnapInv
  <2> QED
    BY <1>1, <1>2, <2>1 DEF Covers
<1>7. SnapInv'
  BY <1>1, <1>6 DEF SnapInv
<1> QED
  BY <1>3, <1>4, <1>5, <1>7 DEF IInv, Bound

(***************************************************************************)
(* An event that is accepted may take the snapshot back to an older value, *)
(* when a read has seen the newer one already; the event that brings the   *)
(* newer one is then still in the queue.                                   *)
(***************************************************************************)
LEMMA AcceptKeepsInv ==
    ASSUME IInv, TypeOK', stream = "reading", queue # <<>>,
           Acceptable(Head(queue)),
           snap' = [snap EXCEPT !.view[Head(queue).item] = Head(queue).at, !.conn = TRUE],
           prior' = [prior EXCEPT ![Head(queue).item] = Head(queue).at],
           rest' = Generation(rest),
           queue' = Tail(queue),
           UNCHANGED <<time, account, seen, socket, connected, answer, stream>>
    PROVE  IInv'
<1>0. PICK m \in Messages : m = Head(queue) /\ m = queue[1]
  BY HeadTailProperties DEF IInv, TypeOK
<1>1. /\ queue \in Seq(Messages) /\ Len(queue) \in Nat \ {0} /\ Times \subseteq Nat
      /\ m.item \in Items /\ m.at \in Times /\ m.kind = "update"
  BY <1>0, EmptySeq, TimesNat DEF IInv, TypeOK, Messages, Acceptable
<1>2. /\ snap'.view = [snap.view EXCEPT ![m.item] = m.at]
      /\ (snap'.some <=> snap.some) /\ (snap'.rec <=> snap.rec) /\ snap.view \in [Items -> Times]
  BY <1>0 DEF IInv, TypeOK, Snaps
<1>3. /\ rest'.by = rest.by /\ rest'.step = rest.step /\ rest'.view = rest.view /\ rest'.got = rest.got
      /\ rest'.moved <=> rest.by # "none"
  BY GenerationMarks DEF IInv, TypeOK
<1>4. m.at <= account[m.item]
  BY <1>0, <1>1 DEF IInv, QueueInv
<1>5. Behind(snap'.view) /\ Behind(prior')
  <2>1. prior' = [prior EXCEPT ![m.item] = m.at] /\ prior \in [Items -> Times]
    BY <1>0 DEF IInv, TypeOK
  <2> QED
    BY <1>2, <1>4, <2>1 DEF IInv, Bounded, Behind
<1>6. Bounded' /\ QueueInv'
  BY <1>3, <1>5, BoundedKept, TailKeepsQueue DEF IInv, Bounded
<1>7. PhaseInv'
  BY <1>2, <1>3 DEF IInv, PhaseInv
<1>8. ~OnThisSocket(rest')
  BY <1>3, StreamIsAnswered DEF OnThisSocket, IInv, PhaseInv
<1>9. RestInv'
  BY <1>8 DEF RestInv, OnThisSocket
<1>10. ASSUME socket', snap'.rec, Joinable', NEW i \in Items PROVE Covers(snap.view, i)'
  <2>1. Covers(snap.view, i)
    BY <1>2, <1>10 DEF IInv, SnapInv, Joinable
  <2>2. /\ account' = account /\ queue' = Tail(queue)
        /\ prior' = [prior EXCEPT ![m.item] = m.at] /\ prior \in [Items -> Times]
    BY <1>0 DEF IInv, TypeOK
  <2>3. CASE i = m.item
    <3>1. snap'.view[i] = m.at /\ prior'[i] = m.at
      BY <1>2, <2>2, <2>3
    <3>2. PICK l \in 1..Len(queue) : Brings(queue[l], i, account[i])
      BY <1>0, <1>1, <2>3 DEF IInv, QueueInv
    <3>3. Waiting(Tail(queue), i, account[i]) \/ Brings(m, i, account[i])
      BY <1>0, <1>1, <3>2, WaitingTail DEF Waiting
    <3>4. m.at >= m.at
      BY <1>1
    <3> QED
      BY <2>2, <3>1, <3>3, <3>4 DEF Covers, Shows, Brings
  <2>4. CASE i # m.item
    <3>1. snap'.view[i] = snap.view[i] /\ prior'[i] = prior[i]
      BY <1>2, <2>2, <2>4
    <3>2. ~Brings(m, i, account[i])
      BY <2>4 DEF Brings
    <3> QED
      BY <1>0, <1>1, <2>1, <2>2, <3>1, <3>2, WaitingTail DEF Covers, Shows
  <2> QED
    BY <2>3, <2>4
<1>11. SnapInv'
  BY <1>10 DEF SnapInv
<1> QED
  BY <1>6, <1>7, <1>9, <1>11 DEF IInv, Bound

LEMMA DuplicateKeepsInv ==
    ASSUME IInv, TypeOK', stream = "reading", queue # <<>>, Duplicate(Head(queue)), queue' = Tail(queue),
           IF reconciled THEN UNCHANGED <<answer, stream>>
           ELSE stream' = "repair" /\ answer' = [answer EXCEPT !["stream"] = "asked"],
           UNCHANGED <<time, account, seen, socket, connected, reconciled, snap, prior, rest>>
    PROVE  IInv'
<1>1. KeepsCover
  BY DuplicateCover
<1>2. Bounded' /\ QueueInv'
  BY BoundedKept, TailKeepsQueue DEF IInv, Bounded
<1>3. /\ answer'["stream"] \in {"none", "asked"} /\ (answer'["stream"] = "none" <=> stream' = "reading")
      /\ stream' \in {"reading", "repair"}
      /\ \A c \in Callers : c # "stream" => answer'[c] = answer[c]
  BY DEF IInv, TypeOK, PhaseInv, Callers
<1>4. rest.by # "none" => rest.by \in Callers /\ rest.by # "stream"
  BY StreamIsAnswered DEF IInv, TypeOK, Rests, PhaseInv
<1>5. PhaseInv'
  BY <1>3, <1>4 DEF IInv, PhaseInv
<1>6. RestInv'
  BY <1>1, RestKept
<1>7. SnapInv'
  BY <1>1, <1>3, SnapKept DEF Joinable
<1> QED
  BY <1>2, <1>5, <1>6, <1>7 DEF IInv, Bound

(* What a refused message leaves behind: nothing that counts as a baseline *)
(* or as trusted.                                                          *)
LEMMA RefuseKeepsInv ==
    ASSUME IInv, TypeOK', stream = "reading", queue # <<>>, MarkDisconnected, After(Head(queue)),
           UNCHANGED <<time, account, seen, prior>>
    PROVE  IInv'
<1>1. rest.by # "none" => rest.by \in Callers /\ rest.by # "stream"
  BY StreamIsAnswered DEF IInv, TypeOK, Rests, PhaseInv
<1>2. /\ answer'["stream"] \in {"none", "asked"} /\ (answer'["stream"] = "asked" <=> stream' = "repair")
      /\ stream' \in {"down", "repair"}
      /\ \A c \in Callers : c # "stream" => answer'[c] = answer[c]
  BY DEF After, IInv, TypeOK, PhaseInv, Callers
<1>3. Bounded'
  BY MarkLeaves
<1>4. QueueInv'
  BY EmptyQueue, TailKeepsQueue DEF After
<1>5. PhaseInv'
  BY <1>1, <1>2, MarkLeaves DEF IInv, PhaseInv
<1>6. rest'.by = rest.by /\ (rest'.moved <=> rest.by # "none")
  BY MarkClears, GenerationMarks DEF IInv, TypeOK
<1>7. RestInv'
  BY <1>1, <1>6 DEF RestInv, OnThisSocket
<1>8. ~Joinable' /\ stream' # "join"
  BY <1>2, MarkLeaves DEF Joinable
<1>9. SnapInv'
  BY <1>8 DEF SnapInv
<1> QED
  BY <1>3, <1>4, <1>5, <1>7, <1>9 DEF IInv, Bound

LEMMA EventKeepsInv == ASSUME IInv, TypeOK', HandleUserEvent PROVE IInv'
<1>1. stream = "reading" /\ queue # <<>> /\ UNCHANGED <<time, account, seen>>
  BY DEF HandleUserEvent, exchangeVars
<1> QED
  BY <1>1, AcceptKeepsInv, DuplicateKeepsInv, RefuseKeepsInv DEF HandleUserEvent

LEMMA UnnoticedKeepsInv == ASSUME IInv, TypeOK', RefusedUnnoticed PROVE IInv'
<1>1. /\ stream = "reading" /\ queue # <<>> /\ queue' = Tail(queue) /\ ~connected' /\ rest.step = "mark"
      /\ rest' = [rest EXCEPT !.moved = TRUE, !.step = "build"]
      /\ UNCHANGED <<time, account, socket, prior, answer, stream, seen>>
  BY DEF RefusedUnnoticed, exchangeVars
<1>2. /\ rest'.by = rest.by /\ rest'.step = "build" /\ rest'.view = rest.view /\ rest'.got = rest.got
      /\ rest'.moved
  BY <1>1 DEF IInv, TypeOK, Rests
<1>3. snap'.view = snap.view /\ (snap'.some <=> snap.some)
  BY StaleIsUnsound DEF RefusedUnnoticed, IInv, TypeOK
<1>4. Bounded' /\ QueueInv'
  BY <1>1, <1>2, <1>3, BoundedKept, TailKeepsQueue DEF IInv, Bounded
<1>5. PhaseInv'
  BY <1>1, <1>2, <1>3 DEF IInv, PhaseInv
<1>6. ~OnThisSocket(rest')
  BY <1>1, <1>2, StreamIsAnswered DEF OnThisSocket, IInv, PhaseInv
<1>7. RestInv'
  BY <1>6 DEF RestInv, OnThisSocket
<1>8. ~Joinable' /\ stream' # "join"
  BY <1>1 DEF Joinable, IInv, PhaseInv
<1>9. SnapInv'
  BY <1>8 DEF SnapInv
<1> QED
  BY <1>4, <1>5, <1>7, <1>9 DEF IInv, Bound

LEMMA UserStreamKeepsInv == ASSUME IInv, TypeOK', UserStream PROVE IInv'
<1>1. CASE ConnectFails \/ RepairFails \/ ReadFails
  <2>1. Drop /\ UNCHANGED <<exchangeVars, prior, seen>> /\ answer["stream"] # "asked"
    BY <1>1 DEF ConnectFails, RepairFails, ReadFails, IInv, PhaseInv
  <2> QED
    BY <2>1, DropKeepsInv
<1> QED
  BY <1>1, ConnectKeepsInv, JoinKeepsInv, JoinedKeepsInv, EventKeepsInv, UnnoticedKeepsInv DEF UserStream

-----------------------------------------------------------------------------
(* The runtime and the backend.                                            *)

LEMMA OthersKeepInv == ASSUME IInv, TypeOK', Others PROVE IInv'
<1>1. ASSUME NEW c \in Callers, Ask(c) PROVE IInv'
  <2>1. /\ c # "stream" /\ answer' = [answer EXCEPT ![c] = "asked"]
        /\ UNCHANGED <<time, account, socket, queue, connected, snap, prior, rest, stream, seen>>
    BY <1>1 DEF Ask, exchangeVars, socketVars
  <2>2. answer'["stream"] = answer["stream"] /\ \A d \in Callers : answer[d] = "asked" => answer'[d] = "asked"
    BY <2>1 DEF IInv, TypeOK, Callers
  <2>3. Bounded' /\ QueueInv'
    BY <2>1, BoundedKept, QueueKept DEF IInv, Bounded
  <2>4. PhaseInv'
    BY <2>1, <2>2 DEF IInv, PhaseInv, TypeOK, Rests
  <2>5. RestInv' /\ SnapInv'
    BY <2>1, <2>2, QuietCover, RestKept, SnapKept DEF Joinable
  <2> QED
    BY <2>3, <2>4, <2>5 DEF IInv, Bound
<1>2. CASE LoopFails
  <2>1. /\ stream # "join" /\ MarkDisconnected /\ answer["loop"] = "failed"
        /\ answer' = [answer EXCEPT !["loop"] = "none"]
        /\ UNCHANGED <<time, account, socket, queue, prior, stream, seen>>
    BY <1>2 DEF LoopFails, OnLoop, exchangeVars, socketVars
  <2>2. /\ answer'["stream"] = answer["stream"]
        /\ \A d \in Callers : answer[d] = "asked" => answer'[d] = "asked"
    BY <2>1 DEF IInv, TypeOK, Callers
  <2>3. Bounded' /\ QueueInv'
    BY <2>1, MarkLeaves, QueueKept
  <2>4. PhaseInv'
    BY <2>1, <2>2, MarkLeaves DEF IInv, PhaseInv, TypeOK, Rests
  <2>5. RestInv' /\ SnapInv'
    BY <2>1, <2>2, QuietCover, MarkKeeps DEF IInv, PhaseInv
  <2> QED
    BY <2>3, <2>4, <2>5 DEF IInv, Bound
<1>3. CASE Begin
  <2>1. /\ stream = "off" /\ stream' = "down"
        /\ UNCHANGED <<time, account, socket, queue, connected, snap, prior, rest, answer, seen>>
    BY <1>3 DEF Begin, exchangeVars, socketVars
  <2>2. Bounded' /\ QueueInv'
    BY <2>1, BoundedKept, QueueKept DEF IInv, Bounded
  <2>3. PhaseInv'
    BY <2>1 DEF IInv, PhaseInv
  <2>4. RestInv' /\ SnapInv'
    BY <2>1, QuietCover, RestKept, SnapKept DEF Joinable
  <2> QED
    BY <2>2, <2>3, <2>4 DEF IInv, Bound
<1>4. CASE Restart
  <2>1. /\ ~socket' /\ queue' = <<>> /\ ~connected' /\ stream' = "off" /\ rest' = NoRest
        /\ snap' = Stale(snap) /\ seen' = NoSnap /\ prior' = Zero
        /\ answer' = [c \in Callers |-> "none"] /\ UNCHANGED <<time, account>>
    BY <1>4 DEF Restart, exchangeVars
  <2>2. /\ answer'["stream"] = "none" /\ rest'.by = "none" /\ rest'.step = "none" /\ rest'.view = Zero
        /\ seen'.view = Zero /\ snap'.view = snap.view
    BY <2>1, StaleIsUnsound, NothingYet DEF Callers, IInv, TypeOK
  <2>3. Bounded' /\ QueueInv'
    BY <2>1, <2>2, BoundedKept, EmptyQueue, NothingBehind DEF IInv, Bounded
  <2>4. PhaseInv'
    BY <2>1, <2>2 DEF PhaseInv
  <2>5. RestInv' /\ SnapInv'
    BY <2>1 DEF RestInv, SnapInv
  <2> QED
    BY <2>3, <2>4, <2>5 DEF IInv, Bound
<1> QED
  BY <1>1, <1>2, <1>3, <1>4 DEF Others

-----------------------------------------------------------------------------

LEMMA InitInv == ASSUME Bound, Init PROVE IInv
<1>1. /\ account = Zero /\ prior = Zero /\ snap.view = Zero /\ seen.view = Zero /\ rest.view = Zero
      /\ time = 0 /\ ~socket /\ queue = <<>> /\ ~connected /\ stream = "off"
      /\ rest.by = "none" /\ rest.step = "none"
  BY DEF Init, NoSnap, NoRest
<1>2. answer = [c \in Callers |-> "none"] /\ answer["stream"] = "none"
  BY DEF Init, Callers
<1>3. TypeOK
  <2>1. /\ account \in [Items -> Times] /\ prior \in [Items -> Times] /\ time \in Times
        /\ snap \in Snaps /\ seen \in Snaps /\ rest \in Rests
    BY NothingYet, TimesNat DEF Init
  <2>2. /\ queue \in Seq(Messages) /\ socket \in BOOLEAN /\ connected \in BOOLEAN /\ reconciled \in BOOLEAN
        /\ stream \in {"off", "down", "repair", "join", "reading"}
        /\ answer \in [Callers -> {"none", "asked", "ok", "failed"}]
    BY EmptySeq DEF Init
  <2> QED
    BY <2>1, <2>2 DEF TypeOK
<1>4. Bounded
  BY <1>1, NothingYet DEF Bounded, Behind
<1>5. QueueInv /\ RestInv /\ SnapInv
  BY <1>1 DEF QueueInv, RestInv, SnapInv
<1>6. PhaseInv
  BY <1>1, <1>2 DEF PhaseInv
<1> QED
  BY <1>3, <1>4, <1>5, <1>6 DEF IInv

LEMMA StepInv == IInv /\ [Next]_vars => IInv'
<1> SUFFICES ASSUME IInv, [Next]_vars PROVE IInv'
  OBVIOUS
<1>0. TypeOK'
  BY StepType DEF IInv
<1>1. CASE UNCHANGED vars
  BY <1>1 DEF vars, IInv, Bound, TypeOK, Bounded, Behind, QueueInv, PhaseInv, RestInv, SnapInv, OnThisSocket,
              Joinable, Covers
<1>2. CASE Next
  BY <1>0, <1>2, RestKeepsInv, ExchangeKeepsInv, UserStreamKeepsInv, OthersKeepInv DEF Next
<1> QED
  BY <1>1, <1>2

LEMMA Inductive == ASSUME MaxChanges \in Nat PROVE Spec => []IInv
<1>1. Init => IInv
  BY InitInv DEF Bound
<1> QED
  BY <1>1, StepInv, PTL DEF Spec

(* The variables of the watch keep their types, for every set of items and *)
(* every length of the queue.                                              *)
THEOREM TypeCorrect == ASSUME MaxChanges \in Nat PROVE Spec => []TypeOK
<1>1. IInv => TypeOK
  BY DEF IInv
<1> QED
  BY <1>1, Inductive, PTL

(***************************************************************************)
(* Whenever assert_current_new_risk_authority would trust the account and  *)
(* no event waits on the open stream, the snapshot is the account as the   *)
(* exchange has it: whatever the REST threads, run_user_stream and the     *)
(* runtime did in whatever order, and whatever the clock of the host says. *)
(***************************************************************************)
THEOREM TrustIsDeserved == ASSUME MaxChanges \in Nat PROVE Spec => []TrustedIsCurrent
<1>1. IInv => TrustedIsCurrent
  <2> SUFFICES ASSUME IInv, Trusted, socket, queue = <<>> PROVE snap.view = account
    BY DEF TrustedIsCurrent
  <2>1. snap.view \in [Items -> Times] /\ account \in [Items -> Times]
    BY DEF IInv, TypeOK, Snaps
  <2>2. ASSUME NEW i \in Items PROVE snap.view[i] = account[i]
    <3>1. Covers(snap.view, i)
      BY DEF IInv, SnapInv, Trusted, Joinable
    <3>2. ~Waiting(queue, i, account[i])
      BY DEF Waiting
    <3> QED
      BY <3>1, <3>2 DEF Covers, Shows
  <2> QED
    BY <2>1, <2>2
<1> QED
  BY <1>1, Inductive, PTL

-----------------------------------------------------------------------------
(* The refinement.                                                         *)

LEMMA MarkIsDisconnected ==
    ASSUME TypeOK, MarkDisconnected
    PROVE  connected' = FALSE /\ (snap.some /\ snap.rec)' = FALSE
<1>1. ~(snap'.some /\ snap'.rec) /\ connected' = FALSE
  BY MarkClears DEF MarkDisconnected
<1> QED
  BY <1>1

(***************************************************************************)
(* AccountWatch implements AccountAuthority: the flag of the stream is     *)
(* raised by a repair on an open socket alone, the reconciled flag of the  *)
(* snapshot by a REST read, and every disconnection clears both at once.   *)
(***************************************************************************)
THEOREM WatchImplementsAuthority == ASSUME MaxChanges \in Nat PROVE Spec => ImplementsAuthority
<1>1. Init => Authority!AuthorityInit
  BY DEF Init, Authority!AuthorityInit, NoSnap
<1>2. IInv /\ [Next]_vars => [Authority!AuthorityNext \/ Authority!Switched]_(Authority!authorityVars)
  <2> SUFFICES ASSUME IInv, Next
               PROVE  Authority!AuthorityNext \/ Authority!Switched \/ UNCHANGED Authority!authorityVars
    BY DEF vars, Authority!authorityVars
  <2>0. TypeOK /\ TypeOK'
    BY StepType DEF IInv
  <2>1. CASE Rest
    <3>1. UNCHANGED <<connected, stream>>
      BY <2>1 DEF Rest, RestStart, RestRead, RestFails, RestMark, RestBuild, RestCommit
    <3>2. (snap.some /\ snap.rec)' \in BOOLEAN
      OBVIOUS
    <3> QED
      BY <3>1, <3>2 DEF Authority!AuthorityNext, Authority!Read
  <2>2. CASE Exchange
    BY <2>2 DEF Exchange, Change, Chatter, SocketLost, Authority!authorityVars
  <2>3. CASE ConnectFails \/ RepairFails \/ ReadFails
    <3>1. MarkDisconnected /\ stream' = "down" /\ stream \in {"down", "repair", "reading"}
      BY <2>3 DEF ConnectFails, RepairFails, ReadFails, Drop
    <3> QED
      BY <2>0, <3>1, MarkIsDisconnected DEF Authority!AuthorityNext, Authority!Lost, Authority!Disconnected
  <2>4. CASE Connect
    <3>1. MarkDisconnected /\ stream' = "repair" /\ stream = "down"
      BY <2>4 DEF Connect
    <3> QED
      BY <2>0, <3>1, MarkIsDisconnected DEF Authority!AuthorityNext, Authority!Opened, Authority!Disconnected
  <2>5. CASE Join
    BY <2>5 DEF Join, Authority!AuthorityNext, Authority!Rejoined
  <2>6. CASE Joined
    <3>1. stream = "join" /\ stream' = "reading" /\ connected' = connected
      BY <2>6 DEF Joined
    <3>2. (snap.some /\ snap.rec)' \in BOOLEAN
      OBVIOUS
    <3> QED
      BY <3>1, <3>2 DEF Authority!AuthorityNext, Authority!Read
  <2>7. CASE HandleUserEvent
    <3>1. stream = "reading"
      BY <2>7 DEF HandleUserEvent
    <3>2. CASE MarkDisconnected /\ After(Head(queue))
      <4>1. stream' \in {"down", "repair"}
        BY <3>2 DEF After
      <4> QED
        BY <2>0, <3>1, <3>2, <4>1, MarkIsDisconnected
           DEF Authority!AuthorityNext, Authority!Lost, Authority!Refused, Authority!Disconnected
    <3>3. CASE /\ UNCHANGED <<connected, stream>>
               /\ snap' = [snap EXCEPT !.view[Head(queue).item] = Head(queue).at, !.conn = TRUE]
      <4>1. snap'.some = snap.some /\ snap'.rec = snap.rec
        BY <2>0, <3>3 DEF TypeOK, Snaps
      <4> QED
        BY <3>3, <4>1 DEF Authority!authorityVars
    <3>4. CASE UNCHANGED <<connected, snap>> /\ (stream' = stream \/ stream' = "repair")
      BY <3>1, <3>4 DEF Authority!AuthorityNext, Authority!Reread, Authority!authorityVars
    <3> QED
      BY <2>7, <3>2, <3>3, <3>4 DEF HandleUserEvent
  <2>8. CASE RefusedUnnoticed
    <3>1. stream = "reading" /\ stream' = "reading" /\ connected' = FALSE
      BY <2>8 DEF RefusedUnnoticed
    <3>2. ~(snap'.some /\ snap'.rec)
      BY <2>0, <2>8, StaleIsUnsound DEF RefusedUnnoticed, TypeOK
    <3> QED
      BY <3>1, <3>2 DEF Authority!AuthorityNext, Authority!Refused, Authority!Disconnected
  <2>9. ASSUME NEW c \in Callers, Ask(c) PROVE UNCHANGED Authority!authorityVars
    BY <2>9 DEF Ask, Authority!authorityVars
  <2>10. CASE LoopFails
    <3>1. MarkDisconnected /\ stream' = stream
      BY <2>10 DEF LoopFails
    <3> QED
      BY <2>0, <3>1, MarkIsDisconnected DEF Authority!Switched, Authority!Disconnected
  <2>11. CASE Begin
    BY <2>11 DEF Begin, Authority!Switched
  <2>12. CASE Restart
    <3>1. stream' = "off" /\ connected' = FALSE
      BY <2>12 DEF Restart
    <3>2. ~(snap'.some /\ snap'.rec)
      BY <2>0, <2>12, StaleIsUnsound DEF Restart, TypeOK
    <3> QED
      BY <3>1, <3>2 DEF Authority!Switched, Authority!Disconnected
  <2> QED
    BY <2>1, <2>2, <2>3, <2>4, <2>5, <2>6, <2>7, <2>8, <2>9, <2>10, <2>11, <2>12
       DEF Next, UserStream, Others
<1> QED
  BY <1>1, <1>2, Inductive, PTL DEF Spec, ImplementsAuthority, Authority!AuthoritySpec

----------------------------------------------------------------------------

(***************************************************************************)
(* The market watch scan, for every set of setups, every age limit and     *)
(* every number of bars.                                                   *)
(*                                                                         *)
(* A marker in the row is only ever set behind the record it stands for    *)
(* (MarkersAreRecorded), because a scan that comes to set it has seen the  *)
(* record, and what a scan holds while it saves was assessed from the row  *)
(* as it still is (ScanFollowsRow).  A signal expires because the bar that *)
(* its age is counted from is never moved past the bar since which it is   *)
(* live (AgeIsKept), so the age that assess_symbol reads is not less than  *)
(* the time the signal was live.                                           *)
(***************************************************************************)
CONSTANTS Setups, MaxAge, MinQuality, LastBar
VARIABLES bar, row, scan, records, since

Scan == INSTANCE MarketScan

RowFields == {"life", "key", "act", "started", "sig", "level", "dir", "created", "bar",
              "armedId", "triggeredId", "done"}

(* The shape of the state. *)
ShapeOK ==
    /\ bar \in Nat \ {0}
    /\ DOMAIN row = RowFields
    /\ \/ scan = Scan!Idle
       \/ /\ scan = [pc |-> scan.pc, a |-> scan.a]
          /\ scan.pc \in {"save", "record", "mark"}
          /\ DOMAIN scan.a = {"setup", "act", "life", "started", "sig"}
          /\ scan.a.sig # <<>>

(* Where the scan stands: what it holds was assessed from the row as it is, *)
(* and afterwards is what the row says.                                     *)
ScanFollowsRow ==
    /\ scan.pc = "save" => \E p \in Scan!Plans : scan.a = Scan!Assess(p)
    /\ scan.pc \in {"record", "mark"} =>
          row.life = scan.a.life /\ row.act = scan.a.act /\ row.sig = scan.a.sig
    /\ scan.pc = "mark" => scan.a.life \in Scan!Live
    /\ scan.pc = "mark" /\ scan.a.life = "TRIGGERED" => Scan!Triggered(scan.a.sig) # {}

(* A marker is only set behind its record. *)
MarkersAreRecorded ==
    /\ \A r \in records : r = [sig |-> r.sig, n |-> 1]
    /\ row.triggeredId # <<>> => Scan!Triggered(row.triggeredId) # {}
    /\ row.done /\ row.life = "TRIGGERED" /\ row.act => Scan!Triggered(row.sig) # {}

RecordInv == ShapeOK /\ ScanFollowsRow /\ MarkersAreRecorded

(* The saved age is not shorter than the signal has been live. *)
AgeIsKept ==
    /\ since \in Nat /\ row.created \in Nat /\ row.created <= bar
    /\ since # 0 => row.created # 0 /\ row.created <= since
    /\ row.life \in Scan!Live <=> since # 0

AgeInv == RecordInv /\ AgeIsKept /\ Scan!SignalsExpire

----------------------------------------------------------------------------

(* A step of the pc keeps the assessment. *)
LEMMA ScanPc ==
    ASSUME ShapeOK, scan.pc # "idle", NEW q, scan' = [scan EXCEPT !.pc = q]
    PROVE  scan' = [pc |-> q, a |-> scan.a] /\ scan'.pc = q /\ scan'.a = scan.a
BY DEF ShapeOK, Scan!Idle

(* An assessment is shaped as save_symbol_state reads it. *)
LEMMA AssessShape ==
    ASSUME NEW p \in Scan!Plans
    PROVE  /\ DOMAIN Scan!Assess(p) = {"setup", "act", "life", "started", "sig"}
           /\ Scan!Assess(p).sig # <<>>
           /\ Scan!Assess(p).setup = p.setup
           /\ Scan!Assess(p).sig = Scan!Signal(p.setup, Scan!Started(p.setup))
BY DEF Scan!Assess, Scan!Signal

(* Without a setup nothing is ARMED or TRIGGERED. *)
LEMMA NoTradeIsNotLive ==
    ASSUME NEW p \in Scan!Plans, p.setup = Scan!NoTrade
    PROVE  Scan!Assess(p).life \notin Scan!Live
<1>1. p.act = FALSE /\ p.raw = FALSE /\ p.confirmed = FALSE
  BY DEF Scan!Plans, Scan!NoTrade
<1>2. ~Scan!SameSignal(p.setup)
  BY DEF Scan!SameSignal
<1>3. \A age : Scan!AdvanceLifecycle("NONE", p, FALSE, FALSE, age) \notin Scan!Live
  BY <1>1 DEF Scan!AdvanceLifecycle, Scan!Live
<1> QED
  BY <1>1, <1>2, <1>3 DEF Scan!Assess

(* A live signal that stays the same, and stays live, is younger than      *)
(* max_signal_age_bars.                                                    *)
LEMMA SameIsYoung ==
    ASSUME NEW p \in Scan!Plans, Scan!SameSignal(p.setup), row.life \in Scan!Live,
           Scan!Assess(p).life \in Scan!Live,
           row.created # 0, row.created \in Nat, bar \in Nat, row.created <= bar,
           MaxAge \in Nat
    PROVE  bar - row.created < MaxAge
<1> DEFINE age == bar - row.created
           near == p.confirmed \/ (p.setup # Scan!NoTrade /\ p.raw)
           invalid == row.life \in Scan!Live /\ ~p.act /\ ~near
<1>1. Scan!Assess(p).life = Scan!AdvanceLifecycle(row.life, p, invalid, near, age)
  BY DEF Scan!Assess
<1>2. age >= MaxAge => Scan!AdvanceLifecycle(row.life, p, invalid, near, age) \in Scan!Over
  <2> HIDE DEF near, invalid, age
  <2> QED BY DEF Scan!AdvanceLifecycle, Scan!Over
<1>3. age < MaxAge \/ age >= MaxAge
  OBVIOUS
<1> QED
  BY <1>1, <1>2, <1>3 DEF Scan!Live, Scan!Over

(* The columns of the row that save_symbol_state writes. *)
LEMMA SavedRowFields ==
    ASSUME NEW a
    PROVE  /\ DOMAIN Scan!SavedRow(a) = RowFields
           /\ Scan!SavedRow(a).life = a.life /\ Scan!SavedRow(a).act = a.act
           /\ Scan!SavedRow(a).sig = a.sig
           /\ Scan!SavedRow(a).created = Scan!Created(a) /\ Scan!SavedRow(a).bar = bar
           /\ Scan!SavedRow(a).triggeredId = Scan!Kept(row.triggeredId, a)
           /\ Scan!SavedRow(a).done = FALSE
BY DEF Scan!SavedRow, RowFields

----------------------------------------------------------------------------

(* At most one observation of a signal. *)
LEMMA InitRecordInv == Scan!Init => RecordInv
BY DEF Scan!Init, RecordInv, ShapeOK, ScanFollowsRow, MarkersAreRecorded, Scan!NoRow,
   RowFields, Scan!Idle

LEMMA StartRecordInv ==
    ASSUME RecordInv, Scan!NewBar \/ Scan!Crash \/ (\E p \in Scan!Plans : Scan!BeginScan(p))
    PROVE  RecordInv'
<1> USE DEF RecordInv
<1>1. CASE Scan!NewBar
  BY <1>1 DEF Scan!NewBar, ShapeOK, ScanFollowsRow, MarkersAreRecorded, Scan!Idle,
     Scan!Triggered
<1>2. CASE Scan!Crash
  BY <1>2 DEF Scan!Crash, ShapeOK, ScanFollowsRow, MarkersAreRecorded, Scan!Idle, Scan!Triggered
<1>3. CASE \E p \in Scan!Plans : Scan!BeginScan(p)
  <2>1. PICK p \in Scan!Plans : Scan!BeginScan(p)
    BY <1>3
  <2>2. /\ scan' = [pc |-> "save", a |-> Scan!Assess(p)] /\ scan'.pc = "save"
        /\ scan'.a = Scan!Assess(p) /\ bar' = bar /\ row' = row /\ records' = records
    BY <2>1 DEF Scan!BeginScan
  <2>3. ShapeOK'
    BY <2>2, AssessShape DEF ShapeOK
  <2>4. Scan!Assess(p)' = Scan!Assess(p)
    BY <2>2 DEF Scan!Assess, Scan!SameSignal, Scan!Started, Scan!SameSetup, Scan!LevelChanged,
       Scan!DirChanged
  <2>5. ScanFollowsRow'
    BY <2>2, <2>4 DEF ScanFollowsRow
  <2>6. MarkersAreRecorded'
    BY <2>2 DEF MarkersAreRecorded, Scan!Triggered
  <2> QED BY <2>3, <2>5, <2>6
<1> QED BY <1>1, <1>2, <1>3

LEMMA SaveRecordInv ==
    ASSUME RecordInv, Scan!SaveSymbolState
    PROVE  RecordInv'
<1> USE DEF RecordInv
<1> DEFINE a == scan.a
<1>1. scan.pc = "save" /\ row' = Scan!SavedRow(a) /\ bar' = bar /\ records' = records
  BY DEF Scan!SaveSymbolState
<1>2. scan' = [pc |-> "record", a |-> a] /\ scan'.pc = "record" /\ scan'.a = a
  BY <1>1, ScanPc DEF Scan!SaveSymbolState
<1>3. ShapeOK'
  <2>1. bar \in Nat \ {0} /\ DOMAIN a = {"setup", "act", "life", "started", "sig"} /\ a.sig # <<>>
    BY <1>1 DEF ShapeOK, Scan!Idle
  <2>2. DOMAIN row' = RowFields
    BY <1>1, SavedRowFields
  <2> QED BY <1>1, <1>2, <2>1, <2>2 DEF ShapeOK
<1>4. ScanFollowsRow'
  BY <1>1, <1>2, SavedRowFields DEF ScanFollowsRow
<1>5. MarkersAreRecorded'
  <2>1. row'.triggeredId = <<>> \/ row'.triggeredId = row.triggeredId
    BY <1>1, SavedRowFields DEF Scan!Kept
  <2>2. row'.done = FALSE
    BY <1>1, SavedRowFields
  <2> QED BY <1>1, <2>1, <2>2 DEF MarkersAreRecorded, Scan!Triggered
<1> QED BY <1>3, <1>4, <1>5

LEMMA RecordRecordInv ==
    ASSUME RecordInv, Scan!RecordArmed \/ Scan!RecordTriggered
    PROVE  RecordInv'
<1> USE DEF RecordInv
<1> DEFINE a == scan.a
<1>1. CASE Scan!RecordArmed
  <2>1. /\ scan.pc = "record" /\ a.life = "ARMED" /\ row' = row /\ bar' = bar
        /\ records' = records
    BY <1>1 DEF Scan!RecordArmed
  <2>2. scan' = [pc |-> "mark", a |-> a] /\ scan'.pc = "mark" /\ scan'.a = a
    BY <1>1, <2>1, ScanPc DEF Scan!RecordArmed
  <2>3. ShapeOK'
    BY <2>1, <2>2 DEF ShapeOK, Scan!Idle
  <2>4. ScanFollowsRow'
    BY <2>1, <2>2 DEF ScanFollowsRow, Scan!Live
  <2> QED BY <2>1, <2>3, <2>4 DEF MarkersAreRecorded, Scan!Triggered
<1>2. CASE Scan!RecordTriggered
  <2>1. /\ scan.pc = "record" /\ a.life = "TRIGGERED" /\ row' = row /\ bar' = bar
        /\ records' = Scan!Recorded(a.sig)
    BY <1>2 DEF Scan!RecordTriggered
  <2>2. scan' = [pc |-> "mark", a |-> a] /\ scan'.pc = "mark" /\ scan'.a = a
    BY <1>2, <2>1, ScanPc DEF Scan!RecordTriggered
  <2>3. ShapeOK'
    BY <2>1, <2>2 DEF ShapeOK, Scan!Idle
  <2>4. /\ records \subseteq records'
        /\ (\A r \in records' : r \in records \/ r = [sig |-> a.sig, n |-> 1])
    BY <2>1 DEF Scan!Recorded
  <2>5. Scan!Triggered(a.sig)' # {}
    <3>1. CASE Scan!Triggered(a.sig) # {}
      BY <3>1, <2>2, <2>4 DEF Scan!Triggered
    <3>2. CASE Scan!Triggered(a.sig) = {}
      <4>1. [sig |-> a.sig, n |-> 1] \in records'
        BY <3>2, <2>1 DEF Scan!Recorded
      <4> QED BY <4>1, <2>2 DEF Scan!Triggered
    <3> QED BY <3>1, <3>2
  <2>6. ScanFollowsRow'
    BY <2>1, <2>2, <2>5 DEF ScanFollowsRow, Scan!Live
  <2>7. MarkersAreRecorded'
    <3>1. \A r \in records' : r = [sig |-> r.sig, n |-> 1]
      BY <2>4 DEF MarkersAreRecorded
    <3>2. ASSUME NEW x, Scan!Triggered(x) # {}
          PROVE  {r \in records' : r.sig = x} # {}
      BY <3>2, <2>4 DEF Scan!Triggered
    <3> QED BY <3>1, <3>2, <2>1 DEF MarkersAreRecorded, Scan!Triggered
  <2> QED BY <2>3, <2>6, <2>7
<1> QED BY <1>1, <1>2

LEMMA EndRecordInv ==
    ASSUME RecordInv, Scan!MarkRecorded \/ Scan!RecordNothing
    PROVE  RecordInv'
<1> USE DEF RecordInv
<1> DEFINE a == scan.a
<1>0. scan' = Scan!Idle /\ bar' = bar /\ records' = records
  BY DEF Scan!MarkRecorded, Scan!RecordNothing
<1>1. DOMAIN row' = RowFields /\ row'.life = row.life /\ row'.act = row.act /\ row'.sig = row.sig
  BY DEF Scan!MarkRecorded, Scan!RecordNothing, ShapeOK, RowFields
<1>2. ShapeOK' /\ ScanFollowsRow'
  BY <1>0, <1>1 DEF ShapeOK, ScanFollowsRow, Scan!Idle
<1>3. scan.pc \in {"record", "mark"}
  BY DEF Scan!MarkRecorded, Scan!RecordNothing
<1>4. row.life = a.life /\ row.act = a.act /\ row.sig = a.sig /\ a.sig # <<>>
  BY <1>3 DEF ShapeOK, ScanFollowsRow, Scan!Idle
<1>5. CASE Scan!MarkRecorded
  <2>1. scan.pc = "mark" /\ a.life \in Scan!Live
    BY <1>5 DEF Scan!MarkRecorded, ScanFollowsRow
  <2>2. CASE a.life = "ARMED"
    <3>1. row'.triggeredId = row.triggeredId
      BY <1>5, <2>2 DEF Scan!MarkRecorded, ShapeOK, RowFields
    <3> QED BY <1>0, <1>1, <1>2, <1>4, <2>2, <3>1 DEF MarkersAreRecorded, Scan!Triggered
  <2>3. CASE a.life = "TRIGGERED"
    <3>1. row'.triggeredId = a.sig
      BY <1>5, <2>3 DEF Scan!MarkRecorded, ShapeOK, RowFields
    <3>2. Scan!Triggered(a.sig) # {}
      BY <2>1, <2>3 DEF ScanFollowsRow
    <3> QED BY <1>0, <1>1, <1>2, <1>4, <3>1, <3>2 DEF MarkersAreRecorded, Scan!Triggered
  <2> QED BY <2>1, <2>2, <2>3 DEF Scan!Live
<1>6. CASE Scan!RecordNothing
  <2>1. row'.triggeredId = <<>> \/ row'.triggeredId = row.triggeredId
    BY <1>6 DEF Scan!RecordNothing, ShapeOK, RowFields
  <2>2. row.life = "TRIGGERED" /\ row.act => row.triggeredId = row.sig /\ row.sig # <<>>
    BY <1>4, <1>6 DEF Scan!RecordNothing
  <2> QED BY <1>0, <1>1, <1>2, <2>1, <2>2 DEF MarkersAreRecorded, Scan!Triggered
<1> QED BY <1>5, <1>6

LEMMA RecordInvStep == RecordInv /\ [Scan!Next]_(Scan!vars) => RecordInv'
<1> SUFFICES ASSUME RecordInv, [Scan!Next]_(Scan!vars) PROVE RecordInv'
  OBVIOUS
<1>1. CASE UNCHANGED Scan!vars
  <2>1. \A p : Scan!Assess(p)' = Scan!Assess(p)
    BY <1>1 DEF Scan!vars, Scan!Assess, Scan!SameSignal, Scan!Started, Scan!SameSetup,
       Scan!LevelChanged, Scan!DirChanged
  <2> QED BY <1>1, <2>1 DEF Scan!vars, RecordInv, ShapeOK, ScanFollowsRow, MarkersAreRecorded,
             Scan!Triggered
<1>2. CASE Scan!NewBar \/ Scan!Crash \/ (\E p \in Scan!Plans : Scan!BeginScan(p))
  BY <1>2, StartRecordInv
<1>3. CASE Scan!SaveSymbolState
  BY <1>3, SaveRecordInv
<1>4. CASE Scan!RecordArmed \/ Scan!RecordTriggered
  BY <1>4, RecordRecordInv
<1>5. CASE Scan!MarkRecorded \/ Scan!RecordNothing
  BY <1>5, EndRecordInv
<1> QED BY <1>1, <1>2, <1>3, <1>4, <1>5 DEF Scan!Next

(* The scan counts as the theorems on finite sets do. *)
LEMMA ScanCounts ==
    ASSUME NEW S
    PROVE  Scan!Cardinality(S) = Cardinality(S)
BY DEF Scan!Cardinality, Cardinality

LEMMA RecordsAreSingle == RecordInv => Scan!OneRecordPerTrigger
<1> SUFFICES ASSUME RecordInv PROVE Scan!OneRecordPerTrigger
  OBVIOUS
<1>1. ASSUME NEW r \in records
      PROVE  Cardinality(Scan!Triggered(r.sig)) = 1
  <2>1. Scan!Triggered(r.sig) = {r}
    BY DEF Scan!Triggered, RecordInv, MarkersAreRecorded
  <2> QED BY <2>1, FS_Singleton
<1> QED BY <1>1, ScanCounts DEF RecordInv, MarkersAreRecorded, Scan!OneRecordPerTrigger

(* A signal has at most one ACTIONABLE_TRIGGERED observation, whatever     *)
(* crashes and rescans, and a scan that came to its end has left one for   *)
(* the TRIGGERED signal of the row.  (record_shadow_observation and the    *)
(* dedupe markers of save_symbol_state)                                    *)
THEOREM OneObservationPerSignal == Scan!Spec => []Scan!OneRecordPerTrigger
BY InitRecordInv, RecordInvStep, RecordsAreSingle, PTL DEF Scan!Spec

----------------------------------------------------------------------------

(* A save moves the age and the time since which the signal is live        *)
(* together.                                                               *)
LEMMA SaveKeepsAge ==
    ASSUME MaxAge \in Nat \ {0}, AgeInv, Scan!SaveSymbolState
    PROVE  AgeIsKept' /\ Scan!SignalsExpire'
<1> DEFINE a == scan.a
<1>1. /\ row'.life = a.life /\ row'.created = Scan!Created(a) /\ row'.bar = bar /\ bar' = bar
      /\ scan.pc = "save"
  BY SavedRowFields DEF Scan!SaveSymbolState
<1>2. PICK p \in Scan!Plans : a = Scan!Assess(p)
  BY <1>1 DEF AgeInv, RecordInv, ScanFollowsRow
<1>3. a.setup = p.setup /\ a.sig = Scan!Signal(p.setup, Scan!Started(p.setup))
  BY <1>2, AssessShape
<1>4. /\ bar \in Nat \ {0} /\ since \in Nat /\ row.created \in Nat /\ row.created <= bar
      /\ since # 0 => row.created # 0 /\ row.created <= since
      /\ row.life \in Scan!Live <=> since # 0
  BY DEF AgeInv, RecordInv, ShapeOK, AgeIsKept
<1> DEFINE fresh == \/ since = 0 \/ row.sig # a.sig
                    \/ Scan!LevelChanged(a.setup) \/ Scan!DirChanged(a.setup)
<1>5. since' = IF a.life \notin Scan!Live THEN 0 ELSE IF fresh THEN bar ELSE since
  BY DEF Scan!SaveSymbolState
<1>6. Scan!Created(a) \in Nat /\ Scan!Created(a) # 0 /\ Scan!Created(a) <= bar
  BY <1>4 DEF Scan!Created
<1>7. CASE a.life \notin Scan!Live
  BY <1>1, <1>5, <1>6, <1>7 DEF AgeIsKept, Scan!SignalsExpire
<1>8. CASE a.life \in Scan!Live /\ fresh
  BY <1>1, <1>4, <1>5, <1>6, <1>8 DEF AgeIsKept, Scan!SignalsExpire
<1>9. CASE a.life \in Scan!Live /\ ~fresh
  <2>1. p.setup # Scan!NoTrade
    BY <1>2, <1>9, NoTradeIsNotLive
  <2>2. Scan!SameSignal(p.setup)
    BY <1>3, <1>9, <2>1 DEF Scan!SameSignal
  <2>3. ~Scan!IsReset(a)
    BY <1>3, <1>9, <2>1 DEF Scan!IsReset, Scan!Over, Scan!Live
  <2>4. row.created # 0 /\ row.created <= since /\ since # 0
    BY <1>4, <1>9
  <2>5. Scan!Created(a) = row.created /\ since' = since
    BY <1>5, <1>9, <2>3, <2>4 DEF Scan!Created
  <2>6. row.life \in Scan!Live
    BY <1>4, <2>4
  <2>7. bar - row.created < MaxAge
    BY <1>2, <1>4, <1>9, <2>2, <2>4, <2>6, SameIsYoung
  <2> QED BY <1>1, <1>4, <1>9, <2>4, <2>5, <2>7 DEF AgeIsKept, Scan!SignalsExpire
<1> QED BY <1>7, <1>8, <1>9

LEMMA AgeInvStep ==
    ASSUME MaxAge \in Nat \ {0}
    PROVE  AgeInv /\ [Scan!Next]_(Scan!vars) => AgeInv'
<1> SUFFICES ASSUME AgeInv, [Scan!Next]_(Scan!vars) PROVE AgeInv'
  OBVIOUS
<1>1. RecordInv'
  BY RecordInvStep DEF AgeInv
<1>2. CASE Scan!SaveSymbolState
  BY <1>1, <1>2, SaveKeepsAge DEF AgeInv
<1>3. CASE ~Scan!SaveSymbolState
  <2>1. since' = since /\ bar' \in {bar, bar + 1}
    BY <1>3 DEF Scan!vars, Scan!Next, Scan!NewBar, Scan!Crash, Scan!BeginScan,
       Scan!RecordArmed, Scan!RecordTriggered,
           Scan!MarkRecorded, Scan!RecordNothing
  <2>2. row'.life = row.life /\ row'.created = row.created /\ row'.bar = row.bar
    <3>1. CASE Scan!MarkRecorded \/ Scan!RecordNothing
      BY <3>1 DEF Scan!MarkRecorded, Scan!RecordNothing, AgeInv, RecordInv, ShapeOK, RowFields
    <3>2. CASE ~(Scan!MarkRecorded \/ Scan!RecordNothing)
      BY <1>3, <3>2 DEF Scan!vars, Scan!Next, Scan!NewBar, Scan!Crash, Scan!BeginScan,
         Scan!RecordArmed, Scan!RecordTriggered
    <3> QED BY <3>1, <3>2
  <2>3. bar \in Nat
    BY DEF AgeInv, RecordInv, ShapeOK
  <2> QED BY <1>1, <2>1, <2>2, <2>3 DEF AgeInv, AgeIsKept, Scan!SignalsExpire
<1> QED BY <1>2, <1>3

LEMMA InitAgeInv == Scan!Init => AgeInv
BY InitRecordInv DEF Scan!Init, AgeInv, AgeIsKept, Scan!SignalsExpire, Scan!NoRow, Scan!Live

(* A signal that the row keeps ARMED or TRIGGERED is younger than          *)
(* max_signal_age_bars: save_symbol_state never rejuvenates the signal     *)
(* whose age assess_symbol reads.                                          *)
THEOREM SignalAgeIsBounded ==
    ASSUME MaxAge \in Nat \ {0}
    PROVE  Scan!Spec => []Scan!SignalsExpire
<1>1. AgeInv /\ [Scan!Next]_(Scan!vars) => AgeInv'
  BY AgeInvStep
<1>2. AgeInv => Scan!SignalsExpire
  BY DEF AgeInv
<1> QED BY <1>1, <1>2, InitAgeInv, PTL DEF Scan!Spec

----------------------------------------------------------------------------

(***************************************************************************)
(* The resolver of the shadow observations, for every length of bar,       *)
(* window and horizon, every signal time and every path of the prices.     *)
(*                                                                         *)
(* validate_time_coverage of candles without a gap leaves none out: below  *)
(* a bar that is missing there would be a last one that is there, and the  *)
(* one that follows it is asked for (CoveredBars).  So a NO_FILL was given *)
(* by every bar that reaches into the window, and stage 1 passes over a    *)
(* bar only when none of its minutes from the signal on touches the entry  *)
(* zone (NoFillInBar).                                                     *)
(*                                                                         *)
(* A target needs more than the row says: between the call that finds the  *)
(* fill and the one that ends it, the row keeps the time of the fill and   *)
(* nothing of its minutes.  EarnInv tells what that time stands for while  *)
(* nothing was lost: a closed bar, the first touch in it, and no stop from *)
(* there to the end of the bar (FillHolds).  Bars tell the order of stop   *)
(* and target only one at a time, so what one bar leaves undecided is      *)
(* carried to the next (LaterBarsEarn).  ZoneIsTraded is needed: a bar is  *)
(* taken for a fill when its low and its high enclose the zone, and a      *)
(* price that jumps over the zone within a bar trades in no minute of it.  *)
(***************************************************************************)
CONSTANTS BarMinutes, Signal, EntryBars, HorizonBars, FinalBar, Ranges
VARIABLES path, rec, lossy

Shadow == INSTANCE ShadowResolver WITH LastBar <- FinalBar

(* The constants: a bar has minutes, and times are natural numbers. *)
ResolverConstants ==
    /\ BarMinutes \in Nat \ {0} /\ Signal \in Nat /\ EntryBars \in Nat
    /\ HorizonBars \in Nat /\ FinalBar \in Nat

(* The minutes traded are a sequence of ranges. *)
PathOK == path \in Seq(Ranges \cup {<<4, 4>>})

(* The row, as its columns are read. *)
RecordRow(r) ==
    /\ r = [status |-> r.status, fill |-> r.fill, end |-> r.end, regime |-> r.regime,
            reason |-> r.reason, resolved |-> r.resolved, saved |-> r.saved]
    /\ r.resolved \in BOOLEAN
    /\ ~r.resolved => r.reason = "none"

(* The invariant: nothing is decided of a record that is not resolved. *)
ResolverInv == ResolverConstants /\ PathOK /\ RecordRow(rec) /\ Shadow!NoFillIsTrue

----------------------------------------------------------------------------

(* Every set of natural numbers has a least one. *)
LEMMA LeastNatural ==
    ASSUME NEW T, T \subseteq Nat, T # {}
    PROVE  \E x \in T : \A y \in T : x <= y
<1>1. IsWellFoundedOn(OpToRel(<, Nat), Nat)
  BY NatLessThanWellFounded
<1>2. PICK x \in T : \A y \in T : ~(<<y, x>> \in OpToRel(<, Nat))
  BY <1>1, WFMin
<1>3. \A y \in T : ~(y < x)
  BY <1>2 DEF OpToRel
<1> QED BY <1>3

LEMMA MinIsLeast ==
    ASSUME NEW T, T \subseteq Nat, T # {}
    PROVE  Shadow!Min(T) \in T /\ \A y \in T : Shadow!Min(T) <= y
BY LeastNatural DEF Shadow!Min

(* The last number of T below n. *)
LEMMA LastBelow ==
    ASSUME NEW T, T \subseteq Nat, NEW n \in Nat, \E x \in T : x < n
    PROVE  \E x \in T : x < n /\ \A y \in T : y < n => y <= x
<1> DEFINE D == {k \in Nat : \E x \in T : x < n /\ k = n - x}
<1>1. D # {} /\ D \subseteq Nat
  <2>1. PICK x \in T : x < n
    OBVIOUS
  <2>2. n - x \in Nat
    BY <2>1
  <2> QED BY <2>1, <2>2
<1>2. PICK k \in D : \A j \in D : k <= j
  BY <1>1, LeastNatural
<1>3. PICK x \in T : x < n /\ k = n - x
  BY <1>2
<1>4. ASSUME NEW y \in T, y < n PROVE y <= x
  <2>1. n - y \in D
    BY <1>4
  <2>2. k <= n - y
    BY <1>2, <2>1
  <2> QED BY <1>3, <2>2
<1> QED BY <1>3, <1>4

(* Bars are as long as BarTicks, and follow each other. *)
LEMMA BarOrder ==
    ASSUME ResolverConstants, NEW b \in Nat, NEW c \in Nat
    PROVE  /\ Shadow!BarTicks \in Nat \ {0} /\ Shadow!BarOpen(b) \in Nat
           /\ Shadow!BarOpen(b + 1) = Shadow!BarOpen(b) + Shadow!BarTicks
           /\ Shadow!BarClose(b) = Shadow!BarOpen(b) + Shadow!BarTicks - 1
           /\ b < c => Shadow!BarOpen(b) + Shadow!BarTicks <= Shadow!BarOpen(c)
           /\ Shadow!BarOpen(b) = Shadow!BarOpen(c) => b = c
<1>1. Shadow!BarTicks \in Nat \ {0}
  BY DEF ResolverConstants, Shadow!BarTicks
<1>2. \A x \in Nat : x * Shadow!BarTicks \in Nat
  BY <1>1
<1>3. \A x \in Nat : (x + 1) * Shadow!BarTicks = x * Shadow!BarTicks + Shadow!BarTicks
  BY <1>1
<1>4. ASSUME NEW x \in Nat, NEW y \in Nat, x < y
      PROVE  x * Shadow!BarTicks + Shadow!BarTicks <= y * Shadow!BarTicks
  <2>1. y - (x + 1) \in Nat
    BY <1>4
  <2>2. (y - (x + 1)) * Shadow!BarTicks \in Nat
    BY <1>2, <2>1
  <2>3. y * Shadow!BarTicks = (x + 1) * Shadow!BarTicks + (y - (x + 1)) * Shadow!BarTicks
    BY <1>1, <1>4
  <2> QED BY <1>1, <1>2, <1>3, <2>2, <2>3
<1>5. Shadow!BarOpen(b) = Shadow!BarOpen(c) => b = c
  BY <1>1, <1>2, <1>4 DEF Shadow!BarOpen
<1>6. /\ Shadow!BarOpen(b) \in Nat /\ Shadow!BarOpen(b + 1) = Shadow!BarOpen(b) + Shadow!BarTicks
      /\ b < c => Shadow!BarOpen(b) + Shadow!BarTicks <= Shadow!BarOpen(c)
  BY <1>2, <1>3, <1>4 DEF Shadow!BarOpen
<1>7. Shadow!BarClose(b) = Shadow!BarOpen(b) + Shadow!BarTicks - 1
  <2>1. Shadow!BarClose(b) = Shadow!BarOpen(b + 1) - 1
    BY DEF Shadow!BarClose
  <2> QED BY <1>1, <1>6, <2>1
<1> QED BY <1>1, <1>5, <1>6, <1>7

(* validate_time_coverage, of bars: every bar that reaches into the window *)
(* is there.                                                               *)
LEMMA CoveredBars ==
    ASSUME ResolverConstants, NEW bs, bs \subseteq Nat, NEW start \in Nat, NEW end \in Nat,
           Shadow!BarsCovered(bs, start, end),
           NEW b \in Nat, Shadow!BarClose(b) > start, Shadow!BarOpen(b) < end
    PROVE  b \in bs
<1> DEFINE opens == {Shadow!BarOpen(c) : c \in bs}
           last == Shadow!Max(opens)
<1>1. /\ opens # {} /\ Shadow!Min(opens) <= start
      /\ last + Shadow!BarTicks - 1 >= (IF end > start THEN end - 1 ELSE end)
      /\ \A o \in opens : o = last \/ o + Shadow!BarTicks \in opens
  BY DEF Shadow!BarsCovered, Shadow!Covered
<1>2. /\ Shadow!BarTicks \in Nat \ {0}
      /\ \A c \in Nat : /\ Shadow!BarOpen(c) \in Nat
                        /\ Shadow!BarOpen(c + 1) = Shadow!BarOpen(c) + Shadow!BarTicks
  BY BarOrder
<1>3. opens \subseteq Nat
  BY <1>2
<1>4. PICK c \in bs : Shadow!BarOpen(c) <= start
  BY <1>1, <1>3, MinIsLeast
<1>5. Shadow!BarOpen(b) + Shadow!BarTicks - 1 > start
  BY BarOrder
<1>6. c <= b
  <2>1. SUFFICES ASSUME b < c PROVE FALSE
    OBVIOUS
  <2>2. Shadow!BarOpen(b) + Shadow!BarTicks <= Shadow!BarOpen(c)
    BY <2>1, BarOrder
  <2> QED BY <1>2, <1>4, <1>5, <2>2
<1> HIDE DEF last
<1>7. SUFFICES ASSUME b \notin bs PROVE FALSE
  OBVIOUS
<1>8. c < b
  BY <1>6, <1>7
<1>9. PICK t \in bs : t < b /\ \A y \in bs : y < b => y <= t
  BY <1>8, LastBelow
<1>10. Shadow!BarOpen(t) + Shadow!BarTicks <= Shadow!BarOpen(b)
  BY <1>9, BarOrder
<1>11. Shadow!BarOpen(t) # last
  <2>1. last + Shadow!BarTicks > Shadow!BarOpen(t) + Shadow!BarTicks \/ last # Shadow!BarOpen(t)
    BY <1>1, <1>2, <1>10
  <2> QED BY <1>2, <2>1
<1>12. Shadow!BarOpen(t) + Shadow!BarTicks \in opens
  BY <1>1, <1>11
<1>13. PICK u \in bs : Shadow!BarOpen(u) = Shadow!BarOpen(t + 1)
  BY <1>2, <1>12
<1>14. u = t + 1
  BY <1>13, BarOrder
<1> QED BY <1>7, <1>9, <1>14

(* A minute of a bar that stage 1 finds no fill in. *)
LEMMA NoFillInBar ==
    ASSUME Signal \in Nat, NEW b, NEW mins \in {Shadow!Traded, {}},
           Shadow!FillIn(b, mins) = Shadow!NoFill,
           NEW m \in Shadow!MinutesOf(b), Shadow!AfterSignal(m)
    PROVE  ~Shadow!Entry({m})
<1> DEFINE ms == mins \cap Shadow!MinutesOf(b)
           all == Shadow!MinutesOf(b)
<1>0. m \in Shadow!Traded /\ m \in Int /\ 2 * m >= Signal
  BY DEF Shadow!MinutesOf, Shadow!Traded, Shadow!AfterSignal, Shadow!Open
<1>1. CASE Shadow!BarOpen(b) < Signal
  <2> DEFINE late == {k \in ms : Shadow!Close(k) > Signal}
             touching == {k \in late : Shadow!Open(k) >= Signal /\ Shadow!Entry({k})}
  <2>1. \/ Shadow!MinutesCovered(ms, Shadow!BarOpen(b), Shadow!BarClose(b))
        \/ Shadow!MinutesCovered(ms, Signal, Shadow!BarClose(b))
    BY <1>1 DEF Shadow!FillIn, Shadow!NoFill, Shadow!Gap
  <2>2. ms # {}
    BY <2>1 DEF Shadow!MinutesCovered, Shadow!Covered
  <2>3. m \in ms
    BY <1>0, <2>2
  <2>4. Shadow!TouchFill(late) = Shadow!NoFill
    BY <1>1, <2>1 DEF Shadow!FillIn
  <2>5. touching = {}
    BY <2>4 DEF Shadow!TouchFill, Shadow!NoFill, Shadow!FilledAt
  <2>6. Shadow!Close(m) > Signal
    <3>1. Shadow!Close(m) = 2 * m + 1
      BY DEF Shadow!Close
    <3> QED BY <1>0, <3>1
  <2> QED BY <1>0, <2>3, <2>5, <2>6 DEF Shadow!AfterSignal
<1>2. CASE ~(Shadow!BarOpen(b) < Signal)
  <2>1. ~Shadow!Entry(all)
    BY <1>2 DEF Shadow!FillIn, Shadow!NoFill, Shadow!FilledAt
  <2>2. Shadow!LowTo({m}, 3) => Shadow!LowTo(all, 3)
    BY DEF Shadow!LowTo
  <2>3. Shadow!HighTo({m}, 3) => Shadow!HighTo(all, 3)
    BY DEF Shadow!HighTo
  <2> QED BY <2>1, <2>2, <2>3 DEF Shadow!Entry
<1> QED BY <1>1, <1>2

(* The times and the candles of a call. *)
LEMMA CallTypes ==
    ASSUME ResolverConstants, NEW raw \in Shadow!Fetches
    PROVE  raw \subseteq Nat /\ Shadow!WindowEnd \in Nat /\ Signal \in Nat
<1>1. EntryBars * Shadow!BarTicks \in Nat
  BY DEF ResolverConstants, Shadow!BarTicks
<1>2. Shadow!WindowEnd \in Nat /\ Signal \in Nat
  BY <1>1 DEF Shadow!WindowEnd, ResolverConstants
<1>3. Shadow!Bars \subseteq Nat
  BY DEF Shadow!Bars, ResolverConstants
<1>4. \A S : \A bs \in Shadow!Found(S) : bs \subseteq S
  BY DEF Shadow!Found
<1>5. Shadow!Closed \subseteq Shadow!Bars /\ Shadow!Recovered \subseteq Shadow!Bars
  BY DEF Shadow!Closed, Shadow!Recovered
<1> QED BY <1>2, <1>3, <1>4, <1>5 DEF Shadow!Fetches

(* A window whose bars are all there and show no fill had none. *)
LEMMA CoveredWindowIsUnfilled ==
    ASSUME ResolverConstants, NEW raw \in Shadow!Fetches, NEW mins \in {Shadow!Traded, {}},
           \A b \in Shadow!ForFill(raw) : Shadow!FillIn(b, mins) = Shadow!NoFill,
           Shadow!BarsCovered(Shadow!ForFill(raw), Signal, Shadow!WindowEnd),
           NEW m \in Shadow!Traded, Shadow!AfterSignal(m), Shadow!InWindow(m)
    PROVE  ~Shadow!Entry({m})
<1>1. PICK b \in Shadow!Bars : m \in Shadow!MinutesOf(b) /\ Shadow!BarOpen(b) < Shadow!WindowEnd
  BY DEF Shadow!InWindow
<1>2. b \in Nat
  BY <1>1 DEF Shadow!Bars, ResolverConstants
<1>3. raw \subseteq Nat /\ Shadow!WindowEnd \in Nat /\ Signal \in Nat
  BY CallTypes
<1>4. Shadow!BarClose(b) > Signal
  <2>1. Shadow!Close(m) = 2 * m + 1 /\ Shadow!Open(m) = 2 * m /\ m \in Int
    BY DEF Shadow!Close, Shadow!Open, Shadow!Traded
  <2>2. 2 * m >= Signal /\ 2 * m + 1 <= Shadow!BarClose(b)
    BY <1>1, <2>1 DEF Shadow!AfterSignal, Shadow!MinutesOf
  <2>3. Shadow!BarClose(b) \in Int
    BY <1>2, BarOrder
  <2> QED BY <1>3, <2>1, <2>2, <2>3
<1>5. Shadow!ForFill(raw) \subseteq Nat
  BY <1>3 DEF Shadow!ForFill
<1>6. b \in Shadow!ForFill(raw)
  BY <1>1, <1>2, <1>3, <1>4, <1>5, CoveredBars
<1> QED BY <1>1, <1>3, <1>6, NoFillInBar

(* What stage 1 makes of a record that waits. *)
LEMMA FillOutcomes ==
    ASSUME ResolverConstants, PathOK, RecordRow(rec), ~rec.resolved, rec.status # "FILLED",
           NEW raw, NEW mins,
           NEW s, s = Shadow!ResolveFill(raw, mins)
    PROVE  /\ RecordRow(s.rec)
           /\ s.rec.status = "FILLED" => ~s.rec.resolved
           /\ s.rec.reason = "NO_FILL" =>
                /\ \A b \in Shadow!ForFill(raw) : Shadow!FillIn(b, mins) = Shadow!NoFill
                /\ Shadow!BarsCovered(Shadow!ForFill(raw), Signal, Shadow!WindowEnd)
<1> DEFINE deciding == {b \in Shadow!ForFill(raw) : Shadow!FillIn(b, mins) # Shadow!NoFill}
           first == Shadow!FillIn(Shadow!Min(deciding), mins)
           filled == [rec EXCEPT !.status = "FILLED", !.fill = first.t,
                               !.end = first.t + Shadow!Horizon]
           none == [Shadow!Resolved(rec, "NO_FILL", "NO_FILL") EXCEPT !.status = "NO_FILL"]
<1>1. \/ s.rec = Shadow!Pending(rec, "PARTIAL_SIGNAL_BAR_DATA_GAP")
      \/ s.rec = filled
      \/ s.rec = rec
      \/ s.rec = Shadow!Pending(rec, "ENTRY_WINDOW_DATA_GAP")
      \/ /\ s.rec = none /\ deciding = {}
         /\ Shadow!BarsCovered(Shadow!ForFill(raw), Signal, Shadow!WindowEnd)
  <2>0. Shadow!Now \in Int /\ Shadow!WindowEnd \in Int
    <3>1. EntryBars * Shadow!BarTicks \in Nat
      BY DEF ResolverConstants, Shadow!BarTicks
    <3> QED BY <3>1 DEF Shadow!Now, Shadow!WindowEnd, ResolverConstants, PathOK
  <2> DEFINE gap == Shadow!Stage(Shadow!Pending(rec, "PARTIAL_SIGNAL_BAR_DATA_GAP"), -1, {}, FALSE)
             filledAt == Shadow!Stage(filled, Shadow!Min(deciding), first.rest, first.stopped)
             waits == Shadow!Stage(rec, -1, {}, FALSE)
             short == Shadow!Stage(Shadow!Pending(rec, "ENTRY_WINDOW_DATA_GAP"), -1, {}, FALSE)
             unfilled == Shadow!Stage(none, -1, {}, FALSE)
             covered == Shadow!BarsCovered(Shadow!ForFill(raw), Signal, Shadow!WindowEnd)
  <2>1. s = CASE deciding # {} /\ first = Shadow!Gap -> gap
              [] deciding # {} /\ first # Shadow!Gap -> filledAt
              [] deciding = {} /\ Shadow!Now < Shadow!WindowEnd -> waits
              [] deciding = {} /\ Shadow!Now >= Shadow!WindowEnd /\ ~covered -> short
              [] OTHER -> unfilled
    BY DEF Shadow!ResolveFill
  <2>2. /\ gap.rec = Shadow!Pending(rec, "PARTIAL_SIGNAL_BAR_DATA_GAP")
        /\ filledAt.rec = filled /\ waits.rec = rec
        /\ short.rec = Shadow!Pending(rec, "ENTRY_WINDOW_DATA_GAP") /\ unfilled.rec = none
    BY DEF Shadow!Stage
  <2> HIDE DEF deciding, first, filled, none, gap, filledAt, waits, short, unfilled, covered
  <2>3. \/ s \in {gap, filledAt, waits, short}
        \/ s = unfilled /\ deciding = {} /\ covered
    BY <2>0, <2>1
  <2> QED BY <2>2, <2>3 DEF covered
<1> HIDE DEF deciding, first
<1>2. ASSUME NEW why, s.rec = Shadow!Pending(rec, why)
      PROVE  RecordRow(s.rec) /\ ~s.rec.resolved
  BY <1>2 DEF Shadow!Pending, RecordRow
<1>3. CASE s.rec = filled
  BY <1>3 DEF RecordRow
<1>4. ASSUME s.rec = none
      PROVE  RecordRow(s.rec) /\ s.rec.status = "NO_FILL"
  BY <1>4 DEF Shadow!Resolved, RecordRow
<1>5. (s.rec.reason = "NO_FILL" => s.rec.resolved) /\ (s.rec = rec => RecordRow(s.rec))
  BY <1>1, <1>2, <1>3, <1>4 DEF RecordRow
<1>6. CASE /\ s.rec = none /\ deciding = {}
           /\ Shadow!BarsCovered(Shadow!ForFill(raw), Signal, Shadow!WindowEnd)
  BY <1>4, <1>6 DEF deciding
<1> QED BY <1>1, <1>2, <1>3, <1>5, <1>6 DEF RecordRow

(* What stage 2 makes of a record with its fill: never NO_FILL. *)
LEMMA OutcomeReasons ==
    ASSUME NEW s, RecordRow(s.rec), ~s.rec.resolved, NEW raw, NEW mins, NEW bs,
           NEW r, r = Shadow!ResolveOutcome(s, raw, mins, bs)
    PROVE  RecordRow(r) /\ r.reason # "NO_FILL"
<1> DEFINE ended == IF Shadow!FillBarOutcome(s) # "none" THEN Shadow!FillBarOutcome(s)
                    ELSE Shadow!Forward(bs, mins)
<1>1. \A ms, k : Shadow!Intrabar(ms, k) \in {"none", "STOP", "TP1"}
  BY DEF Shadow!Intrabar
<1>2. \A b : Shadow!BarOutcome(b, mins) \in {"none", "STOP", "TP1"}
  BY <1>1 DEF Shadow!BarOutcome
<1>3. Shadow!Forward(bs, mins) \in {"none", "STOP", "TP1"}
  BY <1>2 DEF Shadow!Forward
<1>4. Shadow!FillBarOutcome(s) \in {"none", "STOP", "TP1"}
  BY <1>1 DEF Shadow!FillBarOutcome
<1>5. ended \in {"none", "STOP", "TP1"}
  BY <1>3, <1>4
<1>6. \/ r = Shadow!Resolved(s.rec, "RESOLVED_TERMINAL", ended)
      \/ r = s.rec
      \/ r = Shadow!Resolved(s.rec, "RESOLVED_MATURED", "TIMEOUT")
      \/ r = Shadow!Pending(s.rec, "OUTCOME_WINDOW_DATA_GAP")
  BY DEF Shadow!ResolveOutcome
<1> HIDE DEF ended
<1>7. ASSUME NEW regime, NEW reason, reason # "NO_FILL", r = Shadow!Resolved(s.rec, regime, reason)
      PROVE  RecordRow(r) /\ r.reason # "NO_FILL"
  BY <1>7 DEF Shadow!Resolved, RecordRow
<1>8. ASSUME r = Shadow!Pending(s.rec, "OUTCOME_WINDOW_DATA_GAP")
      PROVE  RecordRow(r) /\ r.reason # "NO_FILL"
  BY <1>8 DEF Shadow!Pending, RecordRow
<1>9. RecordRow(s.rec) /\ s.rec.reason # "NO_FILL"
  BY DEF RecordRow
<1> QED BY <1>5, <1>6, <1>7, <1>8, <1>9

(* A save marks the record and decides nothing. *)
LEMMA SavedRecord ==
    ASSUME NEW r, RecordRow(r)
    PROVE  RecordRow(Shadow!Materialized(r)) /\ Shadow!Materialized(r).reason = r.reason
BY DEF Shadow!Materialized, RecordRow

----------------------------------------------------------------------------

(* Every step of the resolver keeps its invariant. *)
LEMMA InitResolverInv ==
    ASSUME ResolverConstants
    PROVE  Shadow!Init => ResolverInv
<1> SUFFICES ASSUME Shadow!Init PROVE ResolverInv
  OBVIOUS
<1>1. rec = Shadow!Waiting
  BY DEF Shadow!Init
<1>2. PathOK
  <2>1. (Signal + 1) \div 2 \in Nat
    BY DEF ResolverConstants
  <2> QED BY <2>1 DEF Shadow!Init, PathOK
<1> QED BY <1>1, <1>2 DEF ResolverInv, RecordRow, Shadow!Waiting, Shadow!NoFillIsTrue

LEMMA ResolveKeepsInv ==
    ASSUME ResolverInv, NEW raw \in Shadow!Fetches, NEW mins \in {Shadow!Traded, {}},
           Shadow!Resolve(raw, mins)
    PROVE  ResolverInv'
<1> USE DEF ResolverInv
<1> DEFINE Unfilled ==
             \A m \in Shadow!Traded :
                Shadow!AfterSignal(m) /\ Shadow!InWindow(m) => ~Shadow!Entry({m})
<1>1. ~rec.resolved /\ path' = path
  BY DEF Shadow!Resolve
<1>2. PICK s : s = IF rec.status = "FILLED" THEN Shadow!Resumed ELSE Shadow!ResolveFill(raw, mins)
  OBVIOUS
<1>3. /\ RecordRow(s.rec)
      /\ s.rec.reason = "NO_FILL" => Unfilled
      /\ s.rec.status = "FILLED" => ~s.rec.resolved
  <2>1. CASE rec.status = "FILLED"
    <3>1. s.rec = rec
      BY <1>2, <2>1 DEF Shadow!Resumed, Shadow!Stage
    <3> QED BY <1>1, <3>1 DEF RecordRow
  <2>2. CASE rec.status # "FILLED"
    <3>1. s = Shadow!ResolveFill(raw, mins)
      BY <1>2, <2>2
    <3>2. /\ RecordRow(s.rec)
          /\ s.rec.status = "FILLED" => ~s.rec.resolved
          /\ s.rec.reason = "NO_FILL" =>
                /\ \A b \in Shadow!ForFill(raw) : Shadow!FillIn(b, mins) = Shadow!NoFill
                /\ Shadow!BarsCovered(Shadow!ForFill(raw), Signal, Shadow!WindowEnd)
      BY <1>1, <2>2, <3>1, FillOutcomes
    <3> QED BY <3>2, CoveredWindowIsUnfilled
  <2> QED BY <2>1, <2>2
<1>4. RecordRow(rec') /\ (rec'.reason = "NO_FILL" => Unfilled)
  <2>1. CASE rec' \in {s.rec, Shadow!Materialized(s.rec)}
    BY <1>3, <2>1, SavedRecord
  <2>2. ASSUME s.rec.status = "FILLED", NEW bs,
               rec' \in {Shadow!ResolveOutcome(s, raw, mins, bs),
                         Shadow!Materialized(Shadow!ResolveOutcome(s, raw, mins, bs))}
        PROVE  RecordRow(rec') /\ rec'.reason # "NO_FILL"
    <3>1. PICK r : r = Shadow!ResolveOutcome(s, raw, mins, bs)
      OBVIOUS
    <3>2. RecordRow(r) /\ r.reason # "NO_FILL"
      BY <1>3, <2>2, <3>1, OutcomeReasons
    <3> QED BY <2>2, <3>1, <3>2, SavedRecord
  <2> HIDE DEF Unfilled
  <2> QED BY <1>2, <2>1, <2>2 DEF Shadow!Resolve
<1>5. Unfilled => Unfilled'
  BY <1>1 DEF Shadow!Traded, Shadow!AfterSignal, Shadow!InWindow, Shadow!MinutesOf,
     Shadow!Entry, Shadow!LowTo, Shadow!HighTo
<1>6. Shadow!NoFillIsTrue'
  BY <1>4, <1>5 DEF Shadow!NoFillIsTrue
<1> QED BY <1>1, <1>4, <1>6 DEF ResolverConstants, RecordRow, PathOK

LEMMA NextKeepsResolverInv ==
    ASSUME ResolverInv, [Shadow!Next]_(Shadow!vars)
    PROVE  ResolverInv'
<1>1. ASSUME NEW r \in Ranges, Shadow!Minute(r) PROVE ResolverInv'
  <2>1. rec' = rec /\ rec.reason = "none"
    BY <1>1 DEF Shadow!Minute, ResolverInv, RecordRow
  <2>2. PathOK'
    BY <1>1 DEF Shadow!Minute, ResolverInv, PathOK
  <2> QED BY <2>1, <2>2 DEF ResolverInv, ResolverConstants, RecordRow, Shadow!NoFillIsTrue
<1>2. ASSUME UNCHANGED Shadow!vars PROVE ResolverInv'
  BY <1>2 DEF Shadow!vars, ResolverInv, ResolverConstants, RecordRow, PathOK,
     Shadow!NoFillIsTrue, Shadow!Traded, Shadow!AfterSignal,
     Shadow!InWindow, Shadow!MinutesOf, Shadow!Entry, Shadow!LowTo, Shadow!HighTo
<1> QED BY <1>1, <1>2, ResolveKeepsInv DEF Shadow!Next

(* A signal that the resolver settles as NO_FILL had no fill: whatever     *)
(* candles were missing, from whichever request, no minute after the       *)
(* signal touched the entry zone in the bars of the window.                *)
(* (resolve_pending_observations, stage 1)                                 *)
THEOREM UnfilledSignalsHadNoFill ==
    ASSUME ResolverConstants
    PROVE  Shadow!Spec => []Shadow!NoFillIsTrue
<1>1. Shadow!Init => ResolverInv
  BY InitResolverInv
<1>2. ResolverInv /\ [Shadow!Next]_(Shadow!vars) => ResolverInv'
  BY NextKeepsResolverInv
<1>3. ResolverInv => Shadow!NoFillIsTrue
  BY DEF ResolverInv
<1> QED BY <1>1, <1>2, <1>3, PTL DEF Shadow!Spec

----------------------------------------------------------------------------

(* The target.  A bar that reaches below and above the entry zone has a    *)
(* minute that trades in it: the price does not jump over the zone.        *)
ZoneIsTraded ==
    \A b \in Shadow!Bars : Shadow!Entry(Shadow!MinutesOf(b))
        => \E m \in Shadow!MinutesOf(b) : Shadow!Entry({m})

(* The first minute from the signal on that touches the zone. *)
FirstTouch(f) ==
    /\ f \in Shadow!Traded /\ Shadow!AfterSignal(f) /\ Shadow!Entry({f})
    /\ \A m \in Shadow!Traded : Shadow!AfterSignal(m) /\ m < f => ~Shadow!Entry({m})

(* A fill in the closed bar b, by the first touch, whose rest saw no stop. *)
FillHolds(b, f, fill) ==
    /\ b \in Shadow!Closed /\ f \in Shadow!MinutesOf(b) /\ FirstTouch(f)
    /\ fill \in Nat /\ Shadow!BarOpen(b) < fill /\ fill <= Shadow!BarClose(b)
    /\ \A m \in Shadow!MinutesOf(b) : m >= f => ~Shadow!StopHit({m})

(* What a later call resumes from. *)
FillKnown ==
    rec.status = "FILLED" /\ ~rec.resolved /\ ~lossy =>
        rec.end \in Nat /\ \E b, f : FillHolds(b, f, rec.fill)

EarnInv ==
    /\ ResolverConstants /\ PathOK /\ RecordRow(rec) /\ lossy \in BOOLEAN
    /\ FillKnown /\ Shadow!TargetIsEarned

----------------------------------------------------------------------------

(* Minutes are counted from 0. *)
LEMMA MinuteTypes ==
    ASSUME PathOK, ResolverConstants
    PROVE  /\ Len(path) \in Nat /\ Shadow!Now \in Nat /\ Shadow!Traded \subseteq Nat
           /\ \A b : Shadow!MinutesOf(b) \subseteq Shadow!Traded
           /\ \A m \in Nat : Shadow!Open(m) = 2 * m /\ Shadow!Close(m) = 2 * m + 1
           /\ Shadow!Bars \subseteq Nat /\ Signal \in Nat
<1>1. Len(path) \in Nat
  BY DEF PathOK
<1> QED BY <1>1 DEF Shadow!Now, Shadow!Traded, Shadow!MinutesOf, Shadow!Open, Shadow!Close,
           Shadow!Bars, ResolverConstants

(* A minute is in a bar if the bar opens with it or before, and closes     *)
(* with it or later.                                                       *)
LEMMA InBar ==
    ASSUME PathOK, ResolverConstants, NEW b \in Nat, NEW m
    PROVE  m \in Shadow!MinutesOf(b) <=>
             /\ m \in Shadow!Traded /\ Shadow!BarOpen(b) <= 2 * m
             /\ 2 * m + 1 < Shadow!BarOpen(b) + Shadow!BarTicks
<1>1. /\ Shadow!BarOpen(b) \in Nat /\ Shadow!BarTicks \in Nat
      /\ Shadow!BarClose(b) = Shadow!BarOpen(b) + Shadow!BarTicks - 1
  BY BarOrder
<1>2. m \in Shadow!Traded => m \in Nat /\ Shadow!Open(m) = 2 * m /\ Shadow!Close(m) = 2 * m + 1
  BY MinuteTypes
<1> QED BY <1>1, <1>2 DEF Shadow!MinutesOf

(* Every minute is in a bar. *)
LEMMA MinuteHasBar ==
    ASSUME PathOK, ResolverConstants, NEW m \in Shadow!Traded
    PROVE  \E b \in Nat : m \in Shadow!MinutesOf(b)
<1> DEFINE T == {Shadow!BarOpen(b) : b \in Nat}
<1>0. /\ m \in Nat /\ BarMinutes \in Nat \ {0} /\ Shadow!BarTicks \in Nat \ {0}
      /\ Shadow!BarTicks = 2 * BarMinutes
  BY MinuteTypes, BarOrder DEF ResolverConstants, Shadow!BarTicks
<1>1. T \subseteq Nat
  BY BarOrder
<1>2. Shadow!BarOpen(0) = 0
  BY <1>0 DEF Shadow!BarOpen
<1>3. \E x \in T : x < 2 * m + 1
  BY <1>0, <1>2
<1>4. PICK x \in T : x < 2 * m + 1 /\ \A y \in T : y < 2 * m + 1 => y <= x
  <2>1. 2 * m + 1 \in Nat
    BY <1>0
  <2> QED BY <1>1, <1>3, <2>1, LastBelow
<1>5. PICK b \in Nat : x = Shadow!BarOpen(b)
  BY <1>4
<1>6. /\ Shadow!BarOpen(b + 1) = Shadow!BarOpen(b) + Shadow!BarTicks /\ Shadow!BarOpen(b) \in Nat
      /\ Shadow!BarOpen(b + 1) \in T
  BY BarOrder
<1>7. ~(Shadow!BarOpen(b) + Shadow!BarTicks < 2 * m + 1)
  BY <1>0, <1>4, <1>5, <1>6
<1>8. PICK k \in Nat : Shadow!BarOpen(b) + Shadow!BarTicks = 2 * k
  <2>1. (b + 1) * BarMinutes \in Nat
    BY <1>0
  <2>2. (b + 1) * (2 * BarMinutes) = 2 * ((b + 1) * BarMinutes)
    BY <1>0
  <2> QED BY <1>0, <1>6, <2>1, <2>2 DEF Shadow!BarOpen
<1>9. 2 * m + 1 < Shadow!BarOpen(b) + Shadow!BarTicks /\ Shadow!BarOpen(b) <= 2 * m
  BY <1>0, <1>4, <1>5, <1>6, <1>7, <1>8
<1> QED BY <1>9, InBar

(* Bars follow each other as their minutes do. *)
LEMMA MinuteOrder ==
    ASSUME PathOK, ResolverConstants, NEW b \in Nat, NEW c \in Nat,
           NEW m \in Shadow!MinutesOf(b), NEW n \in Shadow!MinutesOf(c)
    PROVE  (m <= n => b <= c) /\ (b < c => m < n)
<1>1. m \in Nat /\ n \in Nat
  BY MinuteTypes
<1>2. /\ Shadow!BarOpen(b) <= 2 * m /\ 2 * m + 1 < Shadow!BarOpen(b) + Shadow!BarTicks
      /\ Shadow!BarOpen(c) <= 2 * n /\ 2 * n + 1 < Shadow!BarOpen(c) + Shadow!BarTicks
  BY InBar
<1>3. /\ Shadow!BarOpen(b) \in Nat /\ Shadow!BarOpen(c) \in Nat /\ Shadow!BarTicks \in Nat
      /\ b < c => Shadow!BarOpen(b) + Shadow!BarTicks <= Shadow!BarOpen(c)
      /\ c < b => Shadow!BarOpen(c) + Shadow!BarTicks <= Shadow!BarOpen(b)
  BY BarOrder
<1> QED BY <1>1, <1>2, <1>3

(* The minutes of a bar have no hole. *)
LEMMA BarIsConvex ==
    ASSUME PathOK, ResolverConstants, NEW b \in Nat, NEW f \in Shadow!MinutesOf(b),
           NEW t \in Shadow!MinutesOf(b)
    PROVE  f .. t \subseteq Shadow!MinutesOf(b)
<1>1. f \in Nat /\ t \in Nat /\ t \in Shadow!Traded /\ Len(path) \in Nat
  BY MinuteTypes
<1>2. Shadow!BarOpen(b) <= 2 * f /\ 2 * t + 1 < Shadow!BarOpen(b) + Shadow!BarTicks
  BY InBar
<1>3. Shadow!BarOpen(b) \in Nat /\ Shadow!BarTicks \in Nat
  BY BarOrder
<1>4. ASSUME NEW m \in f .. t PROVE m \in Shadow!MinutesOf(b)
  <2>1. m \in Nat /\ f <= m /\ m <= t
    BY <1>1
  <2>2. m \in Shadow!Traded
    BY <1>1, <2>1 DEF Shadow!Traded
  <2>3. Shadow!BarOpen(b) <= 2 * m /\ 2 * m + 1 < Shadow!BarOpen(b) + Shadow!BarTicks
    BY <1>1, <1>2, <1>3, <2>1
  <2> QED BY <2>2, <2>3, InBar
<1> QED BY <1>4

----------------------------------------------------------------------------

(* evaluate_intrabar_path: nothing, or a target that no stop came before. *)
LEMMA IntrabarOutcomes ==
    ASSUME NEW ms, ms \subseteq Nat, NEW k
    PROVE  /\ Shadow!Intrabar(ms, k) = "none" => \A m \in ms : ~Shadow!StopHit({m})
           /\ Shadow!Intrabar(ms, k) = "TP1" =>
                \E t \in ms : /\ Shadow!TargetHit({t}) /\ t # k
                              /\ \A m \in ms : m <= t => ~Shadow!StopHit({m})
<1> DEFINE ending == {m \in ms : Shadow!StopHit({m}) \/ (Shadow!TargetHit({m}) /\ m # k)}
<1>1. CASE ending = {}
  BY <1>1 DEF Shadow!Intrabar
<1>2. CASE ending # {}
  <2>1. Shadow!Min(ending) \in ending /\ \A y \in ending : Shadow!Min(ending) <= y
    BY <1>2, MinIsLeast
  <2>2. Shadow!Intrabar(ms, k) = IF Shadow!StopHit({Shadow!Min(ending)}) THEN "STOP" ELSE "TP1"
    BY <1>2 DEF Shadow!Intrabar
  <2>3. ASSUME ~Shadow!StopHit({Shadow!Min(ending)}), NEW m \in ms, m <= Shadow!Min(ending)
            PROVE ~Shadow!StopHit({m})
    <3>1. SUFFICES ASSUME Shadow!StopHit({m}) PROVE FALSE
      OBVIOUS
    <3>2. m \in ending
      BY <3>1
    <3>3. Shadow!Min(ending) <= m /\ Shadow!Min(ending) \in Nat /\ m \in Nat
      BY <2>1, <3>2
    <3>4. m = Shadow!Min(ending)
      BY <2>3, <3>3
    <3> QED BY <2>3, <3>1, <3>4
  <2> QED BY <2>1, <2>2, <2>3
<1> QED BY <1>1, <1>2

(* evaluate_forward_outcomes of a bar, with its minutes or without. *)
LEMMA BarOutcomes ==
    ASSUME PathOK, ResolverConstants, NEW b, NEW mins \in {Shadow!Traded, {}}
    PROVE  /\ Shadow!BarOutcome(b, mins) = "none"
                => \A m \in Shadow!MinutesOf(b) : ~Shadow!StopHit({m})
           /\ Shadow!BarOutcome(b, mins) = "TP1" =>
                \E t \in Shadow!MinutesOf(b) :
                    /\ Shadow!TargetHit({t})
                    /\ \A m \in Shadow!MinutesOf(b) : m <= t => ~Shadow!StopHit({m})
<1> DEFINE all == Shadow!MinutesOf(b)
           ms == mins \cap all
<1>1. all \subseteq Nat /\ all \subseteq Shadow!Traded
  BY MinuteTypes
<1>2. (\E m \in all : Shadow!StopHit({m})) => Shadow!StopHit(all)
  BY DEF Shadow!StopHit, Shadow!LowTo
<1>3. Shadow!TargetHit(all) => \E t \in all : Shadow!TargetHit({t})
  BY DEF Shadow!TargetHit, Shadow!HighTo
<1>4. CASE Shadow!StopHit(all) /\ Shadow!TargetHit(all) /\ ms # {}
  <2>1. ms = all
    BY <1>1, <1>4
  <2>2. Shadow!BarOutcome(b, mins) = Shadow!Intrabar(all, -1)
    BY <1>4, <2>1 DEF Shadow!BarOutcome
  <2> QED BY <1>1, <2>2, IntrabarOutcomes
<1>5. CASE Shadow!StopHit(all) /\ ~(Shadow!TargetHit(all) /\ ms # {})
  <2>1. Shadow!BarOutcome(b, mins) = "STOP"
    BY <1>5 DEF Shadow!BarOutcome
  <2> QED BY <2>1
<1>6. CASE ~Shadow!StopHit(all)
  <2>1. Shadow!BarOutcome(b, mins) = IF Shadow!TargetHit(all) THEN "TP1" ELSE "none"
    BY <1>6 DEF Shadow!BarOutcome
  <2> QED BY <1>2, <1>3, <1>6, <2>1
<1> QED BY <1>4, <1>5, <1>6

(* After a fill whose bar saw no stop, the bars that follow it earn the    *)
(* target when they give it.                                               *)
LEMMA LaterBarsEarn ==
    ASSUME PathOK, ResolverConstants, NEW b, NEW f, NEW fill, FillHolds(b, f, fill),
           NEW s, NEW mins \in {Shadow!Traded, {}},
           Shadow!Forward(Shadow!Later(s, Shadow!BarClose(b), Shadow!Closed), mins) = "TP1",
           Shadow!FetchEnd(s) \in Int
    PROVE  \E t \in Shadow!Traded : f < t /\ Shadow!TargetHit({t})
               /\ \A m \in f .. t : ~Shadow!StopHit({m})
<1> DEFINE bs == Shadow!Later(s, Shadow!BarClose(b), Shadow!Closed)
           ending == {c \in bs : Shadow!BarOutcome(c, mins) # "none"}
           last == Shadow!Min(ending)
<1>1. Shadow!Closed \subseteq Nat /\ bs \subseteq Shadow!Closed /\ b \in Nat
  BY MinuteTypes DEF Shadow!Closed, Shadow!Later, FillHolds
<1>2. ending # {} /\ Shadow!BarOutcome(last, mins) = "TP1"
  BY DEF Shadow!Forward
<1>3. last \in ending /\ \A c \in ending : last <= c
  <2>1. ending \subseteq Nat
    BY <1>1
  <2> HIDE DEF ending
  <2> QED BY <1>2, <2>1, MinIsLeast
<1>4. last \in bs /\ last \in Nat /\ last \in Shadow!Closed
  BY <1>1, <1>3
<1> HIDE DEF last, ending
<1>5. PICK t \in Shadow!MinutesOf(last) :
          Shadow!TargetHit({t}) /\ \A m \in Shadow!MinutesOf(last) : m <= t => ~Shadow!StopHit({m})
  BY <1>2, BarOutcomes
<1>6. /\ f \in Shadow!MinutesOf(b) /\ f \in Nat /\ t \in Nat /\ t \in Shadow!Traded
      /\ \A m \in Shadow!MinutesOf(b) : m >= f => ~Shadow!StopHit({m})
  BY <1>5, MinuteTypes DEF FillHolds
<1>7. \A c \in Nat : Shadow!BarClose(c) \in Int
          /\ Shadow!BarClose(c) = Shadow!BarOpen(c) + Shadow!BarTicks - 1
          /\ Shadow!BarOpen(c) \in Nat
  BY BarOrder
<1>8. Shadow!BarTicks \in Nat /\ \A c, d \in Nat : c < d
          => Shadow!BarOpen(c) + Shadow!BarTicks <= Shadow!BarOpen(d)
  BY BarOrder
<1>9. b < last
  <2>1. Shadow!BarClose(last) > Shadow!BarClose(b)
    BY <1>4 DEF Shadow!Later
  <2>2. ~(last < b) /\ last # b
    BY <1>1, <1>4, <1>7, <1>8, <2>1
  <2> QED BY <1>1, <1>4, <2>2
<1>10. f < t
  BY <1>1, <1>4, <1>5, <1>6, <1>9, MinuteOrder
<1>11. ASSUME NEW m \in f .. t PROVE ~Shadow!StopHit({m})
  <2>1. m \in Nat /\ f <= m /\ m <= t
    BY <1>6
  <2>2. m \in Shadow!Traded
    BY <1>6, <2>1, MinuteTypes DEF Shadow!Traded
  <2>3. PICK c \in Nat : m \in Shadow!MinutesOf(c)
    BY <2>2, MinuteHasBar
  <2>4. b <= c /\ c <= last
    BY <1>1, <1>4, <1>5, <1>6, <2>1, <2>3, MinuteOrder
  <2>5. CASE c = b
    BY <1>6, <2>1, <2>3, <2>5
  <2>6. CASE c = last
    BY <1>5, <2>1, <2>3, <2>6
  <2>7. CASE b < c /\ c < last
    <3>1. Shadow!BarClose(b) < Shadow!BarClose(c) /\ Shadow!BarClose(c) < Shadow!BarClose(last)
      <4>1. /\ Shadow!BarOpen(b) + Shadow!BarTicks <= Shadow!BarOpen(c)
            /\ Shadow!BarOpen(c) + Shadow!BarTicks <= Shadow!BarOpen(last)
        BY <1>1, <1>4, <1>8, <2>7
      <4>2. /\ Shadow!BarClose(b) = Shadow!BarOpen(b) + Shadow!BarTicks - 1
            /\ Shadow!BarClose(c) = Shadow!BarOpen(c) + Shadow!BarTicks - 1
            /\ Shadow!BarClose(last) = Shadow!BarOpen(last) + Shadow!BarTicks - 1
            /\ Shadow!BarOpen(b) \in Nat /\ Shadow!BarOpen(c) \in Nat
            /\ Shadow!BarOpen(last) \in Nat
            /\ Shadow!BarTicks \in Nat \ {0}
        BY <1>1, <1>4, BarOrder
      <4> QED BY <4>1, <4>2
    <3>2. /\ last \in Shadow!Bars /\ Shadow!BarClose(last) < Shadow!Now
          /\ Shadow!BarClose(last) <= Shadow!FetchEnd(s)
          /\ Shadow!Now \in Nat
      BY <1>4, MinuteTypes DEF Shadow!Closed, Shadow!Later
    <3>3. c \in Shadow!Bars
      BY <1>4, <2>7, <3>2 DEF Shadow!Bars, ResolverConstants
    <3>4. Shadow!BarClose(c) \in Int /\ Shadow!BarClose(last) \in Int /\ Shadow!BarClose(b) \in Int
      BY <1>1, <1>4, <1>7
    <3>5. c \in bs
      BY <3>1, <3>2, <3>3, <3>4 DEF Shadow!Closed, Shadow!Later
    <3>6. c \notin ending
      BY <1>3, <1>4, <2>7
    <3>7. Shadow!BarOutcome(c, mins) = "none"
      BY <3>5, <3>6 DEF ending
    <3> QED BY <2>3, <3>7, BarOutcomes
  <2> QED BY <1>1, <1>4, <2>4, <2>5, <2>6, <2>7
<1> QED BY <1>5, <1>6, <1>10, <1>11

----------------------------------------------------------------------------

(* What the fill of a bar tells: the minute of it, and either the minutes  *)
(* from there on or whether the bar touched the stop.                      *)
FillTold(b, f, fi) ==
    /\ f \in Shadow!MinutesOf(b) /\ Shadow!AfterSignal(f) /\ Shadow!Entry({f})
    /\ \A m \in Shadow!MinutesOf(b) : Shadow!AfterSignal(m) /\ m < f => ~Shadow!Entry({m})
    /\ fi.t \in Nat /\ Shadow!BarOpen(b) < fi.t /\ fi.t <= Shadow!BarClose(b)
    /\ \/ fi.rest = {m \in Shadow!MinutesOf(b) : m >= f} /\ fi.stopped = FALSE
       \/ fi.rest = {} /\ fi.stopped = Shadow!StopHit(Shadow!MinutesOf(b))

(* Stage 1 by the minutes of a bar. *)
LEMMA TouchFillTold ==
    ASSUME PathOK, ResolverConstants, NEW b \in Nat, NEW ms,
           ms = Shadow!MinutesOf(b) \/ ms = {m \in Shadow!MinutesOf(b) : Shadow!Close(m) > Signal},
           NEW fi, fi = Shadow!TouchFill(ms), fi # Shadow!NoFill
    PROVE  \E f : FillTold(b, f, fi)
<1> DEFINE touching == {m \in ms : Shadow!Open(m) >= Signal /\ Shadow!Entry({m})}
           f == Shadow!Min(touching)
<1>1. touching # {}
  BY DEF Shadow!TouchFill
<1>2. fi = Shadow!FilledAt(Shadow!Close(f), {m \in ms : m >= f}, FALSE)
  BY <1>1 DEF Shadow!TouchFill
<1>3. ms \subseteq Shadow!MinutesOf(b) /\ Shadow!MinutesOf(b) \subseteq Nat
  BY MinuteTypes
<1>4. f \in touching /\ \A m \in touching : f <= m
  <2>1. touching \subseteq Nat
    BY <1>3
  <2> HIDE DEF touching
  <2> QED BY <1>1, <2>1, MinIsLeast
<1> HIDE DEF f
<1>5. f \in Shadow!MinutesOf(b) /\ f \in Nat /\ Shadow!AfterSignal(f) /\ Shadow!Entry({f})
  BY <1>3, <1>4 DEF Shadow!AfterSignal
<1>6. ASSUME NEW m \in Shadow!MinutesOf(b), Shadow!AfterSignal(m) PROVE m \in ms
  <2>1. m \in Nat /\ Shadow!Open(m) = 2 * m /\ Shadow!Close(m) = 2 * m + 1 /\ Signal \in Nat
    BY <1>3, MinuteTypes
  <2>2. Shadow!Close(m) > Signal
    BY <1>6, <2>1 DEF Shadow!AfterSignal
  <2> QED BY <2>2
<1>7. ASSUME NEW m \in Shadow!MinutesOf(b), Shadow!AfterSignal(m), m < f PROVE ~Shadow!Entry({m})
  <2>1. SUFFICES ASSUME Shadow!Entry({m}) PROVE FALSE
    OBVIOUS
  <2>2. m \in touching
    BY <1>6, <1>7, <2>1 DEF Shadow!AfterSignal
  <2>3. f <= m /\ m \in Nat
    BY <1>3, <1>4, <2>2
  <2> QED BY <1>5, <1>7, <2>3
<1>8. \A m \in Shadow!MinutesOf(b) : m >= f => Shadow!AfterSignal(m)
  <2> SUFFICES ASSUME NEW m \in Shadow!MinutesOf(b), m >= f PROVE Shadow!AfterSignal(m)
    OBVIOUS
  <2>1. /\ m \in Nat /\ Shadow!Open(m) = 2 * m /\ Shadow!Open(f) = 2 * f /\ Signal \in Nat
        /\ Shadow!Open(f) >= Signal
    BY <1>3, <1>5, MinuteTypes DEF Shadow!AfterSignal
  <2> QED BY <1>5, <2>1 DEF Shadow!AfterSignal
<1>9. {m \in ms : m >= f} = {m \in Shadow!MinutesOf(b) : m >= f}
  BY <1>3, <1>6, <1>8
<1>10. Shadow!BarOpen(b) < Shadow!Close(f) /\ Shadow!Close(f) <= Shadow!BarClose(b)
  <2>1. /\ Shadow!BarOpen(b) <= 2 * f /\ Shadow!Close(f) = 2 * f + 1
        /\ Shadow!Close(f) <= Shadow!BarClose(b) /\ Shadow!BarOpen(b) \in Nat
    BY <1>5, InBar, MinuteTypes, BarOrder DEF Shadow!MinutesOf
  <2> QED BY <1>5, <2>1
<1>11. fi.t = Shadow!Close(f) /\ fi.rest = {m \in ms : m >= f} /\ fi.stopped = FALSE
  BY <1>2 DEF Shadow!FilledAt
<1>12. Shadow!Close(f) \in Nat
  <2>1. Shadow!Close(f) = 2 * f + 1
    BY <1>5, MinuteTypes
  <2> QED BY <1>5, <2>1
<1> QED BY <1>5, <1>7, <1>9, <1>10, <1>11, <1>12 DEF FillTold

(* Stage 1 of a bar that decides. *)
LEMMA FillInTold ==
    ASSUME PathOK, ResolverConstants, ZoneIsTraded, NEW b \in Shadow!Bars,
           NEW mins \in {Shadow!Traded, {}},
           NEW fi, fi = Shadow!FillIn(b, mins), fi # Shadow!NoFill, fi # Shadow!Gap
    PROVE  \E f : FillTold(b, f, fi)
<1> DEFINE all == Shadow!MinutesOf(b)
           ms == mins \cap all
           covered == Shadow!MinutesCovered(ms, Shadow!BarOpen(b), Shadow!BarClose(b))
           fromSignal == Shadow!MinutesCovered(ms, Signal, Shadow!BarClose(b))
           looked == (Shadow!StopHit(all) \/ Shadow!TargetHit(all)) /\ covered
               /\ Shadow!TouchFill(ms) # Shadow!NoFill
<1>1. b \in Nat /\ all \subseteq Shadow!Traded /\ all \subseteq Nat
  BY MinuteTypes
<1>2. covered \/ fromSignal => ms = all
  <2>1. covered \/ fromSignal => ms # {}
    BY DEF Shadow!MinutesCovered, Shadow!Covered
  <2> QED BY <1>1, <2>1
<1>3. CASE Shadow!BarOpen(b) < Signal
  <2>1. (covered \/ fromSignal) /\ fi = Shadow!TouchFill({m \in ms : Shadow!Close(m) > Signal})
    BY <1>3 DEF Shadow!FillIn
  <2>2. {m \in ms : Shadow!Close(m) > Signal}
            = {m \in Shadow!MinutesOf(b) : Shadow!Close(m) > Signal}
    BY <1>2, <2>1
  <2> QED BY <1>1, <2>1, <2>2, TouchFillTold
<1>4. CASE ~(Shadow!BarOpen(b) < Signal) /\ Shadow!Entry(all) /\ looked
  <2>1. fi = Shadow!TouchFill(ms)
    BY <1>4 DEF Shadow!FillIn
  <2> QED BY <1>1, <1>2, <1>4, <2>1, TouchFillTold
<1>5. CASE ~(Shadow!BarOpen(b) < Signal) /\ Shadow!Entry(all) /\ ~looked
  <2>1. fi = Shadow!FilledAt(Shadow!BarClose(b), {}, Shadow!StopHit(all))
    BY <1>5 DEF Shadow!FillIn
  <2> DEFINE touching == {m \in all : Shadow!Entry({m})}
             f == Shadow!Min(touching)
  <2>2. touching # {}
    BY <1>5 DEF ZoneIsTraded
  <2>3. f \in touching /\ \A m \in touching : f <= m
    <3>1. touching \subseteq Nat
      BY <1>1
    <3> HIDE DEF touching
    <3> QED BY <2>2, <3>1, MinIsLeast
  <2> HIDE DEF f
  <2>4. f \in all /\ f \in Nat /\ Shadow!Entry({f})
    BY <1>1, <2>3
  <2>5. Shadow!AfterSignal(f)
    <3>1. /\ Shadow!BarOpen(b) <= 2 * f /\ Shadow!Open(f) = 2 * f /\ Shadow!BarOpen(b) \in Nat
          /\ Signal \in Nat
      BY <1>1, <2>4, InBar, MinuteTypes, BarOrder
    <3> QED BY <1>5, <2>4, <3>1 DEF Shadow!AfterSignal
  <2>6. \A m \in all : m < f => ~Shadow!Entry({m})
    BY <1>1, <2>3, <2>4
  <2>7. /\ Shadow!BarClose(b) \in Nat /\ Shadow!BarOpen(b) < Shadow!BarClose(b)
        /\ Shadow!BarClose(b) <= Shadow!BarClose(b)
    <3>1. /\ Shadow!BarClose(b) = Shadow!BarOpen(b) + Shadow!BarTicks - 1
          /\ Shadow!BarOpen(b) \in Nat
          /\ Shadow!BarTicks \in Nat \ {0} /\ Shadow!BarTicks = 2 * BarMinutes /\ BarMinutes \in Nat
      BY <1>1, BarOrder DEF Shadow!BarTicks, ResolverConstants
    <3> QED BY <3>1
  <2>8. fi.t = Shadow!BarClose(b) /\ fi.rest = {} /\ fi.stopped = Shadow!StopHit(all)
    BY <2>1 DEF Shadow!FilledAt
  <2> QED BY <2>4, <2>5, <2>6, <2>7, <2>8 DEF FillTold
<1>6. CASE ~(Shadow!BarOpen(b) < Signal) /\ ~Shadow!Entry(all)
  <2>1. fi = Shadow!NoFill
    BY <1>6 DEF Shadow!FillIn
  <2> QED BY <2>1
<1> QED BY <1>3, <1>4, <1>5, <1>6

(* The fill that stage 1 finds in all the closed bars is the first touch. *)
LEMMA FirstFill ==
    ASSUME PathOK, ResolverConstants, ZoneIsTraded, NEW mins \in {Shadow!Traded, {}},
           NEW deciding,
           deciding = {b \in Shadow!ForFill(Shadow!Closed) :
           Shadow!FillIn(b, mins) # Shadow!NoFill},
           deciding # {}, Shadow!FillIn(Shadow!Min(deciding), mins) # Shadow!Gap
    PROVE  /\ Shadow!Min(deciding) \in Shadow!Closed
           /\ \E f : /\ FillTold(Shadow!Min(deciding), f, Shadow!FillIn(Shadow!Min(deciding), mins))
                     /\ FirstTouch(f)
<1>0. /\ Shadow!Closed \subseteq Shadow!Bars /\ Shadow!Bars \subseteq Nat
      /\ Shadow!ForFill(Shadow!Closed) \subseteq Shadow!Closed /\ Signal \in Nat
  BY MinuteTypes DEF Shadow!Closed, Shadow!ForFill
<1>1. PICK b : b = Shadow!Min(deciding)
  OBVIOUS
<1>2. b \in deciding /\ \A c \in deciding : b <= c
  <2>1. deciding \subseteq Nat
    BY <1>0
  <2> QED BY <1>1, <2>1, MinIsLeast
<1>3. /\ b \in Shadow!ForFill(Shadow!Closed) /\ Shadow!FillIn(b, mins) # Shadow!NoFill
      /\ Shadow!FillIn(b, mins) # Shadow!Gap
  BY <1>1, <1>2
<1>4. b \in Shadow!Closed /\ b \in Shadow!Bars /\ b \in Nat /\ Shadow!BarOpen(b) < Shadow!WindowEnd
  BY <1>0, <1>3 DEF Shadow!ForFill
<1>5. PICK f : FillTold(b, f, Shadow!FillIn(b, mins))
  BY <1>3, <1>4, FillInTold
<1>6. f \in Shadow!MinutesOf(b) /\ f \in Shadow!Traded /\ f \in Nat
  BY <1>5, MinuteTypes DEF FillTold
<1>7. ASSUME NEW m \in Shadow!Traded, Shadow!AfterSignal(m), m < f PROVE ~Shadow!Entry({m})
  <2>1. PICK c \in Nat : m \in Shadow!MinutesOf(c)
    BY <1>7, MinuteHasBar
  <2>2. m \in Nat /\ m <= f
    BY <1>6, <1>7, MinuteTypes
  <2>3. c <= b
    BY <1>4, <1>6, <2>1, <2>2, MinuteOrder
  <2>4. CASE c = b
    BY <1>5, <1>7, <2>1, <2>4 DEF FillTold
  <2>5. CASE c < b
    <3>1. c \in Shadow!Bars
      BY <1>4, <2>5 DEF Shadow!Bars, ResolverConstants
    <3>2. /\ Shadow!BarOpen(c) + Shadow!BarTicks <= Shadow!BarOpen(b) /\ Shadow!BarOpen(c) \in Nat
          /\ Shadow!BarOpen(b) \in Nat
          /\ Shadow!BarTicks \in Nat \ {0}
          /\ Shadow!BarClose(c) = Shadow!BarOpen(c) + Shadow!BarTicks - 1
          /\ Shadow!BarClose(b) = Shadow!BarOpen(b) + Shadow!BarTicks - 1
      BY <1>4, <2>5, BarOrder
    <3>3. Shadow!BarClose(b) < Shadow!Now /\ Shadow!Now \in Nat /\ Shadow!WindowEnd \in Int
      <4>1. EntryBars * Shadow!BarTicks \in Nat
        BY <3>2 DEF ResolverConstants
      <4> QED BY <1>0, <1>4, <4>1, MinuteTypes DEF Shadow!Closed, Shadow!WindowEnd
    <3>4. c \in Shadow!Closed
      BY <3>1, <3>2, <3>3 DEF Shadow!Closed
    <3>5. Shadow!BarClose(c) > Signal
      <4>1. 2 * m + 1 < Shadow!BarOpen(c) + Shadow!BarTicks /\ Shadow!Open(m) = 2 * m
        BY <2>1, <2>2, InBar, MinuteTypes
      <4>2. 2 * m >= Signal
        BY <1>7, <4>1 DEF Shadow!AfterSignal
      <4> QED BY <1>0, <2>2, <3>2, <4>1, <4>2
    <3>6. Shadow!BarOpen(c) < Shadow!WindowEnd
      BY <1>4, <3>2, <3>3
    <3>7. c \in Shadow!ForFill(Shadow!Closed)
      BY <3>4, <3>5, <3>6 DEF Shadow!ForFill
    <3>8. c \notin deciding
      BY <1>2, <1>4, <2>5
    <3>9. Shadow!FillIn(c, mins) = Shadow!NoFill
      BY <3>7, <3>8
    <3> QED BY <1>0, <1>7, <2>1, <3>9, NoFillInBar
  <2> QED BY <1>4, <2>3, <2>4, <2>5
<1>8. FirstTouch(f)
  BY <1>5, <1>6, <1>7 DEF FirstTouch, FillTold
<1> QED BY <1>1, <1>4, <1>5, <1>8

(* The bar of the fill, when its own minutes tell of no end or of the      *)
(* target.                                                                 *)
LEMMA FillBarOutcomes ==
    ASSUME PathOK, ResolverConstants, NEW b \in Nat, NEW f, NEW fi, FillTold(b, f, fi),
           NEW s, s.rest = fi.rest, s.stopped = fi.stopped
    PROVE  /\ Shadow!FillBarOutcome(s) = "none" => \A m \in Shadow!MinutesOf(b) : m >= f
                => ~Shadow!StopHit({m})
           /\ Shadow!FillBarOutcome(s) = "TP1" =>
                \E t \in Shadow!Traded : f < t /\ Shadow!TargetHit({t})
                    /\ \A m \in f .. t : ~Shadow!StopHit({m})
<1> DEFINE tail == {m \in Shadow!MinutesOf(b) : m >= f}
<1>1. /\ Shadow!MinutesOf(b) \subseteq Nat /\ Shadow!MinutesOf(b) \subseteq Shadow!Traded
      /\ f \in Shadow!MinutesOf(b) /\ f \in Nat
  BY MinuteTypes DEF FillTold
<1>2. CASE s.rest = tail /\ s.stopped = FALSE
  <2>1. f \in tail /\ tail \subseteq Nat /\ \A m \in tail : f <= m
    BY <1>1
  <2>2. Shadow!Min(tail) = f
    <3> HIDE DEF tail
    <3>1. Shadow!Min(tail) \in tail /\ \A y \in tail : Shadow!Min(tail) <= y
      BY <2>1, MinIsLeast
    <3>2. Shadow!Min(tail) <= f /\ f <= Shadow!Min(tail) /\ Shadow!Min(tail) \in Nat
      BY <2>1, <3>1
    <3> QED BY <1>1, <3>2
  <2>3. Shadow!FillBarOutcome(s) = Shadow!Intrabar(tail, f)
    BY <1>2, <2>1, <2>2 DEF Shadow!FillBarOutcome
  <2>4. Shadow!FillBarOutcome(s) = "none" => \A m \in tail : ~Shadow!StopHit({m})
    BY <2>1, <2>3, IntrabarOutcomes
  <2>5. ASSUME Shadow!FillBarOutcome(s) = "TP1"
        PROVE  \E t \in Shadow!Traded : f < t /\ Shadow!TargetHit({t})
                   /\ \A m \in f .. t : ~Shadow!StopHit({m})
    <3>1. PICK t \in tail : Shadow!TargetHit({t}) /\ t # f /\ \A m \in tail : m <= t
              => ~Shadow!StopHit({m})
      BY <2>1, <2>3, <2>5, IntrabarOutcomes
    <3>2. f < t /\ t \in Shadow!MinutesOf(b) /\ t \in Nat
      BY <1>1, <3>1
    <3>3. f .. t \subseteq Shadow!MinutesOf(b)
      BY <1>1, <3>2, BarIsConvex
    <3>4. ASSUME NEW m \in f .. t PROVE ~Shadow!StopHit({m})
      <4>1. m \in Shadow!MinutesOf(b) /\ m >= f /\ m <= t
        BY <1>1, <3>2, <3>3
      <4> QED BY <3>1, <4>1
    <3> QED BY <1>1, <3>1, <3>2, <3>4
  <2> QED BY <2>4, <2>5
<1>3. CASE s.rest = {} /\ s.stopped = Shadow!StopHit(Shadow!MinutesOf(b))
  <2>1. Shadow!FillBarOutcome(s) = IF Shadow!StopHit(Shadow!MinutesOf(b)) THEN "STOP" ELSE "none"
    BY <1>3 DEF Shadow!FillBarOutcome
  <2>2. (\E m \in Shadow!MinutesOf(b) : Shadow!StopHit({m})) => Shadow!StopHit(Shadow!MinutesOf(b))
    BY DEF Shadow!StopHit, Shadow!LowTo
  <2> QED BY <2>1, <2>2
<1> QED BY <1>2, <1>3 DEF FillTold

(* The target was reached after minute f, and no stop before it. *)
EarnedAfter(f) == \E t \in Shadow!Traded : f < t /\ Shadow!TargetHit({t})
    /\ \A m \in f .. t : ~Shadow!StopHit({m})

(* What is known of a fill when stage 2 begins. *)
FillAtStage(s, b, f) ==
    /\ b \in Shadow!Closed /\ f \in Shadow!MinutesOf(b) /\ FirstTouch(f)
    /\ s.rec.fill \in Nat /\ Shadow!BarOpen(b) < s.rec.fill /\ s.rec.fill <= Shadow!BarClose(b)
    /\ Shadow!FillBarOutcome(s) = "none" => \A m \in Shadow!MinutesOf(b) : m >= f
         => ~Shadow!StopHit({m})
    /\ Shadow!FillBarOutcome(s) = "TP1" => EarnedAfter(f)
    /\ Shadow!FillBarClose(s, Shadow!Closed) = Shadow!BarClose(b)

(* What stage 2 makes of it: a target that was earned, or the fill is left *)
(* as it is.                                                               *)
EarnedOrHeld(s, b, f, r) ==
    /\ r.reason = "TP1" => EarnedAfter(f)
    /\ ~r.resolved => r.end = s.rec.end /\ FillHolds(b, f, r.fill)

(* Stage 2 gives a target that was earned, or leaves the fill as it is. *)
LEMMA OutcomeOfFill ==
    ASSUME PathOK, ResolverConstants, NEW s, RecordRow(s.rec), ~s.rec.resolved, s.rec.end \in Nat,
           NEW b, NEW f, FillAtStage(s, b, f), NEW mins \in {Shadow!Traded, {}}
    PROVE  EarnedOrHeld(s, b, f,
               Shadow!ResolveOutcome(s, Shadow!Closed, mins,
                   Shadow!Later(s, Shadow!BarClose(b), Shadow!Closed)))
<1>0. PICK r : r = Shadow!ResolveOutcome(s, Shadow!Closed, mins,
          Shadow!Later(s, Shadow!BarClose(b), Shadow!Closed))
  OBVIOUS
<1> USE DEF EarnedOrHeld
<1> DEFINE bs == Shadow!Later(s, Shadow!BarClose(b), Shadow!Closed)
           ended == IF Shadow!FillBarOutcome(s) # "none" THEN Shadow!FillBarOutcome(s)
               ELSE Shadow!Forward(bs, mins)
<1>1. Shadow!FetchEnd(s) \in Int
  <2>1. Shadow!Now \in Nat
    BY MinuteTypes
  <2>2. PICK T : T = {Shadow!Now, s.rec.end}
    OBVIOUS
  <2>3. T \subseteq Nat /\ T # {}
    BY <2>1, <2>2
  <2>4. Shadow!Min(T) \in Nat
    BY <2>3, MinIsLeast
  <2> QED BY <2>2, <2>4 DEF Shadow!FetchEnd
<1>2. Shadow!FillBarOutcome(s) = "none" => FillHolds(b, f, s.rec.fill)
  BY DEF FillAtStage, FillHolds
<1>3. ended = "TP1" => EarnedAfter(f)
  <2>1. CASE Shadow!FillBarOutcome(s) = "none" /\ Shadow!Forward(bs, mins) = "TP1"
    BY <1>1, <1>2, <2>1, LaterBarsEarn DEF EarnedAfter
  <2>2. CASE Shadow!FillBarOutcome(s) = "TP1"
    BY <2>2 DEF FillAtStage
  <2> QED BY <2>1, <2>2
<1>4. \/ r = Shadow!Resolved(s.rec, "RESOLVED_TERMINAL", ended) /\ ended # "none"
      \/ r = s.rec /\ ended = "none"
      \/ r = Shadow!Resolved(s.rec, "RESOLVED_MATURED", "TIMEOUT")
      \/ r = Shadow!Pending(s.rec, "OUTCOME_WINDOW_DATA_GAP") /\ ended = "none"
  BY <1>0 DEF Shadow!ResolveOutcome
<1>5. ended = "none" => Shadow!FillBarOutcome(s) = "none"
  OBVIOUS
<1> HIDE DEF ended
<1>6. ASSUME r = Shadow!Resolved(s.rec, "RESOLVED_TERMINAL", ended) PROVE EarnedOrHeld(s, b, f, r)
  BY <1>3, <1>6 DEF Shadow!Resolved, RecordRow
<1>7. ASSUME r = Shadow!Resolved(s.rec, "RESOLVED_MATURED", "TIMEOUT")
          PROVE EarnedOrHeld(s, b, f, r)
  BY <1>7 DEF Shadow!Resolved, RecordRow
<1>8. ASSUME r = s.rec /\ ended = "none" PROVE EarnedOrHeld(s, b, f, r)
  BY <1>2, <1>5, <1>8 DEF RecordRow
<1>9. ASSUME r = Shadow!Pending(s.rec, "OUTCOME_WINDOW_DATA_GAP") /\ ended = "none"
          PROVE EarnedOrHeld(s, b, f, r)
  <2>1. r.fill = s.rec.fill /\ r.end = s.rec.end /\ r.reason = s.rec.reason
    BY <1>9 DEF Shadow!Pending, RecordRow
  <2> QED BY <1>2, <1>5, <1>9, <2>1 DEF RecordRow
<1> HIDE DEF EarnedOrHeld
<1>10. EarnedOrHeld(s, b, f, r)
  BY <1>4, <1>6, <1>7, <1>8, <1>9
<1> QED BY <1>0, <1>10

(* A call that finds the fill. *)
LEMMA FreshStage ==
    ASSUME PathOK, ResolverConstants, ZoneIsTraded, RecordRow(rec), ~rec.resolved,
           rec.status # "FILLED", NEW mins \in {Shadow!Traded, {}},
           NEW s, s = Shadow!ResolveFill(Shadow!Closed, mins), s.rec.status = "FILLED"
    PROVE  s.rec.end \in Nat /\ \E b, f : FillAtStage(s, b, f)
<1> DEFINE deciding == {b \in Shadow!ForFill(Shadow!Closed) :
    Shadow!FillIn(b, mins) # Shadow!NoFill}
           first == Shadow!FillIn(Shadow!Min(deciding), mins)
           filled == [rec EXCEPT !.status = "FILLED", !.fill = first.t,
                                 !.end = first.t + Shadow!Horizon]
           none == [Shadow!Resolved(rec, "NO_FILL", "NO_FILL") EXCEPT !.status = "NO_FILL"]
<1>1. /\ s = Shadow!Stage(filled, Shadow!Min(deciding), first.rest, first.stopped) /\ deciding # {}
      /\ first # Shadow!Gap
  <2> DEFINE gap == Shadow!Stage(Shadow!Pending(rec, "PARTIAL_SIGNAL_BAR_DATA_GAP"), -1, {}, FALSE)
             filledAt == Shadow!Stage(filled, Shadow!Min(deciding), first.rest, first.stopped)
             waits == Shadow!Stage(rec, -1, {}, FALSE)
             short == Shadow!Stage(Shadow!Pending(rec, "ENTRY_WINDOW_DATA_GAP"), -1, {}, FALSE)
             unfilled == Shadow!Stage(none, -1, {}, FALSE)
             covered == Shadow!BarsCovered(Shadow!ForFill(Shadow!Closed), Signal, Shadow!WindowEnd)
  <2>1. s = CASE deciding # {} /\ first = Shadow!Gap -> gap
              [] deciding # {} /\ first # Shadow!Gap -> filledAt
              [] deciding = {} /\ Shadow!Now < Shadow!WindowEnd -> waits
              [] deciding = {} /\ Shadow!Now >= Shadow!WindowEnd /\ ~covered -> short
              [] OTHER -> unfilled
    BY DEF Shadow!ResolveFill
  <2>2. /\ gap.rec.status # "FILLED" /\ waits.rec.status # "FILLED"
        /\ short.rec.status # "FILLED" /\ unfilled.rec.status # "FILLED"
    BY DEF Shadow!Stage, Shadow!Pending, Shadow!Resolved, RecordRow
  <2> HIDE DEF deciding, first, filled, none, gap, filledAt, waits, short, unfilled, covered
  <2>3. \/ s = filledAt /\ deciding # {} /\ first # Shadow!Gap
        \/ s \in {gap, waits, short, unfilled}
    BY <2>1
  <2> QED BY <2>2, <2>3 DEF filledAt
<1>2. PICK b : b = Shadow!Min(deciding)
  OBVIOUS
<1>3. PICK f : FillTold(b, f, first) /\ FirstTouch(f) /\ b \in Shadow!Closed
  BY <1>1, <1>2, FirstFill
<1> HIDE DEF deciding, first
<1>4. /\ s.rec.fill = first.t /\ s.rec.end = first.t + Shadow!Horizon
      /\ s.bar = b /\ s.rest = first.rest /\ s.stopped = first.stopped
  <2>1. /\ s.rec = filled
        /\ s.bar = b /\ s.rest = first.rest /\ s.stopped = first.stopped
    <3> HIDE DEF filled
    <3> QED BY <1>1, <1>2 DEF Shadow!Stage
  <2>2. PICK t : t = first.t
    OBVIOUS
  <2>3. filled = [rec EXCEPT !.status = "FILLED", !.fill = t, !.end = t + Shadow!Horizon]
    BY <2>2
  <2>4. PICK r : r = rec /\ RecordRow(r)
    OBVIOUS
  <2> HIDE DEF filled
  <2>5. filled.fill = t /\ filled.end = t + Shadow!Horizon
    BY <2>3, <2>4 DEF RecordRow
  <2> QED BY <2>1, <2>2, <2>5
<1>5. b \in Nat
  BY <1>3, MinuteTypes DEF Shadow!Closed
<1>6. first.t \in Nat /\ Shadow!Horizon \in Nat
  <2>1. HorizonBars \in Nat /\ Shadow!BarTicks \in Nat
    BY <1>5, BarOrder DEF ResolverConstants
  <2> QED BY <1>3, <2>1 DEF FillTold, Shadow!Horizon
<1>7. Shadow!FillBarClose(s, Shadow!Closed) = Shadow!BarClose(b)
  BY <1>4, <1>5 DEF Shadow!FillBarClose
<1>8. FillAtStage(s, b, f)
  BY <1>3, <1>4, <1>5, <1>7, FillBarOutcomes DEF FillAtStage, FillTold, EarnedAfter
<1> QED BY <1>4, <1>6, <1>8

(* A call that resumes from the fill of an earlier one. *)
LEMMA ResumedStage ==
    ASSUME PathOK, ResolverConstants, FillKnown, rec.status = "FILLED", ~rec.resolved, ~lossy,
           NEW s, s = Shadow!Resumed
    PROVE  s.rec = rec /\ s.rec.end \in Nat /\ \E b, f : FillAtStage(s, b, f)
<1>1. s.rec = rec /\ s.bar = -1 /\ s.rest = {} /\ s.stopped = FALSE
  BY DEF Shadow!Resumed, Shadow!Stage
<1>2. rec.end \in Nat /\ \E b, f : FillHolds(b, f, rec.fill)
  BY DEF FillKnown
<1>3. PICK b, f : FillHolds(b, f, rec.fill)
  BY <1>2
<1>4. Shadow!FillBarOutcome(s) = "none"
  BY <1>1 DEF Shadow!FillBarOutcome
<1>5. Shadow!FillBarClose(s, Shadow!Closed) = Shadow!BarClose(b)
  <2> DEFINE holding == {c \in Shadow!Closed : Shadow!BarOpen(c) < rec.fill
      /\ rec.fill <= Shadow!BarClose(c)}
  <2>1. b \in holding /\ b \in Nat /\ Shadow!Closed \subseteq Nat
    BY <1>3, MinuteTypes DEF FillHolds, Shadow!Closed
  <2>2. ASSUME NEW c \in holding PROVE c = b
    <3>1. /\ Shadow!BarOpen(c) < rec.fill /\ rec.fill <= Shadow!BarClose(c) /\ c \in Nat
          /\ Shadow!BarOpen(b) < rec.fill /\ rec.fill <= Shadow!BarClose(b)
      BY <2>1
    <3>2. /\ rec.fill \in Nat /\ Shadow!BarOpen(b) \in Nat /\ Shadow!BarOpen(c) \in Nat
          /\ Shadow!BarTicks \in Nat \ {0}
          /\ Shadow!BarClose(c) = Shadow!BarOpen(c) + Shadow!BarTicks - 1
          /\ Shadow!BarClose(b) = Shadow!BarOpen(b) + Shadow!BarTicks - 1
          /\ c < b => Shadow!BarOpen(c) + Shadow!BarTicks <= Shadow!BarOpen(b)
          /\ b < c => Shadow!BarOpen(b) + Shadow!BarTicks <= Shadow!BarOpen(c)
      BY <1>3, <2>1, <3>1, BarOrder DEF FillHolds
    <3>3. ~(c < b) /\ ~(b < c)
      BY <3>1, <3>2
    <3> QED BY <2>1, <3>1, <3>3
  <2>3. holding = {b}
    BY <2>1, <2>2
  <2>4. Shadow!Min({b}) = b
    BY DEF Shadow!Min
  <2> QED BY <1>1, <2>3, <2>4 DEF Shadow!FillBarClose
<1>6. FillAtStage(s, b, f)
  BY <1>1, <1>3, <1>4, <1>5 DEF FillAtStage, FillHolds
<1> QED BY <1>1, <1>2, <1>6

----------------------------------------------------------------------------

(* Every step of the resolver keeps the invariant of the target. *)
LEMMA InitEarnInv ==
    ASSUME ResolverConstants
    PROVE  Shadow!Init => EarnInv
<1> SUFFICES ASSUME Shadow!Init PROVE EarnInv
  OBVIOUS
<1>1. ResolverInv
  BY InitResolverInv
<1>2. rec.status = "WAITING_FOR_FILL" /\ rec.reason = "none" /\ lossy = FALSE
  BY DEF Shadow!Init, Shadow!Waiting
<1> QED BY <1>1, <1>2 DEF EarnInv, ResolverInv, FillKnown, Shadow!TargetIsEarned

(* A call sees the path as it is. *)
LEMMA PathKept ==
    ASSUME path' = path
    PROVE  /\ \A b, f, fill : FillHolds(b, f, fill) => FillHolds(b, f, fill)'
           /\ \A f : FirstTouch(f) /\ EarnedAfter(f) =>
                (\E g, t \in Shadow!Traded :
                    /\ g < t /\ Shadow!AfterSignal(g) /\ Shadow!Entry({g}) /\ Shadow!TargetHit({t})
                    /\ \A m \in Shadow!Traded : Shadow!AfterSignal(m) /\ m < g => ~Shadow!Entry({m})
                    /\ \A m \in g..t : ~Shadow!StopHit({m}))'
<1>1. ASSUME NEW b, NEW f, NEW fill, FillHolds(b, f, fill) PROVE FillHolds(b, f, fill)'
  BY <1>1 DEF FillHolds, FirstTouch, Shadow!Closed, Shadow!Now, Shadow!Traded,
     Shadow!AfterSignal, Shadow!MinutesOf, Shadow!Entry, Shadow!StopHit,
     Shadow!LowTo, Shadow!HighTo
<1>2. ASSUME NEW f, FirstTouch(f), EarnedAfter(f)
      PROVE  \E g, t \in Shadow!Traded :
                    /\ g < t /\ Shadow!AfterSignal(g) /\ Shadow!Entry({g}) /\ Shadow!TargetHit({t})
                    /\ \A m \in Shadow!Traded : Shadow!AfterSignal(m) /\ m < g => ~Shadow!Entry({m})
                    /\ \A m \in g..t : ~Shadow!StopHit({m})
  BY <1>2 DEF FirstTouch, EarnedAfter
<1>3. ASSUME \E g, t \in Shadow!Traded :
                    /\ g < t /\ Shadow!AfterSignal(g) /\ Shadow!Entry({g}) /\ Shadow!TargetHit({t})
                    /\ \A m \in Shadow!Traded : Shadow!AfterSignal(m) /\ m < g => ~Shadow!Entry({m})
                    /\ \A m \in g..t : ~Shadow!StopHit({m})
      PROVE  (\E g, t \in Shadow!Traded :
                    /\ g < t /\ Shadow!AfterSignal(g) /\ Shadow!Entry({g}) /\ Shadow!TargetHit({t})
                    /\ \A m \in Shadow!Traded : Shadow!AfterSignal(m) /\ m < g => ~Shadow!Entry({m})
                    /\ \A m \in g..t : ~Shadow!StopHit({m}))'
  BY <1>3 DEF Shadow!Traded, Shadow!AfterSignal, Shadow!Entry, Shadow!StopHit,
     Shadow!TargetHit, Shadow!LowTo, Shadow!HighTo
<1> QED BY <1>1, <1>2, <1>3

(* A save of a record keeps its fill and its reason. *)
LEMMA SavedFill ==
    ASSUME NEW r, RecordRow(r), NEW q \in {r, Shadow!Materialized(r)}
    PROVE  /\ RecordRow(q) /\ q.reason = r.reason /\ q.fill = r.fill /\ q.end = r.end
           /\ q.status = r.status /\ q.resolved = r.resolved
BY DEF Shadow!Materialized, RecordRow

(* Stage 1 decides nothing but that there was no fill. *)
LEMMA UnfilledReasons ==
    ASSUME RecordRow(rec), ~rec.resolved, rec.status # "FILLED", NEW raw, NEW mins,
           NEW s, s = Shadow!ResolveFill(raw, mins)
    PROVE  s.rec.reason # "TP1"
<1> DEFINE deciding == {b \in Shadow!ForFill(raw) : Shadow!FillIn(b, mins) # Shadow!NoFill}
           first == Shadow!FillIn(Shadow!Min(deciding), mins)
           filled == [rec EXCEPT !.status = "FILLED", !.fill = first.t,
                               !.end = first.t + Shadow!Horizon]
           none == [Shadow!Resolved(rec, "NO_FILL", "NO_FILL") EXCEPT !.status = "NO_FILL"]
           gap == Shadow!Stage(Shadow!Pending(rec, "PARTIAL_SIGNAL_BAR_DATA_GAP"), -1, {}, FALSE)
           filledAt == Shadow!Stage(filled, Shadow!Min(deciding), first.rest, first.stopped)
           waits == Shadow!Stage(rec, -1, {}, FALSE)
           short == Shadow!Stage(Shadow!Pending(rec, "ENTRY_WINDOW_DATA_GAP"), -1, {}, FALSE)
           unfilled == Shadow!Stage(none, -1, {}, FALSE)
           covered == Shadow!BarsCovered(Shadow!ForFill(raw), Signal, Shadow!WindowEnd)
<1>1. s = CASE deciding # {} /\ first = Shadow!Gap -> gap
            [] deciding # {} /\ first # Shadow!Gap -> filledAt
            [] deciding = {} /\ Shadow!Now < Shadow!WindowEnd -> waits
            [] deciding = {} /\ Shadow!Now >= Shadow!WindowEnd /\ ~covered -> short
            [] OTHER -> unfilled
  BY DEF Shadow!ResolveFill
<1>2. /\ gap.rec = Shadow!Pending(rec, "PARTIAL_SIGNAL_BAR_DATA_GAP") /\ filledAt.rec = filled
      /\ waits.rec = rec /\ short.rec = Shadow!Pending(rec, "ENTRY_WINDOW_DATA_GAP")
      /\ unfilled.rec = none
  BY DEF Shadow!Stage
<1>3. /\ \A why : Shadow!Pending(rec, why).reason = "none"
      /\ none.reason = "NO_FILL" /\ rec.reason = "none"
  BY DEF Shadow!Pending, Shadow!Resolved, RecordRow
<1>4. filled.reason = "none"
  <2> HIDE DEF deciding, first
  <2> QED BY DEF RecordRow
<1> HIDE DEF deciding, first, filled, none, gap, filledAt, waits, short, unfilled, covered
<1>5. s \in {gap, filledAt, waits, short, unfilled}
  BY <1>1
<1> QED BY <1>2, <1>3, <1>4, <1>5

LEMMA ResolveKeepsEarnInv ==
    ASSUME EarnInv, ZoneIsTraded, NEW raw \in Shadow!Fetches, NEW mins \in {Shadow!Traded, {}},
           Shadow!Resolve(raw, mins)
    PROVE  EarnInv'
<1> USE DEF EarnInv
<1>1. ~rec.resolved /\ path' = path
  BY DEF Shadow!Resolve
<1>2. PICK s : s = IF rec.status = "FILLED" THEN Shadow!Resumed ELSE Shadow!ResolveFill(raw, mins)
  OBVIOUS
<1>3. RecordRow(s.rec) /\ (s.rec.status = "FILLED" => ~s.rec.resolved)
  <2>1. CASE rec.status = "FILLED"
    <3>1. s.rec = rec
      BY <1>2, <2>1 DEF Shadow!Resumed, Shadow!Stage
    <3> QED BY <1>1, <3>1
  <2>2. CASE rec.status # "FILLED"
    BY <1>1, <1>2, <2>2, FillOutcomes
  <2> QED BY <2>1, <2>2
<1>4. CASE s.rec.status # "FILLED" /\ rec' \in {s.rec, Shadow!Materialized(s.rec)}
           /\ lossy' = (lossy \/ raw # Shadow!Closed)
  <2>1. RecordRow(rec') /\ rec'.status # "FILLED" /\ rec'.reason = s.rec.reason
    BY <1>3, <1>4, SavedFill
  <2>2. s.rec.reason # "TP1"
    <3>1. rec.status # "FILLED" /\ s = Shadow!ResolveFill(raw, mins)
      BY <1>2, <1>4 DEF Shadow!Resumed, Shadow!Stage
    <3> QED BY <1>1, <3>1, UnfilledReasons
  <2> QED BY <1>1, <1>4, <2>1, <2>2
      DEF ResolverConstants, PathOK, RecordRow, FillKnown, Shadow!TargetIsEarned
<1>5. ASSUME s.rec.status = "FILLED", NEW bs, NEW r, r = Shadow!ResolveOutcome(s, raw, mins, bs),
             rec' \in {r, Shadow!Materialized(r)},
             lossy' = (lossy \/ raw # Shadow!Closed
                 \/ bs # Shadow!Later(s, Shadow!FillBarClose(s, raw), Shadow!Closed))
      PROVE  EarnInv'
  <2>1. RecordRow(r)
    BY <1>3, <1>5, OutcomeReasons
  <2>2. /\ RecordRow(rec') /\ rec'.reason = r.reason /\ rec'.fill = r.fill /\ rec'.end = r.end
        /\ rec'.resolved = r.resolved
    BY <1>5, <2>1, SavedFill
  <2>3. CASE lossy'
    BY <1>1, <1>5, <2>2, <2>3 DEF ResolverConstants, PathOK, RecordRow, FillKnown,
       Shadow!TargetIsEarned
  <2>4. CASE ~lossy'
    <3>1. /\ ~lossy /\ raw = Shadow!Closed
          /\ bs = Shadow!Later(s, Shadow!FillBarClose(s, Shadow!Closed), Shadow!Closed)
      BY <1>5, <2>4
    <3>2. s.rec.end \in Nat /\ \E b, f : FillAtStage(s, b, f)
      <4>1. CASE rec.status = "FILLED"
        BY <1>1, <1>2, <3>1, <4>1, ResumedStage
      <4>2. CASE rec.status # "FILLED"
        BY <1>1, <1>2, <1>5, <3>1, <4>2, FreshStage
      <4> QED BY <4>1, <4>2
    <3>3. PICK b, f : FillAtStage(s, b, f)
      BY <3>2
    <3>4. Shadow!FillBarClose(s, Shadow!Closed) = Shadow!BarClose(b) /\ FirstTouch(f)
      BY <3>3 DEF FillAtStage
    <3>5. /\ r.reason = "TP1" => EarnedAfter(f)
          /\ ~r.resolved => r.end = s.rec.end /\ FillHolds(b, f, r.fill)
      <4>1. r = Shadow!ResolveOutcome(s, Shadow!Closed, mins,
                Shadow!Later(s, Shadow!BarClose(b), Shadow!Closed))
        BY <1>5, <3>1, <3>4
      <4>2. RecordRow(s.rec) /\ ~s.rec.resolved /\ s.rec.end \in Nat /\ PathOK /\ ResolverConstants
        BY <1>3, <1>5, <3>2
      <4> HIDE DEF EarnInv
      <4> QED BY <3>3, <4>1, <4>2, OutcomeOfFill DEF EarnedOrHeld
    <3>6. FillKnown'
      <4>1. ASSUME ~r.resolved PROVE FillHolds(b, f, rec.fill)' /\ rec'.end \in Nat
        <5>1. FillHolds(b, f, r.fill)'
          BY <1>1, <3>5, <4>1, PathKept
        <5> QED BY <2>2, <3>2, <3>5, <4>1, <5>1 DEF FillHolds
      <4> QED BY <2>2, <4>1 DEF FillKnown
    <3>7. Shadow!TargetIsEarned'
      BY <1>1, <2>2, <3>4, <3>5, PathKept DEF Shadow!TargetIsEarned
    <3> QED BY <1>1, <1>5, <2>2, <3>6, <3>7 DEF ResolverConstants, PathOK, RecordRow
  <2> QED BY <1>5, <2>3, <2>4
<1>6. CASE rec' = s.rec /\ lossy' = TRUE
  BY <1>1, <1>3, <1>6 DEF ResolverConstants, PathOK, RecordRow, FillKnown, Shadow!TargetIsEarned
<1> QED
  <2>1. \/ s.rec.status # "FILLED" /\ rec' \in {s.rec, Shadow!Materialized(s.rec)}
           /\ lossy' = (lossy \/ raw # Shadow!Closed)
        \/ /\ s.rec.status = "FILLED"
           /\ \E bs : LET r == Shadow!ResolveOutcome(s, raw, mins, bs) IN
                /\ rec' \in {r, Shadow!Materialized(r)}
                /\ lossy' = (lossy \/ raw # Shadow!Closed
                     \/ bs # Shadow!Later(s, Shadow!FillBarClose(s, raw), Shadow!Closed))
        \/ rec' = s.rec /\ lossy' = TRUE
    BY <1>2 DEF Shadow!Resolve
  <2> QED BY <1>4, <1>5, <1>6, <2>1

(* A minute comes after the closed bars. *)
LEMMA MinuteKeepsEarnInv ==
    ASSUME EarnInv, NEW q \in Ranges, Shadow!Minute(q)
    PROVE  EarnInv'
<1> USE DEF EarnInv
<1>1. /\ rec' = rec /\ lossy' = lossy /\ ~rec.resolved /\ rec.reason = "none"
      /\ path' = Append(path, q)
  BY DEF Shadow!Minute, RecordRow
<1>2. PathOK'
  BY <1>1 DEF PathOK
<1>3. /\ Len(path') = Len(path) + 1 /\ Len(path) \in Nat
      /\ \A m \in Shadow!Traded : path'[m + 1] = path[m + 1]
  BY <1>1 DEF PathOK, Shadow!Traded
<1>4. /\ Shadow!Traded \subseteq Nat /\ Shadow!Traded \subseteq Shadow!Traded'
      /\ Shadow!Traded' = Shadow!Traded \cup {Len(path)}
  BY <1>3 DEF Shadow!Traded
<1>5. ASSUME NEW m \in Shadow!Traded
      PROVE  /\ Shadow!Entry({m})' <=> Shadow!Entry({m})
             /\ Shadow!StopHit({m})' <=> Shadow!StopHit({m})
             /\ Shadow!AfterSignal(m)' <=> Shadow!AfterSignal(m)
  BY <1>3, <1>5 DEF Shadow!Entry, Shadow!StopHit, Shadow!AfterSignal, Shadow!LowTo,
     Shadow!HighTo
<1>6. ASSUME NEW b, NEW f, NEW fill, FillHolds(b, f, fill) PROVE FillHolds(b, f, fill)'
  <2>1. /\ b \in Shadow!Closed /\ b \in Nat /\ f \in Shadow!MinutesOf(b) /\ f \in Shadow!Traded
        /\ f \in Nat
        /\ Shadow!BarClose(b) < Shadow!Now /\ b \in Shadow!Bars
    BY <1>6, MinuteTypes DEF FillHolds, Shadow!Closed
  <2>2. Shadow!BarClose(b) \in Int
    <3>1. /\ Shadow!BarClose(b) = Shadow!BarOpen(b) + Shadow!BarTicks - 1
          /\ Shadow!BarOpen(b) \in Nat /\ Shadow!BarTicks \in Nat
      BY <2>1, BarOrder
    <3> QED BY <3>1
  <2>3. (b \in Shadow!Closed)'
    <3>1. Shadow!Now' = Shadow!Now + 2 /\ Shadow!Now \in Nat
      BY <1>3 DEF Shadow!Now
    <3> QED BY <2>1, <2>2, <3>1 DEF Shadow!Closed, Shadow!Bars
  <2>4. Shadow!MinutesOf(b)' = Shadow!MinutesOf(b)
    <3>1. ~(Shadow!Close(Len(path)) <= Shadow!BarClose(b))
      <4>1. Shadow!Close(Len(path)) = 2 * Len(path) + 1 /\ Shadow!Now = 2 * Len(path)
        BY DEF Shadow!Close, Shadow!Now
      <4> QED BY <1>3, <2>1, <2>2, <4>1
    <3> QED BY <1>4, <3>1 DEF Shadow!MinutesOf
  <2>5. FirstTouch(f)'
    <3>1. ~(Len(path) < f)
      BY <1>3, <2>1 DEF Shadow!Traded
    <3> QED BY <1>4, <1>5, <1>6, <2>1, <3>1 DEF FillHolds, FirstTouch
  <2>6. Shadow!MinutesOf(b) \subseteq Shadow!Traded
    BY MinuteTypes
  <2> QED BY <1>5, <1>6, <2>1, <2>3, <2>4, <2>5, <2>6 DEF FillHolds
<1>7. FillKnown'
  BY <1>1, <1>6 DEF FillKnown
<1> QED BY <1>1, <1>2, <1>7 DEF ResolverConstants, RecordRow, Shadow!TargetIsEarned

LEMMA NextKeepsEarnInv ==
    ASSUME EarnInv, ZoneIsTraded, [Shadow!Next]_(Shadow!vars)
    PROVE  EarnInv'
<1>1. ASSUME UNCHANGED Shadow!vars PROVE EarnInv'
  <2>1. rec' = rec /\ lossy' = lossy /\ path' = path
    BY <1>1 DEF Shadow!vars
  <2>2. FillKnown'
    <3>1. ASSUME NEW b, NEW f, FillHolds(b, f, rec.fill) PROVE FillHolds(b, f, rec.fill)'
      BY <2>1, <3>1 DEF FillHolds, FirstTouch, Shadow!Closed, Shadow!Now, Shadow!Traded,
         Shadow!AfterSignal, Shadow!MinutesOf, Shadow!Entry,
         Shadow!StopHit, Shadow!LowTo, Shadow!HighTo
    <3> QED BY <2>1, <3>1 DEF EarnInv, FillKnown
  <2>3. Shadow!TargetIsEarned'
    BY <2>1 DEF EarnInv, Shadow!TargetIsEarned, Shadow!Traded, Shadow!AfterSignal,
       Shadow!Entry, Shadow!StopHit, Shadow!TargetHit, Shadow!LowTo,
       Shadow!HighTo
  <2> QED BY <2>1, <2>2, <2>3 DEF EarnInv, ResolverConstants, RecordRow, PathOK
<1> QED BY <1>1, MinuteKeepsEarnInv, ResolveKeepsEarnInv DEF Shadow!Next

(* A target that the resolver gives is earned, where the price does not    *)
(* jump over the entry zone: with nothing lost on the way, no stop was     *)
(* touched from the first touch of the zone up to the minute of the        *)
(* target, however many calls it took and whichever bars their minutes     *)
(* told apart.  (resolve_pending_observations, evaluate_intrabar_path,     *)
(* evaluate_forward_outcomes)                                              *)
THEOREM TargetsAreEarned ==
    ASSUME ResolverConstants
    PROVE  Shadow!Spec /\ []ZoneIsTraded => []Shadow!TargetIsEarned
<1>1. Shadow!Init => EarnInv
  BY InitEarnInv
<1>2. EarnInv /\ ZoneIsTraded /\ [Shadow!Next]_(Shadow!vars) => EarnInv'
  BY NextKeepsEarnInv
<1>3. EarnInv => Shadow!TargetIsEarned
  BY DEF EarnInv
<1> QED BY <1>1, <1>2, <1>3, PTL DEF Shadow!Spec

=============================================================================
