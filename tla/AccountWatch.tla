---------------------------- MODULE AccountWatch ----------------------------
(***************************************************************************)
(* AccountWatch (account_watch/service.py) in TESTNET mode: the snapshot   *)
(* of the account that new risk is judged by, fed by signed REST reads on  *)
(* worker threads (reconcile_rest, one at a time under _rest_lock) and by  *)
(* the user data stream on the event loop (run_user_stream).               *)
(*                                                                         *)
(* The account is a function from its items (a position, an order) to the  *)
(* time of the change that made its value; an event carries one item and   *)
(* that time.  The generation counter is abstracted to what it is compared *)
(* for: rest.moved says that it changed since the REST read began.  A      *)
(* snapshot's quality is OK exactly when it is reconciled.                 *)
(***************************************************************************)
EXTENDS Naturals, Sequences

CONSTANTS
    Items,          \* what a REST read fetches, in one request each
    MaxChanges,     \* bound: changes of the account
    MaxQueue        \* bound: messages waiting on the socket

Times == 0..MaxChanges
Callers == {"stream", "loop", "backend"}

VARIABLES
    time,        \* the last change of the account at the exchange
    account,     \* [Items -> Times]: the account at the exchange
    socket,      \* is the user stream's websocket open
    queue,       \* messages on it that were not handled yet
    connected,   \* _stream_connected
    reconciled,  \* _reconciled
    snap,        \* _latest_snapshot
    prior,       \* _user_event_sources: [Items -> time of the last event]
    rest,        \* the REST read that holds _rest_lock
    answer,      \* [Callers -> what the awaited REST read came to]
    stream,      \* where run_user_stream is
    seen         \* the snapshot run_user_stream is about to rewrite

exchangeVars == <<time, account>>
socketVars == <<socket, queue>>
vars == <<time, account, socket, queue, connected, reconciled, snap, prior, rest, answer,
               stream, seen>>

Zero == [i \in Items |-> 0]
NoSnap == [some |-> FALSE, view |-> Zero, at |-> 0, conn |-> FALSE, rec |-> FALSE]
NoRest == [by |-> "none", step |-> "none", moved |-> FALSE, view |-> Zero, got |-> {}, at |-> 0,
           conn |-> FALSE, rec |-> FALSE]

Snaps == [some : BOOLEAN, view : [Items -> Times], at : Times, conn : BOOLEAN, rec : BOOLEAN]
Rests == [by : Callers \cup {"none"}, step : {"none", "read", "mark", "build", "commit"}, moved : BOOLEAN,
          view : [Items -> Times], got : SUBSET Items, at : Times, conn : BOOLEAN, rec : BOOLEAN]
Messages == [kind : {"update", "foreign", "closing"}, item : Items, at : Times]

TypeOK ==
    /\ time \in Times
    /\ account \in [Items -> Times]
    /\ socket \in BOOLEAN
    /\ queue \in Seq(Messages)
    /\ connected \in BOOLEAN /\ reconciled \in BOOLEAN
    /\ snap \in Snaps /\ seen \in Snaps
    /\ prior \in [Items -> Times]
    /\ rest \in Rests
    /\ answer \in [Callers -> {"none", "asked", "ok", "failed"}]
    /\ stream \in {"off", "down", "repair", "join", "reading"}

Init ==
    /\ time = 0 /\ account = Zero
    /\ socket = FALSE /\ queue = <<>>
    /\ connected = FALSE /\ reconciled = FALSE
    /\ snap = NoSnap /\ seen = NoSnap
    /\ prior = Zero
    /\ rest = NoRest
    /\ answer = [c \in Callers |-> "none"]
    /\ stream = "off"

-----------------------------------------------------------------------------

Generation(r) == [r EXCEPT !.moved = r.by # "none"]

Stale(s) == [s EXCEPT !.conn = FALSE, !.rec = FALSE]

(* Mutant: the snapshot keeps its flag until the next read. *)
MarkDisconnectedFlagOnly ==
    /\ rest' = Generation(rest)
    /\ connected' = FALSE
    /\ reconciled' = FALSE
    /\ UNCHANGED snap

(* mark_stream_disconnected, under _state_lock. *)
MarkDisconnected ==
    /\ rest' = Generation(rest)
    /\ connected' = FALSE
    /\ reconciled' = FALSE
    /\ snap' = IF snap.some THEN Stale(snap) ELSE snap

(* A step of the event loop: run_user_stream does not await between        *)
(* reading the snapshot and rewriting it, only threads may come between.   *)
OnLoop == stream # "join"

(* A caller has handed reconcile_rest to a thread, which takes _rest_lock  *)
(* and reads the generation and the clock.  The clock of the host is not   *)
(* the one of the exchange: it may show any time.                          *)
RestStart(c) ==
    /\ answer[c] = "asked"
    /\ rest.by = "none"
    /\ \E now \in Times :
          rest' = [NoRest EXCEPT !.by = c, !.step = "read", !.at = now]
    /\ UNCHANGED <<exchangeVars, socketVars, connected, reconciled, snap, prior, answer, stream, seen>>

(* The signed requests, one item after the other. *)
RestRead ==
    /\ rest.step = "read"
    /\ \E i \in Items \ rest.got :
          rest' = [rest EXCEPT !.view[i] = account[i], !.got = @ \cup {i},
                               !.step = IF rest.got \cup {i} = Items THEN "mark" ELSE "read"]
    /\ UNCHANGED <<exchangeVars, socketVars, connected, reconciled, snap, prior, answer, stream, seen>>

(* A request or the parsing of an answer raises; nothing was written. *)
RestFails ==
    /\ rest.step = "read"
    /\ rest' = NoRest
    /\ answer' = [answer EXCEPT ![rest.by] = "failed"]
    /\ UNCHANGED <<exchangeVars, socketVars, connected, reconciled, snap, prior, stream, seen>>

(* self._reconciled = True, without the state lock. *)
RestMark ==
    /\ rest.step = "mark"
    /\ reconciled' = TRUE
    /\ rest' = [rest EXCEPT !.step = "build"]
    /\ UNCHANGED <<exchangeVars, socketVars, connected, snap, prior, answer, stream, seen>>

(* AccountSnapshotV1.build, from the flags as they are now. *)
RestBuild ==
    /\ rest.step = "build"
    /\ rest' = [rest EXCEPT !.step = "commit", !.conn = connected, !.rec = reconciled]
    /\ UNCHANGED <<exchangeVars, socketVars, connected, reconciled, snap, prior, answer, stream, seen>>

Built == [some |-> TRUE, view |-> rest.view, at |-> rest.at, conn |-> rest.conn, rec |-> rest.rec]

(* Mutant: the generation is not compared. *)
RestCommitBlind ==
    /\ rest.step = "commit"
    /\ snap' = Built
    /\ rest' = NoRest
    /\ answer' = [answer EXCEPT ![rest.by] = "ok"]
    /\ UNCHANGED <<exchangeVars, socketVars, connected, reconciled, prior, stream, seen>>

(* The state lock: if the generation moved, the read is not a baseline and *)
(* the latest snapshot is kept, as a conflict.                             *)
RestCommit ==
    /\ rest.step = "commit"
    /\ IF rest.moved /\ snap.some
       THEN /\ reconciled' = FALSE
            /\ snap' = [snap EXCEPT !.rec = FALSE, !.at = IF rest.at > @ THEN rest.at ELSE @]
       ELSE /\ snap' = Built
            /\ UNCHANGED reconciled
    /\ rest' = NoRest
    /\ answer' = [answer EXCEPT ![rest.by] = "ok"]
    /\ UNCHANGED <<exchangeVars, socketVars, connected, prior, stream, seen>>

Rest == (\E c \in Callers : RestStart(c)) \/ RestRead \/ RestFails \/ RestMark \/ RestBuild \/ RestCommit

-----------------------------------------------------------------------------

(* External: the exchange changes an item and, while the socket is open,   *)
(* sends the event.                                                        *)
Change ==
    /\ time < MaxChanges
    /\ socket => Len(queue) < MaxQueue
    /\ \E i \in Items :
          /\ account' = [account EXCEPT ![i] = time + 1]
          /\ queue' = IF socket
                      THEN Append(queue, [kind |-> "update", item |-> i, at |-> time + 1])
                      ELSE queue
    /\ time' = time + 1
    /\ UNCHANGED <<socket, connected, reconciled, snap, prior, rest, answer, stream, seen>>

(* External: an event is sent again, or a message of another kind: a       *)
(* margin call or an algo update (foreign), listenKeyExpired or a text     *)
(* that is not JSON (closing).                                             *)
Chatter ==
    /\ socket /\ Len(queue) < MaxQueue
    /\ \E i \in Items, k \in {"update", "foreign", "closing"} :
          /\ k = "update" => account[i] > 0
          /\ queue' = Append(queue, [kind |-> k, item |-> i, at |-> account[i]])
    /\ UNCHANGED <<exchangeVars, socket, connected, reconciled, snap, prior, rest, answer, stream, seen>>

(* External: the connection is lost; run_user_stream learns of it when it  *)
(* reads.                                                                  *)
SocketLost ==
    /\ socket
    /\ socket' = FALSE /\ queue' = <<>>
    /\ UNCHANGED <<exchangeVars, connected, reconciled, snap, prior, rest, answer, stream, seen>>

(* The finally clause of run_user_stream, after which it waits and starts  *)
(* over.                                                                   *)
Drop ==
    /\ stream' = "down"
    /\ socket' = FALSE /\ queue' = <<>>
    /\ MarkDisconnected
    /\ answer' = [answer EXCEPT !["stream"] = "none"]

(* start_user_stream or the connection fails. *)
ConnectFails ==
    /\ stream = "down"
    /\ Drop
    /\ UNCHANGED <<exchangeVars, prior, seen>>

(* A listen key, the websocket, and a REST read over the open socket. *)
Connect ==
    /\ stream = "down"
    /\ socket' = TRUE /\ queue' = <<>>
    /\ MarkDisconnected
    /\ stream' = "repair"
    /\ answer' = [answer EXCEPT !["stream"] = "asked"]
    /\ UNCHANGED <<exchangeVars, prior, seen>>

RepairFails ==
    /\ stream = "repair" /\ answer["stream"] = "failed"
    /\ Drop
    /\ UNCHANGED <<exchangeVars, prior, seen>>

(* _stream_connected = True; snap = self._latest_snapshot ... *)
Join ==
    /\ stream = "repair" /\ answer["stream"] = "ok"
    /\ connected' = TRUE
    /\ seen' = snap
    /\ stream' = "join"
    /\ answer' = [answer EXCEPT !["stream"] = "none"]
    /\ UNCHANGED <<exchangeVars, socketVars, reconciled, snap, prior, rest>>

(* ... and the snapshot with stream_connected, also without the lock. *)
Joined ==
    /\ stream = "join"
    /\ snap' = [seen EXCEPT !.conn = TRUE]
    /\ seen' = NoSnap
    /\ stream' = "reading"
    /\ UNCHANGED <<exchangeVars, socketVars, connected, reconciled, prior, rest, answer>>

LastEvent == CHOOSE t \in Times : /\ \E i \in Items : prior[i] = t
                                  /\ \A i \in Items : prior[i] <= t

Duplicate(m) == m.kind = "update" /\ m.at = prior[m.item]

(* The gate of _handle_user_event_locked. *)
Acceptable(m) ==
    /\ m.kind = "update" /\ ~Duplicate(m)
    /\ reconciled /\ snap.some /\ snap.rec
    /\ m.at >= LastEvent /\ m.at > snap.at /\ m.at > prior[m.item]

(* After a message that was not accepted: reconcile again unless a REST    *)
(* read has set _reconciled.                                               *)
After(m) ==
    \/ /\ m.kind = "closing"
       /\ stream' = "down" /\ socket' = FALSE /\ queue' = <<>> /\ UNCHANGED answer
    \/ /\ m.kind # "closing"
       /\ queue' = Tail(queue) /\ UNCHANGED socket
       /\ stream' = "repair"
       /\ answer' = [answer EXCEPT !["stream"] = "asked"]

(* handle_user_event of the next message and what run_user_stream does     *)
(* with its result.                                                        *)
HandleUserEvent ==
    /\ stream = "reading" /\ queue # <<>>
    /\ LET m == Head(queue) IN
       \/ /\ Acceptable(m)
          /\ snap' = [snap EXCEPT !.view[m.item] = m.at, !.conn = TRUE]
          /\ prior' = [prior EXCEPT ![m.item] = m.at]
          /\ rest' = Generation(rest)
          /\ queue' = Tail(queue)
          /\ UNCHANGED <<socket, connected, reconciled, answer, stream>>
       \/ /\ Duplicate(m)
          /\ queue' = Tail(queue)
          /\ IF reconciled THEN UNCHANGED <<answer, stream>>
             ELSE stream' = "repair" /\ answer' = [answer EXCEPT !["stream"] = "asked"]
          /\ UNCHANGED <<socket, connected, reconciled, snap, prior, rest>>
       \/ /\ ~Acceptable(m) /\ ~Duplicate(m)
          /\ MarkDisconnected
          /\ After(m)
          /\ UNCHANGED prior
    /\ UNCHANGED <<exchangeVars, seen>>

(* The window of the race: a REST thread sets _reconciled after the        *)
(* message was refused and before run_user_stream looks at it, so that it  *)
(* reads on without a repair.                                              *)
RefusedUnnoticed ==
    /\ stream = "reading" /\ queue # <<>>
    /\ LET m == Head(queue) IN ~Acceptable(m) /\ ~Duplicate(m) /\ m.kind # "closing"
    /\ rest.step = "mark"
    /\ rest' = [rest EXCEPT !.moved = TRUE, !.step = "build"]
    /\ connected' = FALSE /\ reconciled' = TRUE
    /\ snap' = IF snap.some THEN Stale(snap) ELSE snap
    /\ queue' = Tail(queue)
    /\ UNCHANGED <<exchangeVars, socket, prior, answer, stream, seen>>

(* The read of a lost socket raises. *)
ReadFails ==
    /\ stream = "reading" /\ ~socket
    /\ Drop
    /\ UNCHANGED <<exchangeVars, prior, seen>>

(* reconcile_rest_async of the runtime's REST loop, reconcile_rest of the  *)
(* execution backend.                                                      *)
Ask(c) ==
    /\ OnLoop \/ c = "backend"
    /\ c # "stream" /\ answer[c] # "asked" /\ rest.by # c
    /\ answer' = [answer EXCEPT ![c] = "asked"]
    /\ UNCHANGED <<exchangeVars, socketVars, connected, reconciled, snap, prior, rest, stream, seen>>

(* _rest_loop of the runtime marks the stream when its read failed. *)
LoopFails ==
    /\ OnLoop
    /\ answer["loop"] = "failed"
    /\ MarkDisconnected
    /\ answer' = [answer EXCEPT !["loop"] = "none"]
    /\ UNCHANGED <<exchangeVars, socketVars, prior, stream, seen>>

(* The runtime creates the task of the stream, or the process dies and the *)
(* snapshot is restored from the store as stale.                           *)
Begin ==
    /\ stream = "off"
    /\ stream' = "down"
    /\ UNCHANGED <<exchangeVars, socketVars, connected, reconciled, snap, prior, rest, answer, seen>>

Restart ==
    /\ socket' = FALSE /\ queue' = <<>>
    /\ connected' = FALSE /\ reconciled' = FALSE
    /\ snap' = Stale(snap) /\ seen' = NoSnap /\ prior' = Zero
    /\ rest' = NoRest /\ answer' = [c \in Callers |-> "none"] /\ stream' = "off"
    /\ UNCHANGED exchangeVars

Exchange == Change \/ Chatter \/ SocketLost
Others == (\E c \in Callers : Ask(c)) \/ LoopFails \/ Begin \/ Restart
UserStream == ConnectFails \/ Connect \/ RepairFails \/ Join \/ Joined \/ HandleUserEvent
              \/ RefusedUnnoticed \/ ReadFails

Next == Rest \/ Exchange \/ UserStream \/ Others

Spec == Init /\ [][Next]_vars

-----------------------------------------------------------------------------

(* Trusted: what assert_current_new_risk_authority asks of the account. *)
Trusted == connected /\ snap.some /\ snap.rec

(***************************************************************************)
(* Whenever new risk would be judged by the snapshot and no event waits on *)
(* the open stream, the snapshot shows every position and order as the     *)
(* exchange has it: no REST read that began before an event, a             *)
(* reconnection or a conflict may become the baseline, whatever the clocks *)
(* say and wherever the threads meet.                                      *)
(***************************************************************************)
TrustedIsCurrent == Trusted /\ socket /\ queue = <<>> => snap.view = account

(***************************************************************************)
(* The watch keeps the promise that LiveRuntime builds on: the flag of the *)
(* stream is raised by a repair on an open socket only, and what clears it *)
(* clears the snapshot's flag with it.                                     *)
(***************************************************************************)
Authority == INSTANCE AccountAuthority WITH
    sound <- snap.some /\ snap.rec,
    stream <- IF stream = "join" THEN "reading" ELSE stream

ImplementsAuthority == Authority!AuthoritySpec

=============================================================================
