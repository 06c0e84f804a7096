------------------------- MODULE LiveRuntimeProofs -------------------------
(***************************************************************************)
(* Proofs about LiveRuntime and the database under it.                     *)
(*                                                                         *)
(* For every set of intents, an intent reaches the executor only under the *)
(* whole authority, the runtime uses the account watch only as             *)
(* AccountAuthority allows, and the lock of the rounds is held exactly by  *)
(* the task that is in its round.                                          *)
(***************************************************************************)
EXTENDS LiveRuntime, TLAPS

(* accepting_risk is the verdict of a start or a REST round that went      *)
(* through, and of a process that is still up.                             *)
AcceptInv == accepting => main = "up" /\ clean

(* The task of the user stream lives exactly as long as the others.        *)
StreamInv == stream = "off" <=> main \notin {"up", "stopping"}

(* _reconcile_lock is held by the task that is in its round, and by no     *)
(* other: start, the REST loop and the position loop exclude one another,  *)
(* and none of them leaves the lock behind, by whichever way it goes.      *)
RoundHasHolder ==
    /\ round.by = "start" <=> main = "recon"
    /\ round.by = "loop" <=> loop = "recon"
    /\ round.by = "position" <=> position = "recon"

(* What is still to be reconciled in a round belongs to somebody.          *)
LeftIsHeld == round.left # {} => round.by # "none"

(* Before the tasks are created there is no loop to be anywhere.           *)
TasksInv == main \notin {"up", "stopping"} => loop = "off" /\ position = "off"

IInv == TypeOK /\ AcceptInv /\ StreamInv /\ RoundHasHolder /\ LeftIsHeld /\ TasksInv

-----------------------------------------------------------------------------

(* Whatever element the CHOOSE of Oldest gives, taking it out of a set of  *)
(* intents leaves a set of intents.                                        *)
LEMMA OldestLeaves ==
    ASSUME TypeOK, NEW c, NEW r, ReconcileOne(c, r)
    PROVE  /\ round' \in Rounds /\ round'.by = round.by
           /\ round'.left \subseteq round.left
           /\ unfinished' \subseteq unfinished
<1>1. /\ round.by \in {"none", "start", "loop", "position"} /\ round.left \subseteq Intents
      /\ round = [by |-> round.by, left |-> round.left]
  BY DEF TypeOK, Rounds
<1>2. round' = [by |-> round.by, left |-> round.left \ {Oldest}]
  BY <1>1 DEF ReconcileOne
<1>3. unfinished' \subseteq unfinished
  BY DEF ReconcileOne
<1> QED
  BY <1>1, <1>2, <1>3 DEF Rounds

(* A round that begins, and the three ways to the end of one.              *)
LEMMA RoundType ==
    ASSUME TypeOK
    PROVE  /\ NoRound \in Rounds /\ NoRound.by = "none" /\ NoRound.left = {}
           /\ \A c \in {"start", "loop", "position"} : BeginRound(c) =>
                 round' \in Rounds /\ round'.by = c /\ round.by = "none"
BY DEF NoRound, Rounds, BeginRound, TypeOK

LEMMA InitInv == Init => IInv
<1> SUFFICES ASSUME Init PROVE IInv
  OBVIOUS
<1>1. round \in Rounds /\ round.by = "none" /\ round.left = {}
  BY DEF Init, NoRound, Rounds
<1>2. TypeOK
  BY <1>1 DEF Init, AuthorityInit, TypeOK
<1> QED
  BY <1>1, <1>2 DEF Init, AuthorityInit, IInv, AcceptInv, StreamInv, RoundHasHolder, LeftIsHeld, TasksInv

(* Once the memory of the process is gone the invariant starts afresh.     *)
LEMMA ForgetKeepsInv == IInv /\ Forget => IInv'
<1> SUFFICES ASSUME IInv, Forget PROVE IInv'
  OBVIOUS
<1>1. TypeOK'
  BY RoundType DEF IInv, TypeOK, Forget, Disconnected
<1> QED
  BY <1>1, RoundType DEF IInv, Forget, Disconnected, AcceptInv, StreamInv, RoundHasHolder, LeftIsHeld, TasksInv

-----------------------------------------------------------------------------

LEMMA StartingKeepsInv == IInv /\ Starting => IInv'
<1> SUFFICES ASSUME IInv, Starting PROVE IInv'
  OBVIOUS
<1> USE RoundType DEF IInv
<1>1. CASE Start
  <2>1. TypeOK'
    BY <1>1 DEF TypeOK, Start, Disconnected
  <2> QED
    BY <1>1, <2>1 DEF Start, Disconnected, AcceptInv, StreamInv, RoundHasHolder, LeftIsHeld, TasksInv
<1>2. CASE StartRest
  <2>1. TypeOK'
    BY <1>2 DEF TypeOK, StartRest, RoundEnds, authorityVars
  <2> QED
    BY <1>2, <2>1 DEF StartRest, RoundEnds, authorityVars, AcceptInv, StreamInv, RoundHasHolder, LeftIsHeld, TasksInv
<1>3. CASE StartCase
  <2>1. TypeOK'
    BY <1>3 DEF TypeOK, StartCase
  <2> QED
    BY <1>3, <2>1 DEF StartCase, AcceptInv, StreamInv, RoundHasHolder, LeftIsHeld, TasksInv
<1>4. CASE Started
  <2>1. TypeOK'
    BY <1>4 DEF TypeOK, Started
  <2> QED
    BY <1>4, <2>1 DEF Started, AcceptInv, StreamInv, RoundHasHolder, LeftIsHeld, TasksInv
<1>5. CASE StartRaises
  BY <1>5, ForgetKeepsInv DEF StartRaises
<1> QED
  BY <1>1, <1>2, <1>3, <1>4, <1>5 DEF Starting

LEMMA StoppingKeepsInv == IInv /\ (Stopping \/ Crash) => IInv'
<1> SUFFICES ASSUME IInv, Stopping \/ Crash PROVE IInv'
  OBVIOUS
<1>1. CASE Stop
  <2>1. TypeOK'
    BY <1>1 DEF IInv, TypeOK, Stop, Disconnected
  <2> QED
    BY <1>1, <2>1 DEF IInv, Stop, Disconnected, AcceptInv, StreamInv, RoundHasHolder, LeftIsHeld, TasksInv
<1>2. CASE Stopped \/ Crash
  BY <1>2, ForgetKeepsInv DEF Stopped, Crash
<1> QED
  BY <1>1, <1>2 DEF Stopping

LEMMA RestLoopKeepsInv == IInv /\ RestLoop => IInv'
<1> SUFFICES ASSUME IInv, RestLoop PROVE IInv'
  OBVIOUS
<1> USE RoundType DEF IInv
<1>0. main = "up"
  BY DEF RestLoop
<1>1. CASE LoopWakes
  <2>1. TypeOK'
    BY <1>1 DEF TypeOK, LoopWakes, authorityVars
  <2> QED
    BY <1>0, <1>1, <2>1 DEF LoopWakes, authorityVars, AcceptInv, StreamInv, RoundHasHolder, LeftIsHeld, TasksInv
<1>2. CASE LoopRestFailed
  <2>1. TypeOK'
    BY <1>2 DEF TypeOK, LoopRestFailed, Disconnected
  <2> QED
    BY <1>0, <1>2, <2>1 DEF LoopRestFailed, Disconnected, AcceptInv, StreamInv, RoundHasHolder, LeftIsHeld, TasksInv
<1>3. CASE LoopRestOk
  <2>1. TypeOK'
    BY <1>3 DEF TypeOK, LoopRestOk, Read
  <2> QED
    BY <1>0, <1>3, <2>1 DEF LoopRestOk, Read, AcceptInv, StreamInv, RoundHasHolder, LeftIsHeld, TasksInv
<1>4. CASE LoopCase
  <2>1. TypeOK'
    BY <1>4 DEF TypeOK, LoopCase, authorityVars
  <2> QED
    BY <1>0, <1>4, <2>1 DEF LoopCase, authorityVars, AcceptInv, StreamInv, RoundHasHolder, LeftIsHeld, TasksInv
<1>5. CASE LoopRecoveryFailed
  <2>0. round' \in Rounds
    BY <1>5 DEF TypeOK, LoopRecoveryFailed, RoundRaises
  <2>1. TypeOK'
    BY <1>5, <2>0 DEF TypeOK, LoopRecoveryFailed, authorityVars
  <2> QED
    BY <1>0, <1>5, <2>1 DEF LoopRecoveryFailed, RoundRaises, authorityVars, AcceptInv, StreamInv,
                            RoundHasHolder, LeftIsHeld, TasksInv
<1>6. CASE LoopRecovered
  <2>1. TypeOK'
    BY <1>6 DEF TypeOK, LoopRecovered, RoundEnds, authorityVars
  <2> QED
    BY <1>0, <1>6, <2>1 DEF LoopRecovered, RoundEnds, authorityVars, AcceptInv, StreamInv,
                            RoundHasHolder, LeftIsHeld, TasksInv
<1>7. CASE LoopChecks
  <2>1. TypeOK'
    BY <1>7 DEF TypeOK, LoopChecks, Authority, authorityVars
  <2> QED
    BY <1>0, <1>7, <2>1 DEF LoopChecks, authorityVars, AcceptInv, StreamInv, RoundHasHolder, LeftIsHeld, TasksInv
<1> QED
  BY <1>1, <1>2, <1>3, <1>4, <1>5, <1>6, <1>7 DEF RestLoop

LEMMA PositionLoopKeepsInv == IInv /\ (PositionLoop \/ OutboxDies) => IInv'
<1> SUFFICES ASSUME IInv, PositionLoop \/ OutboxDies PROVE IInv'
  OBVIOUS
<1> USE RoundType DEF IInv
<1>1. CASE PositionWakes
  <2>1. TypeOK'
    BY <1>1 DEF TypeOK, PositionWakes, authorityVars
  <2> QED
    BY <1>1, <2>1 DEF PositionWakes, authorityVars, AcceptInv, StreamInv, RoundHasHolder, LeftIsHeld, TasksInv
<1>2. CASE PositionReconciled
  <2>1. TypeOK'
    BY <1>2 DEF TypeOK, PositionReconciled, RoundEnds, authorityVars
  <2> QED
    BY <1>2, <2>1 DEF PositionReconciled, RoundEnds, authorityVars, AcceptInv, StreamInv, RoundHasHolder,
                      LeftIsHeld, TasksInv
<1>3. CASE PollPositions
  <2>1. TypeOK'
    BY <1>3 DEF TypeOK, PollPositions, authorityVars
  <2> QED
    BY <1>3, <2>1 DEF PollPositions, authorityVars, AcceptInv, StreamInv, RoundHasHolder, LeftIsHeld, TasksInv
<1>4. CASE PositionDies
  <2>1. TypeOK'
    BY <1>4 DEF TypeOK, PositionDies, RoundRaises, authorityVars
  <2> QED
    BY <1>4, <2>1 DEF PositionDies, RoundRaises, authorityVars, AcceptInv, StreamInv, RoundHasHolder,
                      LeftIsHeld, TasksInv
<1>5. CASE OutboxDies
  <2>1. TypeOK'
    BY <1>5 DEF TypeOK, OutboxDies, authorityVars
  <2> QED
    BY <1>5, <2>1 DEF OutboxDies, authorityVars, AcceptInv, StreamInv, RoundHasHolder, LeftIsHeld, TasksInv
<1> QED
  BY <1>1, <1>2, <1>3, <1>4, <1>5 DEF PositionLoop

LEMMA ReconcileKeepsInv == IInv /\ Reconcile => IInv'
<1> SUFFICES ASSUME IInv, Reconcile PROVE IInv'
  OBVIOUS
<1>1. PICK c \in {"start", "loop", "position"}, r \in BOOLEAN : ReconcileOne(c, r)
  BY DEF Reconcile
<1>2. /\ round' \in Rounds /\ round'.by = round.by /\ round'.left \subseteq round.left
      /\ unfinished' \subseteq unfinished
  BY <1>1, OldestLeaves DEF IInv
<1>3. TypeOK'
  BY <1>2 DEF IInv, TypeOK, Reconcile, authorityVars
<1> QED
  BY <1>2, <1>3 DEF IInv, Reconcile, authorityVars, AcceptInv, StreamInv, RoundHasHolder, LeftIsHeld, TasksInv

(* What only touches the requests, the unfinished intents, the latch, the  *)
(* market or the account.                                                  *)
LEMMA OthersKeepInv ==
    ASSUME IInv, Execution \/ Latch \/ ResetKillSwitch \/ MarketFlips \/ Watching
    PROVE  IInv'
<1>1. /\ UNCHANGED <<main, accepting, dead, loop, position, round, clean>>
      /\ (stream' = "off") <=> (stream = "off")
  <2>1. CASE Watching
    BY <2>1 DEF Watching, runVars, AuthorityNext, Read, Opened, Lost, Refused, Reread, Rejoined, Disconnected
  <2>2. CASE ~Watching
    BY <2>2 DEF Execution, ExecuteIntent, HandOver, Refuse, Latch, ResetKillSwitch, MarketFlips, authorityVars
  <2> QED
    BY <2>1, <2>2
<1>2. TypeOK'
  <2>1. CASE Watching
    <3>1. connected' \in BOOLEAN /\ sound' \in BOOLEAN /\ stream' \in {"off", "down", "repair", "reading"}
      BY <2>1 DEF IInv, TypeOK, Watching, AuthorityNext, Read, Opened, Lost, Refused, Reread, Rejoined, Disconnected
    <3> QED
      BY <2>1, <3>1 DEF IInv, TypeOK, Watching, runVars
  <2>2. CASE Execution
    <3>1. unfinished' \subseteq Intents /\ request' \subseteq Intents
      BY <2>2 DEF IInv, TypeOK, Execution, ExecuteIntent, HandOver, Refuse
    <3>2. UNCHANGED <<authorityVars, killed, market>>
      BY <2>2 DEF Execution, ExecuteIntent, HandOver, Refuse
    <3> QED
      BY <1>1, <3>1, <3>2 DEF IInv, TypeOK, authorityVars
  <2>3. CASE Latch \/ ResetKillSwitch \/ MarketFlips
    <3>1. killed' \in BOOLEAN /\ market' \in BOOLEAN /\ UNCHANGED <<authorityVars, unfinished, request>>
      BY <2>3 DEF IInv, TypeOK, Latch, ResetKillSwitch, MarketFlips
    <3> QED
      BY <1>1, <3>1 DEF IInv, TypeOK, authorityVars
  <2> QED
    BY <2>1, <2>2, <2>3
<1> QED
  BY <1>1, <1>2 DEF IInv, AcceptInv, StreamInv, RoundHasHolder, LeftIsHeld, TasksInv

LEMMA StepInv == IInv /\ [Next]_vars => IInv'
<1> SUFFICES ASSUME IInv, [Next]_vars PROVE IInv'
  OBVIOUS
<1>1. CASE UNCHANGED vars
  BY <1>1 DEF vars, runVars, authorityVars, IInv, TypeOK, AcceptInv, StreamInv, RoundHasHolder, LeftIsHeld, TasksInv
<1>2. CASE Next
  BY <1>2, StartingKeepsInv, StoppingKeepsInv, RestLoopKeepsInv, PositionLoopKeepsInv, ReconcileKeepsInv,
     OthersKeepInv DEF Next
<1> QED
  BY <1>1, <1>2

LEMMA Inductive == Spec => []IInv
BY InitInv, StepInv, PTL DEF Spec

-----------------------------------------------------------------------------

(* The variables of the runtime keep their types, for every set of intents *)
(* and through every start, stop and crash.                                *)
THEOREM TypeCorrect == Spec => []TypeOK
BY Inductive, PTL DEF IInv

(***************************************************************************)
(* start, the REST loop and the position loop exclude one another from     *)
(* reconcile_unfinished_intents, and the lock is never held by a task that *)
(* has left its round: not after an exception, a stop or a crash.          *)
(***************************************************************************)
THEOREM RoundsExclude == Spec => []RoundHasHolder
BY Inductive, PTL DEF IInv

(* Only the executor's hand over adds to the unfinished intents.           *)
LEMMA OnlyHandOverAdds ==
    ASSUME IInv, Next, unfinished' \ unfinished # {}
    PROVE  \E i \in Intents : HandOver(i)
<1> SUFFICES ASSUME \A i \in Intents : ~HandOver(i)
             PROVE  unfinished' \subseteq unfinished
  OBVIOUS
<1>1. CASE Reconcile
  <2>1. PICK c \in {"start", "loop", "position"}, r \in BOOLEAN : ReconcileOne(c, r)
    BY <1>1 DEF Reconcile
  <2> QED
    BY <2>1, OldestLeaves DEF IInv
<1>2. CASE Starting \/ Stopping \/ Crash
  BY <1>2 DEF Starting, Start, StartRest, StartCase, Started, StartRaises, Stopping, Stop, Stopped, Crash, Forget
<1>3. CASE RestLoop
  BY <1>3 DEF RestLoop, LoopWakes, LoopRestFailed, LoopRestOk, LoopCase, LoopRecoveryFailed, LoopRecovered,
              LoopChecks
<1>4. CASE PositionLoop \/ OutboxDies
  BY <1>4 DEF PositionLoop, PositionWakes, PositionReconciled, PollPositions, PositionDies, OutboxDies
<1>5. CASE Execution
  BY <1>5 DEF Execution, ExecuteIntent, Refuse
<1>6. CASE Latch \/ ResetKillSwitch \/ MarketFlips \/ Watching
  BY <1>6 DEF Latch, ResetKillSwitch, MarketFlips, Watching, runVars
<1> QED
  BY <1>1, <1>2, <1>3, <1>4, <1>5, <1>6 DEF Next

(***************************************************************************)
(* execute_intent hands an intent to the executor only while the process   *)
(* is up, the kill switch is armed, every task lives, the account is       *)
(* trusted and the last start or REST round went through, whatever         *)
(* happened while it awaited the market scan.                              *)
(***************************************************************************)
THEOREM RiskNeedsAuthority == Spec => RiskOnlyWhenSound
<1>1. IInv /\ [Next]_vars =>
         [unfinished' \ unfinished # {} =>
             main = "up" /\ ~killed /\ dead = {} /\ connected /\ sound /\ clean]_vars
  <2> SUFFICES ASSUME IInv, Next, unfinished' \ unfinished # {}
               PROVE  main = "up" /\ ~killed /\ dead = {} /\ connected /\ sound /\ clean
    BY DEF vars
  <2>1. PICK i \in Intents : HandOver(i)
    BY OnlyHandOverAdds
  <2> QED
    BY <2>1 DEF HandOver, Rechecked, Authority, IInv, AcceptInv
<1> QED
  BY <1>1, Inductive, PTL DEF Spec, RiskOnlyWhenSound

(***************************************************************************)
(* The runtime takes no step on the account watch that AccountAuthority    *)
(* does not allow it: connected is raised by the stream's repair alone,    *)
(* sound by a REST read, and start creates the task of the stream only     *)
(* when none is there.  With AccountWatch implementing the same promise    *)
(* the two modules fit together.                                           *)
(***************************************************************************)
THEOREM RuntimeKeepsPromise == Spec => AuthoritySpec
<1>1. Init => AuthorityInit
  BY DEF Init
<1>2. IInv /\ [Next]_vars => [AuthorityNext \/ Switched]_authorityVars
  <2> SUFFICES ASSUME IInv, Next PROVE AuthorityNext \/ Switched \/ UNCHANGED authorityVars
    BY DEF vars
  <2>1. CASE Starting
    <3>1. CASE Started
      BY <3>1 DEF Started, IInv, StreamInv, Switched
    <3>2. CASE StartCase
      BY <3>2 DEF StartCase, AuthorityNext, Read
    <3>3. CASE Start \/ StartRest \/ StartRaises
      BY <3>3 DEF Start, StartRest, StartRaises, Forget, Switched
    <3> QED
      BY <2>1, <3>1, <3>2, <3>3 DEF Starting
  <2>2. CASE Stopping \/ Crash
    BY <2>2 DEF Stopping, Stop, Stopped, Crash, Forget, Switched
  <2>3. CASE RestLoop
    BY <2>3 DEF RestLoop, LoopWakes, LoopRestFailed, LoopRestOk, LoopCase, LoopRecoveryFailed, LoopRecovered,
                LoopChecks, AuthorityNext, Switched
  <2>4. CASE PositionLoop \/ OutboxDies \/ Reconcile
    BY <2>4 DEF PositionLoop, PositionWakes, PositionReconciled, PollPositions, PositionDies, OutboxDies, Reconcile
  <2>5. CASE Execution \/ Latch \/ ResetKillSwitch \/ MarketFlips
    BY <2>5 DEF Execution, ExecuteIntent, HandOver, Refuse, Latch, ResetKillSwitch, MarketFlips
  <2>6. CASE Watching
    BY <2>6 DEF Watching
  <2> QED
    BY <2>1, <2>2, <2>3, <2>4, <2>5, <2>6 DEF Next
<1> QED
  BY <1>1, <1>2, Inductive, PTL DEF Spec, AuthoritySpec

-----------------------------------------------------------------------------

(***************************************************************************)
(* The database that the runtime opens: SerializedInitializer serializes   *)
(* for any number of processes, threads and nested initializers.  Neither  *)
(* lock alone does it: the thread lock keeps the threads of a process      *)
(* apart, the file lock the processes, and Bookkeeping ties both to where  *)
(* each thread is.                                                         *)
(***************************************************************************)
CONSTANTS Procs, Tids, MaxDepth
VARIABLES pc, holder, count, owner, depth, flock

Db == INSTANCE DbInitializer

SerializerInv == Db!TypeOK /\ Db!NoLockLeaks /\ Db!Bookkeeping

LEMMA ProcOfThread == \A t \in Db!Threads : Db!Proc(t) \in Procs
  BY DEF Db!Threads, Db!Proc

(* Bookkeeping is what keeps two threads apart: both would have their      *)
(* process's thread lock alone, and the file lock for their process.       *)
LEMMA BookkeepingExcludes == SerializerInv => Db!OneInside
<1> SUFFICES ASSUME SerializerInv, NEW t \in Db!Threads, NEW u \in Db!Threads,
                    pc[t] = "in", pc[u] = "in"
             PROVE  t = u
  BY DEF Db!OneInside
<1>1. flock = {Db!Proc(t)} /\ flock = {Db!Proc(u)}
  BY DEF SerializerInv, Db!Bookkeeping
<1>2. Db!Proc(t) = Db!Proc(u)
  BY <1>1
<1>3. holder[Db!Proc(t)] = {t} /\ holder[Db!Proc(u)] = {u}
  BY DEF SerializerInv, Db!Bookkeeping
<1> QED
  BY <1>2, <1>3

LEMMA SerializerInit == Db!Init => SerializerInv
  BY ProcOfThread DEF Db!Init, SerializerInv, Db!TypeOK, Db!NoLockLeaks, Db!Bookkeeping, Db!Steps

(* Each step keeps the invariant.  What an action of thread t changes is   *)
(* indexed by its process; another thread u of that process is out,        *)
(* because t alone has, or takes, the thread lock.                         *)
LEMMA SerializerStep == SerializerInv /\ [Db!Next]_Db!vars => SerializerInv'
<1> SUFFICES ASSUME SerializerInv, [Db!Next]_Db!vars PROVE SerializerInv'
  OBVIOUS
<1> USE ProcOfThread
<1>1. ASSUME NEW t \in Db!Threads, Db!Acquire(t) PROVE SerializerInv'
  <2>1. Db!TypeOK'
    BY <1>1 DEF SerializerInv, Db!TypeOK, Db!Bookkeeping, Db!Steps, Db!Acquire
  <2>2. Db!NoLockLeaks'
    BY <1>1 DEF SerializerInv, Db!TypeOK, Db!NoLockLeaks, Db!Bookkeeping, Db!Steps, Db!Acquire
  <2>3. Db!Bookkeeping'
    BY <1>1 DEF SerializerInv, Db!TypeOK, Db!NoLockLeaks, Db!Bookkeeping, Db!Steps, Db!Acquire
  <2> QED
    BY <2>1, <2>2, <2>3 DEF SerializerInv
<1>2. ASSUME NEW t \in Db!Threads, Db!TakeFileLock(t) PROVE SerializerInv'
  <2>1. Db!TypeOK'
    BY <1>2 DEF SerializerInv, Db!TypeOK, Db!Bookkeeping, Db!Steps, Db!TakeFileLock
  <2>2. Db!NoLockLeaks'
    BY <1>2 DEF SerializerInv, Db!TypeOK, Db!NoLockLeaks, Db!Bookkeeping, Db!Steps, Db!TakeFileLock
  <2>3. Db!Bookkeeping'
    BY <1>2 DEF SerializerInv, Db!TypeOK, Db!NoLockLeaks, Db!Bookkeeping, Db!Steps, Db!TakeFileLock
  <2> QED
    BY <2>1, <2>2, <2>3 DEF SerializerInv
<1>3. ASSUME NEW t \in Db!Threads, Db!GiveUp(t) PROVE SerializerInv'
  <2>1. Db!TypeOK'
    BY <1>3 DEF SerializerInv, Db!TypeOK, Db!Bookkeeping, Db!Steps, Db!GiveUp, Db!ReleaseThreadLock
  <2>2. Db!NoLockLeaks'
    BY <1>3 DEF SerializerInv, Db!TypeOK, Db!NoLockLeaks, Db!Bookkeeping, Db!Steps, Db!GiveUp, Db!ReleaseThreadLock
  <2>3. Db!Bookkeeping'
    BY <1>3 DEF SerializerInv, Db!TypeOK, Db!NoLockLeaks, Db!Bookkeeping, Db!Steps, Db!GiveUp, Db!ReleaseThreadLock
  <2> QED
    BY <2>1, <2>2, <2>3 DEF SerializerInv
<1>4. ASSUME NEW t \in Db!Threads, Db!Release(t) PROVE SerializerInv'
  <2>1. Db!TypeOK'
    BY <1>4 DEF SerializerInv, Db!TypeOK, Db!Bookkeeping, Db!Steps, Db!Release, Db!ReleaseThreadLock
  <2>2. Db!NoLockLeaks'
    BY <1>4 DEF SerializerInv, Db!TypeOK, Db!NoLockLeaks, Db!Bookkeeping, Db!Steps, Db!Release, Db!ReleaseThreadLock
  <2>3. Db!Bookkeeping'
    <3>1. \A u \in Db!Threads : u # t /\ Db!Proc(u) = Db!Proc(t) => pc[u] = "out"
      BY <1>4 DEF SerializerInv, Db!TypeOK, Db!Bookkeeping, Db!Release
    <3>2. count[Db!Proc(t)] = depth[Db!Proc(t)] /\ depth[Db!Proc(t)] \in Nat \ {0}
      BY <1>4 DEF SerializerInv, Db!TypeOK, Db!Bookkeeping, Db!Release
    <3>3. CASE depth[Db!Proc(t)] = 1
      <4>1. /\ pc' = [pc EXCEPT ![t] = "unlock"] /\ flock' = flock
            /\ owner' = [owner EXCEPT ![Db!Proc(t)] = {}]
            /\ depth' = [depth EXCEPT ![Db!Proc(t)] = @ - 1]
            /\ holder' = holder /\ count' = count
        BY <1>4, <3>3 DEF Db!Release
      <4>2. \A u \in Db!Threads : pc'[u] = "in" <=> owner'[Db!Proc(u)] = {u}
        BY <1>4, <3>1, <4>1 DEF SerializerInv, Db!TypeOK, Db!Bookkeeping
      <4>3. \A u \in Db!Threads : pc'[u] = "in" => Db!Proc(u) # Db!Proc(t) /\ pc[u] = "in"
        BY <3>1, <4>1 DEF SerializerInv, Db!TypeOK
      <4>4. \A u \in Db!Threads : pc'[u] = "in" =>
                depth'[Db!Proc(u)] > 0 /\ count'[Db!Proc(u)] = depth'[Db!Proc(u)]
        BY <4>1, <4>3 DEF SerializerInv, Db!TypeOK, Db!Bookkeeping
      <4>5. \A u \in Db!Threads : pc'[u] \in {"in", "unlock"} => flock' = {Db!Proc(u)}
        BY <1>4, <4>1 DEF SerializerInv, Db!TypeOK, Db!Bookkeeping, Db!Release
      <4>6. \A u \in Db!Threads : pc'[u] \in {"file", "unlock", "leave"} => count'[Db!Proc(u)] = 1
        BY <3>2, <3>3, <4>1 DEF SerializerInv, Db!TypeOK, Db!Bookkeeping
      <4>7. \A u \in Db!Threads : pc'[u] # "out" => holder'[Db!Proc(u)] = {u}
        BY <1>4, <4>1 DEF SerializerInv, Db!TypeOK, Db!Bookkeeping, Db!Release
      <4> QED
        BY <4>1, <4>2, <4>4, <4>5, <4>6, <4>7 DEF SerializerInv, Db!TypeOK, Db!Bookkeeping
    <3>4. CASE depth[Db!Proc(t)] # 1
      BY <1>4, <3>1, <3>2, <3>4
        DEF SerializerInv, Db!TypeOK, Db!Bookkeeping, Db!Steps, Db!Release, Db!ReleaseThreadLock
    <3> QED
      BY <3>3, <3>4
  <2> QED
    BY <2>1, <2>2, <2>3 DEF SerializerInv
<1>5. ASSUME NEW t \in Db!Threads, Db!Unlock(t) PROVE SerializerInv'
  <2>1. Db!TypeOK'
    BY <1>5 DEF SerializerInv, Db!TypeOK, Db!Bookkeeping, Db!Steps, Db!Unlock
  <2>2. Db!NoLockLeaks'
    BY <1>5 DEF SerializerInv, Db!TypeOK, Db!NoLockLeaks, Db!Bookkeeping, Db!Steps, Db!Unlock
  <2>3. Db!Bookkeeping'
    BY <1>5 DEF SerializerInv, Db!TypeOK, Db!NoLockLeaks, Db!Bookkeeping, Db!Steps, Db!Unlock
  <2> QED
    BY <2>1, <2>2, <2>3 DEF SerializerInv
<1>6. ASSUME NEW t \in Db!Threads, Db!Leave(t) PROVE SerializerInv'
  <2>1. Db!TypeOK'
    BY <1>6 DEF SerializerInv, Db!TypeOK, Db!Bookkeeping, Db!Steps, Db!Leave, Db!ReleaseThreadLock
  <2>2. Db!NoLockLeaks'
    BY <1>6 DEF SerializerInv, Db!TypeOK, Db!NoLockLeaks, Db!Bookkeeping, Db!Steps, Db!Leave, Db!ReleaseThreadLock
  <2>3. Db!Bookkeeping'
    BY <1>6 DEF SerializerInv, Db!TypeOK, Db!NoLockLeaks, Db!Bookkeeping, Db!Steps, Db!Leave, Db!ReleaseThreadLock
  <2> QED
    BY <2>1, <2>2, <2>3 DEF SerializerInv
<1>7. ASSUME NEW p \in Procs, Db!ProcessDies(p) PROVE SerializerInv'
  <2>1. Db!TypeOK'
    BY <1>7 DEF SerializerInv, Db!TypeOK, Db!Steps, Db!ProcessDies
  <2>2. Db!NoLockLeaks'
    BY <1>7 DEF SerializerInv, Db!TypeOK, Db!NoLockLeaks, Db!ProcessDies
  <2>3. Db!Bookkeeping'
    <3>1. \A u \in Db!Threads : pc'[u] # "out" => Db!Proc(u) # p /\ pc'[u] = pc[u]
      BY <1>7 DEF SerializerInv, Db!TypeOK, Db!ProcessDies
    <3>2. \A u \in Db!Threads : pc'[u] \in {"in", "unlock"} => flock' = {Db!Proc(u)}
      BY <1>7, <3>1 DEF SerializerInv, Db!Bookkeeping, Db!ProcessDies
    <3>3. \A u \in Db!Threads : pc'[u] = "in" <=> owner'[Db!Proc(u)] = {u}
      BY <1>7, <3>1 DEF SerializerInv, Db!TypeOK, Db!Bookkeeping, Db!ProcessDies
    <3> QED
      BY <1>7, <3>1, <3>2, <3>3 DEF SerializerInv, Db!TypeOK, Db!Bookkeeping, Db!ProcessDies
  <2> QED
    BY <2>1, <2>2, <2>3 DEF SerializerInv
<1>8. CASE UNCHANGED Db!vars
  BY <1>8 DEF Db!vars, SerializerInv, Db!TypeOK, Db!NoLockLeaks, Db!Bookkeeping
<1> QED
  BY <1>1, <1>2, <1>3, <1>4, <1>5, <1>6, <1>7, <1>8 DEF Db!Next

(* For every number of processes and threads, of which any may die at any  *)
(* time, at most one thread is inside the initializer, and every lock is   *)
(* held by a thread that will let go of it.  (SerializedInitializer)       *)
THEOREM InitializerSerializes == Db!Spec => []Db!Serialized
<1>1. SerializerInv => Db!Serialized
  BY BookkeepingExcludes DEF SerializerInv, Db!Serialized
<1> QED
  BY <1>1, SerializerInit, SerializerStep, PTL DEF Db!Spec

=============================================================================
