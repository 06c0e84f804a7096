---------------------------- MODULE DbInitializer ----------------------------
(***************************************************************************)
(* SerializedInitializer (live_db.py): one thread of all processes at a    *)
(* time may create or migrate the schema of the live database.  A process  *)
(* has one reentrant thread lock for the path, and the thread that has it  *)
(* takes a file lock, polling until its deadline.                          *)
(*                                                                         *)
(* Giving up on the thread lock changes nothing and has no action.         *)
(***************************************************************************)
EXTENDS Naturals

CONSTANTS
    Procs,      \* processes
    Tids,       \* thread identifiers of a process
    MaxDepth    \* bound: nested initializers of one thread

VARIABLES
    pc,       \* thread -> where it is
    holder,   \* process -> the threads that have _thread_lock
    count,    \* process -> how often its holder has acquired it
    owner,    \* process -> the thread in _owner_tid, as a set
    depth,    \* process -> _depth
    flock     \* the processes whose open descriptor has the file lock

vars == <<pc, holder, count, owner, depth, flock>>

Threads == Procs \X Tids
Proc(t) == t[1]

Steps == {"out", "file", "in", "unlock", "leave"}

Init ==
    /\ pc = [t \in Threads |-> "out"]
    /\ holder = [p \in Procs |-> {}] /\ count = [p \in Procs |-> 0]
    /\ owner = [p \in Procs |-> {}] /\ depth = [p \in Procs |-> 0]
    /\ flock = {}

(* The reentrant lock of process p is let go of once. *)
ReleaseThreadLock(p) ==
    /\ count' = [count EXCEPT ![p] = @ - 1]
    /\ holder' = [holder EXCEPT ![p] = IF count[p] = 1 THEN {} ELSE @]

(* acquire, up to the file lock: the owner only counts one more. *)
Acquire(t) ==
    LET p == Proc(t) IN
    /\ pc[t] \in {"out", "in"} /\ depth[p] < MaxDepth
    /\ holder[p] \subseteq {t}
    /\ holder' = [holder EXCEPT ![p] = {t}]
    /\ count' = [count EXCEPT ![p] = @ + 1]
    /\ IF owner[p] = {t}
         THEN depth' = [depth EXCEPT ![p] = @ + 1] /\ UNCHANGED pc
         ELSE pc' = [pc EXCEPT ![t] = "file"] /\ UNCHANGED depth
    /\ UNCHANGED <<owner, flock>>

TakeFileLock(t) ==
    LET p == Proc(t) IN
    /\ pc[t] = "file" /\ flock = {}
    /\ flock' = {p}
    /\ owner' = [owner EXCEPT ![p] = {t}]
    /\ depth' = [depth EXCEPT ![p] = 1]
    /\ pc' = [pc EXCEPT ![t] = "in"]
    /\ UNCHANGED <<holder, count>>

GiveUpKeepingLock(t) ==
    /\ pc[t] = "file"
    /\ pc' = [pc EXCEPT ![t] = "out"]
    /\ UNCHANGED <<holder, count, owner, depth, flock>>

(* The deadline passed, or the lock file could not be opened. *)
GiveUp(t) ==
    /\ pc[t] = "file"
    /\ ReleaseThreadLock(Proc(t))
    /\ pc' = [pc EXCEPT ![t] = "out"]
    /\ UNCHANGED <<owner, depth, flock>>

(* release: the outermost one gives the ownership up, then the file lock,  *)
(* then the thread lock.                                                   *)
Release(t) ==
    LET p == Proc(t) IN
    /\ pc[t] = "in"
    /\ depth' = [depth EXCEPT ![p] = @ - 1]
    /\ IF depth[p] = 1
         THEN /\ owner' = [owner EXCEPT ![p] = {}]
              /\ pc' = [pc EXCEPT ![t] = "unlock"]
              /\ UNCHANGED <<holder, count>>
         ELSE /\ ReleaseThreadLock(p)
              /\ UNCHANGED <<owner, pc>>
    /\ UNCHANGED flock

Unlock(t) ==
    /\ pc[t] = "unlock"
    /\ flock' = flock \ {Proc(t)}
    /\ pc' = [pc EXCEPT ![t] = "leave"]
    /\ UNCHANGED <<holder, count, owner, depth>>

Leave(t) ==
    /\ pc[t] = "leave"
    /\ ReleaseThreadLock(Proc(t))
    /\ pc' = [pc EXCEPT ![t] = "out"]
    /\ UNCHANGED <<owner, depth, flock>>

(* A process ends and starts again: the kernel closes its descriptors. *)
ProcessDies(p) ==
    /\ pc' = [t \in Threads |-> IF Proc(t) = p THEN "out" ELSE pc[t]]
    /\ holder' = [holder EXCEPT ![p] = {}] /\ count' = [count EXCEPT ![p] = 0]
    /\ owner' = [owner EXCEPT ![p] = {}] /\ depth' = [depth EXCEPT ![p] = 0]
    /\ flock' = flock \ {p}

Next ==
    \/ \E t \in Threads :
          \/ Acquire(t) \/ TakeFileLock(t) \/ GiveUp(t)
          \/ Release(t) \/ Unlock(t) \/ Leave(t)
    \/ \E p \in Procs : ProcessDies(p)

Spec == Init /\ [][Next]_vars

------------------------------------------------------------------------------
TypeOK ==
    /\ pc \in [Threads -> Steps]
    /\ holder \in [Procs -> SUBSET Threads] /\ count \in [Procs -> Nat]
    /\ owner \in [Procs -> SUBSET Threads] /\ depth \in [Procs -> Nat]
    /\ flock \in SUBSET Procs

(* "exactly one initializer performs schema initialization or migration    *)
(* for one DB path at a time" (live_db.py, SerializedInitializer): two     *)
(* threads are never inside together, of one process or of two.            *)
OneInside == \A t, u \in Threads : pc[t] = "in" /\ pc[u] = "in" => t = u

(* A lock is held only on the way in, inside or on the way out, so that    *)
(* whoever waits waits for a thread that will let go of it: a thread lock  *)
(* by a thread that is not out, the file lock by a process one of whose    *)
(* threads is inside or about to unlock it.                                *)
NoLockLeaks ==
    /\ \A p \in Procs : \A t \in holder[p] : Proc(t) = p /\ pc[t] # "out"
    /\ \A p \in flock : \E t \in Threads : Proc(t) = p /\ pc[t] \in {"in", "unlock"}

(* SerializedInitializer serializes, and lets go of what it took.          *)
Serialized == OneInside /\ NoLockLeaks

(* The locks and the counters say where each thread is: a thread that is   *)
(* not out has its process's thread lock, alone and as often as it is      *)
(* nested; the owner is the thread inside, and only with the file lock.    *)
Bookkeeping ==
    /\ \A t \in Threads : pc[t] # "out" => holder[Proc(t)] = {t}
    /\ \A t \in Threads : pc[t] \in {"in", "unlock"} => flock = {Proc(t)}
    /\ \A t \in Threads : pc[t] = "in" <=> owner[Proc(t)] = {t}
    /\ \A t \in Threads : pc[t] = "in" =>
          depth[Proc(t)] > 0 /\ count[Proc(t)] = depth[Proc(t)]
    /\ \A t \in Threads : pc[t] \in {"file", "unlock", "leave"} => count[Proc(t)] = 1
    /\ \A p \in Procs : owner[p] \subseteq holder[p]
    /\ \A p \in Procs : holder[p] = {} => count[p] = 0

=============================================================================
