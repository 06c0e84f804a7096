----------------------- MODULE ResearchStoreProofs -----------------------
(***************************************************************************)
(* The stores of the research: the contract registry, here first, the      *)
(* receipts and the head of an H40 run, and, last and longest, the status  *)
(* that MicrostructureStore reports of what it has recorded.               *)
(*                                                                         *)
(* A decision that a commit answered for stays in the registry, for every  *)
(* set of processes, revisions and evidence.                               *)
(*                                                                         *)
(* The compare-and-swap looks at generations only.  It is sound because    *)
(* the generation in memory tells the content: a process whose generation  *)
(* is the file's holds the file (MemoryIsPast), and a commit that passed   *)
(* the check keeps that until it is over, because it holds the lock        *)
(* (Guarded).  So the replacement extends the file, which extends what a   *)
(* restarted host finds, which extends all that was answered.              *)
(***************************************************************************)
EXTENDS ResearchRegistry, SequenceTheorems, FiniteSetTheorems, NaturalsInduction,
        WellFoundedInduction, TLAPS

(* A decision event and a registry state. *)
Decision == [rev : Revisions, to : Statuses, evidence : SUBSET Evidence]
State == [generation : Nat, events : Seq(Decision), evidence : SUBSET Evidence]

TypeOK ==
    /\ file \in State /\ durable \in State
    /\ mem \in [Procs -> State]
    /\ call \in [Procs -> [at : {"idle", "lock", "replace", "sync"}, next : State]]
    /\ acked \in SUBSET State

(* Memory is a state the file has had, and the one with its generation. *)
MemoryIsPast ==
    \A p \in Procs :
        /\ mem[p].generation <= file.generation
        /\ mem[p].generation = file.generation => mem[p] = file

(* A commit in progress extends memory; under the lock, its memory is the  *)
(* file, until its next state is.                                          *)
Staged(p) ==
    /\ call[p].at # "idle" => /\ call[p].next.generation = mem[p].generation + 1
                              /\ Extends(call[p].next, mem[p])
    /\ call[p].at = "replace" => file = mem[p]
    /\ call[p].at = "sync" => file = call[p].next

Holds(p) == call[p].at \in {"replace", "sync"}

Guarded ==
    /\ \A p \in Procs : Staged(p)
    /\ \A p, q \in Procs : Holds(p) /\ Holds(q) => p = q

Inv == TypeOK /\ MemoryIsPast /\ Guarded /\ DecisionsStay

(* Appending to the chain and adding evidence extends a state. *)
LEMMA AppendExtends ==
    ASSUME NEW s \in State, NEW n \in Nat,
           NEW new \in Seq(Decision),
           NEW more \in SUBSET Evidence
    PROVE  LET t == [generation |-> n, events |-> s.events \o new, evidence |-> s.evidence \cup more]
           IN  t \in State /\ Extends(t, s)
  BY DEF State, Extends

(* What extends an extension extends the state. *)
LEMMA ExtendsTransitive ==
    ASSUME NEW r \in State, NEW s \in State, NEW t \in State, Extends(t, s), Extends(s, r)
    PROVE  Extends(t, r)
<1>1. DOMAIN r.events = 1..Len(r.events) /\ Len(r.events) \in Nat
  BY DEF State
<1>2. DOMAIN s.events = 1..Len(s.events) /\ Len(s.events) \in Nat
  BY DEF State
<1>3. Len(t.events) \in Nat
  BY DEF State
<1>4. Len(r.events) <= Len(s.events) /\ Len(s.events) <= Len(t.events)
  BY DEF Extends
<1>5. Len(r.events) <= Len(t.events)
  BY <1>1, <1>2, <1>3, <1>4
<1>6. ASSUME NEW i \in DOMAIN r.events
      PROVE  t.events[i] = r.events[i]
  <2>1. i \in DOMAIN s.events
    BY <1>1, <1>2, <1>4
  <2>. QED
    BY <2>1 DEF Extends
<1>. QED
  BY <1>5, <1>6 DEF Extends

(* A state extends itself. *)
LEMMA ExtendsReflexive == ASSUME NEW s \in State PROVE Extends(s, s)
  BY DEF State, Extends

(* The statuses that events carry. *)
LEMMA StatusTypes ==
    {"REGISTERED", "REJECTED", "ECONOMICALLY_QUALIFIED"} \subseteq Statuses
  BY DEF Statuses, Legal

(* A registry without a file is a registry state. *)
LEMMA FreshIsState == Fresh \in State
  BY DEF Fresh, State

------------------------------------------------------------------------------

(* Initially nothing is committed and nothing is answered. *)
LEMMA InitInv == Init => Inv
<1>. SUFFICES ASSUME Init PROVE Inv
  OBVIOUS
<1>1. TypeOK
  BY FreshIsState DEF Init, TypeOK, Idle
<1>2. MemoryIsPast
  BY FreshIsState DEF Init, MemoryIsPast, Fresh
<1>3. Guarded
  BY DEF Init, Guarded, Staged, Holds, Idle
<1>4. DecisionsStay
  BY FreshIsState, ExtendsReflexive DEF Init, DecisionsStay
<1>. QED
  BY <1>1, <1>2, <1>3, <1>4 DEF Inv

(* An operation stages an extension of the memory of its process. *)
LEMMA CommitInv ==
    ASSUME Inv, NEW p \in Procs,
           NEW new \in Seq(Decision),
           NEW more \in SUBSET Evidence,
           Commit(p, new, more)
    PROVE  Inv'
<1>. DEFINE t == [generation |-> mem[p].generation + 1, events |-> mem[p].events \o new,
                  evidence |-> mem[p].evidence \cup more]
<1>1. mem[p] \in State /\ mem[p].generation + 1 \in Nat
  <2>1. mem[p] \in State
    BY DEF Inv, TypeOK
  <2>2. mem[p].generation \in Nat
    BY <2>1 DEF State
  <2>. QED
    BY <2>1, <2>2
<1>2. t \in State /\ Extends(t, mem[p])
  BY <1>1, AppendExtends
<1>3. t.generation = mem[p].generation + 1
  OBVIOUS
<1>4. call' = [call EXCEPT ![p] = [at |-> "lock", next |-> t]] /\ UNCHANGED <<file, durable, mem, acked>>
  BY DEF Commit
<1>. HIDE DEF t
<1>5. TypeOK'
  BY <1>2, <1>4 DEF Inv, TypeOK
<1>6. MemoryIsPast' /\ DecisionsStay'
  BY <1>4 DEF Inv, MemoryIsPast, DecisionsStay, Extends
<1>7. ASSUME NEW q \in Procs PROVE Staged(q)'
  <2>1. CASE q = p
    BY <1>2, <1>3, <1>4, <2>1 DEF Inv, TypeOK, Staged, Extends
  <2>2. CASE q # p
    <3>1. call'[q] = call[q]
      BY <1>4, <2>2 DEF Inv, TypeOK
    <3>. QED
      BY <1>4, <3>1 DEF Inv, Guarded, Staged, Extends
  <2>. QED
    BY <2>1, <2>2
<1>8. ASSUME NEW q \in Procs, Holds(q)' PROVE Holds(q)
  BY <1>4, <1>8 DEF Inv, TypeOK, Holds
<1>. QED
  BY <1>5, <1>6, <1>7, <1>8 DEF Inv, Guarded

(* Every operation of the registry is such a commit, or a load. *)
LEMMA OperationInv == ASSUME Inv, NEW p \in Procs, Operation(p) PROVE Inv'
<1>0. <<>> \in Seq(Decision) /\ {} \in SUBSET Evidence
  OBVIOUS
<1>1. ASSUME NEW rev \in Revisions, RegisterExperiment(p, rev) PROVE Inv'
  <2>1. <<Event(rev, "REGISTERED", {})>> \in Seq(Decision)
    BY StatusTypes DEF Event, Decision
  <2>2. Commit(p, <<Event(rev, "REGISTERED", {})>>, {})
    BY <1>1 DEF RegisterExperiment
  <2>. QED
    BY <1>0, <2>1, <2>2, CommitInv
<1>2. ASSUME NEW item \in Evidence, RegisterEvidence(p, item) PROVE Inv'
  <2>1. Commit(p, <<>>, {item}) /\ {item} \in SUBSET Evidence
    BY <1>2 DEF RegisterEvidence
  <2>. QED
    BY <1>0, <2>1, CommitInv
<1>3. ASSUME NEW rev \in Revisions, NEW to \in Statuses, NEW evidence \in SUBSET Evidence,
             UpdateDecisionStatus(p, rev, to, evidence)
      PROVE  Inv'
  <2>1. <<Event(rev, to, evidence)>> \in Seq(Decision)
    BY DEF Event, Decision
  <2>2. Commit(p, <<Event(rev, to, evidence)>>, evidence)
    BY <1>3 DEF UpdateDecisionStatus
  <2>. QED
    BY <2>1, <2>2, CommitInv
<1>4. ASSUME NEW rev \in Revisions, NEW verdict, NEW evidence \in SUBSET Evidence,
             RecordEconomicQualification(p, rev, verdict, evidence)
      PROVE  Inv'
  <2>. DEFINE new == IF verdict = "NOT_TESTABLE" THEN <<>>
                     ELSE <<Event(rev, IF verdict = "QUALIFIED" THEN "ECONOMICALLY_QUALIFIED"
                                       ELSE "REJECTED", evidence)>>
  <2>1. new \in Seq(Decision)
    <3>1. /\ Event(rev, "ECONOMICALLY_QUALIFIED", evidence) \in Decision
          /\ Event(rev, "REJECTED", evidence) \in Decision
      BY StatusTypes DEF Event, Decision
    <3>2. CASE verdict = "NOT_TESTABLE"
      BY <1>0, <3>2
    <3>3. CASE verdict = "QUALIFIED"
      BY <3>1, <3>3
    <3>4. CASE verdict # "NOT_TESTABLE" /\ verdict # "QUALIFIED"
      BY <3>1, <3>4
    <3>. QED
      BY <3>2, <3>3, <3>4
  <2>2. Commit(p, new, evidence)
    BY <1>4 DEF RecordEconomicQualification
  <2>. HIDE DEF new
  <2>. QED
    BY <2>1, <2>2, CommitInv
<1>5. ASSUME Save(p) PROVE Inv'
  <2>1. Commit(p, <<>>, {})
    BY <1>5 DEF Save
  <2>. QED
    BY <1>0, <2>1, CommitInv
<1>6. ASSUME Load(p) PROVE Inv'
  <2>1. mem' = [mem EXCEPT ![p] = file] /\ call[p].at = "idle" /\ UNCHANGED <<file, durable, call, acked>>
    BY <1>6 DEF Load
  <2>2. TypeOK'
    BY <2>1 DEF Inv, TypeOK
  <2>3. MemoryIsPast'
    BY <2>1 DEF Inv, TypeOK, State, MemoryIsPast
  <2>4. Guarded'
    BY <2>1 DEF Inv, TypeOK, Guarded, Staged, Holds, Extends
  <2>5. DecisionsStay'
    BY <2>1 DEF Inv, DecisionsStay, Extends
  <2>. QED
    BY <2>2, <2>3, <2>4, <2>5 DEF Inv
<1>. QED
  BY <1>1, <1>2, <1>3, <1>4, <1>5, <1>6 DEF Operation

------------------------------------------------------------------------------

(* The check under the lock: memory has the generation of the file, so it  *)
(* is the file.                                                            *)
LEMMA TakeLockInv == ASSUME Inv, NEW p \in Procs, TakeLock(p) PROVE Inv'
<1>1. /\ call[p].at = "lock" /\ ~Locked /\ SameGeneration(p)
      /\ call' = [call EXCEPT ![p].at = "replace"] /\ UNCHANGED <<file, durable, mem, acked>>
  BY DEF TakeLock
<1>2. file = mem[p]
  BY <1>1 DEF Inv, MemoryIsPast, SameGeneration
<1>3. TypeOK'
  BY <1>1 DEF Inv, TypeOK
<1>4. MemoryIsPast' /\ DecisionsStay'
  BY <1>1 DEF Inv, MemoryIsPast, DecisionsStay, Extends
<1>5. ASSUME NEW q \in Procs PROVE Staged(q)'
  <2>1. CASE q = p
    <3>1. call'[p].at = "replace" /\ call'[p].next = call[p].next
      BY <1>1 DEF Inv, TypeOK
    <3>. QED
      BY <1>1, <1>2, <2>1, <3>1 DEF Inv, Guarded, Staged, Extends
  <2>2. CASE q # p
    <3>1. call'[q] = call[q]
      BY <1>1, <2>2 DEF Inv, TypeOK
    <3>2. Staged(q)
      BY DEF Inv, Guarded
    <3>3. file' = file /\ mem' = mem
      BY <1>1
    <3>. QED
      BY <3>1, <3>2, <3>3 DEF Staged, Extends
  <2>. QED
    BY <2>1, <2>2
<1>6. ASSUME NEW q \in Procs, Holds(q)' PROVE q = p
  <2>1. ~Holds(q)
    BY <1>1 DEF Locked, Holds
  <2>2. q # p => call'[q] = call[q]
    BY <1>1 DEF Inv, TypeOK
  <2>. QED
    BY <1>6, <2>1, <2>2 DEF Holds
<1>. QED
  BY <1>3, <1>4, <1>5, <1>6 DEF Inv, Guarded

(* A call that ends leaves the others as they are; memory keeps its state  *)
(* or takes the file's.                                                    *)
LEMMA EndInv ==
    ASSUME Inv, NEW p \in Procs,
           call' = [call EXCEPT ![p] = Idle],
           mem' = mem \/ mem' = [mem EXCEPT ![p] = file],
           UNCHANGED <<file, durable, acked>>
    PROVE  Inv'
<1>1. Idle \in [at : {"idle", "lock", "replace", "sync"}, next : State]
  BY FreshIsState DEF Idle
<1>2. TypeOK'
  BY <1>1 DEF Inv, TypeOK
<1>3. MemoryIsPast'
  <2>1. file.generation \in Nat
    BY DEF Inv, TypeOK, State
  <2>2. ASSUME NEW q \in Procs PROVE mem'[q] = mem[q] \/ mem'[q] = file
    BY DEF Inv, TypeOK
  <2>. QED
    BY <2>1, <2>2 DEF Inv, MemoryIsPast
<1>4. DecisionsStay'
  BY DEF Inv, DecisionsStay, Extends
<1>5. call'[p].at = "idle"
  BY DEF Inv, TypeOK, Idle
<1>6. ASSUME NEW q \in Procs, q # p PROVE call'[q] = call[q] /\ mem'[q] = mem[q]
  BY <1>6 DEF Inv, TypeOK
<1>7. ASSUME NEW q \in Procs PROVE Staged(q)'
  <2>1. CASE q = p
    BY <1>5, <2>1 DEF Staged
  <2>2. CASE q # p
    <3>1. Staged(q)
      BY DEF Inv, Guarded
    <3>2. call'[q] = call[q] /\ mem'[q] = mem[q] /\ file' = file
      BY <1>6, <2>2
    <3>. QED
      BY <3>1, <3>2 DEF Staged, Extends
  <2>. QED
    BY <2>1, <2>2
<1>8. ASSUME NEW q \in Procs, Holds(q)' PROVE Holds(q)
  BY <1>5, <1>6, <1>8 DEF Holds
<1>. QED
  BY <1>2, <1>3, <1>4, <1>7, <1>8 DEF Inv, Guarded

(* The replacement extends the file, which its memory is. *)
LEMMA AtomicReplaceInv == ASSUME Inv, NEW p \in Procs, AtomicReplace(p) PROVE Inv'
<1>1. /\ call[p].at = "replace" /\ file' = call[p].next
      /\ call' = [call EXCEPT ![p].at = "sync"] /\ UNCHANGED <<durable, mem, acked>>
  BY DEF AtomicReplace
<1>2. /\ file = mem[p] /\ Extends(file', file)
      /\ file'.generation = file.generation + 1
  BY <1>1 DEF Inv, Guarded, Staged
<1>3. file \in State /\ file' \in State /\ durable \in State
  BY <1>1 DEF Inv, TypeOK
<1>4. TypeOK'
  BY <1>1, <1>3 DEF Inv, TypeOK
<1>5. MemoryIsPast'
  <2>1. ASSUME NEW q \in Procs
        PROVE  mem'[q].generation <= file'.generation /\ mem'[q].generation # file'.generation
    <3>1. mem[q] \in State /\ mem[q].generation <= file.generation
      BY DEF Inv, TypeOK, MemoryIsPast
    <3>2. mem[q].generation \in Nat /\ file.generation \in Nat
      BY <1>3, <3>1 DEF State
    <3>. QED
      BY <1>1, <1>2, <3>1, <3>2
  <2>. QED
    BY <2>1 DEF MemoryIsPast
<1>6. DecisionsStay'
  <2>1. Extends(file, durable)
    BY DEF Inv, DecisionsStay
  <2>2. Extends(file', durable)
    BY <1>2, <1>3, <2>1, ExtendsTransitive
  <2>. QED
    BY <1>1, <2>2 DEF Inv, DecisionsStay, Extends
<1>7. ASSUME NEW q \in Procs, q # p PROVE ~Holds(q) /\ call'[q] = call[q]
  BY <1>1, <1>7 DEF Inv, TypeOK, Guarded, Holds
<1>8. call'[p].at = "sync" /\ call'[p].next = call[p].next
  BY <1>1 DEF Inv, TypeOK
<1>9. ASSUME NEW q \in Procs PROVE Staged(q)'
  <2>0. Staged(q)
    BY DEF Inv, Guarded
  <2>1. CASE q = p
    BY <1>1, <1>8, <2>0, <2>1 DEF Staged, Extends
  <2>2. CASE q # p
    BY <1>1, <1>7, <2>0, <2>2 DEF Staged, Holds, Extends
  <2>. QED
    BY <2>1, <2>2
<1>10. ASSUME NEW q \in Procs, Holds(q)' PROVE q = p
  BY <1>7, <1>10 DEF Holds
<1>. QED
  BY <1>4, <1>5, <1>6, <1>9, <1>10 DEF Inv, Guarded

(* A synced commit is answered: what is durable now is the file. *)
LEMMA SyncedInv == ASSUME Inv, NEW p \in Procs, Synced(p) PROVE Inv'
<1>1. /\ call[p].at = "sync" /\ durable' = file /\ mem' = [mem EXCEPT ![p] = call[p].next]
      /\ acked' = acked \cup {call[p].next}
      /\ call' = [call EXCEPT ![p] = Idle] /\ file' = file
  BY DEF Synced
<1>2. file = call[p].next
  BY <1>1 DEF Inv, Guarded, Staged
<1>3. file \in State /\ durable \in State /\ acked \in SUBSET State
  BY DEF Inv, TypeOK
<1>4. Idle \in [at : {"idle", "lock", "replace", "sync"}, next : State]
  BY FreshIsState DEF Idle
<1>5. TypeOK'
  BY <1>1, <1>2, <1>3, <1>4 DEF Inv, TypeOK
<1>6. MemoryIsPast'
  BY <1>1, <1>2 DEF Inv, TypeOK, State, MemoryIsPast
<1>7. DecisionsStay'
  <2>1. Extends(file, file)
    BY <1>3, ExtendsReflexive
  <2>2. ASSUME NEW state \in acked PROVE Extends(file, state)
    <3>1. Extends(file, durable) /\ Extends(durable, state) /\ state \in State
      BY <1>3 DEF Inv, DecisionsStay
    <3>. QED
      BY <1>3, <3>1, ExtendsTransitive
  <2>3. Extends(file, durable)' 
    BY <1>1, <2>1 DEF Extends
  <2>4. ASSUME NEW state \in acked' PROVE Extends(durable', state)
    BY <1>1, <1>2, <2>1, <2>2
  <2>. QED
    BY <2>3, <2>4 DEF DecisionsStay, Extends
<1>8. call'[p].at = "idle"
  BY <1>1 DEF Inv, TypeOK, Idle
<1>9. ASSUME NEW q \in Procs, q # p PROVE call'[q] = call[q] /\ mem'[q] = mem[q]
  BY <1>1, <1>9 DEF Inv, TypeOK
<1>10. ASSUME NEW q \in Procs PROVE Staged(q)'
  <2>1. CASE q = p
    BY <1>8, <2>1 DEF Staged
  <2>2. CASE q # p
    <3>1. Staged(q)
      BY DEF Inv, Guarded
    <3>. QED
      BY <1>1, <1>9, <2>2, <3>1 DEF Staged, Extends
  <2>. QED
    BY <2>1, <2>2
<1>11. ASSUME NEW q \in Procs, Holds(q)' PROVE Holds(q)
  BY <1>8, <1>9, <1>11 DEF Holds
<1>. QED
  BY <1>5, <1>6, <1>7, <1>10, <1>11 DEF Inv, Guarded

(* A restarted host finds the file or the durable one, and so does every   *)
(* process.                                                                *)
LEMMA HostDiesInv == ASSUME Inv, HostDies PROVE Inv'
<1>1. PICK kept \in {file, durable} :
          /\ file' = kept /\ durable' = kept /\ mem' = [p \in Procs |-> kept]
          /\ call' = [p \in Procs |-> Idle] /\ UNCHANGED acked
  BY DEF HostDies
<1>2. file \in State /\ durable \in State /\ kept \in State
  BY <1>1 DEF Inv, TypeOK
<1>3. TypeOK'
  BY <1>1, <1>2, FreshIsState DEF Inv, TypeOK, Idle
<1>4. MemoryIsPast'
  BY <1>1, <1>2 DEF MemoryIsPast, State
<1>5. Guarded'
  BY <1>1 DEF Guarded, Staged, Holds, Idle
<1>6. DecisionsStay'
  <2>1. Extends(kept, kept) /\ Extends(kept, durable)
    BY <1>1, <1>2, ExtendsReflexive DEF Inv, DecisionsStay
  <2>2. ASSUME NEW state \in acked PROVE Extends(kept, state)
    <3>1. Extends(durable, state) /\ state \in State
      BY DEF Inv, TypeOK, DecisionsStay
    <3>. QED
      BY <1>2, <2>1, <3>1, ExtendsTransitive
  <2>. QED
    BY <1>1, <2>1, <2>2 DEF DecisionsStay, Extends
<1>. QED
  BY <1>3, <1>4, <1>5, <1>6 DEF Inv

------------------------------------------------------------------------------

(* The decisions and the evidence of every commit that returned stay in    *)
(* the file and in what a restarted host finds, at their place in the      *)
(* chain. (ResearchContractRegistry._commit, publish_bytes)                *)
THEOREM AnsweredDecisionsStay == Spec => []DecisionsStay
<1>1. Inv /\ [Next]_vars => Inv'
  <2>. SUFFICES ASSUME Inv, [Next]_vars PROVE Inv'
    OBVIOUS
  <2>1. ASSUME NEW p \in Procs, StaleRegistry(p) \/ WriteFails(p) PROVE Inv'
    BY <2>1, EndInv DEF StaleRegistry, WriteFails, Raise
  <2>2. ASSUME NEW p \in Procs, SyncFails(p) \/ ProcessDies(p) PROVE Inv'
    BY <2>2, EndInv DEF SyncFails, ProcessDies
  <2>3. CASE UNCHANGED vars
    BY <2>3 DEF vars, Inv, TypeOK, MemoryIsPast, Guarded, Staged, Holds, DecisionsStay, Extends
  <2>. QED
    BY <2>1, <2>2, <2>3, OperationInv, TakeLockInv, AtomicReplaceInv, SyncedInv, HostDiesInv DEF Next
<1>2. Inv => DecisionsStay
  BY DEF Inv
<1>. QED
  BY <1>1, <1>2, InitInv, PTL DEF Spec

------------------------------------------------------------------------------

(***************************************************************************)
(* The history of an H40 run, for every set of processes and every offer   *)
(* of transitions.  The store's names meet those of the registry in        *)
(* durable and acked, which are synced and returned here.                  *)
(*                                                                         *)
(* A call persists its receipt before it asks for the head, so it only     *)
(* ever commits a receipt that is synced (JobInv); the head advances by    *)
(* compare-and-swap from the receipt before the new one, which is where    *)
(* the history of that receipt stands (ChainGrows), and never behind a     *)
(* termination (EndsOnce).  A host that dies keeps what is synced as long  *)
(* as receipts/ is found again, which it always is in a run whose          *)
(* directories have their entries on the disk (HeadsInv).                  *)
(***************************************************************************)
CONSTANTS Offers, Keyed, Past, MaxReceipts
VARIABLES auth, job, linked, synced, rooted, legacy, head, returned, lost

Heads == INSTANCE LifecycleHeads WITH durable <- synced, acked <- returned

(* A transition, and the receipts.                                         *)
Step == [to : STRING, content : Nat]
Receipts == Seq(Step)

(* Nothing follows a termination in the history r.                         *)
EndsOnce(r) == \A x \in Heads!Chain(r) : Heads!Terminal(x) => x = r

(* What is offered, and what the run has reached already.                  *)
RunOffered ==
    /\ Offers \in Seq(SUBSET Step) /\ Offers # <<>>
    /\ Past \in Receipts /\ EndsOnce(Past)

Jobs == [at : {"idle", "sync", "key", "write_key", "commit", "mirror"}, receipt : Receipts, keyed : BOOLEAN]

HeadsType ==
    /\ auth \in [Procs -> Receipts]
    /\ job \in [Procs -> Jobs]
    /\ linked \subseteq Receipts /\ synced \subseteq linked
    /\ head \in [receipt : Receipts, seq : Int]
    /\ returned \subseteq Receipts
    /\ rooted \subseteq Heads!Directories /\ lost \in BOOLEAN

(* A call works on a receipt that is there, from its sync on for good; the *)
(* head it has advanced is a part of the run's history.                    *)
JobInv(p) ==
    LET r == job[p].receipt IN
    /\ job[p].at # "idle" => r # Heads!None
    /\ job[p].at = "sync" => r \in linked
    /\ job[p].at \in {"key", "write_key", "commit", "mirror"} => r \in synced
    /\ job[p].at = "mirror" => r \in Heads!Chain(head.receipt)

HeadsInv ==
    /\ RunOffered
    /\ HeadsType
    /\ \A p \in Procs : JobInv(p)
    /\ Heads!LineageSurvives
    /\ EndsOnce(head.receipt)
    /\ returned \subseteq Heads!Chain(head.receipt)
    /\ Past # Heads!None => rooted = Heads!Directories

------------------------------------------------------------------------------

LEMMA ChainOf ==
    ASSUME NEW r \in Receipts
    PROVE  /\ r # Heads!None => r \in Heads!Chain(r)
           /\ \A x \in Heads!Chain(r) : x \in Receipts /\ x # Heads!None
<1>1. r \in Seq(Step) /\ Len(r) \in Nat /\ SubSeq(r, 1, Len(r)) = r
  BY SubSeqFull, LenProperties DEF Receipts
<1>2. ASSUME NEW l \in 0..Len(r) PROVE SubSeq(r, 1, l) \in Receipts
  <2>1. \A k \in 1..l : r[k] \in Step
    BY <1>1, ElementOfSeq
  <2> QED
    BY <1>1, <2>1, SubSeqProperties DEF Receipts
<1>3. Heads!Chain(r) = {SubSeq(r, 1, l) : l \in 0..Len(r)} \ {Heads!None}
  BY DEF Heads!Chain, Heads!Prefixes
<1>4. Len(r) \in 0..Len(r)
  BY <1>1
<1>5. r \in {SubSeq(r, 1, l) : l \in 0..Len(r)}
  BY <1>1, <1>4
<1> QED
  BY <1>2, <1>3, <1>5

LEMMA NoChain == Heads!Chain(Heads!None) = {} /\ Heads!None \in Receipts
<1>1. \A l \in 0..0 : SubSeq(<<>>, 1, l) = <<>>
  BY SubSeqEmpty
<1>2. Len(<<>>) = 0 /\ <<>> \in Receipts
  BY EmptySeq DEF Receipts
<1> QED
  BY <1>1, <1>2 DEF Heads!Chain, Heads!Prefixes, Heads!None

(* The chain of a receipt is its own and the one of the receipt before it. *)
LEMMA ChainGrows ==
    ASSUME NEW r \in Receipts, r # Heads!None
    PROVE  /\ Heads!Chain(r) = Heads!Chain(Heads!Upstream(r)) \cup {r}
           /\ Heads!Upstream(r) \in Receipts /\ Len(Heads!Upstream(r)) = Len(r) - 1
<1> DEFINE f == SubSeq(r, 1, Len(r) - 1)
<1>1. Len(r) \in Nat \ {0} /\ r \in Seq(Step)
  BY EmptySeq DEF Receipts, Heads!None
<1>2. f \in Receipts /\ Len(f) = Len(r) - 1
  <2>1. \A k \in 1..(Len(r) - 1) : r[k] \in Step
    BY <1>1, ElementOfSeq
  <2>2. Len(r) - 1 \in Int /\ 1 \in Int
    BY <1>1
  <2>3. f \in Seq(Step) /\ Len(f) = IF 1 <= Len(r) - 1 THEN (Len(r) - 1) - 1 + 1 ELSE 0
    BY <2>1, <2>2, SubSeqProperties
  <2>4. PICK n \in Nat \ {0} : n = Len(r)
    BY <1>1
  <2> HIDE DEF f
  <2>5. Len(f) = n - 1
    BY <2>3, <2>4, SMT
  <2>6. f \in Receipts
    BY <2>3, Zenon DEF Receipts
  <2> QED
    BY <2>4, <2>5, <2>6, Zenon
<1>3. \A l \in 0..(Len(r) - 1) : SubSeq(f, 1, l) = SubSeq(r, 1, l)
  <2> SUFFICES ASSUME NEW l \in 0..(Len(r) - 1) PROVE SubSeq(f, 1, l) = SubSeq(r, 1, l)
    OBVIOUS
  <2>1. /\ SubSeq(f, 1, l) \in Seq(Step) /\ Len(SubSeq(f, 1, l)) = l
        /\ \A k \in 1..l : SubSeq(f, 1, l)[k] = f[k]
    BY <1>1, <1>2, SubSeqProperties DEF Receipts
  <2>2. /\ SubSeq(r, 1, l) \in Seq(Step) /\ Len(SubSeq(r, 1, l)) = l
        /\ \A k \in 1..l : SubSeq(r, 1, l)[k] = r[k] /\ f[k] = r[k]
    BY <1>1, SubSeqProperties
  <2> QED
    BY <2>1, <2>2, SeqEqual
<1>4. SubSeq(r, 1, Len(r)) = r
  BY <1>1, SubSeqFull
<1>5. 0..Len(r) = (0..(Len(r) - 1)) \cup {Len(r)}
  BY <1>1
<1>6. {SubSeq(r, 1, l) : l \in 0..Len(r)} = {SubSeq(r, 1, l) : l \in 0..(Len(r) - 1)} \cup {r}
  BY <1>4, <1>5
<1>7. {SubSeq(f, 1, l) : l \in 0..Len(f)} = {SubSeq(r, 1, l) : l \in 0..(Len(r) - 1)}
  BY <1>2, <1>3
<1>8. Heads!Upstream(r) = f
  BY DEF Heads!Upstream, Heads!Front
<1> QED
  BY <1>2, <1>6, <1>7, <1>8 DEF Heads!Chain, Heads!Prefixes

LEMMA HeadsInit == ASSUME RunOffered, Heads!Init PROVE HeadsInv
<1>1. Len(Past) - 1 \in Int
  BY LenProperties DEF RunOffered, Receipts
<1>2. HeadsType
  <2>1. /\ auth \in [Procs -> Receipts] /\ returned \subseteq Receipts
        /\ head \in [receipt : Receipts, seq : Int]
    BY <1>1, NoChain DEF Heads!Init, RunOffered
  <2>2. Heads!Idle \in Jobs
    BY NoChain DEF Heads!Idle, Jobs
  <2>3. linked \subseteq Receipts
    BY ChainOf DEF Heads!Init, RunOffered
  <2> QED
    BY <2>1, <2>2, <2>3 DEF Heads!Init, HeadsType
<1>3. \A p \in Procs : JobInv(p)
  BY DEF Heads!Init, JobInv, Heads!Idle
<1>4. Heads!LineageSurvives /\ EndsOnce(head.receipt) /\ returned \subseteq Heads!Chain(head.receipt)
  BY DEF Heads!Init, Heads!LineageSurvives, RunOffered
<1>5. Past # Heads!None => rooted = Heads!Directories
  BY DEF Heads!Init
<1> QED
  BY <1>2, <1>3, <1>4, <1>5 DEF HeadsInv

(* A step of one call that leaves the head alone.                          *)
LEMMA CallMoves ==
    ASSUME HeadsInv, NEW p \in Procs, NEW j \in Jobs, job' = [job EXCEPT ![p] = j],
           linked \subseteq linked', linked' \subseteq Receipts,
           synced \subseteq synced', synced' \subseteq linked',
           rooted \subseteq rooted', rooted' \subseteq Heads!Directories,
           auth' \in [Procs -> Receipts], UNCHANGED <<head, lost>>,
           returned' \subseteq Heads!Chain(head.receipt),
           j.at # "idle" => j.receipt # Heads!None,
           j.at = "sync" => j.receipt \in linked',
           j.at \in {"key", "write_key", "commit"} => j.receipt \in synced',
           j.at # "mirror"
    PROVE  HeadsInv'
<1>1. HeadsType'
  BY ChainOf DEF HeadsInv, HeadsType, Jobs
<1>2. ASSUME NEW q \in Procs PROVE JobInv(q)'
  BY DEF HeadsInv, HeadsType, JobInv, Jobs
<1>3. Heads!LineageSurvives' /\ EndsOnce(head.receipt)'
  BY DEF HeadsInv, Heads!LineageSurvives, EndsOnce
<1>4. Past # Heads!None => rooted' = Heads!Directories
  BY DEF HeadsInv
<1> QED
  BY <1>1, <1>2, <1>3, <1>4 DEF HeadsInv, RunOffered, EndsOnce

(* Where a call goes on to, and what it leaves when it returns.            *)
LEMMA JobFields ==
    ASSUME HeadsInv, NEW p \in Procs
    PROVE  /\ Heads!Idle \in Jobs /\ Heads!Idle.at = "idle"
           /\ job[p] \in Jobs /\ job[p].receipt \in Receipts
           /\ \A at \in {"sync", "key", "write_key", "commit", "mirror"} :
                 /\ [job[p] EXCEPT !.at = at] \in Jobs
                 /\ [job[p] EXCEPT !.at = at].at = at
                 /\ [job[p] EXCEPT !.at = at].receipt = job[p].receipt
<1>1. job[p] \in Jobs
  BY DEF HeadsInv, HeadsType, Jobs
<1> QED
  BY <1>1, NoChain DEF Heads!Idle, Jobs

(* The service only adds to what a process holds.                          *)
LEMMA ServiceKeepsInv ==
    ASSUME HeadsInv, NEW p \in Procs,
           \/ Heads!AuthorizeDiscovery(p) \/ Heads!AuthorizeCandidateLock(p)
           \/ \E passed \in BOOLEAN : Heads!AuthorizeWfValidation(p, passed)
           \/ Heads!AuthorizeConfirmationReady(p)
           \/ \E to \in Heads!TerminalStates : Heads!AuthorizeTermination(p, to)
    PROVE  HeadsInv'
<1>1. auth' \in [Procs -> Receipts]
  <2>1. CASE Heads!AuthorizeDiscovery(p)
    <3>1. PICK step \in Offers[1] : auth' = [auth EXCEPT ![p] = <<step>>]
      BY <2>1 DEF Heads!AuthorizeDiscovery
    <3>2. Offers[1] \subseteq Step
      <4>1. 1 \in 1..Len(Offers)
        BY EmptySeq DEF HeadsInv, RunOffered
      <4> QED
        BY <4>1, ElementOfSeq DEF HeadsInv, RunOffered
    <3>3. <<step>> \in Receipts
      BY <3>1, <3>2 DEF Receipts
    <3> QED
      BY <3>1, <3>3 DEF HeadsInv, HeadsType
  <2>2. ASSUME NEW to, Heads!Wrap(p, to) PROVE auth' \in [Procs -> Receipts]
    <3>1. PICK step \in Offers[Len(auth[p]) + 1] : auth' = [auth EXCEPT ![p] = Append(@, step)]
      BY <2>2 DEF Heads!Wrap
    <3>2. auth[p] \in Receipts /\ Len(auth[p]) \in Nat /\ Len(Offers) \in Nat
      BY LenProperties DEF HeadsInv, HeadsType, Receipts, RunOffered
    <3>3. Len(auth[p]) + 1 \in 1..Len(Offers)
      BY <2>2, <3>2 DEF Heads!Wrap, Heads!MaxDepth
    <3>4. Offers[Len(auth[p]) + 1] \subseteq Step
      BY <3>3, ElementOfSeq DEF HeadsInv, RunOffered
    <3>5. Append(auth[p], step) \in Receipts
      BY <3>1, <3>2, <3>4, AppendProperties DEF Receipts
    <3> QED
      BY <3>1, <3>5 DEF HeadsInv, HeadsType
  <2> QED
    BY <2>1, <2>2 DEF Heads!AuthorizeCandidateLock, Heads!AuthorizeWfValidation,
                      Heads!AuthorizeConfirmationReady, Heads!AuthorizeTermination
<1>2. UNCHANGED <<job, linked, synced, rooted, legacy, head, returned, lost>>
  BY DEF Heads!AuthorizeDiscovery, Heads!AuthorizeCandidateLock, Heads!AuthorizeWfValidation,
         Heads!AuthorizeConfirmationReady, Heads!AuthorizeTermination, Heads!Wrap
<1> QED
  BY <1>1, <1>2 DEF HeadsInv, HeadsType, RunOffered, JobInv, Heads!LineageSurvives, EndsOnce

LEMMA PersistKeepsInv ==
    ASSUME HeadsInv, NEW p \in Procs, NEW r \in Heads!Chain(auth[p]), NEW keyed \in BOOLEAN,
           Heads!PersistReceipt(p, r, keyed)
    PROVE  HeadsInv'
<1>1. r \in Receipts /\ r # Heads!None
  BY ChainOf DEF HeadsInv, HeadsType
<1> DEFINE j == [at |-> "sync", receipt |-> r, keyed |-> keyed]
<1>2. j \in Jobs /\ j.at = "sync" /\ j.receipt = r
  BY <1>1 DEF Jobs
<1> HIDE DEF j
<1>3. /\ job' = [job EXCEPT ![p] = j] /\ linked' = linked \cup {r}
      /\ UNCHANGED <<auth, synced, rooted, legacy, head, returned, lost>>
  BY DEF Heads!PersistReceipt, j
<1> QED
  BY <1>1, <1>2, <1>3, CallMoves DEF HeadsInv, HeadsType

LEMMA SyncKeepsInv == ASSUME HeadsInv, NEW p \in Procs, Heads!SyncReceipts(p) PROVE HeadsInv'
<1> USE JobFields
<1>1. /\ job[p].at = "sync" /\ job[p].receipt # Heads!None /\ job[p].receipt \in linked
      /\ UNCHANGED <<auth, linked, rooted, legacy, head, returned, lost>>
  BY DEF Heads!SyncReceipts, HeadsInv, JobInv
<1>2. CASE UNCHANGED synced /\ Heads!Return(p)
  BY <1>1, <1>2, CallMoves DEF Heads!Return, HeadsInv, HeadsType
<1>3. ASSUME NEW at \in {"key", "commit"}, synced' = linked, Heads!Goto(p, at) PROVE HeadsInv'
  <2> DEFINE j == [job[p] EXCEPT !.at = at]
  <2>1. job' = [job EXCEPT ![p] = j]
    BY <1>3 DEF Heads!Goto, HeadsInv, HeadsType
  <2>2. j \in Jobs /\ j.at = at /\ j.receipt = job[p].receipt
    OBVIOUS
  <2> HIDE DEF j
  <2> QED
    BY <1>1, <1>3, <2>1, <2>2, CallMoves DEF HeadsInv, HeadsType
<1> QED
  BY <1>2, <1>3 DEF Heads!SyncReceipts

LEMMA KeyKeepsInv == ASSUME HeadsInv, NEW p \in Procs, Heads!CheckKey(p) \/ Heads!WriteKey(p) PROVE HeadsInv'
<1> USE JobFields
<1>1. /\ job[p].receipt # Heads!None /\ job[p].receipt \in synced
      /\ UNCHANGED <<auth, linked, synced, head, returned, lost>>
  BY DEF Heads!CheckKey, Heads!WriteKey, HeadsInv, JobInv
<1>0. rooted \subseteq rooted' /\ rooted' \subseteq Heads!Directories
  BY DEF Heads!CheckKey, Heads!WriteKey, Heads!SyncRunDir, Heads!Directories, HeadsInv, HeadsType
<1>2. CASE Heads!Return(p)
  BY <1>0, <1>1, <1>2, CallMoves DEF Heads!Return, HeadsInv, HeadsType
<1>3. ASSUME NEW at \in {"write_key", "commit"}, Heads!Goto(p, at) PROVE HeadsInv'
  <2> DEFINE j == [job[p] EXCEPT !.at = at]
  <2>1. job' = [job EXCEPT ![p] = j]
    BY <1>3 DEF Heads!Goto, HeadsInv, HeadsType
  <2>2. j \in Jobs /\ j.at = at /\ j.receipt = job[p].receipt
    OBVIOUS
  <2> HIDE DEF j
  <2> QED
    BY <1>0, <1>1, <1>3, <2>1, <2>2, CallMoves DEF HeadsInv, HeadsType
<1> QED
  BY <1>2, <1>3 DEF Heads!CheckKey, Heads!WriteKey

(***************************************************************************)
(* The head advances from the receipt before the new one: the history      *)
(* grows by one synced receipt, and only behind one that did not end it.   *)
(***************************************************************************)
LEMMA CommitKeepsInv == ASSUME HeadsInv, NEW p \in Procs, Heads!CommitRunHead(p) PROVE HeadsInv'
<1> USE JobFields
<1> DEFINE r == job[p].receipt
<1>1. /\ r \in Receipts /\ r # Heads!None /\ r \in synced
      /\ UNCHANGED <<auth, linked, synced, rooted, legacy, lost>>
  BY DEF Heads!CommitRunHead, HeadsInv, JobInv
<1>2. CASE head.receipt = r /\ returned' = returned \cup {r} /\ Heads!Return(p) /\ UNCHANGED head
  <2>1. r \in Heads!Chain(head.receipt)
    BY <1>1, <1>2, ChainOf
  <2> QED
    BY <1>1, <1>2, <2>1, CallMoves DEF Heads!Return, HeadsInv, HeadsType
<1>3. CASE Heads!Return(p) /\ UNCHANGED <<head, returned>>
  BY <1>1, <1>3, CallMoves DEF Heads!Return, HeadsInv, HeadsType
<1>4. CASE /\ Heads!Advances(r) /\ head' = [receipt |-> r, seq |-> head.seq + 1]
           /\ Heads!Goto(p, "mirror") /\ UNCHANGED returned
  <2>0. HeadsType
    BY DEF HeadsInv
  <2>1. /\ Heads!Upstream(r) = head.receipt /\ ~Heads!Terminal(head.receipt)
        /\ head'.receipt = r /\ head'.seq = head.seq + 1
    BY <1>4 DEF Heads!Advances
  <2>2. /\ Heads!Chain(r) = Heads!Chain(head.receipt) \cup {r} /\ Len(head.receipt) = Len(r) - 1
        /\ Len(r) \in Nat
    BY <1>1, <2>1, ChainGrows, LenProperties DEF Receipts
  <2>3. Heads!LineageSurvives'
    BY <1>1, <2>1, <2>2 DEF HeadsInv, Heads!LineageSurvives
  <2>4. EndsOnce(head.receipt)'
    BY <2>1, <2>2 DEF HeadsInv, EndsOnce
  <2>5. returned' \subseteq Heads!Chain(head'.receipt)
    BY <1>4, <2>1, <2>2 DEF HeadsInv
  <2>6. job' = [job EXCEPT ![p] = [job[p] EXCEPT !.at = "mirror"]]
    BY <1>4, <2>0 DEF Heads!Goto, HeadsType
  <2>7. HeadsType'
    <3>1. head' \in [receipt : Receipts, seq : Int]
      BY <1>1, <1>4, <2>0 DEF HeadsType
    <3> QED
      BY <1>1, <1>4, <2>0, <2>6, <3>1 DEF HeadsType
  <2>8. ASSUME NEW q \in Procs PROVE JobInv(q)'
    <3>1. CASE q = p
      <4>1. job'[q].at = "mirror" /\ job'[q].receipt = r
        BY <2>0, <2>6, <3>1 DEF HeadsType
      <4> QED
        BY <1>1, <2>1, <2>2, <4>1 DEF JobInv
    <3>2. CASE q # p
      <4>1. job'[q] = job[q]
        BY <2>0, <2>6, <3>2 DEF HeadsType
      <4> QED
        BY <1>1, <2>1, <2>2, <4>1 DEF JobInv, HeadsInv
    <3> QED
      BY <3>1, <3>2
  <2>9. Past # Heads!None => rooted' = Heads!Directories
    BY <1>1 DEF HeadsInv
  <2> QED
    BY <2>3, <2>4, <2>5, <2>7, <2>8, <2>9 DEF HeadsInv, RunOffered, EndsOnce
<1> QED
  BY <1>2, <1>3, <1>4 DEF Heads!CommitRunHead

LEMMA MirrorKeepsInv == ASSUME HeadsInv, NEW p \in Procs, Heads!MirrorHead(p) PROVE HeadsInv'
<1>1. /\ job[p].receipt \in Heads!Chain(head.receipt) /\ Heads!Return(p)
      /\ UNCHANGED <<auth, linked, synced, legacy, head, lost>>
      /\ returned' \subseteq returned \cup {job[p].receipt}
  BY DEF Heads!MirrorHead, HeadsInv, JobInv
<1>2. rooted \subseteq rooted' /\ rooted' \subseteq Heads!Directories
  BY DEF Heads!MirrorHead, Heads!SyncRunDir, Heads!Directories, HeadsInv, HeadsType
<1> QED
  BY <1>1, <1>2, JobFields, CallMoves DEF Heads!Return, HeadsInv, HeadsType

LEMMA RestoreKeepsInv ==
    ASSUME HeadsInv, NEW p \in Procs, NEW r \in Heads!Chain(head.receipt), Heads!RestoreAuthorization(p, r)
    PROVE  HeadsInv'
<1>1. r \in Receipts
  BY ChainOf DEF HeadsInv, HeadsType
<1>2. /\ auth' = [auth EXCEPT ![p] = r] /\ returned' = returned \cup {r}
      /\ UNCHANGED <<job, linked, synced, rooted, legacy, head, lost>>
  BY DEF Heads!RestoreAuthorization
<1> QED
  BY <1>1, <1>2 DEF HeadsInv, HeadsType, RunOffered, JobInv, Heads!LineageSurvives, EndsOnce

LEMMA DeathsKeepInv ==
    ASSUME HeadsInv, Heads!HostDies \/ \E p \in Procs : Heads!ProcessDies(p)
    PROVE  HeadsInv'
<1>1. CASE Heads!HostDies
  <2>1. /\ auth' = [p \in Procs |-> Heads!None] /\ job' = [p \in Procs |-> Heads!Idle]
        /\ UNCHANGED <<head, returned>>
    BY <1>1 DEF Heads!HostDies
  <2>2. PICK left \in SUBSET Heads!Directories :
            /\ Heads!Survives(left) /\ rooted' = left
            /\ IF "receipts" \in left
               THEN \E kept \in SUBSET (linked \ synced) : linked' = synced \cup kept
               ELSE linked' = {}
            /\ synced' = linked'
            /\ lost' = (lost \/ (head.receipt # Heads!None /\ "receipts" \notin left))
    BY <1>1 DEF Heads!HostDies
  <2>3. linked' \subseteq linked /\ synced' = linked' /\ lost' \in BOOLEAN
    BY <2>2 DEF HeadsInv, HeadsType
  <2>4. HeadsType'
    BY <2>1, <2>2, <2>3, NoChain DEF HeadsInv, HeadsType, Heads!Idle, Jobs
  <2>5. \A p \in Procs : JobInv(p)'
    BY <2>1 DEF JobInv, Heads!Idle
  <2>6. Past # Heads!None => left = Heads!Directories
    BY <2>2 DEF HeadsInv, Heads!Survives, Heads!Directories
  <2>7. Heads!LineageSurvives'
    <3>1. lost' \/ Heads!Chain(head.receipt) \subseteq synced'
      <4>1. CASE "receipts" \in left
        BY <2>2, <4>1 DEF HeadsInv, Heads!LineageSurvives
      <4>2. CASE "receipts" \notin left
        BY <2>2, <4>2, NoChain
      <4> QED
        BY <4>1, <4>2
    <3>2. lost' => Past = Heads!None
      BY <2>2, <2>6 DEF HeadsInv, Heads!LineageSurvives, Heads!Directories
    <3> QED
      BY <2>1, <3>1, <3>2 DEF HeadsInv, Heads!LineageSurvives
  <2> QED
    BY <2>1, <2>2, <2>4, <2>5, <2>6, <2>7 DEF HeadsInv, RunOffered, EndsOnce
<1>2. ASSUME NEW p \in Procs, Heads!ProcessDies(p) PROVE HeadsInv'
  <2>1. auth' \in [Procs -> Receipts]
    BY <1>2, NoChain DEF Heads!ProcessDies, HeadsInv, HeadsType
  <2> QED
    BY <1>2, <2>1, JobFields, CallMoves DEF Heads!ProcessDies, HeadsInv, HeadsType
<1> QED
  BY <1>1, <1>2

LEMMA HeadsStep == HeadsInv /\ [Heads!Next]_Heads!vars => HeadsInv'
<1> SUFFICES ASSUME HeadsInv, [Heads!Next]_Heads!vars PROVE HeadsInv'
  OBVIOUS
<1>1. CASE UNCHANGED Heads!vars
  BY <1>1 DEF Heads!vars, HeadsInv, HeadsType, RunOffered, JobInv, Heads!LineageSurvives, EndsOnce
<1>2. CASE Heads!Next
  BY <1>2, ServiceKeepsInv, PersistKeepsInv, SyncKeepsInv, KeyKeepsInv, CommitKeepsInv, MirrorKeepsInv,
     RestoreKeepsInv, DeathsKeepInv DEF Heads!Next
<1> QED
  BY <1>1, <1>2

LEMMA HeadsInductive == ASSUME RunOffered PROVE Heads!Spec => []HeadsInv
<1>1. Heads!Init => HeadsInv
  BY HeadsInit
<1> QED
  BY <1>1, HeadsStep, PTL DEF Heads!Spec

(* Every receipt from the head back to the discovery authorization is      *)
(* synced, and their number is the head's sequence.  A committed run can   *)
(* therefore be restored after the loss of the host, unless receipts/      *)
(* itself is lost with it; and a run whose directories had their entries   *)
(* on the disk when it was taken up never loses them.                      *)
(* (persist_authorization)                                                 *)
THEOREM LineageIsDurable == ASSUME RunOffered PROVE Heads!Spec => []Heads!LineageSurvives
<1>1. HeadsInv => Heads!LineageSurvives
  BY DEF HeadsInv
<1> QED
  BY <1>1, HeadsInductive, PTL

(* What a call returned as persisted or restored stays in the run's one    *)
(* history, and a termination stays its end.  (_commit_run_head)           *)
THEOREM AcknowledgedReceiptsStay == ASSUME RunOffered PROVE Heads!Spec => []Heads!AcknowledgedStays
<1>1. HeadsInv => Heads!AcknowledgedStays
  BY DEF HeadsInv, EndsOnce, Heads!AcknowledgedStays
<1> QED
  BY <1>1, HeadsInductive, PTL

------------------------------------------------------------------------------

(***************************************************************************)
(* The status of the microstructure store, for days of any length that is  *)
(* a whole number of every interval, any rows, and calls at any time.      *)
(*                                                                         *)
(* The algorithms come first.  Sorting lists a finite set of intervals     *)
(* (SortedLists); merging them in that order keeps the instants they hold  *)
(* and leaves intervals that do not touch (MergeHolds); so a bucket may be *)
(* looked up by bisection from a running hint (HintsSkipNothing), and the  *)
(* overlaps that are added up count its instants (CoveredIsCounted), as    *)
(* the scan of _covered_ms counts those of a window (CoveredMsCounts).     *)
(* What a recursion computes is read off a function that satisfies its     *)
(* equation (Iterates), by induction over the numbers (Counting).          *)
(*                                                                         *)
(* A day's loop then tallies the buckets of the day (BucketsTally), and    *)
(* the days partition the buckets, as they do the gaps (TotalOverDays).    *)
(* Of the buckets those of the days with a partition count, and no gap is  *)
(* of another day (Filed).                                                 *)
(* For a sealed day the tally may come from the cache: a summary tells the *)
(* buckets of its day for the start it was made with (SummariesInv), stays *)
(* so because a step only adds what is later than the sealed days          *)
(* (KeepsSealed), and is used for another start only when both come before *)
(* the day, where they cut off none of its buckets (SealedExact).          *)
(***************************************************************************)
CONSTANTS Day, Horizon, Intervals, MaxRows
VARIABLES now, segs, open, gaps, files, sealed, summary

Audit == INSTANCE CoverageAudit

(* The instance counts as the library does. *)
LEMMA SameCardinality == ASSUME NEW S PROVE Audit!Cardinality(S) = Cardinality(S)
  BY DEF Audit!Cardinality, Cardinality

(* Every set of natural numbers has a least one. *)
LEMMA LeastNatural ==
    ASSUME NEW T, T \subseteq Nat, T # {}
    PROVE  \E x \in T : \A y \in T : x <= y
<1>1. IsWellFoundedOn(OpToRel(<, Nat), Nat)
  BY NatLessThanWellFounded
<1>2. PICK x \in T : \A y \in T : ~(<<y, x>> \in OpToRel(<, Nat))
  BY <1>1, WFMin
<1>3. \A y \in T : ~(y < x)
  BY <1>2 DEF OpToRel
<1> QED BY <1>3

(* What holds of 0, and of the next number when it holds of one, holds of  *)
(* all numbers up to n.                                                    *)
LEMMA Counting ==
    ASSUME NEW T, NEW n \in Nat, 0 \in T,
           \A k \in 1 .. n : k - 1 \in T => k \in T
    PROVE  \A k \in 0 .. n : k \in T
<1> DEFINE U == {k \in 0 .. n : k \notin T}
<1>1. SUFFICES ASSUME U # {} PROVE FALSE
  OBVIOUS
<1>2. PICK k \in U : \A j \in U : k <= j
  <2>1. U \subseteq Nat
    OBVIOUS
  <2> HIDE DEF U
  <2> QED BY <1>1, <2>1, LeastNatural
<1>3. k \in 1 .. n /\ k - 1 \notin U /\ k - 1 \in 0 .. n
  BY <1>2
<1> QED BY <1>2, <1>3

(* A recursion over 0 .. n that stays in D has a solution.                 *)
Iterated(h, n, base, F) == \A k \in 0 .. n : h[k] = IF k = 0 THEN base ELSE F[<<h[k - 1], k>>]

(* What is started at a and stepped by F, n times, exists. *)
LEMMA Iterates ==
    ASSUME NEW D, NEW n \in Nat, NEW base \in D, NEW F \in [D \X Nat -> D]
    PROVE  \E h \in [0 .. n -> D] : Iterated(h, n, base, F)
<1> DEFINE T == {m \in Nat : \E h \in [0 .. m -> D] :
                    \A k \in 0 .. m : h[k] = IF k = 0 THEN base ELSE F[<<h[k - 1], k>>]}
<1>1. 0 \in T
  <2> DEFINE h == [k \in 0 .. 0 |-> base]
  <2>1. h \in [0 .. 0 -> D] /\ \A k \in 0 .. 0 : h[k] = base /\ k = 0
    OBVIOUS
  <2> QED BY <2>1
<1>2. ASSUME NEW m \in 1 .. n, m - 1 \in T PROVE m \in T
  <2>1. PICK g \in [0 .. (m - 1) -> D] : \A k \in 0 .. (m - 1) :
            g[k] = IF k = 0 THEN base ELSE F[<<g[k - 1], k>>]
    BY <1>2
  <2>2. m - 1 \in 0 .. (m - 1) /\ m \in Nat /\ <<g[m - 1], m>> \in D \X Nat
    BY <2>1
  <2>3. F[<<g[m - 1], m>>] \in D
    BY <2>2
  <2> DEFINE h == [k \in 0 .. m |-> IF k = m THEN F[<<g[m - 1], m>>] ELSE g[k]]
  <2>4. ASSUME NEW k \in 0 .. m PROVE h[k] \in D
    <3>1. k # m => k \in 0 .. (m - 1)
      OBVIOUS
    <3> QED BY <2>1, <2>3, <3>1
  <2>5. ASSUME NEW k \in 0 .. m PROVE h[k] = IF k = 0 THEN base ELSE F[<<h[k - 1], k>>]
    <3>1. CASE k = m
      <4>1. h[m] = F[<<g[m - 1], m>>] /\ h[m - 1] = g[m - 1] /\ m # 0
        OBVIOUS
      <4> HIDE DEF h
      <4> QED BY <3>1, <4>1
    <3>2. CASE k # m
      <4>1. k \in 0 .. (m - 1) /\ h[k] = g[k]
        BY <3>2
      <4>2. k # 0 => h[k - 1] = g[k - 1]
        BY <4>1
      <4>3. g[k] = IF k = 0 THEN base ELSE F[<<g[k - 1], k>>]
        BY <2>1, <4>1
      <4> HIDE DEF h
      <4> QED BY <4>1, <4>2, <4>3
    <3> QED BY <3>1, <3>2
  <2>6. h \in [0 .. m -> D]
    BY <2>4
  <2> HIDE DEF h
  <2> QED BY <2>2, <2>5, <2>6
<1> HIDE DEF T
<1>3. n \in T
  BY <1>1, <1>2, Counting
<1> QED BY <1>3 DEF T, Iterated

(* A sum grows by its next summand. *)
LEMMA AddedSteps ==
    ASSUME NEW n \in Nat, NEW v \in [1 .. n -> Nat]
    PROVE  \E s : s[0] = 0 /\ (\A k \in 1 .. n : s[k] = s[k - 1] + v[k]) /\ Audit!Added(v, n) = s[n]
<1> DEFINE F == [x \in Nat \X Nat |-> IF x[2] \in 1 .. n THEN x[1] + v[x[2]] ELSE x[1]]
           Steps(s) == s = [k \in 0 .. n |-> IF k = 0 THEN 0 ELSE s[k - 1] + v[k]]
<1>1. F \in [Nat \X Nat -> Nat]
  OBVIOUS
<1>2. PICK h \in [0 .. n -> Nat] : Iterated(h, n, 0, F)
  <2>1. 0 \in Nat
    OBVIOUS
  <2> HIDE DEF F
  <2> QED BY <1>1, <2>1, Iterates
<1>3. Steps(h)
  <2>1. ASSUME NEW k \in 0 .. n PROVE h[k] = IF k = 0 THEN 0 ELSE h[k - 1] + v[k]
    <3>1. CASE k = 0
      BY <1>2, <3>1 DEF Iterated
    <3>2. CASE k # 0
      <4>1. k \in 1 .. n /\ <<h[k - 1], k>> \in Nat \X Nat
        BY <3>2
      <4>2. F[<<h[k - 1], k>>] = h[k - 1] + v[k]
        BY <4>1
      <4> HIDE DEF F
      <4> QED BY <1>2, <3>2, <4>2 DEF Iterated
    <3> QED BY <3>1, <3>2
  <2> QED BY <2>1
<1> DEFINE s == CHOOSE g : Steps(g)
<1>4. Steps(s)
  <2> HIDE DEF Steps
  <2> QED BY <1>3
<1>5. Audit!Added(v, n) = s[n]
  BY DEF Audit!Added
<1> HIDE DEF s
<1>6. \A k \in 0 .. n : s[k] = IF k = 0 THEN 0 ELSE s[k - 1] + v[k]
  BY <1>4
<1>7. s[0] = 0 /\ \A k \in 1 .. n : s[k] = s[k - 1] + v[k]
  BY <1>6
<1> QED BY <1>5, <1>7

(* Sets without a common element add up. *)
LEMMA DisjointUnion ==
    ASSUME NEW R, IsFiniteSet(R), NEW S, IsFiniteSet(S), R \cap S = {}
    PROVE  IsFiniteSet(R \cup S) /\ Cardinality(R \cup S) = Cardinality(R) + Cardinality(S)
<1>1. Cardinality(R \cap S) = 0
  BY FS_EmptySet
<1>2. Cardinality(R) \in Nat /\ Cardinality(S) \in Nat
  BY FS_CardinalityType
<1>3. /\ IsFiniteSet(R \cup S)
      /\ Cardinality(R \cup S) = Cardinality(R) + Cardinality(S) - Cardinality(R \cap S)
  BY FS_Union, Zenon
<1> QED BY <1>1, <1>2, <1>3

(* The sizes of n finite sets; a set that they partition.                  *)
SizesOf(v, A, n) ==
    /\ v \in [1 .. n -> Nat]
    /\ \A k \in 1 .. n : IsFiniteSet(A[k]) /\ v[k] = Cardinality(A[k])
Partitioned(U, A, n) ==
    /\ \A j, k \in 1 .. n : j < k => A[j] \cap A[k] = {}
    /\ \A x : x \in U <=> \E k \in 1 .. n : x \in A[k]

(* Adding up the sizes of disjoint sets counts their union.                *)
LEMMA AddedCounts ==
    ASSUME NEW n \in Nat, NEW v, NEW A, NEW U, SizesOf(v, A, n), Partitioned(U, A, n)
    PROVE  IsFiniteSet(U) /\ Audit!Added(v, n) = Cardinality(U)
<1> USE DEF SizesOf, Partitioned
<1>1. PICK s : s[0] = 0 /\ (\A k \in 1 .. n : s[k] = s[k - 1] + v[k]) /\ Audit!Added(v, n) = s[n]
  BY AddedSteps
<1> DEFINE B(k) == UNION {A[j] : j \in 1 .. k}
           T == {k \in 0 .. n : IsFiniteSet(B(k)) /\ s[k] = Cardinality(B(k))}
<1>2. 0 \in T
  <2>1. B(0) = {} /\ 0 \in 0 .. n
    OBVIOUS
  <2> HIDE DEF B
  <2> QED BY <1>1, <2>1, FS_EmptySet
<1>3. ASSUME NEW k \in 1 .. n, k - 1 \in T PROVE k \in T
  <2>1. B(k) = B(k - 1) \cup A[k]
    <3>1. \A j : j \in 1 .. k <=> j \in 1 .. (k - 1) \/ j = k
      OBVIOUS
    <3> QED BY <3>1
  <2>2. B(k - 1) \cap A[k] = {}
    <3>1. \A j \in 1 .. (k - 1) : j \in 1 .. n /\ j < k
      OBVIOUS
    <3> QED BY <3>1
  <2>3. /\ IsFiniteSet(B(k - 1)) /\ IsFiniteSet(A[k])
        /\ s[k] = Cardinality(B(k - 1)) + Cardinality(A[k])
    BY <1>1, <1>3
  <2> HIDE DEF B
  <2>4. /\ IsFiniteSet(B(k))
        /\ Cardinality(B(k)) = Cardinality(B(k - 1)) + Cardinality(A[k])
    <3> DEFINE X == B(k - 1)
               Y == A[k]
    <3>1. IsFiniteSet(X) /\ IsFiniteSet(Y) /\ X \cap Y = {} /\ B(k) = X \cup Y
      BY <2>1, <2>2, <2>3
    <3> HIDE DEF X, Y
    <3>2. IsFiniteSet(X \cup Y) /\ Cardinality(X \cup Y) = Cardinality(X) + Cardinality(Y)
      BY <3>1, DisjointUnion
    <3>3. IsFiniteSet(B(k)) /\ Cardinality(B(k)) = Cardinality(X) + Cardinality(Y)
      BY <3>1, <3>2
    <3> QED BY <3>3 DEF X, Y
  <2> QED BY <2>3, <2>4
<1>4. n \in T
  <2> HIDE DEF T
  <2>1. \A k \in 0 .. n : k \in T
    BY <1>2, <1>3, Counting
  <2> QED BY <2>1
<1>5. B(n) = U
  OBVIOUS
<1> QED BY <1>1, <1>4, <1>5

(* The last number of T below n. *)
LEMMA LastBelow ==
    ASSUME NEW T, T \subseteq Nat, NEW n \in Nat, \E x \in T : x < n
    PROVE  \E x \in T : x < n /\ \A y \in T : y < n => y <= x
<1> DEFINE D == {k \in Nat : \E x \in T : x < n /\ k = n - x}
<1>1. D # {} /\ D \subseteq Nat
  <2>1. PICK x \in T : x < n
    OBVIOUS
  <2>2. n - x \in Nat
    BY <2>1
  <2> QED BY <2>1, <2>2
<1>2. PICK k \in D : \A j \in D : k <= j
  BY <1>1, LeastNatural
<1>3. PICK x \in T : x < n /\ k = n - x
  BY <1>2
<1>4. ASSUME NEW y \in T, y < n PROVE y <= x
  <2>1. n - y \in D
    BY <1>4
  <2>2. k <= n - y
    BY <1>2, <2>1
  <2> QED BY <1>3, <2>2
<1> QED BY <1>3, <1>4

(* Max and Min, of natural numbers up to n. *)
LEMMA ExtremesOfBounded ==
    ASSUME NEW T, T \subseteq Nat, T # {}, NEW n \in Nat, \A x \in T : x <= n
    PROVE  /\ Audit!Max(T) \in T /\ \A y \in T : y <= Audit!Max(T)
           /\ Audit!Min(T) \in T /\ \A y \in T : Audit!Min(T) <= y
<1>1. \A x \in T : x < n + 1
  OBVIOUS
<1>2. n + 1 \in Nat
  OBVIOUS
<1>3. \E x \in T : x < n + 1
  BY <1>1
<1>4. PICK x \in T : \A y \in T : y < n + 1 => y <= x
  BY <1>2, <1>3, LastBelow
<1>5. \E z \in T : \A y \in T : z >= y
  BY <1>1, <1>4
<1>6. Audit!Max(T) \in T /\ \A y \in T : Audit!Max(T) >= y
  BY <1>5 DEF Audit!Max
<1>7. Audit!Min(T) \in T /\ \A y \in T : Audit!Min(T) <= y
  BY LeastNatural DEF Audit!Min
<1> QED BY <1>6, <1>7

(* Pairs of times, and the first of some in the order of sorted(). *)
Pairs == Nat \X Nat

(* An interval is its two ends. *)
LEMMA PairFields == ASSUME NEW i \in Pairs PROVE i[1] \in Nat /\ i[2] \in Nat /\ i = <<i[1], i[2]>>
  BY DEF Pairs

(* A finite set of intervals has a first one. *)
LEMMA FirstOf ==
    ASSUME NEW S, S \subseteq Pairs, S # {}
    PROVE  \E x \in S : \A y \in S : Audit!Before(x, y)
<1> DEFINE A == {i[1] : i \in S}
<1>1. A \subseteq Nat /\ A # {}
  BY PairFields
<1> HIDE DEF A
<1>2. PICK a \in A : \A c \in A : a <= c
  BY <1>1, LeastNatural
<1> DEFINE B == {i[2] : i \in {j \in S : j[1] = a}}
<1>3. B \subseteq Nat /\ B # {}
  BY <1>2, PairFields DEF A
<1> HIDE DEF B
<1>4. PICK b \in B : \A c \in B : b <= c
  BY <1>3, LeastNatural
<1>5. PICK x \in S : x[1] = a /\ x[2] = b
  BY <1>4 DEF B
<1>6. ASSUME NEW y \in S PROVE Audit!Before(x, y)
  <2>1. a <= y[1] /\ (y[1] = a => b <= y[2])
    BY <1>2, <1>4 DEF A, B
  <2> QED BY <1>1, <1>3, <1>5, <2>1, PairFields DEF Audit!Before
<1> QED BY <1>6

(* q lists S in that order. *)
Lists(q, S) ==
    /\ q \in [1 .. Cardinality(S) -> S]
    /\ \A i \in S : \E k \in 1 .. Cardinality(S) : q[k] = i
    /\ \A j, k \in 1 .. Cardinality(S) : j < k => Audit!Before(q[j], q[k])

(* Sorting lists the intervals in order. *)
LEMMA SortedLists ==
    ASSUME NEW S, S \subseteq Pairs, IsFiniteSet(S)
    PROVE  Lists(Audit!Sorted(S), S)
<1> DEFINE T == {n \in Nat : \A R \in SUBSET Pairs :
                    IsFiniteSet(R) /\ Cardinality(R) = n => \E q : Lists(q, R)}
<1>1. 0 \in T
  <2> SUFFICES ASSUME NEW R \in SUBSET Pairs, IsFiniteSet(R), Cardinality(R) = 0
               PROVE  \E q : Lists(q, R)
    OBVIOUS
  <2>1. R = {}
    BY FS_EmptySet
  <2> DEFINE q == [k \in 1 .. 0 |-> k]
  <2>2. q \in [1 .. 0 -> R]
    OBVIOUS
  <2>3. Lists(q, R)
    BY <2>1, <2>2 DEF Lists
  <2> QED BY <2>3
<1>2. ASSUME NEW n \in Nat \ {0}, n - 1 \in T PROVE n \in T
  <2> SUFFICES ASSUME NEW R \in SUBSET Pairs, IsFiniteSet(R), Cardinality(R) = n
               PROVE  \E q : Lists(q, R)
    OBVIOUS
  <2>1. R # {}
    BY FS_EmptySet
  <2>2. PICK x \in R : \A y \in R : Audit!Before(x, y)
    BY <2>1, FirstOf
  <2>3. IsFiniteSet(R \ {x}) /\ Cardinality(R \ {x}) = n - 1
    BY FS_RemoveElement
  <2>4. PICK q : Lists(q, R \ {x})
    BY <1>2, <2>3
  <2> DEFINE h == [k \in 1 .. n |-> IF k = 1 THEN x ELSE q[k - 1]]
  <2>5. q \in [1 .. (n - 1) -> R \ {x}]
    BY <2>3, <2>4 DEF Lists
  <2>6. ASSUME NEW k \in 1 .. n, k # 1 PROVE k - 1 \in 1 .. (n - 1) /\ h[k] = q[k - 1]
    BY <2>6
  <2>7. ASSUME NEW k \in 1 .. n PROVE h[k] \in R
    BY <2>5, <2>6
  <2>8. ASSUME NEW i \in R PROVE \E k \in 1 .. n : h[k] = i
    <3>1. CASE i = x
      BY <3>1
    <3>2. CASE i # x
      <4>1. PICK k \in 1 .. (n - 1) : q[k] = i
        BY <2>3, <2>4, <3>2 DEF Lists
      <4>2. k + 1 \in 1 .. n /\ h[k + 1] = q[k]
        OBVIOUS
      <4> QED BY <4>1, <4>2
    <3> QED BY <3>1, <3>2
  <2>9. ASSUME NEW j \in 1 .. n, NEW k \in 1 .. n, j < k PROVE Audit!Before(h[j], h[k])
    <3>1. k # 1 /\ k - 1 \in 1 .. (n - 1) /\ h[k] = q[k - 1]
      BY <2>9
    <3>2. CASE j = 1
      <4>1. h[j] = x /\ h[k] \in R
        BY <2>7, <3>2
      <4> QED BY <2>2, <4>1
    <3>3. CASE j # 1
      <4>1. j - 1 \in 1 .. (n - 1) /\ h[j] = q[j - 1] /\ j - 1 < k - 1
        BY <2>9, <3>3
      <4>2. Audit!Before(q[j - 1], q[k - 1])
        BY <2>3, <2>4, <3>1, <4>1 DEF Lists
      <4> HIDE DEF h
      <4> QED BY <3>1, <4>1, <4>2
    <3> QED BY <3>2, <3>3
  <2>10. h \in [1 .. n -> R]
    BY <2>7
  <2> HIDE DEF h
  <2>11. Lists(h, R)
    BY <2>8, <2>9, <2>10 DEF Lists
  <2> QED BY <2>11
<1>3. Cardinality(S) \in Nat
  BY FS_CardinalityType
<1> HIDE DEF T
<1>4. Cardinality(S) \in T
  <2>1. \A k \in 1 .. Cardinality(S) : k - 1 \in T => k \in T
    BY <1>2, <1>3
  <2> QED BY <1>1, <1>3, <2>1, Counting
<1>5. \E q : Lists(q, S)
  BY <1>4 DEF T
<1> QED BY <1>5, SameCardinality DEF Audit!Sorted, Lists

(* What _merge_intervals gives: intervals in order that do not touch.      *)
Apart(merged) ==
    /\ merged \in Seq(Pairs)
    /\ \A j \in 1 .. Len(merged) : merged[j][1] < merged[j][2]
    /\ \A j, k \in 1 .. Len(merged) : j < k => merged[j][2] < merged[k][1]

(* An instant is held by an interval, by one of a set, by one of a list.   *)
In(i, t) == i[1] <= t /\ t < i[2]
HeldBy(S, t) == \E i \in S : In(i, t)
HeldIn(merged, t) == \E j \in 1 .. Len(merged) : In(merged[j], t)

(* Joining one more interval keeps what is merged apart, and holds its     *)
(* instants too.                                                           *)
LEMMA JoinKeeps ==
    ASSUME NEW m, Apart(m), NEW i \in Pairs, m # <<>> => m[Len(m)][1] <= i[1],
           NEW r, r = Audit!Joined(m, i)
    PROVE  /\ Apart(r)
           /\ r # <<>> => r[Len(r)][1] <= i[1]
           /\ \A t \in Nat : HeldIn(r, t) <=> HeldIn(m, t) \/ In(i, t)
<1>1. /\ m \in Seq(Pairs) /\ Len(m) \in Nat
      /\ \A j \in 1 .. Len(m) : m[j] \in Pairs /\ m[j][1] \in Nat /\ m[j][2] \in Nat
  BY PairFields DEF Apart
<1>2. i[1] \in Nat /\ i[2] \in Nat
  BY PairFields
<1>3. CASE i[2] <= i[1]
  <2>1. r = m
    BY <1>3 DEF Audit!Joined
  <2>2. \A t \in Nat : ~In(i, t)
    BY <1>2, <1>3 DEF In
  <2> QED BY <2>1, <2>2
<1>4. CASE ~(i[2] <= i[1]) /\ m # <<>> /\ i[1] <= m[Len(m)][2]
  <2> DEFINE n == Len(m)
             last == <<m[n][1], Audit!Larger(m[n][2], i[2])>>
  <2>1. n \in Nat /\ n # 0 /\ n \in 1 .. n
    BY <1>1, <1>4
  <2>2. /\ last[1] = m[n][1]
        /\ last[2] = IF m[n][2] > i[2] THEN m[n][2] ELSE i[2]
        /\ last \in Pairs
    BY <1>1, <1>2, <2>1 DEF Audit!Larger, Pairs
  <2>3. r = [m EXCEPT ![n] = last]
    BY <1>4 DEF Audit!Joined
  <2> HIDE DEF last
  <2>4. r \in Seq(Pairs) /\ Len(r) = n /\ r[n] = last /\ \A j \in 1 .. n : j # n => r[j] = m[j]
    BY <1>1, <2>1, <2>2, <2>3
  <2>5. \A j \in 1 .. n : /\ r[j][1] = m[j][1] /\ m[j][2] <= r[j][2] /\ r[j][2] \in Nat
                          /\ j # n => r[j][2] = m[j][2]
    BY <1>1, <1>2, <2>1, <2>2, <2>4
  <2> HIDE DEF n
  <2>6. \A j \in 1 .. n : m[j][1] < m[j][2]
    BY DEF Apart, n
  <2>7. \A j, k \in 1 .. n : j < k => m[j][2] < m[k][1]
    BY DEF Apart, n
  <2>8. \A j \in 1 .. n : m[j][1] \in Nat /\ m[j][2] \in Nat
    BY <1>1 DEF n
  <2>9. \A j \in 1 .. n : r[j][1] < r[j][2]
    BY <2>5, <2>6, <2>8
  <2>10. \A j, k \in 1 .. n : j < k => r[j][2] < r[k][1]
    <3> SUFFICES ASSUME NEW j \in 1 .. n, NEW k \in 1 .. n, j < k PROVE r[j][2] < r[k][1]
      OBVIOUS
    <3>1. j # n
      BY <2>1
    <3> QED BY <2>5, <2>7, <3>1
  <2>11. Apart(r)
    BY <2>4, <2>9, <2>10 DEF Apart
  <2>12. r[Len(r)][1] <= i[1]
    BY <1>4, <2>1, <2>4, <2>5 DEF n
  <2>13. ASSUME NEW t \in Nat, HeldIn(m, t) \/ In(i, t) PROVE HeldIn(r, t)
    <3>1. CASE HeldIn(m, t)
      <4>1. PICK j \in 1 .. n : m[j][1] <= t /\ t < m[j][2]
        BY <3>1 DEF HeldIn, In, n
      <4>2. r[j][1] <= t /\ t < r[j][2]
        BY <2>5, <2>8, <4>1
      <4> QED BY <2>4, <4>2 DEF HeldIn, In
    <3>2. CASE In(i, t)
      <4>1. r[n][1] <= t /\ t < r[n][2]
        BY <1>2, <1>4, <2>1, <2>2, <2>4, <2>8, <3>2 DEF In, n
      <4> QED BY <2>1, <2>4, <4>1 DEF HeldIn, In
    <3> QED BY <2>13, <3>1, <3>2
  <2>14. ASSUME NEW t \in Nat, HeldIn(r, t) PROVE HeldIn(m, t) \/ In(i, t)
    <3>1. PICK j \in 1 .. n : r[j][1] <= t /\ t < r[j][2]
      BY <2>4, <2>14 DEF HeldIn, In
    <3>2. CASE j # n
      <4>1. m[j][1] <= t /\ t < m[j][2]
        BY <2>5, <3>1, <3>2
      <4> QED BY <4>1 DEF HeldIn, In, n
    <3>3. CASE j = n
      <4>1. m[n][1] <= t /\ (t < m[n][2] \/ (i[1] <= t /\ t < i[2]))
        BY <1>2, <1>4, <2>1, <2>2, <2>4, <2>8, <3>1, <3>3 DEF n
      <4> QED BY <2>1, <4>1 DEF HeldIn, In, n
    <3> QED BY <3>2, <3>3
  <2> QED BY <2>11, <2>12, <2>13, <2>14
<1>5. CASE ~(i[2] <= i[1]) /\ ~(m # <<>> /\ i[1] <= m[Len(m)][2])
  <2> DEFINE n == Len(m)
  <2>1. r = Append(m, i)
    BY <1>5 DEF Audit!Joined
  <2>2. /\ r \in Seq(Pairs) /\ Len(r) = n + 1 /\ r[n + 1] = i /\ n \in Nat
        /\ \A j \in 1 .. n : r[j] = m[j]
    BY <1>1, <2>1
  <2>3. n # 0 => m[n][2] < i[1]
    BY <1>1, <1>2, <1>5
  <2>4. \A j \in 1 .. n : m[j][2] < i[1]
    <3> SUFFICES ASSUME NEW j \in 1 .. n PROVE m[j][2] < i[1]
      OBVIOUS
    <3>1. n \in 1 .. n /\ n # 0
      BY <1>1
    <3>2. j < n => m[j][2] < m[n][1] /\ m[n][1] < m[n][2]
      BY <3>1 DEF Apart
    <3> HIDE DEF n
    <3> QED BY <1>1, <1>2, <2>3, <3>1, <3>2 DEF n
  <2>5. \A j \in 1 .. (n + 1) : r[j][1] < r[j][2]
    <3> SUFFICES ASSUME NEW j \in 1 .. (n + 1) PROVE r[j][1] < r[j][2]
      OBVIOUS
    <3>1. CASE j = n + 1
      BY <1>2, <1>5, <2>2, <3>1
    <3>2. CASE j # n + 1
      <4>1. j \in 1 .. n
        BY <1>1, <3>2
      <4> QED BY <2>2, <4>1 DEF Apart
    <3> QED BY <3>1, <3>2
  <2>6. \A j, k \in 1 .. (n + 1) : j < k => r[j][2] < r[k][1]
    <3> SUFFICES ASSUME NEW j \in 1 .. (n + 1), NEW k \in 1 .. (n + 1), j < k PROVE r[j][2] < r[k][1]
      OBVIOUS
    <3>1. j \in 1 .. n
      BY <1>1
    <3>2. CASE k = n + 1
      BY <2>2, <2>4, <3>1, <3>2
    <3>3. CASE k # n + 1
      <4>1. n \in Nat
        BY <2>2
      <4>2. k \in 1 .. n
        <5> HIDE DEF n
        <5> QED BY <3>3, <4>1
      <4> QED BY <2>2, <3>1, <4>2 DEF Apart
    <3> QED BY <3>2, <3>3
  <2>7. Apart(r)
    BY <2>2, <2>5, <2>6 DEF Apart
  <2>8. r[Len(r)][1] <= i[1]
    BY <1>2, <2>2
  <2>9. ASSUME NEW t \in Nat PROVE HeldIn(r, t) <=> HeldIn(m, t) \/ In(i, t)
    <3>1. HeldIn(m, t) => HeldIn(r, t)
      <4>1. \A j \in 1 .. n : j \in 1 .. (n + 1) /\ r[j] = m[j]
        BY <2>2
      <4> QED BY <2>2, <4>1 DEF HeldIn
    <3>2. In(i, t) => HeldIn(r, t)
      <4>1. n + 1 \in 1 .. (n + 1)
        BY <2>2
      <4> QED BY <2>2, <4>1 DEF HeldIn
    <3>3. HeldIn(r, t) => HeldIn(m, t) \/ In(i, t)
      <4>1. \A j \in 1 .. (n + 1) : j \in 1 .. n \/ j = n + 1
        BY <2>2
      <4> QED BY <2>2, <4>1 DEF HeldIn
    <3> QED BY <3>1, <3>2, <3>3
  <2> QED BY <2>7, <2>8, <2>9
<1> QED BY <1>3, <1>4, <1>5

(* _merge_intervals, interval by interval.                                 *)
MergeSteps(m, S) ==
    m = [k \in 0 .. Audit!Cardinality(S) |->
            IF k = 0 THEN <<>> ELSE Audit!Joined(m[k - 1], Audit!Sorted(S)[k])]

(* Merging, interval by interval. *)
LEMMA MergeSolved ==
    ASSUME NEW S, S \subseteq Pairs, IsFiniteSet(S)
    PROVE  \E m : /\ m[0] = <<>>
                  /\ \A k \in 1 .. Cardinality(S) : m[k] = Audit!Joined(m[k - 1], Audit!Sorted(S)[k])
                  /\ Audit!MergeIntervals(S) = m[Cardinality(S)]
<1> DEFINE n == Cardinality(S)
           q == Audit!Sorted(S)
<1>1. n \in Nat /\ \A k \in 1 .. n : q[k] \in Pairs
  BY SortedLists, FS_CardinalityType DEF Lists
<1>2. Audit!Cardinality(S) = n
  BY SameCardinality
<1>3. \A m \in Seq(Pairs), i \in Pairs : Audit!Joined(m, i) \in Seq(Pairs)
  <2> SUFFICES ASSUME NEW m \in Seq(Pairs), NEW i \in Pairs PROVE Audit!Joined(m, i) \in Seq(Pairs)
    OBVIOUS
  <2>1. CASE m # <<>>
    <3>1. Len(m) \in 1 .. Len(m) /\ m[Len(m)] \in Pairs
      BY <2>1
    <3>2. m[Len(m)][1] \in Nat /\ m[Len(m)][2] \in Nat /\ i[1] \in Nat /\ i[2] \in Nat
      BY <3>1, PairFields
    <3>3. <<m[Len(m)][1], Audit!Larger(m[Len(m)][2], i[2])>> \in Pairs
      BY <3>2 DEF Pairs, Audit!Larger
    <3>4. ASSUME NEW p \in Pairs PROVE [m EXCEPT ![Len(m)] = p] \in Seq(Pairs)
      <4>1. PICK g : g = [m EXCEPT ![Len(m)] = p]
        OBVIOUS
      <4>2. g \in Seq(Pairs)
        BY <3>1, <4>1
      <4> QED BY <4>1, <4>2
    <3>5. Append(m, i) \in Seq(Pairs)
      OBVIOUS
    <3> QED BY <3>3, <3>4, <3>5 DEF Audit!Joined
  <2>2. CASE m = <<>>
    BY <2>2 DEF Audit!Joined
  <2> QED BY <2>1, <2>2
<1> DEFINE F == [x \in Seq(Pairs) \X Nat |->
                    IF x[2] \in 1 .. n THEN Audit!Joined(x[1], q[x[2]]) ELSE x[1]]
<1>4. F \in [Seq(Pairs) \X Nat -> Seq(Pairs)]
  BY <1>1, <1>3
<1>5. <<>> \in Seq(Pairs)
  OBVIOUS
<1>6. PICK h \in [0 .. n -> Seq(Pairs)] : Iterated(h, n, <<>>, F)
  <2> HIDE DEF F, n
  <2> QED BY <1>1, <1>4, <1>5, Iterates
<1>7. MergeSteps(h, S)
  <2>1. ASSUME NEW k \in 0 .. n
        PROVE  h[k] = IF k = 0 THEN <<>> ELSE Audit!Joined(h[k - 1], q[k])
    <3>1. CASE k = 0
      BY <1>6, <3>1 DEF Iterated
    <3>2. CASE k # 0
      <4>1. k \in 1 .. n /\ k \in Nat /\ k - 1 \in 0 .. n
        BY <1>1, <3>2
      <4>2. h[k - 1] \in Seq(Pairs)
        BY <1>6, <4>1
      <4>3. <<h[k - 1], k>> \in Seq(Pairs) \X Nat
        BY <4>1, <4>2
      <4>4. F[<<h[k - 1], k>>] = Audit!Joined(h[k - 1], q[k])
        BY <4>1, <4>3
      <4>5. h[k] = F[<<h[k - 1], k>>]
        <5> HIDE DEF F
        <5> QED BY <1>6, <3>2 DEF Iterated
      <4> QED BY <3>2, <4>4, <4>5
    <3> QED BY <3>1, <3>2
  <2>2. h = [k \in 0 .. n |-> h[k]]
    BY <1>6
  <2> QED BY <1>2, <2>1, <2>2 DEF MergeSteps
<1> DEFINE m == CHOOSE g : MergeSteps(g, S)
<1>8. MergeSteps(m, S)
  BY <1>7
<1>9. Audit!MergeIntervals(S) = m[Audit!Cardinality(S)]
  BY DEF Audit!MergeIntervals, MergeSteps
<1> HIDE DEF m
<1>10. \A k \in 0 .. n : m[k] = IF k = 0 THEN <<>> ELSE Audit!Joined(m[k - 1], q[k])
  BY <1>2, <1>8 DEF MergeSteps
<1> QED BY <1>1, <1>2, <1>9, <1>10

(* The instants of a set of intervals are those of its merged list.        *)
LEMMA MergeHolds ==
    ASSUME NEW S, S \subseteq Pairs, IsFiniteSet(S), NEW r, r = Audit!MergeIntervals(S)
    PROVE  Apart(r) /\ \A t \in Nat : HeldIn(r, t) <=> HeldBy(S, t)
<1> DEFINE n == Cardinality(S)
           q == Audit!Sorted(S)
<1>1. n \in Nat
  BY FS_CardinalityType
<1>2. /\ \A k \in 1 .. n : q[k] \in S /\ q[k] \in Pairs
      /\ \A i \in S : \E k \in 1 .. n : q[k] = i
      /\ \A j, k \in 1 .. n : j < k => Audit!Before(q[j], q[k])
  BY SortedLists DEF Lists
<1>3. PICK m : /\ m[0] = <<>>
               /\ \A k \in 1 .. n : m[k] = Audit!Joined(m[k - 1], q[k])
               /\ r = m[n]
  BY MergeSolved
<1> DEFINE T == {k \in 0 .. n :
                    /\ Apart(m[k])
                    /\ m[k] # <<>> /\ k # n => m[k][Len(m[k])][1] <= q[k + 1][1]
                    /\ \A t \in Nat : HeldIn(m[k], t) <=> \E l \in 1 .. k : In(q[l], t)}
<1> HIDE DEF n, q
<1>4. 0 \in T
  <2>1. Apart(<<>>) /\ \A t \in Nat : ~HeldIn(<<>>, t)
    BY DEF Apart, HeldIn
  <2> QED BY <1>1, <1>3, <2>1
<1>5. ASSUME NEW k \in 1 .. n, k - 1 \in T PROVE k \in T
  <2>1. /\ Apart(m[k - 1])
        /\ m[k - 1] # <<>> => m[k - 1][Len(m[k - 1])][1] <= q[k][1]
        /\ \A t \in Nat : HeldIn(m[k - 1], t) <=> \E l \in 1 .. (k - 1) : In(q[l], t)
    <3>1. k - 1 # n /\ (k - 1) + 1 = k
      BY <1>1
    <3> QED BY <1>5, <3>1
  <2>2. q[k] \in Pairs /\ m[k] = Audit!Joined(m[k - 1], q[k])
    BY <1>2, <1>3
  <2> HIDE DEF T
  <2>3. /\ Apart(m[k])
        /\ m[k] # <<>> => m[k][Len(m[k])][1] <= q[k][1]
        /\ \A t \in Nat : HeldIn(m[k], t) <=> HeldIn(m[k - 1], t) \/ In(q[k], t)
    BY <2>1, <2>2, JoinKeeps
  <2>4. ASSUME m[k] # <<>>, k # n PROVE m[k][Len(m[k])][1] <= q[k + 1][1]
    <3>1. k + 1 \in 1 .. n /\ k < k + 1
      BY <1>1, <2>4
    <3>2. q[k][1] <= q[k + 1][1] /\ q[k][1] \in Nat /\ q[k + 1][1] \in Nat
      BY <1>2, <3>1, PairFields DEF Audit!Before
    <3>3. m[k][Len(m[k])][1] \in Nat
      <4>1. m[k] \in Seq(Pairs) /\ Len(m[k]) \in 1 .. Len(m[k])
        BY <2>3, <2>4 DEF Apart
      <4>2. m[k][Len(m[k])] \in Pairs
        BY <4>1
      <4> QED BY <4>2, PairFields
    <3> QED BY <2>3, <2>4, <3>2, <3>3
  <2>5. \A t \in Nat : HeldIn(m[k], t) <=> \E l \in 1 .. k : In(q[l], t)
    <3>1. \A l : l \in 1 .. k <=> l \in 1 .. (k - 1) \/ l = k
      BY <1>1
    <3> QED BY <2>1, <2>3, <3>1
  <2>6. k \in 0 .. n
    OBVIOUS
  <2> QED BY <2>3, <2>4, <2>5, <2>6 DEF T
<1> HIDE DEF T
<1>6. n \in T
  <2>1. \A k \in 0 .. n : k \in T
    BY <1>1, <1>4, <1>5, Counting
  <2> QED BY <1>1, <2>1
<1>7. Apart(r) /\ \A t \in Nat : HeldIn(r, t) <=> \E l \in 1 .. n : In(q[l], t)
  BY <1>3, <1>6 DEF T
<1>8. \A t \in Nat : (\E l \in 1 .. n : In(q[l], t)) <=> HeldBy(S, t)
  BY <1>2 DEF HeldBy
<1> QED BY <1>7, <1>8

(* Pairs of times up to n. *)
UpTo(n) == (0 .. n) \X (0 .. n)

(* Bounded intervals are finitely many. *)
LEMMA UpToIsFinite ==
    ASSUME NEW n \in Nat, NEW S, S \subseteq UpTo(n)
    PROVE  S \subseteq Pairs /\ IsFiniteSet(S)
<1>1. S \subseteq Pairs
  BY DEF UpTo, Pairs
<1>2. IsFiniteSet(0 .. n)
  BY FS_Interval
<1>3. IsFiniteSet(UpTo(n))
  BY <1>2, FS_Product DEF UpTo
<1> QED BY <1>1, <1>3, FS_Subset

(* Merging stays within the bounds of its intervals.                       *)
LEMMA MergeIsBounded ==
    ASSUME NEW n \in Nat, NEW S, S \subseteq UpTo(n), NEW r, r = Audit!MergeIntervals(S)
    PROVE  /\ Audit!ToSet(r) \subseteq UpTo(n)
           /\ \A t \in Nat : HeldBy(Audit!ToSet(r), t) <=> HeldBy(S, t)
<1>1. Apart(r) /\ \A t \in Nat : HeldIn(r, t) <=> HeldBy(S, t)
  BY UpToIsFinite, MergeHolds
<1>2. \A t \in Nat : HeldBy(S, t) => t < n
  <2>1. \A i \in S : i[2] \in 0 .. n
    BY DEF UpTo
  <2> QED BY <2>1 DEF HeldBy, In
<1>3. /\ Len(r) \in Nat /\ Audit!ToSet(r) = {r[j] : j \in 1 .. Len(r)}
      /\ \A j \in 1 .. Len(r) : r[j] \in Pairs /\ r[j][1] < r[j][2]
  BY <1>1 DEF Apart, Audit!ToSet
<1>4. ASSUME NEW j \in 1 .. Len(r) PROVE r[j] \in UpTo(n)
  <2>1. r[j][1] \in Nat /\ r[j][2] \in Nat /\ r[j][1] < r[j][2] /\ r[j] = <<r[j][1], r[j][2]>>
    BY <1>3, PairFields
  <2>2. r[j][2] - 1 \in Nat /\ In(r[j], r[j][2] - 1)
    BY <2>1 DEF In
  <2>3. r[j][2] - 1 < n
    BY <1>1, <1>2, <2>2 DEF HeldIn
  <2>4. r[j][1] \in 0 .. n /\ r[j][2] \in 0 .. n
    BY <2>1, <2>3
  <2> QED BY <2>1, <2>4 DEF UpTo
<1>5. \A t : HeldBy(Audit!ToSet(r), t) <=> HeldIn(r, t)
  BY <1>3 DEF HeldBy, HeldIn
<1> QED BY <1>1, <1>3, <1>4, <1>5

(* A gap touches a bucket if and only if it holds an instant of it or the  *)
(* one before it.                                                          *)
LEMMA TouchIsHeld ==
    ASSUME NEW i \in Pairs, NEW start \in Nat, NEW end \in Nat, start < end
    PROVE  (i[1] < i[2] /\ i[1] < end /\ i[2] >= start)
             <=> \E t \in Nat : In(i, t) /\ t < end /\ start <= t + 1
<1>1. i[1] \in Nat /\ i[2] \in Nat
  BY PairFields
<1>2. ASSUME i[1] < i[2], i[1] < end, i[2] >= start
      PROVE  \E t \in Nat : In(i, t) /\ t < end /\ start <= t + 1
  <2>1. CASE i[1] >= start
    <3>1. In(i, i[1]) /\ i[1] < end /\ start <= i[1] + 1
      BY <1>1, <1>2, <2>1 DEF In
    <3> QED BY <1>1, <3>1
  <2>2. CASE ~(i[1] >= start)
    <3>1. start - 1 \in Nat /\ In(i, start - 1) /\ start - 1 < end /\ start <= (start - 1) + 1
      BY <1>1, <1>2, <2>2 DEF In
    <3> QED BY <3>1
  <2> QED BY <2>1, <2>2
<1>3. ASSUME NEW t \in Nat, In(i, t), t < end, start <= t + 1
      PROVE  i[1] < i[2] /\ i[1] < end /\ i[2] >= start
  BY <1>1, <1>3 DEF In
<1> QED BY <1>2, <1>3

(* A merged interval touches a bucket if and only if one of the intervals  *)
(* that are not empty does.                                                *)
LEMMA SameTouches ==
    ASSUME NEW S, S \subseteq Pairs, NEW r, Apart(r),
           \A t \in Nat : HeldIn(r, t) <=> HeldBy(S, t),
           NEW start \in Nat, NEW end \in Nat, start < end
    PROVE  (\E j \in 1 .. Len(r) : r[j][1] < end /\ r[j][2] >= start)
             <=> \E i \in S : i[1] < i[2] /\ i[1] < end /\ i[2] >= start
<1>1. \A j \in 1 .. Len(r) : r[j] \in Pairs /\ r[j][1] < r[j][2]
  BY DEF Apart
<1> DEFINE Hit(i) == \E t \in Nat : In(i, t) /\ t < end /\ start <= t + 1
<1>2. \A i \in Pairs : (i[1] < i[2] /\ i[1] < end /\ i[2] >= start) <=> Hit(i)
  BY TouchIsHeld
<1>3. (\E j \in 1 .. Len(r) : Hit(r[j])) <=> \E i \in S : Hit(i)
  BY DEF HeldIn, HeldBy
<1> HIDE DEF Hit
<1>4. (\E j \in 1 .. Len(r) : r[j][1] < end /\ r[j][2] >= start) <=> \E j \in 1 .. Len(r) : Hit(r[j])
  BY <1>1, <1>2
<1>5. (\E i \in S : i[1] < i[2] /\ i[1] < end /\ i[2] >= start) <=> \E i \in S : Hit(i)
  BY <1>2
<1> QED BY <1>3, <1>4, <1>5

(* Every gap is a row of a partition that exists.                          *)
Filed == \A g \in gaps : Audit!DayOf(g[1]) \in files

(* The gaps of the days, merged day by day and together, hold the same     *)
(* instants as the gaps.                                                   *)
LEMMA MergedGapsHold ==
    ASSUME Day \in Nat \ {0}, Horizon \in Nat, gaps \subseteq UpTo(Horizon), Filed
    PROVE  /\ Apart(Audit!MergedGaps)
           /\ \A t \in Nat : HeldIn(Audit!MergedGaps, t) <=> HeldBy(gaps, t)
<1> DEFINE rows(d) == {g \in gaps : Audit!DayOf(g[1]) = d}
           all == UNION {Audit!ToSet(Audit!MergeIntervals(rows(d))) : d \in files}
<1>1. Audit!MergedGaps = Audit!MergeIntervals(all)
  BY DEF Audit!MergedGaps
<1>2. \A d : rows(d) \subseteq UpTo(Horizon)
  OBVIOUS
<1>3. ASSUME NEW g \in gaps PROVE \E d \in files : g \in rows(d)
  BY DEF Filed
<1> HIDE DEF rows
<1>4. \A d : /\ Audit!ToSet(Audit!MergeIntervals(rows(d))) \subseteq UpTo(Horizon)
             /\ \A t \in Nat : HeldBy(Audit!ToSet(Audit!MergeIntervals(rows(d))), t) <=> HeldBy(rows(d), t)
  BY <1>2, MergeIsBounded
<1>5. all \subseteq UpTo(Horizon)
  BY <1>4
<1>6. \A t \in Nat : HeldBy(all, t) <=> \E d \in files : HeldBy(rows(d), t)
  BY <1>4 DEF HeldBy
<1>7. \A t : (\E d \in files : HeldBy(rows(d), t)) <=> HeldBy(gaps, t)
  BY <1>3 DEF HeldBy, rows
<1> HIDE DEF all
<1>8. /\ Apart(Audit!MergeIntervals(all))
      /\ \A t \in Nat : HeldIn(Audit!MergeIntervals(all), t) <=> HeldBy(all, t)
  BY <1>5, UpToIsFinite, MergeHolds
<1> QED BY <1>1, <1>6, <1>7, <1>8

------------------------------------------------------------------------------

(* The constants and the gaps: a gap ends where it begins or later.        *)
GapsInv ==
    /\ Day \in Nat \ {0} /\ Horizon \in Nat /\ now \in Nat
    /\ \A g \in gaps : g \in Pairs /\ g[1] <= g[2] /\ g[2] <= now

(* What a query for the gaps of a day in a window ending now would count.  *)
Queried(d, start) == {g \in gaps : Audit!DayOf(g[1]) = d /\ g[1] < now /\ g[2] >= start}

(* The gaps of a window are counted as a query would count them, whichever *)
(* shortcut is taken for the day.                                          *)
ShortcutsAreExact ==
    \A d \in Audit!Days, start \in Nat :
        Audit!WindowGaps(d, start) = Audit!Cardinality(Queried(d, start))

(* A day holds the times from its first up to the next day's. *)
LEMMA TimesOfDay ==
    ASSUME Day \in Nat \ {0}, NEW t \in Nat, NEW d \in Nat, Audit!DayOf(t) = d
    PROVE  /\ d * Day \in Nat /\ (d + 1) * Day \in Nat
           /\ d * Day <= t /\ t < (d + 1) * Day
<1>1. t = Day * (t \div Day) + (t % Day) /\ t % Day \in 0 .. (Day - 1) /\ t \div Day \in Nat
  OBVIOUS
<1>2. d = t \div Day
  BY DEF Audit!DayOf
<1>3. Day * d = d * Day /\ (d + 1) * Day = d * Day + Day /\ d * Day \in Nat
  OBVIOUS
<1> QED BY <1>1, <1>2, <1>3

(* The shortcut for a day counts what a query would. *)
LEMMA DayShortcut ==
    ASSUME GapsInv, NEW d \in Nat, NEW start \in Nat
    PROVE  Audit!WindowGaps(d, start) = Audit!Cardinality(Queried(d, start))
<1> USE DEF GapsInv
<1> DEFINE rows == {g \in gaps : Audit!DayOf(g[1]) = d}
           asked == {g \in rows : g[1] < now /\ g[2] >= start}
           spill == {g \in rows : g[2] >= (d + 1) * Day}
           over == {g \in spill : g[1] < now /\ g[2] >= start}
           ends == {g[2] : g \in rows}
           begins == {g[1] : g \in rows}
<1>1. asked = Queried(d, start)
  BY DEF Queried
<1>2. \A g \in rows : /\ g[1] \in Nat /\ g[2] \in Nat /\ g[1] <= g[2] /\ g[2] <= now
                      /\ d * Day <= g[1] /\ g[1] < (d + 1) * Day
  <2> SUFFICES ASSUME NEW g \in rows
               PROVE  /\ g[1] \in Nat /\ g[2] \in Nat /\ g[1] <= g[2] /\ g[2] <= now
                      /\ d * Day <= g[1] /\ g[1] < (d + 1) * Day
    OBVIOUS
  <2>1. g[1] \in Nat /\ g[2] \in Nat /\ g[1] <= g[2] /\ g[2] <= now /\ Audit!DayOf(g[1]) = d
    BY DEF Pairs
  <2> QED BY <2>1, TimesOfDay
<1>3. d * Day \in Nat /\ (d + 1) * Day \in Nat
  <2>1. Day \in Nat /\ d + 1 \in Nat
    OBVIOUS
  <2> QED BY <2>1
<1> DEFINE from == d * Day
           to == (d + 1) * Day
           Count(S) == Audit!Cardinality(S)
           inside == from >= start /\ to <= now
<1>4. Audit!WindowGaps(d, start) =
        IF d \notin sealed THEN Count(asked)
        ELSE IF inside THEN Count(rows)
        ELSE IF to <= start THEN Count(over)
        ELSE IF rows = {} \/ Audit!Max(ends) < start THEN 0
        ELSE IF Audit!Min(begins) >= start /\ to <= now THEN Count(rows)
        ELSE Count(asked)
  BY DEF Audit!WindowGaps
<1>5. ASSUME rows # {} PROVE /\ Audit!Max(ends) \in Nat /\ \A g \in rows : g[2] <= Audit!Max(ends)
                             /\ Audit!Min(begins) \in Nat
                                  /\ \A g \in rows : Audit!Min(begins) <= g[1]
  <2>1. ends # {} /\ ends \subseteq Nat /\ begins # {} /\ begins \subseteq Nat
    BY <1>2, <1>5
  <2>2. (\A x \in ends : x <= now) /\ (\A x \in begins : x <= now)
    <3>1. \A g \in rows : g[1] <= now /\ g[2] <= now
      BY <1>2
    <3> QED BY <3>1
  <2>3. (\A g \in rows : g[2] \in ends) /\ (\A g \in rows : g[1] \in begins)
    OBVIOUS
  <2>4. now \in Nat
    OBVIOUS
  <2> HIDE DEF ends, begins, rows, GapsInv
  <2>5. Audit!Max(ends) \in ends /\ \A y \in ends : y <= Audit!Max(ends)
    BY <2>1, <2>2, <2>4, ExtremesOfBounded
  <2>6. Audit!Min(begins) \in begins /\ \A y \in begins : Audit!Min(begins) <= y
    BY <2>1, <2>2, <2>4, ExtremesOfBounded
  <2> QED BY <2>1, <2>3, <2>5, <2>6
<1>6. inside => asked = rows
  BY <1>2, <1>3
<1>7. to <= start => asked = over
  BY <1>2, <1>3
<1>8. rows = {} \/ Audit!Max(ends) < start => asked = {}
  <2>1. CASE rows = {}
    BY <2>1
  <2>2. ASSUME rows # {}, Audit!Max(ends) < start PROVE asked = {}
    <3> DEFINE m == Audit!Max(ends)
    <3>1. m \in Nat /\ m < start /\ \A g \in rows : g[2] <= m
      BY <1>5, <2>2
    <3> HIDE DEF m
    <3> QED BY <1>2, <3>1
  <2> QED BY <2>1, <2>2
<1>9. ASSUME rows # {}, Audit!Min(begins) >= start, to <= now PROVE asked = rows
  <2> DEFINE m == Audit!Min(begins)
  <2>1. m \in Nat /\ m >= start /\ \A g \in rows : m <= g[1]
    BY <1>5, <1>9
  <2> HIDE DEF m
  <2> QED BY <1>2, <1>3, <1>9, <2>1
<1>10. Count({}) = 0
  BY DEF Audit!Cardinality
<1> HIDE DEF rows, asked, over, ends, begins, inside, from, to, Count
<1> QED BY <1>1, <1>4, <1>6, <1>7, <1>8, <1>9, <1>10 DEF Count

(* The recorder adds gaps that end now. *)
LEMMA NextKeepsGapsInv ==
    ASSUME GapsInv, [Audit!Next]_(Audit!vars)
    PROVE  GapsInv'
<1> USE DEF GapsInv, Pairs
<1>1. CASE Audit!Tick
  BY <1>1 DEF Audit!Tick
<1>2. CASE \/ Audit!Write \/ Audit!BeginSegment \/ Audit!EndSegment \/ Audit!Status
           \/ UNCHANGED Audit!vars
  BY <1>2 DEF Audit!Write, Audit!BeginSegment, Audit!EndSegment, Audit!Status, Audit!vars
<1>3. ASSUME NEW s \in 0 .. Horizon, Audit!Gap(s) PROVE GapsInv'
  <2>1. s \in Nat /\ s <= now /\ now' = now /\ gaps' = gaps \cup {<<s, now>>}
    BY <1>3 DEF Audit!Gap
  <2> QED BY <2>1
<1>4. ASSUME NEW d \in Audit!Days, Audit!Seal(d) PROVE GapsInv'
  BY <1>4 DEF Audit!Seal
<1> QED BY <1>1, <1>2, <1>3, <1>4 DEF Audit!Next

(* A window's gaps are counted exactly: whichever shortcut status takes    *)
(* for a day, sealed or not, inside the window, before it or across its    *)
(* edge, it counts the gaps that a query of the day's rows would.          *)
(* (MicrostructureStore.status, gap windows)                               *)
THEOREM GapShortcutsAreExact ==
    ASSUME Day \in Nat \ {0}, Horizon \in Nat
    PROVE  Audit!Spec => []ShortcutsAreExact
<1>1. Audit!Init => GapsInv
  BY DEF Audit!Init, GapsInv
<1>2. GapsInv /\ [Audit!Next]_(Audit!vars) => GapsInv'
  BY NextKeepsGapsInv
<1>3. GapsInv => ShortcutsAreExact
  <2> SUFFICES ASSUME GapsInv PROVE ShortcutsAreExact
    OBVIOUS
  <2>1. Audit!Days \subseteq Nat
    BY DEF Audit!Days
  <2> QED BY <2>1, DayShortcut DEF ShortcutsAreExact
<1> QED BY <1>1, <1>2, <1>3, PTL DEF Audit!Spec

(* A hint that does not run ahead of where a bucket starts.                *)
HintOK(merged, start, hint) ==
    hint = 1 \/ (hint \in 1 .. Len(merged) /\ merged[hint][1] <= start)

(* The interval found is the last that begins in time. *)
LEMMA BisectFinds ==
    ASSUME NEW merged, Apart(merged), merged # <<>>, NEW start \in Nat,
           NEW hint, HintOK(merged, start, hint),
           NEW k, k = Audit!Bisect(merged, start, hint)
    PROVE  /\ k \in 1 .. Len(merged)
           /\ k = 1 \/ merged[k][1] <= start
           /\ \A j \in 1 .. Len(merged) : k < j => ~(merged[j][1] <= start)
<1> DEFINE before == {j \in hint .. Len(merged) : merged[j][1] <= start}
           index == IF before = {} THEN hint - 1 ELSE Audit!Max(before)
<1>1. Len(merged) \in Nat \ {0} /\ hint \in 1 .. Len(merged)
  BY DEF Apart, HintOK
<1>2. \A j \in 1 .. Len(merged) : merged[j][1] \in Nat /\ merged[j][2] \in Nat
          /\ merged[j][1] < merged[j][2]
  BY DEF Apart, Pairs
<1>3. k = IF index < 1 THEN 1 ELSE index
  BY DEF Audit!Bisect
<1>4. before \subseteq 1 .. Len(merged)
  BY <1>1
<1>5. CASE before = {}
  <2>1. hint = 1
    BY <1>1, <1>5 DEF HintOK
  <2> QED BY <1>1, <1>3, <1>5, <2>1
<1>6. CASE before # {}
  <2>1. index \in before /\ \A j \in before : j <= index
    <3>1. before \subseteq Nat /\ \A j \in before : j <= Len(merged)
      BY <1>1, <1>4
    <3> HIDE DEF before
    <3> QED BY <1>1, <1>6, <3>1, ExtremesOfBounded
  <2> HIDE DEF index
  <2>2. index \in hint .. Len(merged) /\ merged[index][1] <= start /\ k = index
    BY <1>1, <1>3, <2>1
  <2>3. ASSUME NEW j \in 1 .. Len(merged), index < j PROVE ~(merged[j][1] <= start)
    BY <1>1, <2>1, <2>2, <2>3
  <2> QED BY <1>1, <2>2, <2>3
<1> QED BY <1>5, <1>6

(* The running hint leaves no gap out: in merged intervals, the search     *)
(* from the hint finds a gap that touches the bucket if and only if there  *)
(* is one, bisecting from it ends where a search of them all would, and    *)
(* what it returns is a hint for every bucket that starts later.           *)
(* (_fast_has_gap, _fast_covered)                                          *)
THEOREM HintsSkipNothing ==
    ASSUME NEW merged, Apart(merged), NEW start \in Nat, NEW end \in Nat,
           NEW hint, HintOK(merged, start, hint)
    PROVE  /\ Audit!FastHasGap(merged, start, end, hint).any <=>
                \E j \in 1 .. Len(merged) : merged[j][1] < end /\ merged[j][2] >= start
           /\ merged # <<>> => Audit!Bisect(merged, start, hint) = Audit!Bisect(merged, start, 1)
           /\ \A later \in Nat : later >= start =>
                HintOK(merged, later, Audit!FastHasGap(merged, start, end, hint).hint)
<1>1. CASE merged = <<>>
  <2>1. Audit!FastHasGap(merged, start, end, hint) = [any |-> FALSE, hint |-> hint]
    BY <1>1 DEF Audit!FastHasGap
  <2>2. hint = 1 /\ Len(merged) = 0
    BY <1>1 DEF HintOK
  <2> QED BY <1>1, <2>1, <2>2 DEF HintOK
<1>2. CASE merged # <<>>
  <2>1. PICK k : k = Audit!Bisect(merged, start, hint)
    OBVIOUS
  <2>2. /\ k \in 1 .. Len(merged)
        /\ k = 1 \/ merged[k][1] <= start
        /\ \A j \in 1 .. Len(merged) : k < j => ~(merged[j][1] <= start)
    BY <1>2, <2>1, BisectFinds
  <2>3. Audit!Bisect(merged, start, 1) = k
    <3>1. PICK c : c = Audit!Bisect(merged, start, 1)
      OBVIOUS
    <3>2. /\ c \in 1 .. Len(merged)
          /\ c = 1 \/ merged[c][1] <= start
          /\ \A j \in 1 .. Len(merged) : c < j => ~(merged[j][1] <= start)
      <4>1. HintOK(merged, start, 1)
        BY DEF HintOK
      <4> QED BY <1>2, <3>1, <4>1, BisectFinds
    <3>3. k \in Nat /\ c \in Nat /\ 1 <= k /\ 1 <= c
      BY <2>2, <3>2 DEF Apart
    <3>4. ~(k < c) /\ ~(c < k)
      BY <2>2, <3>2, <3>3
    <3> QED BY <3>1, <3>3, <3>4
  <2>4. /\ Audit!FastHasGap(merged, start, end, hint).hint = k
        /\ Audit!FastHasGap(merged, start, end, hint).any =
             \E j \in k .. Len(merged) : merged[j][1] < end /\ merged[j][2] >= start
    BY <1>2, <2>1 DEF Audit!FastHasGap
  <2>5. ASSUME NEW j \in 1 .. Len(merged), merged[j][2] >= start PROVE j \in k .. Len(merged)
    <3>1. /\ j \in Nat /\ k \in Nat /\ merged[j][2] \in Nat /\ merged[k][1] \in Nat
          /\ Len(merged) \in Nat
          /\ j < k => merged[j][2] < merged[k][1] /\ merged[k][1] <= start
      <4>1. Len(merged) \in Nat /\ merged[j] \in Pairs /\ merged[k] \in Pairs
        BY <2>2 DEF Apart
      <4>2. j < k => merged[j][2] < merged[k][1] /\ k # 1
        BY <2>2 DEF Apart
      <4> QED BY <2>2, <4>1, <4>2, PairFields
    <3> QED BY <2>5, <3>1
  <2>6. k .. Len(merged) \subseteq 1 .. Len(merged)
    BY <2>2 DEF Apart
  <2>7. ASSUME NEW later \in Nat, later >= start PROVE HintOK(merged, later, k)
    <3>1. merged[k][1] \in Nat
      BY <2>2 DEF Apart, Pairs
    <3> QED BY <2>2, <2>7, <3>1 DEF HintOK
  <2> QED BY <2>1, <2>3, <2>4, <2>5, <2>6, <2>7
<1> QED BY <1>1, <1>2

------------------------------------------------------------------------------

(* The instants of a bucket that an interval holds are as many as it       *)
(* overlaps.                                                               *)
LEMMA OverlapCounts ==
    ASSUME NEW i \in Pairs, NEW start \in Nat, NEW end \in Nat,
           NEW T, T = {t \in start .. (end - 1) : In(i, t)}
    PROVE  /\ IsFiniteSet(T) /\ Audit!Overlap(i, start, end) = Cardinality(T)
           /\ Audit!Overlap(i, start, end) \in Nat
<1> DEFINE a == Audit!Larger(i[1], start)
           b == Audit!Smaller(i[2], end) - 1
<1>1. i[1] \in Nat /\ i[2] \in Nat
  BY PairFields
<1>2. a \in Int /\ b \in Int
  BY <1>1 DEF Audit!Larger, Audit!Smaller
<1>3. T = a .. b
  BY <1>1 DEF In, Audit!Larger, Audit!Smaller
<1>4. Audit!Overlap(i, start, end) = IF 0 > (b + 1) - a THEN 0 ELSE (b + 1) - a
  <2>1. Audit!Smaller(i[2], end) = b + 1
    BY <1>1 DEF Audit!Smaller
  <2> HIDE DEF b
  <2> QED BY <2>1 DEF Audit!Overlap, Audit!Larger
<1> HIDE DEF a, b
<1>5. IsFiniteSet(a .. b) /\ Cardinality(a .. b) = IF a > b THEN 0 ELSE b - a + 1
  BY <1>2, FS_Interval
<1>6. Audit!Overlap(i, start, end) = IF a > b THEN 0 ELSE b - a + 1
  BY <1>2, <1>4
<1>7. IsFiniteSet(T) /\ Cardinality(T) = IF a > b THEN 0 ELSE b - a + 1
  BY <1>3, <1>5, Zenon
<1>8. (IF a > b THEN 0 ELSE b - a + 1) \in Nat
  BY <1>2
<1> QED BY <1>6, <1>7, <1>8

(* _fast_covered counts the covered instants of the bucket.                *)
LEMMA CoveredIsCounted ==
    ASSUME NEW merged, Apart(merged), NEW start \in Nat, NEW end \in Nat,
           NEW hint, HintOK(merged, start, hint),
           NEW r, r = Audit!FastCovered(merged, start, end, hint)
    PROVE  /\ r.sum = Cardinality({t \in start .. (end - 1) : HeldIn(merged, t)})
           /\ \A later \in Nat : later >= start => HintOK(merged, later, r.hint)
<1> DEFINE U == {t \in start .. (end - 1) : HeldIn(merged, t)}
<1>1. CASE merged = <<>>
  <2>1. r.sum = 0 /\ r.hint = hint
    BY <1>1 DEF Audit!FastCovered
  <2>2. U = {} /\ hint = 1
    BY <1>1 DEF HeldIn, HintOK
  <2> QED BY <2>1, <2>2, FS_EmptySet DEF HintOK
<1>2. CASE merged # <<>>
  <2>1. PICK k : k = Audit!Bisect(merged, start, hint)
    OBVIOUS
  <2>2. /\ k \in 1 .. Len(merged)
        /\ k = 1 \/ merged[k][1] <= start
    BY <1>2, <2>1, BisectFinds
  <2> DEFINE n == Len(merged)
             v == [j \in 1 .. n |-> IF k <= j /\ merged[j][1] < end
                                    THEN Audit!Overlap(merged[j], start, end) ELSE 0]
             A == [j \in 1 .. n |-> {t \in start .. (end - 1) : In(merged[j], t)}]
  <2>3. r.sum = Audit!Added(v, n) /\ r.hint = k
    BY <1>2, <2>1 DEF Audit!FastCovered
  <2>4. n \in Nat /\ \A j \in 1 .. n : /\ merged[j] \in Pairs
                                       /\ merged[j][1] \in Nat /\ merged[j][2] \in Nat
                                       /\ merged[j][1] < merged[j][2]
    BY PairFields DEF Apart
  <2>5. \A j, l \in 1 .. n : j < l => merged[j][2] < merged[l][1]
    BY DEF Apart
  <2> HIDE DEF n
  <2>6. k \in 1 .. n
    BY <2>2 DEF n
  <2>7. ASSUME NEW j \in 1 .. n
        PROVE  IsFiniteSet(A[j]) /\ v[j] = Cardinality(A[j]) /\ v[j] \in Nat
    <3>1. /\ IsFiniteSet(A[j]) /\ Audit!Overlap(merged[j], start, end) = Cardinality(A[j])
          /\ Audit!Overlap(merged[j], start, end) \in Nat
      BY <2>4, OverlapCounts
    <3>2. CASE k <= j /\ merged[j][1] < end
      BY <3>1, <3>2
    <3>3. CASE ~(k <= j)
      <4>1. j < k /\ k # 1 /\ merged[j][2] < merged[k][1] /\ merged[k][1] <= start
        BY <2>2, <2>5, <2>6, <3>3
      <4>2. A[j] = {}
        BY <2>4, <2>6, <4>1 DEF In
      <4> QED BY <3>3, <4>2, FS_EmptySet
    <3>4. CASE ~(merged[j][1] < end)
      <4>1. A[j] = {}
        BY <2>4, <3>4 DEF In
      <4> QED BY <3>4, <4>1, FS_EmptySet
    <3> QED BY <3>2, <3>3, <3>4
  <2>8. ASSUME NEW j \in 1 .. n, NEW l \in 1 .. n, j < l PROVE A[j] \cap A[l] = {}
    <3>1. merged[j][2] < merged[l][1]
      BY <2>5, <2>8
    <3>2. ASSUME NEW t \in start .. (end - 1), In(merged[j], t), In(merged[l], t) PROVE FALSE
      BY <2>4, <3>1, <3>2 DEF In
    <3> QED BY <3>2
  <2>9. \A t : t \in U <=> \E j \in 1 .. n : t \in A[j]
    BY DEF HeldIn, n
  <2>10. v \in [1 .. n -> Nat]
    <3>1. \A j \in 1 .. n : v[j] \in Nat
      BY <2>7
    <3> QED BY <3>1
  <2> HIDE DEF v, A, U
  <2>11. Audit!Added(v, n) = Cardinality(U)
    <3>1. SizesOf(v, A, n)
      BY <2>7, <2>10 DEF SizesOf
    <3>2. Partitioned(U, A, n)
      BY <2>8, <2>9 DEF Partitioned
    <3> QED BY <2>4, <3>1, <3>2, AddedCounts
  <2>12. ASSUME NEW later \in Nat, later >= start PROVE HintOK(merged, later, k)
    <3>1. merged[k][1] \in Nat
      BY <2>4, <2>6
    <3> QED BY <2>2, <2>12, <3>1 DEF HintOK
  <2> QED BY <2>3, <2>11, <2>12 DEF U
<1> QED BY <1>1, <1>2

(* What _covered_ms has counted, and the stretch it is joining, are the    *)
(* instants H of the intervals it has seen.                                *)
Scan(c, H) ==
    /\ IsFiniteSet(H) /\ H \subseteq Nat
    /\ c \in [any : BOOLEAN, sum : Nat, from : Nat, to : Nat]
    /\ c.from <= c.to
    /\ c.sum + (c.to - c.from) = Cardinality(H)
    /\ \A t \in H : t < c.to
    /\ \A t \in Nat : c.from <= t /\ t < c.to => t \in H

(* One more interval keeps the count of _covered_ms right. *)
LEMMA ScanKeeps ==
    ASSUME NEW c, NEW H, Scan(c, H), NEW i \in Pairs, c.any => c.from <= i[1], ~c.any => H = {} /\ c.to = 0,
           NEW d, d = Audit!Scanned(c, i),
           NEW J, J = H \cup {t \in Nat : In(i, t)}
    PROVE  /\ Scan(d, J)
           /\ d.any => d.from <= i[1]
           /\ ~d.any => J = {} /\ d.to = 0
<1> DEFINE a == i[1]
           b == i[2]
<1>1. a \in Nat /\ b \in Nat
  BY PairFields
<1>2. \A t : In(i, t) <=> a <= t /\ t < b
  BY DEF In
<1>3. /\ c.any \in BOOLEAN /\ c.sum \in Nat /\ c.from \in Nat /\ c.to \in Nat
      /\ c.from <= c.to
      /\ c.sum + (c.to - c.from) = Cardinality(H)
      /\ IsFiniteSet(H) /\ H \subseteq Nat
      /\ \A t \in H : t < c.to
      /\ \A t \in Nat : c.from <= t /\ t < c.to => t \in H
  BY DEF Scan
<1>0. J \subseteq Nat
  BY <1>3
<1> HIDE DEF a, b
<1>4. CASE b <= a
  <2>1. d = c
    BY <1>4 DEF Audit!Scanned, a, b
  <2>2. J = H
    BY <1>1, <1>2, <1>4
  <2> QED BY <2>1, <2>2 DEF a
<1>5. CASE ~(b <= a) /\ c.any /\ a <= c.to
  <2> DEFINE m == Audit!Larger(c.to, b)
             new == c.to .. (m - 1)
  <2>1. m \in Nat /\ c.to <= m /\ b <= m /\ (m = c.to \/ m = b)
    BY <1>1, <1>3 DEF Audit!Larger
  <2>2. d = [c EXCEPT !.to = m]
    BY <1>5 DEF Audit!Scanned, a, b
  <2> HIDE DEF m
  <2>3. /\ d \in [any : BOOLEAN, sum : Nat, from : Nat, to : Nat]
        /\ d.any = c.any /\ d.sum = c.sum /\ d.from = c.from /\ d.to = m
    <3>1. c \in [any : BOOLEAN, sum : Nat, from : Nat, to : Nat]
      BY DEF Scan
    <3> QED BY <2>1, <2>2, <3>1
  <2>4. c.from <= a
    BY <1>5 DEF a
  <2>5. J = H \cup new
    <3>1. \A t \in Nat : In(i, t) => t \in H \/ t \in new
      BY <1>1, <1>2, <1>3, <2>1, <2>4
    <3>2. \A t \in new : t \in Nat /\ In(i, t)
      BY <1>1, <1>2, <1>3, <1>5, <2>1
    <3> QED BY <3>1, <3>2
  <2>6. IsFiniteSet(new) /\ Cardinality(new) = m - c.to
    <3>1. c.to \in Int /\ m - 1 \in Int
      BY <1>3, <2>1
    <3>2. IsFiniteSet(new) /\ Cardinality(new) = IF c.to > m - 1 THEN 0 ELSE (m - 1) - c.to + 1
      BY <3>1, FS_Interval
    <3>3. (IF c.to > m - 1 THEN 0 ELSE (m - 1) - c.to + 1) = m - c.to
      BY <1>3, <2>1
    <3> QED BY <3>2, <3>3
  <2>7. H \cap new = {}
    BY <1>3, <2>1
  <2>8. IsFiniteSet(J) /\ Cardinality(J) = Cardinality(H) + (m - c.to)
    <3> HIDE DEF new
    <3>1. IsFiniteSet(H \cup new) /\ Cardinality(H \cup new) = Cardinality(H) + Cardinality(new)
      BY <1>3, <2>6, <2>7, DisjointUnion, Zenon
    <3> QED BY <2>5, <2>6, <3>1
  <2>9. d.sum + (d.to - d.from) = Cardinality(J)
    BY <1>3, <2>1, <2>3, <2>8
  <2>10. \A t \in J : t < d.to
    BY <1>3, <2>1, <2>3, <2>5
  <2>11. \A t \in Nat : d.from <= t /\ t < d.to => t \in J
    BY <1>3, <2>1, <2>3, <2>5
  <2>12. Scan(d, J)
    <3>1. d.from <= d.to
      BY <1>3, <2>1, <2>3
    <3> QED BY <1>0, <2>3, <2>8, <2>9, <2>10, <2>11, <3>1 DEF Scan
  <2> QED BY <1>5, <2>3, <2>4, <2>12 DEF a
<1>6. CASE ~(b <= a) /\ ~(c.any /\ a <= c.to)
  <2> DEFINE new == a .. (b - 1)
  <2>1. d = [any |-> TRUE, sum |-> c.sum + (c.to - c.from), from |-> a, to |-> b]
    BY <1>6 DEF Audit!Scanned, a, b
  <2>2. /\ d \in [any : BOOLEAN, sum : Nat, from : Nat, to : Nat]
        /\ d.any /\ d.sum = c.sum + (c.to - c.from) /\ d.from = a /\ d.to = b
    BY <1>1, <1>3, <2>1
  <2>3. J = H \cup new
    BY <1>1, <1>2
  <2>4. IsFiniteSet(new) /\ Cardinality(new) = b - a
    <3>1. a \in Int /\ b - 1 \in Int
      BY <1>1
    <3>2. IsFiniteSet(new) /\ Cardinality(new) = IF a > b - 1 THEN 0 ELSE (b - 1) - a + 1
      BY <3>1, FS_Interval
    <3>3. (IF a > b - 1 THEN 0 ELSE (b - 1) - a + 1) = b - a
      BY <1>1, <1>6
    <3> QED BY <3>2, <3>3
  <2>5. \A t \in H : t < a
    BY <1>1, <1>3, <1>6
  <2>6. H \cap new = {}
    BY <1>1, <1>3, <2>5
  <2>7. IsFiniteSet(J) /\ Cardinality(J) = Cardinality(H) + (b - a)
    <3> HIDE DEF new
    <3>1. IsFiniteSet(H \cup new) /\ Cardinality(H \cup new) = Cardinality(H) + Cardinality(new)
      BY <1>3, <2>4, <2>6, DisjointUnion, Zenon
    <3> QED BY <2>3, <2>4, <3>1
  <2>8. d.sum + (d.to - d.from) = Cardinality(J)
    BY <1>1, <1>3, <2>2, <2>7
  <2>9. \A t \in J : t < d.to
    BY <1>1, <1>3, <1>6, <2>2, <2>3, <2>5
  <2>10. \A t \in Nat : d.from <= t /\ t < d.to => t \in J
    BY <1>1, <2>2, <2>3
  <2>11. Scan(d, J)
    <3>1. d.from <= d.to
      BY <1>1, <1>6, <2>2
    <3> QED BY <1>0, <2>2, <2>7, <2>8, <2>9, <2>10, <3>1 DEF Scan
  <2> QED BY <1>1, <2>2, <2>11 DEF a
<1> QED BY <1>4, <1>5, <1>6

Counter == [any : BOOLEAN, sum : Int, from : Int, to : Int]
NoneYet == [any |-> FALSE, sum |-> 0, from |-> 0, to |-> 0]

(* _covered_ms, interval by interval.                                      *)
ScanSteps(c, S) ==
    c = [k \in 0 .. Audit!Cardinality(S) |->
            IF k = 0 THEN [any |-> FALSE, sum |-> 0, from |-> 0, to |-> 0]
            ELSE Audit!Scanned(c[k - 1], Audit!Sorted(S)[k])]

(* The scan of _covered_ms exists, and ends with its result. *)
LEMMA ScanSolved ==
    ASSUME NEW all, NEW start, NEW end, NEW S, S = Audit!Clipped(all, start, end),
           S \subseteq Pairs, IsFiniteSet(S)
    PROVE  \E c : /\ c[0] = NoneYet
                  /\ \A k \in 1 .. Cardinality(S) : c[k] = Audit!Scanned(c[k - 1], Audit!Sorted(S)[k])
                  /\ Audit!CoveredMs(all, start, end)
                       = c[Cardinality(S)].sum + (c[Cardinality(S)].to - c[Cardinality(S)].from)
<1> DEFINE n == Cardinality(S)
           q == Audit!Sorted(S)
<1>1. n \in Nat /\ \A k \in 1 .. n : q[k] \in Pairs
  BY SortedLists, FS_CardinalityType DEF Lists
<1>2. Audit!Cardinality(S) = n
  BY SameCardinality
<1>3. \A c \in Counter, i \in Pairs : Audit!Scanned(c, i) \in Counter
  <2> SUFFICES ASSUME NEW c \in Counter, NEW i \in Pairs PROVE Audit!Scanned(c, i) \in Counter
    OBVIOUS
  <2>1. i[1] \in Int /\ i[2] \in Int
    BY PairFields
  <2>2. Audit!Larger(c.to, i[2]) \in Int
    BY <2>1 DEF Counter, Audit!Larger
  <2>3. \A m \in Int : [c EXCEPT !.to = m] \in Counter
    BY DEF Counter
  <2>4. [any |-> TRUE, sum |-> c.sum + (c.to - c.from), from |-> i[1], to |-> i[2]] \in Counter
    BY <2>1 DEF Counter
  <2> QED BY <2>2, <2>3, <2>4, Zenon DEF Audit!Scanned
<1> DEFINE F == [x \in Counter \X Nat |->
                    IF x[2] \in 1 .. n THEN Audit!Scanned(x[1], q[x[2]]) ELSE x[1]]
<1>4. F \in [Counter \X Nat -> Counter]
  BY <1>1, <1>3
<1>5. NoneYet \in Counter
  BY DEF NoneYet, Counter
<1>6. PICK h \in [0 .. n -> Counter] : Iterated(h, n, NoneYet, F)
  <2> HIDE DEF F, n
  <2> QED BY <1>1, <1>4, <1>5, Iterates
<1>7. ScanSteps(h, S)
  <2>1. ASSUME NEW k \in 0 .. n
        PROVE  h[k] = IF k = 0 THEN NoneYet ELSE Audit!Scanned(h[k - 1], q[k])
    <3>1. CASE k = 0
      BY <1>6, <3>1 DEF Iterated
    <3>2. CASE k # 0
      <4>1. k \in 1 .. n /\ k \in Nat /\ k - 1 \in 0 .. n
        BY <1>1, <3>2
      <4>2. <<h[k - 1], k>> \in Counter \X Nat
        BY <1>6, <4>1
      <4>3. F[<<h[k - 1], k>>] = Audit!Scanned(h[k - 1], q[k])
        BY <4>1, <4>2
      <4>4. h[k] = F[<<h[k - 1], k>>]
        <5> HIDE DEF F
        <5> QED BY <1>6, <3>2 DEF Iterated
      <4> QED BY <3>2, <4>3, <4>4
    <3> QED BY <3>1, <3>2
  <2>2. h = [k \in 0 .. n |-> h[k]]
    BY <1>6
  <2> QED BY <1>2, <2>1, <2>2 DEF ScanSteps, NoneYet
<1> DEFINE c == CHOOSE g : ScanSteps(g, S)
<1>8. ScanSteps(c, S)
  BY <1>7
<1> DEFINE last == c[Audit!Cardinality(S)]
<1>9. Audit!CoveredMs(all, start, end) = last.sum + (last.to - last.from)
  BY DEF Audit!CoveredMs, ScanSteps
<1> HIDE DEF c
<1>10. \A k \in 0 .. n : c[k] = IF k = 0 THEN NoneYet ELSE Audit!Scanned(c[k - 1], q[k])
  BY <1>2, <1>8 DEF ScanSteps, NoneYet
<1>11. c[0] = NoneYet /\ \A k \in 1 .. n : c[k] = Audit!Scanned(c[k - 1], q[k])
  BY <1>1, <1>10
<1> QED BY <1>2, <1>9, <1>11

(* _covered_ms counts the covered instants of a window.                    *)
LEMMA CoveredMsCounts ==
    ASSUME NEW m \in Nat, NEW all, all \subseteq UpTo(m), NEW start \in Nat, NEW end \in Nat
    PROVE  Audit!CoveredMs(all, start, end)
             = Cardinality({t \in start .. (end - 1) : HeldBy(all, t)})
<1> DEFINE S == Audit!Clipped(all, start, end)
           n == Cardinality(S)
           q == Audit!Sorted(S)
<1>1. \A i \in all : i[1] \in 0 .. m /\ i[2] \in 0 .. m
  BY DEF UpTo
<1>2. S \subseteq UpTo(m + start)
  <2>1. ASSUME NEW i \in all, i[2] > start, i[1] < end
        PROVE  <<Audit!Larger(i[1], start), Audit!Smaller(i[2], end)>> \in UpTo(m + start)
    <3>1. Audit!Larger(i[1], start) \in 0 .. (m + start) /\ Audit!Smaller(i[2], end) \in 0 .. (m + start)
      BY <1>1, <2>1 DEF Audit!Larger, Audit!Smaller
    <3> QED BY <3>1 DEF UpTo
  <2> QED BY <2>1 DEF Audit!Clipped
<1>3. S \subseteq Pairs /\ IsFiniteSet(S)
  BY <1>2, UpToIsFinite
<1>4. n \in Nat
  BY <1>3, FS_CardinalityType
<1>5. \A t \in Nat : HeldBy(S, t) <=> HeldBy(all, t) /\ start <= t /\ t < end
  <2> SUFFICES ASSUME NEW t \in Nat PROVE HeldBy(S, t) <=> HeldBy(all, t) /\ start <= t /\ t < end
    OBVIOUS
  <2> DEFINE clip(i) == <<Audit!Larger(i[1], start), Audit!Smaller(i[2], end)>>
  <2>1. ASSUME NEW i \in all
        PROVE  /\ In(clip(i), t) <=> In(i, t) /\ start <= t /\ t < end
               /\ In(i, t) /\ start <= t /\ t < end => i[2] > start /\ i[1] < end
    <3>1. In(clip(i), t) <=> Audit!Larger(i[1], start) <= t /\ t < Audit!Smaller(i[2], end)
      BY DEF In
    <3>2. i[1] \in Nat /\ i[2] \in Nat
      BY <1>1
    <3> QED BY <3>1, <3>2 DEF In, Audit!Larger, Audit!Smaller
  <2>2. S = {clip(i) : i \in {j \in all : j[2] > start /\ j[1] < end}}
    BY DEF Audit!Clipped
  <2> HIDE DEF clip, S
  <2> QED BY <2>1, <2>2 DEF HeldBy
<1>6. /\ \A k \in 1 .. n : q[k] \in S /\ q[k] \in Pairs
      /\ \A i \in S : \E k \in 1 .. n : q[k] = i
      /\ \A j, k \in 1 .. n : j < k => Audit!Before(q[j], q[k])
  BY <1>3, SortedLists DEF Lists
<1> DEFINE result == Audit!CoveredMs(all, start, end)
<1>7. PICK c : /\ c[0] = NoneYet
               /\ \A k \in 1 .. n : c[k] = Audit!Scanned(c[k - 1], q[k])
               /\ result = c[n].sum + (c[n].to - c[n].from)
  BY <1>3, ScanSolved
<1> HIDE DEF S, n, q, result
<1> DEFINE H(k) == {t \in Nat : \E l \in 1 .. k : In(q[l], t)}
           T == {k \in 0 .. n :
                    /\ Scan(c[k], H(k))
                    /\ ~c[k].any => H(k) = {} /\ c[k].to = 0
                    /\ c[k].any /\ k # n => c[k].from <= q[k + 1][1]}
<1>8. 0 \in T
  <2>1. H(0) = {} /\ 0 \in 0 .. n
    BY <1>4
  <2> HIDE DEF H
  <2>2. Scan(NoneYet, {})
    BY FS_EmptySet DEF Scan, NoneYet
  <2> QED BY <1>7, <2>1, <2>2 DEF NoneYet
<1>9. ASSUME NEW k \in 1 .. n, k - 1 \in T PROVE k \in T
  <2>1. /\ Scan(c[k - 1], H(k - 1))
        /\ ~c[k - 1].any => H(k - 1) = {} /\ c[k - 1].to = 0
        /\ c[k - 1].any => c[k - 1].from <= q[k][1]
    <3> HIDE DEF H
    <3>1. k - 1 # n /\ (k - 1) + 1 = k
      BY <1>4
    <3> QED BY <1>9, <3>1
  <2>2. H(k) = H(k - 1) \cup {t \in Nat : In(q[k], t)}
    <3>1. \A l : l \in 1 .. k <=> l \in 1 .. (k - 1) \/ l = k
      BY <1>4
    <3> QED BY <3>1
  <2> HIDE DEF H, T
  <2>3. q[k] \in Pairs /\ c[k] = Audit!Scanned(c[k - 1], q[k])
    BY <1>6, <1>7
  <2>4. /\ Scan(c[k], H(k))
        /\ c[k].any => c[k].from <= q[k][1]
        /\ ~c[k].any => H(k) = {} /\ c[k].to = 0
    <3> DEFINE before == c[k - 1]
               seen == H(k - 1)
               after == H(k)
               i == q[k]
               d == c[k]
    <3>1. /\ Scan(before, seen) /\ i \in Pairs
          /\ before.any => before.from <= i[1]
          /\ ~before.any => seen = {} /\ before.to = 0
          /\ d = Audit!Scanned(before, i)
          /\ after = seen \cup {t \in Nat : In(i, t)}
      BY <2>1, <2>2, <2>3
    <3> HIDE DEF before, seen, after, i, d
    <3>2. /\ Scan(d, after)
          /\ d.any => d.from <= i[1]
          /\ ~d.any => after = {} /\ d.to = 0
      BY <3>1, ScanKeeps
    <3> QED BY <3>2 DEF after, i, d
  <2>5. ASSUME c[k].any, k # n PROVE c[k].from <= q[k + 1][1]
    <3>1. k + 1 \in 1 .. n /\ k < k + 1
      BY <1>4, <2>5
    <3>2. q[k][1] <= q[k + 1][1] /\ q[k][1] \in Nat /\ q[k + 1][1] \in Nat
      BY <1>6, <3>1, PairFields DEF Audit!Before
    <3>3. c[k].from \in Nat
      BY <2>4 DEF Scan
    <3> QED BY <2>4, <2>5, <3>2, <3>3
  <2>6. k \in 0 .. n
    OBVIOUS
  <2> QED BY <2>4, <2>5, <2>6 DEF T
<1>10. n \in T
  <2> HIDE DEF T
  <2>1. \A k \in 0 .. n : k \in T
    BY <1>4, <1>8, <1>9, Counting
  <2> QED BY <1>4, <2>1
<1>11. H(n) = {t \in start .. (end - 1) : HeldBy(all, t)}
  <2>1. \A t \in Nat : (\E l \in 1 .. n : In(q[l], t)) <=> HeldBy(S, t)
    BY <1>6 DEF HeldBy
  <2>2. \A t : t \in start .. (end - 1) <=> t \in Nat /\ start <= t /\ t < end
    OBVIOUS
  <2> QED BY <1>5, <2>1, <2>2
<1>12. result = Cardinality(H(n))
  <2> HIDE DEF H
  <2> QED BY <1>7, <1>10 DEF T, Scan
<1> QED BY <1>11, <1>12 DEF result

------------------------------------------------------------------------------

(* Multiples of an interval.                                               *)
LEMMA Floor ==
    ASSUME NEW a \in Nat, NEW i \in Nat \ {0}
    PROVE  /\ a \div i \in Nat /\ (a \div i) * i \in Nat
           /\ (a \div i) * i <= a /\ a < (a \div i) * i + i
<1>1. a = i * (a \div i) + (a % i) /\ a % i \in 0 .. (i - 1) /\ a \div i \in Nat
  OBVIOUS
<1>2. i * (a \div i) = (a \div i) * i /\ (a \div i) * i \in Nat
  BY <1>1
<1> QED BY <1>1, <1>2

(* Multiples of an interval are ordered as their factors are. *)
LEMMA Scale ==
    ASSUME NEW p \in Nat, NEW q \in Nat, NEW i \in Nat \ {0}
    PROVE  /\ p * i \in Nat /\ q * i \in Nat
           /\ p < q => p * i + i <= q * i
           /\ p * i < q * i + i => p <= q
<1>1. ASSUME NEW a \in Nat, NEW b \in Nat, a < b
      PROVE  a * i \in Nat /\ a * i + i <= b * i
  <2>1. PICK e \in Nat : b = a + 1 + e
    <3>1. b - a - 1 \in Nat /\ b = a + 1 + (b - a - 1)
      BY <1>1
    <3> QED BY <3>1
  <2>2. b * i = a * i + i + e * i /\ e * i \in Nat /\ a * i \in Nat
    BY <2>1
  <2> QED BY <2>2
<1>2. p * i \in Nat /\ q * i \in Nat
  OBVIOUS
<1>3. p < q => p * i + i <= q * i
  BY <1>1
<1>4. ASSUME p * i < q * i + i, ~(p <= q) PROVE FALSE
  <2>1. q < p
    BY <1>4
  <2>2. q * i + i <= p * i
    BY <1>1, <2>1
  <2> QED BY <1>2, <1>4, <2>2
<1> QED BY <1>2, <1>3, <1>4

(* What the interval divides is a multiple of it. *)
LEMMA Multiple ==
    ASSUME NEW a \in Nat, NEW i \in Nat \ {0}
    PROVE  a % i = 0 <=> \E p \in Nat : a = p * i
<1>1. a = i * (a \div i) + (a % i) /\ a % i \in 0 .. (i - 1) /\ a \div i \in Nat
  OBVIOUS
<1>2. a % i = 0 => a = (a \div i) * i
  BY <1>1
<1>3. ASSUME NEW p \in Nat, a = p * i PROVE a % i = 0
  <2> DEFINE q == a \div i
             r == a % i
  <2>1. a = q * i + r /\ r \in 0 .. (i - 1) /\ q \in Nat
    BY <1>1
  <2> HIDE DEF q, r
  <2>2. p * i \in Nat /\ q * i \in Nat
    BY <2>1
  <2>3. p <= q
    BY <1>3, <2>1, <2>2, Scale
  <2>4. ~(p < q)
    <3>1. p < q => p * i + i <= q * i
      BY <2>1, Scale
    <3> QED BY <1>3, <2>1, <2>2, <3>1
  <2>5. p = q
    BY <2>1, <2>3, <2>4
  <2>6. p * i = q * i
    BY <2>5
  <2>7. r = 0
    BY <1>3, <2>1, <2>2, <2>6
  <2> QED BY <2>7 DEF r
<1> QED BY <1>1, <1>2, <1>3

(* Multiples are at least their interval apart, and close under addition.  *)
LEMMA Grid ==
    ASSUME NEW i \in Nat \ {0}, NEW a \in Nat, NEW b \in Nat, a % i = 0, b % i = 0
    PROVE  /\ a < b + i => a <= b
           /\ a < b => a + i <= b
           /\ (a + i) % i = 0
           /\ b <= a => \E e \in Nat : a - b = e * i
<1>1. PICK p \in Nat, q \in Nat : a = p * i /\ b = q * i
  BY Multiple
<1>2. a < b + i => a <= b
  <2>1. a < b + i => p <= q
    BY <1>1, Scale
  <2>2. p < q => p * i + i <= q * i
    BY Scale
  <2>3. p = q \/ p < q \/ q < p
    OBVIOUS
  <2> QED BY <1>1, <2>1, <2>2, <2>3
<1>3. a < b => a + i <= b
  <2>1. (a < b => ~(q <= p)) /\ (p < q => p * i + i <= q * i)
    <3>1. q < p => q * i + i <= p * i
      BY Scale
    <3>2. q <= p => q = p \/ q < p
      OBVIOUS
    <3>3. p < q => p * i + i <= q * i
      BY Scale
    <3> QED BY <1>1, <3>1, <3>2, <3>3
  <2> QED BY <1>1, <2>1
<1>4. (a + i) % i = 0
  <2>1. p + 1 \in Nat /\ a + i = (p + 1) * i /\ a + i \in Nat
    BY <1>1
  <2> QED BY <2>1, Multiple
<1>5. ASSUME b <= a PROVE \E e \in Nat : a - b = e * i
  <2>1. q <= p
    <3>1. p < q => p * i + i <= q * i
      BY Scale
    <3> QED BY <1>1, <1>5, <3>1
  <2>2. p - q \in Nat /\ a - b = (p - q) * i
    BY <1>1, <2>1
  <2> QED BY <2>2
<1> QED BY <1>2, <1>3, <1>4, <1>5

(* A start rounded down to an interval.                                    *)
LEMMA RoundedDown ==
    ASSUME NEW i \in Nat \ {0}, NEW a \in Nat
    PROVE  /\ (a \div i) * i \in Nat /\ ((a \div i) * i) % i = 0
           /\ (a \div i) * i <= a
           /\ \A b \in Nat : b % i = 0 /\ b <= a => b <= (a \div i) * i
<1> DEFINE f == (a \div i) * i
<1>1. a \div i \in Nat /\ f \in Nat /\ f <= a /\ a < f + i
  BY Floor
<1>2. f % i = 0
  BY <1>1, Multiple
<1> HIDE DEF f
<1>3. ASSUME NEW b \in Nat, b % i = 0, b <= a PROVE b <= f
  <2>1. b < f + i
    BY <1>1, <1>3
  <2> QED BY <1>1, <1>2, <1>3, <2>1, Grid
<1> QED BY <1>1, <1>2, <1>3 DEF f

------------------------------------------------------------------------------

(* What status may take for granted of the rows: a gap or a segment ends   *)
(* where it begins or later, and not in the future, and has its partition. *)
RowsInv ==
    /\ Day \in Nat \ {0} /\ Horizon \in Nat /\ now \in 0 .. Horizon
    /\ gaps \subseteq UpTo(now) /\ \A g \in gaps : g[1] <= g[2]
    /\ Audit!SegmentSet \subseteq UpTo(now)
    /\ Filed

Over(b, i) == Audit!Overlapped(b, b + i)
Full(b, i) == Audit!Enough(Cardinality(Audit!Instants(b, b + i)), i)

(* Of a set of buckets: how many there are, a gap touches, are complete.   *)
Tally(X, i) ==
    <<Cardinality(X), Cardinality({b \in X : Over(b, i)}),
      Cardinality({b \in X : Full(b, i) /\ ~Over(b, i)})>>

(* Intervals up to m are intervals up to n. *)
LEMMA UpToGrows ==
    ASSUME NEW m \in Nat, NEW n \in Nat, m <= n
    PROVE  UpTo(m) \subseteq UpTo(n)
BY DEF UpTo

(* A bisection gives an index. *)
LEMMA BisectType ==
    ASSUME NEW merged, Apart(merged), NEW start \in Nat, NEW hint \in Nat
    PROVE  Audit!Bisect(merged, start, hint) \in Nat
<1> DEFINE before == {j \in hint .. Len(merged) : merged[j][1] <= start}
           index == IF before = {} THEN hint - 1 ELSE Audit!Max(before)
<1>1. Len(merged) \in Nat
  BY DEF Apart
<1>2. before # {} => Audit!Max(before) \in Nat
  <2>1. before \subseteq Nat /\ \A j \in before : j <= Len(merged)
    BY <1>1
  <2> HIDE DEF before
  <2> QED BY <1>1, <2>1, ExtremesOfBounded
<1>3. Audit!Bisect(merged, start, hint) = IF index < 1 THEN 1 ELSE index
  BY DEF Audit!Bisect
<1>4. index \in Int
  <2> HIDE DEF before
  <2> QED BY <1>2
<1> HIDE DEF index
<1> QED BY <1>3, <1>4

Counts == [closed : Nat, affected : Nat, complete : Nat, gapHint : Nat, covHint : Nat]

(* Hints that are good for a bucket; and the counts d, when c is counted on *)
(* by it.                                                                  *)
Hinted(c, start) ==
    /\ HintOK(Audit!MergedGaps, start, c.gapHint)
    /\ HintOK(Audit!MergeIntervals(Audit!SegmentSet), start, c.covHint)
OneMore(c, d, start, i) ==
    /\ d.closed = c.closed + 1
    /\ d.affected = c.affected + (IF Over(start, i) THEN 1 ELSE 0)
    /\ d.complete = c.complete + (IF Full(start, i) /\ ~Over(start, i) THEN 1 ELSE 0)
    /\ \A later \in Nat : later >= start => Hinted(d, later)

(* One bucket is counted for what it is, and the hints stay good.          *)
LEMMA CountOne ==
    ASSUME RowsInv, NEW i \in Nat \ {0}, NEW start \in Nat,
           NEW c \in Counts, NEW d, d = Audit!Count(c, start, i)
    PROVE  d \in Counts /\ (Hinted(c, start) => OneMore(c, d, start, i))
<1> DEFINE mg == Audit!MergedGaps
           ms == Audit!MergeIntervals(Audit!SegmentSet)
           gap == Audit!FastHasGap(mg, start, start + i, c.gapHint)
           cov == Audit!FastCovered(ms, start, start + i, c.covHint)
<1>1. d = [closed |-> c.closed + 1,
           affected |-> c.affected + (IF gap.any THEN 1 ELSE 0),
           complete |-> c.complete + (IF Audit!Enough(cov.sum, i) /\ ~gap.any THEN 1 ELSE 0),
           gapHint |-> gap.hint, covHint |-> cov.hint]
  BY DEF Audit!Count
<1>2. Apart(mg) /\ \A t \in Nat : HeldIn(mg, t) <=> HeldBy(gaps, t)
  <2>1. gaps \subseteq UpTo(Horizon)
    BY UpToGrows DEF RowsInv
  <2> QED BY <2>1, MergedGapsHold DEF RowsInv
<1>3. Apart(ms) /\ \A t \in Nat : HeldIn(ms, t) <=> HeldBy(Audit!SegmentSet, t)
  <2>1. Audit!SegmentSet \subseteq Pairs /\ IsFiniteSet(Audit!SegmentSet)
    BY UpToIsFinite DEF RowsInv
  <2> HIDE DEF ms
  <2> QED BY <2>1, MergeHolds DEF ms
<1>4. start + i \in Nat /\ start < start + i
  OBVIOUS
<1> HIDE DEF mg, ms
<1>5. gap.hint \in Nat /\ cov.hint \in Nat
  <2>1. gap.hint = c.gapHint \/ gap.hint = Audit!Bisect(mg, start, c.gapHint)
    BY DEF Audit!FastHasGap
  <2>2. cov.hint = c.covHint \/ cov.hint = Audit!Bisect(ms, start, c.covHint)
    BY DEF Audit!FastCovered
  <2>3. c.gapHint \in Nat /\ c.covHint \in Nat
    BY DEF Counts
  <2>4. Audit!Bisect(mg, start, c.gapHint) \in Nat /\ Audit!Bisect(ms, start, c.covHint) \in Nat
    BY <1>2, <1>3, <2>3, BisectType
  <2> HIDE DEF gap, cov
  <2> QED BY <2>1, <2>2, <2>3, <2>4
<1>6. ASSUME HintOK(mg, start, c.gapHint), HintOK(ms, start, c.covHint)
      PROVE  /\ gap.any <=> Over(start, i)
             /\ Audit!Enough(cov.sum, i) <=> Full(start, i)
             /\ \A later \in Nat : later >= start =>
                   HintOK(mg, later, gap.hint) /\ HintOK(ms, later, cov.hint)
  <2>1. /\ gap.any <=> \E j \in 1 .. Len(mg) : mg[j][1] < start + i /\ mg[j][2] >= start
        /\ \A later \in Nat : later >= start => HintOK(mg, later, gap.hint)
    BY <1>2, <1>4, <1>6, HintsSkipNothing
  <2>2. gaps \subseteq Pairs
    BY DEF RowsInv, UpTo, Pairs
  <2>3. gap.any <=> \E g \in gaps : g[1] < g[2] /\ g[1] < start + i /\ g[2] >= start
    BY <1>2, <1>4, <2>1, <2>2, SameTouches
  <2>4. gap.any <=> Over(start, i)
    BY <2>3 DEF Over, Audit!Overlapped
  <2>5. /\ cov.sum = Cardinality({t \in start .. (start + i - 1) : HeldIn(ms, t)})
        /\ \A later \in Nat : later >= start => HintOK(ms, later, cov.hint)
    <3>1. \A end \in Nat : LET r == Audit!FastCovered(ms, start, end, c.covHint) IN
             /\ r.sum = Cardinality({t \in start .. (end - 1) : HeldIn(ms, t)})
             /\ \A later \in Nat : later >= start => HintOK(ms, later, r.hint)
      BY <1>3, <1>6, CoveredIsCounted
    <3> QED BY <1>4, <3>1
  <2>6. {t \in start .. (start + i - 1) : HeldIn(ms, t)} = Audit!Instants(start, start + i)
    <3>1. \A t \in start .. (start + i - 1) :
              HeldIn(ms, t) <=> \E s \in Audit!SegmentSet : s[1] <= t /\ t < s[2]
      BY <1>3 DEF HeldBy, In
    <3> QED BY <3>1 DEF Audit!Instants
  <2>7. cov.sum = Cardinality(Audit!Instants(start, start + i))
    BY <2>5, <2>6
  <2> HIDE DEF cov
  <2>8. Audit!Enough(cov.sum, i) <=> Full(start, i)
    BY <2>7 DEF Full
  <2> QED BY <2>1, <2>4, <2>5, <2>8
<1> HIDE DEF gap, cov
<1>7. d \in Counts
  BY <1>1, <1>5 DEF Counts
<1>8. ASSUME HintOK(mg, start, c.gapHint), HintOK(ms, start, c.covHint)
      PROVE  /\ d.closed = c.closed + 1
             /\ d.affected = c.affected + (IF Over(start, i) THEN 1 ELSE 0)
             /\ d.complete = c.complete + (IF Full(start, i) /\ ~Over(start, i) THEN 1 ELSE 0)
             /\ \A later \in Nat : later >= start =>
                   HintOK(mg, later, d.gapHint) /\ HintOK(ms, later, d.covHint)
  BY <1>1, <1>6, <1>8
<1> QED BY <1>7, <1>8 DEF mg, ms, Hinted, OneMore

NoCount == [closed |-> 0, affected |-> 0, complete |-> 0, gapHint |-> 1, covHint |-> 1]

(* The buckets of a day, one by one.                                       *)
NumberOf(i, first, last) == IF first > last THEN 0 ELSE (last - first) \div i + 1
CountSteps(c, i, first, last) ==
    c = [n \in 0 .. NumberOf(i, first, last) |->
            IF n = 0 THEN [closed |-> 0, affected |-> 0, complete |-> 0, gapHint |-> 1, covHint |-> 1]
            ELSE Audit!Count(c[n - 1], first + (n - 1) * i, i)]

CountedBy(c, i, first, last, n) ==
    /\ c \in [0 .. n -> Counts] /\ c[0] = NoCount
    /\ \A k \in 1 .. n : c[k] = Audit!Count(c[k - 1], first + (k - 1) * i, i)
    /\ Audit!Buckets(i, first, last) = <<c[n].closed, c[n].affected, c[n].complete>>

(* The counting of a day's buckets exists, and ends with its result. *)
LEMMA CountSolved ==
    ASSUME RowsInv, NEW i \in Nat \ {0}, NEW first \in Nat, NEW last \in Nat,
           NEW n, n = NumberOf(i, first, last)
    PROVE  n \in Nat /\ \E c : CountedBy(c, i, first, last, n)
<1>1. n \in Nat
  <2>1. ASSUME ~(first > last) PROVE (last - first) \div i \in Nat
    <3>1. last - first \in Nat
      BY <2>1
    <3> QED BY <3>1, Floor
  <2> QED BY <2>1 DEF NumberOf
<1>2. \A c \in Counts, k \in 1 .. n : Audit!Count(c, first + (k - 1) * i, i) \in Counts
  <2> SUFFICES ASSUME NEW c \in Counts, NEW k \in 1 .. n
               PROVE  Audit!Count(c, first + (k - 1) * i, i) \in Counts
    OBVIOUS
  <2>1. k - 1 \in Nat
    BY <1>1
  <2> DEFINE start == first + (k - 1) * i
             d == Audit!Count(c, start, i)
  <2>2. start \in Nat
    BY <2>1
  <2> HIDE DEF start, d, RowsInv
  <2>3. d \in Counts
    BY <2>2, CountOne DEF d
  <2> QED BY <2>3 DEF d, start
<1> DEFINE F == [x \in Counts \X Nat |->
                    IF x[2] \in 1 .. n THEN Audit!Count(x[1], first + (x[2] - 1) * i, i) ELSE x[1]]
<1>3. F \in [Counts \X Nat -> Counts]
  <2>1. \A x \in Counts \X Nat : x[1] \in Counts
    OBVIOUS
  <2> HIDE DEF RowsInv
  <2>2. ASSUME NEW x \in Counts \X Nat PROVE F[x] \in Counts
    BY <1>2, <2>1
  <2> QED BY <2>2
<1>4. NoCount \in Counts
  BY DEF NoCount, Counts
<1>5. PICK h \in [0 .. n -> Counts] : Iterated(h, n, NoCount, F)
  <2> HIDE DEF F
  <2> QED BY <1>1, <1>3, <1>4, Iterates
<1>6. CountSteps(h, i, first, last)
  <2>1. ASSUME NEW k \in 0 .. n
        PROVE  h[k] = IF k = 0 THEN NoCount ELSE Audit!Count(h[k - 1], first + (k - 1) * i, i)
    <3>1. CASE k = 0
      BY <1>5, <3>1 DEF Iterated
    <3>2. CASE k # 0
      <4>1. k \in 1 .. n /\ k \in Nat /\ k - 1 \in 0 .. n
        BY <1>1, <3>2
      <4>2. <<h[k - 1], k>> \in Counts \X Nat
        BY <1>5, <4>1
      <4>3. F[<<h[k - 1], k>>] = Audit!Count(h[k - 1], first + (k - 1) * i, i)
        BY <4>1, <4>2
      <4>4. h[k] = F[<<h[k - 1], k>>]
        <5> HIDE DEF F
        <5> QED BY <1>5, <3>2 DEF Iterated
      <4> QED BY <3>2, <4>3, <4>4
    <3> QED BY <3>1, <3>2
  <2>2. h = [k \in 0 .. n |-> h[k]]
    BY <1>5
  <2> QED BY <2>1, <2>2 DEF CountSteps, NoCount
<1> DEFINE c == CHOOSE g : CountSteps(g, i, first, last)
<1>7. CountSteps(c, i, first, last)
  BY <1>6
<1> DEFINE all == c[NumberOf(i, first, last)]
<1>8. Audit!Buckets(i, first, last) = <<all.closed, all.affected, all.complete>>
  BY DEF Audit!Buckets, CountSteps, NumberOf
<1> HIDE DEF c
<1>9. c = [k \in 0 .. n |-> IF k = 0 THEN NoCount ELSE Audit!Count(c[k - 1], first + (k - 1) * i, i)]
  BY <1>7 DEF CountSteps, NoCount
<1>10. \A k \in 0 .. n : c[k] = IF k = 0 THEN NoCount ELSE Audit!Count(c[k - 1], first + (k - 1) * i, i)
  BY <1>9
<1>11. \A k \in 0 .. n : c[k] \in Counts
  <2> DEFINE T == {k \in 0 .. n : c[k] \in Counts}
  <2>1. 0 \in T
    BY <1>1, <1>4, <1>10
  <2>2. ASSUME NEW k \in 1 .. n, k - 1 \in T PROVE k \in T
    <3>1. k \in 0 .. n /\ k # 0 /\ c[k - 1] \in Counts
      BY <2>2
    <3>2. c[k] = Audit!Count(c[k - 1], first + (k - 1) * i, i)
      BY <1>10, <3>1
    <3>3. c[k] \in Counts
      BY <1>2, <3>1, <3>2
    <3> QED BY <3>1, <3>3
  <2> HIDE DEF T
  <2>3. \A k \in 0 .. n : k \in T
    BY <1>1, <2>1, <2>2, Counting
  <2> QED BY <2>3 DEF T
<1>12. c \in [0 .. n -> Counts]
  BY <1>9, <1>11
<1>13. c[0] = NoCount /\ \A k \in 1 .. n : c[k] = Audit!Count(c[k - 1], first + (k - 1) * i, i)
  BY <1>1, <1>10
<1>14. CountedBy(c, i, first, last, n)
  BY <1>8, <1>12, <1>13 DEF CountedBy
<1> QED BY <1>1, <1>14

(* The first n buckets from first on, and all of them up to last.          *)
Run(i, first, n) == {first + (k - 1) * i : k \in 1 .. n}

Lengthens(i, first, n) ==
    /\ Run(i, first, n) = Run(i, first, n - 1) \cup {first + (n - 1) * i}
    /\ first + (n - 1) * i \notin Run(i, first, n - 1)
    /\ first + (n - 1) * i \in Nat /\ first + (n - 1) * i <= first + n * i
    /\ first + n * i \in Nat

(* The buckets so far grow by the next one. *)
LEMMA RunSteps ==
    ASSUME NEW i \in Nat \ {0}, NEW first \in Nat, NEW n \in Nat \ {0}
    PROVE  Lengthens(i, first, n)
<1>1. \A k : k \in 1 .. n <=> k \in 1 .. (n - 1) \/ k = n
  OBVIOUS
<1>2. ASSUME NEW k \in 1 .. (n - 1) PROVE first + (k - 1) * i # first + (n - 1) * i
  <2>1. k - 1 \in Nat /\ n - 1 \in Nat /\ k - 1 < n - 1
    OBVIOUS
  <2>2. (k - 1) * i \in Nat /\ (n - 1) * i \in Nat /\ (k - 1) * i + i <= (n - 1) * i
    BY <2>1, Scale
  <2> QED BY <2>2
<1>3. n - 1 \in Nat /\ n - 1 < n
  OBVIOUS
<1>4. (n - 1) * i \in Nat /\ n * i \in Nat /\ (n - 1) * i + i <= n * i
  BY <1>3, Scale
<1>6. Run(i, first, n) = Run(i, first, n - 1) \cup {first + (n - 1) * i}
  BY <1>1 DEF Run
<1>7. first + (n - 1) * i \notin Run(i, first, n - 1)
  BY <1>2 DEF Run
<1>8. /\ first + (n - 1) * i \in Nat /\ first + (n - 1) * i <= first + n * i
      /\ first + n * i \in Nat
  BY <1>4
<1> QED BY <1>6, <1>7, <1>8 DEF Lengthens

(* The buckets counted are all that begin from first to last. *)
LEMMA RunIsAll ==
    ASSUME NEW i \in Nat \ {0}, NEW first \in Nat, first % i = 0, NEW last \in Nat,
           NEW n, n = NumberOf(i, first, last)
    PROVE  Run(i, first, n) = {b \in Nat : b % i = 0 /\ first <= b /\ b <= last}
<1>1. CASE first > last
  <2>1. n = 0
    BY <1>1 DEF NumberOf
  <2>2. Run(i, first, n) = {}
    BY <2>1 DEF Run
  <2> QED BY <1>1, <2>2
<1>2. CASE ~(first > last)
  <2> DEFINE m == (last - first) \div i
  <2>1. last - first \in Nat /\ n = m + 1
    BY <1>2 DEF NumberOf
  <2>2. m \in Nat /\ m * i \in Nat /\ m * i <= last - first /\ last - first < m * i + i
    BY <2>1, Floor
  <2> HIDE DEF m
  <2>3. ASSUME NEW k \in 1 .. n
        PROVE  LET b == first + (k - 1) * i IN b \in Nat /\ b % i = 0 /\ first <= b /\ b <= last
    <3> DEFINE e == k - 1
    <3>1. e \in Nat /\ e <= m
      BY <2>1, <2>2
    <3> HIDE DEF e
    <3>2. e * i \in Nat /\ (e < m => e * i + i <= m * i)
      BY <2>2, <3>1, Scale
    <3>3. e * i <= m * i
      <4>1. CASE e < m
        BY <2>2, <3>2, <4>1
      <4>2. CASE e = m
        BY <2>2, <4>2
      <4> QED BY <2>2, <3>1, <4>1, <4>2
    <3>4. PICK p \in Nat : first = p * i
      BY Multiple
    <3>5. first + e * i \in Nat /\ first + e * i = (p + e) * i /\ p + e \in Nat
      BY <3>1, <3>2, <3>4
    <3>6. (first + e * i) % i = 0
      BY <3>5, Multiple
    <3>7. first <= first + e * i /\ first + e * i <= last
      BY <2>1, <2>2, <3>2, <3>3
    <3> QED BY <3>5, <3>6, <3>7 DEF e
  <2>4. ASSUME NEW b \in Nat, b % i = 0, first <= b, b <= last
        PROVE  \E k \in 1 .. n : b = first + (k - 1) * i
    <3>1. PICK e \in Nat : b - first = e * i
      BY <2>4, Grid
    <3>2. e * i < m * i + i
      BY <2>2, <2>4, <3>1
    <3>3. e <= m
      BY <2>2, <3>2, Scale
    <3>4. e + 1 \in 1 .. n /\ (e + 1) - 1 = e
      BY <2>1, <2>2, <3>3
    <3>5. b = first + ((e + 1) - 1) * i
      BY <2>4, <3>1, <3>4
    <3> QED BY <3>4, <3>5
  <2> QED BY <2>3, <2>4 DEF Run
<1> QED BY <1>1, <1>2

(* The tally of Y is that of X with the bucket b.                          *)
OneTallied(X, Y, b, i) ==
    /\ IsFiniteSet(Y)
    /\ Tally(Y, i)[1] = Tally(X, i)[1] + 1
    /\ Tally(Y, i)[2] = Tally(X, i)[2] + (IF Over(b, i) THEN 1 ELSE 0)
    /\ Tally(Y, i)[3] = Tally(X, i)[3] + (IF Full(b, i) /\ ~Over(b, i) THEN 1 ELSE 0)

(* Tallying one more bucket.                                               *)
LEMMA TallyGrows ==
    ASSUME NEW X, IsFiniteSet(X), NEW b, b \notin X, NEW i,
           NEW Y, Y = X \cup {b}
    PROVE  OneTallied(X, Y, b, i)
<1>1. ASSUME NEW Z, Z \subseteq X
      PROVE  /\ IsFiniteSet(Z) /\ Cardinality(Z) \in Nat
             /\ IsFiniteSet(Z \cup {b}) /\ Cardinality(Z \cup {b}) = Cardinality(Z) + 1
  <2>1. IsFiniteSet(Z) /\ b \notin Z
    BY <1>1, FS_Subset
  <2> QED BY <2>1, FS_AddElement, FS_CardinalityType
<1> DEFINE hit(S) == {x \in S : Over(x, i)}
           good(S) == {x \in S : Full(x, i) /\ ~Over(x, i)}
<1>2. hit(Y) = IF Over(b, i) THEN hit(X) \cup {b} ELSE hit(X)
  OBVIOUS
<1>3. good(Y) = IF Full(b, i) /\ ~Over(b, i) THEN good(X) \cup {b} ELSE good(X)
  OBVIOUS
<1>4. hit(X) \subseteq X /\ good(X) \subseteq X
  OBVIOUS
<1>5. \A S : /\ Tally(S, i)[1] = Cardinality(S) /\ Tally(S, i)[2] = Cardinality(hit(S))
             /\ Tally(S, i)[3] = Cardinality(good(S))
  BY DEF Tally
<1> HIDE DEF hit, good
<1>6. Cardinality(hit(Y)) = Cardinality(hit(X)) + (IF Over(b, i) THEN 1 ELSE 0) /\ Cardinality(hit(X)) \in Nat
  <2>1. Cardinality(hit(X)) \in Nat /\ Cardinality(hit(X) \cup {b}) = Cardinality(hit(X)) + 1
    BY <1>1, <1>4
  <2> QED BY <1>2, <2>1
<1>7. /\ Cardinality(good(Y)) = Cardinality(good(X)) + (IF Full(b, i) /\ ~Over(b, i) THEN 1 ELSE 0)
      /\ Cardinality(good(X)) \in Nat
  <2>1. Cardinality(good(X)) \in Nat /\ Cardinality(good(X) \cup {b}) = Cardinality(good(X)) + 1
    BY <1>1, <1>4
  <2> QED BY <1>3, <2>1
<1> QED BY <1>1, <1>5, <1>6, <1>7 DEF OneTallied

(* What a day's loop counts is the tally of its buckets.                   *)
LEMMA BucketsTally ==
    ASSUME RowsInv, NEW i \in Nat \ {0}, NEW first \in Nat, first % i = 0, NEW last \in Nat
    PROVE  Audit!Buckets(i, first, last)
             = Tally({b \in Nat : b % i = 0 /\ first <= b /\ b <= last}, i)
<1> DEFINE n == NumberOf(i, first, last)
           mg == Audit!MergedGaps
           ms == Audit!MergeIntervals(Audit!SegmentSet)
<1>1. n \in Nat
  BY CountSolved
<1>2. PICK c : CountedBy(c, i, first, last, n)
  BY CountSolved
<1>20. /\ c \in [0 .. n -> Counts] /\ c[0] = NoCount
       /\ \A k \in 1 .. n : c[k] = Audit!Count(c[k - 1], first + (k - 1) * i, i)
       /\ Audit!Buckets(i, first, last) = <<c[n].closed, c[n].affected, c[n].complete>>
  BY <1>2 DEF CountedBy
<1> DEFINE X(k) == Run(i, first, k)
           T == {k \in 0 .. n :
                   /\ IsFiniteSet(X(k))
                   /\ c[k].closed = Tally(X(k), i)[1]
                   /\ c[k].affected = Tally(X(k), i)[2]
                   /\ c[k].complete = Tally(X(k), i)[3]
                   /\ HintOK(mg, first + k * i, c[k].gapHint)
                   /\ HintOK(ms, first + k * i, c[k].covHint)}
<1> HIDE DEF n, X, mg, ms
<1>3. 0 \in T
  <2>1. X(0) = {}
    BY DEF Run, X
  <2>2. Tally({}, i)[1] = 0 /\ Tally({}, i)[2] = 0 /\ Tally({}, i)[3] = 0
    <3>1. {b \in {} : Over(b, i)} = {} /\ {b \in {} : Full(b, i) /\ ~Over(b, i)} = {}
      OBVIOUS
    <3> QED BY <3>1, FS_EmptySet DEF Tally
  <2>3. \A s : HintOK(mg, s, 1) /\ HintOK(ms, s, 1)
    BY DEF HintOK
  <2>4. /\ c[0].closed = 0 /\ c[0].affected = 0 /\ c[0].complete = 0
        /\ c[0].gapHint = 1 /\ c[0].covHint = 1
    BY <1>20 DEF NoCount
  <2>5. 0 \in 0 .. n
    BY <1>1
  <2> QED BY <2>1, <2>2, <2>3, <2>4, <2>5, FS_EmptySet
<1>4. ASSUME NEW k \in 1 .. n, k - 1 \in T PROVE k \in T
  <2> DEFINE b == first + (k - 1) * i
             later == first + k * i
             p == c[k - 1]
             d == c[k]
  <2>1. /\ X(k) = X(k - 1) \cup {b} /\ b \notin X(k - 1)
        /\ b \in Nat /\ later \in Nat /\ b <= later
    <3>1. k \in Nat \ {0}
      BY <1>1
    <3> HIDE DEF T, p, d
    <3>2. Lengthens(i, first, k)
      BY <3>1, RunSteps
    <3> QED BY <3>2 DEF X, Lengthens
  <2>2. p \in Counts /\ d = Audit!Count(p, b, i) /\ k \in 0 .. n
    <3>1. k - 1 \in 0 .. n
      BY <1>1
    <3> QED BY <1>20, <3>1
  <2>3. /\ IsFiniteSet(X(k - 1))
        /\ p.closed = Tally(X(k - 1), i)[1]
        /\ p.affected = Tally(X(k - 1), i)[2]
        /\ p.complete = Tally(X(k - 1), i)[3]
        /\ HintOK(mg, b, p.gapHint) /\ HintOK(ms, b, p.covHint)
    BY <1>4
  <2> HIDE DEF T
  <2>4. /\ d.closed = p.closed + 1
        /\ d.affected = p.affected + (IF Over(b, i) THEN 1 ELSE 0)
        /\ d.complete = p.complete + (IF Full(b, i) /\ ~Over(b, i) THEN 1 ELSE 0)
        /\ HintOK(mg, later, d.gapHint) /\ HintOK(ms, later, d.covHint)
    <3> HIDE DEF b, p, d, later, RowsInv
    <3>1. Hinted(p, b)
      BY <2>3 DEF Hinted, mg, ms
    <3>2. OneMore(p, d, b, i)
      BY <2>1, <2>2, <3>1, CountOne
    <3>3. later >= b
      BY <2>1
    <3> QED BY <2>1, <3>2, <3>3 DEF OneMore, Hinted, mg, ms
  <2>5. /\ IsFiniteSet(X(k))
        /\ Tally(X(k), i)[1] = Tally(X(k - 1), i)[1] + 1
        /\ Tally(X(k), i)[2] = Tally(X(k - 1), i)[2] + (IF Over(b, i) THEN 1 ELSE 0)
        /\ Tally(X(k), i)[3] = Tally(X(k - 1), i)[3] + (IF Full(b, i) /\ ~Over(b, i) THEN 1 ELSE 0)
    <3> DEFINE before == X(k - 1)
               after == X(k)
    <3>1. IsFiniteSet(before) /\ b \notin before /\ after = before \cup {b}
      BY <2>1, <2>3
    <3> HIDE DEF b, before, after
    <3>2. OneTallied(before, after, b, i)
      BY <3>1, TallyGrows
    <3> QED BY <3>2 DEF OneTallied, before, after
  <2> HIDE DEF b, p
  <2> QED BY <2>2, <2>3, <2>4, <2>5 DEF T
<1>5. n \in T
  <2> HIDE DEF T
  <2>1. \A k \in 0 .. n : k \in T
    BY <1>1, <1>3, <1>4, Counting
  <2> QED BY <1>1, <2>1
<1>6. Audit!Buckets(i, first, last) = <<Tally(X(n), i)[1], Tally(X(n), i)[2], Tally(X(n), i)[3]>>
  BY <1>20, <1>5
<1>7. Tally(X(n), i) = <<Tally(X(n), i)[1], Tally(X(n), i)[2], Tally(X(n), i)[3]>>
  BY DEF Tally
<1>8. X(n) = {b \in Nat : b % i = 0 /\ first <= b /\ b <= last}
  BY RunIsAll DEF X, n
<1> QED BY <1>6, <1>7, <1>8

------------------------------------------------------------------------------

(* The buckets of a day, when the evaluation starts at s; those that are   *)
(* over.                                                                   *)
BucketsOf(d, i, s) ==
    {b \in Nat : d * Day <= b /\ b < (d + 1) * Day /\ b % i = 0 /\ (s \div i) * i <= b}
Ended(d, i, s) == {b \in BucketsOf(d, i, s) : b + i <= now}

(* A day is a whole number of every interval.                              *)
WholeDays == Intervals \subseteq Nat \ {0} /\ \A i \in Intervals : Day % i = 0

(* The tally of a set of buckets, from the gaps G and the segments H.      *)
Touched(G, b, i) == \E g \in G : g[1] < g[2] /\ g[1] < b + i /\ g[2] >= b
Filled(H, b, i) == Audit!Enough(Cardinality({t \in b .. (b + i - 1) : HeldBy(H, t)}), i)
TallyFrom(G, H, X, i) ==
    <<Cardinality(X), Cardinality({b \in X : Touched(G, b, i)}),
      Cardinality({b \in X : Filled(H, b, i) /\ ~Touched(G, b, i)})>>

(* The tally of a set of buckets depends on the gaps and the segments only. *)
LEMMA TallyIsFrom ==
    ASSUME NEW X, X \subseteq Nat, NEW i \in Nat
    PROVE  Tally(X, i) = TallyFrom(gaps, Audit!SegmentSet, X, i)
<1>1. \A b : Over(b, i) <=> Touched(gaps, b, i)
  BY DEF Over, Audit!Overlapped, Touched
<1>2. ASSUME NEW b \in Nat PROVE Full(b, i) <=> Filled(Audit!SegmentSet, b, i)
  <2>1. \A t \in b .. (b + i - 1) :
            HeldBy(Audit!SegmentSet, t) <=> \E j \in Audit!SegmentSet : j[1] <= t /\ t < j[2]
    BY DEF HeldBy, In
  <2>2. Audit!Instants(b, b + i) = {t \in b .. (b + i - 1) : HeldBy(Audit!SegmentSet, t)}
    BY <2>1 DEF Audit!Instants
  <2> QED BY <2>2 DEF Full, Filled
<1>3. {b \in X : Over(b, i)} = {b \in X : Touched(gaps, b, i)}
  BY <1>1
<1>4. {b \in X : Full(b, i) /\ ~Over(b, i)}
        = {b \in X : Filled(Audit!SegmentSet, b, i) /\ ~Touched(gaps, b, i)}
  BY <1>1, <1>2
<1> QED BY <1>3, <1>4 DEF Tally, TallyFrom

(* A summary tells the buckets of its day, for the start it was made with. *)
SummariesInv ==
    \A d \in Audit!Days :
        summary[d].known =>
            /\ d \in sealed /\ summary[d].start \in Nat
            /\ \A i \in Intervals :
                  summary[d].counts[i]
                    = TallyFrom(gaps, Audit!SegmentSet, BucketsOf(d, i, summary[d].start), i)

AuditInv ==
    /\ RowsInv
    /\ segs \in Seq(Pairs)
    /\ open \in BOOLEAN /\ (open => segs # <<>> /\ segs[Len(segs)][2] = now)
    /\ sealed \subseteq Audit!Days /\ \A d \in sealed : (d + 1) * Day <= now
    /\ SummariesInv

(* The evaluation starts at a time. *)
LEMMA StartType == ASSUME RowsInv PROVE Audit!EvaluationStart \in Nat
<1>1. CASE segs = <<>>
  BY <1>1 DEF Audit!EvaluationStart, RowsInv
<1>2. CASE segs # <<>>
  <2> DEFINE T == {i[1] : i \in Audit!SegmentSet}
  <2>1. T \subseteq Nat /\ now \in Nat /\ \A x \in T : x <= now
    BY DEF RowsInv, UpTo
  <2>2. CASE T # {}
    <3> HIDE DEF T
    <3>1. Audit!Min(T) \in T
      BY <2>1, <2>2, ExtremesOfBounded
    <3> QED BY <1>2, <2>1, <3>1 DEF Audit!EvaluationStart, T
  <2>3. CASE T = {}
    <3>1. Audit!SegmentSet = {}
      BY <2>3
    <3>2. DOMAIN segs = {}
      BY <3>1 DEF Audit!SegmentSet, Audit!ToSet
    <3> QED BY <1>2, <3>2
  <2> QED BY <2>2, <2>3
<1> QED BY <1>1, <1>2

(* A day begins and ends with buckets of every interval. *)
LEMMA DayBounds ==
    ASSUME Day \in Nat \ {0}, WholeDays, NEW d \in Nat, NEW i \in Intervals
    PROVE  /\ i \in Nat \ {0} /\ d * Day \in Nat /\ (d + 1) * Day \in Nat
           /\ (d * Day) % i = 0 /\ ((d + 1) * Day) % i = 0
           /\ d * Day < (d + 1) * Day /\ (d + 1) * Day = d * Day + Day
<1>1. i \in Nat \ {0} /\ Day % i = 0
  BY DEF WholeDays
<1>2. PICK p \in Nat : Day = p * i
  BY <1>1, Multiple
<1>3. \A e \in Nat : e * Day \in Nat /\ (e * Day) % i = 0
  <2> SUFFICES ASSUME NEW e \in Nat PROVE e * Day \in Nat /\ (e * Day) % i = 0
    OBVIOUS
  <2>1. e * Day \in Nat /\ e * p \in Nat
    OBVIOUS
  <2>2. e * Day = (e * p) * i
    BY <1>1, <1>2
  <2> QED BY <1>1, <2>1, <2>2, Multiple
<1>4. (d + 1) * Day = d * Day + Day
  OBVIOUS
<1>5. d + 1 \in Nat
  OBVIOUS
<1>6. d * Day \in Nat /\ (d + 1) * Day \in Nat /\ (d * Day) % i = 0 /\ ((d + 1) * Day) % i = 0
  BY <1>3, <1>5
<1> QED BY <1>1, <1>4, <1>6

(* The first bucket of a day begins the buckets of the day. *)
LEMMA FirstBucketOf ==
    ASSUME RowsInv, WholeDays, NEW d \in Nat, NEW i \in Intervals,
           NEW f, f = Audit!FirstBucket(d, i)
    PROVE  /\ f \in Nat /\ f % i = 0
           /\ \A b \in Nat : f <= b <=> d * Day <= b /\ (Audit!EvaluationStart \div i) * i <= b
<1> DEFINE s == Audit!EvaluationStart
           g == (s \div i) * i
           day == d * Day
<1>1. /\ i \in Nat \ {0} /\ day \in Nat /\ day % i = 0
  BY DayBounds DEF RowsInv
<1>2. s \in Nat
  BY StartType
<1>3. g \in Nat /\ g % i = 0
  <2> HIDE DEF s
  <2> QED BY <1>1, <1>2, RoundedDown
<1>4. f = IF day > g THEN day ELSE g
  BY DEF Audit!FirstBucket, Audit!Larger
<1> HIDE DEF s, g, day
<1>5. f \in Nat /\ f % i = 0 /\ \A b \in Nat : f <= b <=> day <= b /\ g <= b
  BY <1>1, <1>3, <1>4
<1> QED BY <1>5 DEF day, g, s

(* The buckets of a day that is over are over.                             *)
LEMMA DayIsOver ==
    ASSUME RowsInv, WholeDays, NEW d \in Nat, NEW i \in Intervals, (d + 1) * Day <= now, NEW s
    PROVE  Ended(d, i, s) = BucketsOf(d, i, s)
<1> DEFINE next == (d + 1) * Day
<1>1. i \in Nat \ {0} /\ next \in Nat /\ next % i = 0 /\ next <= now /\ now \in Nat
  BY DayBounds DEF RowsInv
<1> HIDE DEF next
<1>2. ASSUME NEW b \in Nat, b < next, b % i = 0 PROVE b + i <= now
  <2>1. b + i <= next
    BY <1>1, <1>2, Grid
  <2> QED BY <1>1, <2>1
<1> QED BY <1>2 DEF Ended, BucketsOf, next

(* A sealed day, from the cache or not; an open day; any day so far.       *)
LEMMA SealedExact ==
    ASSUME AuditInv, WholeDays, NEW d \in sealed, NEW i \in Intervals
    PROVE  Audit!SealedBuckets(d)[i] = Tally(BucketsOf(d, i, Audit!EvaluationStart), i)
<1> DEFINE s == Audit!EvaluationStart
           o == summary[d].start
           f == Audit!FirstBucket(d, i)
           day == d * Day
           next == (d + 1) * Day
<1>1. d \in Audit!Days /\ d \in Nat /\ RowsInv /\ s \in Nat
  <2>1. d \in Audit!Days /\ RowsInv
    BY DEF AuditInv
  <2>2. Audit!Days \subseteq Nat
    BY DEF Audit!Days
  <2> QED BY <2>1, <2>2, StartType
<1>2. /\ i \in Nat \ {0} /\ day \in Nat /\ next \in Nat /\ day % i = 0 /\ next % i = 0
      /\ day < next
  BY <1>1, DayBounds DEF RowsInv
<1>3. CASE Audit!SummaryValid(d)
  <2>1. /\ summary[d].known
        /\ o = s \/ (o <= day /\ s <= day)
    BY <1>3 DEF Audit!SummaryValid
  <2>2. o \in Nat /\ summary[d].counts[i] = Tally(BucketsOf(d, i, o), i)
    <3>1. BucketsOf(d, i, o) \subseteq Nat /\ i \in Nat
      BY <1>2 DEF BucketsOf
    <3>2. Tally(BucketsOf(d, i, o), i) = TallyFrom(gaps, Audit!SegmentSet, BucketsOf(d, i, o), i)
      BY <3>1, TallyIsFrom
    <3> QED BY <1>1, <2>1, <3>2 DEF AuditInv, SummariesInv
  <2> HIDE DEF s, o, day
  <2>3. BucketsOf(d, i, o) = BucketsOf(d, i, s)
    <3>1. CASE o = s
      BY <3>1
    <3>2. CASE o <= day /\ s <= day
      <4> DEFINE fo == (o \div i) * i
                 fs == (s \div i) * i
      <4>1. fo \in Nat /\ fo <= o /\ fs \in Nat /\ fs <= s
        BY <1>1, <1>2, <2>2, RoundedDown
      <4> HIDE DEF fo, fs
      <4>2. fo <= day /\ fs <= day
        BY <1>1, <1>2, <2>2, <3>2, <4>1
      <4>3. \A b \in Nat : day <= b => (fo <= b <=> fs <= b)
        BY <1>2, <4>1, <4>2
      <4> QED BY <4>3 DEF BucketsOf, day, fo, fs
    <3> QED BY <2>1, <3>1, <3>2
  <2>4. Audit!SealedBuckets(d)[i] = summary[d].counts[i]
    BY <1>3 DEF Audit!SealedBuckets
  <2> QED BY <2>2, <2>3, <2>4 DEF s
<1>4. CASE ~Audit!SummaryValid(d)
  <2>1. Audit!SealedBuckets(d)[i] = Audit!Buckets(i, f, next - 1)
    BY <1>4 DEF Audit!SealedBuckets
  <2>2. f \in Nat /\ f % i = 0 /\ \A b \in Nat : f <= b <=> day <= b /\ (s \div i) * i <= b
    BY <1>1, FirstBucketOf
  <2> HIDE DEF f, s, day, next
  <2>3. next - 1 \in Nat
    BY <1>2
  <2>4. Audit!Buckets(i, f, next - 1) = Tally({b \in Nat : b % i = 0 /\ f <= b /\ b <= next - 1}, i)
    BY <1>1, <1>2, <2>2, <2>3, BucketsTally
  <2>5. \A b \in Nat : b <= next - 1 <=> b < next
    BY <1>2
  <2>6. {b \in Nat : b % i = 0 /\ f <= b /\ b <= next - 1} = BucketsOf(d, i, s)
    BY <2>2, <2>5 DEF BucketsOf, day, next
  <2> QED BY <2>1, <2>4, <2>6 DEF s
<1> QED BY <1>3, <1>4

(* An open day is counted by the buckets that are over. *)
LEMMA OpenExact ==
    ASSUME AuditInv, WholeDays, NEW d \in Nat, NEW i \in Intervals
    PROVE  Audit!OpenBuckets(d)[i] = Tally(Ended(d, i, Audit!EvaluationStart), i)
<1> DEFINE s == Audit!EvaluationStart
           f == Audit!FirstBucket(d, i)
           day == d * Day
           next == (d + 1) * Day
           m == Audit!Smaller(next, now)
           end == (m \div i) * i
           X == Ended(d, i, s)
<1>1. RowsInv /\ s \in Nat /\ now \in Nat
  BY StartType DEF AuditInv, RowsInv
<1>2. /\ i \in Nat \ {0} /\ day \in Nat /\ next \in Nat /\ day % i = 0 /\ next % i = 0
      /\ day < next
  BY <1>1, DayBounds DEF RowsInv
<1>3. f \in Nat /\ f % i = 0 /\ \A b \in Nat : f <= b <=> day <= b /\ (s \div i) * i <= b
  BY <1>1, FirstBucketOf
<1>4. Audit!OpenBuckets(d)[i] = IF end < i THEN <<0, 0, 0>> ELSE Audit!Buckets(i, f, end - i)
  BY DEF Audit!OpenBuckets
<1>5. \A b : b \in X <=> /\ b \in Nat /\ f <= b /\ b < next /\ b % i = 0 /\ b + i <= now
  <2> HIDE DEF f
  <2> QED BY <1>3 DEF Ended, BucketsOf
<1> HIDE DEF s, f, day, next, X
<1>6. m \in Nat /\ \A b \in Nat : b <= m <=> b <= next /\ b <= now
  BY <1>1, <1>2 DEF Audit!Smaller
<1> HIDE DEF m
<1>7. /\ end \in Nat /\ end % i = 0 /\ end <= m
      /\ \A b \in Nat : b % i = 0 /\ b <= m => b <= end
  BY <1>2, <1>6, RoundedDown
<1> HIDE DEF end
<1>8. ASSUME NEW b \in Nat, b % i = 0 PROVE b < next /\ b + i <= now <=> b + i <= end
  <2>1. b + i \in Nat /\ (b + i) % i = 0 /\ (b < next => b + i <= next)
    <3>1. i \in Nat \ {0} /\ next \in Nat /\ next % i = 0
      BY <1>2
    <3>2. (b + i) % i = 0
      BY <1>8, <3>1, Grid
    <3>3. b < next => b + i <= next
      BY <1>8, <3>1, Grid
    <3> QED BY <3>1, <3>2, <3>3
  <2>2. b + i <= next => b < next
    BY <1>2, <1>8
  <2>3. b + i <= m => b + i <= end
    BY <1>7, <2>1
  <2>4. b + i <= end => b + i <= m
    BY <1>6, <1>7, <2>1
  <2>5. b + i <= m <=> b + i <= next /\ b + i <= now
    BY <1>6, <2>1
  <2> QED BY <2>1, <2>2, <2>3, <2>4, <2>5
<1>9. CASE end < i
  <2>1. X = {}
    <3>1. \A b \in Nat : ~(b + i <= end)
      BY <1>2, <1>7, <1>9
    <3> QED BY <1>5, <1>8, <3>1
  <2>2. {b \in X : Over(b, i)} = {} /\ {b \in X : Full(b, i) /\ ~Over(b, i)} = {}
    BY <2>1
  <2>3. Tally(X, i) = <<0, 0, 0>>
    BY <2>1, <2>2, FS_EmptySet DEF Tally
  <2> QED BY <1>4, <1>9, <2>3 DEF X, s
<1>10. CASE ~(end < i)
  <2>1. end - i \in Nat
    BY <1>2, <1>7, <1>10
  <2>2. Audit!Buckets(i, f, end - i) = Tally({b \in Nat : b % i = 0 /\ f <= b /\ b <= end - i}, i)
    BY <1>1, <1>2, <1>3, <2>1, BucketsTally
  <2>3. \A b \in Nat : b <= end - i <=> b + i <= end
    BY <1>2, <1>7
  <2>4. X = {b \in Nat : b % i = 0 /\ f <= b /\ b <= end - i}
    BY <1>5, <1>8, <2>3
  <2> QED BY <1>4, <1>10, <2>2, <2>4 DEF X, s
<1> QED BY <1>9, <1>10

(* Any day so far. *)
LEMMA DayExact ==
    ASSUME AuditInv, WholeDays, NEW d \in Nat, NEW i \in Intervals
    PROVE  Audit!DayBuckets(d)[i] = Tally(Ended(d, i, Audit!EvaluationStart), i)
<1>1. CASE d \in sealed
  <2>1. Audit!SealedBuckets(d)[i] = Tally(BucketsOf(d, i, Audit!EvaluationStart), i)
    BY <1>1, SealedExact
  <2>2. Ended(d, i, Audit!EvaluationStart) = BucketsOf(d, i, Audit!EvaluationStart)
    BY <1>1, DayIsOver DEF AuditInv
  <2> QED BY <1>1, <2>1, <2>2 DEF Audit!DayBuckets
<1>2. CASE d \notin sealed
  BY <1>2, OpenExact DEF Audit!DayBuckets
<1> QED BY <1>1, <1>2

------------------------------------------------------------------------------

(* The days so far share the buckets out among them.                       *)
LEMMA DayOfTime ==
    ASSUME Day \in Nat \ {0}, NEW t \in Nat, NEW d \in Nat
    PROVE  /\ Audit!DayOf(t) \in Nat
           /\ Audit!DayOf(t) = d <=> d * Day <= t /\ t < (d + 1) * Day
<1> DEFINE e == Audit!DayOf(t)
<1>1. e \in Nat /\ e * Day \in Nat /\ e * Day <= t /\ t < e * Day + Day
  BY Floor DEF Audit!DayOf
<1> HIDE DEF e
<1>2. (d + 1) * Day = d * Day + Day /\ d * Day \in Nat
  OBVIOUS
<1>3. ASSUME d * Day <= t, t < d * Day + Day PROVE e = d
  <2>1. e <= d /\ d <= e
    <3>1. e * Day < d * Day + Day /\ d * Day < e * Day + Day
      BY <1>1, <1>2, <1>3
    <3> QED BY <1>1, <3>1, Scale
  <2> QED BY <1>1, <2>1
<1> QED BY <1>1, <1>2, <1>3 DEF e

(* Days follow time. *)
LEMMA DaysGrow ==
    ASSUME Day \in Nat \ {0}, NEW t \in Nat, NEW u \in Nat, t <= u
    PROVE  Audit!DayOf(t) <= Audit!DayOf(u)
<1> DEFINE e == Audit!DayOf(t)
           f == Audit!DayOf(u)
<1>1. e \in Nat /\ e * Day \in Nat /\ e * Day <= t
  BY Floor DEF Audit!DayOf
<1>2. f \in Nat /\ f * Day \in Nat /\ u < f * Day + Day
  BY Floor DEF Audit!DayOf
<1> HIDE DEF e, f
<1>3. e * Day < f * Day + Day
  BY <1>1, <1>2
<1> QED BY <1>1, <1>2, <1>3, Scale DEF e, f

(* The members of U have dates P so far, and A files them by their day.    *)
DatedBy(P, U, A, n) ==
    /\ \A k \in 1 .. n : \A x : x \in A[k] <=> x \in U /\ Audit!DayOf(P[x]) = k - 1
    /\ \A x \in U : P[x] \in Nat /\ P[x] <= now

(* Adding up over the days so far.                                         *)
LEMMA TotalOverDays ==
    ASSUME RowsInv, NEW P, NEW v, NEW U, NEW A, NEW n, n = Audit!ThisDay + 1,
           SizesOf(v, A, n), DatedBy(P, U, A, n)
    PROVE  Audit!Added(v, n) = Cardinality(U)
<1> USE DEF DatedBy
<1>1. n \in Nat /\ Audit!ThisDay \in Nat /\ now \in Nat
  BY Floor DEF Audit!ThisDay, Audit!DayOf, RowsInv
<1>2. \A j, k \in 1 .. n : j < k => A[j] \cap A[k] = {}
  <2> SUFFICES ASSUME NEW j \in 1 .. n, NEW k \in 1 .. n, j < k PROVE A[j] \cap A[k] = {}
    OBVIOUS
  <2>1. ASSUME NEW x, x \in A[j], x \in A[k] PROVE FALSE
    <3>1. Audit!DayOf(P[x]) = j - 1 /\ Audit!DayOf(P[x]) = k - 1
      BY <2>1
    <3>2. j - 1 # k - 1
      BY <1>1
    <3> QED BY <3>1, <3>2
  <2> QED BY <2>1
<1>3. ASSUME NEW x \in U PROVE \E k \in 1 .. n : x \in A[k]
  <2> DEFINE d == Audit!DayOf(P[x])
  <2>1. d \in Nat /\ d <= Audit!ThisDay
    <3>1. P[x] \in Nat /\ P[x] <= now /\ Day \in Nat \ {0}
      BY DEF RowsInv
    <3>2. d \in Nat
      BY <3>1, Floor DEF Audit!DayOf
    <3> QED BY <1>1, <3>1, <3>2, DaysGrow DEF Audit!ThisDay
  <2> HIDE DEF d
  <2>2. d + 1 \in 1 .. n /\ (d + 1) - 1 = d
    BY <1>1, <2>1
  <2> QED BY <2>2 DEF d
<1>4. \A x : x \in U <=> \E k \in 1 .. n : x \in A[k]
  BY <1>3
<1>5. Partitioned(U, A, n)
  BY <1>2, <1>4 DEF Partitioned
<1> QED BY <1>1, <1>5, AddedCounts

(* Rows that are sound have sound gaps. *)
LEMMA RowsGiveGaps == ASSUME RowsInv PROVE GapsInv
BY DEF RowsInv, GapsInv, UpTo, Pairs

(* The buckets that count: those over, from the start on, of the days that *)
(* have a partition.                                                       *)
Closed(i) ==
    {b \in 0 .. now : /\ b % i = 0 /\ b + i <= now
                      /\ b >= (Audit!EvaluationStart \div i) * i
                      /\ Audit!DayOf(b) \in files}

(* One number of the tally counts the members of Q.                        *)
TalliesAs(i, k, Q) == \A X \in SUBSET Nat : Tally(X, i)[k] = Cardinality({b \in X : b \in Q})

(* The numbers of all days add up to the number of all closed buckets.     *)
LEMMA TotalExact ==
    ASSUME AuditInv, WholeDays, NEW i \in Intervals, NEW k \in 1 .. 3,
           NEW Q, TalliesAs(i, k, Q)
    PROVE  Audit!Total(i, k) = Cardinality({b \in Closed(i) : b \in Q})
<1> DEFINE n == Audit!ThisDay + 1
           s == Audit!EvaluationStart
           v == [m \in 1 .. n |-> IF m - 1 \in files THEN Audit!DayBuckets(m - 1)[i][k] ELSE 0]
           A == [m \in 1 .. n |-> {b \in Ended(m - 1, i, s) : m - 1 \in files /\ b \in Q}]
           U == {b \in Closed(i) : b \in Q}
           P == [b \in Nat |-> b]
<1>1. RowsInv /\ now \in Nat /\ n \in Nat /\ Day \in Nat \ {0} /\ i \in Nat \ {0}
  <2>1. RowsInv /\ now \in Nat /\ Day \in Nat \ {0}
    BY DEF AuditInv, RowsInv
  <2>2. Audit!ThisDay \in Nat
    BY <2>1, Floor DEF Audit!ThisDay, Audit!DayOf
  <2> QED BY <2>1, <2>2 DEF WholeDays
<1>2. Audit!Total(i, k) = Audit!Added(v, n)
  BY DEF Audit!Total
<1> HIDE DEF n, s
<1>3. ASSUME NEW m \in 1 .. n
      PROVE  /\ \A x : x \in A[m] <=> x \in U /\ Audit!DayOf(P[x]) = m - 1
             /\ IsFiniteSet(A[m]) /\ v[m] = Cardinality(A[m]) /\ v[m] \in Nat
  <2>1. m - 1 \in Nat
    BY <1>1
  <2>2. \A x \in Nat : Audit!DayOf(x) = m - 1 <=> (m - 1) * Day <= x /\ x < ((m - 1) + 1) * Day
    BY <1>1, <2>1, DayOfTime
  <2>3. \A x : x \in Ended(m - 1, i, s) /\ m - 1 \in files
                 <=> x \in Closed(i) /\ Audit!DayOf(x) = m - 1
    <3>1. \A x : x \in Closed(i) <=> /\ x \in Nat /\ x % i = 0 /\ x + i <= now
                                    /\ (s \div i) * i <= x /\ Audit!DayOf(x) \in files
      <4>1. s \in Nat
        BY <1>1, StartType DEF s
      <4>2. (s \div i) * i \in Nat
        BY <1>1, <4>1, Floor
      <4>3. \A x \in Nat : x + i <= now => x \in 0 .. now
        BY <1>1
      <4> DEFINE g == (s \div i) * i
      <4> HIDE DEF g
      <4>4. \A x \in Nat : x >= g <=> g <= x
        BY <4>2 DEF g
      <4>5. \A x : x \in 0 .. now => x \in Nat
        BY <1>1
      <4>6. Closed(i) = {b \in 0 .. now : b % i = 0 /\ b + i <= now /\ b >= g
                                          /\ Audit!DayOf(b) \in files}
        BY DEF Closed, g, s
      <4> QED BY <4>3, <4>4, <4>5, <4>6 DEF g
    <3> QED BY <2>2, <3>1 DEF Ended, BucketsOf
  <2>4. \A x : x \in Closed(i) => x \in 0 .. now /\ x \in Nat /\ P[x] = x
    BY <1>1 DEF Closed
  <2>5. \A x : x \in A[m] <=> x \in U /\ Audit!DayOf(P[x]) = m - 1
    <3> HIDE DEF P
    <3> QED BY <2>3, <2>4
  <2>6. IsFiniteSet(A[m])
    <3>1. A[m] \subseteq 0 .. now
      <4> HIDE DEF P
      <4> QED BY <2>4, <2>5
    <3>2. IsFiniteSet(0 .. now)
      BY <1>1, FS_Interval
    <3> QED BY <3>1, <3>2, FS_Subset
  <2>7. v[m] = Cardinality(A[m])
    <3> DEFINE X == Ended(m - 1, i, s)
    <3>1. Audit!DayBuckets(m - 1)[i] = Tally(X, i)
      BY <2>1, DayExact DEF s
    <3>2. X \in SUBSET Nat
      BY DEF Ended, BucketsOf
    <3> HIDE DEF X
    <3>3. CASE m - 1 \in files
      <4>1. v[m] = Tally(X, i)[k]
        BY <3>1, <3>3
      <4>2. A[m] = {b \in X : b \in Q}
        BY <3>3 DEF X
      <4> HIDE DEF v, A
      <4> QED BY <3>2, <4>1, <4>2 DEF TalliesAs
    <3>4. CASE m - 1 \notin files
      <4>1. v[m] = 0 /\ A[m] = {}
        BY <3>4
      <4> HIDE DEF v, A
      <4> QED BY <4>1, FS_EmptySet
    <3> QED BY <3>3, <3>4
  <2>8. Cardinality(A[m]) \in Nat
    BY <2>6, FS_CardinalityType
  <2> QED BY <2>5, <2>6, <2>7, <2>8
<1>4. \A x \in U : P[x] \in Nat /\ P[x] <= now
  BY <1>1 DEF Closed
<1>5. v \in [1 .. n -> Nat]
  <2>1. v = [m \in 1 .. n |-> v[m]]
    OBVIOUS
  <2> HIDE DEF v
  <2> QED BY <1>3, <2>1
<1> HIDE DEF v, A, U, P
<1>6. Audit!Added(v, n) = Cardinality(U)
  <2>1. SizesOf(v, A, n)
    BY <1>3, <1>5 DEF SizesOf
  <2>2. DatedBy(P, U, A, n)
    BY <1>3, <1>4 DEF DatedBy
  <2>3. RowsInv /\ n = Audit!ThisDay + 1
    BY <1>1 DEF n
  <2> QED BY <2>1, <2>2, <2>3, TotalOverDays
<1> QED BY <1>2, <1>6 DEF U

(* The gaps of a window, added up over the days.                           *)
LEMMA WindowExact ==
    ASSUME RowsInv, NEW start \in Nat
    PROVE  Audit!WindowGapCount(start) = Cardinality({g \in gaps : g[1] < now /\ g[2] >= start})
<1> DEFINE n == Audit!ThisDay + 1
           v == [m \in 1 .. n |-> IF m - 1 \in files THEN Audit!WindowGaps(m - 1, start) ELSE 0]
           A == [m \in 1 .. n |-> Queried(m - 1, start)]
           U == {g \in gaps : g[1] < now /\ g[2] >= start}
           P == [g \in gaps |-> g[1]]
<1>1. now \in Nat /\ n \in Nat /\ Day \in Nat \ {0} /\ gaps \subseteq UpTo(now)
  <2>1. now \in Nat /\ Day \in Nat \ {0} /\ gaps \subseteq UpTo(now)
    BY DEF RowsInv
  <2>2. Audit!ThisDay \in Nat
    BY <2>1, Floor DEF Audit!ThisDay, Audit!DayOf
  <2> QED BY <2>1, <2>2
<1>2. Audit!WindowGapCount(start) = Audit!Added(v, n)
  BY DEF Audit!WindowGapCount
<1> HIDE DEF n
<1>3. ASSUME NEW m \in 1 .. n
      PROVE  /\ \A x : x \in A[m] <=> x \in U /\ Audit!DayOf(P[x]) = m - 1
             /\ IsFiniteSet(A[m]) /\ v[m] = Cardinality(A[m]) /\ v[m] \in Nat
  <2>1. m - 1 \in Nat
    BY <1>1
  <2>2. \A x : x \in A[m] <=> x \in U /\ Audit!DayOf(P[x]) = m - 1
    BY DEF Queried
  <2>3. IsFiniteSet(gaps)
    BY <1>1, UpToIsFinite
  <2>4. IsFiniteSet(A[m])
    <3>1. A[m] \subseteq gaps
      BY DEF Queried
    <3> QED BY <2>3, <3>1, FS_Subset
  <2>5. v[m] = Cardinality(A[m])
    <3>1. CASE m - 1 \in files
      <4>1. Audit!WindowGaps(m - 1, start) = Audit!Cardinality(Queried(m - 1, start))
        BY <2>1, RowsGiveGaps, DayShortcut
      <4> QED BY <3>1, <4>1, SameCardinality
    <3>2. CASE m - 1 \notin files
      <4>1. Queried(m - 1, start) = {}
        BY <3>2 DEF Queried, RowsInv, Filed
      <4> QED BY <3>2, <4>1, FS_EmptySet
    <3> QED BY <3>1, <3>2
  <2>6. Cardinality(A[m]) \in Nat
    BY <2>4, FS_CardinalityType
  <2> QED BY <2>2, <2>4, <2>5, <2>6
<1>4. \A x \in U : P[x] \in Nat /\ P[x] <= now
  BY <1>1 DEF UpTo
<1>5. v \in [1 .. n -> Nat]
  <2>1. v = [m \in 1 .. n |-> v[m]]
    OBVIOUS
  <2> HIDE DEF v
  <2> QED BY <1>3, <2>1
<1> HIDE DEF v, A, U, P
<1>6. Audit!Added(v, n) = Cardinality(U)
  <2>1. SizesOf(v, A, n)
    BY <1>3, <1>5 DEF SizesOf
  <2>2. DatedBy(P, U, A, n)
    BY <1>3, <1>4 DEF DatedBy
  <2>3. RowsInv /\ n = Audit!ThisDay + 1
    BY <1>1 DEF n
  <2> QED BY <2>1, <2>2, <2>3, TotalOverDays
<1> QED BY <1>2, <1>6 DEF U

(* What status reports is exact whenever its rows and its cache are sound. *)
LEMMA ReportIsExact ==
    ASSUME AuditInv, WholeDays
    PROVE  Audit!StatusIsExact
<1>0. RowsInv /\ now \in Nat
  BY DEF AuditInv, RowsInv
<1>1. ASSUME NEW i \in Intervals
      PROVE  /\ Audit!Total(i, 1) = Cardinality(Closed(i))
             /\ Audit!Total(i, 2) = Cardinality({b \in Closed(i) : Over(b, i)})
             /\ Audit!Total(i, 3) = Cardinality({b \in Closed(i) : Full(b, i) /\ ~Over(b, i)})
  <2>1. \A b \in Closed(i) : b \in Nat
    BY <1>0 DEF Closed
  <2>2. Audit!Total(i, 1) = Cardinality(Closed(i))
    <3>1. TalliesAs(i, 1, Nat)
      <4>1. \A X \in SUBSET Nat : {b \in X : b \in Nat} = X
        OBVIOUS
      <4> QED BY <4>1 DEF Tally, TalliesAs
    <3>2. Audit!Total(i, 1) = Cardinality({b \in Closed(i) : b \in Nat})
      BY <3>1, TotalExact
    <3>3. {b \in Closed(i) : b \in Nat} = Closed(i)
      BY <2>1
    <3> QED BY <3>2, <3>3
  <2>3. Audit!Total(i, 2) = Cardinality({b \in Closed(i) : Over(b, i)})
    <3> DEFINE Q == {b \in Nat : Over(b, i)}
    <3>1. TalliesAs(i, 2, Q)
      <4>1. \A X \in SUBSET Nat : {b \in X : b \in Q} = {b \in X : Over(b, i)}
        OBVIOUS
      <4> HIDE DEF Q
      <4> QED BY <4>1 DEF Tally, TalliesAs
    <3>2. {b \in Closed(i) : b \in Q} = {b \in Closed(i) : Over(b, i)}
      BY <2>1
    <3> HIDE DEF Q
    <3>3. Audit!Total(i, 2) = Cardinality({b \in Closed(i) : b \in Q})
      BY <3>1, TotalExact
    <3> QED BY <3>2, <3>3
  <2>4. Audit!Total(i, 3) = Cardinality({b \in Closed(i) : Full(b, i) /\ ~Over(b, i)})
    <3> DEFINE Q == {b \in Nat : Full(b, i) /\ ~Over(b, i)}
    <3>1. TalliesAs(i, 3, Q)
      <4>1. \A X \in SUBSET Nat : {b \in X : b \in Q} = {b \in X : Full(b, i) /\ ~Over(b, i)}
        OBVIOUS
      <4> HIDE DEF Q
      <4> QED BY <4>1 DEF Tally, TalliesAs
    <3>2. {b \in Closed(i) : b \in Q} = {b \in Closed(i) : Full(b, i) /\ ~Over(b, i)}
      BY <2>1
    <3> HIDE DEF Q
    <3>3. Audit!Total(i, 3) = Cardinality({b \in Closed(i) : b \in Q})
      BY <3>1, TotalExact
    <3> QED BY <3>2, <3>3
  <2> QED BY <2>2, <2>3, <2>4
<1>2. ASSUME NEW window \in Nat, NEW start, start = Audit!WindowStart(window)
      PROVE  /\ Audit!CoveredMs(Audit!SegmentSet, start, now) = Cardinality(Audit!Instants(start, now))
             /\ Audit!WindowGapCount(start) = Cardinality({g \in gaps : g[1] < now /\ g[2] >= start})
  <2>1. start \in Nat
    <3>1. Audit!EvaluationStart \in Nat
      BY <1>0, StartType
    <3>2. now - Audit!Smaller(window, now) \in Nat
      BY <1>0 DEF Audit!Smaller
    <3> QED BY <1>2, <3>1, <3>2 DEF Audit!WindowStart, Audit!Larger
  <2>2. Audit!CoveredMs(Audit!SegmentSet, start, now)
          = Cardinality({t \in start .. (now - 1) : HeldBy(Audit!SegmentSet, t)})
    <3>1. Audit!SegmentSet \subseteq UpTo(now)
      BY <1>0 DEF RowsInv
    <3> QED BY <1>0, <2>1, <3>1, CoveredMsCounts
  <2>3. {t \in start .. (now - 1) : HeldBy(Audit!SegmentSet, t)} = Audit!Instants(start, now)
    BY DEF HeldBy, In, Audit!Instants
  <2>4. Audit!WindowGapCount(start) = Cardinality({g \in gaps : g[1] < now /\ g[2] >= start})
    BY <1>0, <2>1, WindowExact
  <2> QED BY <2>2, <2>3, <2>4
<1>3. Day \in Nat /\ 2 * Day \in Nat
  BY <1>0 DEF RowsInv
<1>4. \A S : Audit!Cardinality(S) = Cardinality(S)
  BY SameCardinality
<1>5. \A i \in Intervals :
           /\ Audit!Total(i, 1) = Audit!Cardinality(Closed(i))
           /\ Audit!Total(i, 2) = Audit!Cardinality({b \in Closed(i) : Audit!Overlapped(b, b + i)})
           /\ Audit!Total(i, 3) = Audit!Cardinality({b \in Closed(i) :
                                /\ Audit!Enough(Audit!Cardinality(Audit!Instants(b, b + i)), i)
                                /\ ~Audit!Overlapped(b, b + i)})
  <2> SUFFICES ASSUME NEW i \in Intervals
               PROVE  /\ Audit!Total(i, 1) = Audit!Cardinality(Closed(i))
                      /\ Audit!Total(i, 2) = Audit!Cardinality({b \in Closed(i) : Audit!Overlapped(b, b + i)})
                      /\ Audit!Total(i, 3) = Audit!Cardinality({b \in Closed(i) :
                                /\ Audit!Enough(Audit!Cardinality(Audit!Instants(b, b + i)), i)
                                /\ ~Audit!Overlapped(b, b + i)})
    OBVIOUS
  <2>1. {b \in Closed(i) : Audit!Overlapped(b, b + i)} = {b \in Closed(i) : Over(b, i)}
    BY DEF Over
  <2>2. {b \in Closed(i) : /\ Audit!Enough(Audit!Cardinality(Audit!Instants(b, b + i)), i)
                           /\ ~Audit!Overlapped(b, b + i)}
          = {b \in Closed(i) : Full(b, i) /\ ~Over(b, i)}
    BY <1>4 DEF Over, Full
  <2> QED BY <1>1, <1>4, <2>1, <2>2
<1>6. \A window \in {Day, 2 * Day} :
           /\ Audit!CoveredMs(Audit!SegmentSet, Audit!WindowStart(window), now)
                = Audit!Cardinality(Audit!Instants(Audit!WindowStart(window), now))
           /\ Audit!WindowGapCount(Audit!WindowStart(window)) =
                  Audit!Cardinality({g \in gaps : g[1] < now /\ g[2] >= Audit!WindowStart(window)})
  BY <1>2, <1>3, <1>4
<1> QED BY <1>5, <1>6 DEF Audit!StatusIsExact, Closed

------------------------------------------------------------------------------

(* The buckets of a sealed day stay what they are while the segments and   *)
(* the gaps keep to later times.                                           *)
LEMMA TallyStays ==
    ASSUME Day \in Nat \ {0}, WholeDays, NEW d \in Nat, NEW i \in Intervals, NEW s,
           NEW G, NEW H, NEW K, NEW L,
           \A t \in Nat : t < (d + 1) * Day => (HeldBy(H, t) <=> HeldBy(L, t)),
           \A b \in Nat : b + i <= (d + 1) * Day => (Touched(G, b, i) <=> Touched(K, b, i))
    PROVE  TallyFrom(G, H, BucketsOf(d, i, s), i) = TallyFrom(K, L, BucketsOf(d, i, s), i)
<1> DEFINE X == BucketsOf(d, i, s)
           next == (d + 1) * Day
<1>1. i \in Nat \ {0} /\ next \in Nat /\ next % i = 0
  BY DayBounds
<1>2. \A b \in X : b \in Nat /\ b < next /\ b % i = 0
  BY DEF BucketsOf
<1> HIDE DEF X, next
<1>3. \A b \in X : b \in Nat /\ b + i <= next
  BY <1>1, <1>2, Grid
<1>4. \A b \in X : Touched(G, b, i) <=> Touched(K, b, i)
  BY <1>3 DEF next
<1>5. \A b \in X : Filled(H, b, i) <=> Filled(L, b, i)
  <2> SUFFICES ASSUME NEW b \in X PROVE Filled(H, b, i) <=> Filled(L, b, i)
    OBVIOUS
  <2>1. \A t \in b .. (b + i - 1) : t \in Nat /\ t < next
    BY <1>1, <1>3
  <2>2. {t \in b .. (b + i - 1) : HeldBy(H, t)} = {t \in b .. (b + i - 1) : HeldBy(L, t)}
    BY <2>1 DEF next
  <2> QED BY <2>2 DEF Filled
<1>6. {b \in X : Touched(G, b, i)} = {b \in X : Touched(K, b, i)}
  BY <1>4
<1>7. {b \in X : Filled(H, b, i) /\ ~Touched(G, b, i)}
        = {b \in X : Filled(L, b, i) /\ ~Touched(K, b, i)}
  BY <1>4, <1>5
<1> QED BY <1>6, <1>7 DEF TallyFrom, X

(* What a step may change without making a summary stale.                  *)
KeepsSealed ==
    \A d \in sealed :
        /\ \A t \in Nat : t < (d + 1) * Day =>
              (HeldBy(Audit!SegmentSet', t) <=> HeldBy(Audit!SegmentSet, t))
        /\ \A i \in Intervals, b \in Nat : b + i <= (d + 1) * Day =>
              (Touched(gaps', b, i) <=> Touched(gaps, b, i))

(* No summary is stale after a step that keeps the sealed days. *)
LEMMA SummariesStay ==
    ASSUME AuditInv, WholeDays, KeepsSealed, sealed \subseteq sealed', summary' = summary
    PROVE  SummariesInv'
<1> SUFFICES ASSUME NEW d \in Audit!Days, summary[d].known
             PROVE  /\ d \in sealed' /\ summary[d].start \in Nat
                    /\ \A i \in Intervals :
                          summary[d].counts[i]
                            = TallyFrom(gaps', Audit!SegmentSet', BucketsOf(d, i, summary[d].start), i)
  BY DEF SummariesInv
<1>1. /\ d \in sealed /\ summary[d].start \in Nat
      /\ \A i \in Intervals :
            summary[d].counts[i]
              = TallyFrom(gaps, Audit!SegmentSet, BucketsOf(d, i, summary[d].start), i)
  BY DEF AuditInv, SummariesInv
<1>2. Day \in Nat \ {0} /\ d \in Nat
  BY DEF AuditInv, RowsInv, Audit!Days
<1>3. ASSUME NEW i \in Intervals
      PROVE  TallyFrom(gaps, Audit!SegmentSet, BucketsOf(d, i, summary[d].start), i)
               = TallyFrom(gaps', Audit!SegmentSet', BucketsOf(d, i, summary[d].start), i)
  <2>1. /\ \A t \in Nat : t < (d + 1) * Day =>
              (HeldBy(Audit!SegmentSet, t) <=> HeldBy(Audit!SegmentSet', t))
        /\ \A b \in Nat : b + i <= (d + 1) * Day =>
              (Touched(gaps, b, i) <=> Touched(gaps', b, i))
    BY <1>1 DEF KeepsSealed
  <2> QED BY <1>2, <2>1, TallyStays
<1> QED BY <1>1, <1>3

(* The recorder's steps keep the rows and the summaries sound.             *)
LEMMA TickKeeps ==
    ASSUME AuditInv, WholeDays, Audit!Tick
    PROVE  AuditInv'
<1> DEFINE n == Len(segs)
           last == <<segs[n][1], now + 1>>
           others == {segs[k] : k \in (1 .. n) \ {n}}
<1>1. /\ now \in Nat /\ now' = now + 1 /\ now' \in 0 .. Horizon /\ Day \in Nat \ {0} /\ Horizon \in Nat
      /\ segs' = IF open THEN [segs EXCEPT ![n] = last] ELSE segs
      /\ open' = open /\ gaps' = gaps /\ files' = files /\ sealed' = sealed /\ summary' = summary
      /\ gaps \subseteq UpTo(now) /\ \A g \in gaps : g[1] <= g[2]
      /\ Audit!SegmentSet \subseteq UpTo(now)
      /\ segs \in Seq(Pairs) /\ open \in BOOLEAN
      /\ open => segs # <<>> /\ segs[n][2] = now
      /\ sealed \subseteq Audit!Days /\ \A d \in sealed : (d + 1) * Day <= now
  BY DEF AuditInv, RowsInv, Audit!Tick
<1>2. UpTo(now) \subseteq UpTo(now + 1)
  BY <1>1 DEF UpTo
<1>3. \A d \in sealed : (d + 1) * Day \in Nat
  BY <1>1 DEF Audit!Days
<1>4. CASE open
  <2>1. n \in Nat \ {0} /\ segs[n] \in Pairs /\ segs[n][2] = now /\ segs[n] \in UpTo(now)
    <3>1. n \in Nat \ {0} /\ segs[n] \in Pairs /\ segs[n][2] = now
      BY <1>1, <1>4
    <3>2. segs[n] \in Audit!SegmentSet
      BY <1>1, <3>1 DEF Audit!SegmentSet, Audit!ToSet
    <3> QED BY <1>1, <3>1, <3>2
  <2>2. segs[n][1] \in Nat /\ last \in Pairs /\ last \in UpTo(now + 1)
    BY <1>1, <2>1 DEF Pairs, UpTo
  <2>3. segs' = [segs EXCEPT ![n] = last]
    BY <1>1, <1>4
  <2> HIDE DEF last
  <2>4. /\ segs' \in Seq(Pairs) /\ Len(segs') = n /\ segs' # <<>> /\ segs'[n] = last
        /\ \A k \in (1 .. n) \ {n} : segs'[k] = segs[k]
    BY <1>1, <2>1, <2>2, <2>3
  <2>5. Audit!SegmentSet = others \cup {segs[n]} /\ Audit!SegmentSet' = others \cup {last}
    <3>1. DOMAIN segs = 1 .. n /\ DOMAIN segs' = 1 .. n
      <4>1. segs \in Seq(Pairs) /\ segs' \in Seq(Pairs) /\ Len(segs') = n
        BY <1>1, <2>4
      <4> QED BY <4>1
    <3>2. Audit!SegmentSet = {segs[k] : k \in 1 .. n}
      BY <3>1 DEF Audit!SegmentSet, Audit!ToSet
    <3>3. Audit!SegmentSet' = {segs'[k] : k \in 1 .. n}
      BY <3>1 DEF Audit!SegmentSet, Audit!ToSet
    <3> QED BY <2>1, <2>4, <3>2, <3>3
  <2> HIDE DEF others
  <2>6. Audit!SegmentSet' \subseteq UpTo(now + 1)
    BY <1>1, <1>2, <2>2, <2>5
  <2>7. segs'[Len(segs')][2] = now'
    BY <1>1, <2>4 DEF last
  <2>8. \A t \in Nat : t < now => (In(last, t) <=> In(segs[n], t))
    BY <1>1, <2>1, <2>2 DEF In, last
  <2>9. \A t \in Nat : t < now => (HeldBy(Audit!SegmentSet', t) <=> HeldBy(Audit!SegmentSet, t))
    BY <2>5, <2>8 DEF HeldBy
  <2>10. KeepsSealed
    <3>1. ASSUME NEW d \in sealed, NEW t \in Nat, t < (d + 1) * Day PROVE t < now
      <4>1. (d + 1) * Day \in Nat /\ (d + 1) * Day <= now
        BY <1>1, <1>3
      <4> QED BY <1>1, <3>1, <4>1
    <3>2. \A i, b : Touched(gaps', b, i) <=> Touched(gaps, b, i)
      BY <1>1
    <3> QED BY <2>9, <3>1, <3>2 DEF KeepsSealed
  <2>11. SummariesInv'
    BY <1>1, <2>10, SummariesStay
  <2>12. RowsInv'
    BY <1>1, <1>2, <2>6 DEF AuditInv, RowsInv, Filed
  <2>13. \A d \in sealed : (d + 1) * Day <= now + 1
    BY <1>1, <1>3
  <2> QED BY <1>1, <2>4, <2>7, <2>11, <2>12, <2>13 DEF AuditInv
<1>5. CASE ~open
  <2>1. segs' = segs
    BY <1>1, <1>5
  <2>2. Audit!SegmentSet' = Audit!SegmentSet
    BY <2>1 DEF Audit!SegmentSet, Audit!ToSet
  <2>3. KeepsSealed
    BY <1>1, <2>2 DEF KeepsSealed
  <2>4. SummariesInv'
    BY <1>1, <2>3, SummariesStay
  <2>5. RowsInv'
    BY <1>1, <1>2, <2>2 DEF AuditInv, RowsInv, Filed
  <2>6. \A d \in sealed : (d + 1) * Day <= now + 1
    BY <1>1, <1>3
  <2> QED BY <1>1, <1>5, <2>1, <2>4, <2>5, <2>6 DEF AuditInv
<1> QED BY <1>1, <1>4, <1>5

(* A segment that begins holds nothing yet. *)
LEMMA BeginKeeps ==
    ASSUME AuditInv, WholeDays, Audit!BeginSegment
    PROVE  AuditInv'
<1> DEFINE new == <<now, now>>
<1>1. /\ now \in Nat /\ segs' = Append(segs, new) /\ open' = TRUE
      /\ now' = now /\ gaps' = gaps /\ sealed' = sealed /\ summary' = summary
      /\ files \subseteq files'
      /\ segs \in Seq(Pairs) /\ Audit!SegmentSet \subseteq UpTo(now)
  BY DEF AuditInv, RowsInv, Audit!BeginSegment, Audit!FileOf
<1>2. new \in Pairs /\ new \in UpTo(now) /\ new[2] = now /\ \A t \in Nat : ~In(new, t)
  BY <1>1 DEF Pairs, UpTo, In
<1> HIDE DEF new
<1>3. /\ segs' \in Seq(Pairs) /\ Len(segs') = Len(segs) + 1 /\ segs' # <<>>
      /\ segs'[Len(segs')] = new /\ \A k \in 1 .. Len(segs) : segs'[k] = segs[k]
  BY <1>1, <1>2
<1>4. Audit!SegmentSet' = Audit!SegmentSet \cup {new}
  <2>1. DOMAIN segs = 1 .. Len(segs) /\ DOMAIN segs' = 1 .. (Len(segs) + 1) /\ Len(segs) \in Nat
    BY <1>1, <1>3
  <2>2. Audit!SegmentSet = {segs[k] : k \in 1 .. Len(segs)}
    BY <2>1 DEF Audit!SegmentSet, Audit!ToSet
  <2>3. Audit!SegmentSet' = {segs'[k] : k \in 1 .. (Len(segs) + 1)}
    BY <2>1 DEF Audit!SegmentSet, Audit!ToSet
  <2>4. \A k : k \in 1 .. (Len(segs) + 1) <=> k \in 1 .. Len(segs) \/ k = Len(segs) + 1
    BY <2>1
  <2> QED BY <1>3, <2>2, <2>3, <2>4
<1>5. KeepsSealed
  <2>1. \A t \in Nat : HeldBy(Audit!SegmentSet', t) <=> HeldBy(Audit!SegmentSet, t)
    BY <1>2, <1>4 DEF HeldBy
  <2> QED BY <1>1, <2>1 DEF KeepsSealed
<1>6. SummariesInv'
  BY <1>1, <1>5, SummariesStay
<1>7. RowsInv'
  BY <1>1, <1>2, <1>4 DEF AuditInv, RowsInv, Filed
<1>8. segs'[Len(segs')][2] = now
  BY <1>2, <1>3
<1> QED BY <1>1, <1>3, <1>6, <1>7, <1>8 DEF AuditInv

(* A gap does not reach into a sealed day. *)
LEMMA GapKeeps ==
    ASSUME AuditInv, WholeDays, NEW s \in 0 .. Horizon, Audit!Gap(s)
    PROVE  AuditInv'
<1> DEFINE new == <<s, now>>
<1>1. /\ now \in Nat /\ s \in Nat /\ s <= now /\ gaps' = gaps \cup {new}
      /\ now' = now /\ segs' = segs /\ open' = open /\ sealed' = sealed /\ summary' = summary
      /\ files' = files \cup {Audit!DayOf(s)}
      /\ \A d \in sealed : (d + 1) * Day <= s
      /\ Day \in Nat /\ sealed \subseteq Audit!Days
  BY DEF AuditInv, RowsInv, Audit!Gap, Audit!FileOf
<1>2. Audit!SegmentSet' = Audit!SegmentSet
  BY <1>1 DEF Audit!SegmentSet, Audit!ToSet
<1>3. new \in UpTo(now) /\ new[1] <= new[2] /\ new[1] = s
  BY <1>1 DEF UpTo
<1> HIDE DEF new
<1>4. ASSUME NEW d \in sealed, NEW i \in Intervals, NEW b \in Nat, b + i <= (d + 1) * Day
      PROVE  Touched(gaps', b, i) <=> Touched(gaps, b, i)
  <2>1. (d + 1) * Day \in Nat /\ (d + 1) * Day <= s /\ b + i \in Nat
    BY <1>1 DEF WholeDays, Audit!Days
  <2>2. ~(new[1] < b + i)
    BY <1>1, <1>3, <1>4, <2>1
  <2> QED BY <1>1, <2>2 DEF Touched
<1>5. KeepsSealed
  BY <1>2, <1>4 DEF KeepsSealed
<1>6. SummariesInv'
  BY <1>1, <1>5, SummariesStay
<1>7. RowsInv'
  BY <1>1, <1>2, <1>3 DEF AuditInv, RowsInv, Filed
<1> QED BY <1>1, <1>6, <1>7 DEF AuditInv

(* Sealing changes no row. *)
LEMMA SealKeeps ==
    ASSUME AuditInv, WholeDays, NEW d \in Audit!Days, Audit!Seal(d)
    PROVE  AuditInv'
<1>1. /\ sealed' = sealed \cup {d} /\ (d + 1) * Day <= now
      /\ now' = now /\ segs' = segs /\ open' = open /\ gaps' = gaps /\ files' = files
      /\ summary' = summary
  BY DEF Audit!Seal
<1>2. Audit!SegmentSet' = Audit!SegmentSet
  BY <1>1 DEF Audit!SegmentSet, Audit!ToSet
<1>3. SummariesInv'
  <2>1. KeepsSealed
    BY <1>1, <1>2 DEF KeepsSealed
  <2> QED BY <1>1, <2>1, SummariesStay
<1>4. RowsInv'
  BY <1>1, <1>2 DEF AuditInv, RowsInv, Filed
<1> QED BY <1>1, <1>3, <1>4 DEF AuditInv

(* The end of a segment and a row of another kind change neither segments  *)
(* nor gaps.                                                               *)
LEMMA EndKeeps ==
    ASSUME AuditInv, WholeDays, Audit!EndSegment \/ Audit!Write \/ UNCHANGED Audit!vars
    PROVE  AuditInv'
<1>1. /\ now' = now /\ segs' = segs /\ gaps' = gaps /\ sealed' = sealed /\ summary' = summary
      /\ files \subseteq files' /\ (open' = FALSE \/ open' = open)
  BY DEF Audit!EndSegment, Audit!Write, Audit!FileOf, Audit!vars
<1>0. open' \in BOOLEAN /\ (open' => open)
  <2>1. open \in BOOLEAN
    BY DEF AuditInv
  <2>2. CASE open' = FALSE
    BY <2>2
  <2>3. CASE open' = open
    BY <2>1, <2>3
  <2> QED BY <1>1, <2>2, <2>3
<1>2. Audit!SegmentSet' = Audit!SegmentSet
  BY <1>1 DEF Audit!SegmentSet, Audit!ToSet
<1>3. SummariesInv'
  <2>1. KeepsSealed
    BY <1>1, <1>2 DEF KeepsSealed
  <2> QED BY <1>1, <2>1, SummariesStay
<1>4. RowsInv'
  BY <1>1, <1>2 DEF AuditInv, RowsInv, Filed
<1> QED BY <1>0, <1>1, <1>3, <1>4 DEF AuditInv

(* A summary that status leaves behind tells its day.                      *)
LEMMA StatusKeeps ==
    ASSUME AuditInv, WholeDays, Audit!Status
    PROVE  AuditInv'
<1> DEFINE made(d) == [known |-> TRUE, start |-> Audit!EvaluationStart,
                       counts |-> Audit!SealedBuckets(d)]
<1>1. /\ now' = now /\ segs' = segs /\ open' = open /\ gaps' = gaps /\ files' = files
      /\ sealed' = sealed
      /\ \A d \in Audit!Days :
            summary'[d] = IF d \in sealed /\ ~Audit!SummaryValid(d) THEN made(d) ELSE summary[d]
  BY DEF Audit!Status
<1>2. Audit!SegmentSet' = Audit!SegmentSet
  BY <1>1 DEF Audit!SegmentSet, Audit!ToSet
<1>3. SummariesInv'
  <2> SUFFICES ASSUME NEW d \in Audit!Days, summary'[d].known
               PROVE  /\ d \in sealed /\ summary'[d].start \in Nat
                      /\ \A i \in Intervals :
                            summary'[d].counts[i]
                              = TallyFrom(gaps, Audit!SegmentSet, BucketsOf(d, i, summary'[d].start), i)
    BY <1>1, <1>2 DEF SummariesInv
  <2>1. CASE d \in sealed /\ ~Audit!SummaryValid(d)
    <3>1. summary'[d] = made(d)
      BY <1>1, <2>1
    <3>2. summary'[d].start = Audit!EvaluationStart /\ summary'[d].counts = Audit!SealedBuckets(d)
      BY <3>1
    <3>3. Audit!EvaluationStart \in Nat
      BY StartType DEF AuditInv
    <3>4. ASSUME NEW i \in Intervals
          PROVE  Audit!SealedBuckets(d)[i]
                   = TallyFrom(gaps, Audit!SegmentSet, BucketsOf(d, i, Audit!EvaluationStart), i)
      <4> DEFINE X == BucketsOf(d, i, Audit!EvaluationStart)
      <4>1. X \subseteq Nat /\ i \in Nat
        BY DEF BucketsOf, WholeDays
      <4>2. Audit!SealedBuckets(d)[i] = Tally(X, i)
        BY <2>1, SealedExact
      <4> HIDE DEF X
      <4> QED BY <4>1, <4>2, TallyIsFrom DEF X
    <3> QED BY <2>1, <3>2, <3>3, <3>4
  <2>2. CASE ~(d \in sealed /\ ~Audit!SummaryValid(d))
    <3>1. summary'[d] = summary[d]
      BY <1>1, <2>2
    <3> QED BY <3>1 DEF AuditInv, SummariesInv
  <2> QED BY <2>1, <2>2
<1>4. RowsInv'
  BY <1>1, <1>2 DEF AuditInv, RowsInv, Filed
<1> QED BY <1>1, <1>3, <1>4 DEF AuditInv

(* The status report is exact: every bucket that is over on a day with a   *)
(* partition is counted once, and no other; it is complete when enough of  *)
(* its instants are covered and no gap touches it, although sealed days    *)
(* come from the cache; the covered time of a window is the number of its  *)
(* covered instants, and its gaps are those that reach into it - for days  *)
(* of any length that the intervals divide, any rows, any days without     *)
(* one, and however often and at whatever times status is called.          *)
(* (MicrostructureStore.status)                                            *)
THEOREM StatusIsAlwaysExact ==
    ASSUME Day \in Nat \ {0}, Horizon \in Nat, WholeDays
    PROVE  Audit!Spec => []Audit!StatusIsExact
<1>1. Audit!Init => AuditInv
  <2> SUFFICES ASSUME Audit!Init PROVE AuditInv
    OBVIOUS
  <2>1. Audit!SegmentSet = {}
    BY DEF Audit!Init, Audit!SegmentSet, Audit!ToSet
  <2>2. RowsInv /\ segs \in Seq(Pairs)
    BY <2>1 DEF Audit!Init, RowsInv, Filed
  <2>3. SummariesInv
    BY DEF Audit!Init, Audit!NoSummary, SummariesInv
  <2> QED BY <2>2, <2>3 DEF Audit!Init, AuditInv
<1>2. AuditInv /\ [Audit!Next]_(Audit!vars) => AuditInv'
  BY TickKeeps, BeginKeeps, EndKeeps, GapKeeps, SealKeeps, StatusKeeps DEF Audit!Next
<1>3. AuditInv => Audit!StatusIsExact
  BY ReportIsExact
<1> QED BY <1>1, <1>2, <1>3, PTL DEF Audit!Spec

==============================================================================
