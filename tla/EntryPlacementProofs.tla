------------------------ MODULE EntryPlacementProofs ------------------------
(***************************************************************************)
(* Proofs about EntryPlacement: for every number of intents, of threads    *)
(* and of fills, an approved intent is posted at most once, at most one    *)
(* entry of the symbol is alive, an owner is let go only when its entry is *)
(* over, and the placement implements SymbolExposure.                      *)
(***************************************************************************)
EXTENDS EntryPlacement, TLAPS

(* From the last account read up to the POST.                              *)
Past == {"refresh", "confirm", "activate", "place"}

(* Under a claim whose entry was not posted yet.                           *)
Holding == {"reserve", "configure", "aborting"} \cup Past

Live(i) == Working(i) \/ open[i] > 0

(* The claim is used up and no entry came of it: none ever will.           *)
Spent(i) ==
    /\ claim[i] # NoWorker
    /\ posts[i] = 0
    /\ \A w \in Workers : pc[w] \in Holding => job[w] # i

(* o was read from the exchange: a final answer is still the truth.        *)
WasRead(o, i) ==
    /\ o.st \notin {"NONE", "SENT"}
    /\ Exists(i)
    /\ o.st \in {"FILLED", "CANCELED"} => order[i] = o

(* What a thread may rely on between two of its steps.                     *)
WorkerInv(w) ==
    /\ pc[w] \notin {"down", "idle"} => job[w] \in Intents
    /\ pc[w] \in Holding => claim[job[w]] = w /\ posts[job[w]] = 0
    /\ pc[w] = "reserve" => owner[job[w]] = "NONE"
    /\ pc[w] \in {"configure"} \cup Past => owner[job[w]] = "HELD"
    /\ pc[w] \in Past => \A i \in Intents : ~Live(i)
    /\ pc[w] \in {"prove", "release"} => Spent(job[w])
    /\ pc[w] \in {"insert", "upsert"} => WasRead(seen[w], job[w])
    /\ pc[w] \in {"protect", "flat"} => row[job[w]] # NoOrder

(* What the database says of an intent and of its order on the exchange.   *)
IntentInv(i) ==
    /\ posts[i] <= 1
    /\ posts[i] = 0 => order[i] = NoOrder
    /\ posts[i] > 0 => owner[i] # "NONE"
    /\ claim[i] = NoWorker => posts[i] = 0 /\ owner[i] = "NONE"
    /\ row[i] # NoOrder => WasRead(row[i], i)
    /\ reason[i] = "PRE_ENTRY_ABORTED" => Spent(i)
    /\ order[i].st \in {"NONE", "SENT"} => order[i].filled = 0
    /\ Working(i) => order[i].filled < Qty
    /\ open[i] <= order[i].filled

OneHeld == \A i, j \in Intents : owner[i] = "HELD" /\ owner[j] = "HELD" => i = j

Inv ==
    /\ \A w \in Workers : WorkerInv(w)
    /\ \A i \in Intents : IntentInv(i)
    /\ OneHeld
    /\ OneLiveEntry
    /\ ReleasedEntryIsOver

IInv == TypeOK /\ Inv

-----------------------------------------------------------------------------

LEMMA InitInv == Init => IInv
<1> SUFFICES ASSUME Init PROVE IInv
  OBVIOUS
<1> USE DEF Init
<1>1. TypeOK
  <2>1. NoOrder \in Orders /\ 0 \in 0..Qty
    BY QtyAssumption DEF NoOrder, Orders, OrderStatuses
  <2> HIDE DEF Orders
  <2> QED BY <2>1 DEF TypeOK, Steps, IntentStatuses, NoReport
<1>2. \A w \in Workers : WorkerInv(w)
  BY DEF WorkerInv, Holding, Past
<1>3. ASSUME NEW i \in Intents PROVE IntentInv(i)
  <2>1. /\ posts[i] = 0 /\ order[i] = NoOrder /\ open[i] = 0 /\ row[i] = NoOrder
        /\ reason[i] = "OTHER" /\ owner[i] = "NONE"
    OBVIOUS
  <2>2. NoOrder.st = "NONE" /\ NoOrder.filled = 0
    BY DEF NoOrder
  <2> QED BY <2>1, <2>2 DEF IntentInv, Working
<1>4. OneHeld /\ OneLiveEntry /\ ReleasedEntryIsOver
  BY DEF OneHeld, OneLiveEntry, ReleasedEntryIsOver, Working, NoOrder
<1> QED
  BY <1>1, <1>2, <1>3, <1>4 DEF IInv, Inv

(* A step that only moves one thread: it keeps what the others and the     *)
(* database rely on, as long as it does not start to hold a claim.         *)
LEMMA ThreadMoves ==
    ASSUME IInv, TypeOK', NEW w \in Workers, WorkerInv(w)',
           UNCHANGED <<claim, owner, row, exchangeVars>>,
           \A i \in Intents : reason'[i] = "PRE_ENTRY_ABORTED" => reason[i] = "PRE_ENTRY_ABORTED",
           \A v \in Workers \ {w} : pc'[v] = pc[v] /\ job'[v] = job[v] /\ seen'[v] = seen[v],
           pc'[w] \in Holding => pc[w] \in Holding /\ job'[w] = job[w]
    PROVE  IInv'
<1> USE DEF exchangeVars
<1>1. \A i \in Intents : Spent(i) => Spent(i)'
  BY DEF Spent
<1>2. \A i \in Intents : Live(i)' = Live(i) /\ Working(i)' = Working(i) /\ Exists(i)' = Exists(i)
  BY DEF Live, Working, Exists
<1>3. ASSUME NEW v \in Workers PROVE WorkerInv(v)'
  <2>1. CASE v = w
    BY <2>1
  <2>2. CASE v # w
    <3>1. WorkerInv(v)
      BY DEF IInv, Inv
    <3>2. pc'[v] = pc[v] /\ job'[v] = job[v] /\ seen'[v] = seen[v]
      BY <2>2
    <3>3. pc[v] \notin {"down", "idle"} => job[v] \in Intents
      BY <3>1 DEF WorkerInv
    <3>4. pc[v] \in {"insert", "upsert"} => WasRead(seen[v], job[v])'
      BY <3>1, <3>2, <3>3, <1>2 DEF WorkerInv, WasRead
    <3>5. pc[v] \in {"prove", "release"} => Spent(job[v])'
      <4>1. pc[v] \in {"prove", "release"} => Spent(job[v]) /\ job[v] \in Intents
        BY <3>1, <3>3 DEF WorkerInv
      <4> QED BY <4>1, <1>1, <3>2
    <3> QED BY <3>1, <3>2, <3>3, <3>4, <3>5, <1>2 DEF WorkerInv, Holding, Past
  <2> QED BY <2>1, <2>2
<1>4. ASSUME NEW i \in Intents PROVE IntentInv(i)'
  <2>1. IntentInv(i)
    BY DEF IInv, Inv
  <2> QED BY <2>1, <1>1, <1>2 DEF IntentInv, WasRead
<1>5. OneHeld' /\ OneLiveEntry' /\ ReleasedEntryIsOver'
  BY <1>2 DEF IInv, Inv, OneHeld, OneLiveEntry, ReleasedEntryIsOver
<1> QED
  BY <1>3, <1>4, <1>5 DEF IInv, Inv

(* A thread is working on one of the intents. *)
LEMMA AtWork ==
    ASSUME IInv, NEW w \in Workers, pc[w] \notin {"down", "idle"}
    PROVE  job[w] \in Intents
  BY DEF IInv, Inv, WorkerInv

(* Every step keeps the types. *)
LEMMA StepType == IInv /\ [Next]_vars => TypeOK'
<1> SUFFICES ASSUME IInv, [Next]_vars PROVE TypeOK'
  OBVIOUS
<1>0. TypeOK
  BY DEF IInv
<1>a. NoOrder \in Orders /\ NoOrder \in [st : OrderStatuses, filled : 0..Qty]
  BY QtyAssumption DEF NoOrder, Orders, OrderStatuses
<1> USE <1>0, <1>a DEF TypeOK, dbVars, exchangeVars, workerVars, NoReport, Steps, IntentStatuses

<1>1. ASSUME NEW w \in Workers, GateRefuses(w) PROVE TypeOK'
  <2>1. job[w] \in Intents
    BY <1>1, AtWork DEF GateRefuses
  <2> QED BY <1>1, <2>1 DEF GateRefuses, SetStatus, Finish

<1>2. ASSUME NEW w \in Workers, GatePasses(w) PROVE TypeOK'
  <2>1. job[w] \in Intents
    BY <1>2, AtWork DEF GatePasses
  <2> QED BY <1>2, <2>1 DEF GatePasses, Goto

<1>3. ASSUME NEW w \in Workers, Issue(w) PROVE TypeOK'
  <2>1. job[w] \in Intents
    BY <1>3, AtWork DEF Issue
  <2> QED BY <1>3, <2>1 DEF Issue, SetStatus, Goto

<1>4. ASSUME NEW w \in Workers, RefusedBeforeClaim(w) PROVE TypeOK'
  <2>1. job[w] \in Intents
    BY <1>4, AtWork DEF RefusedBeforeClaim
  <2> QED BY <1>4, <2>1 DEF RefusedBeforeClaim, Finish

<1>5. ASSUME NEW w \in Workers, Recheck(w) PROVE TypeOK'
  <2>1. job[w] \in Intents
    BY <1>5, AtWork DEF Recheck
  <2> QED BY <1>5, <2>1 DEF Recheck, Goto

<1>6. ASSUME NEW w \in Workers, Claim(w) PROVE TypeOK'
  <2>1. job[w] \in Intents
    BY <1>6, AtWork DEF Claim
  <2> QED BY <1>6, <2>1 DEF Claim, SetStatus, Goto

<1>7. ASSUME NEW w \in Workers, ReserveOwner(w) PROVE TypeOK'
  <2>1. job[w] \in Intents
    BY <1>7, AtWork DEF ReserveOwner
  <2> QED BY <1>7, <2>1 DEF ReserveOwner, Goto

<1>8. ASSUME NEW w \in Workers, Configure(w) PROVE TypeOK'
  <2>1. job[w] \in Intents
    BY <1>8, AtWork DEF Configure
  <2> QED BY <1>8, <2>1 DEF Configure, Goto

<1>9. ASSUME NEW w \in Workers, RefreshClaimed(w) PROVE TypeOK'
  <2>1. job[w] \in Intents
    BY <1>9, AtWork DEF RefreshClaimed
  <2> QED BY <1>9, <2>1 DEF RefreshClaimed, Goto

<1>10. ASSUME NEW w \in Workers, ConfirmClaim(w) PROVE TypeOK'
  <2>1. job[w] \in Intents
    BY <1>10, AtWork DEF ConfirmClaim
  <2> QED BY <1>10, <2>1 DEF ConfirmClaim, Goto

<1>11. ASSUME NEW w \in Workers, FailsBeforeEntry(w) PROVE TypeOK'
  <2>1. job[w] \in Intents
    BY <1>11, AtWork DEF FailsBeforeEntry
  <2> QED BY <1>11, <2>1 DEF FailsBeforeEntry, Goto

<1>12. ASSUME NEW w \in Workers, AbortPreEntry(w) PROVE TypeOK'
  <2>1. job[w] \in Intents
    BY <1>12, AtWork DEF AbortPreEntry
  <2> QED BY <1>12, <2>1 DEF AbortPreEntry, SetStatus, Finish

<1>13. ASSUME NEW w \in Workers, ReceiptExpiresAtPlacement(w) PROVE TypeOK'
  <2>1. job[w] \in Intents
    BY <1>13, AtWork DEF ReceiptExpiresAtPlacement
  <2> QED BY <1>13, <2>1 DEF ReceiptExpiresAtPlacement, Finish

<1>14. ASSUME NEW w \in Workers, ActiveReceipt(w) PROVE TypeOK'
  <2>1. job[w] \in Intents
    BY <1>14, AtWork DEF ActiveReceipt
  <2> QED BY <1>14, <2>1 DEF ActiveReceipt, Goto

<1>15. ASSUME NEW w \in Workers, PlaceOrder(w) PROVE TypeOK'
  <2>1. job[w] \in Intents
    BY <1>15, AtWork DEF PlaceOrder
  <2>2. \A st \in OrderStatuses, f \in 0..Qty : [st |-> st, filled |-> f] \in Orders
    BY DEF Orders
  <2>3. 0 \in 0..Qty /\ Qty \in 0..Qty /\ {"NEW", "FILLED", "SENT"} \subseteq OrderStatuses
    BY QtyAssumption DEF OrderStatuses
  <2>4. order' \in [Intents -> Orders] /\ seen' \in [Workers -> Orders] /\ open' \in [Intents -> 0..Qty]
    BY <1>15, <2>1, <2>2, <2>3 DEF PlaceOrder
  <2>5. posts' \in [Intents -> Nat] /\ pc' \in [Workers -> Steps]
    BY <1>15, <2>1 DEF PlaceOrder, Goto
  <2> QED BY <1>15, <2>4, <2>5 DEF PlaceOrder

<1>16. ASSUME NEW w \in Workers, ProbeFinds(w) PROVE TypeOK'
  <2>1. job[w] \in Intents
    BY <1>16, AtWork DEF ProbeFinds
  <2> QED BY <1>16, <2>1 DEF ProbeFinds, Goto

<1>17. ASSUME NEW w \in Workers, ProbeAbsent(w) PROVE TypeOK'
  <2>1. job[w] \in Intents
    BY <1>17, AtWork DEF ProbeAbsent
  <2> QED BY <1>17, <2>1 DEF ProbeAbsent, Goto, Returns

<1>18. ASSUME NEW w \in Workers, ProbeFails(w) PROVE TypeOK'
  <2>1. job[w] \in Intents
    BY <1>18, AtWork DEF ProbeFails
  <2> QED BY <1>18, <2>1 DEF ProbeFails, Finish

<1>19. ASSUME NEW w \in Workers, InsertRow(w) PROVE TypeOK'
  <2>1. job[w] \in Intents
    BY <1>19, AtWork DEF InsertRow
  <2>2. seen[w].st \in IntentStatuses
    <3>1. seen[w] \in Orders /\ WasRead(seen[w], job[w])
      BY <1>19 DEF InsertRow, IInv, Inv, WorkerInv
    <3> QED BY <3>1 DEF Orders, OrderStatuses, WasRead
  <2> QED BY <1>19, <2>1, <2>2 DEF InsertRow, Goto, Finish, Returns

<1>20. ASSUME NEW w \in Workers, QueryFinds(w) PROVE TypeOK'
  <2>1. job[w] \in Intents
    BY <1>20, AtWork DEF QueryFinds
  <2> QED BY <1>20, <2>1 DEF QueryFinds, Goto

<1>21. ASSUME NEW w \in Workers, QueryAbsent(w) PROVE TypeOK'
  <2>1. job[w] \in Intents
    BY <1>21, AtWork DEF QueryAbsent
  <2> QED BY <1>21, <2>1 DEF QueryAbsent, Goto

<1>22. ASSUME NEW w \in Workers, Uncertain(w) PROVE TypeOK'
  <2>1. job[w] \in Intents
    BY <1>22, AtWork DEF Uncertain
  <2> QED BY <1>22, <2>1 DEF Uncertain, Finish

<1>23. ASSUME NEW w \in Workers, JudgeAbsence(w) PROVE TypeOK'
  <2>1. job[w] \in Intents
    BY <1>23, AtWork DEF JudgeAbsence
  <2> QED BY <1>23, <2>1 DEF JudgeAbsence, Goto, Returns

<1>24. ASSUME NEW w \in Workers, ProveFlat(w) PROVE TypeOK'
  <2>1. job[w] \in Intents
    BY <1>24, AtWork DEF ProveFlat
  <2> QED BY <1>24, <2>1 DEF ProveFlat, Goto, Returns

<1>25. ASSUME NEW w \in Workers, ReleaseAborted(w) PROVE TypeOK'
  <2>1. job[w] \in Intents
    BY <1>25, AtWork DEF ReleaseAborted
  <2> QED BY <1>25, <2>1 DEF ReleaseAborted, ReleaseFlat, Returns, Goto

<1>26. ASSUME NEW w \in Workers, UpsertRow(w) PROVE TypeOK'
  <2>1. job[w] \in Intents
    BY <1>26, AtWork DEF UpsertRow
  <2>2. seen[w].st \in IntentStatuses
    <3>1. seen[w] \in Orders /\ WasRead(seen[w], job[w])
      BY <1>26 DEF UpsertRow, IInv, Inv, WorkerInv
    <3> QED BY <3>1 DEF Orders, OrderStatuses, WasRead
  <2> QED BY <1>26, <2>1, <2>2 DEF UpsertRow, Goto, Returns

<1>27. ASSUME NEW w \in Workers, Protect(w) PROVE TypeOK'
  <2>1. job[w] \in Intents
    BY <1>27, AtWork DEF Protect
  <2>2. pc' \in [Workers -> Steps]
    BY <1>27 DEF Protect, Goto
  <2>3. \E b \in BOOLEAN : stop' = stop \/ stop' = [stop EXCEPT ![job[w]] = b]
    BY <1>27 DEF Protect
  <2>4. stop' \in [Intents -> BOOLEAN]
    BY <2>1, <2>3
  <2> QED BY <1>27, <2>2, <2>4 DEF Protect

<1>28. ASSUME NEW w \in Workers, ReleaseSettled(w) PROVE TypeOK'
  <2>1. job[w] \in Intents
    BY <1>28, AtWork DEF ReleaseSettled
  <2> QED BY <1>28, <2>1 DEF ReleaseSettled, ReleaseFlat, Goto

<1>29. ASSUME NEW w \in Workers, WriteReport(w) PROVE TypeOK'
  <2>1. job[w] \in Intents
    BY <1>29, AtWork DEF WriteReport
  <2> QED BY <1>29, <2>1 DEF WriteReport, SetStatus, Finish

<1>30. ASSUME NEW w \in Workers, NEW i \in Intents, BeginExecute(w, i) \/ BeginReconcile(w, i)
      PROVE TypeOK'
  BY <1>30 DEF BeginExecute, BeginReconcile, Goto

<1>31. ASSUME NEW i \in Intents, RequestArrives(i) \/ RequestLost(i) PROVE TypeOK'
  <2>1. [st |-> "NEW", filled |-> 0] \in Orders
    BY QtyAssumption DEF Orders, OrderStatuses
  <2> QED BY <1>31, <2>1 DEF RequestArrives, RequestLost

<1>32. ASSUME NEW i \in Intents, OrderFills(i) PROVE TypeOK'
  <2>1. order[i].filled < Qty /\ open[i] <= order[i].filled
    BY <1>32 DEF OrderFills, IInv, Inv, IntentInv, Working
  <2>2. order[i].filled \in 0..Qty /\ open[i] \in 0..Qty
    BY DEF Orders
  <2>3. order[i].filled + 1 \in 0..Qty /\ open[i] + 1 \in 0..Qty
    BY <2>1, <2>2, QtyAssumption
  <2>4. \A st \in {"FILLED", "PARTIALLY_FILLED"} : [st |-> st, filled |-> order[i].filled + 1] \in Orders
    BY <2>3 DEF Orders, OrderStatuses
  <2> QED BY <1>32, <2>3, <2>4 DEF OrderFills

<1>33. ASSUME NEW i \in Intents, OrderCanceled(i) PROVE TypeOK'
  <2>1. order[i] \in [st : OrderStatuses, filled : 0..Qty]
    BY DEF Orders
  <2>2. [order[i] EXCEPT !.st = "CANCELED"] \in Orders
    BY <2>1 DEF Orders, OrderStatuses
  <2>3. order' = [order EXCEPT ![i] = [order[i] EXCEPT !.st = "CANCELED"]]
    BY <1>33 DEF OrderCanceled
  <2> QED BY <1>33, <2>2, <2>3 DEF OrderCanceled

<1>34. ASSUME NEW i \in Intents, PositionCloses(i) PROVE TypeOK'
  BY <1>34, QtyAssumption DEF PositionCloses

<1>35. ASSUME Crash \/ Restart PROVE TypeOK'
  BY <1>35 DEF Crash, Restart

<1>36. CASE UNCHANGED vars
  BY <1>36 DEF vars
<1> QED
  BY <1>1, <1>2, <1>3, <1>4, <1>5, <1>6, <1>7, <1>8, <1>9, <1>10, <1>11, <1>12, <1>13, <1>14,
     <1>15, <1>16, <1>17, <1>18, <1>19, <1>20, <1>21, <1>22, <1>23, <1>24, <1>25, <1>26, <1>27,
     <1>28, <1>29, <1>30, <1>31, <1>32, <1>33, <1>34, <1>35, <1>36 DEF Next, Execute, Reconcile,
     Finishing, Exchange

(* The steps that only move one thread, and perhaps write a status. *)
LEMMA MovesKeepInv ==
    ASSUME IInv, TypeOK', NEW w \in Workers,
           \/ \E i \in Intents : BeginExecute(w, i) \/ BeginReconcile(w, i)
           \/ GateRefuses(w) \/ GatePasses(w) \/ Issue(w) \/ RefusedBeforeClaim(w)
           \/ Recheck(w) \/ Configure(w) \/ RefreshClaimed(w) \/ ConfirmClaim(w)
           \/ FailsBeforeEntry(w) \/ ReceiptExpiresAtPlacement(w) \/ ActiveReceipt(w)
           \/ ProbeFinds(w) \/ ProbeAbsent(w) \/ ProbeFails(w) \/ QueryFinds(w)
           \/ QueryAbsent(w) \/ Uncertain(w) \/ JudgeAbsence(w) \/ ProveFlat(w)
           \/ Protect(w) \/ WriteReport(w)
    PROVE  IInv'
<1>0. TypeOK /\ WorkerInv(w)
  BY DEF IInv, Inv
<1> USE <1>0 DEF TypeOK, dbVars, exchangeVars, workerVars, Goto, Finish, Holding, Past
<1>1. ASSUME NEW i \in Intents, BeginExecute(w, i) \/ BeginReconcile(w, i)
      PROVE  IInv'
  <2>1. /\ UNCHANGED <<claim, owner, row, order, open, posts>>
        /\ \A v \in Workers \ {w} : pc'[v] = pc[v] /\ job'[v] = job[v] /\ seen'[v] = seen[v]
        /\ \A j \in Intents : reason'[j] = "PRE_ENTRY_ABORTED" => reason[j] = "PRE_ENTRY_ABORTED"
        /\ pc'[w] \in Holding => pc[w] \in Holding /\ job'[w] = job[w]
    BY <1>1 DEF BeginExecute, BeginReconcile
  <2>2. WorkerInv(w)'
    BY <1>1, <2>1 DEF BeginExecute, BeginReconcile, WorkerInv
  <2> QED BY <2>1, <2>2, ThreadMoves
<1>2. ASSUME GateRefuses(w) \/ RefusedBeforeClaim(w) \/ ReceiptExpiresAtPlacement(w) \/ ProbeFails(w)
               \/ Uncertain(w) \/ WriteReport(w)
      PROVE  IInv'
  <2>1. /\ UNCHANGED <<claim, owner, row, order, open, posts>>
        /\ \A v \in Workers \ {w} : pc'[v] = pc[v] /\ job'[v] = job[v] /\ seen'[v] = seen[v]
        /\ \A j \in Intents : reason'[j] = "PRE_ENTRY_ABORTED" => reason[j] = "PRE_ENTRY_ABORTED"
        /\ pc'[w] \in Holding => pc[w] \in Holding /\ job'[w] = job[w]
    BY <1>2 DEF GateRefuses, RefusedBeforeClaim, ReceiptExpiresAtPlacement, ProbeFails, Uncertain,
       WriteReport, SetStatus
  <2>2. WorkerInv(w)'
    BY <1>2, <2>1 DEF GateRefuses, RefusedBeforeClaim, ReceiptExpiresAtPlacement, ProbeFails,
       Uncertain,
       WriteReport, SetStatus, WorkerInv
  <2> QED BY <2>1, <2>2, ThreadMoves
<1>3. ASSUME GatePasses(w) \/ Issue(w) \/ Recheck(w)
      PROVE  IInv'
  <2>1. /\ UNCHANGED <<claim, owner, row, order, open, posts>>
        /\ \A v \in Workers \ {w} : pc'[v] = pc[v] /\ job'[v] = job[v] /\ seen'[v] = seen[v]
        /\ \A j \in Intents : reason'[j] = "PRE_ENTRY_ABORTED" => reason[j] = "PRE_ENTRY_ABORTED"
        /\ pc'[w] \in Holding => pc[w] \in Holding /\ job'[w] = job[w]
    BY <1>3 DEF GatePasses, Issue, Recheck, SetStatus
  <2>2. WorkerInv(w)'
    BY <1>3, <2>1 DEF GatePasses, Issue, Recheck, SetStatus, WorkerInv
  <2> QED BY <2>1, <2>2, ThreadMoves
<1>4. ASSUME Configure(w)
      PROVE  IInv'
  <2>1. /\ UNCHANGED <<claim, owner, row, order, open, posts>>
        /\ \A v \in Workers \ {w} : pc'[v] = pc[v] /\ job'[v] = job[v] /\ seen'[v] = seen[v]
        /\ \A j \in Intents : reason'[j] = "PRE_ENTRY_ABORTED" => reason[j] = "PRE_ENTRY_ABORTED"
        /\ pc'[w] \in Holding => pc[w] \in Holding /\ job'[w] = job[w]
    BY <1>4 DEF Configure
  <2>2. WorkerInv(w)'
    <3>1. ASSUME NEW i \in Intents PROVE ~Live(i)'
      <4>1. owner[job[w]] = "HELD" /\ posts[job[w]] = 0 /\ job[w] \in Intents
        BY <1>4 DEF Configure, WorkerInv
      <4>2. order[job[w]] = NoOrder
        BY <4>1 DEF IInv, Inv, IntentInv
      <4>3. ~Working(i)
        <5>1. CASE i = job[w]
          BY <4>2, <5>1 DEF Working, NoOrder
        <5>2. CASE i # job[w]
          <6>1. owner[i] # "HELD"
            BY <4>1, <5>2 DEF IInv, Inv, OneHeld
          <6>2. posts[i] > 0 => owner[i] = "RELEASED"
            BY <6>1 DEF IInv, Inv, IntentInv
          <6>3. CASE owner[i] = "RELEASED"
            BY <6>3 DEF IInv, Inv, ReleasedEntryIsOver
          <6>4. CASE posts[i] = 0
            <7>1. order[i] = NoOrder
              BY <6>4 DEF IInv, Inv, IntentInv
            <7> QED BY <7>1 DEF Working, NoOrder
          <6> QED BY <6>2, <6>3, <6>4
        <5> QED BY <5>1, <5>2
      <4> QED BY <1>4, <4>3 DEF Configure, SymbolFlat, Live, Working
    <3> QED BY <1>4, <2>1, <3>1 DEF Configure, WorkerInv
  <2> QED BY <2>1, <2>2, ThreadMoves
<1>5. ASSUME RefreshClaimed(w) \/ ConfirmClaim(w) \/ ActiveReceipt(w)
      PROVE  IInv'
  <2>1. /\ UNCHANGED <<claim, owner, row, order, open, posts>>
        /\ \A v \in Workers \ {w} : pc'[v] = pc[v] /\ job'[v] = job[v] /\ seen'[v] = seen[v]
        /\ \A j \in Intents : reason'[j] = "PRE_ENTRY_ABORTED" => reason[j] = "PRE_ENTRY_ABORTED"
        /\ pc'[w] \in Holding => pc[w] \in Holding /\ job'[w] = job[w]
    BY <1>5 DEF RefreshClaimed, ConfirmClaim, ActiveReceipt
  <2>2. WorkerInv(w)'
    <3>1. \A i \in Intents : ~Live(i)'
      BY <1>5, <2>1 DEF RefreshClaimed, ConfirmClaim, ActiveReceipt, WorkerInv, Live, Working
    <3> QED BY <1>5, <2>1, <3>1 DEF RefreshClaimed, ConfirmClaim, ActiveReceipt, WorkerInv
  <2> QED BY <2>1, <2>2, ThreadMoves
<1>6. ASSUME FailsBeforeEntry(w)
      PROVE  IInv'
  <2>1. /\ UNCHANGED <<claim, owner, row, order, open, posts>>
        /\ \A v \in Workers \ {w} : pc'[v] = pc[v] /\ job'[v] = job[v] /\ seen'[v] = seen[v]
        /\ \A j \in Intents : reason'[j] = "PRE_ENTRY_ABORTED" => reason[j] = "PRE_ENTRY_ABORTED"
        /\ pc'[w] \in Holding => pc[w] \in Holding /\ job'[w] = job[w]
    BY <1>6 DEF FailsBeforeEntry
  <2>2. WorkerInv(w)'
    BY <1>6, <2>1 DEF FailsBeforeEntry, WorkerInv
  <2> QED BY <2>1, <2>2, ThreadMoves
<1>7. ASSUME ProbeFinds(w) \/ QueryFinds(w)
      PROVE  IInv'
  <2>1. /\ UNCHANGED <<claim, owner, row, order, open, posts>>
        /\ \A v \in Workers \ {w} : pc'[v] = pc[v] /\ job'[v] = job[v] /\ seen'[v] = seen[v]
        /\ \A j \in Intents : reason'[j] = "PRE_ENTRY_ABORTED" => reason[j] = "PRE_ENTRY_ABORTED"
        /\ pc'[w] \in Holding => pc[w] \in Holding /\ job'[w] = job[w]
    BY <1>7 DEF ProbeFinds, QueryFinds
  <2>2. WorkerInv(w)'
    <3>1. WasRead(seen[w], job[w])'
      BY <1>7, <2>1 DEF ProbeFinds, QueryFinds, WorkerInv, WasRead, Exists
    <3> QED BY <1>7, <2>1, <3>1 DEF ProbeFinds, QueryFinds, WorkerInv
  <2> QED BY <2>1, <2>2, ThreadMoves
<1>8. ASSUME ProbeAbsent(w) \/ QueryAbsent(w)
      PROVE  IInv'
  <2>1. /\ UNCHANGED <<claim, owner, row, order, open, posts>>
        /\ \A v \in Workers \ {w} : pc'[v] = pc[v] /\ job'[v] = job[v] /\ seen'[v] = seen[v]
        /\ \A j \in Intents : reason'[j] = "PRE_ENTRY_ABORTED" => reason[j] = "PRE_ENTRY_ABORTED"
        /\ pc'[w] \in Holding => pc[w] \in Holding /\ job'[w] = job[w]
    BY <1>8 DEF ProbeAbsent, QueryAbsent, Returns
  <2>2. WorkerInv(w)'
    BY <1>8, <2>1 DEF ProbeAbsent, QueryAbsent, Returns, WorkerInv
  <2> QED BY <2>1, <2>2, ThreadMoves
<1>9. ASSUME JudgeAbsence(w)
      PROVE  IInv'
  <2>1. /\ UNCHANGED <<claim, owner, row, order, open, posts>>
        /\ \A v \in Workers \ {w} : pc'[v] = pc[v] /\ job'[v] = job[v] /\ seen'[v] = seen[v]
        /\ \A j \in Intents : reason'[j] = "PRE_ENTRY_ABORTED" => reason[j] = "PRE_ENTRY_ABORTED"
        /\ pc'[w] \in Holding => pc[w] \in Holding /\ job'[w] = job[w]
    BY <1>9 DEF JudgeAbsence, Returns
  <2>2. WorkerInv(w)'
    <3>1. pc'[w] \in {"prove", "release"} => Spent(job[w])
      BY <1>9 DEF JudgeAbsence, PreEntryAbortProven, IInv, Inv, IntentInv, WorkerInv
    <3>2. Spent(job[w]) => Spent(job[w])'
      BY <1>9, <2>1 DEF JudgeAbsence, Returns, Spent
    <3> QED BY <1>9, <2>1, <3>1, <3>2 DEF JudgeAbsence, Returns, WorkerInv
  <2> QED BY <2>1, <2>2, ThreadMoves
<1>10. ASSUME ProveFlat(w)
      PROVE  IInv'
  <2>1. /\ UNCHANGED <<claim, owner, row, order, open, posts>>
        /\ \A v \in Workers \ {w} : pc'[v] = pc[v] /\ job'[v] = job[v] /\ seen'[v] = seen[v]
        /\ \A j \in Intents : reason'[j] = "PRE_ENTRY_ABORTED" => reason[j] = "PRE_ENTRY_ABORTED"
        /\ pc'[w] \in Holding => pc[w] \in Holding /\ job'[w] = job[w]
    BY <1>10 DEF ProveFlat, Returns
  <2>2. WorkerInv(w)'
    <3>1. pc'[w] \in {"prove", "release"} => Spent(job[w])
      BY <1>10 DEF ProveFlat, WorkerInv
    <3>2. Spent(job[w]) => Spent(job[w])'
      BY <1>10, <2>1 DEF ProveFlat, Returns, Spent
    <3> QED BY <1>10, <2>1, <3>1, <3>2 DEF ProveFlat, Returns, WorkerInv
  <2> QED BY <2>1, <2>2, ThreadMoves
<1>11. ASSUME Protect(w)
      PROVE  IInv'
  <2>1. /\ UNCHANGED <<claim, owner, row, order, open, posts>>
        /\ \A v \in Workers \ {w} : pc'[v] = pc[v] /\ job'[v] = job[v] /\ seen'[v] = seen[v]
        /\ \A j \in Intents : reason'[j] = "PRE_ENTRY_ABORTED" => reason[j] = "PRE_ENTRY_ABORTED"
        /\ pc'[w] \in Holding => pc[w] \in Holding /\ job'[w] = job[w]
    BY <1>11 DEF Protect
  <2>2. WorkerInv(w)'
    BY <1>11, <2>1 DEF Protect, WorkerInv
  <2> QED BY <2>1, <2>2, ThreadMoves
<1> QED
  BY <1>1, <1>2, <1>3, <1>4, <1>5, <1>6, <1>7, <1>8, <1>9, <1>10, <1>11

(* AuthorizationStore.claim: nobody else is, or will be, on this intent's  *)
(* way to a POST.                                                          *)
LEMMA ClaimKeepsInv ==
    ASSUME IInv, TypeOK', NEW w \in Workers, Claim(w)
    PROVE  IInv'
<1>0. TypeOK /\ job[w] \in Intents
  BY AtWork DEF IInv, Claim
<1> DEFINE i == job[w]
<1>1. claim[i] = NoWorker /\ posts[i] = 0 /\ owner[i] = "NONE"
  BY <1>0 DEF Claim, IInv, Inv, IntentInv
<1>2. /\ claim' = [claim EXCEPT ![i] = w] /\ pc' = [pc EXCEPT ![w] = "reserve"]
      /\ reason' = [reason EXCEPT ![i] = "OTHER"]
      /\ UNCHANGED <<owner, row, order, open, posts, job, seen>>
  BY DEF Claim, SetStatus, Goto, exchangeVars
<1> USE <1>0 DEF TypeOK
<1>3. \A j \in Intents : Spent(j) => j # i /\ Spent(j)'
  BY <1>1, <1>2 DEF Spent, Holding, Past
<1>4. \A j \in Intents : Live(j)' = Live(j) /\ Working(j)' = Working(j) /\ Exists(j)' = Exists(j)
  BY <1>2 DEF Live, Working, Exists
<1>5. ASSUME NEW v \in Workers PROVE WorkerInv(v)'
  <2>1. CASE v = w
    BY <2>1, <1>1, <1>2 DEF WorkerInv, Holding, Past
  <2>2. CASE v # w
    <3>1. WorkerInv(v) /\ pc'[v] = pc[v]
      BY <2>2, <1>2 DEF IInv, Inv
    <3>2. pc[v] \in Holding => job[v] # i /\ job[v] \in Intents
      BY <3>1, <1>1, NoWorkerAssumption DEF WorkerInv, Holding, Past
    <3> QED BY <3>1, <3>2, <1>2, <1>3, <1>4 DEF WorkerInv, WasRead, Holding, Past
  <2> QED BY <2>1, <2>2
<1>6. ASSUME NEW j \in Intents PROVE IntentInv(j)'
  <2>1. IntentInv(j)
    BY DEF IInv, Inv
  <2>2. claim'[j] = NoWorker => claim[j] = NoWorker
    BY <1>2, NoWorkerAssumption
  <2>3. reason'[j] = "PRE_ENTRY_ABORTED" => reason[j] = "PRE_ENTRY_ABORTED"
    BY <1>2
  <2> QED BY <2>1, <2>2, <2>3, <1>2, <1>3, <1>4 DEF IntentInv, WasRead
<1>7. OneHeld' /\ OneLiveEntry' /\ ReleasedEntryIsOver'
  BY <1>2, <1>4 DEF IInv, Inv, OneHeld, OneLiveEntry, ReleasedEntryIsOver
<1> QED
  BY <1>5, <1>6, <1>7 DEF IInv, Inv

(* ProtectionStore.reserve_owner: the symbol has one unreleased owner. *)
LEMMA ReserveKeepsInv ==
    ASSUME IInv, TypeOK', NEW w \in Workers, ReserveOwner(w)
    PROVE  IInv'
<1>0. TypeOK /\ job[w] \in Intents
  BY AtWork DEF IInv, ReserveOwner
<1> DEFINE i == job[w]
<1>1. pc[w] = "reserve" /\ claim[i] = w /\ posts[i] = 0 /\ owner[i] = "NONE"
  BY <1>0 DEF ReserveOwner, IInv, Inv, WorkerInv, Holding, Past
<1>2. UNCHANGED <<claim, row, reason, order, open, posts, job, seen>>
  BY DEF ReserveOwner, exchangeVars
<1> USE <1>0 DEF TypeOK
<1>3. CASE \E j \in Intents \ {i} : owner[j] = "HELD"
  <2>1. UNCHANGED owner /\ pc' = [pc EXCEPT ![w] = "aborting"]
    BY <1>3 DEF ReserveOwner, Goto
  <2>2. WorkerInv(w)'
    BY <1>1, <1>2, <2>1 DEF WorkerInv, Holding, Past
  <2> QED BY <1>1, <1>2, <2>1, <2>2, ThreadMoves DEF exchangeVars, Holding, Past
<1>4. CASE \A j \in Intents \ {i} : owner[j] # "HELD"
  <2>1. owner' = [owner EXCEPT ![i] = "HELD"] /\ pc' = [pc EXCEPT ![w] = "configure"]
    BY <1>1, <1>4 DEF ReserveOwner, Goto
  <2>2. \A j \in Intents : Spent(j)' = Spent(j)
    BY <1>1, <1>2, <2>1 DEF Spent, Holding, Past
  <2>3. \A j \in Intents : Live(j)' = Live(j) /\ Working(j)' = Working(j) /\ Exists(j)' = Exists(j)
    BY <1>2 DEF Live, Working, Exists
  <2>4. ASSUME NEW v \in Workers PROVE WorkerInv(v)'
    <3>1. CASE v = w
      BY <3>1, <1>1, <1>2, <2>1 DEF WorkerInv, Holding, Past
    <3>2. CASE v # w
      <4>1. WorkerInv(v) /\ pc'[v] = pc[v]
        BY <3>2, <2>1 DEF IInv, Inv
      <4>2. pc[v] \in Holding => job[v] # i /\ job[v] \in Intents
        BY <4>1, <1>1, <3>2 DEF WorkerInv, Holding, Past
      <4> QED BY <4>1, <4>2, <1>2, <2>1, <2>2, <2>3 DEF WorkerInv, WasRead, Holding, Past
    <3> QED BY <3>1, <3>2
  <2>5. ASSUME NEW j \in Intents PROVE IntentInv(j)'
    <3>1. IntentInv(j)
      BY DEF IInv, Inv
    <3>2. claim[j] = NoWorker => j # i
      BY <1>1, NoWorkerAssumption
    <3> QED BY <3>1, <3>2, <1>2, <2>1, <2>2, <2>3 DEF IntentInv, WasRead
  <2>6. OneHeld' /\ OneLiveEntry' /\ ReleasedEntryIsOver'
    BY <1>2, <1>4, <2>1, <2>3 DEF IInv, Inv, OneHeld, OneLiveEntry, ReleasedEntryIsOver
  <2> QED BY <2>4, <2>5, <2>6 DEF IInv, Inv
<1> QED
  BY <1>3, <1>4

(* PRE_ENTRY_ABORTED: the claimer itself gives up, so the claim is spent. *)
LEMMA AbortKeepsInv ==
    ASSUME IInv, TypeOK', NEW w \in Workers, AbortPreEntry(w)
    PROVE  IInv'
<1>0. TypeOK /\ job[w] \in Intents
  BY AtWork DEF IInv, AbortPreEntry
<1>p. PICK i \in Intents : i = job[w]
  BY <1>0
<1>1. claim[i] = w /\ posts[i] = 0
  BY <1>0, <1>p DEF AbortPreEntry, IInv, Inv, WorkerInv, Holding, Past
<1>2. /\ UNCHANGED <<claim, owner, row, order, open, posts>>
      /\ reason' = [reason EXCEPT ![i] = "PRE_ENTRY_ABORTED"]
      /\ pc' = [pc EXCEPT ![w] = "idle"]
      /\ \A v \in Workers \ {w} : job'[v] = job[v] /\ seen'[v] = seen[v]
  BY <1>0, <1>p DEF AbortPreEntry, SetStatus, Finish, exchangeVars, TypeOK
<1> USE <1>0 DEF TypeOK
<1>3. \A j \in Intents : Spent(j) => Spent(j)'
  BY <1>2 DEF Spent, Holding, Past
<1>4. Spent(i)'
  <2>1. ASSUME NEW v \in Workers, pc'[v] \in Holding PROVE job'[v] # i
    <3>1. v # w /\ pc[v] \in Holding /\ job'[v] = job[v]
      BY <2>1, <1>2 DEF Holding, Past
    <3>2. claim[job[v]] = v
      BY <3>1 DEF IInv, Inv, WorkerInv
    <3> QED BY <3>1, <3>2, <1>1
  <2>2. claim'[i] # NoWorker /\ posts'[i] = 0
    BY <1>1, <1>2, NoWorkerAssumption
  <2> QED BY <2>1, <2>2 DEF Spent
<1>5. \A j \in Intents : Live(j)' = Live(j) /\ Working(j)' = Working(j) /\ Exists(j)' = Exists(j)
  BY <1>2 DEF Live, Working, Exists
<1>6. ASSUME NEW v \in Workers PROVE WorkerInv(v)'
  <2>1. CASE v = w
    BY <2>1, <1>2 DEF WorkerInv, Holding, Past
  <2>2. CASE v # w
    <3>1. WorkerInv(v) /\ pc'[v] = pc[v] /\ job'[v] = job[v] /\ seen'[v] = seen[v]
      BY <2>2, <1>2 DEF IInv, Inv
    <3> QED BY <3>1, <1>2, <1>3, <1>5 DEF WorkerInv, WasRead, Holding, Past
  <2> QED BY <2>1, <2>2
<1>7. ASSUME NEW j \in Intents PROVE IntentInv(j)'
  <2>1. IntentInv(j)
    BY DEF IInv, Inv
  <2>2. reason'[j] = "PRE_ENTRY_ABORTED" => Spent(j)'
    BY <2>1, <1>2, <1>3, <1>4 DEF IntentInv
  <2> QED BY <2>1, <2>2, <1>2, <1>5 DEF IntentInv, WasRead
<1>8. OneHeld' /\ OneLiveEntry' /\ ReleasedEntryIsOver'
  BY <1>2, <1>5 DEF IInv, Inv, OneHeld, OneLiveEntry, ReleasedEntryIsOver
<1> QED
  BY <1>6, <1>7, <1>8 DEF IInv, Inv

(* place_order.  Only the claimer can send it, and nothing else is alive   *)
(* on the symbol when it does.                                             *)
LEMMA PlaceKeepsInv ==
    ASSUME IInv, TypeOK', NEW w \in Workers, PlaceOrder(w)
    PROVE  IInv'
<1>0. TypeOK /\ job[w] \in Intents
  BY AtWork DEF IInv, PlaceOrder
<1>p. PICK i \in Intents : i = job[w]
  BY <1>0
<1> USE <1>0, <1>p DEF TypeOK
<1>1. /\ pc[w] = "place" /\ claim[i] = w /\ posts[i] = 0 /\ owner[i] = "HELD"
      /\ \A j \in Intents : ~Live(j)
  BY DEF PlaceOrder, IInv, Inv, WorkerInv, Holding, Past
<1>2. order[i] = NoOrder /\ row[i] = NoOrder
  <2>1. order[i] = NoOrder
    BY <1>1 DEF IInv, Inv, IntentInv
  <2>2. ~Exists(i)
    BY <2>1 DEF Exists, NoOrder
  <2> QED BY <2>1, <2>2 DEF IInv, Inv, IntentInv, WasRead
<1>3. /\ UNCHANGED <<claim, owner, row, reason, job>>
      /\ posts' = [posts EXCEPT ![i] = 1]
      /\ \A j \in Intents \ {i} : order'[j] = order[j] /\ open'[j] = open[j]
      /\ \A v \in Workers \ {w} : pc'[v] = pc[v] /\ seen'[v] = seen[v]
  BY <1>1 DEF PlaceOrder, Goto, dbVars
<1>4. /\ order'[i].st \in {"NEW", "FILLED", "SENT"}
      /\ order'[i].st = "FILLED" => order'[i].filled = Qty
      /\ order'[i].st # "FILLED" => order'[i].filled = 0
      /\ open'[i] <= order'[i].filled
      /\ \/ pc'[w] = "insert" /\ order'[i].st # "SENT" /\ seen'[w] = order'[i]
         \/ pc'[w] = "probe"
  <2>1. open[i] = 0
    BY <1>1, QtyAssumption DEF Live
  <2> QED BY <2>1, QtyAssumption DEF PlaceOrder, Goto
<1>5. \A j \in Intents : Spent(j) => j # i /\ Spent(j)'
  <2>1. ASSUME NEW j \in Intents, Spent(j) PROVE j # i /\ Spent(j)'
    <3>1. j # i
      BY <1>1, <2>1 DEF Spent, Holding, Past
    <3>2. \A v \in Workers : pc'[v] \in Holding => pc[v] \in Holding
      BY <1>3, <1>4 DEF Holding, Past
    <3> QED BY <3>1, <3>2, <2>1, <1>3 DEF Spent
  <2> QED BY <2>1
<1>6. \A j \in Intents \ {i} : Live(j)' = Live(j) /\ Working(j)' = Working(j) /\ Exists(j)' = Exists(j)
  BY <1>3 DEF Live, Working, Exists
<1>7. ASSUME NEW v \in Workers PROVE WorkerInv(v)'
  <2>1. CASE v = w
    <3>1. pc'[w] = "insert" => WasRead(seen[w], job[w])'
      BY <1>3, <1>4 DEF WasRead, Exists
    <3> QED BY <2>1, <3>1, <1>3, <1>4 DEF WorkerInv, Holding, Past
  <2>2. CASE v # w
    <3>1. WorkerInv(v) /\ pc'[v] = pc[v] /\ seen'[v] = seen[v] /\ job'[v] = job[v]
      BY <2>2, <1>3 DEF IInv, Inv
    <3>2. pc[v] \in Holding => job[v] # i /\ job[v] \in Intents
      BY <3>1, <2>2, <1>1 DEF WorkerInv, Holding, Past
    <3>3. pc[v] \notin Past
      BY <3>1, <3>2, <1>1 DEF IInv, Inv, OneHeld, WorkerInv, Holding, Past
    <3>4. pc[v] \in {"insert", "upsert"} => WasRead(seen[v], job[v])'
      <4>1. SUFFICES ASSUME pc[v] \in {"insert", "upsert"} PROVE WasRead(seen[v], job[v])'
        OBVIOUS
      <4>2. WasRead(seen[v], job[v]) /\ job[v] \in Intents
        BY <4>1, <3>1 DEF WorkerInv
      <4>3. job[v] # i
        BY <4>2, <1>2 DEF WasRead, Exists, NoOrder
      <4> QED BY <4>2, <4>3, <3>1, <1>3, <1>6 DEF WasRead
    <3> QED BY <3>1, <3>2, <3>3, <3>4, <1>3, <1>5 DEF WorkerInv, Holding, Past
  <2> QED BY <2>1, <2>2
<1>8. ASSUME NEW j \in Intents PROVE IntentInv(j)'
  <2>1. IntentInv(j)
    BY DEF IInv, Inv
  <2>2. CASE j = i
    <3>1. posts'[i] = 1 /\ owner'[i] = "HELD" /\ claim'[i] # NoWorker /\ row'[i] = NoOrder
      BY <1>1, <1>2, <1>3, NoWorkerAssumption
    <3>2. reason'[i] # "PRE_ENTRY_ABORTED"
      BY <2>1, <2>2, <1>3, <1>5 DEF IntentInv
    <3> QED BY <2>2, <3>1, <3>2, <1>4, QtyAssumption DEF IntentInv, Working
  <2>3. CASE j # i
    BY <2>1, <2>3, <1>3, <1>5, <1>6 DEF IntentInv, WasRead
  <2> QED BY <2>2, <2>3
<1>9. OneHeld' /\ OneLiveEntry' /\ ReleasedEntryIsOver'
  <2>1. OneHeld'
    BY <1>3 DEF IInv, Inv, OneHeld
  <2>2. \A j \in Intents : (Working(j)' \/ open'[j] > 0) => j = i
    BY <1>1, <1>6 DEF Live
  <2>3. OneLiveEntry'
    BY <2>2 DEF OneLiveEntry
  <2>4. ReleasedEntryIsOver'
    BY <1>1, <1>3, <2>2 DEF ReleasedEntryIsOver
  <2> QED BY <2>1, <2>3, <2>4
<1> QED
  BY <1>7, <1>8, <1>9 DEF IInv, Inv

(* A row is written with what was read, however long ago: a final status   *)
(* in a row is the order's status.                                         *)
LEMMA WriteRowKeepsInv ==
    ASSUME IInv, TypeOK', NEW w \in Workers, pc[w] \in {"insert", "upsert"},
           row' = [row EXCEPT ![job[w]] = seen[w]],
           UNCHANGED <<claim, owner, reason, exchangeVars, job, seen>>,
           pc' \in {[pc EXCEPT ![w] = "protect"], [pc EXCEPT ![w] = "report"]}
    PROVE  IInv'
<1>0. TypeOK /\ job[w] \in Intents
  BY AtWork DEF IInv
<1> USE <1>0 DEF TypeOK, exchangeVars
<1>1. WasRead(seen[w], job[w])
  BY DEF IInv, Inv, WorkerInv
<1>2. seen[w] # NoOrder
  BY <1>1 DEF WasRead, NoOrder
<1>3. \A j \in Intents : Spent(j) => Spent(j)'
  BY DEF Spent, Holding, Past
<1>4. \A j \in Intents : Live(j)' = Live(j) /\ Working(j)' = Working(j) /\ Exists(j)' = Exists(j)
  BY DEF Live, Working, Exists
<1>5. ASSUME NEW v \in Workers PROVE WorkerInv(v)'
  <2>1. WorkerInv(v)
    BY DEF IInv, Inv
  <2>2. \A j \in Intents : row[j] # NoOrder => row'[j] # NoOrder
    BY <1>2
  <2>3. CASE v = w
    BY <2>3, <1>2 DEF WorkerInv, Holding, Past
  <2>4. CASE v # w
    BY <2>1, <2>2, <2>4, <1>3, <1>4 DEF WorkerInv, WasRead, Holding, Past
  <2> QED BY <2>3, <2>4
<1>6. ASSUME NEW j \in Intents PROVE IntentInv(j)'
  <2>1. IntentInv(j)
    BY DEF IInv, Inv
  <2>2. row'[j] # NoOrder => WasRead(row[j], j)'
    <3>1. CASE j = job[w]
      BY <3>1, <1>1, <1>4 DEF WasRead
    <3>2. CASE j # job[w]
      BY <3>2, <2>1, <1>4 DEF WasRead, IntentInv
    <3> QED BY <3>1, <3>2
  <2> QED BY <2>1, <2>2, <1>3, <1>4 DEF IntentInv
<1>7. OneHeld' /\ OneLiveEntry' /\ ReleasedEntryIsOver'
  BY <1>4 DEF IInv, Inv, OneHeld, OneLiveEntry, ReleasedEntryIsOver
<1> QED
  BY <1>5, <1>6, <1>7 DEF IInv, Inv

(* release_flat: after an abort the claim is spent; after an entry the row *)
(* it looks at is final, or the owner stays.                               *)
LEMMA ReleaseKeepsInv ==
    ASSUME IInv, TypeOK', NEW w \in Workers, pc[w] \in {"release", "flat"},
           ReleaseFlat(job[w]),
           UNCHANGED <<claim, row, reason, exchangeVars, job, seen>>,
           pc' = [pc EXCEPT ![w] = "report"]
    PROVE  IInv'
<1>0. TypeOK /\ job[w] \in Intents
  BY AtWork DEF IInv
<1>p. PICK i \in Intents : i = job[w]
  BY <1>0
<1> USE <1>0, <1>p DEF TypeOK, exchangeVars
<1>1. CASE row[i].st \in {"NEW", "PARTIALLY_FILLED"}
  <2>1. owner' = owner
    BY <1>1 DEF ReleaseFlat
  <2>2. WorkerInv(w)'
    BY DEF WorkerInv, Holding, Past
  <2> QED BY <2>1, <2>2, ThreadMoves DEF Holding, Past
<1>2. CASE row[i].st \notin {"NEW", "PARTIALLY_FILLED"}
  <2>1. owner' = [owner EXCEPT ![i] = "RELEASED"]
    BY <1>2 DEF ReleaseFlat
  <2>2. claim[i] # NoWorker /\ ~Working(i) /\ \A v \in Workers : pc[v] \in Holding => job[v] # i
    <3>1. IntentInv(i)
      BY DEF IInv, Inv
    <3>2. CASE pc[w] = "release"
      <4>1. Spent(i)
        BY <3>2 DEF IInv, Inv, WorkerInv
      <4>2. order[i] = NoOrder
        BY <4>1, <3>1 DEF Spent, IntentInv
      <4> QED BY <4>1, <4>2 DEF Spent, Working, NoOrder
    <3>3. CASE pc[w] = "flat"
      <4>1. row[i] # NoOrder
        BY <3>3 DEF IInv, Inv, WorkerInv
      <4>2. WasRead(row[i], i)
        BY <3>1, <4>1 DEF IntentInv
      <4>3. row[i].st \in {"FILLED", "CANCELED"}
        BY <4>2, <1>2 DEF WasRead, Orders, OrderStatuses
      <4>4. order[i].st \in {"FILLED", "CANCELED"}
        BY <4>2, <4>3 DEF WasRead
      <4>5. ~Working(i) /\ order[i] # NoOrder
        BY <4>4 DEF Working, NoOrder
      <4>6. posts[i] # 0
        BY <4>5, <3>1 DEF IntentInv
      <4>7. claim[i] # NoWorker
        BY <4>6, <3>1 DEF IntentInv
      <4> QED BY <4>5, <4>6, <4>7 DEF IInv, Inv, WorkerInv
    <3> QED BY <3>2, <3>3
  <2>3. \A j \in Intents : Spent(j) => Spent(j)'
    BY DEF Spent, Holding, Past
  <2>4. \A j \in Intents : Live(j)' = Live(j) /\ Working(j)' = Working(j) /\ Exists(j)' = Exists(j)
    BY DEF Live, Working, Exists
  <2>5. ASSUME NEW v \in Workers PROVE WorkerInv(v)'
    <3>1. WorkerInv(v)
      BY DEF IInv, Inv
    <3>2. CASE v = w
      BY <3>2 DEF WorkerInv, Holding, Past
    <3>3. CASE v # w
      BY <3>1, <3>3, <2>1, <2>2, <2>3, <2>4 DEF WorkerInv, WasRead, Holding, Past
    <3> QED BY <3>2, <3>3
  <2>6. ASSUME NEW j \in Intents PROVE IntentInv(j)'
    <3>1. IntentInv(j)
      BY DEF IInv, Inv
    <3> QED BY <3>1, <2>1, <2>2, <2>3, <2>4 DEF IntentInv, WasRead
  <2>7. OneHeld' /\ OneLiveEntry' /\ ReleasedEntryIsOver'
    BY <2>1, <2>2, <2>4 DEF IInv, Inv, OneHeld, OneLiveEntry, ReleasedEntryIsOver
  <2> QED BY <2>5, <2>6, <2>7 DEF IInv, Inv
<1> QED
  BY <1>1, <1>2

(* What the exchange may do to an entry by itself: nothing comes to life   *)
(* and nothing final changes.                                              *)
LEMMA ExchangeMoves ==
    ASSUME IInv, TypeOK', NEW i \in Intents,
           UNCHANGED <<dbVars, posts, workerVars>>,
           \A j \in Intents \ {i} : order'[j] = order[j] /\ open'[j] = open[j],
           posts[i] # 0,
           Exists(i) => Exists(i)',
           order[i].st \in {"FILLED", "CANCELED"} => order'[i] = order[i],
           Working(i)' => Working(i) /\ order'[i].filled < Qty,
           open'[i] > 0 => Live(i),
           order'[i].st \in {"NONE", "SENT"} => order'[i].filled = 0,
           open'[i] <= order'[i].filled
    PROVE  IInv'
<1> USE DEF dbVars, workerVars
<1>0. TypeOK /\ IntentInv(i)
  BY DEF IInv, Inv
<1> USE <1>0 DEF TypeOK
<1>1. \A j \in Intents : Spent(j)' = Spent(j)
  BY DEF Spent
<1>2. \A j \in Intents : (Live(j)' => Live(j)) /\ (Working(j)' => Working(j))
  BY DEF Live, Working
<1>3. ASSUME NEW o \in Orders, NEW j \in Intents, WasRead(o, j)
      PROVE  /\ o.st \notin {"NONE", "SENT"} /\ Exists(j)'
             /\ o.st \in {"FILLED", "CANCELED"} => order'[j] = o
  BY <1>3 DEF WasRead, Exists
<1>4. ASSUME NEW v \in Workers PROVE WorkerInv(v)'
  <2>1. WorkerInv(v)
    BY DEF IInv, Inv
  <2>2. pc[v] \in {"insert", "upsert"} => WasRead(seen[v], job[v])'
    <3>1. SUFFICES ASSUME pc[v] \in {"insert", "upsert"} PROVE WasRead(seen[v], job[v])'
      OBVIOUS
    <3>2. WasRead(seen[v], job[v]) /\ job[v] \in Intents /\ seen[v] \in Orders
      BY <3>1, <2>1 DEF WorkerInv
    <3> QED BY <3>2, <1>3 DEF WasRead
  <2> QED BY <2>1, <2>2, <1>1, <1>2 DEF WorkerInv, Holding, Past
<1>5. ASSUME NEW j \in Intents PROVE IntentInv(j)'
  <2>1. IntentInv(j)
    BY DEF IInv, Inv
  <2>2. row[j] # NoOrder => WasRead(row[j], j)'
    <3>1. SUFFICES ASSUME row[j] # NoOrder PROVE WasRead(row[j], j)'
      OBVIOUS
    <3>2. WasRead(row[j], j) /\ row[j] \in Orders
      BY <3>1, <2>1 DEF IntentInv
    <3> QED BY <3>2, <1>3 DEF WasRead
  <2>3. CASE j = i
    BY <2>1, <2>2, <2>3, <1>1 DEF IntentInv
  <2>4. CASE j # i
    BY <2>1, <2>2, <2>4, <1>1 DEF IntentInv, Working
  <2> QED BY <2>3, <2>4
<1>6. OneHeld' /\ OneLiveEntry' /\ ReleasedEntryIsOver'
  BY <1>2 DEF IInv, Inv, OneHeld, OneLiveEntry, ReleasedEntryIsOver, Live
<1> QED
  BY <1>4, <1>5, <1>6 DEF IInv, Inv

(* The exchange's steps are such moves. *)
LEMMA ExchangeKeepsInv ==
    ASSUME IInv, TypeOK', NEW i \in Intents, Exchange(i)
    PROVE  IInv'
<1>0. TypeOK /\ IntentInv(i) /\ Qty \in Nat
  BY QtyAssumption DEF IInv, Inv
<1> USE <1>0 DEF TypeOK
<1>1. order[i].st # "NONE" \/ open[i] > 0 => posts[i] # 0
  BY DEF IntentInv, NoOrder
<1>2. order[i].filled \in 0..Qty
  BY DEF Orders
<1>3. CASE RequestArrives(i) \/ RequestLost(i)
  <2>1. /\ order[i].st = "SENT" /\ order[i].filled = 0 /\ open[i] = 0 /\ open' = open
        /\ order'[i].st \in {"NEW", "NONE"} /\ order'[i].filled = 0
        /\ \A j \in Intents \ {i} : order'[j] = order[j]
        /\ UNCHANGED <<dbVars, posts, workerVars>>
    BY <1>3 DEF RequestArrives, RequestLost, IntentInv, NoOrder
  <2> QED BY <2>1, <1>1, QtyAssumption, ExchangeMoves DEF Exists, Working, Live
<1>4. CASE OrderFills(i)
  <2>1. Working(i) /\ order[i].filled < Qty /\ open[i] <= order[i].filled /\ posts[i] # 0
    BY <1>1, <1>4 DEF OrderFills, IntentInv, Working
  <2>2. /\ order'[i].filled = order[i].filled + 1 /\ open'[i] = open[i] + 1
        /\ order'[i].st = IF order[i].filled + 1 = Qty THEN "FILLED" ELSE "PARTIALLY_FILLED"
        /\ order[i].st \in {"NEW", "PARTIALLY_FILLED"}
        /\ \A j \in Intents \ {i} : order'[j] = order[j] /\ open'[j] = open[j]
        /\ UNCHANGED <<dbVars, posts, workerVars>>
    BY <1>4 DEF OrderFills
  <2>3. /\ order'[i].st \in {"FILLED", "PARTIALLY_FILLED"}
        /\ order'[i].st = "PARTIALLY_FILLED" => order'[i].filled < Qty
        /\ open'[i] <= order'[i].filled
    <3>1. open[i] \in Nat /\ order[i].filled \in Nat
      BY <1>2
    <3>2. order[i].filled + 1 # Qty => order[i].filled + 1 < Qty
      BY <2>1, <3>1
    <3> HIDE DEF TypeOK
    <3> QED BY <2>1, <2>2, <3>1, <3>2
  <2> QED BY <2>1, <2>2, <2>3, ExchangeMoves DEF Exists, Working, Live
<1>5. CASE OrderCanceled(i)
  <2>1. /\ order'[i].filled = order[i].filled /\ order'[i].st = "CANCELED" /\ open' = open
        /\ order[i].st \in {"NEW", "PARTIALLY_FILLED"}
        /\ \A j \in Intents \ {i} : order'[j] = order[j]
        /\ UNCHANGED <<dbVars, posts, workerVars>>
    BY <1>5 DEF OrderCanceled, Orders
  <2>2. open'[i] <= order'[i].filled
    BY <2>1 DEF IntentInv
  <2> QED BY <2>1, <2>2, <1>1, ExchangeMoves DEF Exists, Working, Live
<1>6. CASE PositionCloses(i)
  <2>1. /\ open[i] > 0 /\ open'[i] = 0 /\ order' = order /\ open[i] <= order[i].filled
        /\ \A j \in Intents \ {i} : open'[j] = open[j]
        /\ UNCHANGED <<dbVars, posts, workerVars>>
    BY <1>6 DEF PositionCloses, IntentInv
  <2>2. order[i].st # "NONE"
    BY <2>1, <1>2 DEF IntentInv
  <2> QED BY <2>1, <2>2, <1>1, <1>2, ExchangeMoves DEF Exists, Working, Live, IntentInv
<1> QED
  BY <1>3, <1>4, <1>5, <1>6 DEF Exchange

(* A crash takes all threads, and what they knew, with it. *)
LEMMA CrashKeepsInv ==
    ASSUME IInv, TypeOK', Crash \/ Restart
    PROVE  IInv'
<1>1. /\ UNCHANGED <<dbVars, exchangeVars>>
      /\ \A w \in Workers : pc'[w] \in {"down", "idle"}
  BY DEF Crash, Restart
<1> USE DEF dbVars, exchangeVars
<1>2. \A w \in Workers : WorkerInv(w)'
  BY <1>1 DEF WorkerInv, Holding, Past
<1>3. \A i \in Intents : Spent(i) => Spent(i)'
  BY <1>1 DEF Spent, Holding, Past
<1>4. ASSUME NEW i \in Intents PROVE IntentInv(i)'
  <2>1. IntentInv(i)
    BY DEF IInv, Inv
  <2> QED BY <2>1, <1>1, <1>3 DEF IntentInv, WasRead, Exists, Working
<1>5. OneHeld' /\ OneLiveEntry' /\ ReleasedEntryIsOver'
  BY <1>1 DEF IInv, Inv, OneHeld, OneLiveEntry, ReleasedEntryIsOver, Working
<1> QED
  BY <1>2, <1>4, <1>5 DEF IInv, Inv

(* One step per action, or group of actions, of Next. *)
LEMMA StepInv == IInv /\ [Next]_vars => IInv'
<1> SUFFICES ASSUME IInv, [Next]_vars PROVE IInv'
  OBVIOUS
<1>0. TypeOK'
  BY StepType
<1>1. ASSUME NEW w \in Workers, InsertRow(w) PROVE IInv'
  <2>0. TypeOK /\ job[w] \in Intents
    BY <1>1, AtWork DEF IInv, InsertRow
  <2>1. CASE row[job[w]] # NoOrder
    <3>1. /\ UNCHANGED <<claim, owner, row, reason, exchangeVars>>
          /\ pc' = [pc EXCEPT ![w] = "idle"]
          /\ \A v \in Workers \ {w} : job'[v] = job[v] /\ seen'[v] = seen[v]
      BY <1>1, <2>0, <2>1 DEF InsertRow, Finish, TypeOK
    <3>2. WorkerInv(w)'
      BY <2>0, <3>1 DEF WorkerInv, Holding, Past, TypeOK
    <3> QED BY <1>0, <2>0, <3>1, <3>2, ThreadMoves DEF Holding, Past, TypeOK
  <2>2. CASE row[job[w]] = NoOrder
    BY <1>0, <1>1, <2>2, WriteRowKeepsInv DEF InsertRow, Goto
  <2> QED BY <2>1, <2>2
<1>2. ASSUME NEW w \in Workers, UpsertRow(w) PROVE IInv'
  BY <1>0, <1>2, WriteRowKeepsInv DEF UpsertRow, Goto
<1>3. ASSUME NEW w \in Workers, ReleaseAborted(w) \/ ReleaseSettled(w) PROVE IInv'
  BY <1>0, <1>3, ReleaseKeepsInv DEF ReleaseAborted, ReleaseSettled, Goto
<1>4. ASSUME NEW w \in Workers, Execute(w) PROVE IInv'
  BY <1>0, <1>1, <1>4, MovesKeepInv, ClaimKeepsInv, ReserveKeepsInv, AbortKeepsInv, PlaceKeepsInv
     DEF Execute
<1>5. ASSUME NEW w \in Workers, Reconcile(w) PROVE IInv'
  BY <1>0, <1>2, <1>3, <1>5, MovesKeepInv DEF Reconcile
<1>6. ASSUME NEW w \in Workers, Finishing(w) PROVE IInv'
  BY <1>0, <1>3, <1>6, MovesKeepInv DEF Finishing
<1>7. CASE UNCHANGED vars
  BY <1>7 DEF vars, IInv, Inv, TypeOK, WorkerInv, IntentInv, OneHeld, OneLiveEntry,
     ReleasedEntryIsOver, Spent, WasRead, Live, Working, Exists
<1> QED
  BY <1>0, <1>4, <1>5, <1>6, <1>7, ExchangeKeepsInv, CrashKeepsInv DEF Next

-----------------------------------------------------------------------------

(* A step that moves neither an entry nor a released owner is not seen     *)
(* from outside.                                                           *)
LEMMA Unseen ==
    ASSUME UNCHANGED exchangeVars,
           \A i \in Intents : owner'[i] = "RELEASED" <=> owner[i] = "RELEASED"
    PROVE  UNCHANGED Exposure!exposureVars
<1>1. \A i \in Intents : EntryPhase(i)' = EntryPhase(i)
  BY DEF exchangeVars, EntryPhase, Working
<1>2. [i \in Intents |-> EntryPhase(i)]' = [i \in Intents |-> EntryPhase(i)]
  BY <1>1
<1>3. {i \in Intents : owner[i] = "RELEASED"}' = {i \in Intents : owner[i] = "RELEASED"}
  OBVIOUS
<1> QED
  BY <1>2, <1>3 DEF Exposure!exposureVars

(* The phase of an entry, read off what the exchange holds of it. *)
LEMMA PhaseOf ==
    ASSUME TypeOK, NEW i \in Intents
    PROVE  /\ EntryPhase(i) = "unsent" <=> posts[i] = 0
           /\ EntryPhase(i) = "working" <=> posts[i] # 0 /\ Working(i)
           /\ EntryPhase(i) = "position" <=> posts[i] # 0 /\ ~Working(i) /\ open[i] > 0
           /\ EntryPhase(i) = "over" <=> posts[i] # 0 /\ ~Working(i) /\ ~(open[i] > 0)
           /\ EntryPhase(i) \in {"unsent", "working", "position", "over"}
<1>1. posts[i] \in Nat
  BY DEF TypeOK
<1>2. posts[i] > 0 <=> posts[i] # 0
  BY <1>1
<1> QED
  BY <1>2 DEF EntryPhase

(* The same, after a step. *)
LEMMA PhaseOfNext ==
    ASSUME TypeOK', NEW i \in Intents
    PROVE  /\ posts'[i] # 0 /\ Working(i)' => EntryPhase(i)' = "working"
           /\ posts'[i] # 0 /\ ~Working(i)' /\ open'[i] > 0 => EntryPhase(i)' = "position"
           /\ posts'[i] # 0 /\ ~Working(i)' /\ ~(open'[i] > 0) => EntryPhase(i)' = "over"
<1>1. posts'[i] \in Nat
  BY DEF TypeOK
<1>2. posts'[i] > 0 <=> posts'[i] # 0
  BY <1>1
<1> QED
  BY <1>2 DEF EntryPhase

(* One entry moves to another phase, and nothing else is seen. *)
LEMMA PhaseMoves ==
    ASSUME NEW i \in Intents, NEW phases,
           \A j \in Intents \ {i} : order'[j] = order[j] /\ open'[j] = open[j] /\ posts'[j] = posts[j],
           UNCHANGED owner, EntryPhase(i)' \in phases
    PROVE  Exposure!Becomes(i, phases)
<1>1. \A j \in Intents \ {i} : EntryPhase(j)' = EntryPhase(j)
  BY DEF EntryPhase, Working
<1>2. [j \in Intents |-> EntryPhase(j)]'
      = [[j \in Intents |-> EntryPhase(j)] EXCEPT ![i] = EntryPhase(i)']
  BY <1>1
<1>3. {j \in Intents : owner[j] = "RELEASED"}' = {j \in Intents : owner[j] = "RELEASED"}
  OBVIOUS
<1> QED
  BY <1>2, <1>3 DEF Exposure!Becomes

(* The POST is a Send: the claim's entry was not posted, its owner is held *)
(* and nothing of the symbol is alive since the last account read.         *)
LEMMA PlaceOrderSends ==
    ASSUME IInv, TypeOK', NEW w \in Workers, PlaceOrder(w)
    PROVE  \E i \in Intents : Exposure!Send(i)
<1>0. TypeOK /\ pc[w] = "place"
  BY DEF IInv, PlaceOrder
<1>1. PICK i \in Intents : i = job[w]
  BY <1>0, AtWork
<1>2. posts[i] = 0 /\ owner[i] = "HELD" /\ \A j \in Intents : ~Live(j)
  BY <1>0, <1>1 DEF IInv, Inv, WorkerInv, Holding, Past
<1>3. \A j \in Intents \ {i} : order'[j] = order[j] /\ open'[j] = open[j] /\ posts'[j] = posts[j]
  BY <1>0, <1>1 DEF PlaceOrder, TypeOK
<1>4. UNCHANGED owner /\ posts'[i] # 0
  BY <1>0, <1>1, <1>2 DEF PlaceOrder, TypeOK, dbVars
<1>5. Working(i)' \/ open'[i] > 0
  BY <1>0, <1>1, QtyAssumption DEF PlaceOrder, TypeOK, Working
<1>6. EntryPhase(i)' \in {"working", "position"}
  BY <1>4, <1>5, PhaseOfNext
<1>7. \A j \in Intents : ~Exposure!Exposed(j)
  BY <1>0, <1>2, PhaseOf DEF Exposure!Exposed, Live
<1>8. EntryPhase(i) = "unsent" /\ i \notin {j \in Intents : owner[j] = "RELEASED"}
  BY <1>0, <1>2, PhaseOf
<1>9. Exposure!Becomes(i, {"working", "position"})
  BY <1>3, <1>4, <1>6, PhaseMoves
<1> QED
  BY <1>7, <1>8, <1>9 DEF Exposure!Send

(* What the exchange does by itself settles a working entry or closes a    *)
(* position, and never brings one back.                                    *)
LEMMA ExchangeSettles ==
    ASSUME IInv, TypeOK', NEW i \in Intents, Exchange(i)
    PROVE  Exposure!Settle(i) \/ Exposure!Close(i) \/ UNCHANGED Exposure!exposureVars
<1>0. TypeOK /\ IntentInv(i)
  BY DEF IInv, Inv
<1>1. /\ \A j \in Intents \ {i} : order'[j] = order[j] /\ open'[j] = open[j] /\ posts'[j] = posts[j]
      /\ UNCHANGED <<owner, posts>>
  BY <1>0 DEF Exchange, RequestArrives, RequestLost, OrderFills, OrderCanceled, PositionCloses,
     TypeOK, dbVars
<1>2. posts[i] # 0 /\ posts'[i] # 0
  <2>1. order[i].st # "NONE" \/ open[i] > 0
    BY DEF Exchange, RequestArrives, RequestLost, OrderFills, OrderCanceled, PositionCloses
  <2>2. order[i] = NoOrder => ~(open[i] > 0) /\ order[i].st = "NONE"
    BY <1>0 DEF IntentInv, NoOrder, TypeOK
  <2> QED BY <1>0, <1>1, <2>1, <2>2 DEF IntentInv
<1>3. \/ Working(i)
      \/ ~Working(i) /\ open[i] > 0 /\ order' = order /\ open'[i] = 0
  BY <1>0 DEF Exchange, RequestArrives, RequestLost, OrderFills, OrderCanceled, PositionCloses,
     Working, TypeOK
<1>4. EntryPhase(i)' \in {"working", "position", "over"}
  BY <1>2, PhaseOfNext
<1>5. CASE Working(i)
  <2>1. EntryPhase(i) = "working"
    BY <1>0, <1>2, <1>5, PhaseOf
  <2>2. CASE EntryPhase(i)' = "working"
    <3>1. \A j \in Intents : EntryPhase(j)' = EntryPhase(j)
      BY <1>1, <2>1, <2>2 DEF EntryPhase, Working
    <3>2. [j \in Intents |-> EntryPhase(j)]' = [j \in Intents |-> EntryPhase(j)]
      BY <3>1
    <3>3. {j \in Intents : owner[j] = "RELEASED"}' = {j \in Intents : owner[j] = "RELEASED"}
      BY <1>1
    <3> QED BY <3>2, <3>3 DEF Exposure!exposureVars
  <2>3. CASE EntryPhase(i)' \in {"position", "over"}
    <3>1. Exposure!Becomes(i, {"position", "over"})
      BY <1>1, <2>3, PhaseMoves
    <3> QED BY <2>1, <3>1 DEF Exposure!Settle
  <2> QED BY <1>4, <2>2, <2>3
<1>6. CASE ~Working(i) /\ open[i] > 0 /\ order' = order /\ open'[i] = 0
  <2>1. EntryPhase(i) = "position"
    BY <1>0, <1>2, <1>6, PhaseOf
  <2>2. ~Working(i)' /\ ~(open'[i] > 0)
    BY <1>6 DEF Working
  <2>3. EntryPhase(i)' \in {"over"}
    BY <1>2, <2>2, PhaseOfNext
  <2>4. Exposure!Becomes(i, {"over"})
    BY <1>1, <2>3, PhaseMoves
  <2> QED BY <2>1, <2>4 DEF Exposure!Close
<1> QED
  BY <1>3, <1>5, <1>6

(* release_flat lets go of an intent whose entry is not working, or leaves *)
(* its owner.                                                              *)
LEMMA ReleaseLetsGo ==
    ASSUME IInv, IInv', NEW w \in Workers, ReleaseAborted(w) \/ ReleaseSettled(w)
    PROVE  (\E i \in Intents : Exposure!LetGo(i)) \/ UNCHANGED Exposure!exposureVars
<1>0. TypeOK /\ pc[w] \in {"release", "flat"} /\ UNCHANGED exchangeVars
  BY DEF IInv, ReleaseAborted, ReleaseSettled
<1>1. PICK i \in Intents : i = job[w]
  BY <1>0, AtWork
<1>2. owner' = owner \/ owner' = [owner EXCEPT ![i] = "RELEASED"]
  BY <1>0, <1>1 DEF ReleaseAborted, ReleaseSettled, ReleaseFlat, TypeOK
<1>3. CASE owner'[i] = owner[i]
  <2>1. owner' = owner
    BY <1>0, <1>2, <1>3 DEF TypeOK
  <2> QED BY <1>0, <2>1, Unseen
<1>4. CASE owner'[i] # owner[i]
  <2>1. owner' = [owner EXCEPT ![i] = "RELEASED"] /\ owner[i] # "RELEASED" /\ owner'[i] = "RELEASED"
    BY <1>0, <1>2, <1>4 DEF TypeOK
  <2>2. ~Working(i)'
    BY <2>1 DEF IInv, Inv, ReleasedEntryIsOver
  <2>3. ~Working(i)
    BY <1>0, <2>2 DEF exchangeVars, Working
  <2>4. EntryPhase(i) # "working"
    BY <1>0, <2>3, PhaseOf
  <2>5. {j \in Intents : owner[j] = "RELEASED"}' = {j \in Intents : owner[j] = "RELEASED"} \cup {i}
    BY <1>0, <2>1 DEF TypeOK
  <2>6. \A j \in Intents : EntryPhase(j)' = EntryPhase(j)
    BY <1>0 DEF exchangeVars, EntryPhase, Working
  <2>7. [j \in Intents |-> EntryPhase(j)]' = [j \in Intents |-> EntryPhase(j)]
    BY <2>6
  <2>8. i \notin {j \in Intents : owner[j] = "RELEASED"}
    BY <2>1
  <2> QED BY <2>4, <2>5, <2>7, <2>8 DEF Exposure!LetGo
<1> QED
  BY <1>3, <1>4

(* reserve_owner takes what was never owned; no other step of a thread     *)
(* touches an owner or the exchange.                                       *)
LEMMA OthersUnseen ==
    ASSUME IInv, NEW w \in Workers, Execute(w) \/ Reconcile(w) \/ Finishing(w),
           ~PlaceOrder(w), ~ReleaseAborted(w), ~ReleaseSettled(w)
    PROVE  UNCHANGED Exposure!exposureVars
<1>0. TypeOK
  BY DEF IInv
<1>1. CASE ReserveOwner(w)
  <2>1. PICK i \in Intents : i = job[w]
    BY <1>1, AtWork DEF ReserveOwner
  <2>2. owner[i] = "NONE"
    BY <1>1, <2>1 DEF ReserveOwner, IInv, Inv, WorkerInv
  <2>3. owner' = owner \/ owner' = [owner EXCEPT ![i] = "HELD"]
    BY <1>1, <2>1 DEF ReserveOwner
  <2>4. \A j \in Intents : owner'[j] = "RELEASED" <=> owner[j] = "RELEASED"
    BY <1>0, <2>2, <2>3 DEF TypeOK
  <2>5. UNCHANGED exchangeVars
    BY <1>1 DEF ReserveOwner
  <2> QED BY <2>4, <2>5, Unseen
<1>2. CASE ~ReserveOwner(w)
  <2>1. UNCHANGED <<owner, exchangeVars>>
    <3>1. CASE Execute(w)
      BY <1>2, <3>1 DEF Execute, BeginExecute, GateRefuses, GatePasses, Issue,
         RefusedBeforeClaim, Recheck, Claim, Configure, RefreshClaimed, ConfirmClaim,
         FailsBeforeEntry, AbortPreEntry, ReceiptExpiresAtPlacement, ActiveReceipt, ProbeFinds,
         ProbeAbsent, ProbeFails, InsertRow, dbVars, exchangeVars
    <3>2. CASE Reconcile(w)
      BY <3>2 DEF Reconcile, BeginReconcile, QueryFinds, QueryAbsent, Uncertain, JudgeAbsence,
         ProveFlat, UpsertRow, dbVars, exchangeVars
    <3>3. CASE Finishing(w)
      BY <3>3 DEF Finishing, Protect, WriteReport, dbVars, exchangeVars
    <3> QED BY <3>1, <3>2, <3>3
  <2> QED BY <2>1, Unseen
<1> QED
  BY <1>1, <1>2

LEMMA StepImplements == IInv /\ IInv' /\ [Next]_vars => [Exposure!Next]_(Exposure!exposureVars)
<1> SUFFICES ASSUME IInv, IInv', [Next]_vars
             PROVE  Exposure!Next \/ UNCHANGED Exposure!exposureVars
  OBVIOUS
<1>0. TypeOK'
  BY DEF IInv
<1>1. ASSUME NEW w \in Workers, Execute(w) \/ Reconcile(w) \/ Finishing(w)
      PROVE  Exposure!Next \/ UNCHANGED Exposure!exposureVars
  <2>1. CASE PlaceOrder(w)
    BY <1>0, <2>1, PlaceOrderSends DEF Exposure!Next
  <2>2. CASE ReleaseAborted(w) \/ ReleaseSettled(w)
    BY <2>2, ReleaseLetsGo DEF Exposure!Next
  <2> QED BY <1>1, <2>1, <2>2, OthersUnseen
<1>2. ASSUME NEW i \in Intents, Exchange(i)
      PROVE  Exposure!Next \/ UNCHANGED Exposure!exposureVars
  BY <1>0, <1>2, ExchangeSettles DEF Exposure!Next
<1>3. CASE Crash \/ Restart
  <2>1. UNCHANGED <<owner, exchangeVars>>
    BY <1>3 DEF Crash, Restart, dbVars
  <2> QED BY <2>1, Unseen
<1>4. CASE UNCHANGED vars
  <2>1. UNCHANGED <<owner, exchangeVars>>
    BY <1>4 DEF vars, exchangeVars
  <2> QED BY <2>1, Unseen
<1> QED
  BY <1>1, <1>2, <1>3, <1>4 DEF Next

LEMMA InitImplements == Init => Exposure!Init
<1> SUFFICES ASSUME Init PROVE Exposure!Init
  OBVIOUS
<1>1. \A i \in Intents : posts[i] = 0 /\ owner[i] # "RELEASED"
  BY DEF Init
<1>2. TypeOK
  BY InitInv DEF IInv
<1>3. \A i \in Intents : EntryPhase(i) = "unsent"
  BY <1>1, <1>2, PhaseOf
<1>4. [i \in Intents |-> EntryPhase(i)] = [i \in Intents |-> "unsent"]
  BY <1>3
<1>5. {i \in Intents : owner[i] = "RELEASED"} = {}
  BY <1>1
<1> QED
  BY <1>4, <1>5 DEF Exposure!Init

-----------------------------------------------------------------------------

(* Every reachable state is well typed: an order is never filled beyond    *)
(* its quantity.                                                           *)
THEOREM TypeCorrect == Spec => []TypeOK
<1>1. IInv => TypeOK
  BY DEF IInv
<1> QED
  BY <1>1, InitInv, StepInv, PTL DEF Spec

(* An approval is turned into at most one POST of an entry order, through  *)
(* replays, reconciliations, lost answers and crashes (submit_authorized,  *)
(* AuthorizationStore.claim).                                              *)
THEOREM PostedOnce == Spec => []EntryPostedOnce
<1>1. IInv => EntryPostedOnce
  BY DEF IInv, Inv, IntentInv, EntryPostedOnce
<1> QED
  BY <1>1, InitInv, StepInv, PTL DEF Spec

(* No two intents are ever alive on the symbol: with exposure, or with an  *)
(* entry that may still become one (reserve_owner, the forced account read *)
(* before the POST).                                                       *)
THEOREM OneEntryAlive == Spec => []OneLiveEntry
<1>1. IInv => OneLiveEntry
  BY DEF IInv, Inv
<1> QED
  BY <1>1, InitInv, StepInv, PTL DEF Spec

(* An owner is released only when its entry can never fill again, although *)
(* release_flat decides from a row that may be stale.                      *)
THEOREM ReleasedIsOver == Spec => []ReleasedEntryIsOver
<1>1. IInv => ReleasedEntryIsOver
  BY DEF IInv, Inv
<1> QED
  BY <1>1, InitInv, StepInv, PTL DEF Spec

(* An entry that may still fill is always one that reconciliation will     *)
(* look at, whatever statuses late writers left (has_existing_side_effect).*)
THEOREM WorkingStaysUnfinished == Spec => []WorkingIsReconciled
<1>1. IInv => WorkingIsReconciled
  <2> SUFFICES ASSUME IInv, NEW i \in Intents, Working(i) PROVE HasSideEffect(i)
    BY DEF WorkingIsReconciled
  <2>1. order[i] # NoOrder /\ owner[i] # "RELEASED"
    BY DEF Working, NoOrder, IInv, Inv, ReleasedEntryIsOver
  <2>2. posts[i] # 0
    BY <2>1 DEF IInv, Inv, IntentInv
  <2>3. claim[i] # NoWorker
    BY <2>2 DEF IInv, Inv, IntentInv
  <2> QED BY <2>1, <2>3 DEF HasSideEffect
<1> QED
  BY <1>1, InitInv, StepInv, PTL DEF Spec

(* Seen from outside the placement is SymbolExposure: one entry per intent,*)
(* sent only while nothing else is exposed and never for an intent that    *)
(* was let go of; what is over stays over; and no intent is let go of      *)
(* while its entry may fill (submit_authorized, reserve_owner,             *)
(* release_flat).                                                          *)
THEOREM PlacementImplementsExposure == Spec => ImplementsExposure
<1> QED
  BY InitInv, StepInv, InitImplements, StepImplements, PTL
  DEF Spec, ImplementsExposure, Exposure!Spec

=============================================================================
