------------------------ MODULE PositionOutboxProofs ------------------------
(***************************************************************************)
(* Proofs about PositionOutbox: for every number of events, concurrent     *)
(* drains, cases and retries and every lease time, the analysis provider   *)
(* is called at most once per event and no late write undoes a row.        *)
(***************************************************************************)
EXTENDS PositionOutbox, TLAPS

Late == {"admitted", "analysing", "analysed"}
Early == {"claimed", "verified", "materializing", "materialized", "freezing", "frozen"}

(* A token in a row is the one of its latest claim; a drain inside the     *)
(* loop body holds a token some claim of its row was given, and no two     *)
(* drains hold the same one.                                               *)
LeasesDistinct ==
    /\ \A e \in Events : token[e] # 0 =>
          state[e] = "DISPATCHING" /\ token[e] = retries[e]
    /\ \A d \in Drains : step[d] # "idle" =>
          at[d] \in Events /\ mine[d] # 0 /\ mine[d] <= retries[at[d]]
    /\ \A d1, d2 \in Drains :
          /\ step[d1] # "idle" /\ step[d2] # "idle"
          /\ at[d1] = at[d2] /\ mine[d1] = mine[d2]
          => d1 = d2

(* An admitted row keeps its admitting lease until it is terminal.         *)
AdmissionPinsLease ==
    /\ \A e \in Events : admitted[e] # 0 =>
          /\ frozen[e] # NoCase
          /\ state[e] \in {"DISPATCHING"} \cup Terminal
          /\ state[e] = "DISPATCHING" => token[e] = admitted[e]
    /\ \A e \in Events : completed[e] => state[e] = "DONE"
    /\ \A d \in Drains :
          /\ step[d] \in Early => admitted[at[d]] # mine[d]
          /\ step[d] \in Late => admitted[at[d]] = mine[d]

(* The case a drain works with is the frozen one from the freeze on.       *)
DrainHoldsFrozenCase ==
    \A d \in Drains :
        /\ step[d] \in {"materialized", "freezing"} => hold[d] # NoCase
        /\ step[d] \in {"frozen"} \cup Late =>
              hold[d] # NoCase /\ hold[d] = frozen[at[d]]

(* How often the provider was called, read off the row and the drains.     *)
CallsMatchAdmission ==
    /\ \A e \in Events : admitted[e] = 0 => calls[e] = <<>>
    /\ \A e \in Events : calls[e] # <<>> => calls[e] = <<frozen[e]>>
    /\ \A d \in Drains :
          /\ step[d] = "admitted" => calls[at[d]] = <<>>
          /\ step[d] \in {"analysing", "analysed"} => calls[at[d]] = <<frozen[at[d]]>>
    /\ \A e \in Events : state[e] = "DONE" =>
          calls[e] = <<frozen[e]>> /\ completed[e] /\ admitted[e] # 0

Inv == LeasesDistinct /\ AdmissionPinsLease /\ DrainHoldsFrozenCase /\ CallsMatchAdmission

IInv == TypeOK /\ Inv

(* The invariant holds on an empty outbox. *)
LEMMA InitInv == Init => IInv
<1> SUFFICES ASSUME Init PROVE IInv
  OBVIOUS
<1> USE LeaseAssumption, RetriesAssumption DEF Init
<1>1. TypeOK
  BY DEF TypeOK, RowStates, Steps
<1>2. LeasesDistinct
  BY DEF LeasesDistinct
<1>3. AdmissionPinsLease
  BY DEF AdmissionPinsLease, Early, Late
<1>4. DrainHoldsFrozenCase
  BY DEF DrainHoldsFrozenCase, Late
<1>5. CallsMatchAdmission
  BY DEF CallsMatchAdmission
<1> QED
  BY <1>1, <1>2, <1>3, <1>4, <1>5 DEF IInv, Inv

(* A drain that gives up its row without writing it: at a checkpoint, an   *)
(* update or a call that failed, or in a crash.                            *)
GivesUp(d) == step[d] # "idle" /\ Release(d) /\ UNCHANGED <<rowVars, calls>>

(* One step per action of Next, and under it one per conjunct. *)
LEMMA StepInv == IInv /\ [Next]_vars => IInv'
<1> SUFFICES ASSUME IInv, [Next]_vars PROVE IInv'
  OBVIOUS
<1> USE LeaseAssumption, RetriesAssumption, NoCaseAssumption, NoEventAssumption
    DEF IInv, Inv, TypeOK, RowStates, Steps
<1>1. ASSUME NEW S \in SUBSET Events, Enqueue(S) PROVE IInv'
  <2>1. TypeOK'
    BY <1>1 DEF Enqueue, LeasesDistinct
  <2>2. LeasesDistinct'
    BY <1>1 DEF Enqueue, LeasesDistinct
  <2>3. AdmissionPinsLease'
    BY <1>1 DEF Enqueue, LeasesDistinct, AdmissionPinsLease, Early, Late, Terminal
  <2>4. DrainHoldsFrozenCase'
    BY <1>1 DEF Enqueue, LeasesDistinct, AdmissionPinsLease, DrainHoldsFrozenCase, Early, Late
  <2>5. CallsMatchAdmission'
    BY <1>1 DEF Enqueue, LeasesDistinct, AdmissionPinsLease, DrainHoldsFrozenCase, CallsMatchAdmission, Early, Late, Terminal
  <2> QED BY <2>1, <2>2, <2>3, <2>4, <2>5
<1>2. ASSUME NEW d \in Drains, NEW e \in Events, CloseCandidate(d, e) PROVE IInv'
  <2>1. TypeOK'
    BY <1>2 DEF CloseCandidate, MustClose, Candidate, Claimable, LeasesDistinct
  <2>2. LeasesDistinct'
    BY <1>2 DEF CloseCandidate, MustClose, Candidate, Claimable, LeasesDistinct
  <2>3. AdmissionPinsLease'
    BY <1>2 DEF CloseCandidate, MustClose, Candidate, Claimable, LeasesDistinct, AdmissionPinsLease, Early, Late, Terminal
  <2>4. DrainHoldsFrozenCase'
    BY <1>2 DEF CloseCandidate, MustClose, Candidate, Claimable, LeasesDistinct, AdmissionPinsLease, DrainHoldsFrozenCase, Early, Late
  <2>5. CallsMatchAdmission'
    BY SMTT(30), <1>2 DEF CloseCandidate, MustClose, Candidate, Claimable, LeasesDistinct, AdmissionPinsLease, DrainHoldsFrozenCase, CallsMatchAdmission, Early, Late, Terminal
  <2> QED BY <2>1, <2>2, <2>3, <2>4, <2>5
<1>3. ASSUME NEW d \in Drains, NEW e \in Events, Claim(d, e) PROVE IInv'
  <2>1. TypeOK'
    BY SMTT(30), <1>3 DEF Claim, MustClose, Candidate, Claimable, LeasesDistinct
  <2>2. LeasesDistinct'
    <3>1. \A x \in Drains : step[x] # "idle" /\ at[x] = e => mine[x] < retries[e] + 1
      BY DEF LeasesDistinct
    <3>2. \A f \in Events : token'[f] # 0 => state'[f] = "DISPATCHING" /\ token'[f] = retries'[f]
      BY <1>3 DEF Claim, LeasesDistinct
    <3>3. \A x \in Drains : step'[x] # "idle" =>
             at'[x] \in Events /\ mine'[x] # 0 /\ mine'[x] <= retries'[at'[x]]
      <4> TAKE x \in Drains
      <4>1. CASE x = d
        BY <1>3, <4>1 DEF Claim
      <4>2. CASE x # d
        <5>1. step'[x] = step[x] /\ at'[x] = at[x] /\ mine'[x] = mine[x]
          BY <1>3, <4>2 DEF Claim
        <5>2. \A f \in Events : retries[f] <= retries'[f]
          BY SMTT(30), <1>3 DEF Claim
        <5>3. \A f \in Events : retries'[f] \in Nat
          BY <1>3 DEF Claim
        <5> QED BY SMTT(30), <5>1, <5>2, <5>3 DEF LeasesDistinct
      <4> QED BY <4>1, <4>2
    <3>4. \A x, y \in Drains :
             step'[x] # "idle" /\ step'[y] # "idle" /\ at'[x] = at'[y] /\ mine'[x] = mine'[y] => x = y
      BY SMTT(30), <1>3, <3>1 DEF Claim, LeasesDistinct
    <3> QED BY <3>2, <3>3, <3>4 DEF LeasesDistinct
  <2>3. AdmissionPinsLease'
    BY <1>3 DEF Claim, MustClose, Candidate, Claimable, LeasesDistinct, AdmissionPinsLease, Early, Late, Terminal
  <2>4. DrainHoldsFrozenCase'
    BY <1>3 DEF Claim, MustClose, Candidate, Claimable, LeasesDistinct, AdmissionPinsLease, DrainHoldsFrozenCase, Early, Late
  <2>5. CallsMatchAdmission'
    BY SMTT(30), <1>3 DEF Claim, MustClose, Candidate, Claimable, LeasesDistinct, AdmissionPinsLease, DrainHoldsFrozenCase, CallsMatchAdmission, Early, Late, Terminal
  <2> QED BY <2>1, <2>2, <2>3, <2>4, <2>5
<1>4. ASSUME NEW d \in Drains, CheckpointClaim(d) PROVE IInv'
  <2>1. TypeOK'
    <3>1. at[d] \in Events
      BY <1>4 DEF CheckpointClaim, LeasesDistinct
    <3>2. step' \in [Drains -> Steps]
      <4>1. step' = [step EXCEPT ![d] = "frozen"] \/ step' = [step EXCEPT ![d] = "verified"]
        BY <1>4 DEF CheckpointClaim
      <4> QED BY <4>1
    <3>3. hold' \in [Drains -> Cases \cup {NoCase}]
      BY <1>4, <3>1 DEF CheckpointClaim
    <3> QED BY <1>4, <3>2, <3>3 DEF CheckpointClaim, rowVars
  <2>2. LeasesDistinct'
    <3>1. \A x \in Drains : step'[x] = "idle" <=> step[x] = "idle"
      BY <1>4 DEF CheckpointClaim
    <3>2. UNCHANGED <<state, token, retries, at, mine>>
      BY <1>4 DEF CheckpointClaim, rowVars
    <3> QED BY <3>1, <3>2 DEF LeasesDistinct
  <2>3. AdmissionPinsLease'
    <3>1. CASE frozen[at[d]] # NoCase
      BY <1>4, <3>1 DEF CheckpointClaim, Owns, rowVars, LeasesDistinct, AdmissionPinsLease, Early, Late, Terminal
    <3>2. CASE ~(frozen[at[d]] # NoCase)
      BY <1>4, <3>2 DEF CheckpointClaim, Owns, rowVars, LeasesDistinct, AdmissionPinsLease, Early, Late, Terminal
    <3> QED BY <3>1, <3>2
  <2>4. DrainHoldsFrozenCase'
    <3>1. CASE frozen[at[d]] # NoCase
      <4>1. /\ step' = [step EXCEPT ![d] = "frozen"] /\ hold' = [hold EXCEPT ![d] = frozen[at[d]]]
            /\ UNCHANGED <<frozen, at>>
        BY <1>4, <3>1 DEF CheckpointClaim, rowVars
      <4> QED BY <3>1, <4>1 DEF DrainHoldsFrozenCase, Late
    <3>2. CASE ~(frozen[at[d]] # NoCase)
      BY <1>4, <3>2 DEF CheckpointClaim, Owns, rowVars, LeasesDistinct, AdmissionPinsLease, DrainHoldsFrozenCase, Early, Late
    <3> QED BY <3>1, <3>2
  <2>5. CallsMatchAdmission'
    <3>1. CASE frozen[at[d]] # NoCase
      BY <1>4, <3>1 DEF CheckpointClaim, Owns, rowVars, LeasesDistinct, AdmissionPinsLease, DrainHoldsFrozenCase, CallsMatchAdmission, Early, Late, Terminal
    <3>2. CASE ~(frozen[at[d]] # NoCase)
      BY <1>4, <3>2 DEF CheckpointClaim, Owns, rowVars, LeasesDistinct, AdmissionPinsLease, DrainHoldsFrozenCase, CallsMatchAdmission, Early, Late, Terminal
    <3> QED BY <3>1, <3>2
  <2> QED BY <2>1, <2>2, <2>3, <2>4, <2>5
<1>5. ASSUME NEW d \in Drains, CheckpointMaterialize(d) PROVE IInv'
  <2>1. TypeOK'
    BY SMTT(30), <1>5 DEF CheckpointMaterialize, Owns, rowVars, LeasesDistinct
  <2>2. LeasesDistinct'
    <3>1. \A x \in Drains : step'[x] = "idle" <=> step[x] = "idle"
      BY <1>5 DEF CheckpointMaterialize
    <3>2. UNCHANGED <<state, token, retries, at, mine>>
      BY <1>5 DEF CheckpointMaterialize, rowVars
    <3> QED BY <3>1, <3>2 DEF LeasesDistinct
  <2>3. AdmissionPinsLease'
    BY <1>5 DEF CheckpointMaterialize, Owns, rowVars, LeasesDistinct, AdmissionPinsLease, Early, Late, Terminal
  <2>4. DrainHoldsFrozenCase'
    BY <1>5 DEF CheckpointMaterialize, Owns, rowVars, LeasesDistinct, AdmissionPinsLease, DrainHoldsFrozenCase, Early, Late
  <2>5. CallsMatchAdmission'
    <3>1. CASE step[d] = "verified"
      BY <1>5, <3>1 DEF CheckpointMaterialize, Owns, rowVars, LeasesDistinct, AdmissionPinsLease, DrainHoldsFrozenCase, CallsMatchAdmission, Early, Late, Terminal
    <3>2. CASE ~(step[d] = "verified")
      BY <1>5, <3>2 DEF CheckpointMaterialize, Owns, rowVars, LeasesDistinct, AdmissionPinsLease, DrainHoldsFrozenCase, CallsMatchAdmission, Early, Late, Terminal
    <3> QED BY <3>1, <3>2
  <2> QED BY <2>1, <2>2, <2>3, <2>4, <2>5
<1>6. ASSUME NEW d \in Drains, NEW c \in Cases, Materialize(d, c) PROVE IInv'
  <2>1. TypeOK'
    BY <1>6 DEF Materialize, rowVars, LeasesDistinct
  <2>2. LeasesDistinct'
    BY <1>6 DEF Materialize, rowVars, LeasesDistinct
  <2>3. AdmissionPinsLease'
    BY <1>6 DEF Materialize, rowVars, LeasesDistinct, AdmissionPinsLease, Early, Late, Terminal
  <2>4. DrainHoldsFrozenCase'
    BY <1>6 DEF Materialize, rowVars, LeasesDistinct, AdmissionPinsLease, DrainHoldsFrozenCase, Early, Late
  <2>5. CallsMatchAdmission'
    BY <1>6 DEF Materialize, rowVars, LeasesDistinct, AdmissionPinsLease, DrainHoldsFrozenCase, CallsMatchAdmission, Early, Late, Terminal
  <2> QED BY <2>1, <2>2, <2>3, <2>4, <2>5
<1>7. ASSUME NEW d \in Drains, NEW w \in BOOLEAN, MaterializeFails(d, w) PROVE IInv'
  <2>1. TypeOK'
    <3>1. at[d] \in Events
      BY <1>7 DEF MaterializeFails, LeasesDistinct
    <3>2. /\ state' \in [Events -> RowStates]
          /\ token' \in [Events -> 0..MaxRetries]
          /\ left' \in [Events -> 0..LeaseTime]
      <4>1. CASE token[at[d]] = mine[d]
        <5>1. PICK s \in RowStates :
                 /\ state' = [state EXCEPT ![at[d]] = s]
                 /\ token' = [token EXCEPT ![at[d]] = 0]
                 /\ left' = [left EXCEPT ![at[d]] = 0]
          BY <1>7, <4>1 DEF MaterializeFails
        <5>2. 0 \in 0..MaxRetries /\ 0 \in 0..LeaseTime
          OBVIOUS
        <5> QED BY <3>1, <5>1, <5>2
      <4>2. CASE ~(token[at[d]] = mine[d])
        BY <1>7, <4>2 DEF MaterializeFails
      <4> QED BY <4>1, <4>2
    <3> QED BY SMTT(30), <1>7, <3>2 DEF MaterializeFails, Release
  <2>2. LeasesDistinct'
    BY SMTT(30), <1>7 DEF MaterializeFails, Release, LeasesDistinct
  <2>3. AdmissionPinsLease'
    BY SMTT(30), <1>7 DEF MaterializeFails, Release, LeasesDistinct, AdmissionPinsLease, Early, Late, Terminal
  <2>4. DrainHoldsFrozenCase'
    BY <1>7 DEF MaterializeFails, Release, LeasesDistinct, AdmissionPinsLease, DrainHoldsFrozenCase, Early, Late
  <2>5. CallsMatchAdmission'
    BY SMTT(30), <1>7 DEF MaterializeFails, Release, LeasesDistinct, AdmissionPinsLease, DrainHoldsFrozenCase, CallsMatchAdmission, Early, Late, Terminal
  <2> QED BY <2>1, <2>2, <2>3, <2>4, <2>5
<1>8. ASSUME NEW d \in Drains, Freeze(d) PROVE IInv'
  <2>1. TypeOK'
    BY <1>8 DEF Freeze, Owns, OwnsLive, LeasesDistinct
  <2>2. LeasesDistinct'
    BY <1>8 DEF Freeze, Owns, OwnsLive, LeasesDistinct
  <2>3. AdmissionPinsLease'
    BY <1>8 DEF Freeze, Owns, OwnsLive, LeasesDistinct, AdmissionPinsLease, Early, Late, Terminal
  <2>4. DrainHoldsFrozenCase'
    BY <1>8 DEF Freeze, Owns, OwnsLive, LeasesDistinct, AdmissionPinsLease, DrainHoldsFrozenCase, Early, Late
  <2>5. CallsMatchAdmission'
    BY SMTT(30), <1>8 DEF Freeze, Owns, OwnsLive, LeasesDistinct, AdmissionPinsLease, DrainHoldsFrozenCase, CallsMatchAdmission, Early, Late, Terminal
  <2> QED BY <2>1, <2>2, <2>3, <2>4, <2>5
<1>9. ASSUME NEW d \in Drains, MintAdmission(d) PROVE IInv'
  <2>1. TypeOK'
    BY <1>9 DEF MintAdmission, Owns, OwnsLive, LeasesDistinct
  <2>2. LeasesDistinct'
    BY <1>9 DEF MintAdmission, Owns, OwnsLive, LeasesDistinct
  <2>3. AdmissionPinsLease'
    <3>1. at[d] \in Events /\ mine[d] # 0 /\ frozen[at[d]] # NoCase
      BY <1>9 DEF MintAdmission, LeasesDistinct, DrainHoldsFrozenCase
    <3>2. /\ admitted' = [admitted EXCEPT ![at[d]] = mine[d]]
          /\ step' = [step EXCEPT ![d] = "admitted"]
          /\ UNCHANGED <<state, token, frozen, completed, at, mine>>
          /\ state[at[d]] = "DISPATCHING" /\ token[at[d]] = mine[d]
          /\ step[d] = "frozen" /\ admitted[at[d]] = 0
      BY <1>9 DEF MintAdmission, OwnsLive, Owns
    <3>3. \A x \in Drains : x # d /\ step[x] \in Early /\ at[x] = at[d] => mine[x] # mine[d]
      BY <3>2 DEF LeasesDistinct, Early
    <3>4. \A x \in Drains : x # d /\ step[x] \in Late => at[x] # at[d]
      BY <3>2 DEF LeasesDistinct, AdmissionPinsLease, Late
    <3>5. \A f \in Events : admitted'[f] # 0 =>
             /\ frozen'[f] # NoCase
             /\ state'[f] \in {"DISPATCHING"} \cup Terminal
             /\ state'[f] = "DISPATCHING" => token'[f] = admitted'[f]
      BY <3>1, <3>2 DEF AdmissionPinsLease
    <3>6. \A x \in Drains :
             /\ step'[x] \in Early => admitted'[at'[x]] # mine'[x]
             /\ step'[x] \in Late => admitted'[at'[x]] = mine'[x]
      BY <3>1, <3>2, <3>3, <3>4 DEF AdmissionPinsLease, LeasesDistinct, Early, Late
    <3> QED BY <3>2, <3>5, <3>6 DEF AdmissionPinsLease
  <2>4. DrainHoldsFrozenCase'
    BY <1>9 DEF MintAdmission, Owns, OwnsLive, LeasesDistinct, AdmissionPinsLease, DrainHoldsFrozenCase, Early, Late
  <2>5. CallsMatchAdmission'
    BY <1>9 DEF MintAdmission, Owns, OwnsLive, LeasesDistinct, AdmissionPinsLease, DrainHoldsFrozenCase, CallsMatchAdmission, Early, Late, Terminal
  <2> QED BY <2>1, <2>2, <2>3, <2>4, <2>5
<1>10. ASSUME NEW d \in Drains, CallAnalysis(d) PROVE IInv'
  <2>1. TypeOK'
    <3>1. hold[d] \in Cases /\ at[d] \in Events
      BY <1>10 DEF CallAnalysis, LeasesDistinct, DrainHoldsFrozenCase, Late
    <3>2. Append(calls[at[d]], hold[d]) \in Seq(Cases)
      BY <3>1
    <3> QED BY <1>10, <3>1, <3>2 DEF CallAnalysis, rowVars
  <2>2. LeasesDistinct'
    BY <1>10 DEF CallAnalysis, rowVars, LeasesDistinct
  <2>3. AdmissionPinsLease'
    BY <1>10 DEF CallAnalysis, rowVars, LeasesDistinct, AdmissionPinsLease, Early, Late, Terminal
  <2>4. DrainHoldsFrozenCase'
    BY <1>10 DEF CallAnalysis, rowVars, LeasesDistinct, AdmissionPinsLease, DrainHoldsFrozenCase, Early, Late
  <2>5. CallsMatchAdmission'
    <3>1. /\ at[d] \in Events /\ calls[at[d]] = <<>> /\ hold[d] = frozen[at[d]]
          /\ admitted[at[d]] # 0
      BY <1>10 DEF CallAnalysis, LeasesDistinct, AdmissionPinsLease, DrainHoldsFrozenCase, CallsMatchAdmission, Late
    <3>2. Append(calls[at[d]], hold[d]) = <<frozen[at[d]]>>
      BY <3>1
    <3>3. /\ calls' = [calls EXCEPT ![at[d]] = <<frozen[at[d]]>>]
          /\ step[d] = "admitted" /\ step' = [step EXCEPT ![d] = "analysing"]
          /\ UNCHANGED <<state, frozen, admitted, completed, at, mine>>
      BY <1>10, <3>2 DEF CallAnalysis, rowVars
    <3>4. \A x \in Drains : x # d /\ step[x] \in Late => at[x] # at[d]
      BY <3>3 DEF LeasesDistinct, AdmissionPinsLease, Late
    <3>5. \A f \in Events : calls'[f] = IF f = at[d] THEN <<frozen[f]>> ELSE calls[f]
      BY <3>1, <3>3
    <3>6. \A f \in Events : admitted'[f] = 0 => calls'[f] = <<>>
      BY <3>1, <3>3, <3>5 DEF CallsMatchAdmission
    <3>7. \A f \in Events : calls'[f] # <<>> => calls'[f] = <<frozen'[f]>>
      BY <3>3, <3>5 DEF CallsMatchAdmission
    <3>8. \A x \in Drains :
             /\ step'[x] = "admitted" => calls'[at'[x]] = <<>>
             /\ step'[x] \in {"analysing", "analysed"} => calls'[at'[x]] = <<frozen'[at'[x]]>>
      BY SMTT(30), <3>1, <3>3, <3>4, <3>5 DEF CallsMatchAdmission, LeasesDistinct, Late
    <3>9. \A f \in Events : state'[f] = "DONE" =>
             calls'[f] = <<frozen'[f]>> /\ completed'[f] /\ admitted'[f] # 0
      BY <3>3, <3>5 DEF CallsMatchAdmission
    <3> QED BY <3>6, <3>7, <3>8, <3>9 DEF CallsMatchAdmission
  <2> QED BY <2>1, <2>2, <2>3, <2>4, <2>5
<1>11. ASSUME NEW d \in Drains, AnalysisReturns(d) PROVE IInv'
  <2>1. TypeOK'
    BY <1>11 DEF AnalysisReturns, rowVars, LeasesDistinct
  <2>2. LeasesDistinct'
    BY <1>11 DEF AnalysisReturns, rowVars, LeasesDistinct
  <2>3. AdmissionPinsLease'
    BY <1>11 DEF AnalysisReturns, rowVars, LeasesDistinct, AdmissionPinsLease, Early, Late, Terminal
  <2>4. DrainHoldsFrozenCase'
    BY <1>11 DEF AnalysisReturns, rowVars, LeasesDistinct, AdmissionPinsLease, DrainHoldsFrozenCase, Early, Late
  <2>5. CallsMatchAdmission'
    BY <1>11 DEF AnalysisReturns, rowVars, LeasesDistinct, AdmissionPinsLease, DrainHoldsFrozenCase, CallsMatchAdmission, Early, Late, Terminal
  <2> QED BY <2>1, <2>2, <2>3, <2>4, <2>5
<1>12. ASSUME NEW d \in Drains, AnalysisFails(d) PROVE IInv'
  <2>1. TypeOK'
    <3>1. at[d] \in Events
      BY <1>12 DEF AnalysisFails, LeasesDistinct
    <3>2. /\ state' \in [Events -> RowStates]
          /\ token' \in [Events -> 0..MaxRetries]
          /\ left' \in [Events -> 0..LeaseTime]
      <4>1. CASE Owns(d)
        <5>1. PICK s \in RowStates :
                 /\ state' = [state EXCEPT ![at[d]] = s]
                 /\ token' = [token EXCEPT ![at[d]] = 0]
                 /\ left' = [left EXCEPT ![at[d]] = 0]
          BY <1>12, <4>1 DEF AnalysisFails
        <5>2. 0 \in 0..MaxRetries /\ 0 \in 0..LeaseTime
          OBVIOUS
        <5> QED BY <3>1, <5>1, <5>2
      <4>2. CASE ~(Owns(d))
        BY <1>12, <4>2 DEF AnalysisFails
      <4> QED BY <4>1, <4>2
    <3> QED BY SMTT(30), <1>12, <3>2 DEF AnalysisFails, Release
  <2>2. LeasesDistinct'
    <3>1. CASE Owns(d)
      BY SMTT(30), <1>12, <3>1 DEF AnalysisFails, Owns, Release, LeasesDistinct
    <3>2. CASE ~(Owns(d))
      BY <1>12, <3>2 DEF AnalysisFails, Owns, Release, LeasesDistinct
    <3> QED BY <3>1, <3>2
  <2>3. AdmissionPinsLease'
    <3>1. CASE Owns(d)
      BY SMTT(30), <1>12, <3>1 DEF AnalysisFails, Owns, Release, LeasesDistinct, AdmissionPinsLease, Early, Late, Terminal
    <3>2. CASE ~(Owns(d))
      BY SMTT(30), <1>12, <3>2 DEF AnalysisFails, Owns, Release, LeasesDistinct, AdmissionPinsLease, Early, Late, Terminal
    <3> QED BY <3>1, <3>2
  <2>4. DrainHoldsFrozenCase'
    BY <1>12 DEF AnalysisFails, Owns, Release, LeasesDistinct, AdmissionPinsLease, DrainHoldsFrozenCase, Early, Late
  <2>5. CallsMatchAdmission'
    BY SMTT(30), <1>12 DEF AnalysisFails, Owns, Release, LeasesDistinct, AdmissionPinsLease, DrainHoldsFrozenCase, CallsMatchAdmission, Early, Late, Terminal
  <2> QED BY <2>1, <2>2, <2>3, <2>4, <2>5
<1>13. ASSUME NEW d \in Drains, Complete(d) PROVE IInv'
  <2>1. TypeOK'
    BY SMTT(30), <1>13 DEF Complete, Owns, OwnsLive, Release, LeasesDistinct
  <2>2. LeasesDistinct'
    BY <1>13 DEF Complete, Owns, OwnsLive, Release, LeasesDistinct
  <2>3. AdmissionPinsLease'
    BY <1>13 DEF Complete, Owns, OwnsLive, Release, LeasesDistinct, AdmissionPinsLease, Early, Late, Terminal
  <2>4. DrainHoldsFrozenCase'
    BY <1>13 DEF Complete, Owns, OwnsLive, Release, LeasesDistinct, AdmissionPinsLease, DrainHoldsFrozenCase, Early, Late
  <2>5. CallsMatchAdmission'
    BY SMTT(30), <1>13 DEF Complete, Owns, OwnsLive, Release, LeasesDistinct, AdmissionPinsLease, DrainHoldsFrozenCase, CallsMatchAdmission, Early, Late, Terminal
  <2> QED BY <2>1, <2>2, <2>3, <2>4, <2>5
<1>14. ASSUME NEW d \in Drains, GivesUp(d) PROVE IInv'
  <2>1. TypeOK'
    BY SMTT(30), <1>14 DEF GivesUp, Release, rowVars, LeasesDistinct
  <2>2. LeasesDistinct'
    BY ZenonT(60), <1>14 DEF GivesUp, Release, rowVars, LeasesDistinct
  <2>3. AdmissionPinsLease'
    BY <1>14 DEF GivesUp, Release, rowVars, LeasesDistinct, AdmissionPinsLease, Early, Late, Terminal
  <2>4. DrainHoldsFrozenCase'
    BY <1>14 DEF GivesUp, Release, rowVars, LeasesDistinct, AdmissionPinsLease, DrainHoldsFrozenCase, Early, Late
  <2>5. CallsMatchAdmission'
    BY <1>14 DEF GivesUp, Release, rowVars, LeasesDistinct, AdmissionPinsLease, DrainHoldsFrozenCase, CallsMatchAdmission, Early, Late, Terminal
  <2> QED BY <2>1, <2>2, <2>3, <2>4, <2>5
<1>15. ASSUME Tick PROVE IInv'
  <2>1. TypeOK'
    <3>1. left' \in [Events -> 0..LeaseTime]
      BY SMTT(30), <1>15 DEF Tick
    <3> QED BY <1>15, <3>1 DEF Tick
  <2>2. LeasesDistinct'
    BY <1>15 DEF Tick, LeasesDistinct
  <2>3. AdmissionPinsLease'
    BY <1>15 DEF Tick, LeasesDistinct, AdmissionPinsLease, Early, Late, Terminal
  <2>4. DrainHoldsFrozenCase'
    BY <1>15 DEF Tick, LeasesDistinct, AdmissionPinsLease, DrainHoldsFrozenCase, Early, Late
  <2>5. CallsMatchAdmission'
    BY <1>15 DEF Tick, LeasesDistinct, AdmissionPinsLease, DrainHoldsFrozenCase, CallsMatchAdmission, Early, Late, Terminal
  <2> QED BY <2>1, <2>2, <2>3, <2>4, <2>5
<1>16. CASE UNCHANGED vars
  BY <1>16 DEF vars, LeasesDistinct, AdmissionPinsLease, DrainHoldsFrozenCase, CallsMatchAdmission
<1>17. ASSUME NEW d \in Drains,
             \/ CheckpointLost(d) \/ FreezeLost(d) \/ MintLost(d) \/ CompleteLost(d)
             \/ AnalysisRaisesKeyError(d) \/ Crash(d)
      PROVE GivesUp(d)
  BY <1>17 DEF GivesUp, CheckpointLost, FreezeLost, MintLost, CompleteLost,
     AnalysisRaisesKeyError, Crash
<1> HIDE DEF IInv, Inv, TypeOK, RowStates, Steps
<1> QED
  BY <1>1, <1>2, <1>3, <1>4, <1>5, <1>6, <1>7, <1>8, <1>9, <1>10, <1>11, <1>12, <1>13, <1>14, <1>15, <1>16, <1>17 DEF Next, DrainStep

(* The rows, counters and locals keep their types: in particular           *)
(* retry_count never passes max_retries (drain_pending_dispatches).        *)
THEOREM TypeCorrect == Spec => []TypeOK
<1>1. IInv => TypeOK
  BY DEF IInv
<1> QED
  BY <1>1, InitInv, StepInv, PTL DEF Spec

(* For any number of events, drains, crashes and lease expiries, the       *)
(* provider is called at most once per event, with the frozen case         *)
(* (drain_pending_dispatches never replays an admitted analysis).          *)
THEOREM AtMostOnce == Spec => []AnalysedAtMostOnce
<1>1. IInv => AnalysedAtMostOnce
  BY DEF IInv, Inv, TypeOK, CallsMatchAdmission, AnalysedAtMostOnce
<1> QED
  BY <1>1, InitInv, StepInv, PTL DEF Spec

(* A row is DONE only if its frozen case was analysed (_complete_analysis  *)
(* is reached only through _mint_analysis_admission and the provider).     *)
THEOREM DoneIsAnalysed == Spec => []DoneWasAnalysed
<1>1. IInv => DoneWasAnalysed
  <2> SUFFICES ASSUME IInv, NEW e \in Events, state[e] = "DONE"
      PROVE  Len(calls[e]) = 1 /\ completed[e] /\ admitted[e] # 0 /\ frozen[e] # NoCase
    BY DEF DoneWasAnalysed
  <2>1. calls[e] = <<frozen[e]>> /\ completed[e] /\ admitted[e] # 0
    BY DEF IInv, Inv, CallsMatchAdmission
  <2>2. frozen[e] # NoCase
    BY <2>1 DEF IInv, Inv, AdmissionPinsLease
  <2>3. Len(calls[e]) = 1
    BY <2>1
  <2> QED BY <2>1, <2>2, <2>3
<1> QED
  BY <1>1, InitInv, StepInv, PTL DEF Spec

(* No drain that reaches the mint with its lease finds another drain's     *)
(* admission in the row (_mint_analysis_admission).                        *)
THEOREM AdmissionIsOwn == Spec => []NoForeignAdmission
<1>1. IInv => NoForeignAdmission
  BY DEF IInv, Inv, TypeOK, LeasesDistinct, AdmissionPinsLease, NoForeignAdmission, Owns,
     Early, Terminal
<1> QED
  BY <1>1, InitInv, StepInv, PTL DEF Spec

(* At most one drain is past the mint for an event: leases that expire and *)
(* are taken over never put two drains between admission and completion.   *)
THEOREM AdmissionExclusive == Spec => []OneAnalyser
<1>1. IInv => OneAnalyser
  BY SMTT(30) DEF IInv, Inv, TypeOK, LeasesDistinct, AdmissionPinsLease, OneAnalyser, Late
<1> QED
  BY <1>1, InitInv, StepInv, PTL DEF Spec

(* No step of any drain, late or not, undoes a terminal row, a frozen case *)
(* or an admission: the immutability triggers are never what stops one.    *)
THEOREM HistoryFinal == Spec => RowHistoryFinal
<1>1. IInv /\ [Next]_vars => [KeepsHistory]_vars
  <2> SUFFICES ASSUME IInv, Next PROVE KeepsHistory
    BY DEF vars
  <2> USE DEF KeepsHistory, Terminal, IInv, Inv, TypeOK, LeasesDistinct
  <2>1. ASSUME NEW S \in SUBSET Events, Enqueue(S) PROVE KeepsHistory
    BY <2>1 DEF Enqueue
  <2>2. ASSUME NEW d \in Drains, NEW e \in Events, CloseCandidate(d, e) \/ Claim(d, e)
        PROVE KeepsHistory
    BY <2>2 DEF CloseCandidate, Claim, Candidate, Claimable
  <2>3. ASSUME NEW d \in Drains, NEW w \in BOOLEAN, MaterializeFails(d, w)
        PROVE KeepsHistory
    BY <2>3 DEF MaterializeFails
  <2>4. ASSUME NEW d \in Drains, Freeze(d) \/ MintAdmission(d) \/ AnalysisFails(d) \/ Complete(d)
        PROVE KeepsHistory
    BY <2>4 DEF Freeze, MintAdmission, AnalysisFails, Complete, Owns, OwnsLive
  <2>5. ASSUME UNCHANGED <<state, frozen, admitted>> PROVE KeepsHistory
    BY <2>5
  <2>6. ASSUME NEW d \in Drains,
               \/ CheckpointClaim(d) \/ CheckpointMaterialize(d) \/ CheckpointLost(d)
               \/ \E c \in Cases : Materialize(d, c)
               \/ FreezeLost(d) \/ MintLost(d) \/ CallAnalysis(d) \/ AnalysisReturns(d)
               \/ AnalysisRaisesKeyError(d) \/ CompleteLost(d) \/ Crash(d)
        PROVE UNCHANGED <<state, frozen, admitted>>
    BY <2>6 DEF CheckpointClaim, CheckpointMaterialize, CheckpointLost, Materialize,
       FreezeLost, MintLost, CallAnalysis, AnalysisReturns, AnalysisRaisesKeyError,
       CompleteLost, Crash, rowVars
  <2>7. Tick => UNCHANGED <<state, frozen, admitted>>
    BY DEF Tick
  <2> HIDE DEF KeepsHistory, IInv, Inv, TypeOK, LeasesDistinct
  <2> QED
    BY <2>1, <2>2, <2>3, <2>4, <2>5, <2>6, <2>7 DEF Next, DrainStep
<1> QED
  BY <1>1, InitInv, StepInv, PTL DEF Spec, RowHistoryFinal

=============================================================================
