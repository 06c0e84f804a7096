------------------------ MODULE ApprovalJournalProofs ------------------------
(***************************************************************************)
(* Proofs about ApprovalJournal: for every number of concurrent calls, of  *)
(* callbacks and of proposals, an approval stands for the proposal on the  *)
(* card, reviews exclude one another, the primary provider is asked once,  *)
(* and the journal implements ApprovalCase.                                *)
(***************************************************************************)
EXTENDS ApprovalJournal, FiniteSetTheorems, TLAPS

AnalysisSteps == {"trigger", "analyse", "compile", "save", "plan", "send", "unsent", "notified",
                  "waiting", "recover"}

(* The case is analysed once, before anything is recorded for it.          *)
CaseInv ==
    /\ state = "NONE" => analyst = Nobody /\ \A e \in Events : records[e].act = "NONE"
    /\ state \in {"NONE", "CASE_TRIGGERED"} => calls = 0
    /\ calls <= 1

(* Only a pending review is claimed, by one call, and a call has one claim.*)
ClaimInv ==
    /\ \A e \in Events : records[e].live \/ records[e].by # Nobody => Pending(e)
    /\ \A e, f \in Events : records[e].by = records[f].by /\ records[e].by # Nobody => e = f
    /\ OneReviewer

(* The call that may write works on a case nobody waits for, and offers    *)
(* the newest proposal only when its card was delivered.                   *)
WorkerInv(w) ==
    /\ w = analyst => pc[w] \in AnalysisSteps /\ \A e \in Events : records[e].act = "NONE"
    /\ pc[w] \in {"trigger", "analyse"} => w = analyst
    /\ pc[w] \in {"idle", "queue", "claim"} => \A e \in Events : records[e].by # w
    /\ pc[w] \in {"plan", "send"} => mine[w] # 0
    /\ Permitted(w) =>
          /\ pc[w] # "mark" => state \notin {"WAITING_APPROVAL", "APPROVED", "REJECTED"}
          /\ pc[w] \in {"plan", "send"} => mine[w] = active
          /\ pc[w] \in {"notified", "waiting"} => active \in cards
          /\ pc[w] \in {"plan", "send", "notified", "waiting"} => active > newest

(* There is one approval, of the active proposal, and it is final.         *)
ApprovalInv ==
    /\ \A e \in Events : records[e].act = "APPROVE" =>
          /\ state = "APPROVED"
          /\ records[e].prop = active
          /\ active \in clear \cap cards
    /\ \A e, f \in Events : records[e].act = "APPROVE" /\ records[f].act = "APPROVE" => e = f
    /\ \A e \in intents : records[e].act = "APPROVE"

Inv ==
    /\ CaseInv
    /\ ClaimInv
    /\ \A w \in Workers : WorkerInv(w)
    /\ ApprovalInv
    /\ WaitingWasShown

IInv == TypeOK /\ Inv

-----------------------------------------------------------------------------

LEMMA InitInv == Init => IInv
<1> SUFFICES ASSUME Init PROVE IInv
  OBVIOUS
<1> USE DEF Init
<1>1. NoRecord \in Records
  <2>1. Cardinality(Events) \in Nat
    BY EventsAssumption, FS_CardinalityType
  <2> QED BY <2>1, MaxProposalsAssumption DEF NoRecord, Records
<1>2. TypeOK
  <2>1. 0 \in 0..MaxProposals
    BY MaxProposalsAssumption
  <2>2. records \in [Events -> Records]
    BY <1>1
  <2>3. pc \in [Workers -> Steps] /\ mine \in [Workers -> 0..made] /\ state \in States
    BY DEF Steps, States
  <2>4. active \in 0..made /\ newest \in 0..made /\ calls \in Nat
    OBVIOUS
  <2>5. intents \subseteq Events /\ cards \subseteq 1..made /\ clear \subseteq 1..made
        /\ lapsed \subseteq 1..made
    OBVIOUS
  <2> QED BY ONLY <2>1, <2>2, <2>3, <2>4, <2>5, Init DEF TypeOK, Init
<1>3. \A e \in Events : records[e].act = "NONE" /\ records[e].by = Nobody /\ ~records[e].live
  BY DEF NoRecord
<1> HIDE DEF NoRecord
<1>4. CaseInv /\ ClaimInv
  BY <1>3 DEF CaseInv, ClaimInv, OneReviewer
<1>5. \A w \in Workers : WorkerInv(w)
  BY <1>3, NobodyAssumption DEF WorkerInv, Permitted, HoldsClaim
<1>6. ApprovalInv /\ WaitingWasShown
  BY <1>3 DEF ApprovalInv, WaitingWasShown
<1> QED
  BY <1>2, <1>4, <1>5, <1>6 DEF IInv, Inv

(* The columns of a row. *)
LEMMA RecordType ==
    ASSUME TypeOK, NEW e \in Events
    PROVE  /\ records[e] \in Records
           /\ records[e].act \in DOMAIN Result \cup {"NONE"}
           /\ records[e].prop \in 0..MaxProposals
           /\ records[e].done \in BOOLEAN /\ records[e].live \in BOOLEAN
           /\ records[e].by \in Workers \cup {Nobody}
           /\ records[e].no \in 0..Cardinality(Events)
  BY DEF TypeOK, Records

(* What release, mark and a crash do to a row. *)
LEMMA OnClaimRows ==
    ASSUME TypeOK, NEW w
    PROVE  /\ Marked(w) \in [Events -> Records]
           /\ Released(w) \in [Events -> Records]
           /\ OnClaim(w, LAMBDA r : [r EXCEPT !.by = Nobody]) \in [Events -> Records]
<1>1. ASSUME NEW e \in Events
      PROVE  /\ Processed(records[e]) \in Records
             /\ [records[e] EXCEPT !.by = Nobody, !.live = FALSE] \in Records
             /\ [records[e] EXCEPT !.by = Nobody] \in Records
  BY RecordType DEF Processed, Records
<1> QED
  BY <1>1, RecordType DEF OnClaim, Marked, Released

(* A claim is renewed where it is held, which changes nothing. *)
LEMMA RenewedRows ==
    ASSUME IInv, NEW w \in Workers, HoldsClaim(w)
    PROVE  Renewed(w) = records
<1>0. TypeOK
  BY DEF IInv
<1>1. ASSUME NEW e \in Events, Pending(e), records[e].by = w
      PROVE  [records[e] EXCEPT !.live = TRUE] = records[e]
  <2>1. records[e].live
    BY <1>1, NobodyAssumption DEF HoldsClaim, IInv, Inv, ClaimInv
  <2>2. records[e].live = TRUE
    BY <1>0, <2>1, RecordType
  <2> QED BY <1>0, <2>2, RecordType DEF Records
<1>2. \A e \in Events : Renewed(w)[e] = records[e]
  BY <1>1 DEF Renewed, OnClaim
<1> QED
  BY <1>0, <1>2 DEF Renewed, OnClaim, TypeOK

(* The row of a new callback is numbered within the number of callbacks.   *)
LEMMA CountFits ==
    ASSUME NEW e \in Events, records[e].act = "NONE"
    PROVE  Cardinality({f \in Events : records[f].act # "NONE"}) + 1 \in 0..Cardinality(Events)
<1> DEFINE S == {f \in Events : records[f].act # "NONE"}
<1>1. S \subseteq Events \ {e}
  OBVIOUS
<1>2. IsFiniteSet(Events \ {e}) /\ Cardinality(Events \ {e}) = Cardinality(Events) - 1
  BY EventsAssumption, FS_RemoveElement
<1>3. IsFiniteSet(S) /\ Cardinality(S) <= Cardinality(Events \ {e})
  BY <1>1, <1>2, FS_Subset
<1>4. Cardinality(S) \in Nat /\ Cardinality(Events) \in Nat
  BY <1>3, EventsAssumption, FS_CardinalityType
<1> QED
  BY <1>2, <1>3, <1>4

(* Every step keeps the types. *)
LEMMA StepType == IInv /\ [Next]_vars => TypeOK'
<1> SUFFICES ASSUME IInv, [Next]_vars PROVE TypeOK'
  OBVIOUS
<1>0. TypeOK
  BY DEF IInv
<1>a. \A e \in Events : Processed(records[e]) \in Records
  BY <1>0, RecordType DEF Processed, Records
<1> USE <1>0 DEF TypeOK, proposalVars, worldVars, callVars, Steps, States, Terminal
<1>1. ASSUME NEW w \in Workers, AnalyzeCase(w) PROVE TypeOK'
  BY <1>1 DEF AnalyzeCase
<1>2. ASSUME NEW w \in Workers, StartAnalysis(w) PROVE TypeOK'
  BY <1>2 DEF StartAnalysis, Goto, End
<1>3. ASSUME NEW w \in Workers, AnalysisReturns(w) PROVE TypeOK'
  BY <1>3 DEF AnalysisReturns, Goto
<1>4. ASSUME NEW w \in Workers, Compile(w) PROVE TypeOK'
  BY <1>4 DEF Compile, Goto
<1>5. ASSUME NEW w \in Workers, PlanReady(w) PROVE TypeOK'
  BY <1>5 DEF PlanReady, Moves, Goto
<1>6. ASSUME NEW w \in Workers, Unsent(w) PROVE TypeOK'
  BY <1>6 DEF Unsent, Finished, Goto, End
<1>7. ASSUME NEW w \in Workers, Notified(w) PROVE TypeOK'
  BY <1>7 DEF Notified, Moves, Goto
<1>8. ASSUME NEW w \in Workers, WaitingApproval(w) PROVE TypeOK'
  BY <1>8 DEF WaitingApproval, Finished, Goto, End
<1>9. ASSUME NEW w \in Workers, QueueReviews(w) PROVE TypeOK'
  <2>1. records' \in [Events -> Records]
    BY <1>9, <1>a DEF QueueReviews, Goto, End
  <2> QED BY <1>9, <2>1 DEF QueueReviews, Goto, End
<1>10. ASSUME NEW w \in Workers, CheckReview(w) PROVE TypeOK'
  <2>1. records' \in [Events -> Records]
    BY <1>10, OnClaimRows, RenewedRows DEF CheckReview, Goto, End
  <2> QED BY <1>10, <2>1 DEF CheckReview, Goto, End
<1>11. ASSUME NEW w \in Workers, ReviewReturns(w) PROVE TypeOK'
  <2>1. records' \in [Events -> Records]
    BY <1>11, OnClaimRows, RenewedRows DEF ReviewReturns, Goto
  <2> QED BY <1>11, <2>1 DEF ReviewReturns, Goto
<1>12. ASSUME NEW w \in Workers, MarkProcessed(w) PROVE TypeOK'
  <2>1. records' \in [Events -> Records]
    BY <1>12, OnClaimRows, RenewedRows DEF MarkProcessed, End
  <2> QED BY <1>12, <2>1 DEF MarkProcessed, End
<1>13. ASSUME NEW w \in Workers, ReleaseReview(w) PROVE TypeOK'
  <2>1. records' \in [Events -> Records]
    BY <1>13, OnClaimRows, RenewedRows DEF ReleaseReview, End
  <2> QED BY <1>13, <2>1 DEF ReleaseReview, End
<1>14. ASSUME NEW w \in Workers, Recover(w) PROVE TypeOK'
  <2>1. records' \in [Events -> Records]
    BY <1>14, OnClaimRows, RenewedRows DEF Recover, Goto, End
  <2> QED BY <1>14, <2>1 DEF Recover, Goto, End
<1>15. ASSUME NEW w \in Workers, UndoReview(w) PROVE TypeOK'
  BY <1>15 DEF UndoReview, Goto
<1>16. ASSUME NEW w \in Workers, Cancelled(w) PROVE TypeOK'
  <2>1. pc[w] = "send" => mine[w] \in 1..made
    BY <1>16 DEF Cancelled, Goto, End, IInv, Inv, WorkerInv
  <2> QED BY <1>16, <2>1 DEF Cancelled, Goto, End
<1>17. ASSUME NEW w \in Workers, Crash(w) PROVE TypeOK'
  <2>1. records' \in [Events -> Records]
    BY <1>17, OnClaimRows, RenewedRows DEF Crash, End
  <2> QED BY <1>17, <2>1 DEF Crash, End
<1>18. ASSUME NEW w \in Workers, SendProposal(w) PROVE TypeOK'
  <2>1. mine[w] \in 1..made
    BY <1>18 DEF SendProposal, IInv, Inv, WorkerInv
  <2>2. cards' \subseteq 1..made
    BY <1>18, <2>1 DEF SendProposal
  <2>3. pc' \in [Workers -> Steps] /\ mine' \in [Workers -> 0..made]
    BY <1>18 DEF SendProposal
  <2> QED BY <1>18, <2>2, <2>3 DEF SendProposal
<1>19. ASSUME NEW w \in Workers, ProcessReviews(w) PROVE TypeOK'
  <2>1. records' \in [Events -> Records]
    BY <1>19, <1>a DEF ProcessReviews, Goto, Expiry
  <2> QED BY <1>19, <2>1 DEF ProcessReviews, Goto, Expiry
<1>20. ASSUME NEW w \in Workers, ClaimReview(w) PROVE TypeOK'
  <2>0. /\ UNCHANGED <<state, proposalVars, worldVars, cards, newest>>
        /\ pc' \in [Workers -> Steps] /\ mine' \in [Workers -> 0..made]
        /\ analyst' \in Workers \cup {Nobody}
    <3>1. Goto(w, "check") \/ End(w)
      BY <1>20 DEF ClaimReview
    <3> QED BY <1>20, <3>1 DEF ClaimReview, Goto, End
  <2>1. CASE UNCHANGED records
    BY <2>0, <2>1
  <2>2. CASE ~UNCHANGED records
    <3>1. PICK e \in Events : records' = [records EXCEPT ![e].by = w, ![e].live = TRUE]
      BY <1>20, <2>2 DEF ClaimReview
    <3>2. [records[e] EXCEPT !.by = w, !.live = TRUE] \in Records
      BY RecordType DEF Records
    <3>3. records' = [records EXCEPT ![e] = [records[e] EXCEPT !.by = w, !.live = TRUE]]
      BY <3>1
    <3>4. records' \in [Events -> Records]
      BY <3>2, <3>3
    <3> QED BY <2>0, <3>4
  <2> QED BY <2>1, <2>2
<1>21. ASSUME NEW w \in Workers, SaveProposal(w) PROVE TypeOK'
  <2>1. CASE Permitted(w) /\ state \notin Terminal
    <3>1. /\ made < MaxProposals /\ made' = made + 1 /\ active' = made + 1
          /\ clear' \in {clear, clear \cup {made + 1}}
          /\ mine' = [mine EXCEPT ![w] = made + 1] /\ pc' = [pc EXCEPT ![w] = "plan"]
          /\ UNCHANGED <<analyst, state, records, intents, over, lapsed, calls, cards, newest>>
      BY <1>21, <2>1 DEF SaveProposal
    <3>2. 0..made \subseteq 0..made' /\ 1..made \subseteq 1..made' /\ made + 1 \in 1..made'
      BY <3>1, MaxProposalsAssumption
    <3>3. made' \in 0..MaxProposals /\ active' \in 0..made'
      BY <3>1, MaxProposalsAssumption
    <3>4. mine' \in [Workers -> 0..made']
      BY <3>1, <3>2
    <3> QED BY <3>1, <3>2, <3>3, <3>4
  <2>2. CASE ~(Permitted(w) /\ state \notin Terminal)
    BY <1>21, <2>2 DEF SaveProposal, Goto
  <2> QED BY <2>1, <2>2
<1>22. ASSUME ExpireCases PROVE TypeOK'
  <2>1. records' \in [Events -> Records]
    BY <1>22, <1>a DEF ExpireCases, Expiry
  <2> QED BY <1>22, <2>1 DEF ExpireCases, Expiry
<1>23. ASSUME CaseExpires PROVE TypeOK'
  BY <1>23 DEF CaseExpires
<1>24. ASSUME NEW p \in Proposals, ProposalExpires(p) PROVE TypeOK'
  BY <1>24 DEF ProposalExpires
<1>25. ASSUME NEW e \in Events, BuildIntent(e) PROVE TypeOK'
  BY <1>25 DEF BuildIntent
<1>26. ASSUME NEW e \in Events, LeaseExpires(e) PROVE TypeOK'
  <2>1. [records[e] EXCEPT !.live = FALSE] \in Records
    BY RecordType DEF Records
  <2> QED BY <1>26, <2>1 DEF LeaseExpires
<1>27. ASSUME NEW e \in Events, NEW act \in DOMAIN Result, NEW p \in Proposals, RecordCallback(e, act, p)
      PROVE TypeOK'
  <2>1. Cardinality({f \in Events : records[f].act # "NONE"}) + 1 \in 0..Cardinality(Events)
    BY <1>27, CountFits DEF RecordCallback
  <2>2. \A n \in 0..Cardinality(Events) : [NoRecord EXCEPT !.act = act, !.prop = p, !.no = n] \in Records
    <3>1. p \in 0..MaxProposals
      BY MaxProposalsAssumption DEF Proposals
    <3> QED BY <3>1 DEF NoRecord, Records
  <2>3. Result[act] \in States
    BY DEF Result
  <2> QED BY <1>27, <2>1, <2>2, <2>3 DEF RecordCallback
<1>28. CASE UNCHANGED vars
  BY <1>28 DEF vars
<1> QED
  BY <1>1, <1>2, <1>3, <1>4, <1>5, <1>6, <1>7, <1>8, <1>9, <1>10, <1>11, <1>12, <1>13,
     <1>14, <1>15, <1>16, <1>17, <1>18, <1>19, <1>20, <1>21, <1>22, <1>23, <1>24, <1>25,
     <1>26, <1>27, <1>28 DEF Next, Analysis, Finish, Review

-----------------------------------------------------------------------------

(* No review gains a claim. *)
ClaimsShrink ==
    \A e \in Events :
        /\ records'[e].act = records[e].act /\ records'[e].prop = records[e].prop
        /\ records'[e].live => records[e].live
        /\ records'[e].by \in {records[e].by, Nobody}
        /\ records[e].done => records'[e].done
        /\ records'[e].live \/ records'[e].by # Nobody => ~records'[e].done

(* The case stays where it is, or leaves a state that is not final for one *)
(* in which nothing is offered.                                            *)
StateSettles ==
    \/ state' = state
    \/ /\ state' \in {"LLM_ANALYZING", "PLAN_READY", "NOTIFIED", "MANUAL", "EXPIRED"}
       /\ state \notin {"NONE"} \cup Terminal

LEMMA ShrinkFacts ==
    ASSUME IInv, TypeOK', ClaimsShrink
    PROVE  /\ ClaimInv'
           /\ \A w \in Workers : HoldsClaim(w)' => HoldsClaim(w)
<1>1. ASSUME NEW e \in Events
      PROVE  /\ records'[e].live \/ records'[e].by # Nobody => Pending(e)'
             /\ Pending(e)' => Pending(e)
  <2>1. records'[e].live \/ records'[e].by # Nobody => Pending(e)
    BY DEF ClaimsShrink, IInv, Inv, ClaimInv
  <2> QED BY <2>1 DEF ClaimsShrink, Pending
<1>2. \A e, f \in Events : records'[e].by = records'[f].by /\ records'[e].by # Nobody => e = f
  BY DEF ClaimsShrink, IInv, Inv, ClaimInv
<1>3. OneReviewer'
  BY DEF ClaimsShrink, IInv, Inv, ClaimInv, OneReviewer
<1>4. \A w \in Workers : HoldsClaim(w)' => HoldsClaim(w)
  BY <1>1, NobodyAssumption DEF HoldsClaim, ClaimsShrink
<1> QED
  BY <1>1, <1>2, <1>3, <1>4 DEF ClaimInv

(* A step of call w (of nobody, when w is not a call) that gives nobody a  *)
(* claim, offers nothing and saves nothing.                                *)
LEMMA QuietStep ==
    ASSUME IInv, TypeOK', NEW w, ClaimsShrink, StateSettles,
           UNCHANGED <<active, clear, intents, newest>>, cards \subseteq cards',
           \/ calls' = calls
           \/ calls' = calls + 1 /\ state = "CASE_TRIGGERED" /\ state' # state,
           \A v \in Workers \ {w} : pc'[v] = pc[v] /\ mine'[v] = mine[v],
           analyst' = analyst \/ analyst' = Nobody,
           analyst' = analyst \/ analyst = w,
           w \in Workers => WorkerInv(w)'
    PROVE  IInv'
<1>0. TypeOK
  BY DEF IInv
<1>1. ClaimInv' /\ \A v \in Workers : HoldsClaim(v)' => HoldsClaim(v)
  BY ShrinkFacts
<1>2. CaseInv'
  <2>1. CaseInv /\ calls \in Nat
    BY <1>0 DEF IInv, Inv, TypeOK
  <2>2. state' \in {"NONE", "CASE_TRIGGERED"} => state' = state /\ calls' = calls
    BY DEF StateSettles
  <2>3. state' = "NONE" => analyst' = Nobody /\ \A e \in Events : records'[e].act = "NONE"
    BY <2>1, <2>2 DEF CaseInv, ClaimsShrink
  <2>4. calls' <= 1
    BY <2>1 DEF CaseInv
  <2> QED BY <2>1, <2>2, <2>3, <2>4 DEF CaseInv
<1>3. ASSUME NEW v \in Workers PROVE WorkerInv(v)'
  <2>1. CASE v = w
    BY <2>1
  <2>2. CASE v # w
    <3>1. WorkerInv(v) /\ pc'[v] = pc[v] /\ mine'[v] = mine[v]
      BY <2>2 DEF IInv, Inv
    <3>2. v = analyst' <=> v = analyst
      BY <2>2, NobodyAssumption
    <3>3. Permitted(v)' => Permitted(v)
      BY <3>2, <1>1 DEF Permitted
    <3>4. state \notin {"WAITING_APPROVAL", "APPROVED", "REJECTED"} =>
             state' \notin {"WAITING_APPROVAL", "APPROVED", "REJECTED"}
      BY DEF StateSettles
    <3>5. v = analyst' => pc'[v] \in AnalysisSteps /\ \A e \in Events : records'[e].act = "NONE"
      BY <3>1, <3>2 DEF WorkerInv, ClaimsShrink
    <3>6. pc'[v] \in {"idle", "queue", "claim"} => \A e \in Events : records'[e].by # v
      BY <3>1, NobodyAssumption DEF WorkerInv, ClaimsShrink
    <3> QED BY <3>1, <3>2, <3>3, <3>4, <3>5, <3>6 DEF WorkerInv
  <2> QED BY <2>1, <2>2
<1>4. ApprovalInv'
  <2>1. ApprovalInv
    BY DEF IInv, Inv
  <2>2. state = "APPROVED" => state' = "APPROVED"
    BY DEF StateSettles, Terminal
  <2>3. \A e \in Events : records'[e].act = records[e].act /\ records'[e].prop = records[e].prop
    BY DEF ClaimsShrink
  <2>4. intents \subseteq Events
    BY <1>0 DEF TypeOK
  <2> QED BY <2>1, <2>2, <2>3, <2>4 DEF ApprovalInv
<1>5. WaitingWasShown'
  BY DEF IInv, Inv, WaitingWasShown, StateSettles
<1> QED
  BY <1>1, <1>2, <1>3, <1>4, <1>5 DEF IInv, Inv

(* A call that has ended leaves no claim and no permission behind. *)
LEMMA EndedCall ==
    ASSUME IInv, NEW w \in Workers, End(w), \A e \in Events : records'[e].by # w
    PROVE  /\ WorkerInv(w)'
           /\ \A v \in Workers \ {w} : pc'[v] = pc[v] /\ mine'[v] = mine[v]
           /\ analyst' = analyst \/ analyst' = Nobody
           /\ analyst' = analyst \/ analyst = w
<1>0. TypeOK
  BY DEF IInv
<1>1. pc'[w] = "idle" /\ analyst' # w
  BY <1>0, NobodyAssumption DEF End, TypeOK
<1>2. ~Permitted(w)'
  BY <1>1 DEF Permitted, HoldsClaim
<1>3. WorkerInv(w)'
  BY <1>1, <1>2 DEF WorkerInv
<1> QED
  BY <1>0, <1>3 DEF End, TypeOK

(* Whoever is permitted to write is the only one. *)
LEMMA OnePermitted ==
    ASSUME IInv, NEW v \in Workers, NEW w \in Workers, Permitted(v), Permitted(w)
    PROVE  v = w
<1>1. CASE v = analyst \/ w = analyst
  <2>1. \A e \in Events : ~Pending(e)
    BY <1>1 DEF IInv, Inv, WorkerInv, Pending
  <2> QED BY <1>1, <2>1 DEF Permitted, HoldsClaim
<1>2. CASE v # analyst /\ w # analyst
  BY <1>2 DEF Permitted, HoldsClaim, IInv, Inv, ClaimInv, OneReviewer
<1> QED
  BY <1>1, <1>2

(* An analysis has no claims, and a call without one holds none. *)
LEMMA AnalystHasNoClaim ==
    ASSUME IInv, NEW w \in Workers, w = analyst
    PROVE  \A e \in Events : ~Pending(e) /\ records[e].by = Nobody /\ ~records[e].live
  BY DEF IInv, Inv, WorkerInv, ClaimInv, Pending

(* Steps that touch no row, and steps that touch rows of one call. *)
LEMMA SameRows ==
    ASSUME IInv, UNCHANGED records
    PROVE  ClaimsShrink
  BY DEF ClaimsShrink, IInv, Inv, ClaimInv, Pending

LEMMA DropsClaims ==
    ASSUME IInv, NEW w \in Workers,
           \/ records' = Marked(w)
           \/ records' = Released(w)
           \/ records' = OnClaim(w, LAMBDA r : [r EXCEPT !.by = Nobody])
    PROVE  ClaimsShrink /\ \A e \in Events : records'[e].by # w
<1>0. TypeOK
  BY DEF IInv
<1>1. ASSUME NEW e \in Events
      PROVE  /\ records'[e].act = records[e].act /\ records'[e].prop = records[e].prop
             /\ records'[e].live => records[e].live
             /\ records'[e].by \in {records[e].by, Nobody}
             /\ records[e].done => records'[e].done
             /\ records'[e].live \/ records'[e].by # Nobody => ~records'[e].done
             /\ records'[e].by # w
  <2>1. records[e] \in Records
    BY <1>0 DEF TypeOK
  <2>2. records[e].live \/ records[e].by # Nobody => Pending(e)
    BY DEF IInv, Inv, ClaimInv
  <2>3. CASE Pending(e) /\ records[e].by = w
    <3>1. records'[e] \in {Processed(records[e]), [records[e] EXCEPT !.by = Nobody, !.live = FALSE],
                           [records[e] EXCEPT !.by = Nobody]}
      BY <2>3 DEF Marked, Released, OnClaim
    <3> QED BY <2>1, <2>3, <3>1, NobodyAssumption DEF Records, Processed, Pending
  <2>4. CASE ~(Pending(e) /\ records[e].by = w)
    <3>1. records'[e] = records[e]
      BY <2>4 DEF Marked, Released, OnClaim
    <3> QED BY <2>2, <2>4, <3>1, NobodyAssumption DEF Pending
  <2> QED BY <2>3, <2>4
<1> QED
  BY <1>1 DEF ClaimsShrink

(* Closing reviews, because the case expired or another one replaced them. *)
LEMMA ClosesReviews ==
    ASSUME IInv,
           \A e \in Events : records'[e] = records[e] \/ records'[e] = Processed(records[e])
    PROVE  ClaimsShrink
<1> SUFFICES ASSUME NEW e \in Events
             PROVE  /\ records'[e].act = records[e].act /\ records'[e].prop = records[e].prop
                    /\ records'[e].live => records[e].live
                    /\ records'[e].by \in {records[e].by, Nobody}
                    /\ records[e].done => records'[e].done
                    /\ records'[e].live \/ records'[e].by # Nobody => ~records'[e].done
  BY DEF ClaimsShrink
<1>1. records[e] \in Records
  BY DEF IInv, TypeOK
<1>2. records[e].live \/ records[e].by # Nobody => Pending(e)
  BY DEF IInv, Inv, ClaimInv
<1> QED
  BY <1>1, <1>2 DEF Records, Processed, Pending

(* A call goes from one step of the code to the next. *)
LEMMA CallMoves ==
    ASSUME IInv, TypeOK', NEW w \in Workers, NEW next \in Steps, Goto(w, next),
           ClaimsShrink, StateSettles,
           UNCHANGED <<active, clear, intents, newest>>, cards \subseteq cards',
           \/ calls' = calls
           \/ calls' = calls + 1 /\ state = "CASE_TRIGGERED" /\ state' # state,
           pc[w] # "mark",
           w = analyst => next \in AnalysisSteps,
           next = "analyse" => w = analyst,
           next \in {"queue", "claim"} => pc[w] \in {"idle", "queue"},
           next = "send" => pc[w] = "plan",
           next = "waiting" => pc[w] = "notified",
           next \notin {"idle", "trigger", "plan", "notified"}
    PROVE  IInv'
<1>0. TypeOK /\ WorkerInv(w)
  BY DEF IInv, Inv
<1>1. pc'[w] = next /\ mine' = mine /\ analyst' = analyst /\ \A v \in Workers \ {w} : pc'[v] = pc[v]
  BY <1>0 DEF Goto, TypeOK
<1>2. Permitted(w)' => Permitted(w)
  BY <1>1, ShrinkFacts DEF Permitted
<1>3. Permitted(w)' => state' \notin {"WAITING_APPROVAL", "APPROVED", "REJECTED"}
  BY <1>0, <1>2 DEF WorkerInv, StateSettles
<1>4. w = analyst' => pc'[w] \in AnalysisSteps /\ \A e \in Events : records'[e].act = "NONE"
  BY <1>0, <1>1 DEF WorkerInv, ClaimsShrink
<1>5. pc'[w] \in {"idle", "queue", "claim"} => \A e \in Events : records'[e].by # w
  BY <1>0, <1>1, NobodyAssumption DEF WorkerInv, ClaimsShrink
<1>6. WorkerInv(w)'
  BY <1>0, <1>1, <1>2, <1>3, <1>4, <1>5 DEF WorkerInv
<1> QED
  BY <1>1, <1>6, QuietStep

(* A call returns, raises or dies. *)
LEMMA CallEnds ==
    ASSUME IInv, TypeOK', NEW w \in Workers, End(w), ClaimsShrink, StateSettles,
           UNCHANGED <<active, clear, intents, newest, calls>>, cards \subseteq cards',
           \A e \in Events : records'[e].by # w
    PROVE  IInv'
  BY EndedCall, QuietStep

(* transition() leaves a final state alone. *)
LEMMA EdgeSettles ==
    ASSUME NEW old, NEW new, Edge(old, new),
           new \in {"LLM_ANALYZING", "PLAN_READY", "NOTIFIED", "MANUAL", "EXPIRED"}
    PROVE  old \notin {"NONE"} \cup Terminal
  BY DEF Edge, Terminal

-----------------------------------------------------------------------------

(* The steps of a call that offer, save and claim nothing. *)
LEMMA QuietCalls ==
    ASSUME IInv, TypeOK', NEW w \in Workers,
           \/ StartAnalysis(w) \/ AnalysisReturns(w) \/ Compile(w) \/ PlanReady(w) \/ Unsent(w)
           \/ Notified(w) \/ Recover(w) \/ Cancelled(w) \/ ProcessReviews(w) \/ QueueReviews(w)
           \/ CheckReview(w) \/ ReviewReturns(w) \/ MarkProcessed(w) \/ ReleaseReview(w)
           \/ UndoReview(w) \/ Crash(w)
    PROVE  IInv'
<1>0. TypeOK /\ WorkerInv(w)
  BY DEF IInv, Inv
<1>a. pc[w] \notin AnalysisSteps => w # analyst
  BY <1>0 DEF WorkerInv
<1>b. UNCHANGED records => ClaimsShrink
  BY SameRows
<1>c. state' = state => StateSettles
  BY DEF StateSettles
<1>d. ASSUME NEW new \in {"LLM_ANALYZING", "PLAN_READY", "NOTIFIED", "MANUAL", "EXPIRED"},
             Edge(state, new), state' = new
      PROVE  StateSettles
  BY <1>d, EdgeSettles DEF StateSettles
<1>e. w = analyst => \A e \in Events : records[e].by # w
  BY AnalystHasNoClaim, NobodyAssumption
<1>f. HoldsClaim(w) => Renewed(w) = records
  BY RenewedRows
<1> USE DEF proposalVars, worldVars, Steps, AnalysisSteps
<1>1. CASE StartAnalysis(w)
  <2>1. w = analyst
    BY <1>0, <1>1 DEF StartAnalysis, WorkerInv
  <2>2. CASE Edge(state, "LLM_ANALYZING")
    <3>1. state = "CASE_TRIGGERED" /\ state' = "LLM_ANALYZING" /\ StateSettles
      BY <1>1, <1>d, <2>2 DEF StartAnalysis, Edge
    <3> QED BY <1>1, <1>b, <2>1, <2>2, <3>1, CallMoves DEF StartAnalysis
  <2>3. CASE ~Edge(state, "LLM_ANALYZING")
    BY <1>1, <1>b, <1>c, <1>e, <2>1, <2>3, CallEnds DEF StartAnalysis
  <2> QED BY <2>2, <2>3
<1>2. CASE AnalysisReturns(w)
  BY <1>2, <1>b, <1>c, CallMoves DEF AnalysisReturns
<1>3. CASE Compile(w)
  BY <1>3, <1>b, <1>c, CallMoves DEF Compile
<1>4. CASE PlanReady(w)
  <2>1. CASE Permitted(w) /\ Edge(state, "PLAN_READY")
    BY <1>4, <1>b, <1>d, <2>1, CallMoves DEF PlanReady, Moves
  <2>2. CASE ~(Permitted(w) /\ Edge(state, "PLAN_READY"))
    BY <1>4, <1>b, <1>c, <2>2, CallMoves DEF PlanReady, Moves
  <2> QED BY <2>1, <2>2
<1>5. CASE Notified(w)
  <2>1. CASE Permitted(w) /\ Edge(state, "NOTIFIED")
    BY <1>5, <1>b, <1>d, <2>1, CallMoves DEF Notified, Moves
  <2>2. CASE ~(Permitted(w) /\ Edge(state, "NOTIFIED"))
    BY <1>5, <1>b, <1>c, <2>2, CallMoves DEF Notified, Moves
  <2> QED BY <2>1, <2>2
<1>6. CASE Unsent(w)
  <2>1. CASE Permitted(w) /\ Edge(state, "MANUAL") /\ w = analyst
    BY <1>6, <1>b, <1>d, <1>e, <2>1, CallEnds DEF Unsent, Finished
  <2>2. CASE Permitted(w) /\ Edge(state, "MANUAL") /\ w # analyst
    BY <1>6, <1>b, <1>d, <2>2, CallMoves DEF Unsent, Finished
  <2>3. CASE ~(Permitted(w) /\ Edge(state, "MANUAL"))
    BY <1>6, <1>b, <1>c, <2>3, CallMoves DEF Unsent
  <2> QED BY <2>1, <2>2, <2>3
<1>7. CASE Recover(w)
  <2>1. CASE w = analyst
    <3>1. StateSettles
      BY <1>7, <1>c, <1>d, <2>1 DEF Recover
    <3> QED BY <1>7, <1>b, <1>e, <2>1, <3>1, CallEnds DEF Recover
  <2>2. CASE w # analyst
    BY <1>7, <1>b, <1>c, <1>f, <2>2, CallMoves DEF Recover
  <2> QED BY <2>1, <2>2
<1>8. CASE Cancelled(w)
  <2>1. cards \subseteq cards'
    BY <1>8 DEF Cancelled
  <2>2. CASE w = analyst
    <3>1. StateSettles
      BY <1>8, <1>c, <1>d, <2>2 DEF Cancelled
    <3> QED BY <1>8, <1>b, <1>e, <2>1, <2>2, <3>1, CallEnds DEF Cancelled
  <2>3. CASE w # analyst
    <3>1. StateSettles
      BY <1>8, <2>3 DEF Cancelled, StateSettles, Terminal
    <3> QED BY <1>8, <1>b, <2>1, <2>3, <3>1, CallMoves DEF Cancelled
  <2> QED BY <2>2, <2>3
<1>9. CASE ProcessReviews(w)
  <2>1. w # analyst
    BY <1>9, <1>a DEF ProcessReviews
  <2>2. ClaimsShrink
    BY <1>0, <1>9, <1>b, ClosesReviews DEF ProcessReviews, Expiry
  <2>3. StateSettles
    BY <1>9, <1>c DEF ProcessReviews, Expiry, Expirable, StateSettles
  <2> QED BY <1>9, <2>1, <2>2, <2>3, CallMoves DEF ProcessReviews
<1>10. CASE QueueReviews(w)
  <2>1. w # analyst
    BY <1>10, <1>a DEF QueueReviews
  <2>2. ClaimsShrink
    BY <1>10, ClosesReviews DEF QueueReviews
  <2>3. StateSettles
    BY <1>10 DEF QueueReviews, StateSettles, Terminal
  <2>4. Goto(w, "claim") \/ End(w)
    BY <1>10 DEF QueueReviews
  <2>5. \A e \in Events : records'[e].by # w
    BY <1>0, <1>10, <2>2, NobodyAssumption DEF QueueReviews, WorkerInv, ClaimsShrink
  <2> QED BY <1>10, <2>1, <2>2, <2>3, <2>4, <2>5, CallMoves, CallEnds DEF QueueReviews
<1>11. CASE CheckReview(w)
  <2>1. w # analyst
    BY <1>11, <1>a DEF CheckReview
  <2>2. CASE UNCHANGED <<state, records>> /\ (Goto(w, "review") \/ Goto(w, "recover"))
    BY <1>11, <1>b, <1>c, <2>1, <2>2, CallMoves DEF CheckReview
  <2>3. CASE records' = Marked(w) /\ End(w) /\ state' = "EXPIRED" /\ Edge(state, "EXPIRED")
    BY <1>11, <1>d, <2>3, DropsClaims, CallEnds DEF CheckReview
  <2> QED BY <1>11, <2>2, <2>3 DEF CheckReview
<1>12. CASE ReviewReturns(w)
  <2>1. w # analyst
    BY <1>12, <1>a DEF ReviewReturns
  <2> QED BY <1>12, <1>b, <1>c, <1>f, <2>1, CallMoves DEF ReviewReturns
<1>13. CASE MarkProcessed(w) \/ ReleaseReview(w)
  BY <1>13, <1>c, DropsClaims, CallEnds DEF MarkProcessed, ReleaseReview
<1>14. CASE UndoReview(w)
  <2>1. w # analyst
    BY <1>14, <1>a DEF UndoReview
  <2>2. StateSettles
    BY <1>14, EdgeSettles DEF UndoReview, StateSettles, Terminal
  <2> QED BY <1>14, <1>b, <2>1, <2>2, CallMoves DEF UndoReview
<1>15. CASE Crash(w)
  BY <1>15, <1>c, DropsClaims, CallEnds DEF Crash
<1> QED
  BY <1>1, <1>2, <1>3, <1>4, <1>5, <1>6, <1>7, <1>8, <1>9, <1>10, <1>11, <1>12, <1>13, <1>14, <1>15

(* send_proposal: a card that was answered for is delivered. *)
LEMMA SendKeepsInv ==
    ASSUME IInv, TypeOK', NEW w \in Workers, SendProposal(w)
    PROVE  IInv'
<1>0. TypeOK /\ WorkerInv(w)
  BY DEF IInv, Inv
<1>1. /\ pc[w] = "send" /\ mine'[w] = 0 /\ cards \subseteq cards'
      /\ pc'[w] \in {"notified", "unsent"}
      /\ pc'[w] = "notified" => mine[w] \in cards'
      /\ \A v \in Workers \ {w} : pc'[v] = pc[v] /\ mine'[v] = mine[v]
      /\ UNCHANGED <<state, active, clear, records, intents, calls, newest, analyst>>
  BY <1>0 DEF SendProposal, TypeOK, proposalVars, worldVars
<1>2. Permitted(w)' = Permitted(w)
  BY <1>1 DEF Permitted, HoldsClaim, Pending
<1>3. w = analyst => pc'[w] \in AnalysisSteps /\ \A e \in Events : records'[e].act = "NONE"
  BY <1>0, <1>1 DEF WorkerInv, AnalysisSteps
<1>4. WorkerInv(w)'
  BY <1>0, <1>1, <1>2, <1>3 DEF WorkerInv
<1>5. ClaimsShrink /\ StateSettles
  BY <1>1, SameRows DEF StateSettles
<1> QED
  BY <1>1, <1>4, <1>5, QuietStep

(* Steps of the clock and of readers. *)
LEMMA ClockKeepsInv ==
    ASSUME IInv, TypeOK',
           \/ ExpireCases \/ CaseExpires
           \/ \E p \in Proposals : ProposalExpires(p)
           \/ \E e \in Events : LeaseExpires(e)
    PROVE  IInv'
<1>0. TypeOK
  BY DEF IInv
<1>1. ClaimsShrink
  <2>1. CASE ExpireCases
    BY <2>1, <1>0, ClosesReviews DEF ExpireCases, Expiry
  <2>2. ASSUME NEW e \in Events, LeaseExpires(e) PROVE ClaimsShrink
    <3>1. \A f \in Events : records[f] \in Records
      BY <1>0 DEF TypeOK
    <3>2. \A f \in Events : records[f].live \/ records[f].by # Nobody => Pending(f)
      BY DEF IInv, Inv, ClaimInv
    <3>3. \A f \in Events : records'[f] = IF f = e THEN [records[f] EXCEPT !.live = FALSE] ELSE records[f]
      BY <1>0, <2>2 DEF LeaseExpires, TypeOK
    <3> QED BY <3>1, <3>2, <3>3 DEF ClaimsShrink, Records, Pending
  <2> QED BY <2>1, <2>2, SameRows DEF CaseExpires, ProposalExpires
<1>2. StateSettles
  BY DEF ExpireCases, Expiry, Expirable, CaseExpires, ProposalExpires, LeaseExpires, StateSettles
<1>3. UNCHANGED <<active, clear, intents, newest, cards, calls, pc, mine, analyst>>
  BY DEF ExpireCases, CaseExpires, ProposalExpires, LeaseExpires, proposalVars, worldVars, callVars
<1> QED
  BY <1>1, <1>2, <1>3, NobodyAssumption, QuietStep

(* save_case: the case is new, so nothing is recorded for it. *)
LEMMA AnalyzeKeepsInv ==
    ASSUME IInv, TypeOK', NEW w \in Workers, AnalyzeCase(w)
    PROVE  IInv'
<1>0. TypeOK
  BY DEF IInv
<1>1. /\ pc[w] = "idle" /\ state = "NONE" /\ state' = "CASE_TRIGGERED" /\ analyst' = w
      /\ pc'[w] = "trigger" /\ \A v \in Workers \ {w} : pc'[v] = pc[v]
      /\ UNCHANGED <<active, clear, records, intents, calls, cards, newest, mine>>
  BY <1>0 DEF AnalyzeCase, TypeOK, proposalVars, worldVars
<1>2. analyst = Nobody /\ calls = 0 /\ \A e \in Events : records[e].act = "NONE"
  BY <1>1 DEF IInv, Inv, CaseInv
<1>3. CaseInv' /\ ClaimInv'
  BY <1>1, <1>2 DEF IInv, Inv, CaseInv, ClaimInv, OneReviewer, Pending
<1>4. ASSUME NEW v \in Workers PROVE WorkerInv(v)'
  <2>1. WorkerInv(v) /\ WorkerInv(w)
    BY DEF IInv, Inv
  <2>2. ~HoldsClaim(v)'
    BY <1>1, <1>2 DEF HoldsClaim, Pending
  <2>3. CASE v = w
    BY <1>1, <1>2, <2>3 DEF WorkerInv, AnalysisSteps
  <2>4. CASE v # w
    BY <1>1, <1>2, <2>1, <2>2, <2>4, NobodyAssumption DEF WorkerInv, Permitted
  <2> QED BY <2>3, <2>4
<1>5. ApprovalInv' /\ WaitingWasShown'
  <2>1. intents = {}
    BY <1>0, <1>2 DEF IInv, Inv, ApprovalInv, TypeOK
  <2> QED BY <1>1, <1>2, <2>1 DEF ApprovalInv, WaitingWasShown
<1> QED
  BY <1>3, <1>4, <1>5 DEF IInv, Inv

(* save_proposal: only the call that may write gets here, and it makes the *)
(* new proposal its own.                                                   *)
LEMMA SaveKeepsInv ==
    ASSUME IInv, TypeOK', NEW w \in Workers, SaveProposal(w)
    PROVE  IInv'
<1>0. TypeOK /\ WorkerInv(w)
  BY DEF IInv, Inv
<1>1. CASE ~(Permitted(w) /\ state \notin Terminal)
  BY <1>1, SameRows, CallMoves
     DEF SaveProposal, StateSettles, proposalVars, worldVars, Steps, AnalysisSteps
<1>2. CASE Permitted(w) /\ state \notin Terminal
  <2>1. /\ pc[w] = "save" /\ active' = made + 1 /\ clear \subseteq clear'
        /\ mine'[w] = made + 1 /\ pc'[w] = "plan"
        /\ \A v \in Workers \ {w} : pc'[v] = pc[v] /\ mine'[v] = mine[v]
        /\ UNCHANGED <<state, records, intents, calls, cards, newest, analyst>>
    BY <1>0, <1>2 DEF SaveProposal, TypeOK, worldVars
  <2>2. state \notin {"WAITING_APPROVAL", "APPROVED", "REJECTED"}
    BY <1>0, <1>2, <2>1 DEF WorkerInv
  <2>3. CaseInv' /\ ClaimInv'
    BY <2>1 DEF IInv, Inv, CaseInv, ClaimInv, OneReviewer, Pending
  <2>4. \A v \in Workers : Permitted(v)' = Permitted(v)
    BY <2>1 DEF Permitted, HoldsClaim, Pending
  <2>5. newest < made + 1 /\ made + 1 # 0
    BY <1>0 DEF TypeOK
  <2>6. ASSUME NEW v \in Workers PROVE WorkerInv(v)'
    <3>1. WorkerInv(v)
      BY DEF IInv, Inv
    <3>2. CASE v = w
      <4>1. w = analyst' => pc'[w] \in AnalysisSteps /\ \A e \in Events : records'[e].act = "NONE"
        BY <1>0, <2>1 DEF WorkerInv, AnalysisSteps
      <4>2. active' > newest'
        BY <1>0, <2>1, <2>5 DEF TypeOK
      <4> QED BY <3>2, <4>1, <4>2, <2>1, <2>2, <2>5 DEF WorkerInv
    <3>3. CASE v # w
      <4>1. ~Permitted(v)'
        BY <1>2, <2>4, <3>3, OnePermitted
      <4> QED BY <3>1, <3>3, <4>1, <2>1 DEF WorkerInv
    <3> QED BY <3>2, <3>3
  <2>7. ApprovalInv' /\ WaitingWasShown'
    BY <1>0, <2>1, <2>2 DEF IInv, Inv, ApprovalInv, WaitingWasShown, TypeOK
  <2> QED BY <2>3, <2>6, <2>7 DEF IInv, Inv
<1> QED
  BY <1>1, <1>2

(* WAITING_APPROVAL: the call that may write has delivered the card of the *)
(* active proposal, and then may write no more.                            *)
LEMMA WaitingKeepsInv ==
    ASSUME IInv, TypeOK', NEW w \in Workers, WaitingApproval(w)
    PROVE  IInv'
<1>0. TypeOK /\ WorkerInv(w)
  BY DEF IInv, Inv
<1>1. CASE ~(Permitted(w) /\ Edge(state, "WAITING_APPROVAL"))
  BY <1>1, SameRows, CallMoves
     DEF WaitingApproval, StateSettles, proposalVars, worldVars, Steps, AnalysisSteps
<1>2. CASE Permitted(w) /\ Edge(state, "WAITING_APPROVAL")
  <2>1. /\ pc[w] = "waiting" /\ state = "NOTIFIED" /\ state' = "WAITING_APPROVAL"
        /\ newest' = active
        /\ \A v \in Workers \ {w} : pc'[v] = pc[v] /\ mine'[v] = mine[v]
        /\ UNCHANGED <<active, clear, records, intents, calls, cards>>
    BY <1>0, <1>2
       DEF WaitingApproval, Edge, Finished, End, Goto, TypeOK, proposalVars, worldVars
  <2>2. active \in cards
    BY <1>0, <1>2, <2>1 DEF WorkerInv
  <2>3. IF w = analyst THEN pc'[w] = "idle" /\ analyst' = Nobody
                       ELSE pc'[w] = "mark" /\ analyst' = analyst
    BY <1>0, <1>2 DEF WaitingApproval, Finished, End, Goto, TypeOK
  <2>4. CaseInv' /\ ClaimInv'
    BY <2>1 DEF IInv, Inv, CaseInv, ClaimInv, OneReviewer, Pending
  <2>5. \A v \in Workers : HoldsClaim(v)' = HoldsClaim(v)
    BY <2>1 DEF HoldsClaim, Pending
  <2>6. ASSUME NEW v \in Workers PROVE WorkerInv(v)'
    <3>1. WorkerInv(v)
      BY DEF IInv, Inv
    <3>2. CASE v = w /\ w = analyst
      <4>1. \A e \in Events : records'[e].by # w
        BY <2>1, <3>2, AnalystHasNoClaim, NobodyAssumption
      <4>2. ~Permitted(w)'
        BY <2>3, <3>2, <4>1, NobodyAssumption DEF Permitted, HoldsClaim
      <4> QED BY <2>3, <3>2, <4>1, <4>2, NobodyAssumption DEF WorkerInv
    <3>3. CASE v = w /\ w # analyst
      BY <2>3, <3>3 DEF WorkerInv
    <3>4. CASE v # w
      <4>1. ~Permitted(v)
        BY <1>2, <3>4, OnePermitted
      <4>2. ~Permitted(v)' /\ v # analyst'
        BY <2>3, <2>5, <4>1, NobodyAssumption DEF Permitted
      <4> QED BY <2>1, <3>1, <3>4, <4>1, <4>2 DEF WorkerInv, Permitted
    <3> QED BY <3>2, <3>3, <3>4
  <2>7. ApprovalInv' /\ WaitingWasShown'
    BY <1>0, <2>1, <2>2 DEF IInv, Inv, ApprovalInv, WaitingWasShown, TypeOK
  <2> QED BY <2>4, <2>6, <2>7 DEF IInv, Inv
<1> QED
  BY <1>1, <1>2

(* claim_codex_review: no other lease runs, and the call had no claim. *)
LEMMA ClaimKeepsInv ==
    ASSUME IInv, TypeOK', NEW w \in Workers, ClaimReview(w)
    PROVE  IInv'
<1>0. TypeOK /\ WorkerInv(w) /\ pc[w] = "claim" /\ w # analyst
  BY DEF IInv, Inv, ClaimReview, WorkerInv, AnalysisSteps
<1>a. \A e \in Events : records[e].by # w
  BY <1>0 DEF WorkerInv
<1>1. CASE UNCHANGED records /\ End(w)
  BY <1>1, <1>a, SameRows, CallEnds DEF ClaimReview, StateSettles, proposalVars, worldVars
<1>2. ASSUME NEW e \in Events, Pending(e), state = "MANUAL", ~Busy, Goto(w, "check"),
             records' = [records EXCEPT ![e].by = w, ![e].live = TRUE]
      PROVE  IInv'
  <2>1. /\ pc'[w] = "check" /\ \A v \in Workers \ {w} : pc'[v] = pc[v]
        /\ UNCHANGED <<state, active, clear, intents, calls, cards, newest, analyst, mine>>
    BY <1>0, <1>2 DEF ClaimReview, Goto, TypeOK, proposalVars, worldVars
  <2>2. \A f \in Events : records[f] \in Records
    BY <1>0 DEF TypeOK
  <2>3. /\ records'[e] = [records[e] EXCEPT !.by = w, !.live = TRUE]
        /\ \A f \in Events \ {e} : records'[f] = records[f]
    BY <1>0, <1>2 DEF TypeOK
  <2>4. /\ records'[e].act = records[e].act /\ records'[e].prop = records[e].prop
        /\ records'[e].done = records[e].done /\ records'[e].by = w /\ records'[e].live
    BY <2>2, <2>3 DEF Records
  <2>5. \A f \in Events : Pending(f)' = Pending(f) /\ records'[f].act = records[f].act
    BY <2>3, <2>4 DEF Pending
  <2>6. \A f \in Events : ~records[f].live
    BY <1>2 DEF Busy, IInv, Inv, ClaimInv
  <2>7. analyst \notin Workers
    BY <1>2 DEF IInv, Inv, WorkerInv, Pending
  <2>8. CaseInv'
    BY <1>2, <2>1, <2>5 DEF IInv, Inv, CaseInv
  <2>9. ClaimInv'
    <3>1. \A f \in Events : records'[f].live \/ records'[f].by # Nobody => Pending(f)'
      BY <1>2, <2>3, <2>5 DEF IInv, Inv, ClaimInv
    <3>2. \A f, g \in Events : records'[f].by = records'[g].by /\ records'[f].by # Nobody => f = g
      <4>1. \A f \in Events \ {e} : records'[f].by = records[f].by /\ records'[f].by # w
        BY <1>a, <2>3
      <4>2. \A f, g \in Events : records[f].by = records[g].by /\ records[f].by # Nobody => f = g
        BY DEF IInv, Inv, ClaimInv
      <4> QED BY <2>4, <4>1, <4>2
    <3>3. OneReviewer'
      BY <2>3, <2>6 DEF OneReviewer
    <3> QED BY <3>1, <3>2, <3>3 DEF ClaimInv
  <2>10. ASSUME NEW v \in Workers PROVE WorkerInv(v)'
    <3>1. WorkerInv(v)
      BY DEF IInv, Inv
    <3>2. CASE v = w
      BY <1>2, <2>1, <2>7, <3>2 DEF WorkerInv
    <3>3. CASE v # w
      <4>1. ~Permitted(v)'
        BY <2>1, <2>3, <2>4, <2>6, <2>7, <3>3 DEF Permitted, HoldsClaim
      <4>2. pc'[v] \in {"idle", "queue", "claim"} => \A f \in Events : records'[f].by # v
        BY <2>1, <2>3, <2>4, <3>1, <3>3 DEF WorkerInv
      <4> QED BY <2>1, <2>7, <3>1, <3>3, <4>1, <4>2 DEF WorkerInv
    <3> QED BY <3>2, <3>3
  <2>11. ApprovalInv' /\ WaitingWasShown'
    <3>1. \A f \in Events : records'[f].prop = records[f].prop
      BY <2>3, <2>4
    <3>2. intents \subseteq Events
      BY <1>0 DEF TypeOK
    <3> QED BY <2>1, <2>5, <3>1, <3>2 DEF IInv, Inv, ApprovalInv, WaitingWasShown
  <2> QED BY <2>8, <2>9, <2>10, <2>11 DEF IInv, Inv
<1> QED
  BY <1>1, <1>2 DEF ClaimReview

(* record_callback: the operator decides on what he was shown. *)
LEMMA CallbackKeepsInv ==
    ASSUME IInv, TypeOK', NEW e \in Events, NEW act \in DOMAIN Result, NEW p \in Proposals,
           RecordCallback(e, act, p)
    PROVE  IInv'
<1>0. TypeOK
  BY DEF IInv
<1>1. UNCHANGED <<active, clear, intents, calls, cards, newest, pc, mine, analyst>>
  BY DEF RecordCallback, proposalVars, worldVars, callVars
<1>2. CASE over \/ p \in lapsed
  <2>1. UNCHANGED records /\ StateSettles
    BY <1>2, EdgeSettles DEF RecordCallback, StateSettles
  <2> QED BY <1>1, <2>1, SameRows, NobodyAssumption, QuietStep
<1>3. CASE ~(over \/ p \in lapsed)
  <2>1. /\ state = "WAITING_APPROVAL" /\ state' = Result[act]
        /\ act = "APPROVE" => p \in clear
        /\ p = active /\ p \in cards /\ records[e].act = "NONE"
        /\ \A f \in Events \ {e} : records'[f] = records[f]
    BY <1>0, <1>3 DEF RecordCallback, Current, TypeOK
  <2>2. /\ records'[e].act = act /\ records'[e].prop = p
        /\ records'[e].by = Nobody /\ ~records'[e].live
    <3>1. PICK n : records' = [records EXCEPT ![e] =
                                 [NoRecord EXCEPT !.act = act, !.prop = p, !.no = n]]
      BY <1>3 DEF RecordCallback
    <3>2. records'[e] = [NoRecord EXCEPT !.act = act, !.prop = p, !.no = n]
      BY <1>0, <3>1 DEF TypeOK
    <3> QED BY <3>2 DEF NoRecord
  <2>3. \A f \in Events : records[f].act # "APPROVE"
    BY <2>1 DEF IInv, Inv, ApprovalInv
  <2>4. intents = {}
    BY <1>0, <2>3 DEF IInv, Inv, ApprovalInv, TypeOK
  <2>5. analyst \notin Workers
    BY <2>1 DEF IInv, Inv, WorkerInv, Permitted, AnalysisSteps
  <2>6. state' \in {"APPROVED", "REJECTED", "MANUAL"} /\ (state' = "APPROVED" <=> act = "APPROVE")
    BY <2>1 DEF Result
  <2>7. CaseInv'
    BY <1>1, <2>6 DEF IInv, Inv, CaseInv
  <2>8. ClaimInv'
    <3>1. records[e].by = Nobody /\ ~records[e].live
      BY <2>1 DEF IInv, Inv, ClaimInv, Pending
    <3>2. \A f \in Events : records'[f].live \/ records'[f].by # Nobody => f # e /\ Pending(f)'
      BY <2>1, <2>2 DEF IInv, Inv, ClaimInv, Pending
    <3>3. \A f, g \in Events : records'[f].by = records'[g].by /\ records'[f].by # Nobody => f = g
      BY <2>1, <2>2, <3>2 DEF IInv, Inv, ClaimInv
    <3>4. OneReviewer'
      BY <2>1, <2>2, <3>2 DEF IInv, Inv, ClaimInv, OneReviewer
    <3> QED BY <3>2, <3>3, <3>4 DEF ClaimInv
  <2>9. ASSUME NEW v \in Workers PROVE WorkerInv(v)'
    <3>1. WorkerInv(v)
      BY DEF IInv, Inv
    <3>2. Permitted(v)' => Permitted(v)
      BY <1>1, <2>1, <2>2 DEF Permitted, HoldsClaim, Pending
    <3>3. Permitted(v) => pc[v] = "mark"
      BY <2>1, <3>1 DEF WorkerInv
    <3>4. pc'[v] \in {"idle", "queue", "claim"} => \A f \in Events : records'[f].by # v
      BY <1>1, <2>1, <2>2, <3>1, NobodyAssumption DEF WorkerInv
    <3> QED BY <1>1, <2>5, <3>1, <3>2, <3>3, <3>4 DEF WorkerInv
  <2>10. ApprovalInv'
    BY <1>1, <2>1, <2>2, <2>3, <2>4, <2>6 DEF ApprovalInv
  <2>11. WaitingWasShown'
    BY <2>6 DEF WaitingWasShown
  <2> QED BY <2>7, <2>8, <2>9, <2>10, <2>11 DEF IInv, Inv
<1> QED
  BY <1>2, <1>3

(* build_trade_intent: only the approval gets an intent. *)
LEMMA BuildKeepsInv ==
    ASSUME IInv, TypeOK', NEW e \in Events, BuildIntent(e)
    PROVE  IInv'
<1>1. /\ records[e].act = "APPROVE" /\ intents' = intents \cup {e}
      /\ UNCHANGED <<state, active, clear, records, calls, cards, newest, pc, mine, analyst>>
  BY DEF BuildIntent, proposalVars, callVars
<1>2. CaseInv' /\ ClaimInv' /\ WaitingWasShown'
  BY <1>1 DEF IInv, Inv, CaseInv, ClaimInv, OneReviewer, Pending, WaitingWasShown
<1>3. \A w \in Workers : WorkerInv(w)'
  BY <1>1 DEF IInv, Inv, WorkerInv, Permitted, HoldsClaim, Pending
<1>4. ApprovalInv'
  BY <1>1 DEF IInv, Inv, ApprovalInv
<1> QED
  BY <1>2, <1>3, <1>4 DEF IInv, Inv

(* One step per action, or group of actions, of Next. *)
LEMMA StepInv == IInv /\ [Next]_vars => IInv'
<1> SUFFICES ASSUME IInv, [Next]_vars PROVE IInv'
  OBVIOUS
<1>0. TypeOK'
  BY StepType
<1>1. ASSUME NEW w \in Workers, Analysis(w) \/ Finish(w) \/ Review(w) \/ Crash(w) PROVE IInv'
  BY <1>0, <1>1, AnalyzeKeepsInv, QuietCalls, SaveKeepsInv, SendKeepsInv, WaitingKeepsInv,
     ClaimKeepsInv DEF Analysis, Finish, Review
<1>2. CASE UNCHANGED vars
  BY <1>2 DEF vars, IInv, Inv, TypeOK, CaseInv, ClaimInv, WorkerInv, ApprovalInv, WaitingWasShown,
     OneReviewer, Permitted, HoldsClaim, Pending
<1> QED
  BY <1>0, <1>1, <1>2, ClockKeepsInv, CallbackKeepsInv, BuildKeepsInv DEF Next

-----------------------------------------------------------------------------

(* Every reachable state is well typed: proposals are numbered up to the   *)
(* last one saved, callbacks up to the number of events.                   *)
THEOREM TypeCorrect == Spec => []TypeOK
<1>1. IInv => TypeOK
  BY DEF IInv
<1> QED
  BY <1>1, InitInv, StepInv, PTL DEF Spec

(* An approval stands for the active proposal, whose card was delivered    *)
(* and which nothing blocked, for good, and becomes at most one intent     *)
(* (record_callback, build_trade_intent).                                  *)
THEOREM ApprovalBinds == Spec => []ApprovalBindsProposal
<1>1. IInv => ApprovalBindsProposal
  <2> SUFFICES ASSUME IInv PROVE ApprovalBindsProposal
    OBVIOUS
  <2>1. ApprovalInv /\ intents \subseteq Events
    BY DEF IInv, Inv, TypeOK
  <2>2. Cardinality(intents) <= 1
    <3>1. CASE intents = {}
      BY <3>1, FS_EmptySet
    <3>2. ASSUME NEW e \in intents PROVE Cardinality(intents) <= 1
      <4>1. intents = {e}
        BY <2>1 DEF ApprovalInv
      <4>2. Cardinality({e}) = 1
        BY FS_Singleton
      <4> QED BY <4>1, <4>2
    <3> QED BY <3>1, <3>2
  <2> QED BY <2>1, <2>2 DEF ApprovalInv, ApprovalBindsProposal
<1> QED
  BY <1>1, InitInv, StepInv, PTL DEF Spec

(* A case that waits for approval waits for the proposal on the newest     *)
(* card (_finish, transition).                                             *)
THEOREM WaitsForNewestCard == Spec => []WaitingWasShown
<1>1. IInv => WaitingWasShown
  BY DEF IInv, Inv
<1> QED
  BY <1>1, InitInv, StepInv, PTL DEF Spec

(* Two reviews of the case never both hold a live claim, through expiring  *)
(* leases, crashes and renewals (claim_codex_review, _require_review_claim)*)
THEOREM ReviewersExclude == Spec => []OneReviewer
<1>1. IInv => OneReviewer
  BY DEF IInv, Inv, ClaimInv
<1> QED
  BY <1>1, InitInv, StepInv, PTL DEF Spec

(* The primary provider is asked at most once per case (analyze_case).     *)
THEOREM PrimaryOnce == Spec => []PrimaryCalledOnce
<1>1. IInv => PrimaryCalledOnce
  BY DEF IInv, Inv, CaseInv, PrimaryCalledOnce
<1> QED
  BY <1>1, InitInv, StepInv, PTL DEF Spec

-----------------------------------------------------------------------------

(* What a step does to the case, seen from outside. *)
LEMMA StepShape ==
    ASSUME IInv, [Next]_vars
    PROVE  \/ StateSettles /\ UNCHANGED <<active, newest>>
           \/ state = "NONE" /\ state' = "CASE_TRIGGERED" /\ UNCHANGED newest
           \/ state' = state /\ state # "WAITING_APPROVAL" /\ UNCHANGED newest
           \/ /\ state = "NOTIFIED" /\ state' = "WAITING_APPROVAL"
              /\ active' = active /\ newest' = active /\ active > newest
           \/ /\ state = "WAITING_APPROVAL" /\ state' \in {"APPROVED", "REJECTED", "MANUAL"}
              /\ active \in 1..made /\ UNCHANGED <<active, newest>>
<1> DEFINE Settles == StateSettles /\ UNCHANGED <<active, newest>>
<1> USE DEF proposalVars, worldVars, callVars
<1>1. ASSUME NEW w \in Workers, AnalyzeCase(w)
      PROVE  state = "NONE" /\ state' = "CASE_TRIGGERED" /\ UNCHANGED newest
  BY <1>1 DEF AnalyzeCase
<1>2. ASSUME NEW w \in Workers, SaveProposal(w)
      PROVE  Settles \/ (state' = state /\ state # "WAITING_APPROVAL" /\ UNCHANGED newest)
  <2>1. Permitted(w) => state # "WAITING_APPROVAL"
    BY <1>2 DEF SaveProposal, IInv, Inv, WorkerInv
  <2> QED BY <1>2, <2>1 DEF SaveProposal, StateSettles
<1>3. ASSUME NEW w \in Workers, WaitingApproval(w)
      PROVE  \/ Settles
             \/ /\ state = "NOTIFIED" /\ state' = "WAITING_APPROVAL"
                /\ active' = active /\ newest' = active /\ active > newest
  <2>1. Permitted(w) => active > newest
    BY <1>3 DEF WaitingApproval, IInv, Inv, WorkerInv
  <2> QED BY <1>3, <2>1 DEF WaitingApproval, StateSettles, Edge
<1>4. ASSUME NEW e \in Events, NEW act \in DOMAIN Result, NEW p \in Proposals,
             RecordCallback(e, act, p)
      PROVE  \/ Settles
             \/ /\ state = "WAITING_APPROVAL" /\ state' \in {"APPROVED", "REJECTED", "MANUAL"}
                /\ active \in 1..made /\ UNCHANGED <<active, newest>>
  <2>1. p = active /\ p \in 1..made /\ UNCHANGED <<active, newest>>
    BY <1>4 DEF RecordCallback, Current, IInv, TypeOK
  <2>2. CASE over \/ p \in lapsed
    BY <1>4, <2>1, <2>2, EdgeSettles DEF RecordCallback, StateSettles
  <2>3. CASE ~(over \/ p \in lapsed)
    BY <1>4, <2>1, <2>3 DEF RecordCallback, Result
  <2> QED BY <2>2, <2>3
<1>5. ASSUME NEW w \in Workers,
             \/ StartAnalysis(w) \/ PlanReady(w) \/ Notified(w) \/ Unsent(w)
             \/ Recover(w) \/ CheckReview(w)
      PROVE  Settles
  BY <1>5, EdgeSettles
     DEF StartAnalysis, PlanReady, Notified, Unsent, Recover, CheckReview, Moves, StateSettles
<1>6. ASSUME NEW w \in Workers, Cancelled(w) \/ UndoReview(w) \/ QueueReviews(w)
      PROVE  Settles
  <2>1. CASE Cancelled(w)
    BY <2>1, EdgeSettles DEF Cancelled, StateSettles, Terminal
  <2>2. CASE UndoReview(w)
    BY <2>2, EdgeSettles DEF UndoReview, StateSettles, Terminal
  <2>3. CASE QueueReviews(w)
    BY <2>3 DEF QueueReviews, StateSettles, Terminal
  <2> QED BY <1>6, <2>1, <2>2, <2>3
<1>7. ASSUME NEW w \in Workers,
             \/ AnalysisReturns(w) \/ Compile(w) \/ SendProposal(w) \/ ClaimReview(w)
             \/ ReviewReturns(w) \/ MarkProcessed(w) \/ ReleaseReview(w) \/ Crash(w)
      PROVE  Settles
  BY <1>7 DEF AnalysisReturns, Compile, SendProposal, ClaimReview, ReviewReturns, MarkProcessed,
     ReleaseReview, Crash, StateSettles
<1>8. ASSUME ExpireCases \/ \E w \in Workers : ProcessReviews(w) PROVE Settles
  BY <1>8 DEF ExpireCases, ProcessReviews, Expiry, Expirable, StateSettles
<1>9. ASSUME \/ CaseExpires \/ UNCHANGED vars
             \/ \E p \in Proposals : ProposalExpires(p)
             \/ \E e \in Events : BuildIntent(e) \/ LeaseExpires(e)
      PROVE  Settles
  BY <1>9 DEF CaseExpires, ProposalExpires, BuildIntent, LeaseExpires, vars, StateSettles
<1> HIDE DEF Settles
<1>10. ASSUME NEW w \in Workers, Analysis(w) \/ Finish(w) \/ Review(w) \/ Crash(w)
       PROVE  \/ Settles \/ AnalyzeCase(w) \/ SaveProposal(w) \/ WaitingApproval(w)
  BY <1>5, <1>6, <1>7, <1>8, <1>10 DEF Analysis, Finish, Review
<1> QED
  BY <1>1, <1>2, <1>3, <1>4, <1>8, <1>9, <1>10 DEF Next, Settles

(* The journal implements ApprovalCase: whatever calls, callbacks, leases  *)
(* and crashes do, the operator sees one offer at a time, each newer than  *)
(* the last, decides only what is offered, and the outcome is final.       *)
THEOREM JournalImplementsCase == Spec => ImplementsCase
<1>1. Init => View!Init
  BY DEF Init, View!Init, Offered, Outcome, Terminal
<1>2. IInv /\ [Next]_vars => [View!Next]_View!vars
  <2> SUFFICES ASSUME IInv, [Next]_vars PROVE View!Next \/ UNCHANGED View!vars
    OBVIOUS
  <2> USE DEF Offered, Outcome, Terminal, View!vars
  <2>0. active \in Nat /\ newest \in Nat
    BY DEF IInv, TypeOK
  <2>1. CASE StateSettles /\ UNCHANGED <<active, newest>>
    <3>1. CASE state' = state
      BY <2>1, <3>1
    <3>2. CASE state' = "EXPIRED" /\ state \notin {"NONE"} \cup Terminal
      BY <2>1, <3>2 DEF View!Next, View!Expire
    <3>3. CASE /\ state' \in {"LLM_ANALYZING", "PLAN_READY", "NOTIFIED", "MANUAL"}
               /\ state \notin {"NONE"} \cup Terminal
      BY <2>1, <3>3 DEF View!Next, View!Withdraw
    <3> QED BY <2>1, <3>1, <3>2, <3>3 DEF StateSettles
  <2>2. CASE state = "NONE" /\ state' = "CASE_TRIGGERED" /\ UNCHANGED newest
    BY <2>2
  <2>3. CASE state' = state /\ state # "WAITING_APPROVAL" /\ UNCHANGED newest
    BY <2>3
  <2>4. CASE /\ state = "NOTIFIED" /\ state' = "WAITING_APPROVAL"
             /\ active' = active /\ newest' = active /\ active > newest
    BY <2>4 DEF View!Next, View!Offer
  <2>5. CASE /\ state = "WAITING_APPROVAL" /\ state' \in {"APPROVED", "REJECTED", "MANUAL"}
             /\ active \in 1..made /\ UNCHANGED <<active, newest>>
    <3>1. active # 0
      BY <2>5, <2>0 DEF IInv, TypeOK
    <3> QED BY <2>5, <3>1 DEF View!Next, View!Decide, View!Withdraw
  <2> QED BY <2>1, <2>2, <2>3, <2>4, <2>5, StepShape
<1> QED
  BY <1>1, <1>2, InitInv, StepInv, PTL DEF Spec, ImplementsCase, View!Spec

==============================================================================
