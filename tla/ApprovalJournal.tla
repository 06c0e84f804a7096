--------------------------- MODULE ApprovalJournal ---------------------------
(***************************************************************************)
(* One case of the approval journal: LiveStore (approval/store.py) and the *)
(* calls of TacticalLiveService (decision/service.py) that work on it, the *)
(* analysis that creates the case and the reviews the operator asks for,   *)
(* with the cards and callbacks of approval/feishu.py and callback.py and  *)
(* the intent that execution/intents.py builds from an approval.           *)
(*                                                                         *)
(* Every transaction of the store is one step; a provider or Feishu call   *)
(* is awaited, so anything may happen meanwhile.  Workers are concurrent   *)
(* calls of analyze_case and process_codex_reviews, in one process or in   *)
(* several.  A lease is live or over, a case and a proposal are expired or *)
(* not.  A claim's random token is the worker that drew it: a worker holds *)
(* one at a time and clears it from the row when the call ends.  Proposals *)
(* are numbered in the order they are saved.                               *)
(***************************************************************************)
EXTENDS Naturals, FiniteSets

CONSTANTS
    Workers,        \* concurrent calls of the service
    Events,         \* callback event ids of Feishu
    Nobody,
    MaxProposals    \* bound: proposals saved for the case

ASSUME MaxProposalsAssumption == MaxProposals \in Nat \ {0}
ASSUME NobodyAssumption == Nobody \notin Workers
ASSUME EventsAssumption == IsFiniteSet(Events)

VARIABLES
    state,       \* live_cases.state, or "NONE" before save_case
    active,      \* live_cases.active_proposal_hash, 0 for NULL
    made,        \* proposals 1..made are in trade_proposals
    clear,       \* those without blocked_reasons or requires_manual_review
    records,     \* approval_records by event id
    intents,     \* approval events with a row in live_trade_intents
    over,        \* is the case's TTL over
    lapsed,      \* proposals whose own TTL is over
    cards,       \* proposals whose card the operator can press buttons on
    calls,       \* history: calls of the primary provider
    newest,      \* history: the newest proposal that reached WAITING_APPROVAL
    analyst,     \* the worker whose analyze_case created the case, while it runs
    pc,          \* [Workers -> where the call is]
    mine         \* [Workers -> the proposal it saved and has not sent yet]

vars == <<state, active, made, clear, records, intents, over, lapsed, cards, calls, newest,
          analyst, pc, mine>>
proposalVars == <<active, made, clear>>
worldVars == <<intents, over, lapsed, calls>>
callVars == <<analyst, pc, mine>>

Terminal == {"APPROVED", "REJECTED", "EXPIRED"}
States == {"NONE", "CASE_TRIGGERED", "LLM_ANALYZING", "PLAN_READY", "NOTIFIED",
           "WAITING_APPROVAL", "MANUAL"} \cup Terminal

(* _ACTIONS. *)
Result == [APPROVE |-> "APPROVED", REJECT |-> "REJECTED", MANUAL |-> "MANUAL",
           REQUEST_CODEX_REVIEW |-> "MANUAL"]

Proposals == 1..MaxProposals

(* act and prop as in the row; done is review_processed, by the claim      *)
(* token, live says review_claim_until_ms > now, no is the row's order.    *)
NoRecord == [act |-> "NONE", prop |-> 0, done |-> FALSE, by |-> Nobody, live |-> FALSE, no |-> 0]
Records == [act : DOMAIN Result \cup {"NONE"}, prop : 0..MaxProposals, done : BOOLEAN,
            by : Workers \cup {Nobody}, live : BOOLEAN, no : 0..Cardinality(Events)]

Steps == {"idle", "trigger", "analyse", "queue", "claim", "check", "review", "compile", "save", "plan",
          "send", "unsent", "notified", "waiting", "recover", "undo", "mark", "release"}

TypeOK ==
    /\ state \in States
    /\ active \in 0..made
    /\ made \in 0..MaxProposals
    /\ clear \subseteq 1..made
    /\ records \in [Events -> Records]
    /\ intents \subseteq Events
    /\ over \in BOOLEAN
    /\ lapsed \subseteq 1..made
    /\ cards \subseteq 1..made
    /\ calls \in Nat
    /\ newest \in 0..made
    /\ analyst \in Workers \cup {Nobody}
    /\ pc \in [Workers -> Steps]
    /\ mine \in [Workers -> 0..made]

Init ==
    /\ state = "NONE" /\ active = 0 /\ made = 0 /\ clear = {}
    /\ records = [e \in Events |-> NoRecord]
    /\ intents = {}
    /\ over = FALSE /\ lapsed = {}
    /\ cards = {} /\ calls = 0 /\ newest = 0
    /\ analyst = Nobody
    /\ pc = [w \in Workers |-> "idle"]
    /\ mine = [w \in Workers |-> 0]

-----------------------------------------------------------------------------

(* _EDGES, and EXPIRED from every state that is not terminal. *)
Edge(old, new) ==
    \/ new = "EXPIRED" /\ old \notin Terminal \cup {"NONE"}
    \/ new = "LLM_ANALYZING" /\ old = "CASE_TRIGGERED"
    \/ new = "PLAN_READY" /\ old \in {"LLM_ANALYZING", "MANUAL"}
    \/ new = "NOTIFIED" /\ old = "PLAN_READY"
    \/ new = "WAITING_APPROVAL" /\ old = "NOTIFIED"
    \/ new \in {"APPROVED", "REJECTED"} /\ old = "WAITING_APPROVAL"
    \/ new = "MANUAL" /\ old \in {"CASE_TRIGGERED", "LLM_ANALYZING", "PLAN_READY", "NOTIFIED",
                                  "WAITING_APPROVAL"}

(* A review that was asked for and is not processed. *)
Pending(e) == records[e].act = "REQUEST_CODEX_REVIEW" /\ ~records[e].done

Busy == \E e \in Events : Pending(e) /\ records[e].live

(* _require_review_claim. *)
HoldsClaim(w) == \E e \in Events : Pending(e) /\ records[e].by = w /\ records[e].live

(* The analysis of a new case needs no claim. *)
Permitted(w) == w = analyst \/ HoldsClaim(w)

(* What claim, renew, release and mark do to the rows with w's token. *)
Processed(r) == [r EXCEPT !.done = TRUE, !.by = Nobody, !.live = FALSE]
OnClaim(w, Op(_)) == [e \in Events |-> IF Pending(e) /\ records[e].by = w
                                       THEN Op(records[e]) ELSE records[e]]
Renewed(w) == OnClaim(w, LAMBDA r : [r EXCEPT !.live = TRUE])
Released(w) == OnClaim(w, LAMBDA r : [r EXCEPT !.by = Nobody, !.live = FALSE])
Marked(w) == OnClaim(w, Processed)

Goto(w, step) == pc' = [pc EXCEPT ![w] = step] /\ UNCHANGED <<analyst, mine>>

End(w) ==
    /\ pc' = [pc EXCEPT ![w] = "idle"]
    /\ mine' = [mine EXCEPT ![w] = 0]
    /\ analyst' = IF analyst = w THEN Nobody ELSE analyst

(* transition(): the edge and, in a review, the claim; otherwise it raises *)
(* ValueError and the caller recovers.                                     *)
Moves(w, new, next) ==
    IF Permitted(w) /\ Edge(state, new)
    THEN state' = new /\ Goto(w, next)
    ELSE Goto(w, "recover") /\ UNCHANGED state

-----------------------------------------------------------------------------

(* Mutant: a case that is known already is analysed again. *)
AnalyzeCaseAgain(w) ==
    /\ pc[w] = "idle"
    /\ ~over
    /\ state' = "CASE_TRIGGERED"
    /\ analyst' = w
    /\ pc' = [pc EXCEPT ![w] = "trigger"]
    /\ UNCHANGED <<proposalVars, records, worldVars, cards, newest, mine>>

(* analyze_case of a fresh case: only the call that inserts the row goes   *)
(* on, any other returns the active proposal.                              *)
AnalyzeCase(w) ==
    /\ pc[w] = "idle"
    /\ ~over
    /\ state = "NONE"
    /\ state' = "CASE_TRIGGERED"
    /\ analyst' = w
    /\ pc' = [pc EXCEPT ![w] = "trigger"]
    /\ UNCHANGED <<proposalVars, records, worldVars, cards, newest, mine>>

(* This transition is outside the try: when the case has expired the call  *)
(* just raises.                                                            *)
StartAnalysis(w) ==
    /\ pc[w] = "trigger"
    /\ IF Edge(state, "LLM_ANALYZING")
       THEN state' = "LLM_ANALYZING" /\ calls' = calls + 1 /\ Goto(w, "analyse")
       ELSE End(w) /\ UNCHANGED <<state, calls>>
    /\ UNCHANGED <<proposalVars, records, intents, over, lapsed, cards, newest>>

(* _analyze never raises: a provider failure is a blocking result. *)
AnalysisReturns(w) ==
    /\ pc[w] = "analyse"
    /\ Goto(w, "compile")
    /\ UNCHANGED <<state, proposalVars, records, worldVars, cards, newest>>

(* RiskCompilerV1.compile refuses a stale case. *)
Compile(w) ==
    /\ pc[w] = "compile"
    /\ Goto(w, IF over THEN "recover" ELSE "save")
    /\ UNCHANGED <<state, proposalVars, records, worldVars, cards, newest>>

(* save_proposal: the new proposal becomes the active one.  Whether it may *)
(* be approved was decided by fusion and compiler.                         *)
SaveProposal(w) ==
    /\ pc[w] = "save"
    /\ IF Permitted(w) /\ state \notin Terminal
       THEN /\ made < MaxProposals
            /\ made' = made + 1
            /\ active' = made + 1
            /\ clear' \in {clear, clear \cup {made + 1}}
            /\ mine' = [mine EXCEPT ![w] = made + 1]
            /\ pc' = [pc EXCEPT ![w] = "plan"]
            /\ UNCHANGED analyst
       ELSE Goto(w, "recover") /\ UNCHANGED proposalVars
    /\ UNCHANGED <<state, records, worldVars, cards, newest>>

PlanReady(w) ==
    /\ pc[w] = "plan"
    /\ Moves(w, "PLAN_READY", "send")
    /\ UNCHANGED <<proposalVars, records, worldVars, cards, newest>>

(* send_proposal: with an answer the operator has the card, without one he *)
(* may have it.  Without a notifier the call goes on as after a failure.   *)
SendProposal(w) ==
    /\ pc[w] = "send"
    /\ \/ cards' = cards \cup {mine[w]} /\ pc' = [pc EXCEPT ![w] = "notified"]
       \/ cards' \in {cards, cards \cup {mine[w]}} /\ pc' = [pc EXCEPT ![w] = "unsent"]
    /\ mine' = [mine EXCEPT ![w] = 0]
    /\ UNCHANGED <<state, proposalVars, records, worldVars, newest, analyst>>

(* Where a call goes after _finish. *)
Finished(w) == IF w = analyst THEN End(w) ELSE Goto(w, "mark")

(* Mutant: a card that could not be sent counts as sent. *)
UnsentIgnored(w) ==
    /\ pc[w] = "unsent"
    /\ Goto(w, "notified")
    /\ UNCHANGED <<state, proposalVars, records, worldVars, cards, newest>>

Unsent(w) ==
    /\ pc[w] = "unsent"
    /\ IF Permitted(w) /\ Edge(state, "MANUAL")
       THEN state' = "MANUAL" /\ Finished(w)
       ELSE Goto(w, "recover") /\ UNCHANGED state
    /\ UNCHANGED <<proposalVars, records, worldVars, cards, newest>>

Notified(w) ==
    /\ pc[w] = "notified"
    /\ Moves(w, "NOTIFIED", "waiting")
    /\ UNCHANGED <<proposalVars, records, worldVars, cards, newest>>

WaitingApproval(w) ==
    /\ pc[w] = "waiting"
    /\ IF Permitted(w) /\ Edge(state, "WAITING_APPROVAL")
       THEN state' = "WAITING_APPROVAL" /\ newest' = active /\ Finished(w)
       ELSE Goto(w, "recover") /\ UNCHANGED <<state, newest>>
    /\ UNCHANGED <<proposalVars, records, worldVars, cards>>

-----------------------------------------------------------------------------

(* Mutant: abandoned analyses are overlooked. *)
ExpirableWaiting ==
    /\ state = "WAITING_APPROVAL"
    /\ over \/ active \in lapsed

(* Mutant: decided cases expire too. *)
ExpirableDecided ==
    /\ state \notin {"EXPIRED", "NONE"}
    /\ over \/ (state = "WAITING_APPROVAL" /\ active \in lapsed)

(* expire_cases: the case's own TTL, or its proposal's while it waits. *)
Expirable ==
    /\ state \notin Terminal \cup {"NONE"}
    /\ over \/ (state = "WAITING_APPROVAL" /\ active \in lapsed)

Expiry ==
    IF Expirable
    THEN /\ state' = "EXPIRED"
         /\ records' = [e \in Events |-> IF records[e].act = "REQUEST_CODEX_REVIEW"
                                         THEN Processed(records[e]) ELSE records[e]]
    ELSE UNCHANGED <<state, records>>

(* expire_cases on behalf of another case or of a reader (decision/api.py).*)
ExpireCases ==
    /\ Expirable
    /\ Expiry
    /\ UNCHANGED <<proposalVars, worldVars, cards, newest, callVars>>

(* process_codex_reviews. *)
ProcessReviews(w) ==
    /\ pc[w] = "idle"
    /\ state # "NONE"
    /\ Expiry
    /\ Goto(w, "queue")
    /\ UNCHANGED <<proposalVars, worldVars, cards, newest>>

(* A review whose outcome another review has replaced. *)
Superseded(e) ==
    /\ Pending(e) /\ records[e].prop # active
    /\ \/ state \in {"WAITING_APPROVAL", "APPROVED", "REJECTED"}
       \/ /\ state = "MANUAL"
          /\ \E n \in Events : Pending(n) /\ records[n].prop = active
                               /\ records[n].no > records[e].no

(* queued_codex_reviews: superseded reviews are closed, an interrupted one *)
(* goes back to MANUAL, and the case is listed if a review may be claimed. *)
QueueReviews(w) ==
    LET left == {e \in Events : Pending(e) /\ ~Superseded(e)}
        free == left # {} /\ \A e \in left : ~records[e].live
        interrupted == state \in {"PLAN_READY", "NOTIFIED"} /\ free
        listed == free /\ (state = "MANUAL" \/ interrupted) IN
    /\ pc[w] = "queue"
    /\ records' = [e \in Events |-> IF Superseded(e) THEN Processed(records[e]) ELSE records[e]]
    /\ state' = IF interrupted THEN "MANUAL" ELSE state
    /\ IF listed THEN Goto(w, "claim") ELSE End(w)
    /\ UNCHANGED <<proposalVars, worldVars, cards, newest>>

(* Mutant: only the review to be claimed is looked at. *)
ClaimReviewUnlessLive(w) ==
    /\ pc[w] = "claim"
    /\ LET waiting == {e \in Events : Pending(e) /\ ~records[e].live} IN
       IF state = "MANUAL" /\ waiting # {}
       THEN \E e \in waiting :
               /\ \A f \in waiting : records[e].no <= records[f].no
               /\ records' = [records EXCEPT ![e].by = w, ![e].live = TRUE]
               /\ Goto(w, "check")
       ELSE End(w) /\ UNCHANGED records
    /\ UNCHANGED <<state, proposalVars, worldVars, cards, newest>>

(* claim_codex_review: the oldest review, unless any review is claimed. *)
ClaimReview(w) ==
    /\ pc[w] = "claim"
    /\ IF state = "MANUAL" /\ ~Busy /\ (\E e \in Events : Pending(e))
       THEN \E e \in Events :
               /\ Pending(e)
               /\ \A f \in Events : Pending(f) => records[e].no <= records[f].no
               /\ records' = [records EXCEPT ![e].by = w, ![e].live = TRUE]
               /\ Goto(w, "check")
       ELSE End(w) /\ UNCHANGED records
    /\ UNCHANGED <<state, proposalVars, worldVars, cards, newest>>

(* Once claimed, an expired case is closed; otherwise the secondary        *)
(* provider is asked.  The primary's analysis is there: only a finished    *)
(* analysis can be waited for.                                             *)
CheckReview(w) ==
    /\ pc[w] = "check"
    /\ IF ~over
       THEN Goto(w, "review") /\ UNCHANGED <<state, records>>
       ELSE IF HoldsClaim(w) /\ Edge(state, "EXPIRED")
       THEN state' = "EXPIRED" /\ records' = Marked(w) /\ End(w)
       ELSE Goto(w, "recover") /\ UNCHANGED <<state, records>>
    /\ UNCHANGED <<proposalVars, worldVars, cards, newest>>

(* The answer only counts while the claim can be renewed. *)
ReviewReturns(w) ==
    /\ pc[w] = "review"
    /\ IF HoldsClaim(w)
       THEN records' = Renewed(w) /\ Goto(w, "compile")
       ELSE Goto(w, "release") /\ UNCHANGED records
    /\ UNCHANGED <<state, proposalVars, worldVars, cards, newest>>

MarkProcessed(w) ==
    /\ pc[w] = "mark"
    /\ records' = Marked(w)
    /\ End(w)
    /\ UNCHANGED <<state, proposalVars, worldVars, cards, newest>>

ReleaseReview(w) ==
    /\ pc[w] = "release"
    /\ records' = Released(w)
    /\ End(w)
    /\ UNCHANGED <<state, proposalVars, worldVars, cards, newest>>

(* The except clauses.  An analysis leaves the case EXPIRED or MANUAL; a   *)
(* review first has to renew its claim.                                    *)
Recover(w) ==
    /\ pc[w] = "recover"
    /\ IF w = analyst
       THEN LET target == IF over THEN "EXPIRED" ELSE "MANUAL" IN
            /\ state' = IF Edge(state, target) THEN target ELSE state
            /\ End(w)
            /\ UNCHANGED records
       ELSE /\ UNCHANGED state
            /\ IF HoldsClaim(w)
               THEN records' = Renewed(w) /\ Goto(w, "undo")
               ELSE Goto(w, "release") /\ UNCHANGED records
    /\ UNCHANGED <<proposalVars, worldVars, cards, newest>>

UndoReview(w) ==
    /\ pc[w] = "undo"
    /\ IF HoldsClaim(w) /\ over /\ Edge(state, "EXPIRED")
       THEN state' = "EXPIRED" /\ Goto(w, "mark")
       ELSE /\ state' = IF HoldsClaim(w) /\ ~over /\ state \in {"PLAN_READY", "NOTIFIED"}
                        THEN "MANUAL" ELSE state
            /\ Goto(w, "release")
    /\ UNCHANGED <<proposalVars, records, worldVars, cards, newest>>

(* CancelledError at an await; a card that was being sent may arrive. *)
Cancelled(w) ==
    /\ pc[w] \in {"analyse", "review", "send"}
    /\ cards' \in {cards, IF pc[w] = "send" THEN cards \cup {mine[w]} ELSE cards}
    /\ IF w = analyst
       THEN /\ state' = IF Edge(state, "MANUAL") THEN "MANUAL" ELSE state
            /\ End(w)
       ELSE /\ state' = IF state \in {"PLAN_READY", "NOTIFIED"} /\ HoldsClaim(w)
                        THEN "MANUAL" ELSE state
            /\ Goto(w, "release")
    /\ UNCHANGED <<proposalVars, records, worldVars, newest>>

-----------------------------------------------------------------------------

(* Mutant: a card is obeyed although a newer proposal is active. *)
CurrentAny(p) == p \in 1..made

(* The callback names the active proposal. *)
Current(p) == p = active

(* record_callback of an event seen for the first time; a repeated one     *)
(* gets the recorded answer, or an error, and changes nothing.             *)
RecordCallback(e, act, p) ==
    /\ records[e].act = "NONE"
    /\ p \in cards
    /\ Current(p)
    /\ IF over \/ p \in lapsed
       THEN /\ Edge(state, "EXPIRED")
            /\ state' = "EXPIRED"
            /\ UNCHANGED records
       ELSE /\ state = "WAITING_APPROVAL"
            /\ act = "APPROVE" => p \in clear
            /\ state' = Result[act]
            /\ records' = [records EXCEPT ![e] =
                 [NoRecord EXCEPT !.act = act, !.prop = p,
                    !.no = Cardinality({f \in Events : records[f].act # "NONE"}) + 1]]
    /\ UNCHANGED <<proposalVars, worldVars, cards, newest, callVars>>

(* build_trade_intent and save_intent: one row per approval event. *)
BuildIntent(e) ==
    LET p == records[e].prop IN
    /\ records[e].act = "APPROVE"
    /\ p = active /\ p \in clear /\ ~over /\ p \notin lapsed
    /\ e \notin intents
    /\ intents' = intents \cup {e}
    /\ UNCHANGED <<state, proposalVars, records, over, lapsed, calls, cards, newest, callVars>>

(* The clock: the case's TTL, a proposal's (never longer), a lease. *)
CaseExpires ==
    /\ ~over /\ over' = TRUE
    /\ lapsed' = 1..made
    /\ UNCHANGED <<state, proposalVars, records, intents, calls, cards, newest, callVars>>

ProposalExpires(p) ==
    /\ p \in 1..made \ lapsed
    /\ lapsed' = lapsed \cup {p}
    /\ UNCHANGED <<state, proposalVars, records, intents, over, calls, cards, newest, callVars>>

LeaseExpires(e) ==
    /\ records[e].live
    /\ records' = [records EXCEPT ![e].live = FALSE]
    /\ UNCHANGED <<state, proposalVars, worldVars, cards, newest, callVars>>

(* A process dies: the token is lost, the lease goes on. *)
Crash(w) ==
    /\ pc[w] # "idle"
    /\ End(w)
    /\ records' = OnClaim(w, LAMBDA r : [r EXCEPT !.by = Nobody])
    /\ UNCHANGED <<state, proposalVars, worldVars, cards, newest>>

Analysis(w) == AnalyzeCase(w) \/ StartAnalysis(w) \/ AnalysisReturns(w)

Finish(w) ==
    \/ Compile(w) \/ SaveProposal(w) \/ PlanReady(w) \/ SendProposal(w) \/ Unsent(w)
    \/ Notified(w) \/ WaitingApproval(w) \/ Recover(w) \/ Cancelled(w)

Review(w) ==
    \/ ProcessReviews(w) \/ QueueReviews(w) \/ ClaimReview(w) \/ CheckReview(w)
    \/ ReviewReturns(w) \/ MarkProcessed(w) \/ ReleaseReview(w) \/ UndoReview(w)

Next ==
    \/ \E w \in Workers : Analysis(w) \/ Finish(w) \/ Review(w) \/ Crash(w)
    \/ \E e \in Events, act \in DOMAIN Result, p \in Proposals : RecordCallback(e, act, p)
    \/ \E e \in Events : BuildIntent(e) \/ LeaseExpires(e)
    \/ \E p \in Proposals : ProposalExpires(p)
    \/ ExpireCases \/ CaseExpires

Spec == Init /\ [][Next]_vars

(* Every scan, review round and case query begins with expire_cases.       *)
FairSpec == Spec /\ WF_vars(CaseExpires) /\ WF_vars(ExpireCases)

-----------------------------------------------------------------------------

(* The operator's decision is about what he was shown: an approval stands  *)
(* for the active proposal, whose card was delivered and which nothing     *)
(* blocked, no review that was still running replaces it, and it becomes   *)
(* one intent (record_callback, build_trade_intent).                       *)
ApprovalBindsProposal ==
    /\ \A e \in Events : records[e].act = "APPROVE" =>
          /\ state = "APPROVED"
          /\ records[e].prop = active
          /\ active \in clear \cap cards
    /\ Cardinality(intents) <= 1
    /\ intents # {} => state = "APPROVED"

(* A case that waits for approval waits for the proposal on the newest     *)
(* card, never for one that a late or interrupted review saved silently.   *)
WaitingWasShown == state = "WAITING_APPROVAL" => active \in cards /\ active = newest

(* Two reviews of the case never both hold a live claim, although a new    *)
(* request makes a second row while the first one's lease may still run.   *)
OneReviewer == \A e, f \in Events : records[e].live /\ records[f].live => e = f

(* The primary provider is asked once per case, through crashes, expired   *)
(* leases and retries (runbook: recovers after lease expiry without        *)
(* duplicating primary provider calls).                                    *)
PrimaryCalledOnce == calls <= 1

(* Wherever a call was interrupted, the case comes to an end (expire_cases:*)
(* recover abandoned work at its immutable TTL).                           *)
CaseSettles == state # "NONE" ~> state \in Terminal

(* The journal implements the operator's view of a case. *)
Outcome == IF state \in Terminal THEN state ELSE "OPEN"
Offered == IF state = "WAITING_APPROVAL" THEN active ELSE 0
View == INSTANCE ApprovalCase WITH offer <- Offered, newest <- newest, outcome <- Outcome
ImplementsCase == View!Spec

=============================================================================
