---------------------------- MODULE MCComponents ----------------------------
(***************************************************************************)
(* Components that share no state with each other. One run checks them     *)
(* side by side: the initial state picks a part, and the variables v1, v2, *)
(* ... are the variables of that part's module, in declaration order.      *)
(***************************************************************************)
EXTENDS Naturals, Sequences, FiniteSets

CONSTANTS
    j1, x1, x2,     \* BlindValidation: a job and two executions
    pos,            \* AccountWatch: what a REST read fetches
    p1, p2          \* LifecycleHeads, DbInitializer, ResearchRegistry: processes

VARIABLES
    part, v1, v2, v3, v4, v5, v6, v7, v8, v9, v10, v11, v12, v13, v14, v15

vars == <<part, v1, v2, v3, v4, v5, v6, v7, v8, v9, v10, v11, v12, v13, v14,
          v15>>

Unused == "unused"

(* A breakout, whose plan names its direction and level, and a pullback    *)
(* the other way, whose plan names neither.                                 *)
MarketSetups ==
    {[name |-> "BREAKOUT_RETEST", dir |-> "LONG", anchor |-> 1, level |-> 1, marked |-> TRUE],
     [name |-> "TREND_PULLBACK", dir |-> "SHORT", anchor |-> 2, level |-> 0, marked |-> FALSE]}

(* H40: a run that two processes begin, with and without keys, one whose    *)
(* locked candidate two processes validate or fail, and one that a process  *)
(* takes to its end.                                                        *)
Offer(state, content) == [to |-> state, content |-> content]
LockOffers ==
    <<{Offer("DISCOVERY", 1), Offer("DISCOVERY", 2)}, {Offer("CANDIDATE_LOCKED", 1)}>>
KeyOffers == <<LockOffers[1]>>
FoldOffers ==
    <<{Offer("DISCOVERY", 1)}, {Offer("CANDIDATE_LOCKED", 1)},
      {Offer("WF_VALIDATED", 1), Offer("NO_GO", 1)}>>
ReadyOffers == FoldOffers \o <<{Offer("CONFIRMATION_READY", 1)}, {Offer("NO_GO", 1)}>>
Locked == <<Offer("DISCOVERY", 1), Offer("CANDIDATE_LOCKED", 1)>>

----------------------------------------------------------------------------

Blind == INSTANCE BlindValidation WITH
    LastDay <- 2, MaxVersion <- 2, Jobs <- {j1}, Executions <- {x1, x2},
    OnlyFinalized <- TRUE, MinReady <- 1, MaxFreezes <- 1, OnTime <- {},
    today <- v1, data <- v2, candles <- v3, ledger <- v4, sources <- v5,
    job <- v6, freeze <- v7, freezes <- v8, manifest <- v9, snapshots <- v10,
    committed <- v11, exec <- v12, registry <- v13, receipt <- v14,
    looks <- v15

Refreeze == INSTANCE BlindValidation WITH
    LastDay <- 2, MaxVersion <- 1, Jobs <- {j1}, Executions <- {x1},
    OnlyFinalized <- FALSE, MinReady <- 1, MaxFreezes <- 2, OnTime <- {1, 2},
    today <- v1, data <- v2, candles <- v3, ledger <- v4, sources <- v5,
    job <- v6, freeze <- v7, freezes <- v8, manifest <- v9, snapshots <- v10,
    committed <- v11, exec <- v12, registry <- v13, receipt <- v14,
    looks <- v15

Depth == INSTANCE DepthStream WITH
    Levels <- {1, 2}, Limit <- 1, MaxUpdate <- 3, MaxSessions <- 2,
    MaxDay <- 1,
    changes <- v1, sent <- v2, wire <- v3, day <- v4, session <- v5,
    book <- v6, buffered <- v7, snapshot <- v8, samples <- v9, depths <- v10,
    segments <- v11

Recorder == INSTANCE RecorderLedger WITH
    Streams <- {"depth"}, Day <- 1, LastTime <- 2, Lease <- 1, Grace <- 0,
    MaxRuns <- 3, MaxSessions <- 1,
    now <- v1, run <- v2, runs <- v3, socket <- v4, instances <- v5,
    sessions <- v6, segments <- v7, gaps <- v8, manifest <- v9, dead <- v10

Audit == INSTANCE CoverageAudit WITH
    Day <- 2, Horizon <- 3, Intervals <- {1, 2}, MaxRows <- 2,
    now <- v1, segs <- v2, open <- v3, gaps <- v4, files <- v5, sealed <- v6,
    summary <- v7

Scan == INSTANCE MarketScan WITH
    Setups <- MarketSetups, MaxAge <- 2, MinQuality <- 2, LastBar <- 3,
    bar <- v1, row <- v2, scan <- v3, records <- v4, since <- v5

Watch == INSTANCE AccountWatch WITH
    Items <- {pos}, MaxChanges <- 2, MaxQueue <- 1,
    time <- v1, account <- v2, socket <- v3, queue <- v4, connected <- v5,
    reconciled <- v6, snap <- v7, prior <- v8, rest <- v9, answer <- v10,
    stream <- v11, seen <- v12

Shadow == INSTANCE ShadowResolver WITH
    BarMinutes <- 2, Signal <- 1, EntryBars <- 1, HorizonBars <- 2,
    LastBar <- 2, Ranges <- {<<3, 4>>, <<4, 5>>, <<1, 5>>},
    path <- v1, rec <- v2, lossy <- v3

Lock == INSTANCE LifecycleHeads WITH
    Procs <- {p1, p2}, Offers <- LockOffers, Keyed <- {}, Past <- <<>>,
    MaxReceipts <- 3,
    auth <- v1, job <- v2, linked <- v3, durable <- v4, rooted <- v5,
    legacy <- v6, head <- v7, acked <- v8, lost <- v9

Initializer == INSTANCE DbInitializer WITH
    Procs <- {p1, p2}, Tids <- {1, 2}, MaxDepth <- 2,
    pc <- v1, holder <- v2, count <- v3, owner <- v4, depth <- v5, flock <- v6

Key == INSTANCE LifecycleHeads WITH
    Procs <- {p1, p2}, Offers <- KeyOffers, Keyed <- {1}, Past <- <<>>,
    MaxReceipts <- 2,
    auth <- v1, job <- v2, linked <- v3, durable <- v4, rooted <- v5,
    legacy <- v6, head <- v7, acked <- v8, lost <- v9

Fold == INSTANCE LifecycleHeads WITH
    Procs <- {p1, p2}, Offers <- FoldOffers, Keyed <- {}, Past <- Locked,
    MaxReceipts <- 2,
    auth <- v1, job <- v2, linked <- v3, durable <- v4, rooted <- v5,
    legacy <- v6, head <- v7, acked <- v8, lost <- v9

Ready == INSTANCE LifecycleHeads WITH
    Procs <- {p1}, Offers <- ReadyOffers, Keyed <- {}, Past <- Locked,
    MaxReceipts <- 3,
    auth <- v1, job <- v2, linked <- v3, durable <- v4, rooted <- v5,
    legacy <- v6, head <- v7, acked <- v8, lost <- v9

Registry == INSTANCE ResearchRegistry WITH
    Procs <- {p1, p2}, Revisions <- {1}, Evidence <- {1}, MaxGeneration <- 3,
    file <- v1, durable <- v2, mem <- v3, call <- v4, acked <- v5

----------------------------------------------------------------------------

BlindInit ==
    /\ part = "blind" /\ Blind!Init
BlindNext ==
    /\ part = "blind" /\ Blind!Next
    /\ UNCHANGED part

RefreezeInit ==
    /\ part = "refreeze" /\ Refreeze!Init
RefreezeNext ==
    /\ part = "refreeze" /\ Refreeze!Next
    /\ UNCHANGED part

DepthInit ==
    /\ part = "depth" /\ Depth!Init
    /\ v12 = Unused /\ v13 = Unused /\ v14 = Unused /\ v15 = Unused
DepthNext ==
    /\ part = "depth" /\ Depth!Next
    /\ UNCHANGED <<part, v12, v13, v14, v15>>

RecorderInit ==
    /\ part = "recorder" /\ Recorder!Init
    /\ v11 = Unused /\ v12 = Unused /\ v13 = Unused /\ v14 = Unused
    /\ v15 = Unused
RecorderNext ==
    /\ part = "recorder" /\ Recorder!Next
    /\ UNCHANGED <<part, v11, v12, v13, v14, v15>>

AuditInit ==
    /\ part = "audit" /\ Audit!Init
    /\ v8 = Unused /\ v9 = Unused /\ v10 = Unused /\ v11 = Unused
    /\ v12 = Unused /\ v13 = Unused /\ v14 = Unused /\ v15 = Unused
AuditNext ==
    /\ part = "audit" /\ Audit!Next
    /\ UNCHANGED <<part, v8, v9, v10, v11, v12, v13, v14, v15>>

ScanInit ==
    /\ part = "scan" /\ Scan!Init
    /\ v6 = Unused /\ v7 = Unused /\ v8 = Unused /\ v9 = Unused
    /\ v10 = Unused /\ v11 = Unused /\ v12 = Unused /\ v13 = Unused
    /\ v14 = Unused /\ v15 = Unused
ScanNext ==
    /\ part = "scan" /\ Scan!Next
    /\ UNCHANGED <<part, v6, v7, v8, v9, v10, v11, v12, v13, v14, v15>>

WatchInit ==
    /\ part = "watch" /\ Watch!Init
    /\ v13 = Unused /\ v14 = Unused /\ v15 = Unused
WatchNext ==
    /\ part = "watch" /\ Watch!Next
    /\ UNCHANGED <<part, v13, v14, v15>>

ShadowInit ==
    /\ part = "shadow" /\ Shadow!Init
    /\ v4 = Unused /\ v5 = Unused /\ v6 = Unused /\ v7 = Unused /\ v8 = Unused
    /\ v9 = Unused /\ v10 = Unused /\ v11 = Unused /\ v12 = Unused
    /\ v13 = Unused /\ v14 = Unused /\ v15 = Unused
ShadowNext ==
    /\ part = "shadow" /\ Shadow!Next
    /\ UNCHANGED <<part, v4, v5, v6, v7, v8, v9, v10, v11, v12, v13, v14, v15>>

LockInit ==
    /\ part = "lock" /\ Lock!Init
    /\ v10 = Unused /\ v11 = Unused /\ v12 = Unused /\ v13 = Unused
    /\ v14 = Unused /\ v15 = Unused
LockNext ==
    /\ part = "lock" /\ Lock!Next
    /\ UNCHANGED <<part, v10, v11, v12, v13, v14, v15>>

InitializerInit ==
    /\ part = "initializer" /\ Initializer!Init
    /\ v7 = Unused /\ v8 = Unused /\ v9 = Unused /\ v10 = Unused
    /\ v11 = Unused /\ v12 = Unused /\ v13 = Unused /\ v14 = Unused
    /\ v15 = Unused
InitializerNext ==
    /\ part = "initializer" /\ Initializer!Next
    /\ UNCHANGED <<part, v7, v8, v9, v10, v11, v12, v13, v14, v15>>

KeyInit ==
    /\ part = "key" /\ Key!Init
    /\ v10 = Unused /\ v11 = Unused /\ v12 = Unused /\ v13 = Unused
    /\ v14 = Unused /\ v15 = Unused
KeyNext ==
    /\ part = "key" /\ Key!Next
    /\ UNCHANGED <<part, v10, v11, v12, v13, v14, v15>>

FoldInit ==
    /\ part = "fold" /\ Fold!Init
    /\ v10 = Unused /\ v11 = Unused /\ v12 = Unused /\ v13 = Unused
    /\ v14 = Unused /\ v15 = Unused
FoldNext ==
    /\ part = "fold" /\ Fold!Next
    /\ UNCHANGED <<part, v10, v11, v12, v13, v14, v15>>

ReadyInit ==
    /\ part = "ready" /\ Ready!Init
    /\ v10 = Unused /\ v11 = Unused /\ v12 = Unused /\ v13 = Unused
    /\ v14 = Unused /\ v15 = Unused
ReadyNext ==
    /\ part = "ready" /\ Ready!Next
    /\ UNCHANGED <<part, v10, v11, v12, v13, v14, v15>>

RegistryInit ==
    /\ part = "registry" /\ Registry!Init
    /\ v6 = Unused /\ v7 = Unused /\ v8 = Unused /\ v9 = Unused
    /\ v10 = Unused /\ v11 = Unused /\ v12 = Unused /\ v13 = Unused
    /\ v14 = Unused /\ v15 = Unused
RegistryNext ==
    /\ part = "registry" /\ Registry!Next
    /\ UNCHANGED <<part, v6, v7, v8, v9, v10, v11, v12, v13, v14, v15>>

Init ==
    \/ BlindInit \/ RefreezeInit \/ DepthInit \/ RecorderInit \/ AuditInit
    \/ ScanInit \/ WatchInit \/ ShadowInit \/ LockInit \/ InitializerInit
    \/ KeyInit \/ FoldInit \/ ReadyInit \/ RegistryInit

Next ==
    \/ BlindNext \/ RefreezeNext \/ DepthNext \/ RecorderNext \/ AuditNext
    \/ ScanNext \/ WatchNext \/ ShadowNext \/ LockNext \/ InitializerNext
    \/ KeyNext \/ FoldNext \/ ReadyNext \/ RegistryNext

Spec == Init /\ [][Next]_vars

----------------------------------------------------------------------------

(* H39: the labels are looked at once per execution key, whatever crashes  *)
(* and retries. (reserve_execution)                                        *)
OneLookPerKey == part = "blind" => Blind!OneLookPerKey

(* H39: what is evaluated are the rows the manifest froze.                 *)
(* (execute_one_shot_unblind)                                              *)
EvaluatesFrozenRows == part = "refreeze" => Refreeze!EvaluatesFrozenRows

(* H39: while the sealed files carry their recorded hashes, a ledger row   *)
(* was computed from the present content of its partition.                 *)
(* (accumulate_blind_validation)                                           *)
SealedRowsSound == part = "blind" => Blind!SealedRowsSound

(* Recorder: every recorded book is the exchange's book at its update id,  *)
(* as deep as its snapshot, and a segment that claims one has it, over     *)
(* lost events, late snapshots, reconnects and midnight. (LocalOrderBook,  *)
(* depth_loop, session_end)                                                *)
RecordedBooksAreExact == part = "depth" => Depth!RecordedBooksAreExact

(* Recorder: no row of a sealed partition is ever inserted, closed or      *)
(* carried on. (MicrostructureStore._is_finalized)                         *)
SealedIsFinal == [][part = "recorder" => Recorder!SealedStays]_vars

(* Recorder: a segment of a dead process ends at most one lease after its  *)
(* death. (recover_orphan_instances)                                       *)
CoverageWasAlive == part = "recorder" => Recorder!CoverageWasAlive

(* Recorder: the completeness that status computes from merged intervals,  *)
(* hints and cached summaries is the one of the definition.                *)
(* (MicrostructureStore.status)                                            *)
StatusIsExact == part = "audit" => Audit!StatusIsExact

(* Market watch: a triggered signal has one shadow observation, over       *)
(* crashes and rescans. (record_shadow_observation)                        *)
OneRecordPerTrigger == part = "scan" => Scan!OneRecordPerTrigger

(* Market watch: an armed or triggered signal does not outlive its age     *)
(* limit. (assess_symbol, save_symbol_state)                               *)
SignalsExpire == part = "scan" => Scan!SignalsExpire

(* Market watch: a shadow observation judged NO_FILL had no touch of its   *)
(* entry zone, whatever candles were missing.                              *)
(* (resolve_pending_observations, validate_time_coverage)                  *)
NoFillIsTrue == part = "shadow" => Shadow!NoFillIsTrue

(* Market watch: a shadow observation judged TP1 on complete data was not  *)
(* stopped before. (evaluate_intrabar_path, evaluate_forward_outcomes)     *)
TargetIsEarned == part = "shadow" => Shadow!TargetIsEarned

(* Account watch: a snapshot that new risk is judged by shows the account  *)
(* as the exchange has it. (reconcile_rest, handle_user_event)             *)
TrustedIsCurrent == part = "watch" => Watch!TrustedIsCurrent

(* H40: what a call returned as persisted or restored stays a part of the  *)
(* run's one history, and a termination its end. (_commit_run_head)        *)
AcknowledgedStays ==
    /\ part = "lock" => Lock!AcknowledgedStays
    /\ part = "key" => Key!AcknowledgedStays
    /\ part = "fold" => Fold!AcknowledgedStays
    /\ part = "ready" => Ready!AcknowledgedStays

(* H40: the receipts behind the committed head survive the loss of the     *)
(* host, unless it takes a directory of the run that never reached the     *)
(* disk. (persist_authorization)                                           *)
LineageSurvives ==
    /\ part = "lock" => Lock!LineageSurvives
    /\ part = "key" => Key!LineageSurvives
    /\ part = "fold" => Fold!LineageSurvives
    /\ part = "ready" => Ready!LineageSurvives

(* Live database: one thread of all processes is inside the initializer,   *)
(* and every lock is held by a thread that will let go of it.              *)
(* (SerializedInitializer)                                                 *)
Serialized == part = "initializer" => Initializer!Serialized

(* Research registry: a decision that a commit answered for stays in the   *)
(* chain, whatever other processes commit and whenever the host dies.      *)
(* (_commit)                                                               *)
DecisionsStay == part = "registry" => Registry!DecisionsStay

(* Account watch: every step is one of the promise that LiveRuntime        *)
(* builds on. (AccountAuthority)                                           *)
ImplementsAuthority ==
    /\ part = "watch" => Watch!Authority!AuthorityInit
    /\ [][part = "watch" =>
            [Watch!Authority!AuthorityNext \/ Watch!Authority!Switched]_(Watch!Authority!authorityVars)]_vars

=============================================================================
