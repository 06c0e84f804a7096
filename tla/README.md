# A formal model of btc-quant-agent

TLA+ modules, TLC configurations and TLAPS proofs about the parts of this repository that can be
wrong about *time*. On the live side: the code that gets a decision approved by the operator, turns
it into one order on the exchange, keeps a protective stop behind it, watches the account, and asks
an analysis provider about every change of the position exactly once. On the research side: the
recorder of order books, the market watch, and the stores that must not forget or repeat a decision
(blind validation, lifecycle receipts, research registry). All of it keeps its state in SQLite
databases and files shared by asyncio tasks, threads, processes and process lifetimes, and most of it
talks to services whose answers can be lost.

Contents: [1 the system](#1-the-system) · [2 modules and code](#2-modules-and-code) ·
[3 runs](#3-runs) · [4 fairness](#4-fairness) · [5 what disagrees](#5-where-the-code-and-its-documents-disagree) ·
[6 proofs](#6-proofs) · [7 what is left out](#7-what-is-not-modelled) · [8 plan](#8-plan) ·
[9 how to run](#9-running-the-checks)

Paths below are relative to `src/src/btc_quant_agent/`.

## 1. The system

The package has two halves. The **live half** is a long-lived process with concurrency, persistence,
leases and unreliable requests. The **research half** is mostly batch code: float arithmetic over
frozen datasets, statistics, hashes and manifests, which is out of a model checker's reach. But it
has a core of its own that is not: a recorder that runs for months, a scanner that must not record a
signal twice, and stores in which several processes advance one history.

| component | state it keeps | operations | interacts with |
| --- | --- | --- | --- |
| live runtime (`live_runtime.py`) | tasks, `_order_lock`, `accepting_risk` | 5 s position loop, 30 s REST loop, outbox loop, `execute_intent`, `reconcile_unfinished_intents`, shutdown | everything below |
| decision service (`decision/`) | review leases in the journal | analyse, review, propose | journal, providers |
| approval journal (`approval/store.py`) | cases, proposals, approval events, review queue | transitions, callbacks, claim/finish a review, expiry | decision service, Feishu callbacks, intents |
| intents (`execution/intents.py`) | `live_trade_intents`, append-only `live_intent_transitions` | save, `update_status`, `has_existing_side_effect`, `unfinished_intent_ids` | executor |
| authorization (`execution/authorization.py`) | receipts, `live_execution_claims` | issue, claim, refresh_claimed, consume | executor, backend |
| executor (`execution/executor.py`) | none of its own | `execute_approved_intent`, `reconcile_intent` | validator, authorization, backend |
| backend (`execution/backend.py`) | `live_execution_orders` | `submit_authorized`, `reconcile_authorized`, place/cancel/reconcile the stop | exchange, protection store, kill switch |
| protection store (`execution/protection.py`) | `live_protection_owners` | reserve, next_client_id, pending_exchange_id, record, begin_cancellation, confirm_terminal, clear, release_flat | backend |
| position supervisor (`position_supervisor/supervisor.py`) | position lifecycle, events, `live_position_case_dispatches` | evaluate, `drain_pending_dispatches` | market data, analysis provider |
| kill switch (`position_supervisor/kill_switch.py`) | a latched row | trip, operator reset | validator, backend |
| account watch (`account_watch/`) | snapshots, stream generation, freshness | REST reconcile, stream events, gaps | validator |
| initializer (`live_db.py`) | thread lock, file lock, schema version | serialized schema creation | all stores |
| microstructure recorder (`microstructure.py`) | local order book, daily partitions with sessions, coverage segments, gaps, manifests | depth and trade loops, orphan recovery, sealing, status | exchange streams, H39 |
| H39 blind validation (`microstructure_research.py`, `h39_*`) | ledger, source hashes, freezes, execution registry | accumulate, freeze, one-shot unblind | recorder's partitions |
| market watch (`market_watch/`) | a row per symbol, shadow records, evaluations, alerts | scan, record, resolve pending observations | market data |
| H40 lifecycle authority (`h40/lifecycle_authority.py`) | receipt files, key files, run heads | authorize, persist, restore | research runs |
| research registry (`research_contract/`, `publication.py`) | one file: protocols, evidence, decision events | register, decide, load, commit | economic qualification |

**What is hard here.** (1) *Interleavings*: every store call is one transaction, but every handler is
a chain of transactions and requests run in worker threads, and the loops' lock does not cover a
replayed `execute_intent`. (2) *Lost answers*: a POST that times out may have happened, may happen
later or never. (3) *Crashes* between any two transactions; the process restarts from the database
alone. (4) *Stale reads*: fills, owner rows and lease tokens are read, then used several requests
later. (5) *Leases* that expire while their holder still works. (6) *Things that must eventually
happen*: an uncertain entry resolved, an owner released, an event dispatched, a case closed. (7) *Late
or missing data*: candles and stream events that come after the judgement they belong to. (8) *A host
that dies* between the write of a file and the sync of its directory.

**What makes it correct.** At most one entry order per approval and one exposure on the symbol; no
order that can still fill is ever forgotten; at most one stop, always named by a durable row, never
cancelled twice; `ACTIVE` only for an installed stop; the provider called at most once per event with
the frozen case; an approval stands for the proposal the operator was shown; no late writer undoes what
a newer one recorded; new risk is judged by an account that is current; and everything uncertain is at
last resolved or visibly left to the operator. A recorded book is the exchange's book, as deep as its
snapshot, coverage is not
claimed for time nobody recorded, blind labels are looked at once, a shadow verdict is what the market
did, and what a store answered for stays. `PROJECT.json` lists the hazards one by one with the line
where each bites and the property that would catch it.

## 2. Modules and code

| module | models | one step is |
| --- | --- | --- |
| `PositionOutbox` | the dispatch outbox: `drain_pending_dispatches` and its helpers | one transaction or external call of a drain |
| `EntryPlacement` | `execute_approved_intent`, `reconcile_intent`, `submit_authorized`, `reconcile_authorized` with their stores | one transaction or exchange request of a worker |
| `SymbolExposure` | abstract: what the placement promises about the symbol | |
| `ProtectiveStop` | `ProtectionStore`, `_reconcile_protective_stop`, `_cancel_protective_stop`, `_place_protective_stop` | one transaction or exchange request of a worker |
| `ApprovalJournal` | `LiveStore` and the calls of `TacticalLiveService` on one case | one transaction, provider or Feishu call |
| `ApprovalCase` | abstract: what the operator is promised about a case | |
| `AccountWatch` | `AccountWatch`: REST reads on threads against the user stream | one critical section or one request |
| `AccountAuthority` | abstract: the two flags that new risk is judged by | |
| `LiveRuntime` | start, loops, `execute_intent`, stop, kill switch latch and reset | from one await to the next |
| `BlindValidation` | H39: accumulation, freeze, one-shot execution | one transaction or file access |
| `DepthStream` | `LocalOrderBook`, `depth_loop` and its coverage segments | one message, snapshot, connection or midnight |
| `RecorderLedger` | `MicrostructureStore`'s instances, sessions, segments, seals | one transaction on one partition |
| `CoverageAudit` | `MicrostructureStore.status` | an instant, one row added, a seal, or a status call |
| `MarketScan` | `assess_symbol`, `save_symbol_state`, shadow recording | one transaction of a scan |
| `ShadowResolver` | `resolve_pending_observations` | a minute of the market, or a call up to where it dies |
| `LifecycleHeads` | the lifecycle authority's service and artifact store | one file or database write |
| `DbInitializer` | `SerializedInitializer` | one lock operation |
| `ResearchRegistry` | `ResearchContractRegistry` and `publish_bytes` | one step of a commit |
| `…Proofs` | the theorems of section 6 | |
| `MC…` | instances for TLC | |

`PROJECT.json` maps every definition to the lines it stands for. The conventions are the same
throughout: variables named for the columns or locals they hold, one action per transaction or
request, the guard taken from the code's conditions, the exception paths with everything they write on
the way out, and mutants (definitions introduced by a comment *Mutant:*) next to the definition they
distort. A variable called a *history* is not in the code; it remembers what a property asks about.

**PositionOutbox.** A row per event: `state`, `retries`, the lease (`token`, `left`), the `frozen`
case, the admission, the completion marker. Drains are the concurrent calls of
`drain_pending_dispatches` from the outbox loop, the position loop and startup. A drain claims the
oldest claimable row (or closes a candidate that must not be retried), verifies its authority at two
checkpoints, materializes the case, freezes it, mints the one-shot admission, calls the provider and
completes the row; each checkpoint can find the lease lost. A lease is the time it has left; a random
lease token is the claim's ordinal, which is as unique because a claim also increments `retry_count`;
hashes and identities of rows that nobody but the program writes always match.

**EntryPlacement ⇒ SymbolExposure.** Two or more approved intents on the one configured symbol. The validator is a
gate that may refuse at any time; only what other parts of the model can change is kept of it (kill
switch, flat symbol). A receipt may expire at any check. The claim row is what remembers that an order
may exist, the transition log's latest reason decides whether a pre-entry abort is proven, and
reconciliation upserts what it read even if it is old by then. Inside this module
`_reconcile_protective_stop` is one abstract step (keep, release, or fail); `ProtectiveStop` is the
detail of it. Seen from outside, an entry is unsent, working, a position, or over, and an intent may be
let go of (its owner row released); `SymbolExposure` has the four steps this allows. It lets an intent
go whose entry is a *position*: the symbol was flat when it was queried, and a late fill came before
the owner row was written. A promise that only what is over is let go of would be false (TLC finds the
run); what is kept is that nothing is let go of while it may still fill. For the same reason
`OutcomeIsRecorded` takes a released owner for an answer: an intent let go of by a proven abort is
settled for the program, whether its entry filled late or not.

**ProtectiveStop.** One owner row and the stops of its generations. A client id is a digest of the
owner and the generation, so a stop is named by its generation; the exchange's own id is known to the
row (`exch`) or not. Workers hold a copy of the owner row (`mine`), a target quantity, and what the
exchange answered. The entry fills, ends or is closed at any time; a stop may arrive late or never,
fire, or end by itself. The local variables a call will not read again are cleared (`Kept`), which
changes no behaviour. `MaxGen` bounds the number of stops tried; beyond it a worker fails as it does
when a request fails.

**ApprovalJournal ⇒ ApprovalCase.** One case with its proposals, approval records and review rows, as
rows of different cases never meet. Workers are concurrent calls of `analyze_case` and
`process_codex_reviews`. A call that raises, is cancelled or loses its claim takes the code's recovery
path; a call that dies leaves its lease behind. A lease is live or over, a TTL expired or not; both end
at any time. A card is delivered, lost, or delivered with a lost answer, and a button of any card ever
sent can be pressed. The refinement maps the detailed states to what the operator sees: the proposal on
offer (only while the state is `WAITING_APPROVAL`), the newest one shown, and the outcome.

**AccountWatch ⇒ AccountAuthority ⇐ LiveRuntime.** A REST read fetches the items of the account one
request at a time while events arrive on the socket and other threads mark the stream disconnected; the
generation counter is kept as what it is compared for. `AccountAuthority` is the promise: the stream's
flag is raised by a repair on an open socket only, and what clears it clears the snapshot's flag too.
`AccountWatch` is checked and proved to implement it, and `LiveRuntime` extends it: the runtime is verified against
the promise, not against the implementation. `LiveRuntime` has the start sequence, the REST loop, the
position loop (which ends for good at its first exception), the outbox task, the round of
`reconcile_unfinished_intents` under its lock (which ends at the first intent that raises),
`execute_intent` with its await between two checks, the kill switch, stop and crash.

**BlindValidation.** A partition is the version of its content, a hash is that version, and the evidence
of a slot the versions it was computed from; one slot a day is kept, the first, whose window reaches
into the day before. Partitions change until they are sealed (and, as `SealedRowsSound` allows for,
afterwards: then the recorded hash no longer matches). Executions may die or fail anywhere.

**DepthStream, RecorderLedger, CoverageAudit.** Three views of the recorder. In `DepthStream` the
quantity an update leaves is the number of the update, so two books are equal only if they hold the same
updates; events are lost, packed and overlapped, snapshots are early or late. A snapshot serves the best
`Limit` levels of a side (`depth_loop` asks for 1000), so a level below them is missing from the local
book until it changes: a book is `Exact` when every level it lists is right and every level it lacks
has not changed since a snapshot that did not reach it. The OPEN depth segments are kept with the day of
their partition, because `depth_sequence_state` closes those of every partition and opens one in
today's, while `session_end` closes those of the one partition that holds the session's row. A book
that is synchronised after midnight in a session opened before it therefore leaves its valid segment
OPEN when the socket is closed cleanly, and `RecordedBooksAreExact` names that case. One side of the
book is kept; both go through the same code. `RecorderLedger` keeps
every row with the day of its partition, because every statement of the code reaches one partition only;
runs crash, come back on another day and recover orphans by lease. `CoverageAudit` translates the merged
intervals, bisections, forward-only hints and cached summaries of `status` and compares them with the
definition by instants. `status` looks at the partitions there are, and a partition is made by the
first row of its day (`files`): a day on which the recorder was down has none, its buckets are not
counted, and it lowers no ratio. `StatusIsExact` says so: of the buckets that are over, those of a
day that has a partition are counted, once each, and no others. The windows do not depend on it: their
covered time is counted against the length of the window.

**MarketScan, ShadowResolver.** `MarketScan` has the row of one symbol and a scan that can die between
its transactions; playbooks and scores are any plan they can produce. `ShadowResolver` has one eligible
LONG record, bars of two minutes and minutes of two ticks (an open and an inclusive close), five price
bands, and calls that may find any candles missing and may die after any write.

**LifecycleHeads.** A receipt is the sequence of transitions that leads to it, which is what its hash
chain commits to. Processes authorize in memory, link the receipt file, sync `receipts/`, write the
key file, commit the head by compare-and-swap in SQLite and mirror it to `head.json`; the host may die
and lose directory entries that were not synced. That goes for the directories too: `receipts/` is an
entry of the run's directory, which is synced fail-open only (after a key file and after `head.json`),
and the run's directory is an entry of `runs/`, which nothing syncs. `rooted` holds those whose entry is
on the disk, and the history `lost` says that a host took `receipts/` of a run with a head along.
`LineageSurvives` is what remains true: every receipt behind the head is synced before the head names
it, and survives unless `receipts/` itself is lost; a run whose directories were on the disk at the
start (`Past`) never loses them. Whether a file system makes the entry of a new directory durable
together with the entries in it is not relied on.

**DbInitializer.** The reentrant thread lock of each process, the owner and depth fields of the shared
object, and the file lock, which the kernel frees when a process dies.

**ResearchRegistry.** What each process loaded, the file as processes see it, and the file as a
restarted host finds it. A commit takes the lock, compares generations, replaces the file, syncs the
directory; each step can fail. A later successful sync of the directory is taken to make every earlier
replacement durable.

**How they compose.** `LiveRuntime` builds on `AccountAuthority` by EXTENDS. The other modules of the
live path share interfaces rather than variables: `ApprovalJournal` ends with the intent that
`EntryPlacement` begins with; `LiveRuntime` hands intents over and lets rounds resolve them, which is
what `EntryPlacement` and `ProtectiveStop` detail; `EntryPlacement` assumes of the stop what its
`Protect` and `ReleaseSettled` say. The components of `MCComponents` share nothing: the module
instantiates each over the same variables `v1, v2, …` with a constant `part` that tells which one the
behaviour belongs to, so that its state space is the disjoint union of the parts.

## 3. Runs

All bounds are in the `.cfg` files and in `MCComponents`. State counts are distinct states.

| run | instance | shows | states |
| --- | --- | --- | --- |
| `outbox` | 2 events, 2 drains, 2 cases, lease 1, 2 retries | `AnalysedAtMostOnce`, `DoneWasAnalysed`, `NoForeignAdmission`, `OneAnalyser`, `RowHistoryFinal`, `EventuallyResolved` | 0.62 M |
| `entry_safety` | 2 workers, 2 intents, 1 fill | `EntryPostedOnce`, `OneLiveEntry`, `WorkingIsReconciled`, `ImplementsExposure` | 2.0 M |
| `entry_recovery` | 2 workers, 1 intent, 2 fills | `OutcomeIsRecorded` with partial fills | 0.11 M |
| `entry_abort_releases` | 2 workers, 1 intent | violation of `PreEntryAbortReleases` | |
| `stop_safety` | 2 workers, 2 fills, 2 generations | `LiveStopIsOwned`, `CanceledOnce`, `ActiveWasInstalled` | 3.3 M |
| `stop_settles` | 2 workers, 1 fill, 1 generation | `SettlesWhenFlat` | 0.05 M |
| `stop_stale_release` | 2 workers, 1 fill, 2 generations | violation of `ReleasedIsFlat` | |
| `approval` | 2 calls, 2 callbacks, 2 proposals | `ApprovalBindsProposal`, `WaitingWasShown`, `OneReviewer`, `PrimaryCalledOnce`, `ImplementsCase`, `CaseSettles` | 0.18 M |
| `live_runtime` | 2 intents | `RiskOnlyWhenSound`, `IntentsResolved` | 0.06 M |
| `runtime_stays_blocked` | 1 intent | violation of `RestCycleUnblocks` | |
| `components` | see below | 17 properties of 10 modules | 2.6 M |
| `shadow_timeout` | the `shadow` part | violation of `CompleteWindowResolves` | |

The parts of `components`:

| part | module | instance | properties |
| --- | --- | --- | --- |
| blind | `BlindValidation` | 2 days, 2 versions, 1 job, 2 executions, 1 freeze | `OneLookPerKey`, `SealedRowsSound` |
| refreeze | `BlindValidation` | 2 days, 1 version, 1 job, 1 execution, 2 freezes, active days included | `EvaluatesFrozenRows` |
| depth | `DepthStream` | 2 levels of which a snapshot serves 1, 3 updates, 2 connections, 2 days | `RecordedBooksAreExact` |
| recorder | `RecorderLedger` | 1 stream, days of 1, 3 instants, 3 starts | `SealedIsFinal`, `CoverageWasAlive` |
| audit | `CoverageAudit` | 2 days of 2 instants, each with a partition or without, 2 interval lengths, 2 segments, 2 gaps | `StatusIsExact` |
| scan | `MarketScan` | 2 setups, 3 bars, signals of 2 bars | `OneRecordPerTrigger`, `SignalsExpire` |
| watch | `AccountWatch` | 1 item, 2 changes, 1 queued message | `TrustedIsCurrent`, `ImplementsAuthority` |
| shadow | `ShadowResolver` | bars of 2 minutes, entry window 1, horizon 2 | `NoFillIsTrue`, `TargetIsEarned` |
| lock, key, fold, ready | `LifecycleHeads` | 2 processes begin a run, without and with keys; 2 validate or fail a locked candidate; 1 takes it to its end | `AcknowledgedStays`, `LineageSurvives` |
| initializer | `DbInitializer` | 2 processes of 2 threads, nesting 2 | `Serialized` |
| registry | `ResearchRegistry` | 2 processes, 1 revision, 1 evidence, 3 commits | `DecisionsStay` |

*Why these bounds.* Two workers (drains, calls, processes) are enough for every pairwise race the code
defends against: each defence compares a durable row with what *one* caller read, and crashes supply as
many earlier callers as needed, because a crashed one starts again. Two events or intents give the
interference between rows. Two fills are the smallest entry that can be partly filled, and what makes a
stop the wrong size; two generations (proposals, freezes, connections) the smallest number with a
replacement. Two retries distinguish "retry" from "retries exhausted". Three updates of the exchange
are enough for one before the snapshot, one in it and one lost; two levels of which one is served are
the fewest with a level that the snapshot leaves out. Three starts of the recorder give a
crashed run, its recovery and a run after the seal. Two days are the smallest number with a partition
before the present one. Symmetry is used only for workers and intents, which no operator of the
modules tells apart, and only in runs without liveness properties (`ImplementsExposure` is one of safety).

*Deadlock* is checked except where the system may really come to rest (every event terminal, a case
closed) or where a bound stops it (`components`, `shadow_timeout`).

Each property of a passing run has a mutant in `PROJECT.json`: a plausible error in the code under
which TLC finds it violated (a claim that replaces an older one, a generation that is not compared, a
cancellation that may begin again, a lease end taken from the clock, …).

## 4. Fairness

- **Outbox**: `WF` on each drain's step and on time. `run_position_outbox` drains in a loop, and the
  market and analysis calls carry timeouts, so a drain never stays inside one for ever. Crashes are
  allowed at every step without limit, as retries are bounded.
- **Entry and stop**: `SF` on starting a reconciliation of the intent, because the 30 s REST loop
  starts one for ever. The 5 s position loop is *not* relied on: it ends at its first exception
  (`live_runtime.py:251`). `WF` on a call that has begun: it is awaited, and requests have timeouts.
  `SF` on queries that are repeated every round: the exchange answers one of them now and then.
  Nothing is assumed of a POST or a cancel, which are sent only once, nor of fills, ends and closing
  of positions.
- **Journal**: `WF` on the clock reaching the case's TTL and on `expire_cases`, which every scan, review
  round and case query calls. Nothing is assumed of workers, providers or the operator.
- **Runtime**: `WF` on every step that is due in the loops, in the start and in a round; `SF` on what is
  asked again and again (a REST read, a market scan, the reconciliation of an intent) to succeed some
  time. The REST loop never ends while the process runs: the model has no exception that leaves its
  handler. Nothing is assumed of the kill switch, the operator or the stream.
- **Crashes**: a process may crash and restart any number of times, but at last stays up. Without this
  no liveness property of a restartable process holds.
- Entry liveness is stated for a single unfinished intent; that a round which gives up at the first
  failing intent (`live_runtime.py:164`) still reaches the later ones in the end is `IntentsResolved` of
  `LiveRuntime`.

The parts of `components` have safety properties only and no fairness.

## 5. Where the code and its documents disagree

Four runs are expected to end in a counterexample; `PROJECT.json` quotes the line each contradicts.

1. `entry_abort_releases`: a reconciliation that judged the entry absent before `PRE_ENTRY_ABORTED` was
   written appends `UNKNOWN` after it. The abort is no longer the latest transition, no later
   reconciliation can prove it, the owner stays reserved and blocks the symbol.
2. `stop_stale_release`: `target_qty` takes the minimum of the position and a filled quantity that this
   call read before other reconciliations ran. A stale 0 makes an open position look flat, and its owner
   can be released.
3. `runtime_stays_blocked`: a failed REST read of the loop clears the stream's flag although the socket
   is open; later reads succeed, but only a new connection or a refused message raises it again. The
   runbook says to wait for the next REST cycle.
4. `shadow_timeout`: the window of a filled observation is checked from the inclusive close of the fill
   bar, 1 ms before the first candle opens, so it is never complete and `TIMEOUT` is never reached. The
   test that shows it uses candles that close when the next one opens.

Observations made while modelling, which no run is needed for or which contradict no stated intent:

- *Entry*: after a failed POST a query that finds nothing makes the intent `ABORTED`, although the
  request may still arrive; the durable claim keeps it under reconciliation (`WorkingIsReconciled`). The
  runbook's `UNKNOWN_EXECUTION` does not exist in the code, nor does its emergency order when the POST of
  a stop is lost.
- *H40*: the `NN_name.json` file of a key is written before the head is committed. A process that loses
  the compare-and-swap, or dies in between, leaves a key file that makes every later persist of another
  receipt under that key raise; `head.json` may be older than the head and is never read back. The
  comment at `lifecycle_authority.py:5753` asks for receipt-directory durability before the head commit;
  the sync behind it covers the entries of `receipts/` only, and the host can die after the first
  commits of a run and come back without `receipts/` or without the run's directory, while the database
  names a head.
- *Market watch*: when `klines` fails and the historical fetch answers, a fill may come from a bar that
  is not closed (`shadow.py:509` says only closed candles are used), and a stop later in that bar is
  missed; a death between the write of the fill and of the outcome loses the rest of the fill bar. Both
  are counted as `lossy` in `ShadowResolver`, and `TargetIsEarned` excludes them. A death after
  `resolved = 1` loses the evaluation. A record first looked at 100 bars late lacks its signal bar and can
  never become `NO_FILL`. A signal whose saved direction is stale is exempt from expiry.
- *Recorder*: `recover_orphan_instances` closes only sessions of the same partition; a depth socket that
  is closed cleanly after a midnight on which its book was synchronised anew leaves an OPEN segment with
  `sequence_valid=1` in the later day, which heartbeats carry on although there is no book, until the
  next synchronisation, failure or end of the instance; gaps of length zero never make a bucket
  incomplete; a calendar day without a partition is no part of the `completeness` ratios.
- *Research registry*: after `PublicationUncertain`, repeating `register_experiment` returns the revision
  from memory without a commit, so that answer does not say the file is durable.

## 6. Proofs

TLC settles small instances; the theorems hold for every value of the constants, from the named
assumptions in the modules only (lease time, retries, quantity and generations are positive naturals;
the null values are not members of the sets they are null for), and for `AccountWatch` from the
hypothesis that its bound on changes is a natural number. The theorems about the recorder and the market
watch state their hypotheses themselves: days and bars have a positive length, leases, graces, signal
times, windows and bounds are natural numbers, and the age limit of a signal is positive. Workers, threads, intents and items may be
infinite sets; only the callback events of `ApprovalJournal` are assumed to be finitely many
(`EventsAssumption`), because approval rows are numbered in the order they are saved. The
inductive invariants of the entry, the journal, the runtime, the watch, the scan, the recorder and the
resolver were checked by TLC on small instances before they were proved.

The modules of `MCComponents` are proved about in the proof module named in the table, which instantiates
them with constants and variables of its own; the runs check their properties under the same names.

| module | theorem | property |
| --- | --- | --- |
| `PositionOutboxProofs` | `TypeCorrect` | `TypeOK` |
| | `AtMostOnce` | `AnalysedAtMostOnce` |
| | `DoneIsAnalysed` | `DoneWasAnalysed` |
| | `AdmissionExclusive` | `OneAnalyser` |
| | `AdmissionIsOwn` | `NoForeignAdmission` |
| | `HistoryFinal` | `RowHistoryFinal` |
| `ProtectiveStopProofs` | `TypeCorrect` | `TypeOK` |
| | `StopOwnership` | `LiveStopIsOwned` |
| | `ActiveMeansInstalled` | `ActiveWasInstalled` |
| | `AtMostOneCancel` | `CanceledOnce` |
| `EntryPlacementProofs` | `TypeCorrect` | `TypeOK` |
| | `PostedOnce` | `EntryPostedOnce` |
| | `OneEntryAlive` | `OneLiveEntry` |
| | `ReleasedIsOver` | `ReleasedEntryIsOver` |
| | `WorkingStaysUnfinished` | `WorkingIsReconciled` |
| | `PlacementImplementsExposure` | `ImplementsExposure`, the refinement of `SymbolExposure` |
| `ApprovalJournalProofs` | `TypeCorrect` | `TypeOK` |
| | `ApprovalBinds` | `ApprovalBindsProposal` |
| | `WaitsForNewestCard` | `WaitingWasShown` |
| | `ReviewersExclude` | `OneReviewer` |
| | `PrimaryOnce` | `PrimaryCalledOnce` |
| | `JournalImplementsCase` | `ImplementsCase`, the refinement of `ApprovalCase` |
| `LiveRuntimeProofs` | `TypeCorrect` | `TypeOK` |
| | `RiskNeedsAuthority` | `RiskOnlyWhenSound` |
| | `RoundsExclude` | `RoundHasHolder`: the rounds exclude one another |
| | `RuntimeKeepsPromise` | `AuthoritySpec` of `AccountAuthority` |
| | `InitializerSerializes` | `Serialized` of `DbInitializer` |
| `AccountWatchProofs` | `TypeCorrect` | `TypeOK` of `AccountWatch` |
| | `TrustIsDeserved` | `TrustedIsCurrent` of `AccountWatch` |
| | `WatchImplementsAuthority` | `ImplementsAuthority` of `AccountWatch`, the refinement of `AccountAuthority` |
| | `OneObservationPerSignal` | `OneRecordPerTrigger` of `MarketScan` |
| | `SignalAgeIsBounded` | `SignalsExpire` of `MarketScan`, for an age limit above zero |
| | `UnfilledSignalsHadNoFill` | `NoFillIsTrue` of `ShadowResolver` |
| | `TargetsAreEarned` | `TargetIsEarned` of `ShadowResolver`, where the price does not jump over the entry zone |
| `BlindValidationProofs` | `LooksOnce` | `OneLookPerKey` of `BlindValidation` |
| | `FrozenIsEvaluated` | `EvaluatesFrozenRows` of `BlindValidation` |
| | `SealedRows` | `SealedRowsSound` of `BlindValidation`, with `only_finalized` |
| | `CoverageIsNotInvented` | `CoverageWasAlive` of `RecorderLedger` |
| | `SealedDaysAreFinal` | `SealedIsFinal` of `RecorderLedger` |
| | `DepthBooksAreExact` | `RecordedBooksAreExact` of `DepthStream`, for any limit of the snapshots |
| `ResearchStoreProofs` | `AnsweredDecisionsStay` | `DecisionsStay` of `ResearchRegistry` |
| | `LineageIsDurable` | `LineageSurvives` of `LifecycleHeads`: the receipts behind the head, short of the loss of `receipts/` itself |
| | `AcknowledgedReceiptsStay` | `AcknowledgedStays` of `LifecycleHeads` |
| | `StatusIsAlwaysExact` | `StatusIsExact` of `CoverageAudit`, over the days that have a partition, where every interval divides the day |
| | `GapShortcutsAreExact` | `ShortcutsAreExact`: the gaps of a day, for a window with any start |
| | `HintsSkipNothing` | about `FastHasGap` and `Bisect` of `CoverageAudit` |

**The outbox argument.** That the provider is called once is not inductive: one must know *why* no
second drain gets there. `LeasesDistinct`: a row's token is that of its latest claim and no two drains
hold the same token of a row. `AdmissionPinsLease`: an admitted row keeps the admitting lease until it
is terminal, because the claim transaction closes an admitted candidate instead of taking it over.
`DrainHoldsFrozenCase`: from the freeze on a drain works with the row's case. `CallsMatchAdmission`:
the calls made can be read off the row and the drain past the mint. Together with `TypeOK` these are
inductive; each theorem is a consequence, and `HistoryFinal` uses the same invariant for each action.

**The stop argument.** The invariant (`IInv` in `ProtectiveStopProofs`) has four parts beside types.
`OwnerInv`: what the row says of the exchange: it names its latest generation or none, later
generations were never sent, a known exchange id was answered for, `TERMINAL_CONFIRMED` is over,
`PENDING`/`ACTIVE` was never cancelled. `CallsInv`: what survives in a call although the owner may
have moved on: a copy's generation is not newer than the row's, an id it read stays answered for with
the same quantity, a stop it saw over stays over, a call about to POST still owns the row and nobody
sent its stop, a call about to cancel is the only one entitled to. `Exclusive`: no two calls are about
to POST, or to cancel the same stop. `EntryInv`: the position never exceeds the fills. The proof is
organised by what a step touches: *quiet* steps change only the caller's locals (lemmas `Quiet`,
`QuietGoto`, `QuietReturn`); *owner* steps change the row and rest on `PostOwns`, which says that while
someone is about to POST nobody else can pass an owner's guard (`OwnerStep`); *remote* steps change the
exchange and keep what others know because no answer is ever taken back and nothing comes back to life
(`Others`). Each action then only has to show its own part.

**The entry argument.** That an approved intent is posted once follows from who may still post.
`WorkerInv`: a thread from the claim to the POST (`Holding`) owns the claim of its intent and nothing was
posted for it; from `configure` on it holds the owner row too, and from its forced account read on
(`Past`) no entry of the symbol is alive. A thread that is about to prove an abort or to release works on
an intent whose claim is `Spent`: used up, never posted, and held by nobody who could post. What a thread
read and is about to write was once true (`WasRead`), and a final answer still is: that is why a stale
upsert cannot make `release_flat` let go of a working entry. `IntentInv` says the same of the rows. The
account read alone would not keep two intents apart, since a second thread could read before the first
one posts; `OneHeld` does, as at most one owner row is `HELD` and a thread in `Past` holds it. With
`OneLiveEntry` and `ReleasedEntryIsOver` these are inductive (lemma `MovesKeepInv` for the many steps
that only move one thread, then one lemma per step that changes a row, the exchange, or ends a thread).

The refinement of `SymbolExposure` is read off the same invariant. A step that leaves the exchange and
the released owners alone is not seen (`Unseen`, `OthersUnseen`); a claim's own `reserve_owner` takes an
owner that was `NONE`, so it is one of these. The POST is a `Send` because a thread at `place` is in
`Past` and holds an owner that nobody may take back (`PlaceOrderSends`); what the exchange does by itself
settles a working entry or closes a position and never brings one back (`ExchangeSettles`); and
`release_flat` lets go only of what is not working, since `ReleasedEntryIsOver` holds after the step
(`ReleaseLetsGo`).

**The journal argument.** `CaseInv` ties the state of the case to the proposal on offer and the newest one
shown; `ClaimInv`: a row that has an owner or a live lease is pending, no worker owns two rows, and at
most one lease is live; `WorkerInv`: the one call that may write (`Permitted`: the analyst before any
review, or the holder of the live claim; `OnePermitted`) works on a case nobody waits for, and what it is
about to offer is newer than what was shown. `ApprovalInv`: an approval is of the active proposal,
there is one, and it is final. The refinement needs nothing more: a step that only shrinks claims or
settles the state is a stutter or the abstract end of the case (`ClaimsShrink`, `StateSettles`,
`QuietStep`), and the steps that show a card or record a button press are the abstract ones.

**The runtime argument.** Between the two checks of `execute_intent` anything may happen, so the second
must be enough by itself: it asks for the authority of *now* and for `accepting_risk`, and `AcceptInv`
says what the flag stands for whenever it is up: the process is up and its last start or REST round went
through. `OnlyHandOverAdds` shows that no other step adds an unfinished intent. `RoundHasHolder` follows
`_reconcile_lock` through every exception path. `RuntimeKeepsPromise` is the other half of the
composition with `AccountWatch`: whatever the runtime does to the watch is allowed by `AccountAuthority`
(it rests on `StreamInv`: the stream is off exactly while the other tasks are).

**The watch argument.** A trusted snapshot need not be the account, only the account up to what is still
on the socket, so the invariant speaks of *covering*: a view covers an item when it shows the item's
present value or a message that brings it is waiting, and when it is not behind the last event applied.
`QueueInv`: a message that tells of an old value is followed by one with the new, since everything on the
socket came over it without a gap; this is what makes it harmless that an accepted event can take the
snapshot back to a value older than the one a REST read has seen. `RestInv`: a read that has not been
marked as moved, or that the stream itself has asked for, covers what it has fetched so far; `SnapInv`:
so does the snapshot, once the stream may be joined to it, and so does the copy that `run_user_stream`
writes back without the lock. `PhaseInv` has the order of things (the stream's answer, the read in
progress, the first snapshot). The lemmas `ExchangeCover` and `DuplicateCover` say which steps keep a
cover; `MarkKeeps` that after a disconnection there is nothing left that would need one. TLC settles
the whole invariant for one item, three changes and two waiting messages (9.6 million states).

**The initializer argument.** `Serialized` is two claims, and the second makes the first inductive: every
lock is held by a thread that is at a step where it will let go of it (`NoLockLeaks`). With
`Bookkeeping` (the owner field and the depth are those of the thread that holds the lock) a thread can be
inside only while it holds both locks.

**The registry argument.** The compare-and-swap looks at generations only. `MemoryIsPast`: a process
whose generation is the file's holds the file's content. `Guarded`: what a commit stages extends its
memory, memory is the file from the check until the replacement, and the file is what was staged until
the sync, because only one call is past the check. Hence every replacement extends the file, the file
extends what a restarted host finds, and that extends everything answered.

**The blind validation argument.** A reservation is never taken back and the primary key admits one
execution to it (`Reserved`), hence one look per key. The rows are subtler: between the hash check and
the read a later freeze of the same cutoff may write the snapshot file again. But a ledger row is never
replaced, so every snapshot is part of the ledger (`FreezeInv`) and the file is always the frozen
snapshot and possibly more rows (`Below`); an execution that finds the frozen *number* of ready rows
has found the frozen rows (`SameRows`). `SealedRowsSound` needs the order of a job: it seals the
source, then reads the hash, then the content, so the versions it saw are ordered, and equal as long as
the file still has the sealed hash (`SealInv`). That order protects only sealed partitions, which is why
the theorem assumes `OnlyFinalized`: with `--include-active` a day can be ingested, written to and sealed
afterwards, and TLC finds that run when it is given two versions.

**The lifecycle argument.** A call links and syncs its receipt before it asks for the head (`JobInv`), and
`CommitRunHead` advances by compare-and-swap from the receipt before the new one: the chain of a receipt
is that of the one before it and itself (`ChainGrows`), so the run's history only ever grows by a
synced receipt, and not behind a termination (`EndsOnce`). A host takes synced receipts along only with
`receipts/`, which is what `lost` remembers; a run that begins with its directories on the disk keeps
them there, as nothing but a host death takes a directory out of `rooted`, and `Survives` keeps what is
in it. The theorems assume of the constants what a run
is given: a sequence of sets of transitions, and a past without anything behind a termination.

**The scan argument.** A dedupe marker in the row is only ever set behind the record it stands for
(`MarkersAreRecorded`), because a scan that comes to set it has seen the record; and what a scan holds
while it saves was assessed from the row as it still is (`ScanFollowsRow`). So a crash between the record
and the marker is met by a scan that finds the record, and a second one is never written. A signal expires
because the bar its age is counted from is never moved past the bar since which it is live (`AgeIsKept`),
however often the row is rewritten: the age `assess_symbol` reads is not less than the true one.

**The recorder argument.** No heartbeat is later than the life of its process (`BeatsWereAlive`), and
recovery ends a segment at the last heartbeat and a lease: coverage is bounded by what was alive. That
sealed days are final is about the *next* process: it recovers instances of any partition, and would
write to a sealed one if an instance in an open partition could still reach into it. `SealedIsPast` says
why not: a sealed day is over, none of its sessions is open, and the lease of every instance that
recovery may still reach ends no earlier than the day.

**The depth argument.** Events reach the recorder in the order they were packed, and what is buffered or
in the book is behind what is on the wire (`EventsOK`, `BookOK`). An event whose updates begin at or before
the book's next one brings the book up to its own last update, because a level it does not name was left
alone in between (`ApplyLevelsIsExact`). `Bootstrap` recurses over the buffered events; `BootstrapIsExact`
looks at the least event at which it would go wrong. With a limit a level that is missing may have
been cut off (`Cut`): it stays excused until an event names it, which sets it to the exchange's
quantity, and a level nobody names keeps the quantity the snapshot did not serve (`SoundStays`).
`SegmentsOK` is about the segments: while there is a book its own valid segment is the only one OPEN,
because `depth_sequence_state` closed all others; after that nothing but `session_end` touches them, and
what it leaves is in another partition than the session's row, hence opened on a later day
(`HangupKeepsSegments`).

**The status argument.** The algorithms first. `sorted` lists the intervals (`SortedLists`), merging them
in that order keeps the instants they hold and leaves intervals that do not touch (`MergeHolds`). In such
intervals a bucket may be looked up by bisection from a running hint: what is left out ends before the
bucket, and a hint that is good for one bucket is good for every later one (`HintsSkipNothing`). The
overlaps that are added up are the numbers of disjoint sets of instants (`CoveredIsCounted`), and
`_covered_ms` at every step has counted the instants seen so far (`Scan`, `CoveredMsCounts`). Then the
days: a day's loop tallies the buckets of the day (`BucketsTally`: the start is rounded down to the
interval and the day is a multiple of it, so the `range` hits every bucket), and each bucket and each gap
is filed under one day (`TotalOverDays`). Days without a partition are passed over, and nothing is lost
with them: no gap is filed under such a day (`Filed`). The gaps of a window are counted by a shortcut per day: a sealed
day inside the window by its number, a day before it by the gaps that spill over midnight, the rest by
extremes or a query; they agree (`DayShortcut`) because a gap ends where it begins or later and is filed
under the day it begins in. Last the cache: a summary tells the buckets of its day for the start it was
made with (`SummariesInv`). It is never stale because a gap or segment added later does not reach into a
sealed day (`KeepsSealed`), and it is used for another start only if both come before the day, where they
cut off none of its buckets (`SealedExact`). The theorem assumes `WholeDays`: every interval divides the
day, as 1 s, 1 min and 15 min do.

**The resolver argument.** `validate_time_coverage` accepts candles without a gap only, and such candles
leave no bar out (`CoveredBars`): below a bar that is missing there would be a last one that is there, and
its successor was asked for. Hence `NO_FILL` was given by every bar that reaches into the window, and
stage 1 passes over a bar only when none of its minutes touches the zone (`NoFillInBar`). A target needs
more than the row says, as between the call that finds the fill and the one that ends it the row keeps
the time of the fill and nothing of its minutes. `EarnInv` says what that time stands for while nothing
was lost: a closed bar, the first touch in it, and no stop from there to the end of the bar
(`FillHolds`); what one bar leaves undecided is carried to the next (`LaterBarsEarn`). The theorem
assumes `ZoneIsTraded`: a bar that reaches below and above the entry zone has a minute that trades in
it. A bar is taken for a fill when its low and its high enclose the zone; if the price jumps over the
zone between two minutes there is no minute of a first touch, and `TargetIsEarned` fails (TLC finds it
with the ranges `<<1, 2>>`, `<<2, 2>>`, `<<4, 5>>`). In the price bands of the run it always holds.

**Induction.** The induction theorems of the library take an operator as a parameter, which no installed
prover can instantiate. What the recursive functions of `DepthStream` and `CoverageAudit` and the running minima of
`ShadowResolver` compute is proved by the least counterexample instead: every non-empty set of naturals
has a least member (`LeastNatural`, from the well-foundedness of `<`), so that one looks at the first index
where a claim fails; `Counting` says so of sets of numbers. The value of a recursive definition is a
`CHOOSE` of a function that satisfies its equation; that there is one is proved first, by gluing the
functions up to `n` together (`Iterates`), and then the chosen one satisfies it as well.

**Only model-checked.** Liveness (`EventuallyResolved`, `OutcomeIsRecorded`, `SettlesWhenFlat`,
`CaseSettles`, `IntentsResolved`): the prover has neither `ENABLED` nor fairness. And the four
violations, which are counterexamples. Every other property of a run is proved, under the hypotheses
that the table names.

## 7. What is not modelled

The map covers about a tenth of the implementation's lines. The rest is, for the most part, code a model
checker has nothing to say about:

- *Numeric code*: signals, features, regimes, backtests, the economic simulator, statistics, H39's and
  H41's science: float arithmetic without protocol state.
- *Evidence validation*: thousands of lines that compare the fields and hashes of artifacts
  (`h40/discovery_evidence.py`, `economic/qualification.py`, `market_watch/evidence.py`,
  `registry._validate_economic_attestation`). Their verdict is a nondeterministic choice where a module
  uses it; a field-by-field model would repeat the code.
- *Stateless checks* of one intent, request or environment (`validator`, `policy`, `guard`,
  `environment`, `binance_signed`), request signatures and JSON shapes.
- *Contract validation* of an exchange answer (`_validate_protective_contract`) is its verdict:
  installed, over, absent, or a mismatch that raises. Prices and precisions are not modelled.
- *Position evaluation*: which triggers an observation fires is a free choice of `PositionOutbox`.
- *SQL triggers and hash columns* that guard against edits from outside the program; schema migration.
- *Downloads, archives, the HTTP API, command line, scripts*, the dry-run backend and the legacy
  `execution/service.py`.
- *Market watch*: ranking, alerts, the grid shadow, reports.

## 8. Plan

1. `EntryPlacement`'s `Protect` step as an abstraction that `ProtectiveStop` implements, and
   `SymbolExposure` with protection as a part of its promise.
2. `data/forward_store.py` and the forward evidence epochs; the signal journal (`storage.py`); market
   watch alerts; H40's configuration ledger; last the legacy execution service.

## 9. Running the checks

    tlc -workers 2 -config MCProtectiveStop.cfg MCProtectiveStop
    tlc -workers 2 -config MCComponents.cfg MCComponents
    tlapm ProtectiveStopProofs.tla

Every run takes between seconds and four minutes; the proof modules take from half a minute
(runtime) to about four minutes (research stores with the recorder's status) from nothing.
