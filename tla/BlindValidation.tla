-------------------------- MODULE BlindValidation --------------------------
(***************************************************************************)
(* The H39 fresh forward validation: a recorder fills one microstructure   *)
(* partition a day, accumulation jobs append the evidence of its decision  *)
(* slot to the blind ledger, a freeze copies the ledger when it is mature, *)
(* and a one-shot execution loads the labels of the frozen rows.           *)
(*                                                                         *)
(* A partition is abstracted to the version of its content, a file hash to *)
(* that version, and the evidence of a slot to the versions it was         *)
(* computed from; one slot per day is kept, the first one, whose feature   *)
(* window reaches into the partition of the day before.                    *)
(***************************************************************************)
EXTENDS Naturals, FiniteSets

CONSTANTS
    LastDay,        \* days 1 .. LastDay
    MaxVersion,     \* bound on the writes to one partition
    Jobs,           \* accumulation jobs (timer and command line)
    Executions,     \* processes that run execute_one_shot_unblind
    OnlyFinalized,  \* only_finalized, or --include-active when FALSE
    MinReady,       \* H39_MINIMUM_ELIGIBLE_OBSERVATIONS
    MaxFreezes,     \* bound on the freezes an operator makes
    OnTime          \* days whose candles can be loaded as soon as they are asked for

VARIABLES
    today,      \* the UTC day
    data,       \* day -> version of the partition file, 0 when there is none
    candles,    \* days whose canonical candles can be loaded
    ledger,     \* day -> row of h39_blind_validation_ledger
    sources,    \* day -> row of h39_source_partitions
    job,        \* job -> locals of accumulate_blind_validation
    freeze,     \* locals of create_freeze_manifest
    freezes,    \* number of manifests written so far
    manifest,   \* the manifest file
    snapshots,  \* cutoff -> H39_ONE_SHOT_LEDGER_SNAPSHOT_<cutoff>
    committed,  \* git: the committed manifest and its commit
    exec,       \* execution -> locals of execute_one_shot_unblind
    registry,   \* execution key -> state in h39_one_shot_executions
    receipt,    \* the receipt in the output directory
    looks       \* history: every load of labels, with what was evaluated

recording == <<today, data, candles>>
freezing == <<freeze, freezes, manifest, snapshots, committed>>
executing == <<exec, registry, receipt, looks>>
vars == <<recording, ledger, sources, job, freezing, executing>>

----------------------------------------------------------------------------

Days == 1 .. LastDay
NoRow == [used |-> FALSE]
NoManifest == [id |-> 0]
Idle == [pc |-> "idle"]

Init ==
    /\ today = 1 /\ data = [d \in Days |-> 0] /\ candles = OnTime
    /\ ledger = [d \in Days |-> NoRow]
    /\ sources = [d \in Days |-> NoRow]
    /\ job = [j \in Jobs |-> Idle]
    /\ freeze = Idle /\ freezes = 0 /\ manifest = NoManifest
    /\ snapshots = [c \in Days |-> NoRow]
    /\ committed = [m |-> NoManifest, commit |-> 0]
    /\ exec = [x \in Executions |-> Idle]
    /\ registry = {} /\ receipt = {} /\ looks = {}

(* The recorder, the calendar and the candle store. A write to the          *)
(* partition of a past day is a late flush or a damaged file.               *)
Record(d) ==
    /\ d <= today /\ data[d] < MaxVersion
    /\ data' = [data EXCEPT ![d] = @ + 1]
    /\ UNCHANGED <<today, candles, ledger, sources, job, freezing, executing>>

Midnight ==
    /\ today < LastDay
    /\ today' = today + 1
    /\ UNCHANGED <<data, candles, ledger, sources, job, freezing, executing>>

CandlesArrive(d) ==
    /\ d \notin candles /\ d <= today
    /\ candles' = candles \cup {d}
    /\ UNCHANGED <<today, data, ledger, sources, job, freezing, executing>>

----------------------------------------------------------------------------
(* The ledger's own operations.                                             *)

Version(d) == IF d \in Days THEN data[d] ELSE 0

(* verify_integrity: every sealed partition still has its recorded hash.    *)
IntegrityOK ==
    \A d \in Days : sources[d].used /\ sources[d].finalized => data[d] = sources[d].sha

(* Mutant: A sealed source whose hash moved is recorded again. *)
MayRecordMoved(d, final) ==
    sources[d].used /\ sources[d].finalized => final

(* record_or_verify_source_partition refuses to unseal a source and to      *)
(* accept a sealed source whose hash moved.                                 *)
MayRecord(d, final) ==
    sources[d].used /\ sources[d].finalized => final /\ data[d] = sources[d].sha

Recorded(d, final) ==
    [sources EXCEPT ![d] = [used |-> TRUE, sha |-> data[d], finalized |-> final]]

(* ingest_slots: sealed sources are compared by hash, a slot that exists    *)
(* must carry the same evidence, and only then is a row inserted.           *)
SourcesAgree(hashes) ==
    \A d \in DOMAIN hashes :
        sources[d].used /\ sources[d].finalized => sources[d].sha = hashes[d]

MayIngest(d, row) == ledger[d].used => ledger[d] = row

FormalTestReady(row) == row.used /\ row.baseline

ReadySlots(rows, cutoff) == {d \in Days : d <= cutoff /\ FormalTestReady(rows[d])}

(* get_summary: enough formal-test-ready slots up to the cutoff.            *)
Mature(rows, cutoff) == Cardinality(ReadySlots(rows, cutoff)) >= MinReady

----------------------------------------------------------------------------
(* run_scheduled_accumulation, with accumulate_blind_validation inside it.  *)

AtJob(j, p) == job[j].pc = p
SetJob(j, l) ==
    /\ job' = [job EXCEPT ![j] = l]
    /\ UNCHANGED <<recording, freezing, executing>>

BeginAccumulation(j) ==
    /\ AtJob(j, "idle") /\ IntegrityOK
    /\ SetJob(j, [pc |-> "partition", day |-> 1, today |-> today])
    /\ UNCHANGED <<ledger, sources>>

Sealed(j, d) == d < job[j].today

NextPartition(j) ==
    IF job[j].day < LastDay THEN [pc |-> "partition", day |-> job[j].day + 1, today |-> job[j].today]
                            ELSE [pc |-> "check"]

(* A partition without data, or the active one when only sealed ones are    *)
(* wanted, is passed over.                                                  *)
SkipPartition(j) ==
    /\ AtJob(j, "partition")
    /\ \/ data[job[j].day] = 0
       \/ OnlyFinalized /\ ~Sealed(j, job[j].day)
    /\ SetJob(j, NextPartition(j))
    /\ UNCHANGED <<ledger, sources>>

RecordPrevious(j) ==
    LET d == job[j].day
        has == d - 1 \in Days /\ data[d - 1] # 0
    IN /\ AtJob(j, "partition")
       /\ data[d] # 0 /\ (OnlyFinalized => Sealed(j, d))
       /\ has => MayRecord(d - 1, Sealed(j, d - 1))
       /\ sources' = IF has THEN Recorded(d - 1, Sealed(j, d - 1)) ELSE sources
       /\ SetJob(j, [job[j] EXCEPT !.pc = "own"])
       /\ UNCHANGED ledger

RecordOwn(j) ==
    LET d == job[j].day
    IN /\ AtJob(j, "own")
       /\ MayRecord(d, Sealed(j, d))
       /\ sources' = Recorded(d, Sealed(j, d))
       /\ SetJob(j, [job[j] EXCEPT !.pc = "hash"])
       /\ UNCHANGED ledger

HashSources(j) ==
    LET d == job[j].day
        used == {d} \cup (IF d - 1 \in Days /\ data[d - 1] # 0 THEN {d - 1} ELSE {})
    IN /\ AtJob(j, "hash")
       /\ SetJob(j, [pc |-> "features", day |-> d, today |-> job[j].today,
                     hashes |-> [s \in used |-> data[s]]])
       /\ UNCHANGED <<ledger, sources>>

(* compute_features and the baseline from the candles of the slot's day.    *)
ComputeFeatures(j) ==
    LET d == job[j].day
    IN /\ AtJob(j, "features")
       /\ SetJob(j, [pc |-> "ingest", day |-> d, today |-> job[j].today,
                     hashes |-> job[j].hashes,
                     row |-> [used |-> TRUE, from |-> <<Version(d - 1), data[d]>>,
                              baseline |-> d \in candles]])
       /\ UNCHANGED <<ledger, sources>>

IngestSlot(j) ==
    LET d == job[j].day
    IN /\ AtJob(j, "ingest")
       /\ SourcesAgree(job[j].hashes) /\ MayIngest(d, job[j].row)
       /\ ledger' = [ledger EXCEPT ![d] = job[j].row]
       /\ SetJob(j, NextPartition(j))
       /\ UNCHANGED sources

(* The post-accumulation check and the backup end a job that went through.  *)
EndAccumulation(j) ==
    /\ AtJob(j, "check")
    /\ SetJob(j, Idle)
    /\ UNCHANGED <<ledger, sources>>

(* A mutated source, conflicting evidence or a crash ends the job where it  *)
(* stands; what it committed stays.                                         *)
AbandonAccumulation(j) ==
    /\ ~AtJob(j, "idle")
    /\ SetJob(j, Idle)
    /\ UNCHANGED <<ledger, sources>>

----------------------------------------------------------------------------
(* create_freeze_manifest.                                                  *)

(* verify_readiness_preconditions at the wall clock.                        *)
CheckReadiness ==
    /\ freeze.pc = "idle" /\ freezes < MaxFreezes
    /\ IntegrityOK /\ Mature(ledger, today)
    /\ freeze' = [pc |-> "backup", cutoff |-> today]
    /\ UNCHANGED <<recording, ledger, sources, job, freezes, manifest, snapshots, committed, executing>>

(* The SQLite backup of the live ledger, under the name of the cutoff.      *)
BackupLedger ==
    /\ freeze.pc = "backup"
    /\ snapshots' = [snapshots EXCEPT ![freeze.cutoff] =
                        [used |-> TRUE, rows |-> ledger, sources |-> sources]]
    /\ freeze' = [freeze EXCEPT !.pc = "manifest"]
    /\ UNCHANGED <<recording, ledger, sources, job, freezes, manifest, committed, executing>>

(* The manifest binds the hash of the snapshot and its formal-ready rows.   *)
WriteManifest ==
    LET s == snapshots[freeze.cutoff]
    IN /\ freeze.pc = "manifest"
       /\ manifest' = [id |-> freezes + 1, cutoff |-> freeze.cutoff, snapshot |-> s,
                       ready |-> Cardinality(ReadySlots(s.rows, freeze.cutoff))]
       /\ freezes' = freezes + 1
       /\ freeze' = Idle
       /\ UNCHANGED <<recording, ledger, sources, job, snapshots, committed, executing>>

AbandonFreeze ==
    /\ freeze.pc # "idle"
    /\ freeze' = Idle
    /\ UNCHANGED <<recording, ledger, sources, job, freezes, manifest, snapshots, committed, executing>>

(* The operator commits the manifest file.                                  *)
CommitManifest ==
    /\ manifest # NoManifest /\ committed.m # manifest
    /\ committed' = [m |-> manifest, commit |-> committed.commit + 1]
    /\ UNCHANGED <<recording, ledger, sources, job, freeze, freezes, manifest, snapshots, executing>>

----------------------------------------------------------------------------
(* execute_one_shot_unblind.                                                *)

AtExec(x, p) == exec[x].pc = p
SetExec(x, l) ==
    /\ exec' = [exec EXCEPT ![x] = l]
    /\ UNCHANGED <<recording, ledger, sources, job, freezing>>

(* verify_freeze_manifest, behind the test for a receipt.                   *)
VerifyFreeze(x) ==
    /\ AtExec(x, "idle") /\ receipt = {}
    /\ manifest # NoManifest
    /\ snapshots[manifest.cutoff] = manifest.snapshot
    /\ SetExec(x, [pc |-> "commit", m |-> manifest])
    /\ UNCHANGED <<registry, receipt, looks>>

(* verify_committed_freeze_package reads the file again; the execution key  *)
(* is made of its hash, its commit and the cutoff of the manifest in hand.  *)
VerifyCommitted(x) ==
    /\ AtExec(x, "commit")
    /\ committed.m = manifest
    /\ SetExec(x, [pc |-> "precheck", m |-> exec[x].m,
                   key |-> <<manifest.id, committed.commit, exec[x].m.cutoff>>])
    /\ UNCHANGED <<registry, receipt, looks>>

(* Mutant: The precheck without the comparison against the manifest's row count. *)
PrecheckUncounted(x) ==
    LET m == exec[x].m
        rows == snapshots[m.cutoff].rows
        slots == ReadySlots(rows, m.cutoff)
    IN /\ AtExec(x, "precheck")
       /\ Cardinality(slots) >= MinReady
       /\ SetExec(x, [pc |-> "reserve", m |-> m, key |-> exec[x].key,
                      rows |-> [d \in slots |-> rows[d]]])
       /\ UNCHANGED <<registry, receipt, looks>>

(* BLIND_PRECHECK over the snapshot file as it is now.                      *)
Precheck(x) ==
    LET m == exec[x].m
        rows == snapshots[m.cutoff].rows
        slots == ReadySlots(rows, m.cutoff)
    IN /\ AtExec(x, "precheck")
       /\ Cardinality(slots) >= MinReady
       /\ Cardinality(slots) = m.ready
       /\ SetExec(x, [pc |-> "reserve", m |-> m, key |-> exec[x].key,
                      rows |-> [d \in slots |-> rows[d]]])
       /\ UNCHANGED <<registry, receipt, looks>>

(* Mutant: A reservation that is only respected once it is COMPLETED. *)
ReserveUncompleted(x) ==
    /\ AtExec(x, "reserve")
    /\ ~\E r \in registry : r.key = exec[x].key /\ r.state = "COMPLETED"
    /\ registry' = registry \cup {[key |-> exec[x].key, state |-> "STARTED"]}
    /\ SetExec(x, [exec[x] EXCEPT !.pc = "labels"])
    /\ UNCHANGED <<receipt, looks>>

(* reserve_execution: the primary key lets one execution through.           *)
ReserveExecution(x) ==
    /\ AtExec(x, "reserve")
    /\ ~\E r \in registry : r.key = exec[x].key
    /\ registry' = registry \cup {[key |-> exec[x].key, state |-> "STARTED"]}
    /\ SetExec(x, [exec[x] EXCEPT !.pc = "labels"])
    /\ UNCHANGED <<receipt, looks>>

(* The labels of the frozen rows are loaded and evaluated.                  *)
LoadLabels(x) ==
    /\ AtExec(x, "labels")
    /\ looks' = looks \cup {[by |-> x, n |-> Cardinality(looks), key |-> exec[x].key,
                             m |-> exec[x].m, rows |-> exec[x].rows]}
    /\ SetExec(x, [pc |-> "publish", key |-> exec[x].key])
    /\ UNCHANGED <<registry, receipt>>

(* The result files and, last, the receipt.                                 *)
WriteReceipt(x) ==
    /\ AtExec(x, "publish")
    /\ receipt' = {exec[x].key}
    /\ SetExec(x, [pc |-> "complete", key |-> exec[x].key])
    /\ UNCHANGED <<registry, looks>>

CompleteExecution(x) ==
    /\ AtExec(x, "complete")
    /\ registry' = {r \in registry : r.key # exec[x].key}
                      \cup {[key |-> exec[x].key, state |-> "COMPLETED"]}
    /\ SetExec(x, Idle)
    /\ UNCHANGED <<receipt, looks>>

(* A failed check, too few candles, a numerical error or a crash.           *)
AbandonExecution(x) ==
    /\ ~AtExec(x, "idle")
    /\ SetExec(x, Idle)
    /\ UNCHANGED <<registry, receipt, looks>>

----------------------------------------------------------------------------

Next ==
    \/ \E d \in Days : Record(d) \/ CandlesArrive(d)
    \/ Midnight
    \/ \E j \in Jobs :
          \/ BeginAccumulation(j) \/ SkipPartition(j) \/ RecordPrevious(j) \/ RecordOwn(j)
          \/ HashSources(j) \/ ComputeFeatures(j) \/ IngestSlot(j)
          \/ EndAccumulation(j) \/ AbandonAccumulation(j)
    \/ CheckReadiness \/ BackupLedger \/ WriteManifest \/ AbandonFreeze \/ CommitManifest
    \/ \E x \in Executions :
          \/ VerifyFreeze(x) \/ VerifyCommitted(x) \/ Precheck(x) \/ ReserveExecution(x)
          \/ LoadLabels(x) \/ WriteReceipt(x) \/ CompleteExecution(x) \/ AbandonExecution(x)

Spec == Init /\ [][Next]_vars

----------------------------------------------------------------------------

(* The labels are looked at once per execution key: a second process, a     *)
(* retry after a crash or a failed evaluation never loads them again.       *)
(* (reserve_execution in H39OneShotExecutionRegistry)                       *)
OneLookPerKey ==
    \A a, b \in looks : a.key = b.key => a = b

(* What is evaluated is what the manifest froze: the formal-ready rows of   *)
(* its own snapshot, although accumulation goes on and a later freeze of    *)
(* the same cutoff overwrites the snapshot file between the hash check and  *)
(* the read. (execute_one_shot_unblind, BLIND_PRECHECK)                     *)
EvaluatesFrozenRows ==
    \A l \in looks :
        LET s == l.m.snapshot.rows
        IN l.rows = [d \in ReadySlots(s, l.m.cutoff) |-> s[d]]

(* As long as the sealed files carry their recorded hashes, the ledger row  *)
(* of a slot was computed from the present content of its partition,        *)
(* whatever jobs, crashes and late writes came before.  Only a day that was *)
(* ingested with --include-active and written to afterwards is sealed with  *)
(* a hash its row was not computed from.                                    *)
(* (accumulate_blind_validation, record_or_verify_source_partition)         *)
SealedRowsSound ==
    \A d \in Days :
        /\ ledger[d].used /\ sources[d].used /\ sources[d].finalized
        /\ IntegrityOK
        => ledger[d].from[2] = data[d]

=============================================================================
