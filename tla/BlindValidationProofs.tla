------------------------ MODULE BlindValidationProofs ------------------------
(***************************************************************************)
(* Proofs about BlindValidation, for every number of days, jobs,           *)
(* executions and freezes, and, at the end, about the recorder's ledger,   *)
(* whose sealed days the validation reads, and the books of its depth      *)
(* stream.                                                                 *)
(*                                                                         *)
(* Labels are looked at once per key because the primary key of the        *)
(* registry lets one execution past the reservation, and a reservation is  *)
(* never taken back (Reserved).  What is looked at is what was frozen:     *)
(* the snapshot file may be written again between the hash check and the   *)
(* read, but a ledger row is never replaced, so the later snapshot goes on *)
(* where the frozen one ends (Below), and one with the frozen number of    *)
(* ready rows has the same rows (SameRows).                                *)
(***************************************************************************)
EXTENDS BlindValidation, Integers, Sequences, FiniteSetTheorems, WellFoundedInduction, TLAPS

(* The rows of b go on where those of a end.                               *)
Below(a, b) == \A d \in Days : a[d].used => b[d] = a[d]

FrozenRows(m) == [d \in ReadySlots(m.snapshot.rows, m.cutoff) |-> m.snapshot.rows[d]]

(* What a manifest says, and that the snapshot file has not lost a row of  *)
(* it although it may have been written again.                             *)
Sound(m) ==
    /\ m.cutoff \in Days /\ snapshots[m.cutoff].used
    /\ Below(m.snapshot.rows, snapshots[m.cutoff].rows)
    /\ m.ready = Cardinality(ReadySlots(m.snapshot.rows, m.cutoff))

(* The locals of a job before it has read anything, and its day.           *)
JobShape(j) ==
    /\ job[j].pc \in {"partition", "own", "hash"} =>
         job[j] = [pc |-> job[j].pc, day |-> job[j].day, today |-> job[j].today]
    /\ job[j].pc \in {"partition", "own", "hash", "features", "ingest"} => job[j].day \in Days

(* A row of the ledger is never replaced, so every snapshot is a part of   *)
(* the ledger, and what was frozen is a part of its snapshot file.         *)
FreezeInv ==
    /\ LastDay \in Nat \ {0}
    /\ today \in Days
    /\ DOMAIN ledger = Days /\ DOMAIN snapshots = Days /\ DOMAIN job = Jobs
    /\ \A j \in Jobs : JobShape(j)
    /\ \A c \in Days : snapshots[c].used => Below(snapshots[c].rows, ledger)
    /\ freeze.pc # "idle" => freeze = [pc |-> freeze.pc, cutoff |-> freeze.cutoff] /\ freeze.cutoff \in Days
    /\ freeze.pc = "manifest" => snapshots[freeze.cutoff].used
    /\ freeze.pc \in {"idle", "backup", "manifest"}
    /\ manifest # NoManifest => Sound(manifest)

Executing == {"idle", "commit", "precheck", "reserve", "labels", "publish", "complete"}

(* The locals of an execution are what its step has put together.          *)
Locals(x) ==
    /\ exec[x].pc \in Executing
    /\ exec[x].pc \in {"commit", "precheck", "reserve", "labels"} => Sound(exec[x].m)
    /\ exec[x].pc \in {"reserve", "labels"} =>
         /\ exec[x] = [pc |-> exec[x].pc, m |-> exec[x].m, key |-> exec[x].key, rows |-> exec[x].rows]
         /\ exec[x].rows = FrozenRows(exec[x].m)

Keys == {r.key : r \in registry}

(* An execution that got its reservation is the only one with its key to   *)
(* look, and has not looked yet while it stands before the labels.         *)
Reserved(x) ==
    /\ exec[x].pc \in {"labels", "publish", "complete"} => exec[x].key \in Keys
    /\ exec[x].pc = "labels" =>
         /\ \A l \in looks : l.key # exec[x].key
         /\ \A y \in Executions : exec[y].pc = "labels" /\ exec[y].key = exec[x].key => x = y

ExecInv ==
    /\ DOMAIN exec = Executions
    /\ \A x \in Executions : Locals(x) /\ Reserved(x)
    /\ \A l \in looks : l.key \in Keys
    /\ OneLookPerKey
    /\ EvaluatesFrozenRows

BlindInv == FreezeInv /\ ExecInv

-----------------------------------------------------------------------------

(* There are finitely many slots up to a cutoff.                           *)
LEMMA ReadyFinite ==
    ASSUME LastDay \in Nat \ {0}, NEW rows, NEW cutoff
    PROVE  IsFiniteSet(ReadySlots(rows, cutoff))
<1>1. IsFiniteSet(Days)
  BY FS_Interval DEF Days
<1> QED
  BY <1>1, FS_Subset DEF ReadySlots

(* A snapshot that was written again and still has as many ready rows has  *)
(* the same ones.                                                          *)
LEMMA SameRows ==
    ASSUME NEW a, NEW b, NEW c, Below(a, b), LastDay \in Nat \ {0},
           Cardinality(ReadySlots(b, c)) = Cardinality(ReadySlots(a, c))
    PROVE  [d \in ReadySlots(b, c) |-> b[d]] = [d \in ReadySlots(a, c) |-> a[d]]
<1>1. \A d \in ReadySlots(a, c) : d \in ReadySlots(b, c) /\ b[d] = a[d]
  BY DEF ReadySlots, FormalTestReady, Below
<1>2. ReadySlots(a, c) = ReadySlots(b, c)
  BY <1>1, ReadyFinite, FS_Subset
<1> QED
  BY <1>1, <1>2

(* The keys of the registry with one more row.                             *)
LEMMA KeyAdded ==
    ASSUME NEW R, NEW k, NEW state
    PROVE  {r.key : r \in R \cup {[key |-> k, state |-> state]}} = {r.key : r \in R} \cup {k}
<1> DEFINE new == [key |-> k, state |-> state]
<1>1. new.key = k
  OBVIOUS
<1>2. {r.key : r \in R \cup {new}} = {r.key : r \in R} \cup {k}
  <2> HIDE DEF new
  <2>1. \A r \in R \cup {new} : r.key \in {q.key : q \in R} \cup {k}
    BY <1>1
  <2>2. \A x \in {q.key : q \in R} \cup {k} : \E r \in R \cup {new} : x = r.key
    BY <1>1
  <2> QED
    BY <2>1, <2>2
<1> QED
  BY <1>2

(* What goes on from a continuation goes on from the first.                *)
LEMMA BelowTransitive ==
    ASSUME NEW a, NEW b, NEW c, Below(a, b), Below(b, c)
    PROVE  Below(a, c)
  BY DEF Below

LEMMA BlindInit == ASSUME LastDay \in Nat \ {0}, Init PROVE BlindInv
<1>1. FreezeInv
  BY DEF Init, FreezeInv, JobShape, Days, NoRow, Idle
<1>2. ExecInv
  BY DEF Init, ExecInv, Locals, Reserved, Executing, Idle, OneLookPerKey, EvaluatesFrozenRows
<1> QED
  BY <1>1, <1>2 DEF BlindInv

(* A step of the recorder, a job or the freeze leaves the executions, and  *)
(* the snapshot files only gain rows.                                      *)
LEMMA ExecStays ==
    ASSUME BlindInv, UNCHANGED executing,
           \A c \in Days : snapshots[c].used =>
               snapshots'[c].used /\ Below(snapshots[c].rows, snapshots'[c].rows)
    PROVE  ExecInv' /\ \A m : Sound(m) => Sound(m)'
<1>1. \A m : Sound(m) => Sound(m)'
  BY BelowTransitive DEF Sound
<1>2. \A x \in Executions : Locals(x)' /\ Reserved(x)'
  BY <1>1 DEF BlindInv, ExecInv, Locals, Reserved, executing, Keys, Sound, FrozenRows
<1> QED
  BY <1>1, <1>2 DEF BlindInv, ExecInv, executing, Keys, OneLookPerKey, EvaluatesFrozenRows

(* The recorder and the calendar do not touch what was frozen.             *)
LEMMA RecorderKeepsBlind ==
    ASSUME BlindInv, \/ \E d \in Days : Record(d) \/ CandlesArrive(d)
                     \/ Midnight
    PROVE  BlindInv'
<1>1. today' \in Days /\ UNCHANGED <<ledger, job, freezing, executing>>
  BY DEF Record, CandlesArrive, Midnight, BlindInv, FreezeInv, Days
<1>2. ExecInv' /\ \A m : Sound(m) => Sound(m)'
  BY <1>1, ExecStays DEF freezing, Below
<1>3. FreezeInv'
  BY <1>1, <1>2 DEF BlindInv, FreezeInv, JobShape, freezing
<1> QED
  BY <1>2, <1>3 DEF BlindInv

(* The steps of a job keep its locals in shape.                            *)
LEMMA JobMoves ==
    ASSUME LastDay \in Nat \ {0}, DOMAIN job = Jobs, \A k \in Jobs : JobShape(k), NEW j \in Jobs,
           \/ BeginAccumulation(j) \/ SkipPartition(j) \/ RecordPrevious(j) \/ RecordOwn(j)
           \/ HashSources(j) \/ ComputeFeatures(j) \/ IngestSlot(j)
           \/ EndAccumulation(j) \/ AbandonAccumulation(j)
    PROVE  DOMAIN job' = Jobs /\ \A k \in Jobs : JobShape(k)'
<1>1. ASSUME NEW l, SetJob(j, l)
      PROVE  DOMAIN job' = Jobs /\ job'[j] = l /\ \A k \in Jobs \ {j} : job'[k] = job[k]
  BY <1>1 DEF SetJob
<1>2. PICK l : SetJob(j, l)
  BY DEF BeginAccumulation, SkipPartition, RecordPrevious, RecordOwn, HashSources, ComputeFeatures,
         IngestSlot, EndAccumulation, AbandonAccumulation
<1>3. \A k \in Jobs \ {j} : JobShape(k)'
  BY <1>1, <1>2 DEF JobShape
<1>4. JobShape(j)'
  <2>1. CASE BeginAccumulation(j)
    BY <1>1, <2>1 DEF BeginAccumulation, JobShape, Days
  <2>2. ASSUME job[j].day \in Days, SetJob(j, NextPartition(j)) PROVE JobShape(j)'
    BY <1>1, <2>2 DEF NextPartition, JobShape, Days
  <2>3. CASE SkipPartition(j) \/ IngestSlot(j)
    BY <2>2, <2>3 DEF SkipPartition, IngestSlot, AtJob, JobShape
  <2>4. CASE RecordPrevious(j)
    BY <1>1, <2>4 DEF RecordPrevious, AtJob, JobShape
  <2>5. CASE RecordOwn(j)
    BY <1>1, <2>5 DEF RecordOwn, AtJob, JobShape
  <2>6. CASE HashSources(j)
    BY <1>1, <2>6 DEF HashSources, AtJob, JobShape
  <2>7. CASE ComputeFeatures(j)
    BY <1>1, <2>7 DEF ComputeFeatures, AtJob, JobShape
  <2>8. CASE EndAccumulation(j) \/ AbandonAccumulation(j)
    BY <1>1, <2>8 DEF EndAccumulation, AbandonAccumulation, JobShape, Idle
  <2> QED
    BY <2>1, <2>3, <2>4, <2>5, <2>6, <2>7, <2>8
<1> QED
  BY <1>1, <1>2, <1>3, <1>4

(* A job never replaces a row, so the ledger only goes on.                 *)
LEMMA JobKeepsBlind ==
    ASSUME BlindInv, NEW j \in Jobs,
           \/ BeginAccumulation(j) \/ SkipPartition(j) \/ RecordPrevious(j) \/ RecordOwn(j)
           \/ HashSources(j) \/ ComputeFeatures(j) \/ IngestSlot(j)
           \/ EndAccumulation(j) \/ AbandonAccumulation(j)
    PROVE  BlindInv'
<1>1. UNCHANGED <<today, freezing, executing>>
  BY DEF BeginAccumulation, SkipPartition, RecordPrevious, RecordOwn, HashSources, ComputeFeatures,
         IngestSlot, EndAccumulation, AbandonAccumulation, SetJob, recording
<1>2. DOMAIN ledger' = Days /\ Below(ledger, ledger')
  <2>1. CASE IngestSlot(j)
    BY <2>1 DEF IngestSlot, MayIngest, Below, BlindInv, FreezeInv
  <2>2. CASE UNCHANGED ledger
    BY <2>2 DEF Below, BlindInv, FreezeInv
  <2> QED
    BY <2>1, <2>2 DEF BeginAccumulation, SkipPartition, RecordPrevious, RecordOwn, HashSources,
                      ComputeFeatures, EndAccumulation, AbandonAccumulation
<1>3. DOMAIN job' = Jobs /\ \A k \in Jobs : JobShape(k)'
  BY JobMoves DEF BlindInv, FreezeInv
<1>4. ExecInv' /\ \A m : Sound(m) => Sound(m)'
  BY <1>1, ExecStays DEF freezing, Below
<1>5. \A c \in Days : snapshots[c].used => Below(snapshots[c].rows, ledger')
  BY <1>2, BelowTransitive DEF BlindInv, FreezeInv
<1>6. FreezeInv'
  BY <1>1, <1>2, <1>3, <1>4, <1>5 DEF BlindInv, FreezeInv, freezing
<1> QED
  BY <1>4, <1>6 DEF BlindInv

(***************************************************************************)
(* A backup takes the rows the ledger has, which are those of any earlier  *)
(* snapshot and more; the manifest is written from the snapshot file.      *)
(***************************************************************************)
LEMMA FreezeKeepsBlind ==
    ASSUME BlindInv,
           CheckReadiness \/ BackupLedger \/ WriteManifest \/ AbandonFreeze \/ CommitManifest
    PROVE  BlindInv'
<1>1. UNCHANGED <<recording, ledger, job, executing>>
  BY DEF CheckReadiness, BackupLedger, WriteManifest, AbandonFreeze, CommitManifest
<1>2. /\ DOMAIN snapshots' = Days
      /\ \A c \in Days : snapshots[c].used =>
             snapshots'[c].used /\ Below(snapshots[c].rows, snapshots'[c].rows)
      /\ \A c \in Days : snapshots'[c].used => Below(snapshots'[c].rows, ledger)
  <2>1. CASE BackupLedger
    BY <2>1 DEF BackupLedger, BlindInv, FreezeInv, Below
  <2>2. CASE UNCHANGED snapshots
    BY <2>2 DEF BlindInv, FreezeInv, Below
  <2> QED
    BY <2>1, <2>2 DEF CheckReadiness, WriteManifest, AbandonFreeze, CommitManifest
<1>3. ExecInv' /\ \A m : Sound(m) => Sound(m)'
  BY <1>1, <1>2, ExecStays
<1>4. /\ freeze'.pc # "idle" =>
           freeze' = [pc |-> freeze'.pc, cutoff |-> freeze'.cutoff] /\ freeze'.cutoff \in Days
      /\ freeze'.pc = "manifest" => snapshots'[freeze'.cutoff].used
      /\ freeze'.pc \in {"idle", "backup", "manifest"}
  <2>1. CASE CheckReadiness
    BY <2>1 DEF CheckReadiness, BlindInv, FreezeInv
  <2>2. CASE BackupLedger
    BY <2>2 DEF BackupLedger, BlindInv, FreezeInv
  <2>3. CASE WriteManifest \/ AbandonFreeze
    BY <2>3 DEF WriteManifest, AbandonFreeze, Idle
  <2>4. CASE CommitManifest
    BY <2>4 DEF CommitManifest, BlindInv, FreezeInv
  <2> QED
    BY <2>1, <2>2, <2>3, <2>4
<1>5. (manifest # NoManifest => Sound(manifest))'
  <2>1. CASE WriteManifest
    <3> DEFINE s == snapshots[freeze.cutoff]
    <3>1. /\ s.used /\ freeze.cutoff \in Days /\ UNCHANGED snapshots
          /\ manifest' = [id |-> freezes + 1, cutoff |-> freeze.cutoff, snapshot |-> s,
                          ready |-> Cardinality(ReadySlots(s.rows, freeze.cutoff))]
      BY <2>1 DEF WriteManifest, BlindInv, FreezeInv
    <3> QED
      BY <3>1 DEF Sound, Below
  <2>2. CASE UNCHANGED manifest
    BY <1>3, <2>2 DEF BlindInv, FreezeInv, Sound
  <2> QED
    BY <2>1, <2>2 DEF CheckReadiness, BackupLedger, AbandonFreeze, CommitManifest
<1>6. FreezeInv'
  BY <1>1, <1>2, <1>4, <1>5 DEF BlindInv, FreezeInv, JobShape, recording
<1> QED
  BY <1>3, <1>6 DEF BlindInv

-----------------------------------------------------------------------------

(* A step of one execution without a reservation or a look.                *)
LEMMA ExecMoves ==
    ASSUME BlindInv, NEW x \in Executions, NEW l, SetExec(x, l),
           UNCHANGED looks, Keys' = Keys,
           Locals(x)', l.pc # "labels",
           l.pc \in {"publish", "complete"} => l.key \in Keys
    PROVE  BlindInv'
<1>1. DOMAIN exec' = Executions /\ exec'[x] = l /\ \A y \in Executions \ {x} : exec'[y] = exec[y]
  BY DEF SetExec, BlindInv, ExecInv
<1>2. UNCHANGED <<recording, ledger, job, freezing>>
  BY DEF SetExec
<1>3. \A y \in Executions \ {x} : Locals(y)'
  BY <1>1, <1>2 DEF BlindInv, ExecInv, Locals, Sound, FrozenRows, freezing
<1>4. \A y \in Executions : Reserved(y)'
  BY <1>1 DEF BlindInv, ExecInv, Reserved
<1>5. FreezeInv'
  BY <1>2 DEF BlindInv, FreezeInv, JobShape, Sound, recording, freezing
<1> QED
  BY <1>1, <1>3, <1>4, <1>5 DEF BlindInv, ExecInv, OneLookPerKey, EvaluatesFrozenRows

(* The steps of an execution before the reservation and after the look.    *)
LEMMA ChecksKeepBlind ==
    ASSUME BlindInv, NEW x \in Executions,
           \/ VerifyFreeze(x) \/ VerifyCommitted(x) \/ Precheck(x)
           \/ WriteReceipt(x) \/ CompleteExecution(x) \/ AbandonExecution(x)
    PROVE  BlindInv'
<1> USE DEF AtExec
<1>1. DOMAIN exec = Executions /\ Locals(x) /\ Reserved(x)
  BY DEF BlindInv, ExecInv
<1>2. ASSUME NEW l, SetExec(x, l) PROVE exec'[x] = l /\ \A m : Sound(m) => Sound(m)'
  BY <1>1, <1>2 DEF SetExec, Sound, freezing
<1>3. CASE VerifyFreeze(x)
  <2> DEFINE l == [pc |-> "commit", m |-> manifest]
  <2>1. SetExec(x, l) /\ UNCHANGED <<registry, looks>> /\ manifest # NoManifest
    BY <1>3 DEF VerifyFreeze
  <2>2. Locals(x)'
    BY <1>2, <2>1 DEF Locals, Executing, BlindInv, FreezeInv
  <2> QED
    BY <2>1, <2>2, ExecMoves DEF Keys
<1>4. CASE VerifyCommitted(x)
  <2> DEFINE l == [pc |-> "precheck", m |-> exec[x].m,
                   key |-> <<manifest.id, committed.commit, exec[x].m.cutoff>>]
  <2>1. SetExec(x, l) /\ UNCHANGED <<registry, looks>> /\ exec[x].pc = "commit"
    BY <1>4 DEF VerifyCommitted
  <2>2. Locals(x)'
    BY <1>1, <1>2, <2>1 DEF Locals, Executing
  <2> QED
    BY <2>1, <2>2, ExecMoves DEF Keys
<1>5. CASE Precheck(x)
  <2> DEFINE m == exec[x].m
             rows == snapshots[m.cutoff].rows
             slots == ReadySlots(rows, m.cutoff)
             l == [pc |-> "reserve", m |-> m, key |-> exec[x].key, rows |-> [d \in slots |-> rows[d]]]
  <2>1. /\ SetExec(x, l) /\ UNCHANGED <<registry, looks>> /\ exec[x].pc = "precheck"
        /\ Cardinality(slots) = m.ready
    BY <1>5 DEF Precheck
  <2>2. Sound(m)
    BY <1>1, <2>1 DEF Locals
  <2>3. l.rows = FrozenRows(m)
    <3>1. Cardinality(slots) = Cardinality(ReadySlots(m.snapshot.rows, m.cutoff))
      BY <2>1, <2>2 DEF Sound
    <3> HIDE DEF slots
    <3>2. [d \in slots |-> rows[d]] = FrozenRows(m)
      <4>1. Below(m.snapshot.rows, rows)
        BY <2>2 DEF Sound
      <4>2. LastDay \in Nat \ {0}
        BY DEF BlindInv, FreezeInv
      <4> HIDE DEF rows, m
      <4> QED BY <3>1, <4>1, <4>2, SameRows DEF FrozenRows, slots
    <3> QED
      BY <3>2
  <2>4. l = [pc |-> l.pc, m |-> l.m, key |-> l.key, rows |-> l.rows] /\ l.pc = "reserve" /\ l.m = m
    OBVIOUS
  <2>5. Locals(x)'
    <3>1. exec'[x] = l /\ UNCHANGED snapshots
      BY <1>2, <2>1 DEF SetExec, freezing
    <3> HIDE DEF l
    <3> QED
      BY <2>2, <2>3, <2>4, <3>1 DEF Locals, Executing, FrozenRows, Sound
  <2> QED
    BY <2>1, <2>5, ExecMoves DEF Keys
<1>6. CASE WriteReceipt(x)
  <2> DEFINE l == [pc |-> "complete", key |-> exec[x].key]
  <2>1. SetExec(x, l) /\ UNCHANGED <<registry, looks>> /\ exec[x].key \in Keys
    BY <1>1, <1>6 DEF WriteReceipt, Reserved
  <2>2. Locals(x)'
    BY <1>2, <2>1 DEF Locals, Executing
  <2> QED
    BY <2>1, <2>2, ExecMoves DEF Keys
<1>7. CASE CompleteExecution(x)
  <2>1. SetExec(x, Idle) /\ UNCHANGED looks /\ exec[x].key \in Keys
    BY <1>1, <1>7 DEF CompleteExecution, Reserved
  <2>2. Keys' = Keys
    <3> DEFINE R == {r \in registry : r.key # exec[x].key}
    <3>1. registry' = R \cup {[key |-> exec[x].key, state |-> "COMPLETED"]}
      BY <1>7 DEF CompleteExecution
    <3>2. Keys' = {r.key : r \in R} \cup {exec[x].key}
      BY <3>1, KeyAdded DEF Keys
    <3>3. \A r \in registry : r \in R \/ r.key = exec[x].key
      OBVIOUS
    <3>4. \A r \in R : r \in registry
      OBVIOUS
    <3> HIDE DEF R
    <3> QED
      BY <2>1, <3>2, <3>3, <3>4, Zenon DEF Keys
  <2>3. Locals(x)'
    BY <1>2, <2>1 DEF Locals, Executing, Idle
  <2> QED
    BY <2>1, <2>2, <2>3, ExecMoves DEF Idle
<1>8. CASE AbandonExecution(x)
  <2>1. SetExec(x, Idle) /\ UNCHANGED <<registry, looks>>
    BY <1>8 DEF AbandonExecution
  <2>2. Locals(x)'
    BY <1>2, <2>1 DEF Locals, Executing, Idle
  <2> QED
    BY <2>1, <2>2, ExecMoves DEF Idle, Keys
<1> QED
  BY <1>3, <1>4, <1>5, <1>6, <1>7, <1>8

(* The primary key of the registry lets one execution to the labels.       *)
LEMMA ReserveKeepsBlind ==
    ASSUME BlindInv, NEW x \in Executions, ReserveExecution(x)
    PROVE  BlindInv'
<1> DEFINE l == [exec[x] EXCEPT !.pc = "labels"]
<1>1. /\ exec[x].pc = "reserve" /\ exec[x].key \notin Keys
      /\ Keys' = Keys \cup {exec[x].key} /\ SetExec(x, l) /\ UNCHANGED looks
  <2>1. /\ exec[x].pc = "reserve" /\ \A r \in registry : r.key # exec[x].key
        /\ registry' = registry \cup {[key |-> exec[x].key, state |-> "STARTED"]}
        /\ SetExec(x, l) /\ UNCHANGED looks
    BY DEF ReserveExecution, AtExec
  <2> QED
    BY <2>1, KeyAdded DEF Keys
<1>2. l = [pc |-> "labels", m |-> exec[x].m, key |-> exec[x].key, rows |-> exec[x].rows]
  BY <1>1 DEF BlindInv, ExecInv, Locals
<1> HIDE DEF l
<1>3. DOMAIN exec' = Executions /\ exec'[x] = l /\ \A y \in Executions \ {x} : exec'[y] = exec[y]
  BY <1>1 DEF SetExec, BlindInv, ExecInv
<1>4. UNCHANGED <<recording, ledger, job, freezing>>
  BY <1>1 DEF SetExec
<1>5. \A y \in Executions : Locals(y)'
  <2>1. Locals(x)'
    BY <1>1, <1>2, <1>3, <1>4 DEF BlindInv, ExecInv, Locals, Sound, FrozenRows, freezing, Executing
  <2> QED
    BY <1>3, <1>4, <2>1 DEF BlindInv, ExecInv, Locals, Sound, FrozenRows, freezing
<1>6. \A y \in Executions : Reserved(y)'
  <2>1. Reserved(x)'
    BY <1>1, <1>2, <1>3 DEF BlindInv, ExecInv, Reserved
  <2> QED
    BY <1>1, <1>2, <1>3, <2>1 DEF BlindInv, ExecInv, Reserved
<1>7. FreezeInv'
  BY <1>4 DEF BlindInv, FreezeInv, JobShape, Sound, recording, freezing
<1> QED
  BY <1>1, <1>3, <1>5, <1>6, <1>7 DEF BlindInv, ExecInv, OneLookPerKey, EvaluatesFrozenRows

(* The look itself: its key is reserved and nobody else looked under it.   *)
LEMMA LookKeepsBlind ==
    ASSUME BlindInv, NEW x \in Executions, LoadLabels(x)
    PROVE  BlindInv'
<1> DEFINE l == [pc |-> "publish", key |-> exec[x].key]
           look == [by |-> x, n |-> Cardinality(looks), key |-> exec[x].key,
                    m |-> exec[x].m, rows |-> exec[x].rows]
<1>1. /\ exec[x].pc = "labels" /\ looks' = looks \cup {look}
      /\ SetExec(x, l) /\ UNCHANGED <<registry, receipt>>
  BY DEF LoadLabels, AtExec
<1>2. DOMAIN exec' = Executions /\ exec'[x] = l /\ \A y \in Executions \ {x} : exec'[y] = exec[y]
  BY <1>1 DEF SetExec, BlindInv, ExecInv
<1>3. UNCHANGED <<recording, ledger, job, freezing>> /\ Keys' = Keys
  BY <1>1 DEF SetExec, Keys
<1>4. Locals(x) /\ Reserved(x)
  BY DEF BlindInv, ExecInv
<1>5. look.key = exec[x].key /\ look.m = exec[x].m /\ look.rows = FrozenRows(exec[x].m) /\ look.key \in Keys
  BY <1>1, <1>4 DEF Locals, Reserved
<1> HIDE DEF look
<1>6. \A y \in Executions : Locals(y)' /\ Reserved(y)'
  <2>1. Locals(x)' /\ Reserved(x)'
    BY <1>1, <1>2, <1>3, <1>4 DEF Locals, Reserved, Executing
  <2>2. ASSUME NEW y \in Executions \ {x} PROVE Locals(y)'
    BY <1>2, <1>3 DEF BlindInv, ExecInv, Locals, Sound, FrozenRows, freezing
  <2>3. ASSUME NEW y \in Executions \ {x} PROVE Reserved(y)'
    BY <1>1, <1>2, <1>3, <1>4, <1>5 DEF BlindInv, ExecInv, Reserved
  <2> QED
    BY <2>1, <2>2, <2>3
<1>7. OneLookPerKey' /\ EvaluatesFrozenRows' /\ \A k \in looks' : k.key \in Keys'
  BY <1>1, <1>3, <1>4, <1>5 DEF BlindInv, ExecInv, Reserved, OneLookPerKey, EvaluatesFrozenRows, FrozenRows
<1>8. FreezeInv'
  BY <1>3 DEF BlindInv, FreezeInv, JobShape, Sound, recording, freezing
<1> QED
  BY <1>2, <1>6, <1>7, <1>8 DEF BlindInv, ExecInv

LEMMA BlindInductive == ASSUME LastDay \in Nat \ {0} PROVE Spec => []BlindInv
<1>1. Init => BlindInv
  BY BlindInit
<1>2. BlindInv /\ [Next]_vars => BlindInv'
  <2> SUFFICES ASSUME BlindInv, [Next]_vars PROVE BlindInv'
    OBVIOUS
  <2>1. CASE UNCHANGED vars
    <3>1. ExecInv' /\ \A m : Sound(m) => Sound(m)'
      BY <2>1, ExecStays DEF vars, freezing, Below
    <3> QED
      BY <2>1, <3>1 DEF vars, recording, freezing, BlindInv, FreezeInv, JobShape
  <2>2. CASE Next
    BY <2>2, RecorderKeepsBlind, JobKeepsBlind, FreezeKeepsBlind, ChecksKeepBlind, ReserveKeepsBlind,
       LookKeepsBlind DEF Next
  <2> QED
    BY <2>1, <2>2
<1> QED
  BY <1>1, <1>2, PTL DEF Spec

(* Whatever dies or is run again, the labels are loaded once per execution *)
(* key.  (reserve_execution in H39OneShotExecutionRegistry)                *)
THEOREM LooksOnce == ASSUME LastDay \in Nat \ {0} PROVE Spec => []OneLookPerKey
<1>1. BlindInv => OneLookPerKey
  BY DEF BlindInv, ExecInv
<1> QED
  BY <1>1, BlindInductive, PTL

(* What is evaluated are the formal-ready rows that the manifest froze.    *)
(* (execute_one_shot_unblind, BLIND_PRECHECK)                              *)
THEOREM FrozenIsEvaluated == ASSUME LastDay \in Nat \ {0} PROVE Spec => []EvaluatesFrozenRows
<1>1. BlindInv => EvaluatesFrozenRows
  BY DEF BlindInv, ExecInv
<1> QED
  BY <1>1, BlindInductive, PTL

-----------------------------------------------------------------------------

(* A job asks for the content of a sealed partition only, in the order: it *)
(* seals the source, reads its hash, reads the content.                    *)
IsSealed(d) == sources[d].used /\ sources[d].finalized

JobInv(j) ==
    /\ job[j].pc = "own" => Sealed(j, job[j].day)
    /\ job[j].pc \in {"hash", "features", "ingest"} => IsSealed(job[j].day)
    /\ job[j].pc \in {"features", "ingest"} =>
         /\ job[j].day \in DOMAIN job[j].hashes
         /\ job[j].hashes[job[j].day] \in Nat /\ job[j].hashes[job[j].day] <= data[job[j].day]
    /\ job[j].pc = "ingest" =>
         /\ job[j].row.from[2] \in Nat
         /\ job[j].hashes[job[j].day] <= job[j].row.from[2]
         /\ job[j].row.from[2] <= data[job[j].day]

SealInv ==
    /\ LastDay \in Nat \ {0} /\ OnlyFinalized = TRUE
    /\ data \in [Days -> Nat]
    /\ DOMAIN sources = Days /\ DOMAIN ledger = Days /\ DOMAIN job = Jobs
    /\ \A d \in Days : sources[d].used => sources[d].sha \in Nat /\ sources[d].sha <= data[d]
    /\ \A j \in Jobs : JobShape(j) /\ JobInv(j)
    /\ \A d \in Days : ledger[d].used =>
         /\ IsSealed(d)
         /\ ledger[d].from[2] \in Nat
         /\ sources[d].sha <= ledger[d].from[2] /\ ledger[d].from[2] <= data[d]

(* Sources that are recorded again stay sealed, with the hash they have.   *)
SealsStay == \A d \in Days : IsSealed(d) => IsSealed(d)' /\ sources'[d].sha = sources[d].sha

(* A source that is sealed already is only recorded again with its hash.   *)
LEMMA RecordingSeals ==
    ASSUME SealInv, NEW d \in Days, NEW final \in BOOLEAN,
           MayRecord(d, final), sources' = Recorded(d, final), UNCHANGED data
    PROVE  /\ SealsStay /\ DOMAIN sources' = Days
           /\ \A e \in Days : sources'[e].used => sources'[e].sha \in Nat /\ sources'[e].sha <= data'[e]
           /\ final => sources'[d].used /\ sources'[d].finalized
<1> DEFINE new == [used |-> TRUE, sha |-> data[d], finalized |-> final]
<1>1. DOMAIN sources' = Days /\ sources'[d] = new /\ \A e \in Days \ {d} : sources'[e] = sources[e]
  BY DEF Recorded, SealInv
<1>2. new.used = TRUE /\ new.sha = data[d] /\ new.finalized = final /\ data[d] \in Nat
  BY DEF SealInv
<1> HIDE DEF new
<1>3. SealsStay
  BY <1>1, <1>2 DEF SealsStay, MayRecord, IsSealed
<1> QED
  BY <1>1, <1>2, <1>3 DEF SealInv, IsSealed

(* A step of one job that leaves sealed sources sealed.                    *)
LEMMA SealMoves ==
    ASSUME SealInv, NEW j \in Jobs, NEW l, SetJob(j, l),
           \A k \in Jobs : JobShape(k)',
           SealsStay, DOMAIN sources' = Days, DOMAIN ledger' = Days,
           \A e \in Days : sources'[e].used => sources'[e].sha \in Nat /\ sources'[e].sha <= data'[e],
           JobInv(j)',
           \A d \in Days : \/ ledger'[d] = ledger[d]
                           \/ /\ IsSealed(d)
                              /\ ledger'[d].from[2] \in Nat
                              /\ sources[d].sha <= ledger'[d].from[2] /\ ledger'[d].from[2] <= data[d]
    PROVE  SealInv'
<1>1. DOMAIN job' = Jobs /\ \A k \in Jobs \ {j} : job'[k] = job[k]
  BY DEF SetJob, SealInv
<1>2. UNCHANGED data
  BY DEF SetJob, recording
<1>3. ASSUME NEW k \in Jobs \ {j} PROVE JobInv(k)'
  <2>1. JobInv(k) /\ JobShape(k) /\ job'[k] = job[k]
    BY <1>1 DEF SealInv
  <2>2. job[k].pc \in {"hash", "features", "ingest"} => job[k].day \in Days
    BY <2>1 DEF JobShape
  <2> QED
    BY <1>2, <2>1, <2>2 DEF JobInv, SealsStay, Sealed
<1>4. \A d \in Days : ledger'[d].used =>
         /\ IsSealed(d)'
         /\ ledger'[d].from[2] \in Nat
         /\ sources'[d].sha <= ledger'[d].from[2] /\ ledger'[d].from[2] <= data'[d]
  BY <1>2 DEF SealInv, SealsStay
<1> QED
  BY <1>1, <1>2, <1>3, <1>4 DEF SealInv

(* Every step of a job.                                                    *)
LEMMA SealKept ==
    ASSUME SealInv, NEW j \in Jobs,
           \/ BeginAccumulation(j) \/ SkipPartition(j) \/ RecordPrevious(j) \/ RecordOwn(j)
           \/ HashSources(j) \/ ComputeFeatures(j) \/ IngestSlot(j)
           \/ EndAccumulation(j) \/ AbandonAccumulation(j)
    PROVE  SealInv'
<1> USE DEF AtJob
<1>1. JobInv(j) /\ JobShape(j) /\ DOMAIN job = Jobs
  BY DEF SealInv
<1>2. \A k \in Jobs : JobShape(k)'
  BY JobMoves DEF SealInv
<1>3. UNCHANGED sources => SealsStay /\ DOMAIN sources' = Days
  BY DEF SealsStay, IsSealed, SealInv
<1>4. ASSUME NEW l, SetJob(j, l) PROVE job'[j] = l /\ UNCHANGED data
  BY <1>1, <1>4 DEF SetJob, recording
<1>5. ASSUME NEW l, SetJob(j, l), l.pc \in {"idle", "partition", "check"}, UNCHANGED <<ledger, sources>>
      PROVE  SealInv'
  <2>1. JobInv(j)'
    BY <1>4, <1>5 DEF JobInv
  <2> QED
    BY <1>2, <1>3, <1>4, <1>5, <2>1, SealMoves DEF SealInv
<1>6. CASE BeginAccumulation(j) \/ SkipPartition(j) \/ EndAccumulation(j) \/ AbandonAccumulation(j)
  BY <1>5, <1>6 DEF BeginAccumulation, SkipPartition, EndAccumulation, AbandonAccumulation, NextPartition, Idle
<1>7. CASE RecordPrevious(j)
  <2> DEFINE d == job[j].day
             l == [job[j] EXCEPT !.pc = "own"]
  <2>1. SetJob(j, l) /\ Sealed(j, d) /\ job[j].pc = "partition" /\ UNCHANGED ledger
    BY <1>7 DEF RecordPrevious, SealInv
  <2>2. /\ SealsStay /\ DOMAIN sources' = Days
        /\ \A e \in Days : sources'[e].used => sources'[e].sha \in Nat /\ sources'[e].sha <= data'[e]
    <3>1. CASE UNCHANGED sources
      BY <1>3, <1>4, <2>1, <3>1 DEF SealInv
    <3>2. CASE d - 1 \in Days /\ MayRecord(d - 1, Sealed(j, d - 1)) /\ sources' = Recorded(d - 1, Sealed(j, d - 1))
      <4>1. Sealed(j, d - 1) \in BOOLEAN
        BY DEF Sealed
      <4> QED
        BY <1>4, <2>1, <3>2, <4>1, RecordingSeals
    <3> QED
      BY <1>7, <3>1, <3>2 DEF RecordPrevious
  <2>3. JobInv(j)'
    BY <1>1, <1>4, <2>1 DEF JobInv, JobShape, Sealed
  <2> QED
    BY <1>2, <2>1, <2>2, <2>3, SealMoves DEF SealInv
<1>8. CASE RecordOwn(j)
  <2> DEFINE d == job[j].day
             l == [job[j] EXCEPT !.pc = "hash"]
  <2>1. /\ SetJob(j, l) /\ job[j].pc = "own" /\ UNCHANGED ledger
        /\ MayRecord(d, Sealed(j, d)) /\ sources' = Recorded(d, Sealed(j, d))
    BY <1>8 DEF RecordOwn
  <2>2. Sealed(j, d) /\ d \in Days
    BY <1>1, <2>1 DEF JobInv, JobShape
  <2>3. MayRecord(d, TRUE) /\ sources' = Recorded(d, TRUE)
    BY <2>1, <2>2 DEF Recorded, MayRecord
  <2>4. /\ SealsStay /\ DOMAIN sources' = Days /\ sources'[d].used /\ sources'[d].finalized
        /\ \A e \in Days : sources'[e].used => sources'[e].sha \in Nat /\ sources'[e].sha <= data'[e]
    BY <1>4, <2>1, <2>2, <2>3, RecordingSeals
  <2>5. JobInv(j)'
    BY <1>1, <1>4, <2>1, <2>4 DEF JobInv, JobShape, IsSealed
  <2> QED
    BY <1>2, <2>1, <2>4, <2>5, SealMoves DEF SealInv
<1>9. CASE HashSources(j)
  <2> DEFINE d == job[j].day
             used == {d} \cup (IF d - 1 \in Days /\ data[d - 1] # 0 THEN {d - 1} ELSE {})
             l == [pc |-> "features", day |-> d, today |-> job[j].today, hashes |-> [s \in used |-> data[s]]]
  <2>1. SetJob(j, l) /\ job[j].pc = "hash" /\ UNCHANGED <<ledger, sources>>
    BY <1>9 DEF HashSources
  <2>2. d \in used /\ d \in Days /\ data[d] \in Nat /\ IsSealed(d)
    BY <1>1, <2>1 DEF JobInv, JobShape, SealInv
  <2>3. l.pc = "features" /\ l.day = d /\ d \in DOMAIN l.hashes /\ l.hashes[d] = data[d]
    BY <2>2
  <2> HIDE DEF l
  <2>4. JobInv(j)'
    BY <1>4, <2>1, <2>2, <2>3 DEF JobInv, IsSealed
  <2> QED
    BY <1>2, <1>3, <1>4, <2>1, <2>4, SealMoves DEF SealInv
<1>10. CASE ComputeFeatures(j)
  <2> DEFINE d == job[j].day
             row == [used |-> TRUE, from |-> <<Version(d - 1), data[d]>>, baseline |-> d \in candles]
             l == [pc |-> "ingest", day |-> d, today |-> job[j].today, hashes |-> job[j].hashes, row |-> row]
  <2>1. SetJob(j, l) /\ job[j].pc = "features" /\ UNCHANGED <<ledger, sources>>
    BY <1>10 DEF ComputeFeatures
  <2>2. d \in Days /\ data[d] \in Nat /\ row.from[2] = data[d]
    BY <1>1, <2>1 DEF JobShape, SealInv
  <2>3. l.pc = "ingest" /\ l.day = d /\ l.hashes = job[j].hashes /\ l.row.from[2] = data[d]
    BY <2>2
  <2> HIDE DEF l
  <2>4. JobInv(j)'
    BY <1>1, <1>4, <2>1, <2>2, <2>3 DEF JobInv, IsSealed
  <2> QED
    BY <1>2, <1>3, <1>4, <2>1, <2>4, SealMoves DEF SealInv
<1>11. CASE IngestSlot(j)
  <2> DEFINE d == job[j].day
  <2>1. /\ SetJob(j, NextPartition(j)) /\ job[j].pc = "ingest" /\ UNCHANGED sources
        /\ SourcesAgree(job[j].hashes) /\ ledger' = [ledger EXCEPT ![d] = job[j].row]
    BY <1>11 DEF IngestSlot
  <2>2. d \in Days /\ IsSealed(d) /\ sources[d].sha = job[j].hashes[d]
    BY <1>1, <2>1 DEF JobInv, JobShape, SourcesAgree, IsSealed
  <2>3. \A e \in Days : \/ ledger'[e] = ledger[e]
                        \/ /\ IsSealed(e)
                           /\ ledger'[e].from[2] \in Nat
                           /\ sources[e].sha <= ledger'[e].from[2] /\ ledger'[e].from[2] <= data[e]
    BY <1>1, <2>1, <2>2 DEF JobInv, SealInv
  <2>4. JobInv(j)'
    BY <1>4, <2>1 DEF JobInv, NextPartition
  <2> QED
    BY <1>2, <1>3, <1>4, <2>1, <2>3, <2>4, SealMoves DEF SealInv
<1> QED
  BY <1>6, <1>7, <1>8, <1>9, <1>10, <1>11

LEMMA SealInductive == ASSUME LastDay \in Nat \ {0}, OnlyFinalized = TRUE PROVE Spec => []SealInv
<1>1. Init => SealInv
  BY DEF Init, SealInv, JobShape, JobInv, Idle, NoRow
<1>2. SealInv /\ [Next]_vars => SealInv'
  <2> SUFFICES ASSUME SealInv, [Next]_vars PROVE SealInv'
    OBVIOUS
  <2>1. ASSUME NEW d \in Days, Record(d) PROVE SealInv'
    <3>1. data' \in [Days -> Nat] /\ \A e \in Days : data[e] <= data'[e]
      BY <2>1 DEF Record, SealInv
    <3>2. UNCHANGED <<ledger, sources, job>>
      BY <2>1 DEF Record
    <3>3. ASSUME NEW j \in Jobs PROVE JobInv(j)'
      <4>1. job[j].pc \in {"features", "ingest"} =>
              /\ job[j].day \in Days
              /\ data[job[j].day] \in Nat /\ data'[job[j].day] \in Nat /\ data[job[j].day] <= data'[job[j].day]
        BY <3>1 DEF SealInv, JobShape
      <4> QED
        BY <3>2, <4>1 DEF SealInv, JobInv, IsSealed, Sealed
    <3>4. \A e \in Days : data[e] \in Nat /\ data'[e] \in Nat
      BY <3>1 DEF SealInv
    <3> QED
      BY <3>1, <3>2, <3>3, <3>4 DEF SealInv, JobShape, IsSealed
  <2>2. ASSUME UNCHANGED <<data, ledger, sources, job>> PROVE SealInv'
    BY <2>2 DEF SealInv, JobShape, JobInv, IsSealed, Sealed
  <2>3. ASSUME NEW d \in Days, CandlesArrive(d) PROVE SealInv'
    BY <2>2, <2>3 DEF CandlesArrive
  <2>4. CASE Midnight \/ CheckReadiness \/ BackupLedger \/ WriteManifest \/ AbandonFreeze \/ CommitManifest
    BY <2>2, <2>4 DEF Midnight, CheckReadiness, BackupLedger, WriteManifest, AbandonFreeze, CommitManifest, recording
  <2>5. ASSUME NEW x \in Executions,
               \/ VerifyFreeze(x) \/ VerifyCommitted(x) \/ Precheck(x) \/ ReserveExecution(x)
               \/ LoadLabels(x) \/ WriteReceipt(x) \/ CompleteExecution(x) \/ AbandonExecution(x)
        PROVE  SealInv'
    <3>1. UNCHANGED <<data, ledger, sources, job>>
      BY <2>5 DEF VerifyFreeze, VerifyCommitted, Precheck, ReserveExecution, LoadLabels, WriteReceipt,
                  CompleteExecution, AbandonExecution, SetExec, recording
    <3> QED
      BY <2>2, <3>1
  <2>6. CASE UNCHANGED vars
    BY <2>2, <2>6 DEF vars, recording
  <2> QED
    BY <2>1, <2>3, <2>4, <2>5, <2>6, SealKept DEF Next
<1> QED
  BY <1>1, <1>2, PTL DEF Spec

(* With only_finalized, the row of a slot was computed from the present    *)
(* content of its partition as long as the sealed hashes are right.        *)
(* (accumulate_blind_validation, record_or_verify_source_partition)        *)
THEOREM SealedRows ==
    ASSUME LastDay \in Nat \ {0}, OnlyFinalized = TRUE
    PROVE  Spec => []SealedRowsSound
<1>1. SealInv => SealedRowsSound
  BY DEF SealInv, SealedRowsSound, IntegrityOK
<1> QED
  BY <1>1, SealInductive, PTL

----------------------------------------------------------------------------

(***************************************************************************)
(* The ledger of the recorder, on whose sealed days the blind validation   *)
(* rests: for every length of a day, lease, grace and number of starts.    *)
(* Its manifest, whose name the validation uses too, is sealed here.       *)
(*                                                                         *)
(* Coverage: a beat is never later than the life of its process            *)
(* (BeatsWereAlive), so the lease that recovery ends a segment with runs   *)
(* out within one lease of the end of the process.                         *)
(*                                                                         *)
(* Sealed days: every statement asks the manifest for the day of the row   *)
(* it writes but two.  The end of a session closes the session and its     *)
(* segments in the session's day: that day is not sealed, since no open    *)
(* session is in a sealed day, and a connected stream has an open one      *)
(* (SocketsHaveSessions).  A recovered gap begins where a lease ends,      *)
(* which may be a later day than that of the instance: no such day is      *)
(* sealed, because the stop that seals a day first recovers every instance *)
(* whose lease had run out by then, and the lease of any other ends later  *)
(* than the day (SealedIsPast).                                            *)
(***************************************************************************)
CONSTANTS Streams, Day, LastTime, Lease, Grace, MaxRuns, MaxSessions
VARIABLES now, run, runs, socket, instances, sessions, segments, gaps, sealed, dead

Rec == INSTANCE RecorderLedger WITH manifest <- sealed

(* The constants as the recorder is configured. *)
ConstantsOK == Day \in Nat \ {0} /\ Lease \in Nat /\ Grace \in Nat /\ MaxRuns \in Nat

(* The clock, the instances begun so far and the running one. *)
CountersOK ==
    /\ now \in Nat /\ runs \in Nat /\ runs <= MaxRuns
    /\ run \in 0 .. runs
    /\ DOMAIN dead = Rec!Runs /\ dead = [r \in Rec!Runs |-> dead[r]]
    /\ \A r \in 1 .. runs : r # run => dead[r] \in Nat
    /\ DOMAIN socket = Streams /\ socket = [s \in Streams |-> socket[s]]

(* The rows of the partitions. *)
InstanceRow(i) ==
    /\ i = [id |-> i.id, day |-> i.day, beat |-> i.beat, st |-> i.st]
    /\ i.id \in 1 .. runs /\ i.beat \in Nat
SessionRow(x) ==
    /\ x = [run |-> x.run, stream |-> x.stream, n |-> x.n, day |-> x.day, open |-> x.open]
    /\ x.open \in BOOLEAN
SegmentRow(g) ==
    /\ g = [run |-> g.run, stream |-> g.stream, n |-> g.n, day |-> g.day, end |-> g.end,
            valid |-> g.valid, open |-> g.open]
    /\ g.run \in 1 .. runs /\ g.end \in Nat /\ g.open \in BOOLEAN
RowsOK ==
    /\ \A i \in instances : InstanceRow(i)
    /\ \A x \in sessions : SessionRow(x)
    /\ \A g \in segments : SegmentRow(g)

(* The last instant at which a run was alive. *)
AliveUntil(r) == IF r = run THEN now ELSE dead[r]

(* No heartbeat is later than the life of its process. *)
BeatsWereAlive == \A i \in instances : i.beat <= AliveUntil(i.id)

(* A connected stream has its open session, and only a running instance is *)
(* connected.                                                              *)
SocketsHaveSessions ==
    \A s \in Streams : socket[s] =>
        /\ run # 0
        /\ \E x \in sessions : x.run = run /\ x.stream = s /\ x.open

(* What a sealed day is: past, with no open session, and older than the     *)
(* lease of every instance that recovery may still reach.                   *)
SealedIsPast ==
    /\ \A d \in sealed : d \in Nat /\ (d + 1) * Day <= now
    /\ \A x \in sessions : x.open => x.day \notin sealed
    /\ \A i \in instances : i.st = "ACTIVE" /\ i.day \notin sealed =>
          \A d \in sealed : (d + 1) * Day <= i.beat + Lease

AliveInv == ConstantsOK /\ CountersOK /\ RowsOK /\ BeatsWereAlive /\ Rec!CoverageWasAlive
LedgerInv == AliveInv /\ SocketsHaveSessions /\ SealedIsPast

----------------------------------------------------------------------------
(* What the statements make of a row.                                       *)

(* recover_orphan_instances ends the expired rows, and those only. *)
LEMMA RecoveredInstance ==
    ASSUME RowsOK, NEW O \in SUBSET instances, NEW i \in Rec!RecoveredInstances(O)
    PROVE  \E j \in instances :
              /\ InstanceRow(i)
              /\ i.id = j.id /\ i.day = j.day /\ i.beat = j.beat
              /\ i.st = "ACTIVE" => i = j /\ j \notin O
<1>1. CASE i \in instances \ O
  BY <1>1 DEF RowsOK
<1>2. CASE i \in {[o EXCEPT !.st = "ORPHANED"] : o \in O}
  <2>1. PICK o \in O : i = [o EXCEPT !.st = "ORPHANED"]
    BY <1>2
  <2>2. InstanceRow(o)
    BY DEF RowsOK
  <2>3. i = [id |-> o.id, day |-> o.day, beat |-> o.beat, st |-> "ORPHANED"]
    BY <2>1, <2>2 DEF InstanceRow
  <2> QED BY <2>2, <2>3 DEF InstanceRow
<1> QED BY <1>1, <1>2 DEF Rec!RecoveredInstances

LEMMA RecoveredSession ==
    ASSUME RowsOK, NEW O, NEW x \in Rec!RecoveredSessions(O)
    PROVE  \E y \in sessions :
              /\ SessionRow(x)
              /\ x.run = y.run /\ x.stream = y.stream /\ x.day = y.day
              /\ x.open => x = y
              /\ x = y \/ (\E o \in O : o.id = y.run /\ o.day = y.day)
<1>1. PICK y \in sessions :
          x = IF \E o \in O : y.run = o.id /\ y.day = o.day THEN [y EXCEPT !.open = FALSE] ELSE y
  BY DEF Rec!RecoveredSessions
<1>2. SessionRow(y)
  BY DEF RowsOK
<1>3. CASE \E o \in O : y.run = o.id /\ y.day = o.day
  <2>1. x = [run |-> y.run, stream |-> y.stream, n |-> y.n, day |-> y.day, open |-> FALSE]
    BY <1>1, <1>2, <1>3 DEF SessionRow
  <2> QED BY <1>3, <2>1 DEF SessionRow
<1>4. CASE ~ \E o \in O : y.run = o.id /\ y.day = o.day
  BY <1>1, <1>2, <1>4
<1> QED BY <1>3, <1>4

LEMMA RecoveredSegment ==
    ASSUME RowsOK, Lease \in Nat, NEW O \in SUBSET instances, NEW g \in Rec!RecoveredSegments(O)
    PROVE  \E h \in segments :
              /\ SegmentRow(g)
              /\ g.run = h.run /\ g.day = h.day
              /\ g = h \/ (\E o \in O : o.id = h.run /\ o.day = h.day /\ g.end = o.beat + Lease)
<1>1. PICK h \in segments :
          g = LET mine == {o \in O : h.run = o.id /\ h.day = o.day} IN
              IF mine = {} \/ ~h.open THEN h
              ELSE [h EXCEPT !.open = FALSE, !.end = Rec!LeaseEnd(CHOOSE o \in mine : TRUE)]
  BY DEF Rec!RecoveredSegments
<1> DEFINE mine == {o \in O : h.run = o.id /\ h.day = o.day}
<1>2. SegmentRow(h)
  BY DEF RowsOK
<1>3. CASE mine = {} \/ ~h.open
  BY <1>1, <1>2, <1>3
<1>4. CASE ~(mine = {} \/ ~h.open)
  <2>1. PICK o \in mine : o = CHOOSE q \in mine : TRUE
    BY <1>4
  <2>2. g = [h EXCEPT !.open = FALSE, !.end = o.beat + Lease]
    BY <1>1, <1>4, <2>1 DEF Rec!LeaseEnd
  <2>3. o \in O /\ o.id = h.run /\ o.day = h.day /\ o.beat \in Nat
    BY DEF RowsOK, InstanceRow
  <2>4. g = [run |-> h.run, stream |-> h.stream, n |-> h.n, day |-> h.day,
             end |-> o.beat + Lease, valid |-> h.valid, open |-> FALSE]
    BY <1>2, <2>2 DEF SegmentRow
  <2>5. o.beat + Lease \in Nat
    BY <2>3
  <2>6. SegmentRow(g)
    BY <1>2, <2>4, <2>5 DEF SegmentRow
  <2> QED BY <2>3, <2>4, <2>6
<1> QED BY <1>3, <1>4

(* A row that is closed or carried on. *)
LEMMA ClosedSegment ==
    ASSUME NEW g, SegmentRow(g), NEW t \in Nat
    PROVE  /\ SegmentRow(Rec!Closed(g, t)) /\ Rec!Closed(g, t).run = g.run
           /\ Rec!Closed(g, t).day = g.day /\ Rec!Closed(g, t).end = t
           /\ SegmentRow([g EXCEPT !.end = t]) /\ [g EXCEPT !.end = t].run = g.run
           /\ [g EXCEPT !.end = t].day = g.day /\ [g EXCEPT !.end = t].end = t
<1>0. g = [run |-> g.run, stream |-> g.stream, n |-> g.n, day |-> g.day, end |-> g.end,
           valid |-> g.valid, open |-> g.open]
  BY DEF SegmentRow
<1>1. ASSUME NEW c, c = [g EXCEPT !.open = FALSE, !.end = t]
      PROVE  SegmentRow(c) /\ c.run = g.run /\ c.day = g.day /\ c.end = t
  <2>1. c = [run |-> g.run, stream |-> g.stream, n |-> g.n, day |-> g.day,
             end |-> t, valid |-> g.valid, open |-> FALSE]
    BY <1>0, <1>1
  <2> QED BY <2>1 DEF SegmentRow
<1>2. [g EXCEPT !.end = t] = [run |-> g.run, stream |-> g.stream, n |-> g.n, day |-> g.day,
                              end |-> t, valid |-> g.valid, open |-> g.open]
  BY DEF SegmentRow
<1>3. /\ SegmentRow(Rec!Closed(g, t)) /\ Rec!Closed(g, t).run = g.run
      /\ Rec!Closed(g, t).day = g.day /\ Rec!Closed(g, t).end = t
  BY <1>1 DEF Rec!Closed
<1> QED BY <1>2, <1>3 DEF SegmentRow

(* heartbeat carries on the open rows of one run in the open partitions. *)
LEMMA BeatSegment ==
    ASSUME NEW G, \A h \in G : SegmentRow(h), NEW r, NEW t \in Nat, NEW g \in Rec!Beat(G, r, t)
    PROVE  \E h \in G :
              /\ SegmentRow(g) /\ g.run = h.run /\ g.day = h.day
              /\ g = h \/ (h.run = r /\ Rec!Writable(h.day) /\ g.end = t)
<1>1. PICK h \in G :
          g = IF h.run = r /\ h.open /\ Rec!Writable(h.day) THEN [h EXCEPT !.end = t] ELSE h
  BY DEF Rec!Beat
<1> QED BY <1>1, ClosedSegment

LEMMA BeatInstance ==
    ASSUME NEW I, \A j \in I : InstanceRow(j), NEW r, NEW t \in Nat,
           NEW i \in Rec!BeatInstances(I, r, t)
    PROVE  \E j \in I :
              /\ InstanceRow(i) /\ i.id = j.id /\ i.day = j.day /\ i.st = j.st
              /\ \/ i = j /\ ~(j.id = r /\ j.st = "ACTIVE" /\ Rec!Writable(j.day))
                 \/ j.id = r /\ j.st = "ACTIVE" /\ Rec!Writable(j.day) /\ i.beat = t
<1>1. PICK j \in I : i = IF j.id = r /\ j.st = "ACTIVE" /\ Rec!Writable(j.day)
                         THEN [j EXCEPT !.beat = t] ELSE j
  BY DEF Rec!BeatInstances
<1>2. InstanceRow(j)
  OBVIOUS
<1>3. CASE j.id = r /\ j.st = "ACTIVE" /\ Rec!Writable(j.day)
  <2>1. i = [id |-> j.id, day |-> j.day, beat |-> t, st |-> j.st]
    BY <1>1, <1>2, <1>3 DEF InstanceRow
  <2> QED BY <1>2, <1>3, <2>1 DEF InstanceRow
<1>4. CASE ~(j.id = r /\ j.st = "ACTIVE" /\ Rec!Writable(j.day))
  BY <1>1, <1>2, <1>4
<1> QED BY <1>3, <1>4

----------------------------------------------------------------------------
(* Coverage.                                                                *)

SegmentAlive(g) == g.end <= IF g.run = run THEN now ELSE dead[g.run] + Lease
InstanceAlive(i) == i.beat <= AliveUntil(i.id)

(* The lease of a dead instance ends within one lease of its death, and so  *)
(* do the segments that recovery closes.                                    *)
LEMMA RecoveredIsAlive ==
    ASSUME AliveInv, NEW t, NEW O \in SUBSET Rec!Orphans(t, run)
    PROVE  /\ \A g \in Rec!RecoveredSegments(O) : SegmentRow(g) /\ SegmentAlive(g)
           /\ \A i \in Rec!RecoveredInstances(O) : InstanceRow(i) /\ InstanceAlive(i)
           /\ \A x \in Rec!RecoveredSessions(O) : SessionRow(x)
<1>1. RowsOK /\ Lease \in Nat /\ O \in SUBSET instances
  BY DEF AliveInv, ConstantsOK, Rec!Orphans
<1>2. ASSUME NEW g \in Rec!RecoveredSegments(O)
      PROVE  SegmentRow(g) /\ SegmentAlive(g)
  <2>1. PICK h \in segments :
              /\ SegmentRow(g)
              /\ g.run = h.run /\ g.day = h.day
              /\ g = h \/ (\E o \in O : o.id = h.run /\ o.day = h.day /\ g.end = o.beat + Lease)
    BY <1>1, RecoveredSegment
  <2>2. CASE g = h
    BY <2>1, <2>2 DEF AliveInv, Rec!CoverageWasAlive, SegmentAlive
  <2>3. CASE \E o \in O : o.id = h.run /\ o.day = h.day /\ g.end = o.beat + Lease
    <3>1. PICK o \in O : o.id = h.run /\ g.end = o.beat + Lease
      BY <2>3
    <3>2. o \in instances /\ o.id # run
      BY DEF Rec!Orphans
    <3>3. o.beat <= dead[o.id] /\ o.beat \in Nat /\ o.id \in 1 .. runs
      BY <3>2 DEF AliveInv, BeatsWereAlive, AliveUntil, RowsOK, InstanceRow
    <3>4. dead[o.id] \in Nat
      BY <3>2, <3>3 DEF AliveInv, CountersOK
    <3> QED BY <1>1, <2>1, <3>1, <3>2, <3>3, <3>4 DEF SegmentAlive
  <2> QED BY <2>1, <2>2, <2>3
<1>3. ASSUME NEW i \in Rec!RecoveredInstances(O)
      PROVE  InstanceRow(i) /\ InstanceAlive(i)
  BY <1>1, RecoveredInstance DEF AliveInv, BeatsWereAlive, InstanceAlive
<1>4. ASSUME NEW x \in Rec!RecoveredSessions(O)
      PROVE  SessionRow(x)
  BY <1>1, RecoveredSession
<1> QED BY <1>2, <1>3, <1>4

(* A segment that the running instance opens, closes or carries on ends     *)
(* now.                                                                     *)
LEMMA OpenedIsAlive ==
    ASSUME AliveInv, run # 0, NEW G, \A g \in G : SegmentRow(g) /\ SegmentAlive(g),
           NEW s, NEW n, NEW v, NEW g \in Rec!OpenSegment(G, s, n, v)
    PROVE  SegmentRow(g) /\ SegmentAlive(g)
<1>1. now \in Nat /\ run \in 1 .. runs
  BY DEF AliveInv, CountersOK
<1>2. CASE g \in G
  BY <1>2
<1>3. CASE g \notin G
  <2>1. g = [run |-> run, stream |-> s, n |-> n, day |-> Rec!DayOf(now), end |-> now,
             valid |-> v, open |-> TRUE]
    BY <1>3 DEF Rec!OpenSegment
  <2>2. g.run = run /\ g.end = now /\ g.open = TRUE
    BY <2>1
  <2>3. SegmentRow(g)
    BY <1>1, <2>1 DEF SegmentRow
  <2> QED BY <1>1, <2>2, <2>3 DEF SegmentAlive
<1> QED BY <1>2, <1>3

LEMMA EndedNowIsAlive ==
    ASSUME AliveInv, NEW h, SegmentRow(h), h.run = run
    PROVE  /\ SegmentRow(Rec!Closed(h, now)) /\ SegmentAlive(Rec!Closed(h, now))
           /\ SegmentRow([h EXCEPT !.end = now]) /\ SegmentAlive([h EXCEPT !.end = now])
<1>1. now \in Nat
  BY DEF AliveInv, CountersOK
<1> HIDE DEF Rec!Closed
<1>2. /\ SegmentRow(Rec!Closed(h, now))
      /\ Rec!Closed(h, now).run = h.run /\ Rec!Closed(h, now).end = now
      /\ SegmentRow([h EXCEPT !.end = now]) /\ [h EXCEPT !.end = now].run = h.run
      /\ [h EXCEPT !.end = now].end = now
  BY <1>1, ClosedSegment
<1>3. \A c : c.run = run /\ c.end = now => SegmentAlive(c)
  BY <1>1 DEF SegmentAlive
<1> QED BY <1>2, <1>3

LEMMA SegmentsAreAlive ==
    ASSUME AliveInv
    PROVE  \A g \in segments : SegmentRow(g) /\ SegmentAlive(g)
BY DEF AliveInv, RowsOK, Rec!CoverageWasAlive, SegmentAlive

(* depth_sequence_state. *)
LEMMA SequenceIsAlive ==
    ASSUME AliveInv, run # 0, NEW v, NEW g \in Rec!SequenceState(v)
    PROVE  SegmentRow(g) /\ SegmentAlive(g)
<1> DEFINE G == {IF h.run = run /\ h.stream = "depth" /\ h.open /\ Rec!Writable(h.day)
                 THEN Rec!Closed(h, now) ELSE h : h \in segments}
<1>1. ASSUME NEW c \in G
      PROVE  SegmentRow(c) /\ SegmentAlive(c)
  <2>1. PICK h \in segments :
            c = IF h.run = run /\ h.stream = "depth" /\ h.open /\ Rec!Writable(h.day)
                THEN Rec!Closed(h, now) ELSE h
    OBVIOUS
  <2>2. SegmentRow(h) /\ SegmentAlive(h)
    BY SegmentsAreAlive
  <2> QED BY <2>1, <2>2, EndedNowIsAlive
<1>2. g \in Rec!OpenSegment(G, "depth", Rec!SegmentNo("depth"), v)
  BY DEF Rec!SequenceState
<1> QED BY <1>1, <1>2, OpenedIsAlive

(* A step of the running instance keeps the invariant when its rows do. *)
LEMMA AliveStep ==
    ASSUME AliveInv, now' = now, run' = run, runs' = runs, dead' = dead,
           DOMAIN socket' = Streams, socket' = [s \in Streams |-> socket'[s]],
           \A g \in segments' : SegmentRow(g) /\ SegmentAlive(g),
           \A i \in instances' : InstanceRow(i) /\ InstanceAlive(i),
           \A x \in sessions' : SessionRow(x)
    PROVE  AliveInv'
<1>1. ConstantsOK' /\ CountersOK'
  BY DEF AliveInv, ConstantsOK, CountersOK
<1>2. RowsOK'
  BY DEF RowsOK, SegmentRow, InstanceRow, SessionRow
<1>3. BeatsWereAlive' /\ Rec!CoverageWasAlive'
  BY DEF BeatsWereAlive, InstanceAlive, AliveUntil, Rec!CoverageWasAlive, SegmentAlive
<1> QED BY <1>1, <1>2, <1>3 DEF AliveInv

LEMMA InstancesAreAlive ==
    ASSUME AliveInv
    PROVE  /\ \A i \in instances : InstanceRow(i) /\ InstanceAlive(i)
           /\ \A x \in sessions : SessionRow(x)
BY DEF AliveInv, RowsOK, BeatsWereAlive, InstanceAlive

LEMMA TickAlive ==
    ASSUME AliveInv, Rec!Tick
    PROVE  AliveInv'
<1>1. /\ now' = now + 1 /\ run' = run /\ runs' = runs /\ dead' = dead /\ socket' = socket
      /\ segments' = segments /\ instances' = instances /\ sessions' = sessions
  BY DEF Rec!Tick
<1>2. ConstantsOK' /\ CountersOK'
  BY <1>1 DEF AliveInv, ConstantsOK, CountersOK
<1>3. RowsOK'
  BY <1>1 DEF AliveInv, RowsOK, SegmentRow, InstanceRow, SessionRow
<1>4. BeatsWereAlive' /\ Rec!CoverageWasAlive'
  BY <1>1 DEF AliveInv, BeatsWereAlive, AliveUntil, Rec!CoverageWasAlive, CountersOK, RowsOK,
              InstanceRow, SegmentRow
<1> QED BY <1>2, <1>3, <1>4 DEF AliveInv

(* What ends the life of the running process: its rows are within its life *)
(* before it, and within the lease after it.                               *)
LEMMA DeathKeepsAlive ==
    ASSUME AliveInv, run # 0, run' = 0, now' = now, runs' = runs,
           dead' = [dead EXCEPT ![run] = now],
           socket' = [s \in Streams |-> FALSE],
           \A g \in segments' : SegmentRow(g) /\ SegmentAlive(g),
           \A i \in instances' : InstanceRow(i) /\ InstanceAlive(i),
           \A x \in sessions' : SessionRow(x)
    PROVE  AliveInv'
<1>1. /\ now \in Nat /\ runs \in Nat /\ runs <= MaxRuns /\ run \in 1 .. runs
      /\ MaxRuns \in Nat /\ Lease \in Nat
      /\ DOMAIN dead = Rec!Runs /\ run \in Rec!Runs
      /\ \A r \in 1 .. runs : r # run => dead[r] \in Nat
  <2>1. /\ now \in Nat /\ runs \in Nat /\ runs <= MaxRuns /\ run \in 1 .. runs
        /\ MaxRuns \in Nat /\ Lease \in Nat
    BY DEF AliveInv, CountersOK, ConstantsOK
  <2>2. run \in Rec!Runs
    BY <2>1 DEF Rec!Runs
  <2> QED BY <2>1, <2>2 DEF AliveInv, CountersOK
<1>2. /\ dead'[run] = now /\ \A r \in 1 .. runs : r # run => dead'[r] = dead[r]
  BY <1>1 DEF Rec!Runs
<1>3. dead' = [r \in Rec!Runs |-> dead'[r]] /\ DOMAIN dead' = Rec!Runs
  BY <1>1
<1>4. ConstantsOK' /\ CountersOK'
  <2>1. ConstantsOK'
    BY DEF AliveInv, ConstantsOK
  <2>2. \A r \in 1 .. runs : dead'[r] \in Nat
    BY <1>1, <1>2
  <2>3. DOMAIN socket' = Streams /\ socket' = [s \in Streams |-> socket'[s]]
    OBVIOUS
  <2> QED BY <1>1, <1>3, <2>1, <2>2, <2>3 DEF CountersOK, Rec!Runs
<1>5. RowsOK'
  BY DEF RowsOK, SegmentRow, InstanceRow, SessionRow
<1>6. BeatsWereAlive'
  <2> SUFFICES ASSUME NEW i \in instances' PROVE i.beat <= AliveUntil(i.id)'
    BY DEF BeatsWereAlive
  <2>1. i.id \in 1 .. runs /\ i.id # 0 /\ i.beat \in Nat
    BY <1>1 DEF InstanceRow
  <2>2. AliveUntil(i.id)' = AliveUntil(i.id)
    BY <1>1, <1>2, <2>1 DEF AliveUntil
  <2> QED BY <2>1, <2>2 DEF InstanceAlive
<1>7. Rec!CoverageWasAlive'
  <2> SUFFICES ASSUME NEW g \in segments' PROVE g.end <= dead'[g.run] + Lease
    <3>1. \A g \in segments' : g.run # run'
      BY <1>1 DEF SegmentRow
    <3> QED BY <3>1 DEF Rec!CoverageWasAlive
  <2>1. g.run \in 1 .. runs /\ g.end \in Nat /\ SegmentAlive(g)
    BY DEF SegmentRow
  <2>2. CASE g.run = run
    BY <1>1, <1>2, <2>1, <2>2 DEF SegmentAlive
  <2>3. CASE g.run # run
    BY <1>1, <1>2, <2>1, <2>3 DEF SegmentAlive
  <2> QED BY <2>2, <2>3
<1> QED BY <1>4, <1>5, <1>6, <1>7 DEF AliveInv

LEMMA CrashAlive ==
    ASSUME AliveInv, Rec!Crash
    PROVE  AliveInv'
<1>1. /\ run # 0 /\ run' = 0 /\ now' = now /\ runs' = runs
      /\ dead' = [dead EXCEPT ![run] = now]
      /\ socket' = [s \in Streams |-> FALSE]
      /\ segments' = segments /\ instances' = instances /\ sessions' = sessions
  BY DEF Rec!Crash
<1> QED BY <1>1, DeathKeepsAlive, SegmentsAreAlive, InstancesAreAlive

LEMMA StartAlive ==
    ASSUME AliveInv, Rec!Start
    PROVE  AliveInv'
<1> DEFINE O == Rec!Orphans(now, 0)
<1>0. PICK new : new = [id |-> runs + 1, day |-> Rec!DayOf(now), beat |-> now, st |-> "ACTIVE"]
  OBVIOUS
<1>1. /\ run = 0 /\ runs < MaxRuns /\ run' = runs + 1 /\ runs' = runs + 1
      /\ now' = now /\ dead' = dead /\ socket' = socket
      /\ instances' = Rec!RecoveredInstances(O) \cup {new}
      /\ sessions' = Rec!RecoveredSessions(O) /\ segments' = Rec!RecoveredSegments(O)
  BY <1>0 DEF Rec!Start
<1>2. O \in SUBSET Rec!Orphans(now, run)
  BY <1>1
<1>3. /\ now \in Nat /\ runs \in Nat /\ MaxRuns \in Nat /\ Lease \in Nat
      /\ \A r \in 1 .. runs : dead[r] \in Nat
  BY <1>1 DEF AliveInv, CountersOK, ConstantsOK
<1>4. /\ \A g \in segments' : SegmentRow(g) /\ SegmentAlive(g)
      /\ \A i \in Rec!RecoveredInstances(O) : InstanceRow(i) /\ InstanceAlive(i)
      /\ \A x \in sessions' : SessionRow(x)
  BY <1>1, <1>2, RecoveredIsAlive
<1>5. ConstantsOK' /\ CountersOK'
  <2>1. \A r \in 1 .. runs' : r # run' => dead'[r] \in Nat
    BY <1>1, <1>3
  <2>2. runs' \in Nat /\ runs' <= MaxRuns /\ run' \in 0 .. runs'
    BY <1>1, <1>3
  <2>3. ConstantsOK'
    BY DEF AliveInv, ConstantsOK
  <2>4. /\ DOMAIN dead = Rec!Runs /\ dead = [r \in Rec!Runs |-> dead[r]]
        /\ DOMAIN socket = Streams /\ socket = [s \in Streams |-> socket[s]]
    BY DEF AliveInv, CountersOK
  <2> QED BY <1>1, <1>3, <2>1, <2>2, <2>3, <2>4 DEF CountersOK, Rec!Runs
<1>6. \A i \in Rec!RecoveredInstances(O) : InstanceRow(i)' /\ i.beat <= AliveUntil(i.id)'
  <2> SUFFICES ASSUME NEW i \in Rec!RecoveredInstances(O)
               PROVE  InstanceRow(i)' /\ i.beat <= AliveUntil(i.id)'
    OBVIOUS
  <2>1. InstanceRow(i) /\ InstanceAlive(i)
    BY <1>4
  <2>2. i.id \in 1 .. runs
    BY <2>1 DEF InstanceRow
  <2>3. i.id \in 1 .. runs' /\ i.id # run' /\ i.id # run
    BY <1>1, <1>3, <2>2
  <2> QED BY <1>1, <2>1, <2>3 DEF InstanceRow, InstanceAlive, AliveUntil
<1>7. InstanceRow(new)' /\ new.beat <= AliveUntil(new.id)'
  BY <1>0, <1>1, <1>3 DEF InstanceRow, AliveUntil
<1>8. \A g \in segments' : SegmentRow(g)' /\ g.end <= dead'[g.run] + Lease /\ g.run # run'
  <2> SUFFICES ASSUME NEW g \in segments'
               PROVE  SegmentRow(g)' /\ g.end <= dead'[g.run] + Lease /\ g.run # run'
    OBVIOUS
  <2>1. SegmentRow(g) /\ SegmentAlive(g)
    BY <1>4
  <2>2. g.run \in 1 .. runs
    BY <2>1 DEF SegmentRow
  <2>3. g.run \in 1 .. runs' /\ g.run # run' /\ g.run # run
    BY <1>1, <1>3, <2>2
  <2> QED BY <1>1, <2>1, <2>3 DEF SegmentRow, SegmentAlive
<1> HIDE DEF O
<1>9. RowsOK'
  BY <1>1, <1>4, <1>6, <1>7, <1>8 DEF RowsOK, SessionRow
<1>10. BeatsWereAlive' /\ Rec!CoverageWasAlive'
  BY <1>1, <1>6, <1>7, <1>8 DEF BeatsWereAlive, Rec!CoverageWasAlive
<1> QED BY <1>5, <1>9, <1>10 DEF AliveInv

(* The session that session_end closes. *)
EndedSession(s) == CHOOSE x \in sessions : x.run = run /\ x.stream = s /\ x.open

LEMMA EndedSessionIsOpen ==
    ASSUME SocketsHaveSessions, NEW s \in Streams, socket[s]
    PROVE  /\ EndedSession(s) \in sessions /\ EndedSession(s).run = run
           /\ EndedSession(s).stream = s /\ EndedSession(s).open
BY DEF SocketsHaveSessions, EndedSession

LEMMA SocketsStayShaped ==
    ASSUME AliveInv, NEW s \in Streams, NEW b, socket' = [socket EXCEPT ![s] = b]
    PROVE  DOMAIN socket' = Streams /\ socket' = [q \in Streams |-> socket'[q]]
BY DEF AliveInv, CountersOK

LEMMA ConnectAlive ==
    ASSUME AliveInv, NEW s \in Streams, Rec!Connect(s)
    PROVE  AliveInv'
<1> DEFINE n == Rec!Cardinality({x \in sessions : x.run = run /\ x.stream = s})
<1>1. /\ run # 0 /\ now' = now /\ run' = run /\ runs' = runs /\ dead' = dead
      /\ socket' = [socket EXCEPT ![s] = TRUE] /\ instances' = instances
      /\ sessions' = sessions \cup {[run |-> run, stream |-> s, n |-> n,
                                     day |-> Rec!DayOf(now), open |-> TRUE]}
      /\ segments' = Rec!OpenSegment(segments, s, Rec!SegmentNo(s), s = "trade")
  BY DEF Rec!Connect
<1>2. \A g \in segments' : SegmentRow(g) /\ SegmentAlive(g)
  BY <1>1, OpenedIsAlive, SegmentsAreAlive
<1>3. \A x \in sessions' : SessionRow(x)
  <2> HIDE DEF n
  <2>1. SessionRow([run |-> run, stream |-> s, n |-> n, day |-> Rec!DayOf(now), open |-> TRUE])
    BY DEF SessionRow
  <2> QED BY <1>1, <2>1, InstancesAreAlive
<1> QED BY <1>1, <1>2, <1>3, SocketsStayShaped, InstancesAreAlive, AliveStep

LEMMA SynchroniseAlive ==
    ASSUME AliveInv, Rec!Synchronise
    PROVE  AliveInv'
<1>1. /\ run # 0 /\ now' = now /\ run' = run /\ runs' = runs /\ dead' = dead
      /\ socket' = socket /\ instances' = instances /\ sessions' = sessions
      /\ segments' = Rec!SequenceState(TRUE)
  BY DEF Rec!Synchronise
<1>2. \A g \in segments' : SegmentRow(g) /\ SegmentAlive(g)
  BY <1>1, SequenceIsAlive
<1>3. DOMAIN socket' = Streams /\ socket' = [q \in Streams |-> socket'[q]]
  BY <1>1 DEF AliveInv, CountersOK
<1> QED BY <1>1, <1>2, <1>3, InstancesAreAlive, AliveStep

LEMMA ClosedSession ==
    ASSUME NEW y, SessionRow(y)
    PROVE  LET x == [y EXCEPT !.open = FALSE] IN
           /\ SessionRow(x) /\ x.run = y.run /\ x.stream = y.stream /\ x.day = y.day
           /\ x.open = FALSE /\ (y.open = FALSE => x = y)
<1>1. y = [run |-> y.run, stream |-> y.stream, n |-> y.n, day |-> y.day, open |-> y.open]
  BY DEF SessionRow
<1>2. ASSUME NEW x, x = [y EXCEPT !.open = FALSE]
      PROVE  /\ SessionRow(x) /\ x.run = y.run /\ x.stream = y.stream /\ x.day = y.day
             /\ x.open = FALSE /\ (y.open = FALSE => x = y)
  <2>1. x = [run |-> y.run, stream |-> y.stream, n |-> y.n, day |-> y.day, open |-> FALSE]
    BY <1>1, <1>2
  <2>2. y.open = FALSE => x = y
    BY <1>1, <2>1
  <2> QED BY <2>1, <2>2 DEF SessionRow
<1> QED BY <1>2

LEMMA DisconnectAlive ==
    ASSUME AliveInv, SocketsHaveSessions, NEW s \in Streams, NEW fails \in BOOLEAN,
           Rec!Disconnect(s, fails)
    PROVE  AliveInv'
<1> DEFINE G == IF fails /\ s = "depth" THEN Rec!SequenceState(FALSE) ELSE segments
<1>0. PICK x : x = EndedSession(s)
  OBVIOUS
<1>1. /\ run # 0 /\ now' = now /\ run' = run /\ runs' = runs /\ dead' = dead
      /\ socket[s] /\ socket' = [socket EXCEPT ![s] = FALSE] /\ instances' = instances
      /\ sessions' = (sessions \ {x}) \cup {[x EXCEPT !.open = FALSE]}
      /\ segments' = {IF g.run = run /\ g.stream = s /\ g.open /\ g.day = x.day
                      THEN Rec!Closed(g, now) ELSE g : g \in G}
  BY <1>0 DEF Rec!Disconnect, Rec!EndSession, EndedSession
<1>2. \A g \in G : SegmentRow(g) /\ SegmentAlive(g)
  BY <1>1, SequenceIsAlive, SegmentsAreAlive
<1>3. \A g \in segments' : SegmentRow(g) /\ SegmentAlive(g)
  <2> SUFFICES ASSUME NEW g \in segments'
               PROVE  SegmentRow(g) /\ SegmentAlive(g)
    OBVIOUS
  <2> HIDE DEF G
  <2>1. PICK h \in G : g = IF h.run = run /\ h.stream = s /\ h.open /\ h.day = x.day
                           THEN Rec!Closed(h, now) ELSE h
    BY <1>1
  <2> QED BY <1>2, <2>1, EndedNowIsAlive
<1>4. \A y \in sessions' : SessionRow(y)
  <2>1. x \in sessions /\ SessionRow(x)
    BY <1>0, <1>1, EndedSessionIsOpen, InstancesAreAlive
  <2>3. SessionRow([x EXCEPT !.open = FALSE])
    BY <2>1, ClosedSession
  <2> QED BY <1>1, <2>3, InstancesAreAlive
<1> HIDE DEF G
<1> QED BY <1>1, <1>3, <1>4, SocketsStayShaped, InstancesAreAlive, AliveStep

(* The rows of the running instance once it has beaten. *)
LEMMA BeatIsAlive ==
    ASSUME AliveInv, run # 0, NEW O \in SUBSET Rec!Orphans(now, run)
    PROVE  /\ \A g \in Rec!Beat(Rec!RecoveredSegments(O), run, now) :
                 SegmentRow(g) /\ SegmentAlive(g)
           /\ \A i \in Rec!BeatInstances(Rec!RecoveredInstances(O), run, now) :
                 InstanceRow(i) /\ InstanceAlive(i)
<1>1. now \in Nat
  BY DEF AliveInv, CountersOK
<1>2. /\ \A g \in Rec!RecoveredSegments(O) : SegmentRow(g) /\ SegmentAlive(g)
      /\ \A i \in Rec!RecoveredInstances(O) : InstanceRow(i) /\ InstanceAlive(i)
  BY RecoveredIsAlive
<1>3. ASSUME NEW g \in Rec!Beat(Rec!RecoveredSegments(O), run, now)
      PROVE  SegmentRow(g) /\ SegmentAlive(g)
  <2>1. PICK h \in Rec!RecoveredSegments(O) :
              /\ SegmentRow(g) /\ g.run = h.run
              /\ g = h \/ (h.run = run /\ g.end = now)
    BY <1>1, <1>2, BeatSegment
  <2>2. CASE g = h
    BY <1>2, <2>2
  <2>3. CASE h.run = run /\ g.end = now
    BY <1>1, <2>1, <2>3 DEF SegmentAlive
  <2> QED BY <2>1, <2>2, <2>3
<1>4. ASSUME NEW i \in Rec!BeatInstances(Rec!RecoveredInstances(O), run, now)
      PROVE  InstanceRow(i) /\ InstanceAlive(i)
  <2>1. PICK j \in Rec!RecoveredInstances(O) :
              /\ InstanceRow(i) /\ i.id = j.id
              /\ i = j \/ (j.id = run /\ i.beat = now)
    BY <1>1, <1>2, BeatInstance
  <2>2. CASE i = j
    BY <1>2, <2>2
  <2>3. CASE j.id = run /\ i.beat = now
    BY <1>1, <2>1, <2>3 DEF InstanceAlive, AliveUntil
  <2> QED BY <2>1, <2>2, <2>3
<1> QED BY <1>3, <1>4

LEMMA HeartbeatAlive ==
    ASSUME AliveInv, Rec!Heartbeat
    PROVE  AliveInv'
<1> DEFINE O == Rec!Orphans(now, run)
<1>1. /\ run # 0 /\ now' = now /\ run' = run /\ runs' = runs /\ dead' = dead
      /\ socket' = socket
      /\ instances' = Rec!BeatInstances(Rec!RecoveredInstances(O), run, now)
      /\ sessions' = Rec!RecoveredSessions(O)
      /\ segments' = Rec!Beat(Rec!RecoveredSegments(O), run, now)
  BY DEF Rec!Heartbeat
<1>2. DOMAIN socket' = Streams /\ socket' = [q \in Streams |-> socket'[q]]
  BY <1>1 DEF AliveInv, CountersOK
<1>3. \A x \in sessions' : SessionRow(x)
  BY <1>1, RecoveredIsAlive
<1>4. /\ \A g \in segments' : SegmentRow(g) /\ SegmentAlive(g)
      /\ \A i \in instances' : InstanceRow(i) /\ InstanceAlive(i)
  BY <1>1, BeatIsAlive
<1> QED BY <1>1, <1>2, <1>3, <1>4, AliveStep

LEMMA StoppedInstance ==
    ASSUME NEW j, InstanceRow(j)
    PROVE  LET i == [j EXCEPT !.st = "CLOSED"] IN
           InstanceRow(i) /\ i.id = j.id /\ i.beat = j.beat /\ i.day = j.day /\ i.st = "CLOSED"
<1>1. [j EXCEPT !.st = "CLOSED"] = [id |-> j.id, day |-> j.day, beat |-> j.beat, st |-> "CLOSED"]
  BY DEF InstanceRow
<1> QED BY <1>1 DEF InstanceRow

LEMMA StopAlive ==
    ASSUME AliveInv, Rec!Stop
    PROVE  AliveInv'
<1> DEFINE O == Rec!Orphans(now, run)
           I == Rec!BeatInstances(Rec!RecoveredInstances(O), run, now)
<1>1. /\ run # 0 /\ run' = 0 /\ now' = now /\ runs' = runs
      /\ dead' = [dead EXCEPT ![run] = now]
      /\ socket' = [s \in Streams |-> FALSE]
      /\ instances' = {IF i.id = run /\ i.st = "ACTIVE" /\ Rec!Writable(i.day)
                       THEN [i EXCEPT !.st = "CLOSED"] ELSE i : i \in I}
      /\ sessions' = {IF x.run = run THEN [x EXCEPT !.open = FALSE] ELSE x
                        : x \in Rec!RecoveredSessions(O)}
      /\ segments' = {IF g.run = run /\ g.open /\ Rec!Writable(g.day) THEN Rec!Closed(g, now) ELSE g
                        : g \in Rec!RecoveredSegments(O)}
  BY DEF Rec!Stop
<1>2. /\ \A g \in Rec!RecoveredSegments(O) : SegmentRow(g) /\ SegmentAlive(g)
      /\ \A x \in Rec!RecoveredSessions(O) : SessionRow(x)
      /\ \A i \in I : InstanceRow(i) /\ InstanceAlive(i)
  BY <1>1, RecoveredIsAlive, BeatIsAlive
<1> HIDE DEF O, I
<1>3. ASSUME NEW g \in segments' PROVE SegmentRow(g) /\ SegmentAlive(g)
  <2>1. PICK h \in Rec!RecoveredSegments(O) :
            g = IF h.run = run /\ h.open /\ Rec!Writable(h.day) THEN Rec!Closed(h, now) ELSE h
    BY <1>1
  <2> QED BY <1>2, <2>1, EndedNowIsAlive
<1>4. ASSUME NEW i \in instances' PROVE InstanceRow(i) /\ InstanceAlive(i)
  <2>1. PICK j \in I : i = IF j.id = run /\ j.st = "ACTIVE" /\ Rec!Writable(j.day)
                           THEN [j EXCEPT !.st = "CLOSED"] ELSE j
    BY <1>1
  <2>2. InstanceRow(i) /\ i.id = j.id /\ i.beat = j.beat
    BY <1>2, <2>1, StoppedInstance
  <2>3. InstanceAlive(j)
    BY <1>2
  <2> QED BY <2>2, <2>3 DEF InstanceAlive
<1>5. ASSUME NEW x \in sessions' PROVE SessionRow(x)
  <2>1. PICK y \in Rec!RecoveredSessions(O) :
            x = IF y.run = run THEN [y EXCEPT !.open = FALSE] ELSE y
    BY <1>1
  <2> QED BY <1>2, <2>1, ClosedSession
<1> QED BY <1>1, <1>3, <1>4, <1>5, DeathKeepsAlive

LEMMA AliveInvStep ==
    ASSUME AliveInv, SocketsHaveSessions, [Rec!Next]_(Rec!vars)
    PROVE  AliveInv'
<1>1. CASE UNCHANGED Rec!vars
  <2>1. /\ now' = now /\ run' = run /\ runs' = runs /\ dead' = dead /\ socket' = socket
        /\ segments' = segments /\ instances' = instances /\ sessions' = sessions
    BY <1>1 DEF Rec!vars
  <2>2. DOMAIN socket' = Streams /\ socket' = [q \in Streams |-> socket'[q]]
    BY <2>1 DEF AliveInv, CountersOK
  <2> QED BY <2>1, <2>2, SegmentsAreAlive, InstancesAreAlive, AliveStep
<1>2. CASE Rec!Tick
  BY <1>2, TickAlive
<1>3. CASE Rec!Start
  BY <1>3, StartAlive
<1>4. CASE Rec!Synchronise
  BY <1>4, SynchroniseAlive
<1>5. CASE Rec!Heartbeat
  BY <1>5, HeartbeatAlive
<1>6. CASE Rec!Stop
  BY <1>6, StopAlive
<1>7. CASE Rec!Crash
  BY <1>7, CrashAlive
<1>8. CASE \E s \in Streams : Rec!Connect(s)
  BY <1>8, ConnectAlive
<1>9. CASE \E s \in Streams, fails \in BOOLEAN : Rec!Disconnect(s, fails)
  BY <1>9, DisconnectAlive
<1> QED BY <1>1, <1>2, <1>3, <1>4, <1>5, <1>6, <1>7, <1>8, <1>9 DEF Rec!Next

----------------------------------------------------------------------------
(* Sealed days.                                                             *)

LEMMA RunningSessionsStay ==
    ASSUME RowsOK, NEW t, NEW x \in sessions, x.run = run
    PROVE  x \in Rec!RecoveredSessions(Rec!Orphans(t, run))
<1>1. ~ \E o \in Rec!Orphans(t, run) : x.run = o.id /\ x.day = o.day
  BY DEF Rec!Orphans
<1>2. x = IF \E o \in Rec!Orphans(t, run) : x.run = o.id /\ x.day = o.day
          THEN [x EXCEPT !.open = FALSE] ELSE x
  BY <1>1
<1> QED BY <1>2 DEF Rec!RecoveredSessions

(* Recovery leaves the sessions of the running instance alone. *)
LEMMA SocketsStep ==
    ASSUME LedgerInv, [Rec!Next]_(Rec!vars)
    PROVE  SocketsHaveSessions'
<1>0. /\ DOMAIN socket = Streams /\ RowsOK
      /\ \A s \in Streams : socket[s] =>
            run # 0 /\ \E x \in sessions : x.run = run /\ x.stream = s /\ x.open
  BY DEF LedgerInv, AliveInv, CountersOK, SocketsHaveSessions
<1>1. CASE Rec!Tick \/ Rec!Synchronise \/ UNCHANGED Rec!vars
  <2>1. socket' = socket /\ run' = run /\ sessions' = sessions
    BY <1>1 DEF Rec!Tick, Rec!Synchronise, Rec!vars
  <2> QED BY <1>0, <2>1 DEF SocketsHaveSessions
<1>2. CASE Rec!Start
  <2>1. run = 0 /\ socket' = socket
    BY <1>2 DEF Rec!Start
  <2> QED BY <1>0, <2>1 DEF SocketsHaveSessions
<1>3. CASE Rec!Heartbeat
  <2>1. run' = run /\ socket' = socket /\ sessions' = Rec!RecoveredSessions(Rec!Orphans(now, run))
    BY <1>3 DEF Rec!Heartbeat
  <2>2. \A x \in sessions : x.run = run => x \in sessions'
    BY <1>0, <2>1, RunningSessionsStay
  <2> QED BY <1>0, <2>1, <2>2 DEF SocketsHaveSessions
<1>4. CASE Rec!Stop \/ Rec!Crash
  BY <1>4 DEF Rec!Stop, Rec!Crash, SocketsHaveSessions
<1>5. ASSUME NEW s \in Streams, Rec!Connect(s)
      PROVE  SocketsHaveSessions'
  <2>1. PICK x : x = [run |-> run, stream |-> s,
                      n |-> Rec!Cardinality({y \in sessions : y.run = run /\ y.stream = s}),
                      day |-> Rec!DayOf(now), open |-> TRUE]
    OBVIOUS
  <2>2. /\ run # 0 /\ run' = run /\ socket' = [socket EXCEPT ![s] = TRUE]
        /\ sessions' = sessions \cup {x}
    BY <1>5, <2>1 DEF Rec!Connect
  <2>3. x.run = run /\ x.stream = s /\ x.open
    BY <2>1
  <2>4. \A q \in Streams : q # s => socket'[q] = socket[q]
    BY <1>0, <2>2
  <2> SUFFICES ASSUME NEW q \in Streams, socket'[q]
               PROVE  \E y \in sessions' : y.run = run /\ y.stream = q /\ y.open
    BY <2>2 DEF SocketsHaveSessions
  <2>5. CASE q = s
    BY <2>2, <2>3, <2>5
  <2>6. CASE q # s
    BY <1>0, <2>2, <2>4, <2>6
  <2> QED BY <2>5, <2>6
<1>6. ASSUME NEW s \in Streams, NEW fails \in BOOLEAN, Rec!Disconnect(s, fails)
      PROVE  SocketsHaveSessions'
  <2>0. PICK x : x = EndedSession(s)
    OBVIOUS
  <2>1. /\ run # 0 /\ run' = run /\ socket[s] /\ socket' = [socket EXCEPT ![s] = FALSE]
        /\ sessions' = (sessions \ {x}) \cup {[x EXCEPT !.open = FALSE]}
    BY <1>6, <2>0 DEF Rec!Disconnect, Rec!EndSession, EndedSession
  <2>2. x.stream = s
    BY <2>0, <2>1, EndedSessionIsOpen DEF LedgerInv
  <2>3. \A q \in Streams : socket'[q] => q # s /\ socket[q]
    BY <1>0, <2>1
  <2> SUFFICES ASSUME NEW q \in Streams, socket'[q]
               PROVE  \E y \in sessions' : y.run = run /\ y.stream = q /\ y.open
    BY <2>1 DEF SocketsHaveSessions
  <2>4. PICK y \in sessions : y.run = run /\ y.stream = q /\ y.open
    BY <1>0, <2>3
  <2>5. y # x
    BY <2>2, <2>3, <2>4
  <2> QED BY <2>1, <2>4, <2>5
<1> QED BY <1>1, <1>2, <1>3, <1>4, <1>5, <1>6 DEF Rec!Next

(* Only rows that are open in an open partition, or new in it, are open.    *)
OpenIsWritable(X) == \A x \in X : x.open => x.day \notin sealed

(* What recovery may still reach ends after every sealed day. *)
LeaseIsLater(i) == \A d \in sealed : (d + 1) * Day <= i.beat + Lease
LaterLeases(I) == \A i \in I : i.st = "ACTIVE" /\ i.day \notin sealed => LeaseIsLater(i)

LEMMA RecoveredStaysSealed ==
    ASSUME RowsOK, SealedIsPast, NEW O \in SUBSET instances
    PROVE  OpenIsWritable(Rec!RecoveredSessions(O)) /\ LaterLeases(Rec!RecoveredInstances(O))
<1>1. ASSUME NEW x \in Rec!RecoveredSessions(O), x.open
      PROVE  x.day \notin sealed
  <2>1. x \in sessions
    BY <1>1, RecoveredSession
  <2> QED BY <1>1, <2>1 DEF SealedIsPast
<1>2. ASSUME NEW i \in Rec!RecoveredInstances(O), i.st = "ACTIVE", i.day \notin sealed
      PROVE  LeaseIsLater(i)
  <2>1. i \in instances
    BY <1>2, RecoveredInstance
  <2> QED BY <1>2, <2>1 DEF SealedIsPast, LeaseIsLater
<1> QED BY <1>1, <1>2 DEF OpenIsWritable, LaterLeases

LEMMA BeatNowIsLater ==
    ASSUME AliveInv, SealedIsPast, NEW i, i.beat = now
    PROVE  LeaseIsLater(i)
<1> SUFFICES ASSUME NEW d \in sealed PROVE (d + 1) * Day <= now + Lease
  BY DEF LeaseIsLater
<1>1. d \in Nat /\ (d + 1) * Day <= now /\ now \in Nat /\ Lease \in Nat /\ Day \in Nat
  BY DEF SealedIsPast, AliveInv, CountersOK, ConstantsOK
<1>2. (d + 1) * Day \in Nat
  BY <1>1
<1> HIDE DEF AliveInv
<1> QED BY <1>1, <1>2

LEMMA SealedStep ==
    ASSUME AliveInv, SealedIsPast, sealed' = sealed, now' \in {now, now + 1},
           OpenIsWritable(sessions'), LaterLeases(instances')
    PROVE  SealedIsPast'
<1>1. now \in Nat /\ Day \in Nat
  BY DEF AliveInv, CountersOK, ConstantsOK
<1>2. ASSUME NEW d \in sealed PROVE d \in Nat /\ (d + 1) * Day <= now'
  <2>1. d \in Nat /\ (d + 1) * Day <= now
    BY DEF SealedIsPast
  <2>2. (d + 1) * Day \in Nat
    BY <1>1, <2>1
  <2> QED BY <1>1, <2>1, <2>2
<1> QED BY <1>2 DEF SealedIsPast, OpenIsWritable, LaterLeases, LeaseIsLater

LEMMA RowsAreSealed ==
    ASSUME SealedIsPast
    PROVE  OpenIsWritable(sessions) /\ LaterLeases(instances)
BY DEF SealedIsPast, OpenIsWritable, LaterLeases, LeaseIsLater

LEMMA BeatStaysSealed ==
    ASSUME AliveInv, SealedIsPast, NEW O \in SUBSET instances
    PROVE  LaterLeases(Rec!BeatInstances(Rec!RecoveredInstances(O), run, now))
<1> SUFFICES ASSUME NEW i \in Rec!BeatInstances(Rec!RecoveredInstances(O), run, now),
                    i.st = "ACTIVE", i.day \notin sealed
             PROVE  LeaseIsLater(i)
  BY DEF LaterLeases
<1>1. RowsOK /\ now \in Nat
  BY DEF AliveInv, CountersOK
<1>2. \A j \in Rec!RecoveredInstances(O) : InstanceRow(j)
  BY <1>1, RecoveredInstance
<1>3. PICK j \in Rec!RecoveredInstances(O) : i = j \/ i.beat = now
  BY <1>1, <1>2, BeatInstance
<1>4. CASE i = j
  BY <1>1, <1>4, RecoveredStaysSealed DEF LaterLeases
<1>5. CASE i.beat = now
  BY <1>5, BeatNowIsLater
<1> QED BY <1>3, <1>4, <1>5

(* When the recorder stops, what is left ACTIVE in an open partition has a *)
(* lease that has not run out.                                             *)
LEMMA StopLeavesLeases ==
    ASSUME AliveInv, Rec!Stop, NEW i \in instances', i.st = "ACTIVE", i.day \notin sealed
    PROVE  now <= i.beat + Lease
<1> DEFINE O == Rec!Orphans(now, run)
<1>1. RowsOK /\ now \in Nat /\ Lease \in Nat /\ O \in SUBSET instances
  BY DEF AliveInv, CountersOK, ConstantsOK, Rec!Orphans
<1>2. \A j \in Rec!RecoveredInstances(O) : InstanceRow(j)
  BY <1>1, RecoveredInstance
<1>3. PICK j \in Rec!BeatInstances(Rec!RecoveredInstances(O), run, now) :
          i = IF j.id = run /\ j.st = "ACTIVE" /\ Rec!Writable(j.day)
              THEN [j EXCEPT !.st = "CLOSED"] ELSE j
  BY DEF Rec!Stop
<1>4. PICK k \in Rec!RecoveredInstances(O) :
          /\ InstanceRow(j) /\ j.id = k.id /\ j.day = k.day /\ j.st = k.st
          /\ \/ j = k /\ ~(k.id = run /\ k.st = "ACTIVE" /\ Rec!Writable(k.day))
             \/ k.id = run /\ k.st = "ACTIVE" /\ Rec!Writable(k.day) /\ j.beat = now
  BY <1>1, <1>2, BeatInstance
<1>5. i = j /\ ~(j.id = run /\ j.st = "ACTIVE" /\ Rec!Writable(j.day))
  <2>1. CASE j.id = run /\ j.st = "ACTIVE" /\ Rec!Writable(j.day)
    BY <1>3, <1>4, <2>1, StoppedInstance
  <2> QED BY <1>3, <2>1
<1>6. i = k
  BY <1>4, <1>5
<1>7. i \in instances /\ i \notin O
  BY <1>1, <1>6, RecoveredInstance
<1>8. i.id # run /\ Rec!Writable(i.day)
  BY <1>5 DEF Rec!Writable
<1>9. ~(i.beat + Lease < now)
  BY <1>7, <1>8 DEF Rec!Orphans, Rec!Expired
<1>10. i.beat \in Nat
  BY <1>1, <1>7 DEF RowsOK, InstanceRow
<1> QED BY <1>1, <1>9, <1>10

(* finalize_partitions seals days that are past, without open sessions,    *)
(* and that no lease which recovery may still reach ends in.               *)
LEMMA StopSealsThePast ==
    ASSUME LedgerInv, Rec!Stop
    PROVE  SealedIsPast'
<1> DEFINE O == Rec!Orphans(now, run)
<1>1. /\ now' = now /\ sealed' = sealed \cup {d \in 0 .. Rec!DayOf(now) : Rec!Sealable(d)}
      /\ sessions' = {IF x.run = run THEN [x EXCEPT !.open = FALSE] ELSE x
                        : x \in Rec!RecoveredSessions(O)}
  BY DEF Rec!Stop
<1>2. RowsOK /\ now \in Nat /\ Day \in Nat /\ Lease \in Nat /\ Grace \in Nat
      /\ O \in SUBSET instances /\ AliveInv /\ SealedIsPast
  BY DEF LedgerInv, AliveInv, CountersOK, ConstantsOK, Rec!Orphans
<1>3. ASSUME NEW d \in sealed' PROVE d \in Nat /\ (d + 1) * Day \in Nat /\ (d + 1) * Day <= now
  <2>1. CASE d \in sealed
    <3>1. d \in Nat /\ (d + 1) * Day <= now
      BY <1>2, <2>1 DEF SealedIsPast
    <3> QED BY <1>2, <3>1
  <2>2. CASE d \in 0 .. Rec!DayOf(now) /\ Rec!Sealable(d)
    <3>1. d \in Nat
      BY <2>2
    <3>2. (d + 1) * Day \in Nat
      BY <1>2, <3>1
    <3>3. (d + 1) * Day + Grace <= now
      BY <2>2 DEF Rec!Sealable
    <3> QED BY <1>2, <3>1, <3>2, <3>3
  <2> QED BY <1>1, <2>1, <2>2
<1>4. ASSUME NEW x \in sessions', x.open PROVE x.day \notin sealed'
  <2>1. PICK y \in Rec!RecoveredSessions(O) :
            x = IF y.run = run THEN [y EXCEPT !.open = FALSE] ELSE y
    BY <1>1
  <2>2. SessionRow(y)
    BY <1>2, RecoveredSession
  <2>3. x = y
    BY <1>4, <2>1, <2>2, ClosedSession
  <2>4. x.day \notin sealed
    BY <1>2, <1>4, <2>3, RecoveredStaysSealed DEF OpenIsWritable
  <2>5. ~Rec!Sealable(x.day)
    BY <1>4 DEF Rec!Sealable
  <2> QED BY <1>1, <2>4, <2>5
<1>5. ASSUME NEW i \in instances', i.st = "ACTIVE", i.day \notin sealed', NEW d \in sealed'
      PROVE  (d + 1) * Day <= i.beat + Lease
  <2>1. i.day \notin sealed
    BY <1>1, <1>5
  <2>2. now <= i.beat + Lease
    BY <1>2, <1>5, <2>1, StopLeavesLeases
  <2>3. i.beat \in Nat
    BY <1>2, <1>5, StopAlive DEF AliveInv, RowsOK, InstanceRow
  <2> QED BY <1>2, <1>3, <2>2, <2>3
<1> QED BY <1>1, <1>3, <1>4, <1>5 DEF SealedIsPast

LEMMA SealedIsPastStep ==
    ASSUME LedgerInv, [Rec!Next]_(Rec!vars)
    PROVE  SealedIsPast'
<1>0. AliveInv /\ SealedIsPast /\ RowsOK
  BY DEF LedgerInv, AliveInv
<1>1. CASE Rec!Tick \/ Rec!Synchronise \/ Rec!Crash \/ UNCHANGED Rec!vars
  <2>1. /\ now' \in {now, now + 1} /\ sealed' = sealed /\ sessions' = sessions
        /\ instances' = instances
    BY <1>1 DEF Rec!Tick, Rec!Synchronise, Rec!Crash, Rec!vars
  <2> QED BY <1>0, <2>1, RowsAreSealed, SealedStep
<1>2. CASE Rec!Start
  <2> DEFINE O == Rec!Orphans(now, 0)
  <2>0. PICK new : new = [id |-> runs + 1, day |-> Rec!DayOf(now), beat |-> now, st |-> "ACTIVE"]
    OBVIOUS
  <2>1. /\ now' = now /\ sealed' = sealed /\ sessions' = Rec!RecoveredSessions(O)
        /\ instances' = Rec!RecoveredInstances(O) \cup {new}
    BY <1>2, <2>0 DEF Rec!Start
  <2>2. O \in SUBSET instances
    BY DEF Rec!Orphans
  <2>3. OpenIsWritable(sessions') /\ LaterLeases(Rec!RecoveredInstances(O))
    BY <1>0, <2>1, <2>2, RecoveredStaysSealed
  <2>4. LeaseIsLater(new)
    BY <1>0, <2>0, BeatNowIsLater
  <2>5. LaterLeases(instances')
    BY <2>1, <2>3, <2>4 DEF LaterLeases
  <2> QED BY <1>0, <2>1, <2>3, <2>5, SealedStep
<1>3. CASE Rec!Heartbeat
  <2> DEFINE O == Rec!Orphans(now, run)
  <2>1. /\ now' = now /\ sealed' = sealed /\ sessions' = Rec!RecoveredSessions(O)
        /\ instances' = Rec!BeatInstances(Rec!RecoveredInstances(O), run, now)
    BY <1>3 DEF Rec!Heartbeat
  <2>2. O \in SUBSET instances
    BY DEF Rec!Orphans
  <2>3. OpenIsWritable(sessions') /\ LaterLeases(instances')
    BY <1>0, <2>1, <2>2, RecoveredStaysSealed, BeatStaysSealed
  <2> QED BY <1>0, <2>1, <2>3, SealedStep
<1>4. CASE Rec!Stop
  BY <1>4, StopSealsThePast
<1>5. ASSUME NEW s \in Streams, Rec!Connect(s)
      PROVE  SealedIsPast'
  <2>1. PICK x : x = [run |-> run, stream |-> s,
                      n |-> Rec!Cardinality({y \in sessions : y.run = run /\ y.stream = s}),
                      day |-> Rec!DayOf(now), open |-> TRUE]
    OBVIOUS
  <2>2. /\ now' = now /\ sealed' = sealed /\ instances' = instances
        /\ sessions' = sessions \cup {x} /\ Rec!DayOf(now) \notin sealed
    BY <1>5, <2>1 DEF Rec!Connect, Rec!Writable
  <2>3. x.day = Rec!DayOf(now)
    BY <2>1
  <2>4. OpenIsWritable(sessions')
    BY <1>0, <2>2, <2>3, RowsAreSealed DEF OpenIsWritable
  <2> QED BY <1>0, <2>2, <2>4, RowsAreSealed, SealedStep
<1>6. ASSUME NEW s \in Streams, NEW fails \in BOOLEAN, Rec!Disconnect(s, fails)
      PROVE  SealedIsPast'
  <2>0. PICK x : x = EndedSession(s)
    OBVIOUS
  <2>1. /\ now' = now /\ sealed' = sealed /\ instances' = instances /\ socket[s]
        /\ sessions' = (sessions \ {x}) \cup {[x EXCEPT !.open = FALSE]}
    BY <1>6, <2>0 DEF Rec!Disconnect, Rec!EndSession, EndedSession
  <2>2. x \in sessions /\ SessionRow(x)
    BY <1>0, <2>0, <2>1, EndedSessionIsOpen DEF LedgerInv, RowsOK
  <2>3. [x EXCEPT !.open = FALSE].open = FALSE
    BY <2>2, ClosedSession
  <2>4. OpenIsWritable(sessions')
    BY <1>0, <2>1, <2>3, RowsAreSealed DEF OpenIsWritable
  <2> QED BY <1>0, <2>1, <2>4, RowsAreSealed, SealedStep
<1> QED BY <1>1, <1>2, <1>3, <1>4, <1>5, <1>6 DEF Rec!Next

LEMMA InitLedgerInv ==
    ASSUME ConstantsOK
    PROVE  Rec!Init => LedgerInv
<1> SUFFICES ASSUME Rec!Init PROVE LedgerInv
  OBVIOUS
<1>1. CountersOK
  BY DEF Rec!Init, CountersOK, ConstantsOK, Rec!Runs
<1>2. RowsOK /\ BeatsWereAlive /\ Rec!CoverageWasAlive /\ SocketsHaveSessions /\ SealedIsPast
  BY DEF Rec!Init, RowsOK, BeatsWereAlive, Rec!CoverageWasAlive, SocketsHaveSessions,
     SealedIsPast
<1> QED BY <1>1, <1>2 DEF LedgerInv, AliveInv

LEMMA LedgerInvStep == LedgerInv /\ [Rec!Next]_(Rec!vars) => LedgerInv'
BY AliveInvStep, SocketsStep, SealedIsPastStep DEF LedgerInv

(* Coverage is not invented: a segment of a process that is gone ends at   *)
(* most one lease after its end, and a running process has written none    *)
(* beyond the present.  (heartbeat, recover_orphan_instances)              *)
THEOREM CoverageIsNotInvented ==
    ASSUME ConstantsOK
    PROVE  Rec!Spec => []Rec!CoverageWasAlive
<1>1. Rec!Init => LedgerInv
  BY InitLedgerInv
<1>2. LedgerInv => Rec!CoverageWasAlive
  BY DEF LedgerInv, AliveInv
<1> QED BY <1>1, <1>2, LedgerInvStep, PTL DEF Rec!Spec

(* Two sets of rows agree on a day when every row of the day is in both. *)
LEMMA SameInDay ==
    ASSUME NEW S, NEW T, NEW d, \A y \in T : y.day = d => y \in S,
           \A x \in S : x.day = d => x \in T
    PROVE  Rec!InDay(T, d) = Rec!InDay(S, d)
BY DEF Rec!InDay

(* A lease that ends after a day does not end in it. *)
LEMMA NotInDay ==
    ASSUME Day \in Nat \ {0}, NEW d \in Nat, NEW t \in Nat, (d + 1) * Day <= t
    PROVE  Rec!DayOf(t) # d
<1>1. t = Day * (t \div Day) + (t % Day) /\ t % Day \in 0 .. Day - 1 /\ t \div Day \in Nat
  OBVIOUS
<1>2. SUFFICES ASSUME t \div Day = d PROVE FALSE
  BY DEF Rec!DayOf
<1>3. (d + 1) * Day = Day * d + Day
  OBVIOUS
<1>4. Day * d \in Nat
  OBVIOUS
<1> QED BY <1>1, <1>2, <1>3, <1>4

(* Recovery writes to no sealed partition... *)
LEMMA RecoveredInDay ==
    ASSUME RowsOK, Lease \in Nat, NEW t, NEW e, NEW d \in sealed
    PROVE  LET O == Rec!Orphans(t, e) IN
           /\ Rec!InDay(Rec!RecoveredInstances(O), d) = Rec!InDay(instances, d)
           /\ Rec!InDay(Rec!RecoveredSessions(O), d) = Rec!InDay(sessions, d)
           /\ Rec!InDay(Rec!RecoveredSegments(O), d) = Rec!InDay(segments, d)
<1> DEFINE O == Rec!Orphans(t, e)
<1>1. O \in SUBSET instances /\ \A o \in O : o.day # d
  BY DEF Rec!Orphans, Rec!Writable
<1> HIDE DEF O
<1>2. Rec!InDay(Rec!RecoveredInstances(O), d) = Rec!InDay(instances, d)
  <2>1. \A i \in instances : i.day = d => i \in Rec!RecoveredInstances(O)
    BY <1>1 DEF Rec!RecoveredInstances
  <2>2. ASSUME NEW i \in Rec!RecoveredInstances(O), i.day = d PROVE i \in instances
    <3>1. CASE i \in instances \ O
      BY <3>1
    <3>2. CASE i \in {[o EXCEPT !.st = "ORPHANED"] : o \in O}
      <4>1. PICK o \in O : i = [o EXCEPT !.st = "ORPHANED"]
        BY <3>2
      <4>2. InstanceRow(o)
        BY <1>1 DEF RowsOK
      <4>3. i = [id |-> o.id, day |-> o.day, beat |-> o.beat, st |-> "ORPHANED"]
        BY <4>1, <4>2 DEF InstanceRow
      <4> QED BY <1>1, <2>2, <4>3
    <3> QED BY <3>1, <3>2 DEF Rec!RecoveredInstances
  <2> QED BY <2>1, <2>2, SameInDay
<1>3. Rec!InDay(Rec!RecoveredSessions(O), d) = Rec!InDay(sessions, d)
  <2>1. ASSUME NEW x \in sessions, x.day = d PROVE x \in Rec!RecoveredSessions(O)
    <3>1. x = IF \E o \in O : x.run = o.id /\ x.day = o.day THEN [x EXCEPT !.open = FALSE] ELSE x
      BY <1>1, <2>1
    <3> QED BY <3>1 DEF Rec!RecoveredSessions
  <2>2. ASSUME NEW x \in Rec!RecoveredSessions(O), x.day = d PROVE x \in sessions
    BY <1>1, <2>2, RecoveredSession
  <2> QED BY <2>1, <2>2, SameInDay
<1>4. Rec!InDay(Rec!RecoveredSegments(O), d) = Rec!InDay(segments, d)
  <2>1. ASSUME NEW g \in segments, g.day = d PROVE g \in Rec!RecoveredSegments(O)
    <3>1. {o \in O : g.run = o.id /\ g.day = o.day} = {}
      BY <1>1, <2>1
    <3>2. g = LET mine == {o \in O : g.run = o.id /\ g.day = o.day} IN
              IF mine = {} \/ ~g.open THEN g
              ELSE [g EXCEPT !.open = FALSE, !.end = Rec!LeaseEnd(CHOOSE o \in mine : TRUE)]
      BY <3>1
    <3> QED BY <3>2 DEF Rec!RecoveredSegments
  <2>2. ASSUME NEW g \in Rec!RecoveredSegments(O), g.day = d PROVE g \in segments
    BY <1>1, <2>2, RecoveredSegment
  <2> QED BY <2>1, <2>2, SameInDay
<1> QED BY <1>2, <1>3, <1>4 DEF O

(* ...and inserts no gap that begins on a sealed day. *)
LEMMA RecoveredGapsInDay ==
    ASSUME LedgerInv, NEW t, NEW e, NEW d \in sealed
    PROVE  {g \in Rec!RecoveredGaps(Rec!Orphans(t, e), t) : Rec!DayOf(g.start) = d}
             = {g \in gaps : Rec!DayOf(g.start) = d}
<1> DEFINE O == Rec!Orphans(t, e)
<1>1. ASSUME NEW o \in O PROVE Rec!DayOf(Rec!LeaseEnd(o)) # d
  <2>1. o \in instances /\ o.st = "ACTIVE" /\ o.day \notin sealed
    BY DEF Rec!Orphans, Rec!Writable, Rec!Expired
  <2>2. (d + 1) * Day <= o.beat + Lease /\ d \in Nat
    BY <2>1 DEF LedgerInv, SealedIsPast
  <2>3. o.beat \in Nat /\ Lease \in Nat /\ Day \in Nat \ {0}
    BY <2>1 DEF LedgerInv, AliveInv, ConstantsOK, RowsOK, InstanceRow
  <2> QED BY <2>2, <2>3, NotInDay DEF Rec!LeaseEnd
<1> HIDE DEF O
<1>2. ASSUME NEW g \in Rec!RecoveredGaps(O, t), g \notin gaps PROVE Rec!DayOf(g.start) # d
  <2>1. PICK o \in O : g = [run |-> o.id, start |-> Rec!LeaseEnd(o), end |-> t]
    BY <1>2 DEF Rec!RecoveredGaps
  <2> QED BY <1>1, <2>1
<1>3. gaps \subseteq Rec!RecoveredGaps(O, t)
  BY DEF Rec!RecoveredGaps
<1>4. {g \in Rec!RecoveredGaps(O, t) : Rec!DayOf(g.start) = d}
        = {g \in gaps : Rec!DayOf(g.start) = d}
  BY <1>2, <1>3
<1> QED BY <1>4 DEF O

LEMMA BeatInDay ==
    ASSUME NEW d \in sealed, NEW G, NEW I, NEW r, NEW t \in Nat,
           \A g \in G : SegmentRow(g), \A i \in I : InstanceRow(i)
    PROVE  /\ Rec!InDay(Rec!Beat(G, r, t), d) = Rec!InDay(G, d)
           /\ Rec!InDay(Rec!BeatInstances(I, r, t), d) = Rec!InDay(I, d)
<1>1. ASSUME NEW g \in G, g.day = d PROVE g \in Rec!Beat(G, r, t)
  <2>1. g = IF g.run = r /\ g.open /\ Rec!Writable(g.day) THEN [g EXCEPT !.end = t] ELSE g
    BY <1>1 DEF Rec!Writable
  <2> QED BY <2>1 DEF Rec!Beat
<1>2. ASSUME NEW g \in Rec!Beat(G, r, t), g.day = d PROVE g \in G
  BY <1>2, BeatSegment DEF Rec!Writable
<1>3. ASSUME NEW i \in I, i.day = d PROVE i \in Rec!BeatInstances(I, r, t)
  <2>1. i = IF i.id = r /\ i.st = "ACTIVE" /\ Rec!Writable(i.day) THEN [i EXCEPT !.beat = t] ELSE i
    BY <1>3 DEF Rec!Writable
  <2> QED BY <2>1 DEF Rec!BeatInstances
<1>4. ASSUME NEW i \in Rec!BeatInstances(I, r, t), i.day = d PROVE i \in I
  BY <1>4, BeatInstance DEF Rec!Writable
<1> QED BY <1>1, <1>2, <1>3, <1>4, SameInDay

LEMMA OpenInDay ==
    ASSUME NEW d \in sealed, Rec!Writable(Rec!DayOf(now)), NEW G, NEW s, NEW n, NEW v
    PROVE  Rec!InDay(Rec!OpenSegment(G, s, n, v), d) = Rec!InDay(G, d)
<1>1. [run |-> run, stream |-> s, n |-> n, day |-> Rec!DayOf(now), end |-> now,
       valid |-> v, open |-> TRUE].day # d
  BY DEF Rec!Writable
<1> QED BY <1>1 DEF Rec!OpenSegment, Rec!InDay

(* Segments that are closed outside a day leave the day alone. *)
LEMMA ClosedInDay ==
    ASSUME NEW d, NEW G, \A g \in G : SegmentRow(g), NEW t \in Nat,
           NEW H, NEW C, C \subseteq G, \A g \in C : g.day # d,
           H = {IF g \in C THEN Rec!Closed(g, t) ELSE g : g \in G}
    PROVE  Rec!InDay(H, d) = Rec!InDay(G, d)
<1>1. ASSUME NEW g \in G, g.day = d PROVE g \in H
  <2>1. g = IF g \in C THEN Rec!Closed(g, t) ELSE g
    BY <1>1
  <2> QED BY <2>1
<1>2. ASSUME NEW h \in H, h.day = d PROVE h \in G
  <2>1. PICK g \in G : h = IF g \in C THEN Rec!Closed(g, t) ELSE g
    OBVIOUS
  <2>2. CASE g \in C
    <3>1. SegmentRow(g) /\ g.day # d /\ h = Rec!Closed(g, t)
      BY <2>1, <2>2
    <3>2. Rec!Closed(g, t).day = g.day
      BY <3>1, ClosedSegment
    <3> QED BY <1>2, <3>1, <3>2
  <2> QED BY <2>1, <2>2
<1> QED BY <1>1, <1>2, SameInDay

LEMMA SequenceInDay ==
    ASSUME AliveInv, NEW d \in sealed, Rec!Writable(Rec!DayOf(now)), NEW v
    PROVE  Rec!InDay(Rec!SequenceState(v), d) = Rec!InDay(segments, d)
<1> DEFINE C == {g \in segments :
                  g.run = run /\ g.stream = "depth" /\ g.open /\ Rec!Writable(g.day)}
           H == {IF g.run = run /\ g.stream = "depth" /\ g.open /\ Rec!Writable(g.day)
                 THEN Rec!Closed(g, now) ELSE g : g \in segments}
<1>1. H = {IF g \in C THEN Rec!Closed(g, now) ELSE g : g \in segments}
  OBVIOUS
<1>2. C \subseteq segments /\ \A g \in C : g.day # d
  BY DEF Rec!Writable
<1>3. now \in Nat /\ \A g \in segments : SegmentRow(g)
  BY SegmentsAreAlive DEF AliveInv, CountersOK
<1>4. Rec!SequenceState(v) = Rec!OpenSegment(H, "depth", Rec!SegmentNo("depth"), v)
  BY DEF Rec!SequenceState
<1> HIDE DEF C, H
<1>5. Rec!InDay(H, d) = Rec!InDay(segments, d)
  BY <1>1, <1>2, <1>3, ClosedInDay
<1> QED BY <1>4, <1>5, OpenInDay

(* What a step leaves of a day. *)
DayStays(d) ==
    /\ Rec!InDay(instances', d) = Rec!InDay(instances, d)
    /\ Rec!InDay(sessions', d) = Rec!InDay(sessions, d)
    /\ Rec!InDay(segments', d) = Rec!InDay(segments, d)
    /\ {g \in gaps' : Rec!DayOf(g.start) = d} = {g \in gaps : Rec!DayOf(g.start) = d}

LEMMA StartSealed ==
    ASSUME LedgerInv, Rec!Start, NEW d \in sealed
    PROVE  DayStays(d)
<1> DEFINE O == Rec!Orphans(now, 0)
<1>0. PICK new : new = [id |-> runs + 1, day |-> Rec!DayOf(now), beat |-> now, st |-> "ACTIVE"]
  OBVIOUS
<1>1. /\ instances' = Rec!RecoveredInstances(O) \cup {new} /\ sessions' = Rec!RecoveredSessions(O)
      /\ segments' = Rec!RecoveredSegments(O) /\ gaps' = Rec!RecoveredGaps(O, now)
      /\ Rec!Writable(Rec!DayOf(now))
  BY <1>0 DEF Rec!Start
<1>2. new.day # d
  BY <1>0, <1>1 DEF Rec!Writable
<1>3. Rec!InDay(instances', d) = Rec!InDay(Rec!RecoveredInstances(O), d)
  BY <1>1, <1>2 DEF Rec!InDay
<1>4. RowsOK /\ Lease \in Nat
  BY DEF LedgerInv, AliveInv, ConstantsOK
<1>5. /\ Rec!InDay(Rec!RecoveredInstances(O), d) = Rec!InDay(instances, d)
      /\ Rec!InDay(Rec!RecoveredSessions(O), d) = Rec!InDay(sessions, d)
      /\ Rec!InDay(Rec!RecoveredSegments(O), d) = Rec!InDay(segments, d)
  BY <1>4, RecoveredInDay
<1>6. {g \in gaps' : Rec!DayOf(g.start) = d} = {g \in gaps : Rec!DayOf(g.start) = d}
  BY <1>1, RecoveredGapsInDay
<1> QED BY <1>1, <1>3, <1>5, <1>6 DEF DayStays

LEMMA HeartbeatSealed ==
    ASSUME LedgerInv, Rec!Heartbeat, NEW d \in sealed
    PROVE  DayStays(d)
<1> DEFINE O == Rec!Orphans(now, run)
<1>1. /\ instances' = Rec!BeatInstances(Rec!RecoveredInstances(O), run, now)
      /\ sessions' = Rec!RecoveredSessions(O)
      /\ segments' = Rec!Beat(Rec!RecoveredSegments(O), run, now)
      /\ gaps' = Rec!RecoveredGaps(O, now)
  BY DEF Rec!Heartbeat
<1>2. RowsOK /\ Lease \in Nat /\ now \in Nat /\ AliveInv
  BY DEF LedgerInv, AliveInv, ConstantsOK, CountersOK
<1>3. /\ Rec!InDay(Rec!RecoveredInstances(O), d) = Rec!InDay(instances, d)
      /\ Rec!InDay(Rec!RecoveredSessions(O), d) = Rec!InDay(sessions, d)
      /\ Rec!InDay(Rec!RecoveredSegments(O), d) = Rec!InDay(segments, d)
  BY <1>2, RecoveredInDay
<1>4. /\ \A g \in Rec!RecoveredSegments(O) : SegmentRow(g)
      /\ \A i \in Rec!RecoveredInstances(O) : InstanceRow(i)
  BY <1>2, RecoveredIsAlive
<1>5. {g \in gaps' : Rec!DayOf(g.start) = d} = {g \in gaps : Rec!DayOf(g.start) = d}
  BY <1>1, RecoveredGapsInDay
<1> HIDE DEF O
<1>6. /\ Rec!InDay(instances', d) = Rec!InDay(Rec!RecoveredInstances(O), d)
      /\ Rec!InDay(segments', d) = Rec!InDay(Rec!RecoveredSegments(O), d)
  BY <1>1, <1>2, <1>4, BeatInDay
<1> QED BY <1>1, <1>3, <1>5, <1>6 DEF DayStays

LEMMA StopSealed ==
    ASSUME LedgerInv, Rec!Stop, NEW d \in sealed
    PROVE  DayStays(d)
<1> DEFINE O == Rec!Orphans(now, run)
           I == Rec!BeatInstances(Rec!RecoveredInstances(O), run, now)
           C == {g \in Rec!RecoveredSegments(O) : g.run = run /\ g.open /\ Rec!Writable(g.day)}
<1>1. /\ instances' = {IF i.id = run /\ i.st = "ACTIVE" /\ Rec!Writable(i.day)
                       THEN [i EXCEPT !.st = "CLOSED"] ELSE i : i \in I}
      /\ sessions' = {IF x.run = run THEN [x EXCEPT !.open = FALSE] ELSE x
                        : x \in Rec!RecoveredSessions(O)}
      /\ segments' = {IF g.run = run /\ g.open /\ Rec!Writable(g.day) THEN Rec!Closed(g, now) ELSE g
                        : g \in Rec!RecoveredSegments(O)}
      /\ gaps' = Rec!RecoveredGaps(O, now)
  BY DEF Rec!Stop
<1>2. RowsOK /\ Lease \in Nat /\ now \in Nat /\ AliveInv /\ SealedIsPast /\ run # 0
      /\ O \in SUBSET instances
  BY DEF LedgerInv, AliveInv, ConstantsOK, CountersOK, Rec!Stop, Rec!Orphans
<1>3. /\ Rec!InDay(Rec!RecoveredInstances(O), d) = Rec!InDay(instances, d)
      /\ Rec!InDay(Rec!RecoveredSessions(O), d) = Rec!InDay(sessions, d)
      /\ Rec!InDay(Rec!RecoveredSegments(O), d) = Rec!InDay(segments, d)
  BY <1>2, RecoveredInDay
<1>4. /\ \A g \in Rec!RecoveredSegments(O) : SegmentRow(g)
      /\ \A i \in Rec!RecoveredInstances(O) : InstanceRow(i)
      /\ \A x \in Rec!RecoveredSessions(O) : SessionRow(x)
  BY <1>2, RecoveredIsAlive
<1>5. {g \in gaps' : Rec!DayOf(g.start) = d} = {g \in gaps : Rec!DayOf(g.start) = d}
  BY <1>1, RecoveredGapsInDay
<1>6. /\ segments' = {IF g \in C THEN Rec!Closed(g, now) ELSE g : g \in Rec!RecoveredSegments(O)}
      /\ C \subseteq Rec!RecoveredSegments(O) /\ \A g \in C : g.day # d
  BY <1>1 DEF Rec!Writable
<1>7. \A i \in I : InstanceRow(i)
  BY <1>2, BeatIsAlive
<1>8. OpenIsWritable(Rec!RecoveredSessions(O))
  BY <1>2, RecoveredStaysSealed
<1> HIDE DEF O, C
<1>9. Rec!InDay(segments', d) = Rec!InDay(Rec!RecoveredSegments(O), d)
  BY <1>2, <1>4, <1>6, ClosedInDay
<1> HIDE DEF I
<1>10. Rec!InDay(I, d) = Rec!InDay(Rec!RecoveredInstances(O), d)
  <2>1. I = Rec!BeatInstances(Rec!RecoveredInstances(O), run, now)
    BY DEF I
  <2> QED BY <1>2, <1>4, <2>1, BeatInDay
<1>11. Rec!InDay(instances', d) = Rec!InDay(I, d)
  <2>1. ASSUME NEW i \in I, i.day = d PROVE i \in instances'
    <3>1. i = IF i.id = run /\ i.st = "ACTIVE" /\ Rec!Writable(i.day)
              THEN [i EXCEPT !.st = "CLOSED"] ELSE i
      BY <2>1 DEF Rec!Writable
    <3> QED BY <1>1, <3>1
  <2>2. ASSUME NEW i \in instances', i.day = d PROVE i \in I
    <3>1. PICK j \in I : i = IF j.id = run /\ j.st = "ACTIVE" /\ Rec!Writable(j.day)
                             THEN [j EXCEPT !.st = "CLOSED"] ELSE j
      BY <1>1
    <3>2. i.day = j.day
      BY <1>7, <3>1, StoppedInstance
    <3> QED BY <2>2, <3>1, <3>2 DEF Rec!Writable
  <2> QED BY <2>1, <2>2, SameInDay
<1>12. Rec!InDay(sessions', d) = Rec!InDay(Rec!RecoveredSessions(O), d)
  <2>0. ASSUME NEW y \in Rec!RecoveredSessions(O), y.day = d PROVE [y EXCEPT !.open = FALSE] = y
    <3>1. SessionRow(y) /\ ~y.open
      BY <1>4, <1>8, <2>0 DEF OpenIsWritable
    <3>2. y.open = FALSE
      BY <3>1 DEF SessionRow
    <3> QED BY <3>1, <3>2, ClosedSession
  <2>1. ASSUME NEW x \in Rec!RecoveredSessions(O), x.day = d PROVE x \in sessions'
    <3>1. x = IF x.run = run THEN [x EXCEPT !.open = FALSE] ELSE x
      BY <2>0, <2>1
    <3> QED BY <1>1, <3>1
  <2>2. ASSUME NEW x \in sessions', x.day = d PROVE x \in Rec!RecoveredSessions(O)
    <3>1. PICK y \in Rec!RecoveredSessions(O) :
            x = IF y.run = run THEN [y EXCEPT !.open = FALSE] ELSE y
      BY <1>1
    <3>2. y.day = d
      BY <1>4, <2>2, <3>1, ClosedSession
    <3> QED BY <2>0, <3>1, <3>2
  <2> QED BY <2>1, <2>2, SameInDay
<1> QED BY <1>3, <1>5, <1>9, <1>10, <1>11, <1>12 DEF DayStays

LEMMA ConnectSealed ==
    ASSUME LedgerInv, NEW s \in Streams, Rec!Connect(s), NEW d \in sealed
    PROVE  DayStays(d)
<1>1. PICK x : x = [run |-> run, stream |-> s,
                    n |-> Rec!Cardinality({y \in sessions : y.run = run /\ y.stream = s}),
                    day |-> Rec!DayOf(now), open |-> TRUE]
  OBVIOUS
<1>2. /\ instances' = instances /\ gaps' = gaps /\ Rec!Writable(Rec!DayOf(now))
      /\ sessions' = sessions \cup {x}
      /\ segments' = Rec!OpenSegment(segments, s, Rec!SegmentNo(s), s = "trade")
  BY <1>1 DEF Rec!Connect
<1>3. x.day # d
  BY <1>1, <1>2 DEF Rec!Writable
<1>4. Rec!InDay(sessions', d) = Rec!InDay(sessions, d)
  BY <1>2, <1>3 DEF Rec!InDay
<1>5. Rec!InDay(segments', d) = Rec!InDay(segments, d)
  BY <1>2, OpenInDay
<1> QED BY <1>2, <1>4, <1>5 DEF DayStays

LEMMA DisconnectSealed ==
    ASSUME LedgerInv, NEW s \in Streams, NEW fails \in BOOLEAN, Rec!Disconnect(s, fails),
           NEW d \in sealed
    PROVE  DayStays(d)
<1> DEFINE G == IF fails /\ s = "depth" THEN Rec!SequenceState(FALSE) ELSE segments
<1>0. PICK x : x = EndedSession(s)
  OBVIOUS
<1> DEFINE C == {g \in G : g.run = run /\ g.stream = s /\ g.open /\ g.day = x.day}
<1>1. /\ run # 0 /\ instances' = instances /\ gaps' = gaps /\ socket[s]
      /\ Rec!Writable(Rec!DayOf(now))
      /\ sessions' = (sessions \ {x}) \cup {[x EXCEPT !.open = FALSE]}
      /\ segments' = {IF g.run = run /\ g.stream = s /\ g.open /\ g.day = x.day
                      THEN Rec!Closed(g, now) ELSE g : g \in G}
  BY <1>0 DEF Rec!Disconnect, Rec!EndSession, EndedSession
<1>2. AliveInv /\ SocketsHaveSessions /\ RowsOK /\ SealedIsPast /\ now \in Nat
  BY DEF LedgerInv, AliveInv, CountersOK
<1>3. x \in sessions /\ x.open /\ SessionRow(x)
  BY <1>0, <1>1, <1>2, EndedSessionIsOpen DEF RowsOK
<1>4. x.day # d
  BY <1>2, <1>3 DEF SealedIsPast
<1>5. [x EXCEPT !.open = FALSE].day # d
  BY <1>3, <1>4, ClosedSession
<1>6. Rec!InDay(sessions', d) = Rec!InDay(sessions, d)
  BY <1>1, <1>4, <1>5 DEF Rec!InDay
<1>7. \A g \in G : SegmentRow(g)
  BY <1>1, <1>2, SequenceIsAlive, SegmentsAreAlive
<1>8. Rec!InDay(G, d) = Rec!InDay(segments, d)
  BY <1>1, <1>2, SequenceInDay
<1>9. /\ segments' = {IF g \in C THEN Rec!Closed(g, now) ELSE g : g \in G}
      /\ C \subseteq G /\ \A g \in C : g.day # d
  <2> HIDE DEF G
  <2> QED BY <1>1, <1>4
<1> HIDE DEF G, C
<1>10. Rec!InDay(segments', d) = Rec!InDay(G, d)
  BY <1>2, <1>7, <1>9, ClosedInDay
<1> QED BY <1>1, <1>6, <1>8, <1>10 DEF DayStays

LEMMA SealedStaysStep ==
    ASSUME LedgerInv, [Rec!Next]_(Rec!vars)
    PROVE  Rec!SealedStays
<1>1. sealed \subseteq sealed'
  BY DEF Rec!vars, Rec!Next, Rec!Tick, Rec!Start, Rec!Synchronise, Rec!Heartbeat, Rec!Stop,
     Rec!Crash, Rec!Connect, Rec!Disconnect
<1>2. ASSUME NEW d \in sealed PROVE DayStays(d)
  <2>1. CASE Rec!Tick \/ Rec!Crash \/ UNCHANGED Rec!vars
    BY <2>1 DEF Rec!Tick, Rec!Crash, Rec!vars, DayStays
  <2>2. CASE Rec!Start
    BY <2>2, StartSealed
  <2>3. CASE Rec!Synchronise
    <3>1. /\ instances' = instances /\ sessions' = sessions /\ gaps' = gaps
          /\ segments' = Rec!SequenceState(TRUE) /\ Rec!Writable(Rec!DayOf(now))
      BY <2>3 DEF Rec!Synchronise
    <3>2. Rec!InDay(segments', d) = Rec!InDay(segments, d)
      BY <3>1, SequenceInDay DEF LedgerInv
    <3> QED BY <3>1, <3>2 DEF DayStays
  <2>4. CASE Rec!Heartbeat
    BY <2>4, HeartbeatSealed
  <2>5. CASE Rec!Stop
    BY <2>5, StopSealed
  <2>6. CASE \E s \in Streams : Rec!Connect(s)
    BY <2>6, ConnectSealed
  <2>7. CASE \E s \in Streams, fails \in BOOLEAN : Rec!Disconnect(s, fails)
    BY <2>7, DisconnectSealed
  <2> QED BY <2>1, <2>2, <2>3, <2>4, <2>5, <2>6, <2>7 DEF Rec!Next
<1> QED BY <1>1, <1>2 DEF Rec!SealedStays, DayStays

(* A sealed partition never changes again: no instance, session, segment   *)
(* or gap of its day is inserted, closed or carried on, by any later       *)
(* process.  (_is_finalized, finalize_partitions)                          *)
THEOREM SealedDaysAreFinal ==
    ASSUME ConstantsOK
    PROVE  Rec!Spec => Rec!SealedIsFinal
<1>1. Rec!Init => LedgerInv
  BY InitLedgerInv
<1>2. LedgerInv /\ [Rec!Next]_(Rec!vars) => [Rec!SealedStays]_(Rec!vars)
  BY SealedStaysStep
<1> QED BY <1>1, <1>2, LedgerInvStep, PTL DEF Rec!Spec, Rec!SealedIsFinal

----------------------------------------------------------------------------

(***************************************************************************)
(* The depth stream, for every set of price levels and any number of       *)
(* updates and connections.                                                *)
(*                                                                         *)
(* Events reach the recorder in the order in which they were packed, and   *)
(* what is buffered or in the book is behind what is on the wire           *)
(* (EventsOK, BookOK): that is why a sample is of the event's own update   *)
(* id, and no event is old.  An event whose updates begin at or before the *)
(* book's next one brings the book up to its own last update, because a    *)
(* level that it does not name was left alone in between, so that one the  *)
(* book does not list has not changed since the snapshot either            *)
(* (ApplyLevelsIsExact).  bootstrap is a recursion over the events; it is  *)
(* reasoned about by the least event at which it would go wrong            *)
(* (BootstrapIsExact).  What the segments claim follows from where a       *)
(* session's row and its segments are filed (SegmentsOK).                  *)
(***************************************************************************)
CONSTANTS Levels, Limit, MaxUpdate, MaxDay
VARIABLES changes, sent, wire, date, session, book, buffered, snapshot, samples, depths,
          depth_segments

Depth == INSTANCE DepthStream WITH day <- date, segments <- depth_segments

(* The events the exchange may pack of the updates so far. *)
EventOf(p, n) ==
    [first |-> p + 1, final |-> n, previous |-> p,
     levels |-> {changes[k].level : k \in p + 1 .. n}, after |-> Depth!Truth(n)]
PackedEvents ==
    {EventOf(q[1], q[2]) : q \in {r \in Nat \X Nat : r[1] < r[2] /\ r[2] <= Len(changes)}}

(* Levels that are exact at an update the exchange has made, as deep as a  *)
(* snapshot that was taken at an earlier one.                              *)
SoundBook(levels, id, base) ==
    /\ id \in 1 .. Len(changes) /\ base \in 0 .. id
    /\ levels \in [Levels -> Nat]
    /\ Depth!Exact(levels, id, base)

ExactBook(b) == SoundBook(b.levels, b.update_id, b.base)

(* The exchange's side. *)
ExchangeOK ==
    /\ changes \in Seq([level : Levels, gone : BOOLEAN])
    /\ sent \in Nat /\ sent <= Len(changes)
    /\ snapshot.last \in Nat /\ snapshot.last <= Len(changes)

(* What was packed comes in order. *)
Ordered(s) == \A i, j \in 1 .. Len(s) : i < j => s[i].final <= s[j].previous
EventsOK ==
    /\ wire \in Seq(PackedEvents) /\ buffered \in Seq(PackedEvents)
    /\ Ordered(wire) /\ Ordered(buffered)
    /\ \A i \in 1 .. Len(wire) : wire[i].final <= sent
    /\ \A i \in 1 .. Len(buffered) : buffered[i].final <= sent
    /\ \A i \in 1 .. Len(buffered), j \in 1 .. Len(wire) : buffered[i].final <= wire[j].previous

(* The book is behind what waits on the connection. *)
BookOK ==
    /\ book = Depth!NoBook \/ ExactBook(book)
    /\ book.update_id <= sent
    /\ \A j \in 1 .. Len(wire) : book.update_id <= wire[j].previous

(* A sample is of the exchange's book at its update id. *)
SampleRows == [id : Nat, levels : [Levels -> Nat], base : Nat]
ExactSamples == {x \in SampleRows : SoundBook(x.levels, x.id, x.base)}
SamplesOK == samples \in Seq(ExactSamples)

(* What is OPEN: with a book only segments of its own session, and none    *)
(* that is valid without one, but for the session's that began earlier.    *)
SegmentsOK ==
    /\ date \in Nat
    /\ session \in [n : Nat, open : BOOLEAN, day : Nat] /\ session.day <= date
    /\ \A g \in depth_segments : g.opened \in Nat /\ g.day \in Nat /\ g.opened <= g.day
    /\ Depth!Synchronised =>
          /\ depth_segments # {}
          /\ \A g \in depth_segments :
                g.valid /\ g.session = session.n /\ g.opened = session.day
    /\ \A g \in depth_segments : g.valid => Depth!Synchronised \/ g.opened < g.day

BookInv == ExchangeOK /\ EventsOK /\ BookOK /\ SamplesOK

----------------------------------------------------------------------------

(* Every set of natural numbers has a least one. *)
LEMMA LeastNatural ==
    ASSUME NEW T, T \subseteq Nat, T # {}
    PROVE  \E x \in T : \A y \in T : x <= y
<1>1. IsWellFoundedOn(OpToRel(<, Nat), Nat)
  BY NatLessThanWellFounded
<1>2. PICK x \in T : \A y \in T : ~(<<y, x>> \in OpToRel(<, Nat))
  BY <1>1, WFMin
<1>3. \A y \in T : ~(y < x)
  BY <1>2 DEF OpToRel
<1> QED BY <1>3

(* Min, of natural numbers. *)
LEMMA MinIsLeast ==
    ASSUME NEW T, T \subseteq Nat, T # {}
    PROVE  Depth!Min(T) \in T /\ \A y \in T : Depth!Min(T) <= y
BY LeastNatural DEF Depth!Min

(* The last number of T below n. *)
LEMMA LastBelow ==
    ASSUME NEW T, T \subseteq Nat, NEW n \in Nat, \E x \in T : x < n
    PROVE  \E x \in T : x < n /\ \A y \in T : y < n => y <= x
<1> DEFINE D == {k \in Nat : \E x \in T : x < n /\ k = n - x}
<1>1. D # {} /\ D \subseteq Nat
  <2>1. PICK x \in T : x < n
    OBVIOUS
  <2>2. n - x \in Nat
    BY <2>1
  <2> QED BY <2>1, <2>2
<1>2. PICK k \in D : \A j \in D : k <= j
  BY <1>1, LeastNatural
<1>3. PICK x \in T : x < n /\ k = n - x
  BY <1>2
<1>4. ASSUME NEW y \in T, y < n PROVE y <= x
  <2>1. n - y \in D
    BY <1>4
  <2>2. k <= n - y
    BY <1>2, <2>1
  <2> QED BY <1>3, <2>2
<1> QED BY <1>3, <1>4

(* bootstrap, event by event: what becomes of the book x with event i. *)
FirstKept(last, events) == Depth!Min({i \in 1 .. Len(events) : events[i].final >= last})
FromSnapshot(last) == [levels |-> Depth!Served(last), update_id |-> last, base |-> last]
Taken(x, i, last, events) ==
    CASE i < FirstKept(last, events) -> FromSnapshot(last)
      [] i = FirstKept(last, events) -> Depth!ApplyLevels(FromSnapshot(last), events[i])
      [] i > FirstKept(last, events) /\ i \in {k \in 1 .. Len(events) : events[k].final >= last} ->
            Depth!Apply(x, events[i])
      [] OTHER -> x

(* The books after each of the first n events. *)
IsBooks(f, n, last, events) ==
    f = [i \in 0 .. n |-> Taken(f[i - 1], i, last, events)]

(* The recursion of bootstrap has a solution for any number of events. *)
LEMMA BooksExist ==
    ASSUME NEW last, NEW events, NEW n \in Nat,
           \A x, y : Taken(x, 0, last, events) = Taken(y, 0, last, events)
    PROVE  \E f : IsBooks(f, n, last, events)
<1> DEFINE P(k) == \E f : IsBooks(f, k, last, events)
           T == {k \in Nat : ~P(k)}
<1>1. SUFFICES ASSUME T # {} PROVE FALSE
  OBVIOUS
<1>2. PICK k \in T : \A j \in T : k <= j
  BY <1>1, LeastNatural
<1> HIDE DEF P
<1>3. CASE k = 0
  <2> DEFINE g == [i \in 0 .. 0 |-> Taken(0, 0, last, events)]
  <2>1. g = [i \in 0 .. 0 |-> Taken(g[i - 1], i, last, events)]
    <3>1. \A i \in 0 .. 0 : g[i] = Taken(g[i - 1], i, last, events)
      OBVIOUS
    <3> QED BY <3>1
  <2> QED BY <1>2, <1>3, <2>1 DEF P, IsBooks
<1>4. CASE k # 0
  <2>1. k - 1 \in Nat /\ P(k - 1)
    BY <1>2, <1>4
  <2>2. PICK g : g = [i \in 0 .. (k - 1) |-> Taken(g[i - 1], i, last, events)]
    BY <2>1 DEF P, IsBooks
  <2> DEFINE h == [i \in 0 .. k |-> IF i = k THEN Taken(g[k - 1], k, last, events) ELSE g[i]]
  <2>3. ASSUME NEW i \in 0 .. k PROVE h[i] = Taken(h[i - 1], i, last, events)
    <3>1. CASE i = k
      <4>1. h[k - 1] = g[k - 1]
        BY <2>1
      <4> QED BY <3>1, <4>1
    <3>2. CASE i # k /\ i # 0
      <4>1. h[i] = g[i] /\ h[i - 1] = g[i - 1]
        BY <2>1, <3>2
      <4>2. g[i] = Taken(g[i - 1], i, last, events)
        <5>1. i \in 0 .. (k - 1)
          BY <2>1, <3>2
        <5> QED BY <2>2, <5>1
      <4> QED BY <4>1, <4>2
    <3>3. CASE i # k /\ i = 0
      <4>1. h[i] = g[i]
        BY <3>3
      <4>2. g[0] = Taken(g[0 - 1], 0, last, events)
        <5>1. 0 \in 0 .. (k - 1)
          BY <2>1
        <5> QED BY <2>2, <5>1
      <4> QED BY <3>3, <4>1, <4>2
    <3> QED BY <3>1, <3>2, <3>3
  <2>4. h = [i \in 0 .. k |-> Taken(h[i - 1], i, last, events)]
    BY <2>3
  <2> HIDE DEF h
  <2>5. P(k)
    BY <2>4 DEF P, IsBooks
  <2> QED BY <1>2, <2>5
<1> QED BY <1>2, <1>3, <1>4

(* bootstrap is that solution at the last event. *)
LEMMA BootstrapSteps ==
    ASSUME NEW last, NEW events, Len(events) \in Nat,
           {i \in 1 .. Len(events) : events[i].final >= last} # {},
           Depth!Bridges(events[FirstKept(last, events)], last)
    PROVE  \E f : /\ \A i \in 0 .. Len(events) : f[i] = Taken(f[i - 1], i, last, events)
                  /\ Depth!Bootstrap(last, events) = f[Len(events)]
<1> DEFINE f == CHOOSE g : IsBooks(g, Len(events), last, events)
<1>1. Depth!Bootstrap(last, events) = f[Len(events)]
  BY DEF Depth!Bootstrap, IsBooks, Taken, FirstKept, FromSnapshot
<1>2. \A x, y : Taken(x, 0, last, events) = Taken(y, 0, last, events)
  <2>1. FirstKept(last, events) \in 1 .. Len(events)
    BY MinIsLeast DEF FirstKept
  <2> QED BY <2>1 DEF Taken
<1>3. IsBooks(f, Len(events), last, events)
  <2>1. \E g : IsBooks(g, Len(events), last, events)
    BY <1>2, BooksExist
  <2> QED BY <2>1
<1> QED BY <1>1, <1>3 DEF IsBooks

----------------------------------------------------------------------------

(* Truth, by the updates of a level. *)
Touched(c, l, n) == {k \in 1 .. n : c[k].level = l}
Newest(T) == CHOOSE k \in T : \A j \in T : j <= k
Quantity(c, T) == IF T = {} \/ c[Newest(T)].gone THEN 0 ELSE Newest(T)

(* The book of the exchange, level by level. *)
LEMMA TruthOfLevel ==
    ASSUME NEW n
    PROVE  Depth!Truth(n) = [l \in Levels |-> Quantity(changes, Touched(changes, l, n))]
BY DEF Depth!Truth, Touched, Newest, Quantity

(* A level that was touched has a newest update. *)
LEMMA NewestIsOne ==
    ASSUME NEW n \in Nat, NEW T, T \subseteq 1 .. n, T # {}
    PROVE  Newest(T) \in T
<1>1. \E x \in T : x < n + 1 /\ \A y \in T : y < n + 1 => y <= x
  <2>1. T \subseteq Nat /\ n + 1 \in Nat
    OBVIOUS
  <2>2. PICK x \in T : TRUE
    OBVIOUS
  <2>3. x < n + 1
    OBVIOUS
  <2> QED BY <2>1, <2>2, <2>3, LastBelow
<1>2. \E x \in T : \A y \in T : y <= x
  BY <1>1
<1> QED BY <1>2 DEF Newest

(* Updates that come later leave the book of the first n as it was. *)
LEMMA TruthGrows ==
    ASSUME NEW C, changes \in Seq(C), NEW c \in C, changes' = Append(changes, c),
           NEW n \in Nat, n <= Len(changes)
    PROVE  Depth!Truth(n)' = Depth!Truth(n)
<1>1. \A k \in 1 .. n : changes'[k] = changes[k]
  OBVIOUS
<1>2. \A l : Touched(changes', l, n) = Touched(changes, l, n)
  BY <1>1 DEF Touched
<1>3. Depth!Truth(n)' = [l \in Levels |-> Quantity(changes', Touched(changes', l, n))]
  BY DEF Depth!Truth, Touched, Newest, Quantity
<1>4. ASSUME NEW l
      PROVE  Quantity(changes', Touched(changes', l, n)) = Quantity(changes, Touched(changes, l, n))
  <2> DEFINE T == Touched(changes, l, n)
  <2>1. T \subseteq 1 .. n
    BY DEF Touched
  <2>2. T # {} => changes'[Newest(T)] = changes[Newest(T)]
    BY <1>1, <2>1, NewestIsOne
  <2> QED BY <1>2, <2>2 DEF Quantity
<1> QED BY <1>3, <1>4, TruthOfLevel

(* No update from p on touches the level. *)
Quiet(l, p, n) == \A k \in p + 1 .. n : changes[k].level # l

(* Such a level keeps its quantity. *)
LEMMA TruthOfQuietLevel ==
    ASSUME NEW p \in Nat, NEW u \in Nat, NEW n \in Nat, p <= u, u <= n,
           NEW l \in Levels, Quiet(l, p, n)
    PROVE  Depth!Truth(u)[l] = Depth!Truth(n)[l]
<1>1. Touched(changes, l, u) = Touched(changes, l, n)
  <2>1. ASSUME NEW k \in 1 .. n, changes[k].level = l PROVE k \in 1 .. u
    <3>1. ~(k \in p + 1 .. n)
      BY <2>1 DEF Quiet
    <3> QED BY <3>1
  <2> QED BY <2>1 DEF Touched
<1> QED BY <1>1, TruthOfLevel

(* A quantity is the number of an update. *)
LEMMA TruthIsBounded ==
    ASSUME NEW n \in Nat, NEW l \in Levels
    PROVE  Depth!Truth(n)[l] \in Nat /\ Depth!Truth(n)[l] <= n
<1> DEFINE T == Touched(changes, l, n)
<1>1. T \subseteq 1 .. n
  BY DEF Touched
<1>2. Depth!Truth(n)[l] = Quantity(changes, T)
  BY TruthOfLevel
<1> HIDE DEF T
<1>3. Quantity(changes, T) = 0 \/ (T # {} /\ Quantity(changes, T) = Newest(T))
  BY DEF Quantity
<1>4. T # {} => Newest(T) \in 1 .. n
  BY <1>1, NewestIsOne
<1> QED BY <1>2, <1>3, <1>4

(* What a snapshot leaves of a book. *)
Cut(T) ==
    [l \in Levels |-> IF Depth!Cardinality({m \in Levels : m < l /\ T[m] # 0}) < Limit
                      THEN T[l] ELSE 0]

LEMMA ServedOfTruth == ASSUME NEW n PROVE Depth!Served(n) = Cut(Depth!Truth(n))
BY DEF Depth!Served, Depth!Ahead, Cut

(* What is exact stays so while the books up to then are what they were. *)
LEMMA SoundStays ==
    ASSUME Len(changes) \in Nat, Len(changes') \in Nat, Len(changes) <= Len(changes'),
           \A n \in Nat : n <= Len(changes) => Depth!Truth(n)' = Depth!Truth(n),
           NEW levels, NEW id, NEW base, SoundBook(levels, id, base)
    PROVE  SoundBook(levels, id, base)'
<1>1. id \in Nat /\ base \in Nat /\ id <= Len(changes) /\ base <= Len(changes)
      /\ id \in 1 .. Len(changes') /\ base \in 0 .. id
  BY DEF SoundBook
<1>2. Depth!Truth(id)' = Depth!Truth(id) /\ Depth!Truth(base)' = Depth!Truth(base)
  BY <1>1
<1>3. Depth!Served(base)' = Cut(Depth!Truth(base)')
  BY DEF Depth!Served, Depth!Ahead, Cut
<1>4. Depth!Served(base)' = Depth!Served(base)
  BY <1>2, <1>3, ServedOfTruth
<1>5. Depth!Exact(levels, id, base)'
  BY <1>2, <1>4 DEF SoundBook, Depth!Exact
<1> QED BY <1>1, <1>5 DEF SoundBook

----------------------------------------------------------------------------

(* The ids, the levels and the quantities of an event. *)
LEMMA PackedFields ==
    ASSUME NEW e \in PackedEvents
    PROVE  /\ e.previous \in Nat /\ e.final \in Nat \ {0} /\ e.first = e.previous + 1
           /\ e.previous < e.final /\ e.final <= Len(changes)
           /\ e.levels = {changes[k].level : k \in e.previous + 1 .. e.final}
           /\ e.after = Depth!Truth(e.final)
<1>1. PICK q \in Nat \X Nat : q[1] < q[2] /\ q[2] <= Len(changes) /\ e = EventOf(q[1], q[2])
  BY DEF PackedEvents
<1>2. q[1] \in Nat /\ q[2] \in Nat
  OBVIOUS
<1> QED BY <1>1, <1>2 DEF EventOf

(* An event that begins where another ended, or later. *)
LEMMA LaterIsNewer ==
    ASSUME NEW e \in PackedEvents, NEW g \in PackedEvents, e.final <= g.previous
    PROVE  e.final < g.final
<1>1. e.final \in Nat /\ g.previous \in Nat /\ g.final \in Nat /\ g.previous < g.final
  BY PackedFields
<1> QED BY <1>1

(* _apply_levels, of an event that has the updates the book lacks: a level *)
(* it does not name was left alone, whether the book lists it or not.      *)
LEMMA ApplyLevelsIsExact ==
    ASSUME NEW e \in PackedEvents, NEW b, b.update_id \in Nat, b.base \in 0 .. b.update_id,
           b.levels \in [Levels -> Nat], Depth!Exact(b.levels, b.update_id, b.base),
           e.previous <= b.update_id, b.update_id <= e.final
    PROVE  ExactBook(Depth!ApplyLevels(b, e)) /\ Depth!ApplyLevels(b, e).update_id = e.final
<1> DEFINE a == Depth!ApplyLevels(b, e)
<1>1. /\ e.previous \in Nat /\ e.final \in Nat \ {0} /\ e.final <= Len(changes)
      /\ e.levels = {changes[k].level : k \in e.previous + 1 .. e.final}
      /\ e.after = Depth!Truth(e.final)
  BY PackedFields
<1>2. \A l \in Levels : l \notin e.levels => Depth!Truth(b.update_id)[l] = Depth!Truth(e.final)[l]
  <2> SUFFICES ASSUME NEW l \in Levels, l \notin e.levels
               PROVE  Depth!Truth(b.update_id)[l] = Depth!Truth(e.final)[l]
    OBVIOUS
  <2>1. Quiet(l, e.previous, e.final)
    BY <1>1 DEF Quiet
  <2>2. PICK p \in Nat, u \in Nat, n \in Nat : p = e.previous /\ u = b.update_id /\ n = e.final
    BY <1>1
  <2>3. p <= u /\ u <= n /\ Quiet(l, p, n)
    BY <2>1, <2>2
  <2>4. Depth!Truth(u)[l] = Depth!Truth(n)[l]
    BY <2>3, TruthOfQuietLevel
  <2> QED BY <2>2, <2>4
<1>3. /\ a.update_id = e.final /\ a.base = b.base
      /\ a.levels = [l \in Levels |-> IF l \in e.levels THEN e.after[l] ELSE b.levels[l]]
  BY DEF Depth!ApplyLevels
<1> HIDE DEF a
<1>4. a.levels \in [Levels -> Nat]
  <2>1. \A l \in Levels : e.after[l] \in Nat
    <3>1. \A n \in Nat : \A l \in Levels : Depth!Truth(n)[l] \in Nat
      BY TruthIsBounded
    <3> QED BY <1>1, <3>1
  <2> QED BY <1>3, <2>1
<1>5. Depth!Exact(a.levels, e.final, b.base)
  <2> SUFFICES ASSUME NEW l \in Levels
               PROVE  \/ a.levels[l] = Depth!Truth(e.final)[l]
                      \/ /\ a.levels[l] = 0 /\ Depth!Served(b.base)[l] = 0
                         /\ Depth!Truth(e.final)[l] <= b.base
    BY DEF Depth!Exact
  <2>1. CASE l \in e.levels
    BY <1>1, <1>3, <2>1
  <2>2. CASE l \notin e.levels
    <3>1. a.levels[l] = b.levels[l] /\ Depth!Truth(b.update_id)[l] = Depth!Truth(e.final)[l]
      BY <1>2, <1>3, <2>2
    <3>2. \/ b.levels[l] = Depth!Truth(b.update_id)[l]
          \/ /\ b.levels[l] = 0 /\ Depth!Served(b.base)[l] = 0
             /\ Depth!Truth(b.update_id)[l] <= b.base
      BY DEF Depth!Exact
    <3> QED BY <3>1, <3>2
  <2> QED BY <2>1, <2>2
<1>6. e.final \in 1 .. Len(changes) /\ b.base \in 0 .. e.final
  BY <1>1
<1> QED BY <1>3, <1>4, <1>5, <1>6 DEF ExactBook, SoundBook, a

(* The levels a snapshot serves: a level below its limit has not changed   *)
(* since the snapshot.                                                     *)
LEMMA SnapshotIsExact ==
    ASSUME NEW last \in Nat
    PROVE  /\ Depth!Served(last) \in [Levels -> Nat]
           /\ Depth!Exact(Depth!Served(last), last, last)
<1>1. \A l \in Levels : Depth!Truth(last)[l] \in Nat /\ Depth!Truth(last)[l] <= last
  BY TruthIsBounded
<1>2. \A l \in Levels : \/ Depth!Served(last)[l] = Depth!Truth(last)[l]
                       \/ Depth!Served(last)[l] = 0
  BY DEF Depth!Served
<1>3. Depth!Served(last) = [l \in Levels |-> Depth!Served(last)[l]]
  BY DEF Depth!Served
<1>4. Depth!Served(last) \in [Levels -> Nat]
  BY <1>1, <1>2, <1>3
<1> QED BY <1>1, <1>2, <1>4 DEF Depth!Exact

(* apply, of an event that is not old. *)
LEMMA ApplyIsExact ==
    ASSUME NEW b, b = Depth!NoBook \/ ExactBook(b), NEW e \in PackedEvents, b.update_id < e.final
    PROVE  \/ Depth!Apply(b, e) = Depth!NoBook
           \/ ExactBook(Depth!Apply(b, e)) /\ Depth!Apply(b, e).update_id = e.final
<1>1. e.previous \in Nat /\ e.final \in Nat \ {0} /\ e.previous < e.final
  BY PackedFields
<1>2. CASE b = Depth!NoBook
  BY <1>2 DEF Depth!Apply, Depth!NoBook
<1>3. CASE ExactBook(b)
  <2>1. /\ b.update_id \in Nat \ {0} /\ b.base \in 0 .. b.update_id
        /\ b.levels \in [Levels -> Nat] /\ Depth!Exact(b.levels, b.update_id, b.base)
    BY <1>3 DEF ExactBook, SoundBook
  <2>2. CASE Depth!Follows(b, e)
    <3>1. Depth!Apply(b, e) = Depth!ApplyLevels(b, e)
      BY <1>1, <2>1, <2>2 DEF Depth!Apply
    <3>2. e.previous = b.update_id
      BY <2>2 DEF Depth!Follows
    <3>3. ExactBook(Depth!ApplyLevels(b, e)) /\ Depth!ApplyLevels(b, e).update_id = e.final
      BY <1>1, <2>1, <3>2, ApplyLevelsIsExact
    <3> QED BY <3>1, <3>3
  <2>3. CASE ~Depth!Follows(b, e)
    BY <1>1, <2>1, <2>3 DEF Depth!Apply
  <2> QED BY <2>2, <2>3
<1> QED BY <1>2, <1>3

(* bootstrap, of events that come in order. *)
LEMMA BootstrapIsExact ==
    ASSUME NEW last \in Nat, last <= Len(changes), NEW events \in Seq(PackedEvents), events # <<>>,
           Ordered(events), NEW b, b = Depth!Bootstrap(last, events)
    PROVE  \/ b = Depth!NoBook
           \/ ExactBook(b) /\ b.update_id = events[Len(events)].final
<1> DEFINE kept == {i \in 1 .. Len(events) : events[i].final >= last}
           first == FirstKept(last, events)
           Right(x, i) == x = Depth!NoBook \/ (ExactBook(x) /\ x.update_id = events[i].final)
<1>1. CASE kept = {} \/ ~Depth!Bridges(events[first], last)
  BY <1>1 DEF Depth!Bootstrap, FirstKept
<1>2. CASE kept # {} /\ Depth!Bridges(events[first], last)
  <2>0. Len(events) \in Nat /\ \A i \in 1 .. Len(events) : events[i] \in PackedEvents
    OBVIOUS
  <2>1. first \in kept
    <3>1. kept \subseteq Nat /\ first = Depth!Min(kept)
      BY DEF FirstKept
    <3> HIDE DEF kept, first
    <3> QED BY <1>2, <3>1, MinIsLeast
  <2>2. PICK f : /\ \A i \in 0 .. Len(events) : f[i] = Taken(f[i - 1], i, last, events)
                 /\ b = f[Len(events)]
    BY <1>2, <2>0, BootstrapSteps
  <2>3. Right(f[first], first)
    <3>1. f[first] = Depth!ApplyLevels(FromSnapshot(last), events[first])
      <4>1. f[first] = Taken(f[first - 1], first, last, events)
        BY <2>0, <2>1, <2>2
      <4> QED BY <2>0, <2>1, <4>1 DEF Taken
    <3> DEFINE x == FromSnapshot(last)
    <3>2. /\ x.update_id = last /\ x.base = last /\ last \in 0 .. last
          /\ x.levels \in [Levels -> Nat] /\ Depth!Exact(x.levels, last, last)
      BY SnapshotIsExact DEF FromSnapshot
    <3>3. /\ events[first] \in PackedEvents
          /\ events[first].first <= last /\ last <= events[first].final
      BY <1>2, <2>0, <2>1 DEF Depth!Bridges
    <3>4. events[first].previous <= last
      BY <3>3, PackedFields
    <3> HIDE DEF x
    <3> QED BY <3>1, <3>2, <3>3, <3>4, ApplyLevelsIsExact DEF x
  <2> HIDE DEF Right
  <2>4. ASSUME NEW i \in first + 1 .. Len(events), Right(f[i - 1], i - 1)
        PROVE  Right(f[i], i)
    <3>1. /\ i \in 1 .. Len(events) /\ i - 1 \in 1 .. Len(events) /\ i > first /\ i # first
          /\ first \in 1 .. Len(events) /\ ~(i < first) /\ first < i /\ i - 1 < i
      BY <2>0, <2>1, <2>4
    <3> HIDE DEF kept, first
    <3>2. /\ events[i] \in PackedEvents /\ events[i - 1] \in PackedEvents
          /\ events[first] \in PackedEvents
      BY <2>0, <3>1
    <3>3. events[i - 1].final < events[i].final /\ events[first].final < events[i].final
      <4>1. events[i - 1].final <= events[i].previous /\ events[first].final <= events[i].previous
        BY <3>1 DEF Ordered
      <4> QED BY <3>2, <4>1, LaterIsNewer
    <3>4. i \in kept
      <4>1. events[first].final >= last
        BY <2>1 DEF kept
      <4>2. events[first].final \in Nat /\ events[i].final \in Nat
        BY <3>2, PackedFields
      <4> QED BY <3>1, <3>3, <4>1, <4>2 DEF kept
    <3>5. f[i] = Depth!Apply(f[i - 1], events[i])
      <4>1. f[i] = Taken(f[i - 1], i, last, events)
        BY <2>2, <3>1
      <4> QED BY <3>1, <3>4, <4>1 DEF Taken, kept, first
    <3>6. f[i - 1] = Depth!NoBook \/ ExactBook(f[i - 1])
      BY <2>4 DEF Right
    <3>7. f[i - 1].update_id < events[i].final
      BY <2>4, <3>2, <3>3, PackedFields DEF Right, Depth!NoBook
    <3> QED BY <3>2, <3>5, <3>6, <3>7, ApplyIsExact DEF Right
  <2>5. Right(f[Len(events)], Len(events))
    <3> DEFINE T == {i \in first .. Len(events) : ~Right(f[i], i)}
    <3>0. first \in 1 .. Len(events)
      BY <2>1
    <3>1. SUFFICES ASSUME T # {} PROVE FALSE
      BY <2>0, <3>0
    <3>2. PICK i \in T : \A j \in T : i <= j
      <4>1. T \subseteq Nat
        BY <2>0, <3>0
      <4> QED BY <3>1, <4>1, LeastNatural
    <3>3. i # first
      BY <2>3, <3>2
    <3>4. i - 1 \in first .. Len(events) /\ i \in first + 1 .. Len(events) /\ ~(i <= i - 1)
      BY <2>0, <3>0, <3>2, <3>3
    <3>5. Right(f[i - 1], i - 1)
      BY <3>2, <3>4
    <3> QED BY <2>4, <3>2, <3>4, <3>5
  <2> QED BY <2>2, <2>5 DEF Right
<1> QED BY <1>1, <1>2

----------------------------------------------------------------------------

(* Steps that leave the updates of the exchange alone. *)
LEMMA SameUpdates ==
    ASSUME changes' = changes
    PROVE  /\ PackedEvents' = PackedEvents /\ ExactSamples' = ExactSamples
           /\ \A b : ExactBook(b)' = ExactBook(b)
<1>1. \A n : Depth!Truth(n)' = Depth!Truth(n)
  BY DEF Depth!Truth
<1>2. \A n : Depth!Served(n)' = Depth!Served(n)
  <2>1. \A n : Depth!Served(n)' = Cut(Depth!Truth(n)')
    BY DEF Depth!Served, Depth!Ahead, Cut
  <2> QED BY <1>1, <2>1, ServedOfTruth
<1>3. \A levels, id, base : SoundBook(levels, id, base)' = SoundBook(levels, id, base)
  BY <1>1, <1>2 DEF SoundBook, Depth!Exact
<1>4. \A b : ExactBook(b)' = ExactBook(b)
  BY <1>3 DEF ExactBook
<1>5. ExactSamples' = ExactSamples
  BY <1>3 DEF ExactSamples, SampleRows
<1> QED BY <1>1, <1>4, <1>5 DEF PackedEvents, EventOf

(* The number of the last update in the book. *)
LEMMA BookNumber == ASSUME BookOK PROVE book.update_id \in Nat
BY DEF BookOK, ExactBook, SoundBook, Depth!NoBook

(* A book that is not touched stays exact. *)
LEMMA BookStays ==
    ASSUME \A b : ExactBook(b) => ExactBook(b)', book' = book, ExactBook(book)
    PROVE  ExactBook(book)'
<1>1. PICK x : x = book
  OBVIOUS
<1>2. ExactBook(x)' /\ x = book'
  BY <1>1
<1> QED BY <1>2 DEF ExactBook

(* What was packed and sampled stays so when updates come. *)
LEMMA MoreUpdates ==
    ASSUME NEW C, changes \in Seq(C), NEW c \in C, changes' = Append(changes, c)
    PROVE  /\ PackedEvents \subseteq PackedEvents' /\ ExactSamples \subseteq ExactSamples'
           /\ \A b : ExactBook(b) => ExactBook(b)'
           /\ Len(changes) <= Len(changes') /\ Len(changes) \in Nat /\ Len(changes') \in Nat
           /\ changes' \in Seq(C)
<1>0. Len(changes) \in Nat /\ Len(changes') = Len(changes) + 1 /\ changes' \in Seq(C)
  OBVIOUS
<1>1. \A n \in Nat : n <= Len(changes) => Depth!Truth(n)' = Depth!Truth(n)
  BY TruthGrows
<1>2. \A k \in 1 .. Len(changes) : changes'[k] = changes[k]
  OBVIOUS
<1>3. ASSUME NEW p \in Nat, NEW n \in Nat, n <= Len(changes)
      PROVE  EventOf(p, n)' = EventOf(p, n)
  <2>1. \A k \in p + 1 .. n : changes'[k] = changes[k]
    BY <1>0, <1>2, <1>3
  <2>2. {changes'[k].level : k \in p + 1 .. n} = {changes[k].level : k \in p + 1 .. n}
    BY <2>1
  <2> QED BY <1>1, <1>3, <2>2 DEF EventOf
<1>4. PackedEvents \subseteq PackedEvents'
  <2> SUFFICES ASSUME NEW e \in PackedEvents PROVE e \in PackedEvents'
    OBVIOUS
  <2>1. PICK q \in Nat \X Nat : q[1] < q[2] /\ q[2] <= Len(changes) /\ e = EventOf(q[1], q[2])
    BY DEF PackedEvents
  <2>2. PICK p \in Nat, n \in Nat : p = q[1] /\ n = q[2]
    OBVIOUS
  <2>3. e = EventOf(p, n)' /\ p < n /\ n <= Len(changes')
    BY <1>0, <1>3, <2>1, <2>2
  <2>4. q \in {r \in Nat \X Nat : r[1] < r[2] /\ r[2] <= Len(changes')} /\ e = EventOf(q[1], q[2])'
    BY <2>2, <2>3
  <2> QED BY <2>4 DEF PackedEvents
<1>5. ASSUME NEW levels, NEW id, NEW base, SoundBook(levels, id, base)
      PROVE  SoundBook(levels, id, base)'
  <2>1. Len(changes') \in Nat /\ Len(changes) <= Len(changes')
    BY <1>0
  <2> QED BY <1>0, <1>1, <1>5, <2>1, SoundStays
<1>6. \A b : ExactBook(b) => ExactBook(b)'
  BY <1>5 DEF ExactBook
<1>7. ExactSamples \subseteq ExactSamples'
  BY <1>5 DEF ExactSamples, SampleRows
<1> QED BY <1>0, <1>4, <1>6, <1>7

(* Every step keeps the invariant. *)
LEMMA UpdateKeepsInv ==
    ASSUME BookInv, NEW l \in Levels, NEW gone \in BOOLEAN, Depth!Update(l, gone)
    PROVE  BookInv'
<1> DEFINE C == [level : Levels, gone : BOOLEAN]
<1>1. [level |-> l, gone |-> gone] \in C /\ changes \in Seq(C)
  BY DEF BookInv, ExchangeOK
<1>2. changes' = Append(changes, [level |-> l, gone |-> gone])
  BY DEF Depth!Update
<1>3. UNCHANGED <<sent, wire, book, buffered, snapshot, samples, depths>>
  BY DEF Depth!Update
<1>4. /\ PackedEvents \subseteq PackedEvents' /\ ExactSamples \subseteq ExactSamples'
      /\ \A b : ExactBook(b) => ExactBook(b)'
      /\ Len(changes) <= Len(changes') /\ Len(changes) \in Nat /\ Len(changes') \in Nat
      /\ changes' \in Seq(C)
  BY <1>1, <1>2, MoreUpdates
<1>5. ExchangeOK'
  BY <1>3, <1>4 DEF BookInv, ExchangeOK
<1>6. EventsOK'
  <2>1. wire' \in Seq(PackedEvents') /\ buffered' \in Seq(PackedEvents')
    BY <1>3, <1>4 DEF BookInv, EventsOK
  <2> QED BY <1>3, <2>1 DEF BookInv, EventsOK, Ordered
<1>7. BookOK'
  BY <1>3, <1>4 DEF BookInv, BookOK, Depth!NoBook, Depth!Empty
<1>8. SamplesOK'
  BY <1>3, <1>4 DEF BookInv, SamplesOK
<1> QED BY <1>5, <1>6, <1>7, <1>8 DEF BookInv

(* An event is packed: it goes behind all the others. *)
LEMMA PackKeepsInv ==
    ASSUME BookInv, NEW lost \in BOOLEAN, Depth!Pack(lost)
    PROVE  BookInv'
<1> DEFINE n == Len(changes)
           e == EventOf(sent, n)
<1>1. changes' = changes /\ sent' = n /\ sent < n /\ n \in Nat /\ sent \in Nat
  BY DEF Depth!Pack, BookInv, ExchangeOK
<1>2. UNCHANGED <<book, buffered, snapshot, samples, depths>>
  BY DEF Depth!Pack
<1>3. /\ PackedEvents' = PackedEvents /\ ExactSamples' = ExactSamples
      /\ \A b : ExactBook(b)' = ExactBook(b)
  BY <1>1, SameUpdates
<1>4. e \in PackedEvents /\ e.previous = sent /\ e.final = n
  <2>1. <<sent, n>> \in {r \in Nat \X Nat : r[1] < r[2] /\ r[2] <= Len(changes)}
    BY <1>1
  <2>2. EventOf(sent, n) \in PackedEvents
    <3>1. PICK q \in {r \in Nat \X Nat : r[1] < r[2] /\ r[2] <= Len(changes)} :
              q[1] = sent /\ q[2] = n
      BY <2>1
    <3> QED BY <3>1 DEF PackedEvents
  <2> QED BY <2>2 DEF EventOf
<1>5. wire' = wire \/ wire' = Append(wire, e)
  <2>1. Depth!Event(n) = e
    BY DEF Depth!Event, EventOf
  <2> QED BY <2>1 DEF Depth!Pack
<1> HIDE DEF e
<1>6. /\ wire \in Seq(PackedEvents) /\ buffered \in Seq(PackedEvents)
      /\ Ordered(wire) /\ Ordered(buffered)
      /\ \A i \in 1 .. Len(wire) : wire[i] \in PackedEvents /\ wire[i].final <= sent
      /\ \A i \in 1 .. Len(buffered) : buffered[i] \in PackedEvents /\ buffered[i].final <= sent
      /\ \A i \in 1 .. Len(buffered), j \in 1 .. Len(wire) : buffered[i].final <= wire[j].previous
  BY DEF BookInv, EventsOK
<1>7. /\ \A i \in 1 .. Len(wire) : wire[i].final \in Nat
      /\ \A i \in 1 .. Len(buffered) : buffered[i].final \in Nat
  <2>1. \A x \in PackedEvents : x.final \in Nat
    BY PackedFields
  <2> QED BY <1>6, <2>1
<1>8. ExchangeOK'
  BY <1>1, <1>2 DEF BookInv, ExchangeOK
<1>9. (book = Depth!NoBook \/ ExactBook(book))' /\ book'.update_id <= sent'
  <2>1. book = Depth!NoBook \/ ExactBook(book)
    BY DEF BookInv, BookOK
  <2>2. ExactBook(book) => ExactBook(book)'
    BY <1>2, <1>3, BookStays
  <2>3. book.update_id \in Nat /\ book.update_id <= sent
    BY BookNumber DEF BookInv, BookOK
  <2> QED BY <1>1, <1>2, <2>1, <2>2, <2>3 DEF Depth!NoBook, Depth!Empty
<1>10. wire' \in Seq(PackedEvents') /\ buffered' \in Seq(PackedEvents')
  BY <1>2, <1>3, <1>4, <1>5, <1>6
<1>11. CASE wire' = wire
  <2>0. /\ \A i \in 1 .. Len(wire) : wire[i].final <= n
        /\ \A i \in 1 .. Len(buffered) : buffered[i].final <= n
    <3>1. \A m \in Nat : m <= sent => m <= n
      BY <1>1
    <3> HIDE DEF n
    <3>2. ASSUME NEW i \in 1 .. Len(wire) PROVE wire[i].final <= n
      BY <1>6, <1>7, <3>1
    <3>3. ASSUME NEW i \in 1 .. Len(buffered) PROVE buffered[i].final <= n
      BY <1>6, <1>7, <3>1
    <3> QED BY <3>2, <3>3
  <2>1. EventsOK'
    BY <1>1, <1>2, <1>6, <1>10, <1>11, <2>0 DEF EventsOK, Ordered
  <2>2. BookOK'
    BY <1>2, <1>11, <1>9 DEF BookInv, BookOK
  <2> QED BY <1>2, <1>3, <1>8, <2>1, <2>2 DEF BookInv, SamplesOK
<1>12. CASE wire' = Append(wire, e)
  <2>1. /\ Len(wire') = Len(wire) + 1 /\ Len(wire) \in Nat
        /\ \A i \in 1 .. Len(wire) : wire'[i] = wire[i]
        /\ wire'[Len(wire) + 1] = e
    BY <1>6, <1>12
  <2>2. Ordered(wire')
    <3> SUFFICES ASSUME NEW i \in 1 .. Len(wire'), NEW j \in 1 .. Len(wire'), i < j
                 PROVE  wire'[i].final <= wire'[j].previous
      BY DEF Ordered
    <3>1. CASE j = Len(wire) + 1
      BY <1>4, <1>6, <2>1, <3>1
    <3>2. CASE j # Len(wire) + 1
      <4>1. i \in 1 .. Len(wire) /\ j \in 1 .. Len(wire)
        BY <2>1, <3>2
      <4>2. wire[i].final <= wire[j].previous
        BY <1>6, <4>1 DEF Ordered
      <4> QED BY <2>1, <4>1, <4>2
    <3> QED BY <3>1, <3>2
  <2>3. ASSUME NEW i \in 1 .. Len(wire') PROVE wire'[i].final <= sent'
    <3>1. CASE i = Len(wire) + 1
      BY <1>1, <1>4, <2>1, <3>1
    <3>2. CASE i # Len(wire) + 1
      <4>1. i \in 1 .. Len(wire)
        BY <2>1, <3>2
      <4>2. wire[i].final \in Nat /\ wire[i].final <= sent
        BY <1>6, <1>7, <4>1
      <4> QED BY <1>1, <2>1, <4>1, <4>2
    <3> QED BY <3>1, <3>2
  <2>4. \A i \in 1 .. Len(buffered) : buffered[i].final <= sent'
    BY <1>1, <1>6, <1>7
  <2>5. \A i \in 1 .. Len(buffered), j \in 1 .. Len(wire') : buffered[i].final <= wire'[j].previous
    BY <1>4, <1>6, <2>1
  <2>6. EventsOK'
    BY <1>2, <1>6, <1>10, <2>2, <2>3, <2>4, <2>5 DEF EventsOK, Ordered
  <2>7. \A j \in 1 .. Len(wire') : book.update_id <= wire'[j].previous
    BY <1>4, <2>1 DEF BookInv, BookOK
  <2>8. BookOK'
    BY <1>2, <1>9, <2>7 DEF BookInv, BookOK
  <2> QED BY <1>2, <1>3, <1>8, <2>6, <2>8 DEF BookInv, SamplesOK
<1> QED BY <1>5, <1>11, <1>12

(* Steps that leave the events and the book alone. *)
LEMMA AnswerKeepsInv ==
    ASSUME BookInv, Depth!Answer
    PROVE  BookInv'
<1>1. /\ UNCHANGED <<changes, sent, wire, book, buffered, samples>>
      /\ snapshot'.last \in {0, Len(changes)}
  BY DEF Depth!Answer
<1>2. /\ PackedEvents' = PackedEvents /\ ExactSamples' = ExactSamples
      /\ \A b : ExactBook(b)' = ExactBook(b)
  BY <1>1, SameUpdates
<1>3. ExchangeOK'
  BY <1>1 DEF BookInv, ExchangeOK
<1>4. EventsOK'
  BY <1>1, <1>2 DEF BookInv, EventsOK, Ordered
<1> QED BY <1>1, <1>2, <1>3, <1>4 DEF BookInv, BookOK, Depth!NoBook, Depth!Empty, SamplesOK

(* A new connection starts with nothing. *)
LEMMA ConnectKeepsInv ==
    ASSUME BookInv, Depth!Connect
    PROVE  BookInv'
<1>1. /\ UNCHANGED <<changes, sent, samples>>
      /\ wire' = <<>> /\ buffered' = <<>> /\ book' = Depth!NoBook
      /\ snapshot' = Depth!NoTask
  BY DEF Depth!Connect
<1>2. PackedEvents' = PackedEvents /\ ExactSamples' = ExactSamples
  BY <1>1, SameUpdates
<1>3. ExchangeOK'
  BY <1>1 DEF BookInv, ExchangeOK, Depth!NoTask
<1>4. EventsOK'
  BY <1>1 DEF EventsOK, Ordered
<1>5. BookOK'
  BY <1>1 DEF BookInv, BookOK, ExchangeOK, Depth!NoBook, Depth!Empty
<1> QED BY <1>1, <1>2, <1>3, <1>4, <1>5 DEF BookInv, SamplesOK

(* The end of a connection, and of the day. *)
LEMMA DisconnectKeepsInv ==
    ASSUME BookInv, Depth!Midnight \/ \E failed \in BOOLEAN : Depth!Disconnect(failed)
    PROVE  BookInv'
<1>1. UNCHANGED <<changes, sent, wire, book, buffered, snapshot, samples>>
  BY DEF Depth!Disconnect, Depth!Midnight
<1>2. /\ PackedEvents' = PackedEvents /\ ExactSamples' = ExactSamples
      /\ \A b : ExactBook(b)' = ExactBook(b)
  BY <1>1, SameUpdates
<1>3. ExchangeOK'
  BY <1>1 DEF BookInv, ExchangeOK
<1>4. EventsOK'
  BY <1>1, <1>2 DEF BookInv, EventsOK, Ordered
<1> QED BY <1>1, <1>2, <1>3, <1>4 DEF BookInv, BookOK, Depth!NoBook, Depth!Empty, SamplesOK

(* The first event on the connection, and those behind it. *)
LEMMA NextEvent ==
    ASSUME BookInv, wire # <<>>
    PROVE  /\ Head(wire) \in PackedEvents /\ Tail(wire) \in Seq(PackedEvents)
           /\ Ordered(Tail(wire))
           /\ Head(wire).final <= sent /\ book.update_id <= Head(wire).previous
           /\ \A j \in 1 .. Len(Tail(wire)) : /\ Tail(wire)[j].final <= sent
                                              /\ Head(wire).final <= Tail(wire)[j].previous
                                              /\ book.update_id <= Tail(wire)[j].previous
           /\ \A i \in 1 .. Len(buffered) :
                /\ buffered[i].final <= Head(wire).previous
                /\ \A j \in 1 .. Len(Tail(wire)) : buffered[i].final <= Tail(wire)[j].previous
<1>1. /\ wire \in Seq(PackedEvents) /\ Ordered(wire)
      /\ \A i \in 1 .. Len(wire) : wire[i].final <= sent /\ book.update_id <= wire[i].previous
      /\ \A i \in 1 .. Len(buffered), j \in 1 .. Len(wire) : buffered[i].final <= wire[j].previous
  BY DEF BookInv, EventsOK, BookOK
<1>2. /\ Head(wire) = wire[1] /\ 1 \in 1 .. Len(wire) /\ Tail(wire) \in Seq(PackedEvents)
      /\ Len(Tail(wire)) = Len(wire) - 1 /\ Len(wire) \in Nat /\ wire[1] \in PackedEvents
      /\ \A j \in 1 .. Len(Tail(wire)) :
            Tail(wire)[j] = wire[j + 1] /\ j + 1 \in 1 .. Len(wire) /\ 1 < j + 1
  BY <1>1
<1>3. Ordered(Tail(wire))
  <2> SUFFICES ASSUME NEW i \in 1 .. Len(Tail(wire)), NEW j \in 1 .. Len(Tail(wire)), i < j
               PROVE  Tail(wire)[i].final <= Tail(wire)[j].previous
    BY DEF Ordered
  <2>1. i + 1 \in 1 .. Len(wire) /\ j + 1 \in 1 .. Len(wire) /\ i + 1 < j + 1
    BY <1>2
  <2> QED BY <1>1, <1>2, <2>1 DEF Ordered
<1>4. \A j \in 1 .. Len(Tail(wire)) : wire[1].final <= wire[j + 1].previous
  BY <1>1, <1>2 DEF Ordered
<1> QED BY <1>1, <1>2, <1>3, <1>4

(* append_book_sample, of a book that is exact at the event's update id. *)
LEMMA SampleIsExact ==
    ASSUME SamplesOK, NEW e, NEW b, ExactBook(b), b.update_id = e.final
    PROVE  Depth!Sample(e, b) \in Seq(ExactSamples)
<1> DEFINE x == [id |-> e.final, levels |-> b.levels, base |-> b.base]
<1>1. x \in ExactSamples
  <2>1. SoundBook(b.levels, e.final, b.base)
    BY DEF ExactBook
  <2>2. e.final \in Nat /\ b.base \in Nat /\ b.levels \in [Levels -> Nat]
    BY <2>1 DEF SoundBook
  <2> QED BY <2>1, <2>2 DEF ExactSamples, SampleRows
<1>2. Depth!Sample(e, b) = samples \/ Depth!Sample(e, b) = Append(samples, x)
  BY DEF Depth!Sample
<1> HIDE DEF x
<1> QED BY <1>1, <1>2 DEF SamplesOK

(* A message while there is no book: it is kept, or the book is made. *)
LEMMA BufferKeepsInv ==
    ASSUME BookInv, Depth!Buffer
    PROVE  BookInv'
<1> DEFINE e == Head(wire)
           rest == Tail(wire)
           events == Append(buffered, e)
           b == Depth!Bootstrap(snapshot.last, events)
<1>1. /\ wire # <<>> /\ book.update_id = 0 /\ wire' = rest
      /\ UNCHANGED <<changes, sent>>
      /\ \/ /\ buffered' = events /\ snapshot'.last = 0
            /\ UNCHANGED <<book, samples>>
         \/ /\ b # Depth!NoBook /\ book' = b
            /\ buffered' = <<>> /\ snapshot'.last = 0
            /\ samples' = Depth!Sample(e, b)
  <2>1. [st |-> "asked", last |-> 0].last = 0 /\ Depth!NoTask.last = 0
    BY DEF Depth!NoTask
  <2> QED BY <2>1, Zenon DEF Depth!Buffer
<1>2. /\ PackedEvents' = PackedEvents /\ ExactSamples' = ExactSamples
      /\ \A x : ExactBook(x)' = ExactBook(x)
  BY <1>1, SameUpdates
<1>3. /\ e \in PackedEvents /\ rest \in Seq(PackedEvents) /\ Ordered(rest)
      /\ e.final <= sent /\ book.update_id <= e.previous
      /\ \A j \in 1 .. Len(rest) : /\ rest[j].final <= sent /\ e.final <= rest[j].previous
                                   /\ book.update_id <= rest[j].previous
      /\ \A i \in 1 .. Len(buffered) :
            /\ buffered[i].final <= e.previous
            /\ \A j \in 1 .. Len(rest) : buffered[i].final <= rest[j].previous
  BY <1>1, NextEvent
<1>4. /\ buffered \in Seq(PackedEvents) /\ Ordered(buffered)
      /\ \A i \in 1 .. Len(buffered) : buffered[i].final <= sent
  BY DEF BookInv, EventsOK
<1> HIDE DEF e, rest
<1>5. /\ events \in Seq(PackedEvents) /\ Len(events) = Len(buffered) + 1 /\ Len(buffered) \in Nat
      /\ events # <<>> /\ events[Len(events)] = e
      /\ \A i \in 1 .. Len(buffered) : events[i] = buffered[i]
  BY <1>3, <1>4
<1> HIDE DEF events
<1>6. Ordered(events)
  <2> SUFFICES ASSUME NEW i \in 1 .. Len(events), NEW j \in 1 .. Len(events), i < j
               PROVE  events[i].final <= events[j].previous
    BY DEF Ordered
  <2>1. CASE j = Len(buffered) + 1
    BY <1>3, <1>5, <2>1
  <2>2. CASE j # Len(buffered) + 1
    BY <1>4, <1>5, <2>2 DEF Ordered
  <2> QED BY <2>1, <2>2
<1>7. ExchangeOK'
  BY <1>1 DEF BookInv, ExchangeOK
<1>8. CASE buffered' = events /\ UNCHANGED <<book, samples>>
  <2>1. \A i \in 1 .. Len(events) : /\ events[i].final <= sent
                                    /\ \A j \in 1 .. Len(rest) : events[i].final <= rest[j].previous
    BY <1>3, <1>4, <1>5
  <2>2. EventsOK'
    BY <1>1, <1>2, <1>3, <1>5, <1>6, <1>8, <2>1 DEF EventsOK, Ordered
  <2>3. BookOK'
    BY <1>1, <1>2, <1>3, <1>8 DEF BookInv, BookOK, Depth!NoBook, Depth!Empty
  <2> QED BY <1>2, <1>7, <1>8, <2>2, <2>3 DEF BookInv, SamplesOK
<1>9. CASE /\ b # Depth!NoBook /\ book' = b /\ buffered' = <<>>
           /\ samples' = Depth!Sample(e, b)
  <2>1. ExactBook(b) /\ b.update_id = e.final
    <3>1. snapshot.last \in Nat /\ snapshot.last <= Len(changes)
      BY DEF BookInv, ExchangeOK
    <3> QED BY <1>5, <1>6, <1>9, <3>1, BootstrapIsExact
  <2> HIDE DEF b
  <2>2. EventsOK'
    BY <1>1, <1>2, <1>3, <1>9 DEF EventsOK, Ordered
  <2>3. BookOK'
    <3>1. PICK x : x = b
      OBVIOUS
    <3>2. ExactBook(x)' /\ book' = x /\ x.update_id = e.final
      BY <1>2, <1>9, <2>1, <3>1
    <3>3. ExactBook(book)'
      BY <3>2 DEF ExactBook
    <3> QED BY <1>1, <1>3, <1>9, <3>2, <3>3 DEF BookOK
  <2>4. SamplesOK'
    BY <1>2, <1>9, <2>1, SampleIsExact DEF BookInv, SamplesOK
  <2> QED BY <1>7, <2>2, <2>3, <2>4 DEF BookInv
<1> QED BY <1>1, <1>8, <1>9

(* A message for the book: it is applied, or the book is given up. *)
LEMMA FollowKeepsInv ==
    ASSUME BookInv, Depth!Follow
    PROVE  BookInv'
<1> DEFINE e == Head(wire)
           rest == Tail(wire)
           b == Depth!Apply(book, e)
<1>1. /\ wire # <<>> /\ wire' = rest /\ book' = b
      /\ UNCHANGED <<changes, sent, buffered, snapshot>>
      /\ \/ b = Depth!NoBook /\ UNCHANGED samples
         \/ b # Depth!NoBook /\ samples' = Depth!Sample(e, b)
  BY DEF Depth!Follow
<1>2. /\ PackedEvents' = PackedEvents /\ ExactSamples' = ExactSamples
      /\ \A x : ExactBook(x)' = ExactBook(x)
  BY <1>1, SameUpdates
<1>3. /\ e \in PackedEvents /\ rest \in Seq(PackedEvents) /\ Ordered(rest)
      /\ e.final <= sent /\ book.update_id <= e.previous
      /\ \A j \in 1 .. Len(rest) : /\ rest[j].final <= sent /\ e.final <= rest[j].previous
                                   /\ book.update_id <= rest[j].previous
      /\ \A i \in 1 .. Len(buffered) :
            \A j \in 1 .. Len(rest) : buffered[i].final <= rest[j].previous
  BY <1>1, NextEvent
<1> HIDE DEF e, rest
<1>4. b = Depth!NoBook \/ (ExactBook(b) /\ b.update_id = e.final)
  <2>1. book = Depth!NoBook \/ ExactBook(book)
    BY DEF BookInv, BookOK
  <2>2. book.update_id \in Nat /\ e.previous \in Nat /\ e.final \in Nat /\ e.previous < e.final
    BY <1>3, BookNumber, PackedFields DEF BookInv
  <2>3. book.update_id < e.final
    BY <1>3, <2>2
  <2> QED BY <1>3, <2>1, <2>3, ApplyIsExact
<1> HIDE DEF b
<1>5. ExchangeOK'
  BY <1>1 DEF BookInv, ExchangeOK
<1>6. EventsOK'
  BY <1>1, <1>2, <1>3 DEF BookInv, EventsOK, Ordered
<1>7. CASE b = Depth!NoBook
  <2>1. book'.update_id = 0 /\ (book = Depth!NoBook)' /\ UNCHANGED samples
    BY <1>1, <1>7 DEF Depth!NoBook, Depth!Empty
  <2>2. \A j \in 1 .. Len(rest) : rest[j].previous \in Nat
    BY <1>3, PackedFields
  <2>3. BookOK'
    BY <1>1, <2>1, <2>2 DEF BookInv, ExchangeOK, BookOK
  <2> QED BY <1>2, <1>5, <1>6, <2>1, <2>3 DEF BookInv, SamplesOK
<1>8. CASE b # Depth!NoBook
  <2>1. ExactBook(b) /\ b.update_id = e.final
    BY <1>4, <1>8
  <2>2. BookOK'
    <3>1. PICK x : x = b
      OBVIOUS
    <3>2. ExactBook(x)' /\ book' = x /\ x.update_id = e.final
      BY <1>1, <1>2, <2>1, <3>1
    <3>3. ExactBook(book)'
      BY <3>2 DEF ExactBook
    <3> QED BY <1>1, <1>3, <1>8, <3>2, <3>3 DEF BookInv, BookOK
  <2>3. SamplesOK'
    BY <1>1, <1>2, <1>8, <2>1, SampleIsExact DEF BookInv, SamplesOK
  <2> QED BY <1>5, <1>6, <2>2, <2>3 DEF BookInv
<1> QED BY <1>7, <1>8

----------------------------------------------------------------------------

(* The invariant holds from the start, and at every step. *)
LEMMA InitBookInv == Depth!Init => BookInv
<1> SUFFICES ASSUME Depth!Init PROVE BookInv
  OBVIOUS
<1>1. ExchangeOK /\ EventsOK
  BY DEF Depth!Init, ExchangeOK, EventsOK, Ordered, Depth!NoTask
<1>2. BookOK /\ SamplesOK
  BY DEF Depth!Init, BookOK, SamplesOK, Depth!NoBook, Depth!Empty
<1> QED BY <1>1, <1>2 DEF BookInv

(* The invariant is inductive. *)
LEMMA NextKeepsBookInv ==
    ASSUME BookInv, [Depth!Next]_(Depth!vars)
    PROVE  BookInv'
<1>1. ASSUME UNCHANGED Depth!vars PROVE BookInv'
  <2>1. UNCHANGED <<changes, sent, wire, book, buffered, snapshot, samples>>
    BY <1>1 DEF Depth!vars
  <2>2. /\ PackedEvents' = PackedEvents /\ ExactSamples' = ExactSamples
        /\ \A b : ExactBook(b)' = ExactBook(b)
    BY <2>1, SameUpdates
  <2>3. ExchangeOK' /\ EventsOK'
    BY <2>1, <2>2 DEF BookInv, ExchangeOK, EventsOK, Ordered
  <2> QED BY <2>1, <2>2, <2>3 DEF BookInv, BookOK, Depth!NoBook, Depth!Empty, SamplesOK
<1> QED BY <1>1, UpdateKeepsInv, PackKeepsInv, AnswerKeepsInv, ConnectKeepsInv, BufferKeepsInv,
           FollowKeepsInv, DisconnectKeepsInv DEF Depth!Next

(* Of the segments: what a failure or a clean end of the session leaves,   *)
(* and what a synchronised book replaces.                                  *)
LEMMA SegmentsStart == Depth!Init => SegmentsOK
<1> SUFFICES ASSUME Depth!Init PROVE SegmentsOK
  OBVIOUS
<1>1. session = [n |-> 0, open |-> FALSE, day |-> 0] /\ date = 0 /\ depth_segments = {}
  BY DEF Depth!Init
<1> QED BY <1>1 DEF SegmentsOK, Depth!Synchronised

(* The session ends: only a segment of a later partition stays open. *)
LEMMA HangupKeepsSegments ==
    ASSUME SegmentsOK, NEW failed \in BOOLEAN, Depth!Hangup(failed), date' = date
    PROVE  SegmentsOK'
<1>1. /\ date \in Nat /\ session \in [n : Nat, open : BOOLEAN, day : Nat] /\ session.day <= date
      /\ session' = [session EXCEPT !.open = FALSE]
      /\ depth_segments' = Depth!SessionEnd(IF failed THEN {Depth!Segment(session, FALSE)}
                                            ELSE depth_segments)
  BY DEF SegmentsOK, Depth!Hangup
<1>2. /\ session' \in [n : Nat, open : BOOLEAN, day : Nat]
      /\ session'.day = session.day /\ session'.open = FALSE
  BY <1>1
<1>3. ~Depth!Synchronised'
  BY <1>2 DEF Depth!Synchronised
<1>4. ASSUME NEW g \in depth_segments'
      PROVE  /\ g.opened \in Nat /\ g.day \in Nat /\ g.opened <= g.day
             /\ g.valid => g.opened < g.day
  <2>1. CASE failed
    <3>1. g = [day |-> date, valid |-> FALSE, session |-> session.n, opened |-> session.day]
      BY <1>1, <1>4, <2>1 DEF Depth!SessionEnd, Depth!Segment
    <3>2. g.day = date /\ g.valid = FALSE /\ g.opened = session.day
      BY <3>1
    <3> QED BY <1>1, <3>2
  <2>2. CASE ~failed
    <3>1. g \in depth_segments /\ g.day # session.day
      BY <1>1, <1>4, <2>2 DEF Depth!SessionEnd
    <3>2. g.opened \in Nat /\ g.day \in Nat /\ g.opened <= g.day
      BY <3>1 DEF SegmentsOK
    <3>3. g.opened = session.day \/ (g.valid => g.opened < g.day)
      BY <3>1 DEF SegmentsOK
    <3> QED BY <3>1, <3>2, <3>3
  <2> QED BY <2>1, <2>2
<1> QED BY <1>1, <1>2, <1>3, <1>4 DEF SegmentsOK

(* A book that was made is one: the session is synchronised. *)
LEMMA NextKeepsSegments ==
    ASSUME BookInv, SegmentsOK, [Depth!Next]_(Depth!vars), BookInv'
    PROVE  SegmentsOK'
<1>1. /\ date \in Nat /\ session \in [n : Nat, open : BOOLEAN, day : Nat] /\ session.day <= date
      /\ \A g \in depth_segments : g.opened \in Nat /\ g.day \in Nat /\ g.opened <= g.day
  BY DEF SegmentsOK
<1>2. book' = Depth!NoBook \/ book'.update_id # 0
  BY DEF BookInv, BookOK, ExactBook, SoundBook, Depth!NoBook, Depth!Empty
<1>3. Depth!NoBook.update_id = 0
  BY DEF Depth!NoBook
<1>4. CASE UNCHANGED <<session, book, depth_segments>> /\ date' \in {date, date + 1}
  <2>1. Depth!Synchronised' = Depth!Synchronised /\ date' \in Nat /\ session.day <= date'
    BY <1>1, <1>4 DEF Depth!Synchronised
  <2> QED BY <1>4, <2>1 DEF SegmentsOK
<1>5. CASE Depth!Connect
  <2> DEFINE s == [n |-> session.n + 1, open |-> TRUE, day |-> date]
             new == [day |-> date, valid |-> FALSE, session |-> session.n + 1, opened |-> date]
  <2>1. /\ ~session.open /\ date' = date /\ session' = s /\ book' = Depth!NoBook
        /\ depth_segments' = depth_segments \cup {new}
    BY <1>5 DEF Depth!Connect, Depth!Segment
  <2>2. /\ ~Depth!Synchronised /\ ~Depth!Synchronised'
    BY <1>3, <2>1 DEF Depth!Synchronised
  <2>3. session' \in [n : Nat, open : BOOLEAN, day : Nat] /\ session'.day = date
    BY <1>1, <2>1
  <2>4. new.opened = date /\ new.day = date /\ new.valid = FALSE
    OBVIOUS
  <2> HIDE DEF s, new
  <2> QED BY <1>1, <2>1, <2>2, <2>3, <2>4 DEF SegmentsOK
<1>6. CASE Depth!Buffer
  <2> DEFINE new == [day |-> date, valid |-> TRUE, session |-> session.n, opened |-> session.day]
  <2>1. /\ session.open /\ date' = date /\ session' = session /\ book.update_id = 0
        /\ \/ UNCHANGED <<book, depth_segments>>
           \/ book' # Depth!NoBook /\ depth_segments' = {new}
    BY <1>6 DEF Depth!Buffer, Depth!Segment
  <2>2. CASE UNCHANGED <<book, depth_segments>>
    BY <1>4, <2>1, <2>2
  <2>3. CASE book' # Depth!NoBook /\ depth_segments' = {new}
    <3>1. new.opened = session.day /\ new.day = date /\ new.valid = TRUE /\ new.session = session.n
      OBVIOUS
    <3> HIDE DEF new
    <3>2. Depth!Synchronised'
      BY <1>2, <2>1, <2>3 DEF Depth!Synchronised
    <3> QED BY <1>1, <2>1, <2>3, <3>1, <3>2 DEF SegmentsOK
  <2> QED BY <2>1, <2>2, <2>3
<1>7. CASE Depth!Follow
  <2>1. /\ session.open /\ book.update_id # 0 /\ date' = date
        /\ \/ Depth!Hangup(TRUE)
           \/ book' # Depth!NoBook /\ UNCHANGED <<session, depth_segments>>
    BY <1>7 DEF Depth!Follow
  <2>2. CASE Depth!Hangup(TRUE)
    BY <2>1, <2>2, HangupKeepsSegments
  <2>3. CASE book' # Depth!NoBook /\ UNCHANGED <<session, depth_segments>>
    <3>1. Depth!Synchronised /\ Depth!Synchronised'
      BY <1>2, <2>1, <2>3 DEF Depth!Synchronised
    <3> QED BY <2>1, <2>3, <3>1 DEF SegmentsOK
  <2> QED BY <2>1, <2>2, <2>3
<1>8. ASSUME NEW failed \in BOOLEAN, Depth!Disconnect(failed) PROVE SegmentsOK'
  BY <1>8, HangupKeepsSegments DEF Depth!Disconnect
<1>9. CASE \/ UNCHANGED Depth!vars \/ Depth!Answer \/ Depth!Midnight
           \/ \E l \in Levels, gone \in BOOLEAN : Depth!Update(l, gone)
           \/ \E lost \in BOOLEAN : Depth!Pack(lost)
  <2>1. UNCHANGED <<session, book, depth_segments>> /\ date' \in {date, date + 1}
    BY <1>9 DEF Depth!vars, Depth!Answer, Depth!Midnight, Depth!Update, Depth!Pack
  <2> QED BY <1>4, <2>1
<1> QED BY <1>5, <1>6, <1>7, <1>8, <1>9 DEF Depth!Next

(* The invariant says that the books are exact. *)
LEMMA BookInvIsExact == BookInv /\ SegmentsOK => Depth!RecordedBooksAreExact
<1> SUFFICES ASSUME BookInv, SegmentsOK PROVE Depth!RecordedBooksAreExact
  OBVIOUS
<1>1. book.update_id # 0 => Depth!Exact(book.levels, book.update_id, book.base)
  BY DEF BookInv, BookOK, ExactBook, SoundBook, Depth!NoBook
<1>2. ASSUME NEW k \in 1 .. Len(samples)
      PROVE  Depth!Exact(samples[k].levels, samples[k].id, samples[k].base)
  <2>1. samples[k] \in ExactSamples
    BY DEF BookInv, SamplesOK
  <2> QED BY <2>1 DEF ExactSamples, SoundBook
<1> QED BY <1>1, <1>2 DEF SegmentsOK, Depth!RecordedBooksAreExact

(* The local book is the exchange's at its update id, whatever was lost:   *)
(* a level it lists has the exchange's quantity, and one it does not list  *)
(* has not changed since a snapshot that did not reach down to it.  A      *)
(* sample was computed from such a book at the sample's own update id.     *)
(* While there is a book, its session's segment is OPEN, valid and the     *)
(* only one; a valid segment stays OPEN without a book only if the book    *)
(* was synchronised on a later day than its session began.                 *)
(* (LocalOrderBook, the depth_loop of run_daemon, session_end)             *)
THEOREM DepthBooksAreExact == Depth!Spec => []Depth!RecordedBooksAreExact
<1>1. Depth!Init => BookInv /\ SegmentsOK
  BY InitBookInv, SegmentsStart
<1>2. BookInv /\ SegmentsOK /\ [Depth!Next]_(Depth!vars) => (BookInv /\ SegmentsOK)'
  BY NextKeepsBookInv, NextKeepsSegments
<1>3. BookInv /\ SegmentsOK => Depth!RecordedBooksAreExact
  BY BookInvIsExact
<1> QED BY <1>1, <1>2, <1>3, PTL DEF Depth!Spec

=============================================================================
