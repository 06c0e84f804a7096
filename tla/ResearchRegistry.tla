-------------------------- MODULE ResearchRegistry --------------------------
(***************************************************************************)
(* The registry of research decisions (research_contract/registry.py): one *)
(* file, published whole by os.replace (publication.py), that several      *)
(* processes load, extend in memory and commit under a file lock with a    *)
(* compare-and-swap of its generation.  Processes and the host may die     *)
(* between any two steps of a commit.                                      *)
(*                                                                         *)
(* A decision event keeps its revision, its new status and the evidence it *)
(* binds; the protocols are the revisions with a registration event.       *)
(* Whether an artifact passes its validation is left open: a call whose    *)
(* validation raises leaves nothing behind.                                *)
(***************************************************************************)
EXTENDS Naturals, Sequences, FiniteSetsExt

CONSTANTS
    Procs,          \* processes with a registry object
    Revisions,      \* experiment revisions
    Evidence,       \* evidence references
    MaxGeneration   \* bound: commits

VARIABLES
    file,     \* the registry file as processes read it
    durable,  \* the registry file as a restarted host finds it
    mem,      \* per process: the state its registry object holds
    call,     \* per process: the commit in progress
    acked     \* history: the states whose commit returned without an error

vars == <<file, durable, mem, call, acked>>

(* LEGAL_TRANSITIONS, of the statuses a registered revision can leave. *)
Legal ==
    {<<"REGISTERED", "STATISTICALLY_QUALIFIED">>, <<"REGISTERED", "REJECTED">>,
     <<"REGISTERED", "FROZEN_ARCHIVE">>,
     <<"STATISTICALLY_QUALIFIED", "ECONOMICALLY_QUALIFIED">>,
     <<"STATISTICALLY_QUALIFIED", "REJECTED">>,
     <<"STATISTICALLY_QUALIFIED", "FROZEN_ARCHIVE">>,
     <<"ECONOMICALLY_QUALIFIED", "FROZEN_ARCHIVE">>, <<"REJECTED", "FROZEN_ARCHIVE">>}

Statuses == {pair[i] : pair \in Legal, i \in {1, 2}}

Event(rev, to, evidence) == [rev |-> rev, to |-> to, evidence |-> evidence]

(* A registry without a file: generation 0 and nothing in it. *)
Fresh == [generation |-> 0, events |-> <<>>, evidence |-> {}]

Idle == [at |-> "idle", next |-> Fresh]

Init ==
    /\ file = Fresh /\ durable = Fresh
    /\ mem = [p \in Procs |-> Fresh]
    /\ call = [p \in Procs |-> Idle]
    /\ acked = {}

------------------------------------------------------------------------------
(* The operations: each builds the next state from the one in memory and   *)
(* hands it to _commit.                                                    *)

(* What _validate_state reconstructs: the last status of a revision. *)
Status(state, rev) ==
    LET its == {i \in DOMAIN state.events : state.events[i].rev = rev}
    IN  IF its = {} THEN "PROPOSED" ELSE state.events[Max(its)].to

Commit(p, newEvents, newEvidence) ==
    /\ call[p].at = "idle"
    /\ mem[p].generation < MaxGeneration
    /\ call' = [call EXCEPT ![p] = [at |-> "lock", next |->
         [generation |-> mem[p].generation + 1,
          events |-> mem[p].events \o newEvents,
          evidence |-> mem[p].evidence \cup newEvidence]]]
    /\ UNCHANGED <<file, durable, mem, acked>>

(* A revision the memory already holds is returned at once: no step. *)
RegisterExperiment(p, rev) ==
    /\ Status(mem[p], rev) = "PROPOSED"
    /\ Commit(p, <<Event(rev, "REGISTERED", {})>>, {})

RegisterEvidence(p, item) == item \notin mem[p].evidence /\ Commit(p, <<>>, {item})

(* Evidence is given by id, and then known, or as a reference, and added. *)
UpdateDecisionStatus(p, rev, to, evidence) ==
    /\ <<Status(mem[p], rev), to>> \in Legal
    /\ to # "ECONOMICALLY_QUALIFIED"
    /\ evidence # {}
    /\ Commit(p, <<Event(rev, to, evidence)>>, evidence)

(* NOT_TESTABLE keeps the evidence and decides nothing. *)
RecordEconomicQualification(p, rev, verdict, evidence) ==
    /\ Status(mem[p], rev) = "STATISTICALLY_QUALIFIED"
    /\ evidence # {}
    /\ Commit(p, IF verdict = "NOT_TESTABLE" THEN <<>>
                 ELSE <<Event(rev, IF verdict = "QUALIFIED" THEN "ECONOMICALLY_QUALIFIED"
                                   ELSE "REJECTED", evidence)>>,
              evidence)

Save(p) == Commit(p, <<>>, {})

(* load() takes no lock: os.replace shows it the old file or the new one.  *)
(* It raises where there is no file.                                       *)
Load(p) ==
    /\ call[p].at = "idle" /\ file.generation > 0
    /\ mem' = [mem EXCEPT ![p] = file]
    /\ UNCHANGED <<file, durable, call, acked>>

------------------------------------------------------------------------------
(* _commit, from the lock on. *)

Locked == \E p \in Procs : call[p].at \in {"replace", "sync"}

(* A call that raises ends here: memory stays as it was. *)
Raise(p) == call' = [call EXCEPT ![p] = Idle] /\ UNCHANGED <<file, durable, mem, acked>>

(* Mutant: the file is replaced whatever was committed since it was read. *)
SameGenerationOff(p) == TRUE

(* The generation of the file under the lock is the one in memory. *)
SameGeneration(p) == file.generation = mem[p].generation

TakeLock(p) ==
    /\ call[p].at = "lock" /\ ~Locked
    /\ SameGeneration(p)
    /\ call' = [call EXCEPT ![p].at = "replace"]
    /\ UNCHANGED <<file, durable, mem, acked>>

StaleRegistry(p) == call[p].at = "lock" /\ ~Locked /\ ~SameGeneration(p) /\ Raise(p)

(* The temporary file is written and synced before it replaces the target; *)
(* an error before the replacement is passed on.                           *)
WriteFails(p) == call[p].at = "replace" /\ Raise(p)

AtomicReplace(p) ==
    /\ call[p].at = "replace"
    /\ file' = call[p].next
    /\ call' = [call EXCEPT ![p].at = "sync"]
    /\ UNCHANGED <<durable, mem, acked>>

(* The directory is synced: the commit returns. *)
Synced(p) ==
    /\ call[p].at = "sync"
    /\ durable' = file
    /\ mem' = [mem EXCEPT ![p] = call[p].next]
    /\ acked' = acked \cup {call[p].next}
    /\ call' = [call EXCEPT ![p] = Idle]
    /\ UNCHANGED file

(* PublicationUncertain: the file is there, perhaps not for good; memory   *)
(* follows it and the error is passed on.                                  *)
SyncFails(p) ==
    /\ call[p].at = "sync"
    /\ mem' = [mem EXCEPT ![p] = file]
    /\ call' = [call EXCEPT ![p] = Idle]
    /\ UNCHANGED <<file, durable, acked>>

(* A process dies, which frees its lock, and a new one loads the file. *)
ProcessDies(p) ==
    /\ mem' = [mem EXCEPT ![p] = file]
    /\ call' = [call EXCEPT ![p] = Idle]
    /\ UNCHANGED <<file, durable, acked>>

(* The host dies: a replacement that no sync covered may be undone. *)
HostDies ==
    \E kept \in {file, durable} :
        /\ file' = kept /\ durable' = kept
        /\ mem' = [p \in Procs |-> kept]
        /\ call' = [p \in Procs |-> Idle]
        /\ UNCHANGED acked

Operation(p) ==
    \/ \E rev \in Revisions : RegisterExperiment(p, rev)
    \/ \E item \in Evidence : RegisterEvidence(p, item)
    \/ \E rev \in Revisions, to \in Statuses, evidence \in SUBSET Evidence :
           UpdateDecisionStatus(p, rev, to, evidence)
    \/ \E rev \in Revisions, verdict \in {"QUALIFIED", "REJECTED", "NOT_TESTABLE"},
          evidence \in SUBSET Evidence :
           RecordEconomicQualification(p, rev, verdict, evidence)
    \/ Save(p)
    \/ Load(p)

Next ==
    \/ \E p \in Procs :
        \/ Operation(p) \/ TakeLock(p) \/ StaleRegistry(p) \/ WriteFails(p)
        \/ AtomicReplace(p) \/ Synced(p) \/ SyncFails(p) \/ ProcessDies(p)
    \/ HostDies

Spec == Init /\ [][Next]_vars

------------------------------------------------------------------------------

Extends(new, old) ==
    /\ Len(old.events) <= Len(new.events)
    /\ \A i \in DOMAIN old.events : new.events[i] = old.events[i]
    /\ old.evidence \subseteq new.evidence

(* The registry is append-only for those it answered: the decisions and    *)
(* the evidence of every commit that returned are in the file, at their    *)
(* place in the chain, and in the file a restarted host finds, whatever    *)
(* other processes commit meanwhile. (_commit, publish_bytes)              *)
DecisionsStay ==
    /\ Extends(file, durable)
    /\ \A state \in acked : Extends(durable, state)

=============================================================================
