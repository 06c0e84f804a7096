--------------------------- MODULE LifecycleHeads ---------------------------
(***************************************************************************)
(* The lifecycle of one H40 run (h40/lifecycle_authority.py): processes    *)
(* authorize transitions in memory (H40LifecycleAuthorityService), persist *)
(* them as write-once receipt files and advance the run's durable head     *)
(* (H40LifecycleArtifactStore), while processes and the host may die       *)
(* between any two writes.                                                 *)
(*                                                                         *)
(* A receipt is named by the hash of its content, which holds the hash of  *)
(* the receipt before it: it is modelled as the sequence of transitions    *)
(* from the discovery authorization to it, each with the state it leads to *)
(* and its content (timestamps and evidence).  The authorities, seals and  *)
(* evidence a transition is verified against are abstracted: verification  *)
(* either lets it through or raises, and raising leaves nothing behind.    *)
(***************************************************************************)
EXTENDS Integers, SequencesExt

CONSTANTS
    Procs,      \* processes working on the run
    Offers,     \* per depth: the transitions that can be authorized there, with
                \* the number that tells two contents of one transition apart
    Keyed,      \* depths whose receipts are persisted under a key too
    Past,       \* the receipt the run has reached at the start, <<>> for none
    MaxReceipts \* bound: receipts linked since then

VARIABLES
    auth,     \* per process: the last authorization it holds, whose context
              \* holds the ones before it
    job,      \* per process: where its persist_authorization stands
    linked,   \* receipts visible in receipts/
    durable,  \* receipts whose entry in receipts/ has been synced
    rooted,   \* the run's directories whose own entry is on the disk
    legacy,   \* the NN_name.json files: what the key of each depth holds
    head,     \* the row of h40_lifecycle_run_heads
    acked,    \* history: receipts some call returned as persisted or restored
    lost      \* history: a host death took receipts/ of a run with a head

vars == <<auth, job, linked, durable, rooted, legacy, head, acked, lost>>

(* bound: the transitions of the run *)
MaxDepth == Len(Offers)

(* The run's directory in runs/, and receipts/ in it. *)
Directories == {"run", "receipts"}

None == <<>>
Torn == <<[to |-> "torn", content |-> 0]>>
Idle == [at |-> "idle", receipt |-> None, keyed |-> FALSE]

(* _ACCEPTED_TRANSITIONS, from the states a receipt can lead to.  Nothing  *)
(* terminates a run that has no discovery authorization: a termination     *)
(* needs a prior one.                                                      *)
Accepted ==
    {<<"SCAFFOLDED", "DISCOVERY">>, <<"DISCOVERY", "CANDIDATE_LOCKED">>,
     <<"CANDIDATE_LOCKED", "WF_VALIDATED">>, <<"WF_VALIDATED", "CONFIRMATION_READY">>,
     <<"DISCOVERY", "NO_GO">>, <<"CANDIDATE_LOCKED", "NO_GO">>,
     <<"WF_VALIDATED", "NO_GO">>, <<"CONFIRMATION_READY", "NO_GO">>,
     <<"DISCOVERY", "NOT_TESTABLE">>}

TerminalStates == {"NO_GO", "NOT_TESTABLE"}

Target(r) == IF r = None THEN "SCAFFOLDED" ELSE Last(r).to
Source(r) == Target(Front(r))
Upstream(r) == Front(r)
Terminal(r) == Target(r) \in TerminalStates
Chain(r) == Prefixes(r) \ {None}

Init ==
    /\ auth = [p \in Procs |-> None]
    /\ job = [p \in Procs |-> Idle]
    /\ linked = Chain(Past) /\ durable = Chain(Past)
    /\ rooted = IF Past = None THEN {} ELSE Directories
    /\ legacy = [d \in 1..MaxDepth |-> None]
    /\ head = [receipt |-> Past, seq |-> Len(Past) - 1]
    /\ acked = {} /\ lost = FALSE

------------------------------------------------------------------------------
(* The service: a new authorization from the one held.  A prior only has   *)
(* to come from this service; it need not be persisted.                    *)

RequirePrior(p, state) == Target(auth[p]) = state

Wrap(p, to) ==
    /\ job[p].at = "idle"
    /\ Len(auth[p]) < MaxDepth
    /\ \E step \in Offers[Len(auth[p]) + 1] :
          /\ step.to = to
          /\ auth' = [auth EXCEPT ![p] = Append(@, step)]
    /\ UNCHANGED <<job, linked, durable, rooted, legacy, head, acked, lost>>

AuthorizeDiscovery(p) ==
    /\ job[p].at = "idle"
    /\ \E step \in Offers[1] : auth' = [auth EXCEPT ![p] = <<step>>]
    /\ UNCHANGED <<job, linked, durable, rooted, legacy, head, acked, lost>>

AuthorizeCandidateLock(p) ==
    /\ RequirePrior(p, "DISCOVERY")
    /\ Wrap(p, "CANDIDATE_LOCKED")

(* A failed fold terminates the run: there is no runner-up. *)
AuthorizeWfValidation(p, passed) ==
    /\ RequirePrior(p, "CANDIDATE_LOCKED")
    /\ Wrap(p, IF passed THEN "WF_VALIDATED" ELSE "NO_GO")

AuthorizeConfirmationReady(p) ==
    /\ RequirePrior(p, "WF_VALIDATED")
    /\ Wrap(p, "CONFIRMATION_READY")

(* The service itself does not look at the prior's state: the head does.   *)
AuthorizeTermination(p, to) ==
    /\ auth[p] # None
    /\ Wrap(p, to)

------------------------------------------------------------------------------
(* H40LifecycleArtifactStore.persist_authorization, write by write. *)

Goto(p, at) == job' = [job EXCEPT ![p].at = at]
Return(p) == job' = [job EXCEPT ![p] = Idle]

(* revalidate_authorization: what the service itself issued, recomputed.   *)
Revalidated(p, r) == r \in Chain(auth[p])

PersistReceiptOnce(p, r, keyed) ==
    /\ job[p].at = "idle"
    /\ Revalidated(p, r)
    /\ r \in linked \/ Cardinality(linked) < Len(Past) + MaxReceipts
    /\ linked' = linked \cup {r}
    /\ job' = [job EXCEPT ![p] =
            [at |-> IF r \in linked THEN "commit" ELSE "sync", receipt |-> r, keyed |-> keyed]]
    /\ UNCHANGED <<auth, durable, rooted, legacy, head, acked, lost>>

(* The run's directories are made if they are not there, and the receipt   *)
(* is linked under its hash, unless it is there already.  A process may    *)
(* persist what it holds in any order and again.                           *)
PersistReceipt(p, r, keyed) ==
    /\ job[p].at = "idle"
    /\ Revalidated(p, r)
    /\ r \in linked \/ Cardinality(linked) < Len(Past) + MaxReceipts
    /\ linked' = linked \cup {r}
    /\ job' = [job EXCEPT ![p] = [at |-> "sync", receipt |-> r, keyed |-> keyed]]
    /\ UNCHANGED <<auth, durable, rooted, legacy, head, acked, lost>>

(* The entries of receipts/ are synced; receipts/ itself and the run's     *)
(* directory are entries of other directories.                             *)
SyncReceipts(p) ==
    /\ job[p].at = "sync"
    /\ \/ /\ durable' = linked
          /\ Goto(p, IF job[p].keyed THEN "key" ELSE "commit")
       \/ /\ UNCHANGED durable      \* fail_closed: the fsync failed
          /\ Return(p)
    /\ UNCHANGED <<auth, linked, rooted, legacy, head, acked, lost>>

(* The key file is looked at, and replaced in a step of its own. *)
CheckKey(p) ==
    LET there == legacy[Len(job[p].receipt)] IN
    /\ job[p].at = "key"
    /\ \/ there = None /\ Goto(p, "write_key")
       \/ there = job[p].receipt /\ Goto(p, "commit")
       \/ there \notin {None, job[p].receipt} /\ Return(p)
    /\ UNCHANGED <<auth, linked, durable, rooted, legacy, head, acked, lost>>

(* _fsync_dir(run_dir), the directory receipts/ is an entry of; a failure  *)
(* is swallowed.  Nothing syncs runs/.                                     *)
SyncRunDir == rooted' \in {rooted, rooted \cup {"receipts"}}

WriteKey(p) ==
    /\ job[p].at = "write_key"
    /\ legacy' = [legacy EXCEPT ![Len(job[p].receipt)] = job[p].receipt]
    /\ SyncRunDir
    /\ Goto(p, "commit")
    /\ UNCHANGED <<auth, linked, durable, head, acked, lost>>

AdvancesByState(r) ==
    /\ r \in linked
    /\ <<Source(r), Target(r)>> \in Accepted
    /\ ~Terminal(head.receipt)
    /\ Source(r) = Target(head.receipt)

(* What _commit_run_head requires of the receipt and of the row it finds   *)
(* inside its transaction.                                                 *)
Advances(r) ==
    /\ r \in linked
    /\ <<Source(r), Target(r)>> \in Accepted
    /\ ~Terminal(head.receipt)
    /\ Upstream(r) = head.receipt
    /\ Source(r) = Target(head.receipt)

(* The head is compared and advanced in one transaction; the receipt that  *)
(* is the head already is a retry and returns.                             *)
CommitRunHead(p) ==
    LET r == job[p].receipt IN
    /\ job[p].at = "commit"
    /\ \/ /\ head.receipt # r /\ Advances(r)
          /\ head' = [receipt |-> r, seq |-> head.seq + 1]
          /\ Goto(p, "mirror")
          /\ UNCHANGED acked
       \/ /\ head.receipt = r
          /\ acked' = acked \cup {r}
          /\ Return(p)
          /\ UNCHANGED head
       \/ /\ head.receipt # r /\ ~Advances(r)
          /\ Return(p)
          /\ UNCHANGED <<head, acked>>
    /\ UNCHANGED <<auth, linked, durable, rooted, legacy, lost>>

(* head.json is written after the transaction and never read back; when    *)
(* that write fails the call raises although the head has advanced.        *)
MirrorHead(p) ==
    /\ job[p].at = "mirror"
    /\ \/ acked' = acked \cup {job[p].receipt} /\ SyncRunDir
       \/ UNCHANGED <<acked, rooted>>
    /\ Return(p)
    /\ UNCHANGED <<auth, linked, durable, legacy, head, lost>>

------------------------------------------------------------------------------
(* The receipts from the head back to the discovery authorization, when    *)
(* each of them is there and their number is the head's sequence.          *)
Lineage ==
    IF Chain(head.receipt) \subseteq linked /\ head.seq = Len(head.receipt) - 1
      THEN Chain(head.receipt)
      ELSE {}

(* Each predecessor is found on disk and authorized anew. *)
Found(r) == r \in linked
Reissued(r) == \A prior \in Chain(r) : Found(prior)

(* A process without any prior reissues an authorization of the lineage.   *)
(* By key or by hash it finds the same receipts: a key file whose receipt  *)
(* is not in the lineage raises.                                           *)
RestoreAuthorization(p, r) ==
    /\ job[p].at = "idle"
    /\ head.receipt # None
    /\ r \in Lineage /\ Reissued(r)
    /\ auth' = [auth EXCEPT ![p] = r]
    /\ acked' = acked \cup {r}
    /\ UNCHANGED <<job, linked, durable, rooted, legacy, head, lost>>

ProcessDies(p) ==
    /\ auth' = [auth EXCEPT ![p] = None]
    /\ job' = [job EXCEPT ![p] = Idle]
    /\ UNCHANGED <<linked, durable, rooted, legacy, head, acked, lost>>

(* Which directories of the run are found again: those on the disk as far  *)
(* as the path to them is, and of the others that exist any.               *)
Survives(left) ==
    /\ left \in {{}, {"run"}, Directories}
    /\ "run" \in rooted => "run" \in left
    /\ "receipts" \in rooted /\ "run" \in left => "receipts" \in left
    /\ linked = {} => left \subseteq rooted

(* The host loses directory entries that were not synced, and with a       *)
(* directory what it holds.  A key file is replaced without syncing its    *)
(* data and may come back empty or not at all; the head's database commits *)
(* with synchronous=FULL.                                                  *)
HostDies ==
    /\ auth' = [p \in Procs |-> None]
    /\ job' = [p \in Procs |-> Idle]
    /\ \E left \in SUBSET Directories :
          /\ Survives(left)
          /\ rooted' = left
          /\ IF "receipts" \in left
             THEN \E kept \in SUBSET (linked \ durable) : linked' = durable \cup kept
             ELSE linked' = {}
          /\ durable' = linked'
          /\ lost' = (lost \/ (head.receipt # None /\ "receipts" \notin left))
          /\ IF "run" \in left
             THEN \/ UNCHANGED legacy
                  \/ \E d \in 1..MaxDepth, was \in {None, Torn} :
                        legacy[d] # None /\ legacy' = [legacy EXCEPT ![d] = was]
             ELSE legacy' = [d \in 1..MaxDepth |-> None]
    /\ UNCHANGED <<head, acked>>

Next ==
    \/ \E p \in Procs :
          \/ AuthorizeDiscovery(p)
          \/ AuthorizeCandidateLock(p)
          \/ \E passed \in BOOLEAN : AuthorizeWfValidation(p, passed)
          \/ AuthorizeConfirmationReady(p)
          \/ \E to \in TerminalStates : AuthorizeTermination(p, to)
    \/ \E p \in Procs :
          \/ \E r \in Chain(auth[p]), keyed \in BOOLEAN :
                /\ keyed => Len(r) \in Keyed
                /\ PersistReceipt(p, r, keyed)
          \/ SyncReceipts(p)
          \/ CheckKey(p)
          \/ WriteKey(p)
          \/ CommitRunHead(p)
          \/ MirrorHead(p)
          \/ \E r \in Chain(head.receipt) : RestoreAuthorization(p, r)
          \/ ProcessDies(p)
    \/ HostDies

Spec == Init /\ [][Next]_vars

------------------------------------------------------------------------------
(* Whatever a call returned as persisted or restored stays a part of the   *)
(* run's one history, and a termination stays its end: two processes never *)
(* hold two locked candidates as the run's, and no candidate follows a     *)
(* failed one.  (_commit_run_head)                                         *)
AcknowledgedStays ==
    \A r \in acked :
        /\ r \in Chain(head.receipt)
        /\ Terminal(r) => head.receipt = r

(* Every receipt from the head back to the discovery authorization is      *)
(* synced before the head names it, so that a committed run can be restored *)
(* after the loss of the host -- unless receipts/ itself went with the     *)
(* host, which nothing the call waits for prevents until the entries of    *)
(* the run's directories are on the disk; a run that has them there is     *)
(* never lost.  (persist_authorization, "MUST establish authoritative      *)
(* receipt-directory durability before head commit")                       *)
LineageSurvives ==
    /\ lost \/ Chain(head.receipt) \subseteq durable
    /\ lost => Past = None
    /\ head.seq = Len(head.receipt) - 1

=============================================================================
