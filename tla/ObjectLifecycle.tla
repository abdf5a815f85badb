--------------------------- MODULE ObjectLifecycle ---------------------------
(***************************************************************************)
(* The immutable objects of one knowledge base in object storage, the rows  *)
(* that point at them, and the deletion outbox that removes them            *)
(* (apps/api/src/tutor_api/knowledge/service.py, object_deletion.py).       *)
(*                                                                         *)
(* Storage and database share no transaction.  An upload puts its source     *)
(* while it holds the knowledge base row and commits afterwards; the parse   *)
(* handler puts the page previews and commits afterwards; a deletion         *)
(* commits the outbox rows first, and workers delete the objects afterwards. *)
(* At each boundary a rollback, a crash or a lost lease may fall in between. *)
(*                                                                         *)
(* Attempt counting belongs to IngestionQueue: here a failing parse may be   *)
(* tried again or be final.  Object keys hold the version's fresh uuid, so   *)
(* no two uploads share a key.  The vault directory of the knowledge base is *)
(* one more outbox key; its contents, which editors write, are not tracked.  *)
(***************************************************************************)
EXTENDS Naturals

CONSTANTS
    Uploads,      \* upload attempts, each with a document version of its own
    Cleaners,     \* worker processes running run_object_deletion_once
    NoCleaner,    \* lease_owner IS NULL
    VaultScope    \* the outbox key of the vault directory

Source(u)  == <<"source", u>>
Preview(u) == <<"preview", u>>
Objects == {Source(u) : u \in Uploads} \cup {Preview(u) : u \in Uploads}
Keys == Objects \cup {VaultScope}

ASSUME KeysAssumption ==
    /\ NoCleaner \notin Cleaners
    /\ VaultScope \notin Objects

VARIABLES
    store,      \* objects in storage
    version,    \* version[u]: the document version, its parse job and the
                \* transaction working on them
    deletion,   \* where delete_knowledge_base is; "done" once it committed
    collected,  \* object keys the deletion has read
    outbox,     \* outbox[k]: ObjectDeletionOutbox.state, "none" without a row
    owner,      \* owner[k]: lease_owner of the outbox row
    lapsed,     \* RUNNING rows whose lease_expires_at has passed
    due,        \* RETRY_WAIT rows whose available_at has come
    cleaner,    \* cleaner[c]: where c is in run_object_deletion_once
    item        \* item[c]: the object_key c claimed last

rowVars == <<version, deletion, collected>>
outboxVars == <<outbox, owner, lapsed, due>>
cleanerVars == <<cleaner, item>>
vars == <<store, rowVars, outboxVars, cleanerVars>>

(* An upload: its transaction open before and after the put.  A parse: RUNNING*)
(* without, then with an open transaction, before and after the put.          *)
Uploading == {"inserting", "put"}
Parsing == {"parsing", "previewed"}
Committed == {"uploaded", "running", "parsing", "previewed", "parsed", "failed"}

TypeOK ==
    /\ store \subseteq Objects
    /\ version \in [Uploads -> {"none", "aborted"} \cup Uploading \cup Committed]
    /\ deletion \in {"idle", "locked", "collecting", "collected", "done"}
    /\ collected \subseteq Keys
    /\ outbox \in [Keys -> {"none", "pending", "running", "retry_wait", "completed"}]
    /\ owner \in [Keys -> Cleaners \cup {NoCleaner}]
    /\ \A k \in Keys : outbox[k] = "running" <=> owner[k] # NoCleaner
    /\ lapsed \subseteq {k \in Keys : outbox[k] = "running"}
    /\ due \subseteq {k \in Keys : outbox[k] = "retry_wait"}
    /\ cleaner \in [Cleaners -> {"idle", "claimed", "gone", "error", "crashed"}]
    /\ item \in [Cleaners -> Keys]

Init ==
    /\ store = {}
    /\ version = [u \in Uploads |-> "none"]
    /\ deletion = "idle"
    /\ collected = {}
    /\ outbox = [k \in Keys |-> "none"]
    /\ owner = [k \in Keys |-> NoCleaner]
    /\ lapsed = {}
    /\ due = {}
    /\ cleaner = [c \in Cleaners |-> "idle"]
    /\ item = [c \in Cleaners |-> VaultScope]

-------------------------------------------------------------------------------
(* Variant: the knowledge base row is looked at and not locked. *)
KbRowUnlocked == deletion # "done"

(* The knowledge base row exists and no other transaction holds it FOR UPDATE.*)
KbRowFree ==
    /\ deletion = "idle"
    /\ \A u \in Uploads : version[u] \notin Uploading

(* The rows the deletion cascades over, as it reads them under its locks:     *)
(* every document version's source, and the previews its pages point at.      *)
SourceKeys == {Source(u) : u \in {v \in Uploads : version[v] \in Committed}}
PageKeys == {Preview(u) : u \in {v \in Uploads : version[v] = "parsed"}}

DeletionKeys == SourceKeys \cup PageKeys \cup {VaultScope}

Move(u, from, to) ==
    /\ version[u] = from
    /\ version' = [version EXCEPT ![u] = to]
    /\ UNCHANGED <<deletion, collected, outboxVars, cleanerVars>>

(* upload_prepared_knowledge_document: the transaction takes the knowledge    *)
(* base row, inserts the version and its parse job, and puts the object.      *)
BeginUpload(u) ==
    /\ KbRowFree
    /\ Move(u, "none", "inserting")
    /\ UNCHANGED store

PutSource(u) ==
    /\ Move(u, "inserting", "put")
    /\ store' = store \cup {Source(u)}

(* Variant: the upload's transaction may commit without the object. *)
CommitUploadEarly(u) ==
    /\ \E from \in Uploading : Move(u, from, "uploaded")
    /\ UNCHANGED store

CommitUpload(u) ==
    /\ Move(u, "put", "uploaded")
    /\ UNCHANGED store

(* The put fails, or the transaction does: the rows are rolled back, and an   *)
(* object that was put stays behind.                                         *)
AbortUpload(u) ==
    /\ \E from \in Uploading : Move(u, from, "aborted")
    /\ UNCHANGED store

-------------------------------------------------------------------------------
(* A worker claims the parse job; the deletion's row locks keep it off. *)
ClaimParse(u) ==
    /\ deletion \in {"idle", "locked"}
    /\ Move(u, "uploaded", "running")
    /\ UNCHANGED store

(* The handler's transaction opens: it holds the job row and reads the source.*)
BeginParse(u) ==
    /\ Source(u) \in store
    /\ Move(u, "running", "parsing")
    /\ UNCHANGED store

(* _persist_page_preview: a preview that is there already is taken as it is. *)
PutPreview(u) ==
    /\ Move(u, "parsing", "previewed")
    /\ store' = store \cup {Preview(u)}

(* The version becomes READY; _lock_knowledge_base waits for the knowledge    *)
(* base row before the transaction can commit.                               *)
CommitParse(u) ==
    /\ KbRowFree
    /\ Move(u, "previewed", "parsed")
    /\ UNCHANGED store

(* The attempt fails and rolls back, or its lease runs out: the job is tried  *)
(* again or given up.  Previews it put stay behind, without a page row.       *)
FailParse(u) ==
    /\ \E from \in Parsing \cup {"running"}, to \in {"uploaded", "failed"} :
          Move(u, from, to)
    /\ UNCHANGED store

-------------------------------------------------------------------------------
(* delete_knowledge_base: lock the knowledge base row, then the job rows      *)
(* (waiting for open handlers), refuse if one is RUNNING, read the keys, and  *)
(* commit the outbox rows together with the cascade.                         *)
LockForDelete ==
    /\ KbRowFree
    /\ deletion' = "locked"
    /\ UNCHANGED <<store, version, collected, outboxVars, cleanerVars>>

NoOpenHandler == \A u \in Uploads : version[u] \notin Parsing

RefuseDelete ==
    /\ deletion = "locked"
    /\ NoOpenHandler
    /\ \E u \in Uploads : version[u] = "running"
    /\ deletion' = "idle"
    /\ UNCHANGED <<store, version, collected, outboxVars, cleanerVars>>

HoldJobs ==
    /\ deletion = "locked"
    /\ NoOpenHandler
    /\ \A u \in Uploads : version[u] # "running"
    /\ deletion' = "collecting"
    /\ UNCHANGED <<store, version, collected, outboxVars, cleanerVars>>

CollectKeys ==
    /\ deletion = "collecting"
    /\ collected' = DeletionKeys
    /\ deletion' = "collected"
    /\ UNCHANGED <<store, version, outboxVars, cleanerVars>>

CommitDelete ==
    /\ deletion = "collected"
    /\ deletion' = "done"
    /\ outbox' = [k \in Keys |-> IF k \in collected THEN "pending" ELSE outbox[k]]
    /\ UNCHANGED <<store, version, collected, owner, lapsed, due, cleanerVars>>

AbortDelete ==
    /\ deletion \in {"locked", "collecting", "collected"}
    /\ deletion' = "idle"
    /\ collected' = {}
    /\ UNCHANGED <<store, version, outboxVars, cleanerVars>>

-------------------------------------------------------------------------------
(* Variant: a RUNNING row is never looked at again. *)
RunnableOnly ==
    {k \in Keys : outbox[k] = "pending" \/ (outbox[k] = "retry_wait" /\ k \in due)}

(* _claim_next: a pending row, one whose retry is due, or a stale one; there  *)
(* is no attempt limit.                                                      *)
Claimable ==
    {k \in Keys : \/ outbox[k] = "pending"
                  \/ outbox[k] = "retry_wait" /\ k \in due
                  \/ outbox[k] = "running" /\ k \in lapsed}

(* Each claim, outcome and result is one transaction; the deletion itself     *)
(* happens between transactions.                                             *)
Claim(c, k) ==
    /\ cleaner[c] = "idle"
    /\ k \in Claimable
    /\ outbox' = [outbox EXCEPT ![k] = "running"]
    /\ owner' = [owner EXCEPT ![k] = c]
    /\ lapsed' = lapsed \ {k}
    /\ due' = due \ {k}
    /\ cleaner' = [cleaner EXCEPT ![c] = "claimed"]
    /\ item' = [item EXCEPT ![c] = k]
    /\ UNCHANGED <<store, rowVars>>

(* delete_object (a missing object counts as deleted) or _delete_vault_scope. *)
DeleteItem(c) ==
    /\ cleaner[c] = "claimed"
    /\ store' = store \ {item[c]}
    /\ cleaner' = [cleaner EXCEPT ![c] = "gone"]
    /\ UNCHANGED <<rowVars, outboxVars, item>>

(* It raises; a storage request that timed out may have been carried out.     *)
DeleteFails(c) ==
    /\ cleaner[c] = "claimed"
    /\ store' \in {store, store \ {item[c]}}
    /\ cleaner' = [cleaner EXCEPT ![c] = "error"]
    /\ UNCHANGED <<rowVars, outboxVars, item>>

(* _owned_item. *)
Owned(c) == outbox[item[c]] = "running" /\ owner[item[c]] = c

(* Variant: an error is recorded as a result. *)
OutcomeAlwaysCompleted(c) == "completed"
Outcome(c) == IF cleaner[c] = "gone" THEN "completed" ELSE "retry_wait"

(* Variant: the lease columns are not cleared with the outcome. *)
RecordKeepsLease(c) ==
    /\ cleaner[c] \in {"gone", "error"}
    /\ Owned(c)
    /\ outbox' = [outbox EXCEPT ![item[c]] = Outcome(c)]
    /\ cleaner' = [cleaner EXCEPT ![c] = "idle"]
    /\ UNCHANGED <<store, rowVars, owner, lapsed, due, item>>

(* The outcome is written if the row is still mine; otherwise                 *)
(* object_deletion_lease_lost is swallowed.                                  *)
Record(c) ==
    /\ cleaner[c] \in {"gone", "error"}
    /\ Owned(c)
    /\ outbox' = [outbox EXCEPT ![item[c]] = Outcome(c)]
    /\ owner' = [owner EXCEPT ![item[c]] = NoCleaner]
    /\ lapsed' = lapsed \ {item[c]}
    /\ cleaner' = [cleaner EXCEPT ![c] = "idle"]
    /\ UNCHANGED <<store, rowVars, due, item>>

LeaseLost(c) ==
    /\ cleaner[c] \in {"gone", "error"}
    /\ ~Owned(c)
    /\ cleaner' = [cleaner EXCEPT ![c] = "idle"]
    /\ UNCHANGED <<store, rowVars, outboxVars, item>>

(* The process dies, also when one of its transactions raises.  Bound: one    *)
(* process outlives the others, as a supervisor restarts workers.             *)
Crash(c) ==
    /\ cleaner[c] # "crashed"
    /\ \E d \in Cleaners \ {c} : cleaner[d] # "crashed"
    /\ cleaner' = [cleaner EXCEPT ![c] = "crashed"]
    /\ UNCHANGED <<store, rowVars, outboxVars, item>>

LeaseLapses(k) ==
    /\ outbox[k] = "running"
    /\ lapsed' = lapsed \cup {k}
    /\ UNCHANGED <<store, rowVars, outbox, owner, due, cleanerVars>>

RetryDue(k) ==
    /\ outbox[k] = "retry_wait"
    /\ due' = due \cup {k}
    /\ UNCHANGED <<store, rowVars, outbox, owner, lapsed, cleanerVars>>

-------------------------------------------------------------------------------
UploadStep(u) == BeginUpload(u) \/ PutSource(u) \/ CommitUpload(u) \/ AbortUpload(u)
ParseStep(u) ==
    ClaimParse(u) \/ BeginParse(u) \/ PutPreview(u) \/ CommitParse(u) \/ FailParse(u)
DeleteStep ==
    \/ LockForDelete
    \/ RefuseDelete
    \/ HoldJobs
    \/ CollectKeys
    \/ CommitDelete
    \/ AbortDelete
CleanStep(c) ==
    \/ \E k \in Keys : Claim(c, k)
    \/ DeleteItem(c)
    \/ DeleteFails(c)
    \/ Record(c)
    \/ LeaseLost(c)

Next ==
    \/ \E u \in Uploads : UploadStep(u)
    \/ \E u \in Uploads : ParseStep(u)
    \/ DeleteStep
    \/ \E c \in Cleaners : CleanStep(c)
    \/ \E c \in Cleaners : Crash(c)
    \/ \E k \in Keys : LeaseLapses(k)
    \/ \E k \in Keys : RetryDue(k)

(* Workers keep calling run_object_deletion_once and time passes.  A row that *)
(* keeps being runnable gets its turn (the oldest is taken first and a failed  *)
(* one waits), and an outage of the storage ends.                             *)
Fairness ==
    /\ \A c \in Cleaners : WF_vars(CleanStep(c))
    /\ \A k \in Keys :
          /\ WF_vars(LeaseLapses(k)) /\ WF_vars(RetryDue(k))
          /\ SF_vars(\E c \in Cleaners : Claim(c, k))
          /\ SF_vars(\E c \in Cleaners : item[c] = k /\ DeleteItem(c))

Spec == Init /\ [][Next]_vars
FairSpec == Spec /\ Fairness

-------------------------------------------------------------------------------
(* upload_prepared_knowledge_document, _persist_parsed_graph: while the       *)
(* knowledge base exists, every committed row finds its object, whichever      *)
(* uploads, parses and deletions rolled back around it.                       *)
LiveRowsKeepObjects ==
    deletion # "done" =>
        \A u \in Uploads :
            /\ version[u] \in Committed => Source(u) \in store
            /\ version[u] = "parsed" => Preview(u) \in store

(* delete_knowledge_base (test_knowledge_deletion.py:171): the deletion queues *)
(* every object a row of the knowledge base points at when the rows go, also   *)
(* those of uploads and parses that were under way when it started.            *)
DeletedObjectsAreQueued ==
    deletion = "done" =>
        \A u \in Uploads :
            /\ version[u] \in Committed \cup Uploading => outbox[Source(u)] # "none"
            /\ version[u] = "parsed" => outbox[Preview(u)] # "none"

(* run_object_deletion_once: a COMPLETED row means that the object is gone,    *)
(* and stays gone, although the outcome is written after the deletion, maybe   *)
(* by another worker than the one whose deletion worked.                      *)
CompletedMeansGone ==
    \A k \in Objects : outbox[k] = "completed" => k \notin store

(* run_object_deletion_once in run_worker_forever: what a deletion queued is   *)
(* removed in the end, although workers crash between the claim, the deletion    *)
(* and the record, leases lapse and the storage fails; provided that from some *)
(* point on only dead workers lose their leases.                              *)
EveryDeletionCompletes ==
    <>[](\A k \in lapsed : cleaner[owner[k]] = "crashed") =>
        \A k \in Keys : (outbox[k] = "pending") ~> (outbox[k] = "completed")
===============================================================================
