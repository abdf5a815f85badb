----------------------------- MODULE IndexBuild -----------------------------
(***************************************************************************)
(* The immutable retrieval indexes of one knowledge base                    *)
(* (apps/api/src/tutor_api/knowledge/indexing.py, service.py,               *)
(* semantic_worker.py and the BUILD_INDEX and SEMANTIC_PLAN handlers of     *)
(* worker.py): how uploads, vault edits and a change of the embedding       *)
(* configuration become index versions, and which one of them is searched.  *)
(*                                                                         *)
(* Every handler takes the knowledge base row FOR UPDATE before it reads a   *)
(* document set or an index and keeps it until its transaction ends, so each *)
(* handler is one action.  Leases, attempts and lost acknowledgements are    *)
(* those of IngestionQueue: here a job is queued until it is completed or    *)
(* has failed for good, and an attempt that rolls back changes nothing.      *)
(* The rollback of the Vault migration (vault/migration.py) takes no such    *)
(* lock: it reads before it commits, and may commit in the middle of an      *)
(* activation, between what that reads and what it writes.                   *)
(*                                                                         *)
(* An index is a member of the sequence `indexes', its version_number its    *)
(* place.  Chunks are abstracted to the document versions they come from.    *)
(***************************************************************************)
EXTENDS Integers, Sequences, FiniteSets

CONSTANTS
    Docs,          \* documents of the knowledge base
    MaxVersions,   \* bound: content versions uploaded per document
    Contracts,     \* embedding contracts a worker may be configured with
    FirstContract, \* the one the first worker runs with
    MaxDrifts,     \* bound: how often the configuration changes
    Files,         \* vault files
    Hashes,        \* contents a vault file may have
    NoHash,        \* source_snapshot_hash IS NULL; a file not yet seen
    MaxEdits,      \* bound: how often vault files change
    MaxRollbacks   \* bound: inventories of the migration, and rollbacks

ASSUME ConstantsAssumption ==
    /\ MaxVersions \in Nat
    /\ FirstContract \in Contracts
    /\ NoHash \notin Hashes
    /\ MaxDrifts \in Nat
    /\ MaxEdits \in Nat
    /\ MaxRollbacks \in Nat

Versions == Docs \X (1..MaxVersions)   \* <<document, version_number>>
Snapshots == Hashes \cup {NoHash}

VARIABLES
    version,    \* version[v]: DocumentVersion.state, "absent" before the upload
    indexes,    \* the index rows, in version_number order, with their build job
    contract,   \* the contract of the embedding adapter workers run with
    drifts,     \* bound: configuration changes so far
    content,    \* content[f]: VaultFile.content_hash
    edits,      \* bound: vault edits so far
    plans,      \* queued SEMANTIC_PLAN jobs, as their checkpoints
    lastIndex,  \* lastIndex[f]: VaultFile.last_index_version_id, 0 when null
    inventoried,\* previous_active_index_id of the migration's inventories, 0 none
    rollback,   \* the rollback under way: where to, and whether it has read ACTIVE
    rollbacks   \* bound: rollbacks so far

migrationVars == <<inventoried, rollback, rollbacks>>
vars == <<version, indexes, contract, drifts, content, edits, plans, lastIndex,
          migrationVars>>

VersionStates == {"absent", "uploaded", "ready", "failed"}
(* READY (prepared, not activated) never outlives the semantic job's          *)
(* transaction: it becomes ACTIVE or RETIRED there, or is rolled back.        *)
IndexStates == {"building", "active", "retired", "failed"}
JobStates == {"none", "queued", "completed", "failed"}

Signature == [docs : SUBSET Versions, contract : Contracts, snapshot : Snapshots]
IndexRow == [sig : Signature, state : IndexStates, job : JobStates]
Plan == [file : Files, hash : Hashes, docs : SUBSET Versions]
NoRollback == [begun |-> FALSE, to |-> 0, sawActive |-> FALSE]

TypeOK ==
    /\ version \in [Versions -> VersionStates]
    /\ indexes \in Seq(IndexRow)
    /\ contract \in Contracts
    /\ drifts \in 0..MaxDrifts
    /\ content \in [Files -> Snapshots]
    /\ edits \in 0..MaxEdits
    /\ plans \in SUBSET Plan
    /\ lastIndex \in [Files -> 0..Len(indexes)]
    /\ inventoried \in SUBSET (0..Len(indexes))
    /\ rollback \in [begun : BOOLEAN, to : 0..Len(indexes), sawActive : BOOLEAN]
    /\ rollbacks \in 0..MaxRollbacks

Init ==
    /\ version = [v \in Versions |-> "absent"]
    /\ indexes = <<>>
    /\ contract = FirstContract
    /\ drifts = 0
    /\ content = [f \in Files |-> NoHash]
    /\ edits = 0
    /\ plans = {}
    /\ lastIndex = [f \in Files |-> 0]
    /\ inventoried = {}
    /\ rollback = NoRollback
    /\ rollbacks = 0

-------------------------------------------------------------------------------
(* Variant: versions are ordered ascending, so the first one wins. *)
EarliestReady(ver) ==
    {v \in Versions : /\ ver[v] = "ready"
                      /\ \A n \in 1..(v[2] - 1) : ver[<<v[1], n>>] # "ready"}

(* _latest_ready_version_ids: the highest READY version of each document. *)
LatestReady(ver) ==
    {v \in Versions : /\ ver[v] = "ready"
                      /\ \A n \in (v[2] + 1)..MaxVersions : ver[<<v[1], n>>] # "ready"}

HasSignature(ixs, i, sig) == ixs[i].sig = sig

(* prepare_index_build: the index of this signature, made if there is none,   *)
(* with the next version number.                                             *)
Prepare(ixs, sig) ==
    IF \E i \in DOMAIN ixs : HasSignature(ixs, i, sig) THEN ixs
    ELSE Append(ixs, [sig |-> sig, state |-> "building", job |-> "none"])

Target(ixs, sig) == CHOOSE i \in DOMAIN ixs : HasSignature(ixs, i, sig)

(* enqueue_index_build: the job of idempotency key build:<signature> is made  *)
(* once; a completed or a failed one is returned as it is.                    *)
Enqueue(ixs, sig) ==
    LET rows == Prepare(ixs, sig) IN
    [rows EXCEPT ![Target(rows, sig)].job = IF @ = "none" THEN "queued" ELSE @]

NewerActive(ixs, i) == \E k \in DOMAIN ixs : k > i /\ ixs[k].state = "active"

(* What a session writes to a row: nothing, if it has read that state there. *)
Written(saw, ixs, k, state) == IF saw[k].state = state THEN ixs[k].state ELSE state

(* Variants: the newest wins without a look at version numbers; a replaced    *)
(* index stays ACTIVE.                                                       *)
ActivateLast(saw, ixs, i) ==
    [k \in DOMAIN ixs |->
        [ixs[k] EXCEPT !.state = IF k = i THEN Written(saw, ixs, i, "active")
                                 ELSE IF @ = "active" THEN "retired" ELSE @]]
ActivateBeside(saw, ixs, i) ==
    [ixs EXCEPT ![i].state = IF NewerActive(saw, i) THEN "retired" ELSE "active"]

(* _activate_building_index, which has read the rows as saw and finds them as *)
(* ixs when it writes: a newer ACTIVE index wins; otherwise this one replaces *)
(* the others in the same transaction.                                       *)
Activate(saw, ixs, i) ==
    IF NewerActive(saw, i)
    THEN [ixs EXCEPT ![i].state = Written(saw, ixs, i, "retired")]
    ELSE [k \in DOMAIN ixs |->
            [ixs[k] EXCEPT !.state = IF k = i THEN Written(saw, ixs, i, "active")
                                     ELSE IF @ = "active" THEN "retired" ELSE @]]

(* _terminally_fail_build_target: an index that was searched is left alone. *)
FailTarget(ixs, i) ==
    [ixs EXCEPT ![i].state = IF @ \in {"active", "retired"} THEN @ ELSE "failed"]

EndJob(ixs, i, end) == [ixs EXCEPT ![i].job = end]

Active == {i \in DOMAIN indexes : indexes[i].state = "active"}

(* VaultMigrator.rollback: every other ACTIVE index is RETIRED, and the one of *)
(* the inventory, if there is one, is ACTIVE.  A state that the session has    *)
(* read already is not written again.                                        *)
RolledBack(ixs) ==
    [k \in DOMAIN ixs |->
        [ixs[k] EXCEPT !.state =
            IF k = rollback.to THEN IF rollback.sawActive THEN @ ELSE "active"
            ELSE IF @ = "active" THEN "retired" ELSE @]]

(* What an activation finds when it writes: what it has read, or that with a   *)
(* rollback committed in between.                                            *)
Found(saw, rows) ==
    \/ rows = saw /\ rollback' = rollback
    \/ rollback.begun /\ rows = RolledBack(saw) /\ rollback' = NoRollback

-------------------------------------------------------------------------------
(* upload_prepared_knowledge_document: the next version of a document.  An    *)
(* upload of content the document already has creates nothing.               *)
Upload(v) ==
    /\ version[v] = "absent"
    /\ v[2] > 1 => version[<<v[1], v[2] - 1>>] # "absent"
    /\ version' = [version EXCEPT ![v] = "uploaded"]
    /\ UNCHANGED <<indexes, contract, drifts, content, edits, plans, lastIndex,
                   migrationVars>>

(* The parse handler (persist_parsed_document_and_enqueue_build): the version *)
(* is READY and a build of the latest READY versions is asked for.            *)
ParseSucceeds(v) ==
    /\ version[v] = "uploaded"
    /\ version' = [version EXCEPT ![v] = "ready"]
    /\ indexes' = Enqueue(indexes, [docs |-> LatestReady(version'),
                                    contract |-> contract, snapshot |-> NoHash])
    /\ UNCHANGED <<contract, drifts, content, edits, plans, lastIndex,
                   migrationVars>>

(* The parse job fails for good (_terminally_fail_parse_target). *)
ParseFails(v) ==
    /\ version[v] = "uploaded"
    /\ version' = [version EXCEPT ![v] = "failed"]
    /\ UNCHANGED <<indexes, contract, drifts, content, edits, plans, lastIndex,
                   migrationVars>>

(* The build handler under the contract its target was made for: a target     *)
(* searched before is reused, any other is built and activated.              *)
RunBuild(i) ==
    /\ indexes[i].job = "queued"
    /\ indexes[i].sig.contract = contract
    /\ \/ /\ indexes[i].state \in {"active", "retired"}
          /\ indexes' = EndJob(indexes, i, "completed")
          /\ rollback' = rollback
       \/ /\ indexes[i].state \notin {"active", "retired"}
          /\ \E rows \in {indexes, RolledBack(indexes)} :
                /\ Found(indexes, rows)
                /\ indexes' = EndJob(Activate(indexes, rows, i), i, "completed")
    /\ UNCHANGED <<version, contract, drifts, content, edits, plans, lastIndex,
                   inventoried, rollbacks>>

(* The build handler under another contract: its own target is given up and   *)
(* the same documents are asked for under the current contract.              *)
RetargetBuild(i) ==
    /\ indexes[i].job = "queued"
    /\ indexes[i].sig.contract # contract
    /\ indexes' = EndJob(Enqueue(FailTarget(indexes, i),
                                 [indexes[i].sig EXCEPT !.contract = contract]),
                         i, "completed")
    /\ UNCHANGED <<version, contract, drifts, content, edits, plans, lastIndex,
                   migrationVars>>

(* The build job fails for good (embedding provider, invalid content). *)
BuildFails(i) ==
    /\ indexes[i].job = "queued"
    /\ indexes' = EndJob(FailTarget(indexes, i), i, "failed")
    /\ UNCHANGED <<version, contract, drifts, content, edits, plans, lastIndex,
                   migrationVars>>

(* Workers restart with another embedding provider, model or dimension. *)
ChangeContract(c) ==
    /\ c # contract
    /\ drifts < MaxDrifts
    /\ contract' = c
    /\ drifts' = drifts + 1
    /\ UNCHANGED <<version, indexes, content, edits, plans, lastIndex,
                   migrationVars>>

-------------------------------------------------------------------------------
(* A vault scan sees new content in a file, and its change set is projected.  *)
(* The semantic job it fans out carries the documents that are READY at the   *)
(* scan (_semantic_contract_checkpoint).  enqueue_vault_scan asks for an      *)
(* index that is BUILDING, READY or ACTIVE to hang its jobs on.               *)
ScanEdit(f, h) ==
    /\ edits < MaxEdits
    /\ content[f] # h
    /\ \E i \in DOMAIN indexes : indexes[i].state \in {"building", "active"}
    /\ LatestReady(version) # {}
    /\ content' = [content EXCEPT ![f] = h]
    /\ edits' = edits + 1
    /\ plans' = plans \cup {[file |-> f, hash |-> h, docs |-> LatestReady(version)]}
    /\ UNCHANGED <<version, indexes, contract, drifts, lastIndex,
                   migrationVars>>

(* Variant: the prepared index rolls back, the file still records it. *)
RunSemanticDangling(p) ==
    /\ p \in plans
    /\ content[p.file] = p.hash
    /\ lastIndex' = [lastIndex EXCEPT ![p.file] = Len(indexes) + 1]
    /\ plans' = plans \ {p}
    /\ UNCHANGED <<version, indexes, contract, drifts, content, edits,
                   migrationVars>>

(* make_semantic_plan_handler and run_semantic_index_job: the index of the    *)
(* job's documents and the file's content is prepared, or found, and then     *)
(* activated, and the file records it as its last index.                     *)
RunSemantic(p) ==
    /\ p \in plans
    /\ content[p.file] = p.hash
    /\ LET sig  == [docs |-> p.docs, contract |-> contract, snapshot |-> p.hash]
           rows == Prepare(indexes, sig)
           i    == Target(rows, sig)
       IN  /\ \E found \in {rows, RolledBack(rows)} :
                 /\ Found(rows, found)
                 /\ indexes' = Activate(rows, found, i)
           /\ lastIndex' = [lastIndex EXCEPT ![p.file] = i]
    /\ plans' = plans \ {p}
    /\ UNCHANGED <<version, contract, drifts, content, edits, inventoried, rollbacks>>

(* The semantic job is stale, or fails for good; what it prepared rolls back. *)
SemanticFails(p) ==
    /\ p \in plans
    /\ plans' = plans \ {p}
    /\ UNCHANGED <<version, indexes, contract, drifts, content, edits, lastIndex,
                   migrationVars>>

-------------------------------------------------------------------------------
(* The rollback of the Vault migration (vault/migration.py)                  *)

(* inventory records which index is ACTIVE, if any, in the state file. *)
Inventory ==
    /\ Cardinality(inventoried) < MaxRollbacks
    /\ inventoried' = inventoried \cup
         (IF Active = {} THEN {0} ELSE {CHOOSE i \in Active : TRUE})
    /\ UNCHANGED <<version, indexes, contract, drifts, content, edits, plans,
                   lastIndex, rollback, rollbacks>>

(* rollback loads the index of one of the inventories. *)
RollbackReads(p) ==
    /\ p \in inventoried
    /\ rollbacks < MaxRollbacks
    /\ ~rollback.begun
    /\ rollback' = [begun |-> TRUE, to |-> p,
                    sawActive |-> p # 0 /\ p \in Active]
    /\ rollbacks' = rollbacks + 1
    /\ UNCHANGED <<version, indexes, contract, drifts, content, edits, plans,
                   lastIndex, inventoried>>

RollbackCommits ==
    /\ rollback.begun
    /\ indexes' = RolledBack(indexes)
    /\ rollback' = NoRollback
    /\ UNCHANGED <<version, contract, drifts, content, edits, plans, lastIndex,
                   inventoried, rollbacks>>

(* It is cut off, or uq_active_index_per_knowledge_base refuses it. *)
RollbackAborts ==
    /\ rollback.begun
    /\ rollback' = NoRollback
    /\ UNCHANGED <<version, indexes, contract, drifts, content, edits, plans,
                   lastIndex, inventoried, rollbacks>>

-------------------------------------------------------------------------------
BuildStep(i) == RunBuild(i) \/ RetargetBuild(i) \/ BuildFails(i)

Next ==
    \/ \E v \in Versions : Upload(v)
    \/ \E v \in Versions : ParseSucceeds(v)
    \/ \E v \in Versions : ParseFails(v)
    \/ \E i \in DOMAIN indexes : BuildStep(i)
    \/ \E c \in Contracts : ChangeContract(c)
    \/ \E f \in Files, h \in Hashes : ScanEdit(f, h)
    \/ \E p \in plans : RunSemantic(p)
    \/ \E p \in plans : SemanticFails(p)
    \/ Inventory
    \/ \E p \in inventoried : RollbackReads(p)
    \/ RollbackCommits
    \/ RollbackAborts

Spec == Init /\ [][Next]_vars

(* Queued jobs run: IngestionQueue!EveryJobSettles. *)
Fairness ==
    /\ \A v \in Versions : WF_vars(ParseSucceeds(v) \/ ParseFails(v))
    /\ WF_vars(\E i \in DOMAIN indexes : BuildStep(i))
    /\ WF_vars(\E p \in plans : RunSemantic(p) \/ SemanticFails(p))
FairSpec == Spec /\ Fairness

-------------------------------------------------------------------------------
Searched == UNION {indexes[i].sig.docs : i \in Active}

(* _activate_building_index: at most one index of a knowledge base is ACTIVE, *)
(* without the help of the partial unique index of the table, which would     *)
(* turn a second one into a failed job.                                      *)
OneActiveIndex == \A i, k \in Active : i = k

(* test_late_older_target_completion_never_replaces_newer_active_index: the   *)
(* searched index only moves to a newer one, and search never loses its index,*)
(* whatever completes late, fails, or is asked for twice; but for the step in *)
(* which a rollback of the migration commits, which is there to go back.      *)
ActiveNeverMovesBack ==
    [][\/ \A i \in Active : \E k \in Active' : k >= i
       \/ rollback.begun /\ ~rollback'.begun]_vars

(* The version of a document that is searched only ever gives way to a newer  *)
(* version of the same document: a document once searchable stays so.         *)
SearchableStaysSearchable ==
    [][\A v \in Searched : \E n \in v[2]..MaxVersions : <<v[1], n>> \in Searched']_vars

(* get_document_processing_state, of an uploaded version. *)
FailedBuildCovers(v) ==
    \E i \in DOMAIN indexes : indexes[i].job = "failed" /\ v \in indexes[i].sig.docs

(* persist_parsed_document_and_enqueue_build, with the queue's promise that    *)
(* jobs settle: every READY version, or a newer one of its document, is        *)
(* searched in the end, or a build that covers it has failed visibly.         *)
ReadyVersionsSettle ==
    \A v \in Versions :
        (version[v] = "ready") ~>
            \E n \in v[2]..MaxVersions :
                <<v[1], n>> \in Searched \/ FailedBuildCovers(<<v[1], n>>)

(* semantic_worker.py:242 "Prepare deterministic chunks, validate semantic     *)
(* output, then atomically activate": when a semantic job ends as ACTIVE and    *)
(* the file records its index, that index is the searched one.  Content that   *)
(* returns to what it was finds its old, RETIRED index, which stays RETIRED.   *)
SemanticResultIsSearched ==
    [][\A f \in Files : lastIndex'[f] # lastIndex[f] => lastIndex'[f] \in Active']_vars
===============================================================================
