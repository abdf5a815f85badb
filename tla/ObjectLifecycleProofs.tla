------------------------ MODULE ObjectLifecycleProofs ------------------------
(***************************************************************************)
(* Proofs about ObjectLifecycle, for any number of uploads and workers.      *)
(* The invariant splits the system at the commit of the deletion.  Before    *)
(* it, no outbox row exists, so no cleaner is at work and an object that was  *)
(* put stays.  From the moment the deletion holds its locks until after its   *)
(* commit, no upload or parse transaction is open, so the collected keys are  *)
(* complete and no object is put behind a cleaner's back.                     *)
(***************************************************************************)
EXTENDS ObjectLifecycle, TLAPS

(* Outbox rows appear with the commit of the deletion. *)
QueuedWhenDone == deletion # "done" => \A k \in Keys : outbox[k] = "none"

(* A deletion keeps uploads out, and once it holds the jobs also parses. *)
DeletionExcludes ==
    /\ deletion # "idle" => \A u \in Uploads : version[u] \notin Uploading
    /\ deletion \in {"collecting", "collected", "done"} =>
          \A u \in Uploads : version[u] \notin Parsing \cup {"running"}

(* What an open transaction has put is in storage. *)
PutsAreStored ==
    deletion # "done" =>
        \A u \in Uploads :
            /\ version[u] = "put" => Source(u) \in store
            /\ version[u] = "previewed" => Preview(u) \in store

(* What the deletion has read stays true until it commits. *)
CollectedIsComplete == deletion = "collected" => collected = DeletionKeys

(* A cleaner works on a queued row, and knows what it deleted to be gone. *)
CleanersKnow ==
    \A c \in Cleaners :
        /\ cleaner[c] \in {"claimed", "gone", "error"} => outbox[item[c]] # "none"
        /\ cleaner[c] = "gone" => item[c] \notin store

IndInv ==
    /\ TypeOK
    /\ QueuedWhenDone
    /\ DeletionExcludes
    /\ PutsAreStored
    /\ CollectedIsComplete
    /\ CleanersKnow
    /\ LiveRowsKeepObjects
    /\ DeletedObjectsAreQueued
    /\ CompletedMeansGone

-------------------------------------------------------------------------------
(* Distinct uploads have distinct keys, and the vault scope is none of them. *)
LEMMA KeysDiffer ==
  ASSUME NEW u \in Uploads, NEW v \in Uploads
  PROVE  /\ Source(u) \in Objects /\ Preview(u) \in Objects
         /\ Source(u) \in Keys /\ Preview(u) \in Keys
         /\ Source(u) # Preview(v)
         /\ Source(u) = Source(v) => u = v
         /\ Preview(u) = Preview(v) => u = v
  BY DEF Source, Preview, Objects, Keys

LEMMA InitIndInv == Init => IndInv
  BY DEF Init, IndInv, TypeOK, QueuedWhenDone, DeletionExcludes, PutsAreStored,
      CollectedIsComplete, CleanersKnow, LiveRowsKeepObjects, DeletedObjectsAreQueued,
      CompletedMeansGone, Uploading, Parsing, Committed, Keys

(* Before the deletion commits, a step of an upload or a parse moves one       *)
(* version and at most adds its object.                                       *)
LEMMA UploadIndInv ==
  ASSUME IndInv, NEW u \in Uploads, UploadStep(u) \/ ParseStep(u)
  PROVE  IndInv'
<1> USE DEF IndInv, outboxVars, cleanerVars
<1>1. /\ UNCHANGED <<deletion, collected, outboxVars, cleanerVars>>
      /\ \E from, to : Move(u, from, to)
  BY DEF UploadStep, ParseStep, BeginUpload, PutSource, CommitUpload, AbortUpload, ClaimParse,
      BeginParse, PutPreview, CommitParse, FailParse, Move, Uploading
<1>2. PICK from \in {"none", "inserting", "put", "uploaded", "running", "parsing", "previewed"},
           to \in {"inserting", "put", "uploaded", "aborted", "running", "parsing", "previewed",
                   "parsed", "failed"} :
         /\ version[u] = from
         /\ version' = [version EXCEPT ![u] = to]
         /\ store' \in {store, store \cup {Source(u)}, store \cup {Preview(u)}}
         /\ from = "none" => KbRowFree /\ to = "inserting"
         /\ from = "inserting" => \/ to = "put" /\ store' = store \cup {Source(u)}
                                  \/ to = "aborted" /\ store' = store
         /\ from = "put" => to \in {"uploaded", "aborted"} /\ store' = store
         /\ from = "uploaded" => /\ deletion \in {"idle", "locked"}
                                 /\ to = "running" /\ store' = store
         /\ from = "running" => to \in {"parsing", "uploaded", "failed"} /\ store' = store
         /\ from = "parsing" =>
               \/ to = "previewed" /\ store' = store \cup {Preview(u)}
               \/ to \in {"uploaded", "failed"} /\ store' = store
         /\ from = "previewed" => to \in {"parsed", "uploaded", "failed"} /\ store' = store
         /\ to = "parsed" => from = "previewed" /\ KbRowFree
         /\ to = "inserting" => store' = store
  <2>1. CASE BeginUpload(u)
    BY <2>1 DEF BeginUpload, Move
  <2>2. CASE PutSource(u)
    BY <2>2 DEF PutSource, Move
  <2>3. CASE CommitUpload(u) \/ AbortUpload(u)
    BY <2>3 DEF CommitUpload, AbortUpload, Move, Uploading
  <2>4. CASE ClaimParse(u) \/ BeginParse(u)
    BY <2>4 DEF ClaimParse, BeginParse, Move
  <2>5. CASE PutPreview(u)
    BY <2>5 DEF PutPreview, Move
  <2>6. CASE CommitParse(u) \/ FailParse(u)
    BY <2>6 DEF CommitParse, FailParse, Move, Parsing
  <2> QED
    BY <2>1, <2>2, <2>3, <2>4, <2>5, <2>6 DEF UploadStep, ParseStep
<1>3. deletion \notin {"collecting", "collected", "done"}
  BY <1>2 DEF DeletionExcludes, Uploading, Parsing, KbRowFree
<1>4. TypeOK'
  BY <1>1, <1>2, KeysDiffer DEF TypeOK, Uploading, Committed
<1>5. QueuedWhenDone' /\ CollectedIsComplete'
  BY <1>1, <1>3 DEF QueuedWhenDone, CollectedIsComplete
<1>6. DeletionExcludes'
  BY <1>1, <1>2, <1>3 DEF DeletionExcludes, Uploading, Parsing, KbRowFree, TypeOK
<1>7. PutsAreStored' /\ LiveRowsKeepObjects'
  BY <1>1, <1>2, <1>3 DEF PutsAreStored, LiveRowsKeepObjects, Committed, TypeOK
<1>8. CleanersKnow' /\ DeletedObjectsAreQueued' /\ CompletedMeansGone'
  <2>1. \A k \in Keys : outbox[k] = "none"
    BY <1>3 DEF QueuedWhenDone
  <2>2. \A c \in Cleaners : cleaner[c] \notin {"claimed", "gone", "error"}
    BY <2>1 DEF CleanersKnow, TypeOK
  <2>3. \A k \in Objects : outbox[k] # "completed"
    BY <2>1 DEF Keys
  <2> QED
    BY <1>1, <1>3, <2>2, <2>3 DEF CleanersKnow, DeletedObjectsAreQueued, CompletedMeansGone
<1> QED
  BY <1>4, <1>5, <1>6, <1>7, <1>8

(* The deletion collects while nothing moves, and commits what it collected. *)
LEMMA DeleteIndInv ==
  ASSUME IndInv, DeleteStep
  PROVE  IndInv'
<1> USE DEF IndInv, outboxVars, cleanerVars
<1>1. UNCHANGED <<store, version, owner, lapsed, due, cleanerVars>>
  BY DEF DeleteStep, LockForDelete, RefuseDelete, HoldJobs, CollectKeys, CommitDelete, AbortDelete
<1>2. CASE LockForDelete \/ RefuseDelete \/ HoldJobs \/ AbortDelete
  <2>1. /\ outbox' = outbox /\ deletion # "done"
        /\ deletion' \in {"idle", "locked", "collecting"}
        /\ collected' \in {collected, {}}
    <3>1. CASE LockForDelete
      BY <3>1 DEF LockForDelete, KbRowFree
    <3>2. CASE RefuseDelete \/ HoldJobs
      BY <3>2 DEF RefuseDelete, HoldJobs
    <3>3. CASE AbortDelete
      BY <3>3 DEF AbortDelete
    <3> QED
      BY <1>2, <3>1, <3>2, <3>3
  <2>2. DeletionExcludes'
    BY <1>1, <1>2
    DEF LockForDelete, RefuseDelete, HoldJobs, AbortDelete, DeletionExcludes, KbRowFree, NoOpenHandler
  <2>3. TypeOK' /\ QueuedWhenDone' /\ PutsAreStored' /\ LiveRowsKeepObjects'
    BY <1>1, <2>1 DEF TypeOK, QueuedWhenDone, PutsAreStored, LiveRowsKeepObjects
  <2>4. CollectedIsComplete' /\ CleanersKnow' /\ DeletedObjectsAreQueued' /\ CompletedMeansGone'
    BY <1>1, <2>1 DEF CollectedIsComplete, CleanersKnow, DeletedObjectsAreQueued, CompletedMeansGone
  <2> QED
    BY <2>2, <2>3, <2>4
<1>3. CASE CollectKeys
  <2>1. /\ outbox' = outbox /\ deletion = "collecting" /\ deletion' = "collected"
        /\ collected' = DeletionKeys
    BY <1>3 DEF CollectKeys
  <2>2. DeletionKeys \subseteq Keys /\ DeletionKeys' = DeletionKeys
    BY <1>1 DEF DeletionKeys, SourceKeys, PageKeys, Keys, Objects
  <2>3. TypeOK' /\ QueuedWhenDone' /\ PutsAreStored' /\ LiveRowsKeepObjects' /\ DeletionExcludes'
    BY <1>1, <2>1, <2>2
    DEF TypeOK, QueuedWhenDone, PutsAreStored, LiveRowsKeepObjects, DeletionExcludes
  <2>4. CollectedIsComplete' /\ CleanersKnow' /\ DeletedObjectsAreQueued' /\ CompletedMeansGone'
    BY <1>1, <2>1, <2>2
    DEF CollectedIsComplete, CleanersKnow, DeletedObjectsAreQueued, CompletedMeansGone
  <2> QED
    BY <2>3, <2>4
<1>4. CASE CommitDelete
  <2>1. /\ deletion = "collected" /\ deletion' = "done" /\ collected' = collected
        /\ collected = DeletionKeys
        /\ outbox' = [k \in Keys |-> IF k \in collected THEN "pending" ELSE outbox[k]]
        /\ \A k \in Keys : outbox[k] = "none"
    BY <1>4 DEF CommitDelete, CollectedIsComplete, QueuedWhenDone
  <2>2. TypeOK'
    BY <1>1, <2>1 DEF TypeOK
  <2>3. QueuedWhenDone' /\ DeletionExcludes' /\ PutsAreStored' /\ CollectedIsComplete'
        /\ LiveRowsKeepObjects'
    BY <1>1, <2>1
    DEF QueuedWhenDone, DeletionExcludes, PutsAreStored, CollectedIsComplete, LiveRowsKeepObjects
  <2>4. DeletedObjectsAreQueued'
    <3> SUFFICES ASSUME NEW u \in Uploads
                 PROVE  /\ version[u] \in Committed \cup Uploading => Source(u) \in collected
                        /\ version[u] = "parsed" => Preview(u) \in collected
      BY <1>1, <2>1, KeysDiffer DEF DeletedObjectsAreQueued
    <3>1. version[u] \notin Uploading
      BY <2>1 DEF DeletionExcludes
    <3> QED
      BY <2>1, <3>1 DEF DeletionKeys, SourceKeys, PageKeys
  <2>5. CleanersKnow' /\ CompletedMeansGone'
    BY <1>1, <2>1 DEF CleanersKnow, CompletedMeansGone, TypeOK, Keys
  <2> QED
    BY <2>2, <2>3, <2>4, <2>5
<1> QED
  BY <1>2, <1>3, <1>4 DEF DeleteStep

(* Cleaners only act once rows are queued: then the deletion has committed,    *)
(* nothing is put any more, and objects can only go.                          *)
LEMMA CleanIndInv ==
  ASSUME IndInv, NEW c \in Cleaners, CleanStep(c) \/ Crash(c)
  PROVE  IndInv'
<1> USE DEF IndInv, outboxVars, cleanerVars, rowVars
<1>1. version' = version /\ deletion' = deletion /\ collected' = collected /\ store' \subseteq store
  BY DEF CleanStep, Claim, DeleteItem, DeleteFails, Record, LeaseLost, Crash
<1>2. DeletionExcludes' /\ CollectedIsComplete'
  BY <1>1 DEF DeletionExcludes, CollectedIsComplete, DeletionKeys, SourceKeys, PageKeys
<1>3. CASE Crash(c)
  BY <1>1, <1>2, <1>3 DEF Crash, TypeOK, QueuedWhenDone, PutsAreStored, CleanersKnow,
      LiveRowsKeepObjects, DeletedObjectsAreQueued, CompletedMeansGone
<1>4. CASE CleanStep(c)
  <2>1. deletion = "done"
    BY <1>4 DEF CleanStep, Claim, DeleteItem, DeleteFails, Record, LeaseLost, Claimable,
        QueuedWhenDone, CleanersKnow, TypeOK
  <2>2. QueuedWhenDone' /\ PutsAreStored' /\ LiveRowsKeepObjects'
    BY <1>1, <2>1 DEF QueuedWhenDone, PutsAreStored, LiveRowsKeepObjects
  <2>3. \A k \in Keys : outbox[k] # "none" => outbox'[k] # "none"
    BY <1>4 DEF CleanStep, Claim, DeleteItem, DeleteFails, Record, LeaseLost, Outcome, TypeOK
  <2>4. DeletedObjectsAreQueued'
    BY <1>1, <2>3, KeysDiffer DEF DeletedObjectsAreQueued
  <2>5. TypeOK' /\ CleanersKnow' /\ CompletedMeansGone'
    <3>1. ASSUME NEW k \in Keys, Claim(c, k)
          PROVE  TypeOK' /\ CleanersKnow' /\ CompletedMeansGone'
      BY <3>1, KeysAssumption
      DEF Claim, Claimable, TypeOK, CleanersKnow, CompletedMeansGone, Uploading, Committed
    <3>2. CASE DeleteItem(c) \/ DeleteFails(c)
      BY <3>2 DEF DeleteItem, DeleteFails, TypeOK, CleanersKnow, CompletedMeansGone
    <3>3. CASE Record(c)
      BY <3>3, KeysAssumption
      DEF Record, Owned, Outcome, TypeOK, CleanersKnow, CompletedMeansGone
    <3>4. CASE LeaseLost(c)
      BY <3>4 DEF LeaseLost, TypeOK, CleanersKnow, CompletedMeansGone
    <3> QED
      BY <1>4, <3>1, <3>2, <3>3, <3>4 DEF CleanStep
  <2> QED
    BY <1>2, <2>2, <2>4, <2>5
<1> QED
  BY <1>3, <1>4

LEMMA TimeIndInv ==
  ASSUME IndInv, NEW k \in Keys, LeaseLapses(k) \/ RetryDue(k)
  PROVE  IndInv'
  BY DEF IndInv, LeaseLapses, RetryDue, rowVars, cleanerVars, TypeOK, QueuedWhenDone,
      DeletionExcludes, PutsAreStored, CollectedIsComplete, DeletionKeys, SourceKeys, PageKeys,
      CleanersKnow, LiveRowsKeepObjects, DeletedObjectsAreQueued, CompletedMeansGone

(* Every step, and every stuttering step, preserves IndInv. *)
LEMMA NextIndInv == IndInv /\ [Next]_vars => IndInv'
<1> SUFFICES ASSUME IndInv, [Next]_vars
             PROVE  IndInv'
  OBVIOUS
<1>1. CASE UNCHANGED vars
  BY <1>1 DEF vars, rowVars, outboxVars, cleanerVars, IndInv, TypeOK, QueuedWhenDone,
      DeletionExcludes, PutsAreStored, CollectedIsComplete, DeletionKeys, SourceKeys, PageKeys,
      CleanersKnow, LiveRowsKeepObjects, DeletedObjectsAreQueued, CompletedMeansGone
<1>2. CASE Next
  BY <1>2, UploadIndInv, DeleteIndInv, CleanIndInv, TimeIndInv DEF Next
<1> QED
  BY <1>1, <1>2

(* The inductive invariant holds in every reachable state. *)
THEOREM IndInvHolds == Spec => []IndInv
  BY InitIndInv, NextIndInv, PTL DEF Spec

(* The variables keep their types; a lease is held exactly while RUNNING (the  *)
(* database's ck_object_deletion_lease_matches_state).                         *)
THEOREM TypeCorrect == Spec => []TypeOK
<1>1. IndInv => TypeOK
  BY DEF IndInv
<1> QED
  BY <1>1, IndInvHolds, PTL

(* service.py: a committed row of a living knowledge base finds its object. *)
THEOREM RowsKeepTheirObjects == Spec => []LiveRowsKeepObjects
<1>1. IndInv => LiveRowsKeepObjects
  BY DEF IndInv
<1> QED
  BY <1>1, IndInvHolds, PTL

(* service.py, delete_knowledge_base: no object of a deleted row is forgotten. *)
THEOREM DeletionForgetsNothing == Spec => []DeletedObjectsAreQueued
<1>1. IndInv => DeletedObjectsAreQueued
  BY DEF IndInv
<1> QED
  BY <1>1, IndInvHolds, PTL

(* object_deletion.py: COMPLETED means gone, for ever. *)
THEOREM CompletedStaysGone == Spec => []CompletedMeansGone
<1>1. IndInv => CompletedMeansGone
  BY DEF IndInv
<1> QED
  BY <1>1, IndInvHolds, PTL

===============================================================================
