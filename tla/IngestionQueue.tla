---------------------------- MODULE IngestionQueue ----------------------------
(***************************************************************************)
(* The leased ingestion queue of the API and its worker processes          *)
(* (apps/api/src/tutor_api/knowledge/worker.py), over the rows of one      *)
(* knowledge base.  A worker claims a job in one transaction, runs its      *)
(* handler and completes the job in a second one, and records a failure in  *)
(* a third; the second and the third re-read the job row under FOR UPDATE   *)
(* and give up when the lease has gone to another worker.                   *)
(*                                                                         *)
(* Time appears only through what the statements compare with `now':        *)
(* a lease may run out and a retry delay may pass, at any moment after they *)
(* started.  Any runnable job may be claimed: ORDER BY available_at decides *)
(* which is first, and no property here depends on it.                      *)
(*                                                                         *)
(* A member of Workers is one process incarnation (worker_main builds its   *)
(* id from host, pid and a fresh uuid), so a crashed member never returns   *)
(* and a restart is another member starting to poll.                        *)
(***************************************************************************)
EXTENDS Naturals

CONSTANTS
    Jobs,         \* the job rows that may ever exist in this knowledge base
    Workers,      \* worker process incarnations
    NoWorker,     \* lease_owner IS NULL
    NoJob,        \* a worker that holds no claim
    Kind,         \* Kind[j] \in Kinds
    Follow,       \* Follow[j]: the jobs j's handler may enqueue when it succeeds
    MaxAttempts   \* MaxAttempts[j]: the row's max_attempts

Kinds == {"parse", "build", "candidate"}

ASSUME ConstantsAssumption ==
    /\ NoWorker \notin Workers
    /\ NoJob \notin Jobs
    /\ Kind \in [Jobs -> Kinds]
    /\ Follow \in [Jobs -> SUBSET Jobs]
    /\ \A j \in Jobs : j \notin Follow[j]
    /\ MaxAttempts \in [Jobs -> Nat \ {0}]

(* The jobs an API request creates: the others come from a handler. *)
Roots == {j \in Jobs : \A i \in Jobs : j \notin Follow[i]}

VARIABLES
    state,      \* state[j]: IngestionJob.state, "absent" before the row exists
    attempts,   \* attempts[j]: attempt_count
    owner,      \* owner[j]: lease_owner
    expired,    \* jobs whose lease_expires_at has passed
    due,        \* jobs in retry_wait whose available_at has come
    target,     \* target[j]: the document version, index or candidate batch of j
    kb,         \* the knowledge base row: live, locked by a deletion that waits
                \* for the job rows, being deleted, or gone
    held,       \* job rows the deletion has locked
    pc,         \* pc[w]: where worker w is in run_worker_once
    cur,        \* cur[w]: the job_id worker w claimed
    claimNo     \* history: the attempt_count at w's own claim

queueVars  == <<state, attempts, owner, expired, due, target>>
deleteVars == <<kb, held>>
workerVars == <<pc, cur, claimNo>>
vars == <<queueVars, deleteVars, workerVars>>

(* A row that no longer exists is "deleted".  CANCELLED is written and       *)
(* cascaded away inside one transaction, so no other transaction sees it.    *)
JobStates ==
    {"absent", "queued", "running", "retry_wait", "completed", "failed", "deleted"}
PcStates == {"idle", "claimed", "handling", "storing", "failing", "crashed"}
Busy == {"claimed", "handling", "storing", "failing"}
(* The handler's transaction is open; it also holds the knowledge base row    *)
(* while "storing".                                                          *)
Open == {"handling", "storing"}

TypeOK ==
    /\ state \in [Jobs -> JobStates]
    /\ attempts \in [Jobs -> Nat]
    /\ owner \in [Jobs -> Workers \cup {NoWorker}]
    /\ expired \in SUBSET Jobs
    /\ due \in SUBSET Jobs
    /\ target \in [Jobs -> {"absent", "processing", "done", "failed"}]
    /\ kb \in {"live", "locked", "deleting", "deleted"}
    /\ held \in SUBSET Jobs
    /\ pc \in [Workers -> PcStates]
    /\ cur \in [Workers -> Jobs \cup {NoJob}]
    /\ claimNo \in [Workers -> Nat]

Init ==
    /\ state = [j \in Jobs |-> "absent"]
    /\ attempts = [j \in Jobs |-> 0]
    /\ owner = [j \in Jobs |-> NoWorker]
    /\ expired = {}
    /\ due = {}
    /\ target = [j \in Jobs |-> "absent"]
    /\ kb = "live"
    /\ held = {}
    /\ pc = [w \in Workers |-> "idle"]
    /\ cur = [w \in Workers |-> NoJob]
    /\ claimNo = [w \in Workers |-> 0]

-------------------------------------------------------------------------------
(* Row locks.  A handler's transaction keeps the FOR UPDATE lock on its job  *)
(* until it commits or rolls back; the deletion keeps those it took.         *)
Locked(j) ==
    \/ \E w \in Workers : pc[w] \in Open /\ cur[w] = j
    \/ j \in held

(* Variant: the lease owner is not compared. *)
OwnsAnyLease(w, j) == state[j] = "running"

(* _owned_running_job: the row is RUNNING and the lease is still mine.  The   *)
(* expiry time is not looked at.                                            *)
Owns(w, j) == state[j] = "running" /\ owner[j] = w

(* claim_job_statement: runnable or stale, with an attempt left, and not     *)
(* locked by another transaction (SKIP LOCKED).                              *)
Claimable ==
    {j \in Jobs : /\ \/ state[j] = "queued"
                     \/ state[j] = "retry_wait" /\ j \in due
                     \/ state[j] = "running" /\ j \in expired
                  /\ attempts[j] < MaxAttempts[j]
                  /\ ~Locked(j)}

(* Variants: every stale job counts as exhausted; none does. *)
ExhaustedTooEarly ==
    {j \in Jobs : state[j] = "running" /\ j \in expired /\ ~Locked(j)}
ExhaustedNever == {}

(* _fail_exhausted_stale_jobs: stale and out of attempts. *)
Exhausted ==
    {j \in Jobs : /\ state[j] = "running"
                  /\ j \in expired
                  /\ attempts[j] >= MaxAttempts[j]
                  /\ ~Locked(j)}

(* What a terminal failure does to the job's target.  fail_job calls the      *)
(* build, parse and candidate closers; the exhausted path only the first two.*)
(* An index that is ACTIVE or RETIRED is left as it is.                       *)
TerminallyFail(S, kinds) ==
    [j \in Jobs |->
        IF j \in S /\ Kind[j] \in kinds /\ ~(Kind[j] = "build" /\ target[j] = "done")
        THEN "failed" ELSE target[j]]

FailJobKinds   == {"parse", "build", "candidate"}
(* Variant: the exhausted path forgets _terminally_fail_parse_target. *)
ExhaustedBuildsOnly == {"build"}
ExhaustedKinds == {"parse", "build"}

(* Variant: enqueue does not look for an existing row. *)
EnqueueAgain(c) == TRUE
(* enqueue_index_build returns the row of the same idempotency key if any. *)
NotEnqueued(c) == state[c] = "absent"

-------------------------------------------------------------------------------
(* An API request creates a job with its target: an upload its document       *)
(* version, a candidate request its batch.  Its rows refer to the knowledge    *)
(* base, whose row the deletion holds FOR UPDATE from its start.              *)
Submit(j) ==
    /\ j \in Roots
    /\ kb = "live"
    /\ state[j] = "absent"
    /\ state' = [state EXCEPT ![j] = "queued"]
    /\ target' = [target EXCEPT ![j] = "processing"]
    /\ UNCHANGED <<attempts, owner, expired, due, deleteVars, workerVars>>

(* claim_next_job, one transaction: fail every exhausted stale job, then      *)
(* lease one claimable job if there is one.                                  *)
Poll(w) ==
    /\ pc[w] = "idle"
    /\ target' = TerminallyFail(Exhausted, ExhaustedKinds)
    /\ \/ \E j \in Claimable :
             /\ state' = [i \in Jobs |-> IF i = j THEN "running"
                                         ELSE IF i \in Exhausted THEN "failed"
                                         ELSE state[i]]
             /\ owner' = [i \in Jobs |-> IF i = j THEN w
                                         ELSE IF i \in Exhausted THEN NoWorker
                                         ELSE owner[i]]
             /\ attempts' = [attempts EXCEPT ![j] = @ + 1]
             /\ expired' = expired \ (Exhausted \cup {j})
             /\ due' = due \ {j}
             /\ pc' = [pc EXCEPT ![w] = "claimed"]
             /\ cur' = [cur EXCEPT ![w] = j]
             /\ claimNo' = [claimNo EXCEPT ![w] = attempts[j] + 1]
       \/ /\ Claimable = {}
          /\ state' = [i \in Jobs |-> IF i \in Exhausted THEN "failed" ELSE state[i]]
          /\ owner' = [i \in Jobs |-> IF i \in Exhausted THEN NoWorker ELSE owner[i]]
          /\ expired' = expired \ Exhausted
          /\ UNCHANGED <<attempts, due, workerVars>>
    /\ UNCHANGED deleteVars

(* The handler transaction opens: wait for the row lock, re-read the row, and *)
(* raise worker_lease_lost unless the lease is still held.                   *)
Begin(w) ==
    /\ pc[w] = "claimed"
    /\ ~Locked(cur[w])
    /\ pc' = [pc EXCEPT ![w] = IF Owns(w, cur[w]) THEN "handling" ELSE "failing"]
    /\ UNCHANGED <<queueVars, deleteVars, cur, claimNo>>

(* The handler takes the knowledge base row to store its result               *)
(* (_lock_knowledge_base, or the foreign key of a row it inserts).            *)
Store(w) ==
    /\ pc[w] = "handling"
    /\ kb = "live"
    /\ \A v \in Workers : pc[v] # "storing"
    /\ pc' = [pc EXCEPT ![w] = "storing"]
    /\ UNCHANGED <<queueVars, deleteVars, cur, claimNo>>

(* The handler returns, complete_job runs and the transaction commits: the    *)
(* target is done, the follow-up exists (enqueue returns an existing row as   *)
(* it is) and the job is COMPLETED.  The acknowledgement of the commit may be *)
(* lost, and then the worker goes on to record a failure.                     *)
Commit(w) ==
    /\ pc[w] = "storing"
    /\ LET j == cur[w] IN
          /\ Owns(w, j)
          /\ \E c \in IF Follow[j] = {} THEN {j} ELSE Follow[j] :
                LET new == c # j /\ NotEnqueued(c) IN
                /\ state' = [i \in Jobs |-> IF i = j THEN "completed"
                                            ELSE IF i = c /\ new THEN "queued"
                                            ELSE state[i]]
                /\ target' = [i \in Jobs |-> IF i = j THEN "done"
                                             ELSE IF i = c /\ new THEN "processing"
                                             ELSE target[i]]
          /\ owner' = [owner EXCEPT ![j] = NoWorker]
          /\ expired' = expired \ {j}
    /\ \E next \in {"idle", "failing"} : pc' = [pc EXCEPT ![w] = next]
    /\ UNCHANGED <<attempts, due, deleteVars, cur, claimNo>>

(* Variant: the exception is reported but no failure is recorded. *)
RaiseUnrecorded(w) ==
    /\ pc[w] \in Open
    /\ pc' = [pc EXCEPT ![w] = "idle"]
    /\ UNCHANGED <<queueVars, deleteVars, cur, claimNo>>

(* The handler raises, or the database aborts it to break a deadlock, and its *)
(* transaction rolls back: the row is RUNNING for everyone, with its lease.   *)
Raise(w) ==
    /\ pc[w] \in Open
    /\ pc' = [pc EXCEPT ![w] = "failing"]
    /\ UNCHANGED <<queueVars, deleteVars, cur, claimNo>>

(* fail_job in its own transaction; worker_lease_lost is swallowed. *)
FailJob(w) ==
    /\ pc[w] = "failing"
    /\ ~Locked(cur[w])
    /\ LET j == cur[w] IN
          \/ /\ Owns(w, j)
             /\ owner' = [owner EXCEPT ![j] = NoWorker]
             /\ expired' = expired \ {j}
             /\ \/ /\ attempts[j] < MaxAttempts[j]
                   /\ state' = [state EXCEPT ![j] = "retry_wait"]
                   /\ UNCHANGED target
                \/ /\ attempts[j] >= MaxAttempts[j]
                   /\ state' = [state EXCEPT ![j] = "failed"]
                   /\ target' = TerminallyFail({j}, FailJobKinds)
          \/ /\ ~Owns(w, j)
             /\ UNCHANGED <<state, owner, expired, target>>
    /\ pc' = [pc EXCEPT ![w] = "idle"]
    /\ UNCHANGED <<attempts, due, deleteVars, cur, claimNo>>

(* The process dies: its open transaction rolls back, its lease stays.  Bound:*)
(* one incarnation outlives the others, as a supervisor restarts workers.     *)
Crash(w) ==
    /\ pc[w] # "crashed"
    /\ \E v \in Workers \ {w} : pc[v] # "crashed"
    /\ pc' = [pc EXCEPT ![w] = "crashed"]
    /\ UNCHANGED <<queueVars, deleteVars, cur, claimNo>>

(* run_worker_once returns False and the worker sleeps. *)
IdlePoll(w) ==
    /\ pc[w] = "idle"
    /\ Claimable = {}
    /\ Exhausted = {}
    /\ UNCHANGED vars

-------------------------------------------------------------------------------
(* Time passes a lease_expires_at or an available_at. *)
LeaseExpires(j) ==
    /\ state[j] = "running"
    /\ j \notin expired
    /\ expired' = expired \cup {j}
    /\ UNCHANGED <<state, attempts, owner, due, target, deleteVars, workerVars>>

RetryDue(j) ==
    /\ state[j] = "retry_wait"
    /\ j \notin due
    /\ due' = due \cup {j}
    /\ UNCHANGED <<state, attempts, owner, expired, target, deleteVars, workerVars>>

-------------------------------------------------------------------------------
(* delete_knowledge_base locks the knowledge base row                         *)
(* (get_deletable_knowledge_base), which keeps requests and storing handlers   *)
(* off, and then the job rows, waiting for every handler that holds one.      *)
LockForDelete ==
    /\ kb = "live"
    /\ \A w \in Workers : pc[w] # "storing"
    /\ kb' = "locked"
    /\ UNCHANGED <<held, queueVars, workerVars>>

HoldJobs ==
    /\ kb = "locked"
    /\ \A j \in Jobs : ~Locked(j) /\ state[j] # "running"
    /\ kb' = "deleting"
    /\ held' = {j \in Jobs : state[j] # "absent"}
    /\ UNCHANGED <<queueVars, workerVars>>

(* 409: a job is RUNNING. *)
RefuseDelete ==
    /\ kb = "locked"
    /\ \A j \in Jobs : ~Locked(j)
    /\ \E j \in Jobs : state[j] = "running"
    /\ kb' = "live"
    /\ UNCHANGED <<held, queueVars, workerVars>>

(* Variant: the job rows survive the knowledge base, as CANCELLED. *)
CommitDeleteNoCascade ==
    /\ kb = "deleting"
    /\ kb' = "deleted"
    /\ held' = {}
    /\ state' = [j \in Jobs |-> IF j \in held THEN "cancelled" ELSE state[j]]
    /\ UNCHANGED <<attempts, owner, expired, due, target, workerVars>>

(* The DELETE cascades to every job row, all of them held, and commits. *)
CommitDelete ==
    /\ kb = "deleting"
    /\ kb' = "deleted"
    /\ held' = {}
    /\ state' = [j \in Jobs |-> "deleted"]
    /\ owner' = [j \in Jobs |-> NoWorker]
    /\ expired' = {}
    /\ due' = {}
    /\ UNCHANGED <<attempts, target, workerVars>>

(* The request fails, or the database aborts it to break a deadlock: what it  *)
(* did is undone.                                                            *)
AbortDelete ==
    /\ kb \in {"locked", "deleting"}
    /\ kb' = "live"
    /\ held' = {}
    /\ UNCHANGED <<queueVars, workerVars>>

-------------------------------------------------------------------------------
WorkerStep(w) ==
    \/ Poll(w)
    \/ Begin(w)
    \/ Store(w)
    \/ Commit(w)
    \/ Raise(w)
    \/ FailJob(w)

Next ==
    \/ \E j \in Jobs : Submit(j)
    \/ \E w \in Workers : WorkerStep(w)
    \/ \E w \in Workers : Crash(w)
    \/ \E w \in Workers : IdlePoll(w)
    \/ \E j \in Jobs : LeaseExpires(j)
    \/ \E j \in Jobs : RetryDue(j)
    \/ LockForDelete
    \/ HoldJobs
    \/ RefuseDelete
    \/ CommitDelete
    \/ AbortDelete

(* A live worker keeps running its loop, time keeps passing, and a deletion   *)
(* request ends one way or the other.  A handler is given no promise beyond   *)
(* returning or raising.                                                     *)
Fairness ==
    /\ \A w \in Workers : WF_vars(WorkerStep(w))
    /\ \A j \in Jobs : WF_vars(LeaseExpires(j)) /\ WF_vars(RetryDue(j))
    /\ WF_vars(HoldJobs \/ RefuseDelete \/ CommitDelete \/ AbortDelete)

Spec == Init /\ [][Next]_vars
FairSpec == Spec /\ Fairness

-------------------------------------------------------------------------------
(* worker.py's complete_job and fail_job: whatever takes a job out of RUNNING *)
(* at the end of a worker's attempt is the job's latest attempt.  An attempt  *)
(* whose lease was taken over, between two of the worker's transactions,      *)
(* changes nothing.                                                          *)
StaleAttemptNeverWrites ==
    [][\A w \in Workers :
          /\ pc[w] \in Open \cup {"failing"}
          /\ pc'[w] # pc[w]
          /\ state'[cur[w]] # state[cur[w]]
          => claimNo[w] = attempts[cur[w]]]_vars

(* fail_job, complete_job and _fail_exhausted_stale_jobs: a document version  *)
(* or an index never stays open after its job ended, nor ends before it does, *)
(* on the retry path, the terminal path and the crash path alike.  (Candidate *)
(* batches: see CandidateBatchFollowsJob.)                                   *)
TargetsFollowJobs ==
    \A j \in Jobs :
        /\ state[j] = "absent" => target[j] = "absent"
        /\ state[j] \in {"queued", "running", "retry_wait"} => target[j] = "processing"
        /\ state[j] = "completed" => target[j] = "done"
        /\ state[j] = "failed" /\ Kind[j] # "candidate" => target[j] = "failed"

(* fail_job and claim_job_statement: a job is given up only when all of its   *)
(* attempts were started, and it never gets one more, however the attempts    *)
(* ended (raised, crashed, or lost their lease).                             *)
FailedOnlyWhenSpent ==
    \A j \in Jobs :
        /\ attempts[j] <= MaxAttempts[j]
        /\ state[j] = "failed" => attempts[j] = MaxAttempts[j]

(* run_worker_once: its own errors never leave a job to the lease timeout.  A *)
(* RUNNING row belongs to a worker that is still busy with it, or that died.  *)
OnlyCrashesStrandLeases ==
    \A j \in Jobs : state[j] = "running" =>
        \E w \in Workers :
            /\ owner[j] = w
            /\ pc[w] = "crashed" \/ (pc[w] \in Busy /\ cur[w] = j)

(* run_worker_forever with leases and bounded retries: every job that was     *)
(* accepted settles, whatever crashes and failures happen on the way, unless  *)
(* the knowledge base is being deleted over and over.                         *)
EveryJobSettles ==
    <>[](kb \in {"live", "deleted"}) =>
        \A j \in Jobs :
            (state[j] = "queued") ~> (state[j] \in {"completed", "failed", "deleted"})

(* What the user is shown is the job's target while the knowledge base lives. *)
Shown == [j \in Jobs |-> IF kb = "deleted" THEN "deleted" ELSE target[j]]
Promise == INSTANCE IngestionPromise WITH status <- Shown

(* The queue implements the promise: accepted, processing, then exactly one   *)
(* end, with the follow-up accepted in the same instant.                      *)
ImplementsPromise == Promise!Spec

(* test_knowledge_candidate_worker_pipeline.py:192 "terminal provider failure *)
(* marks candidate batch failed": a job that ends FAILED closes its batch.    *)
(* The code does so in fail_job but not when the lease of the last attempt    *)
(* runs out.                                                                 *)
CandidateBatchFollowsJob ==
    \A j \in Jobs : state[j] = "failed" /\ Kind[j] = "candidate" => target[j] = "failed"
===============================================================================
