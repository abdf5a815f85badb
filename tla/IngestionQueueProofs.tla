------------------------- MODULE IngestionQueueProofs -------------------------
(***************************************************************************)
(* Proofs about IngestionQueue, for any set of jobs and workers, any        *)
(* attempt limits and any follow-up relation.  The inductive invariant adds *)
(* to the checked invariants what makes them inductive: an open handler     *)
(* still owns its job (its row lock keeps every other transaction off the   *)
(* row), a worker that still owns its job is on the job's latest attempt,   *)
(* and the job rows go exactly when the knowledge base goes.                 *)
(***************************************************************************)
EXTENDS IngestionQueue, TLAPS

HandlersOwn ==
    \A w \in Workers : pc[w] \in Open => Owns(w, cur[w])

ClaimsAreLatest ==
    \A w \in Workers : pc[w] \in Busy =>
        /\ cur[w] \in Jobs
        /\ state[cur[w]] # "absent"
        /\ Owns(w, cur[w]) => claimNo[w] = attempts[cur[w]]

RowsGoWithKb ==
    /\ kb = "deleted" => \A j \in Jobs : state[j] = "deleted"
    /\ kb # "deleted" => \A j \in Jobs : state[j] # "deleted"

(* A deletion past its job check holds every job row that exists, and so keeps*)
(* every handler out.                                                        *)
DeletionHolds ==
    kb = "deleting" =>
        /\ \A j \in Jobs : state[j] # "absent" => j \in held
        /\ \A w \in Workers : pc[w] \notin Open

(* A row's target is created with it. *)
TargetsExist ==
    \A j \in Jobs : state[j] \notin {"absent", "deleted"} => target[j] # "absent"

IndInv ==
    /\ TypeOK
    /\ HandlersOwn
    /\ ClaimsAreLatest
    /\ RowsGoWithKb
    /\ DeletionHolds
    /\ TargetsFollowJobs
    /\ TargetsExist
    /\ FailedOnlyWhenSpent
    /\ OnlyCrashesStrandLeases

-------------------------------------------------------------------------------
(* The initial state satisfies the inductive invariant. *)
LEMMA InitIndInv == Init => IndInv
  BY ConstantsAssumption
  DEF Init, IndInv, TypeOK, HandlersOwn, ClaimsAreLatest, RowsGoWithKb, DeletionHolds, TargetsFollowJobs, TargetsExist,
      FailedOnlyWhenSpent, OnlyCrashesStrandLeases, JobStates, PcStates, Busy, Open, Owns

(* Who owns a running job is unambiguous: two workers own the same job only   *)
(* if they are the same worker.                                              *)
LEMMA OwnerUnique ==
  ASSUME NEW v \in Workers, NEW w \in Workers, NEW j \in Jobs, Owns(v, j), Owns(w, j)
  PROVE  v = w
  BY DEF Owns

(* Neither a handled job nor a held one can be claimed or exhausted. *)
LEMMA UnlockedOnly ==
  ASSUME NEW j \in Claimable \cup Exhausted
  PROVE  /\ j \in Jobs
         /\ j \notin held
         /\ \A w \in Workers : pc[w] \in Open => cur[w] # j
  BY DEF Claimable, Exhausted, Locked

LEMMA SubmitIndInv ==
  ASSUME IndInv, NEW j \in Jobs, Submit(j)
  PROVE  IndInv'
<1> USE DEF IndInv, TypeOK, Submit, queueVars, deleteVars, workerVars
<1>1. TypeOK'
  BY DEF JobStates
<1>2. HandlersOwn' /\ ClaimsAreLatest'
  BY DEF HandlersOwn, ClaimsAreLatest, Owns, Busy, Open
<1>3. RowsGoWithKb' /\ DeletionHolds'
  BY DEF RowsGoWithKb, DeletionHolds
<1>4. TargetsFollowJobs' /\ TargetsExist'
  BY DEF TargetsFollowJobs, TargetsExist
<1>5. FailedOnlyWhenSpent'
  BY DEF FailedOnlyWhenSpent
<1>6. OnlyCrashesStrandLeases'
  BY DEF OnlyCrashesStrandLeases
<1> QED
  BY <1>1, <1>2, <1>3, <1>4, <1>5, <1>6

(* Failing the exhausted jobs, without claiming, keeps what the queue promises*)
(* of targets: an exhausted job was running, so its target was open.          *)
LEMMA TerminallyFailExhausted ==
  ASSUME IndInv, NEW j \in Jobs
  PROVE  /\ TerminallyFail(Exhausted, ExhaustedKinds)[j] =
               IF j \in Exhausted /\ Kind[j] # "candidate" THEN "failed" ELSE target[j]
         /\ j \in Exhausted => state[j] = "running" /\ attempts[j] = MaxAttempts[j]
<1>1. j \in Exhausted => state[j] = "running" /\ attempts[j] = MaxAttempts[j]
  BY ConstantsAssumption DEF Exhausted, IndInv, TypeOK, FailedOnlyWhenSpent
<1>2. j \in Exhausted => target[j] = "processing"
  BY <1>1 DEF IndInv, TargetsFollowJobs
<1>3. Kind[j] \in Kinds
  BY ConstantsAssumption
<1> QED
  BY <1>1, <1>2, <1>3 DEF TerminallyFail, ExhaustedKinds, Kinds, IndInv, TypeOK

LEMMA TerminallyFailType ==
  ASSUME TypeOK, NEW S, NEW kinds
  PROVE  TerminallyFail(S, kinds) \in [Jobs -> {"absent", "processing", "done", "failed"}]
  BY DEF TerminallyFail, TypeOK

LEMMA PollIndInv ==
  ASSUME IndInv, NEW w \in Workers, Poll(w)
  PROVE  IndInv'
<1> USE DEF IndInv, TypeOK, deleteVars, workerVars
<1>1. ASSUME NEW j \in Claimable,
             state' = [i \in Jobs |-> IF i = j THEN "running"
                                       ELSE IF i \in Exhausted THEN "failed" ELSE state[i]],
             owner' = [i \in Jobs |-> IF i = j THEN w
                                       ELSE IF i \in Exhausted THEN NoWorker ELSE owner[i]],
             attempts' = [attempts EXCEPT ![j] = @ + 1],
             expired' = expired \ (Exhausted \cup {j}),
             due' = due \ {j},
             pc' = [pc EXCEPT ![w] = "claimed"],
             cur' = [cur EXCEPT ![w] = j],
             claimNo' = [claimNo EXCEPT ![w] = attempts[j] + 1]
      PROVE  IndInv'
  <2>1. /\ j \in Jobs
        /\ state[j] \in {"queued", "retry_wait", "running"}
        /\ attempts[j] < MaxAttempts[j]
        /\ j \notin Exhausted
    BY ConstantsAssumption DEF Claimable, Exhausted
  <2>2. pc[w] = "idle" /\ kb' = kb /\ held' = held
    BY DEF Poll
  <2>3. target' = TerminallyFail(Exhausted, ExhaustedKinds)
    BY DEF Poll
  <2>4. TypeOK'
    BY <1>1, <2>1, <2>2, <2>3, TerminallyFailType DEF JobStates, PcStates
  <2>5. HandlersOwn'
    <3> SUFFICES ASSUME NEW v \in Workers, pc'[v] \in Open
                 PROVE  Owns(v, cur[v])' /\ cur'[v] = cur[v]
      BY DEF HandlersOwn
    <3>1. v # w /\ pc[v] \in Open /\ cur'[v] = cur[v]
      BY <1>1 DEF Open
    <3>2. Owns(v, cur[v]) /\ cur[v] \in Jobs
      BY <3>1 DEF HandlersOwn, ClaimsAreLatest, Busy, Open
    <3>3. cur[v] # j /\ cur[v] \notin Exhausted
      BY <3>1, UnlockedOnly
    <3> QED
      BY <1>1, <3>1, <3>2, <3>3 DEF Owns
  <2>6. ClaimsAreLatest'
    <3> SUFFICES ASSUME NEW v \in Workers, pc'[v] \in Busy
                 PROVE  /\ cur'[v] \in Jobs
                        /\ state'[cur'[v]] # "absent"
                        /\ Owns(v, cur[v])' => claimNo'[v] = attempts'[cur'[v]]
      BY DEF ClaimsAreLatest
    <3>1. CASE v = w
      BY <1>1, <2>1, <3>1
    <3>2. CASE v # w
      <4>1. pc[v] \in Busy /\ cur'[v] = cur[v] /\ claimNo'[v] = claimNo[v]
        BY <1>1, <3>2
      <4>2. Owns(v, cur[v])' => cur[v] # j /\ Owns(v, cur[v])
        BY <1>1, <3>2, <4>1 DEF Owns, ClaimsAreLatest
      <4> QED
        BY <1>1, <4>1, <4>2 DEF ClaimsAreLatest
    <3> QED
      BY <3>1, <3>2
  <2>7. RowsGoWithKb' /\ DeletionHolds'
    BY <1>1, <2>1, <2>2, TerminallyFailExhausted DEF RowsGoWithKb, DeletionHolds, Open
  <2>8. TargetsFollowJobs' /\ TargetsExist'
    BY <1>1, <2>1, <2>3, TerminallyFailExhausted DEF TargetsFollowJobs, TargetsExist
  <2>9. FailedOnlyWhenSpent'
    <3> SUFFICES ASSUME NEW i \in Jobs
                 PROVE  /\ attempts'[i] <= MaxAttempts[i]
                        /\ state'[i] = "failed" => attempts'[i] = MaxAttempts[i]
      BY DEF FailedOnlyWhenSpent
    <3>1. attempts[i] \in Nat /\ MaxAttempts[i] \in Nat
      BY ConstantsAssumption
    <3>2. CASE i = j
      BY <1>1, <2>1, <3>1, <3>2
    <3>3. CASE i # j
      BY <1>1, <3>3, TerminallyFailExhausted DEF FailedOnlyWhenSpent
    <3> QED
      BY <3>2, <3>3
  <2>10. OnlyCrashesStrandLeases'
    <3> SUFFICES ASSUME NEW i \in Jobs, state'[i] = "running"
                 PROVE  \E v \in Workers :
                           /\ owner'[i] = v
                           /\ pc'[v] = "crashed" \/ (pc'[v] \in Busy /\ cur'[v] = i)
      BY DEF OnlyCrashesStrandLeases
    <3>1. CASE i = j
      BY <1>1, <2>1, <3>1 DEF Busy, Open
    <3>2. CASE i # j
      <4>1. state[i] = "running" /\ owner'[i] = owner[i]
        BY <1>1, <3>2
      <4>2. PICK v \in Workers :
               /\ owner[i] = v
               /\ pc[v] = "crashed" \/ (pc[v] \in Busy /\ cur[v] = i)
        BY <4>1 DEF OnlyCrashesStrandLeases
      <4>3. v # w
        BY <2>2, <4>2 DEF Busy, Open
      <4> QED
        BY <1>1, <4>1, <4>2, <4>3
    <3> QED
      BY <3>1, <3>2
  <2> QED
    BY <2>4, <2>5, <2>6, <2>7, <2>8, <2>9, <2>10
<1>2. ASSUME state' = [i \in Jobs |-> IF i \in Exhausted THEN "failed" ELSE state[i]],
             owner' = [i \in Jobs |-> IF i \in Exhausted THEN NoWorker ELSE owner[i]],
             expired' = expired \ Exhausted,
             UNCHANGED <<attempts, due, workerVars>>
      PROVE  IndInv'
  <2>1. /\ kb' = kb /\ held' = held
        /\ target' = TerminallyFail(Exhausted, ExhaustedKinds)
    BY DEF Poll
  <2>2. TypeOK'
    BY <1>2, <2>1, TerminallyFailType DEF JobStates
  <2>3. HandlersOwn'
    <3> SUFFICES ASSUME NEW v \in Workers, pc[v] \in Open
                 PROVE  Owns(v, cur[v])'
      BY <1>2 DEF HandlersOwn
    <3>1. Owns(v, cur[v]) /\ cur[v] \in Jobs /\ cur[v] \notin Exhausted
      BY UnlockedOnly DEF HandlersOwn, ClaimsAreLatest, Busy, Open
    <3> QED
      BY <1>2, <3>1 DEF Owns
  <2>4. ClaimsAreLatest'
    BY <1>2 DEF ClaimsAreLatest, Owns
  <2>5. RowsGoWithKb' /\ DeletionHolds'
    BY <1>2, <2>1, TerminallyFailExhausted DEF RowsGoWithKb, DeletionHolds
  <2>6. TargetsFollowJobs' /\ TargetsExist'
    BY <1>2, <2>1, TerminallyFailExhausted DEF TargetsFollowJobs, TargetsExist
  <2>7. FailedOnlyWhenSpent'
    BY <1>2, TerminallyFailExhausted DEF FailedOnlyWhenSpent
  <2>8. OnlyCrashesStrandLeases'
    BY <1>2 DEF OnlyCrashesStrandLeases
  <2> QED
    BY <2>2, <2>3, <2>4, <2>5, <2>6, <2>7, <2>8
<1> QED
  BY <1>1, <1>2 DEF Poll

LEMMA BeginIndInv ==
  ASSUME IndInv, NEW w \in Workers, Begin(w)
  PROVE  IndInv'
<1> USE DEF IndInv, TypeOK, Begin, queueVars, deleteVars
<1>1. TypeOK'
  BY DEF PcStates
<1>2. HandlersOwn'
  BY DEF HandlersOwn, Owns, Open
<1>3. ClaimsAreLatest'
  BY DEF ClaimsAreLatest, Owns, Busy, Open
<1>4. RowsGoWithKb' /\ DeletionHolds' /\ TargetsFollowJobs' /\ TargetsExist' /\ FailedOnlyWhenSpent'
  BY DEF Locked, ClaimsAreLatest, Busy, Open, RowsGoWithKb, DeletionHolds, TargetsFollowJobs, TargetsExist, FailedOnlyWhenSpent
<1>5. OnlyCrashesStrandLeases'
  BY DEF OnlyCrashesStrandLeases, Busy, Open
<1> QED
  BY <1>1, <1>2, <1>3, <1>4, <1>5

LEMMA StoreIndInv ==
  ASSUME IndInv, NEW w \in Workers, Store(w)
  PROVE  IndInv'
  BY DEF IndInv, TypeOK, Store, queueVars, deleteVars, PcStates, HandlersOwn, ClaimsAreLatest,
      Owns, Busy, Open, RowsGoWithKb, DeletionHolds, TargetsFollowJobs, TargetsExist,
      FailedOnlyWhenSpent, OnlyCrashesStrandLeases

LEMMA CommitIndInv ==
  ASSUME IndInv, NEW w \in Workers, Commit(w)
  PROVE  IndInv'
<1> DEFINE j == cur[w]
<1> USE DEF IndInv, TypeOK, deleteVars
<1>1. /\ pc[w] = "storing" /\ j \in Jobs /\ Owns(w, j)
      /\ kb' = kb /\ held' = held /\ cur' = cur /\ claimNo' = claimNo
      /\ attempts' = attempts /\ due' = due /\ expired' = expired \ {j}
      /\ owner' = [owner EXCEPT ![j] = NoWorker]
  BY DEF Commit, ClaimsAreLatest, Busy, Open
<1>2. PICK next \in {"idle", "failing"} : pc' = [pc EXCEPT ![w] = next]
  BY DEF Commit
<1>3. PICK c \in Jobs :
         /\ state' = [i \in Jobs |-> IF i = j THEN "completed"
                        ELSE IF i = c /\ c # j /\ state[c] = "absent" THEN "queued"
                        ELSE state[i]]
         /\ target' = [i \in Jobs |-> IF i = j THEN "done"
                        ELSE IF i = c /\ c # j /\ state[c] = "absent" THEN "processing"
                        ELSE target[i]]
  BY <1>1, ConstantsAssumption DEF Commit, NotEnqueued
<1>4. TypeOK'
  BY <1>1, <1>2, <1>3 DEF JobStates, PcStates
<1>5. HandlersOwn'
  <2> SUFFICES ASSUME NEW v \in Workers, pc'[v] \in Open
               PROVE  Owns(v, cur[v])'
    BY <1>1 DEF HandlersOwn
  <2>1. v # w /\ Owns(v, cur[v]) /\ cur[v] \in Jobs
    BY <1>2 DEF HandlersOwn, ClaimsAreLatest, Busy, Open
  <2>2. cur[v] # j
    BY <1>1, <2>1 DEF Owns
  <2> QED
    BY <1>1, <1>3, <2>1, <2>2 DEF Owns
<1>6. ClaimsAreLatest'
  BY <1>1, <1>2, <1>3 DEF ClaimsAreLatest, Owns, Busy, Open
<1>7. RowsGoWithKb' /\ DeletionHolds'
  BY <1>1, <1>3 DEF RowsGoWithKb, DeletionHolds, Owns, Open
<1>8. TargetsFollowJobs' /\ TargetsExist'
  BY <1>1, <1>3 DEF TargetsFollowJobs, TargetsExist
<1>9. FailedOnlyWhenSpent'
  BY <1>1, <1>3 DEF FailedOnlyWhenSpent
<1>10. OnlyCrashesStrandLeases'
  <2> SUFFICES ASSUME NEW i \in Jobs, state'[i] = "running"
               PROVE  \E v \in Workers :
                         /\ owner'[i] = v
                         /\ pc'[v] = "crashed" \/ (pc'[v] \in Busy /\ cur'[v] = i)
    BY DEF OnlyCrashesStrandLeases
  <2>1. i # j /\ state[i] = "running" /\ owner'[i] = owner[i]
    BY <1>1, <1>3
  <2>2. PICK v \in Workers :
           /\ owner[i] = v
           /\ pc[v] = "crashed" \/ (pc[v] \in Busy /\ cur[v] = i)
    BY <2>1 DEF OnlyCrashesStrandLeases
  <2>3. v # w
    BY <1>1, <2>1, <2>2
  <2> QED
    BY <1>1, <1>2, <2>1, <2>2, <2>3
<1> QED
  BY <1>4, <1>5, <1>6, <1>7, <1>8, <1>9, <1>10

LEMMA RaiseIndInv ==
  ASSUME IndInv, NEW w \in Workers, Raise(w)
  PROVE  IndInv'
  BY DEF IndInv, TypeOK, Raise, queueVars, deleteVars, PcStates, HandlersOwn, ClaimsAreLatest,
      Owns, Busy, Open, RowsGoWithKb, DeletionHolds, TargetsFollowJobs, TargetsExist, FailedOnlyWhenSpent, OnlyCrashesStrandLeases

LEMMA CrashIndInv ==
  ASSUME IndInv, NEW w \in Workers, Crash(w)
  PROVE  IndInv'
  BY DEF IndInv, TypeOK, Crash, queueVars, deleteVars, PcStates, HandlersOwn, ClaimsAreLatest,
      Owns, Busy, Open, RowsGoWithKb, DeletionHolds, TargetsFollowJobs, TargetsExist, FailedOnlyWhenSpent, OnlyCrashesStrandLeases

(* fail_job: the failing worker either no longer owns the job, and then the   *)
(* rows are untouched, or closes its own attempt.                            *)
LEMMA FailJobIndInv ==
  ASSUME IndInv, NEW w \in Workers, FailJob(w)
  PROVE  IndInv'
<1> DEFINE j == cur[w]
<1> USE DEF IndInv, TypeOK, deleteVars
<1>1. /\ pc[w] = "failing" /\ j \in Jobs /\ ~Locked(j)
      /\ kb' = kb /\ held' = held /\ cur' = cur /\ claimNo' = claimNo
      /\ attempts' = attempts /\ due' = due
      /\ pc' = [pc EXCEPT ![w] = "idle"]
  BY DEF FailJob, ClaimsAreLatest, Busy, Open
<1>2. CASE ~Owns(w, j)
  <2>1. state' = state /\ owner' = owner /\ expired' = expired /\ target' = target
    BY <1>2 DEF FailJob
  <2>2. TypeOK' /\ HandlersOwn' /\ ClaimsAreLatest'
    BY <1>1, <2>1 DEF PcStates, HandlersOwn, ClaimsAreLatest, Owns, Busy, Open
  <2>3. RowsGoWithKb' /\ DeletionHolds' /\ TargetsFollowJobs' /\ TargetsExist' /\ FailedOnlyWhenSpent'
    BY <1>1, <2>1 DEF Open, RowsGoWithKb, DeletionHolds, TargetsFollowJobs, TargetsExist, FailedOnlyWhenSpent
  <2>4. OnlyCrashesStrandLeases'
    BY <1>1, <1>2, <2>1 DEF OnlyCrashesStrandLeases, Owns, Busy, Open
  <2> QED
    BY <2>2, <2>3, <2>4
<1>3. CASE Owns(w, j)
  <2>1. PICK s \in {"retry_wait", "failed"} :
           /\ state' = [state EXCEPT ![j] = s]
           /\ owner' = [owner EXCEPT ![j] = NoWorker]
           /\ expired' = expired \ {j}
           /\ s = "retry_wait" => target' = target
           /\ s = "failed" => /\ attempts[j] >= MaxAttempts[j]
                              /\ target' = [target EXCEPT ![j] = "failed"]
    <3>1. TerminallyFail({j}, FailJobKinds) = [target EXCEPT ![j] = "failed"]
      BY <1>1, <1>3, ConstantsAssumption
      DEF TerminallyFail, FailJobKinds, Kinds, Owns, TargetsFollowJobs
    <3> QED
      BY <1>3, <3>1 DEF FailJob
  <2>2. TypeOK'
    BY <1>1, <2>1 DEF JobStates, PcStates
  <2>3. HandlersOwn'
    BY <1>1, <2>1 DEF HandlersOwn, ClaimsAreLatest, Owns, Locked, Busy, Open
  <2>4. ClaimsAreLatest'
    BY <1>1, <2>1 DEF ClaimsAreLatest, Owns, Busy, Open
  <2>5. RowsGoWithKb' /\ DeletionHolds'
    BY <1>1, <1>3, <2>1 DEF RowsGoWithKb, DeletionHolds, Owns, Open
  <2>6. TargetsFollowJobs' /\ TargetsExist'
    BY <1>1, <1>3, <2>1 DEF TargetsFollowJobs, TargetsExist, Owns
  <2>7. FailedOnlyWhenSpent'
    <3>1. attempts[j] \in Nat /\ MaxAttempts[j] \in Nat /\ attempts[j] <= MaxAttempts[j]
      BY <1>1, ConstantsAssumption DEF FailedOnlyWhenSpent
    <3>2. s = "failed" => attempts[j] = MaxAttempts[j]
      BY <2>1, <3>1
    <3> QED
      BY <1>1, <2>1, <3>2 DEF FailedOnlyWhenSpent
  <2>8. OnlyCrashesStrandLeases'
    <3> SUFFICES ASSUME NEW i \in Jobs, state'[i] = "running"
                 PROVE  \E v \in Workers :
                           /\ owner'[i] = v
                           /\ pc'[v] = "crashed" \/ (pc'[v] \in Busy /\ cur'[v] = i)
      BY DEF OnlyCrashesStrandLeases
    <3>1. i # j /\ state[i] = "running" /\ owner'[i] = owner[i]
      BY <1>1, <2>1
    <3>2. PICK v \in Workers :
             /\ owner[i] = v
             /\ pc[v] = "crashed" \/ (pc[v] \in Busy /\ cur[v] = i)
      BY <3>1 DEF OnlyCrashesStrandLeases
    <3>3. v # w
      BY <1>1, <3>1, <3>2
    <3> QED
      BY <1>1, <3>1, <3>2, <3>3
  <2> QED
    BY <2>2, <2>3, <2>4, <2>5, <2>6, <2>7, <2>8
<1> QED
  BY <1>2, <1>3

LEMMA TimeIndInv ==
  ASSUME IndInv, NEW j \in Jobs, LeaseExpires(j) \/ RetryDue(j)
  PROVE  IndInv'
  BY DEF IndInv, TypeOK, LeaseExpires, RetryDue, deleteVars, workerVars, HandlersOwn,
      ClaimsAreLatest, Owns, RowsGoWithKb, DeletionHolds, TargetsFollowJobs, TargetsExist, FailedOnlyWhenSpent,
      OnlyCrashesStrandLeases

LEMMA DeleteIndInv ==
  ASSUME IndInv, LockForDelete \/ HoldJobs \/ RefuseDelete \/ AbortDelete \/ CommitDelete
  PROVE  IndInv'
<1> USE DEF IndInv, TypeOK, workerVars
<1>1. CASE CommitDelete
  BY <1>1 DEF CommitDelete, JobStates, DeletionHolds, HandlersOwn, ClaimsAreLatest, Owns,
      RowsGoWithKb, TargetsFollowJobs, TargetsExist, FailedOnlyWhenSpent, OnlyCrashesStrandLeases
<1>2. CASE LockForDelete \/ HoldJobs \/ RefuseDelete \/ AbortDelete
  <2>1. /\ UNCHANGED <<queueVars, workerVars>>
        /\ kb # "deleted" /\ kb' \in {"live", "locked", "deleting"}
        /\ held' \in SUBSET Jobs
    BY <1>2 DEF LockForDelete, HoldJobs, RefuseDelete, AbortDelete
  <2>2. DeletionHolds'
    <3>1. kb' = "deleting" => HoldJobs
      BY <1>2 DEF LockForDelete, HoldJobs, RefuseDelete, AbortDelete
    <3>2. ASSUME HoldJobs, NEW w \in Workers
          PROVE  pc[w] \notin Open
      BY <3>2 DEF HoldJobs, Locked, ClaimsAreLatest, Busy, Open
    <3> QED
      BY <2>1, <3>1, <3>2 DEF DeletionHolds, HoldJobs, queueVars
  <2>3. TypeOK' /\ HandlersOwn' /\ ClaimsAreLatest' /\ RowsGoWithKb'
    BY <2>1 DEF queueVars, HandlersOwn, ClaimsAreLatest, Owns, RowsGoWithKb
  <2>4. TargetsFollowJobs' /\ TargetsExist' /\ FailedOnlyWhenSpent' /\ OnlyCrashesStrandLeases'
    BY <2>1 DEF queueVars, TargetsFollowJobs, TargetsExist, FailedOnlyWhenSpent,
        OnlyCrashesStrandLeases
  <2> QED
    BY <2>2, <2>3, <2>4
<1> QED
  BY <1>1, <1>2

-------------------------------------------------------------------------------
(* Every step of the queue, and every stuttering step, preserves IndInv. *)
LEMMA NextIndInv == IndInv /\ [Next]_vars => IndInv'
<1> SUFFICES ASSUME IndInv, [Next]_vars
             PROVE  IndInv'
  OBVIOUS
<1>1. CASE UNCHANGED vars
  BY <1>1 DEF vars, queueVars, deleteVars, workerVars, IndInv, TypeOK, HandlersOwn,
      ClaimsAreLatest, Owns, RowsGoWithKb, DeletionHolds, TargetsFollowJobs, TargetsExist, FailedOnlyWhenSpent,
      OnlyCrashesStrandLeases
<1>2. CASE Next
  <2>1. CASE \E j \in Jobs : Submit(j)
    BY <2>1, SubmitIndInv
  <2>2. CASE \E w \in Workers : WorkerStep(w)
    BY <2>2, PollIndInv, BeginIndInv, StoreIndInv, CommitIndInv, RaiseIndInv, FailJobIndInv DEF WorkerStep
  <2>3. CASE \E w \in Workers : Crash(w)
    BY <2>3, CrashIndInv
  <2>4. CASE \E w \in Workers : IdlePoll(w)
    BY <1>1, <2>4 DEF IdlePoll
  <2>5. CASE \E j \in Jobs : LeaseExpires(j) \/ RetryDue(j)
    BY <2>5, TimeIndInv
  <2>6. CASE LockForDelete \/ HoldJobs \/ RefuseDelete \/ CommitDelete \/ AbortDelete
    BY <2>6, DeleteIndInv
  <2> QED
    BY <1>2, <2>1, <2>2, <2>3, <2>4, <2>5, <2>6 DEF Next
<1> QED
  BY <1>1, <1>2

(* The inductive invariant holds in every reachable state. *)
THEOREM IndInvHolds == Spec => []IndInv
  BY InitIndInv, NextIndInv, PTL DEF Spec

(* The variables keep their types. *)
THEOREM TypeCorrect == Spec => []TypeOK
<1>1. IndInv => TypeOK
  BY DEF IndInv
<1> QED
  BY <1>1, IndInvHolds, PTL

(* worker.py, complete_job, fail_job and _fail_exhausted_stale_jobs: document *)
(* versions and indexes end exactly when, and as, their jobs do.              *)
THEOREM TargetsAlwaysFollowJobs == Spec => []TargetsFollowJobs
<1>1. IndInv => TargetsFollowJobs
  BY DEF IndInv
<1> QED
  BY <1>1, IndInvHolds, PTL

(* worker.py, claim_job_statement and fail_job: no job is given up with an     *)
(* attempt left, and none gets one attempt too many.                          *)
THEOREM NeverGivesUpEarly == Spec => []FailedOnlyWhenSpent
<1>1. IndInv => FailedOnlyWhenSpent
  BY DEF IndInv
<1> QED
  BY <1>1, IndInvHolds, PTL

(* worker.py, run_worker_once: only a crash leaves a job to its lease timeout. *)
THEOREM LeasesStrandOnlyByCrash == Spec => []OnlyCrashesStrandLeases
<1>1. IndInv => OnlyCrashesStrandLeases
  BY DEF IndInv
<1> QED
  BY <1>1, IndInvHolds, PTL

-------------------------------------------------------------------------------
(* A worker that writes an end of its attempt still owns the job, and so is on*)
(* the job's latest attempt.                                                 *)
LEMMA StepNeverStale ==
  ASSUME IndInv, [Next]_vars, NEW w \in Workers,
         pc[w] \in Open \cup {"failing"}, pc'[w] # pc[w],
         state'[cur[w]] # state[cur[w]]
  PROVE  claimNo[w] = attempts[cur[w]]
<1> USE DEF IndInv, TypeOK
<1>1. cur[w] \in Jobs /\ (Owns(w, cur[w]) => claimNo[w] = attempts[cur[w]])
  BY DEF ClaimsAreLatest, Busy, Open
<1>2. SUFFICES Owns(w, cur[w])
  BY <1>1
<1>3. \/ Commit(w)
      \/ FailJob(w)
  <2>1. ASSUME NEW v \in Workers, WorkerStep(v)
        PROVE  Commit(w) \/ FailJob(w)
    <3>1. v = w
      BY <2>1 DEF WorkerStep, Poll, Begin, Store, Commit, Raise, FailJob, workerVars
    <3> QED
      BY <2>1, <3>1 DEF WorkerStep, Poll, Begin, Store, Raise, queueVars, Open
  <2> QED
    BY <2>1 DEF Next, vars, Submit, Crash, IdlePoll, LeaseExpires, RetryDue,
        LockForDelete, HoldJobs, RefuseDelete, CommitDelete, AbortDelete, queueVars, workerVars
<1>4. CASE Commit(w)
  BY <1>4 DEF Commit
<1>5. CASE FailJob(w)
  BY <1>5 DEF FailJob
<1> QED
  BY <1>3, <1>4, <1>5

(* worker.py, _owned_running_job: an attempt whose lease was taken over writes*)
(* nothing.                                                                  *)
THEOREM NoStaleWrite == Spec => StaleAttemptNeverWrites
<1>1. IndInv /\ [Next]_vars =>
        [\A w \in Workers :
          /\ pc[w] \in Open \cup {"failing"}
          /\ pc'[w] # pc[w]
          /\ state'[cur[w]] # state[cur[w]]
          => claimNo[w] = attempts[cur[w]]]_vars
  BY StepNeverStale
<1> QED
  BY <1>1, IndInvHolds, PTL DEF Spec, StaleAttemptNeverWrites

-------------------------------------------------------------------------------
(* Refinement: every step of the queue is a step of the promise or shows the   *)
(* user nothing.                                                             *)
LEMMA InitPromised == Init => Promise!Init
  BY DEF Init, Promise!Init, Shown

LEMMA StepPromised == IndInv /\ [Next]_vars => [Promise!Next]_Shown
<1> SUFFICES ASSUME IndInv, [Next]_vars
             PROVE  Promise!Next \/ Shown' = Shown
  OBVIOUS
<1> USE DEF IndInv, TypeOK
<1>1. ASSUME NEW j \in Jobs, Submit(j)
      PROVE  Promise!Next \/ Shown' = Shown
  <2>1. Promise!Accept(j)
    BY <1>1 DEF Submit, deleteVars, Promise!Accept, Shown, TargetsFollowJobs
  <2> QED
    BY <2>1 DEF Promise!Next
<1>2. ASSUME NEW w \in Workers, Poll(w)
      PROVE  Promise!Next \/ Shown' = Shown
  <2> DEFINE S == {j \in Exhausted : Kind[j] # "candidate"}
  <2>1. kb' = kb /\ target' = TerminallyFail(Exhausted, ExhaustedKinds)
    BY <1>2 DEF Poll, deleteVars
  <2>2. S \in SUBSET Jobs
    BY DEF Exhausted
  <2>3. CASE kb = "deleted"
    BY <2>1, <2>3 DEF Shown
  <2>4. CASE kb # "deleted"
    <3>1. \A j \in S : Shown[j] = "processing"
      BY <2>2, <2>4, TerminallyFailExhausted DEF Shown, TargetsFollowJobs
    <3>2. Shown' = [j \in Jobs |-> IF j \in S THEN "failed" ELSE Shown[j]]
      BY <2>1, <2>4, TerminallyFailExhausted DEF Shown
    <3>3. Promise!GiveUp(S)
      BY <3>1, <3>2 DEF Promise!GiveUp
    <3> QED
      BY <2>2, <3>3 DEF Promise!Next
  <2> QED
    BY <2>3, <2>4
<1>3. ASSUME NEW w \in Workers, Commit(w)
      PROVE  Promise!Next \/ Shown' = Shown
  <2> DEFINE j == cur[w]
  <2>1. j \in Jobs /\ Owns(w, j) /\ kb' = kb /\ kb # "deleted"
    BY <1>3 DEF Commit, deleteVars, ClaimsAreLatest, Busy, Open, RowsGoWithKb, Owns
  <2>2. Shown[j] = "processing"
    BY <2>1 DEF Shown, Owns, TargetsFollowJobs
  <2>3. Shown = target /\ Shown' = target'
    <3>1. target' = [i \in Jobs |-> target'[i]]
      BY <1>3 DEF Commit
    <3> QED
      BY <2>1, <3>1 DEF Shown
  <2>4. CASE Follow[j] = {}
    <3>1. target' = [target EXCEPT ![j] = "done"]
      BY <1>3, <2>1, <2>4 DEF Commit
    <3>2. Promise!Succeed(j)
      BY <2>2, <2>3, <2>4, <3>1 DEF Promise!Succeed
    <3> QED
      BY <2>1, <3>2 DEF Promise!Next
  <2>5. CASE Follow[j] # {}
    <3>1. PICK c \in Follow[j] :
             target' = [i \in Jobs |-> IF i = j THEN "done"
                          ELSE IF i = c /\ c # j /\ state[c] = "absent" THEN "processing"
                          ELSE target[i]]
      BY <1>3, <2>1, <2>5 DEF Commit, NotEnqueued
    <3>2. c \in Jobs /\ c # j
      BY <2>1, <3>1, ConstantsAssumption
    <3>3. state[c] = "absent" <=> target[c] = "absent"
      BY <2>1, <3>2 DEF TargetsFollowJobs, TargetsExist, RowsGoWithKb
    <3>4. target' = [target EXCEPT ![j] = "done",
                                   ![c] = IF @ = "absent" THEN "processing" ELSE @]
      BY <2>1, <3>1, <3>2, <3>3
    <3>5. Promise!Succeed(j)
      BY <2>2, <2>3, <3>1, <3>4 DEF Promise!Succeed
    <3> QED
      BY <2>1, <3>5 DEF Promise!Next
  <2> QED
    BY <2>4, <2>5
<1>4. ASSUME NEW w \in Workers, FailJob(w)
      PROVE  Promise!Next \/ Shown' = Shown
  <2> DEFINE j == cur[w]
  <2>1. j \in Jobs /\ kb' = kb
    BY <1>4 DEF FailJob, deleteVars, ClaimsAreLatest, Busy, Open
  <2>2. CASE target' = target
    BY <2>1, <2>2 DEF Shown
  <2>3. CASE target' # target
    <3>1. Owns(w, j) /\ target' = TerminallyFail({j}, FailJobKinds)
      BY <1>4, <2>3 DEF FailJob
    <3>2. kb # "deleted" /\ target[j] = "processing"
      BY <2>1, <3>1 DEF Owns, RowsGoWithKb, DeletionHolds, TargetsFollowJobs
    <3>3. Shown[j] = "processing"
      BY <2>1, <3>2 DEF Shown
    <3>4. Shown' = [i \in Jobs |-> IF i \in {j} THEN "failed" ELSE Shown[i]]
      BY <2>1, <3>1, <3>2, ConstantsAssumption DEF Shown, TerminallyFail, FailJobKinds, Kinds
    <3>5. Promise!GiveUp({j})
      BY <3>3, <3>4 DEF Promise!GiveUp
    <3> QED
      BY <2>1, <3>5 DEF Promise!Next
  <2> QED
    BY <2>2, <2>3
<1>5. ASSUME CommitDelete
      PROVE  Promise!Next \/ Shown' = Shown
  <2>1. Promise!Delete
    BY <1>5 DEF CommitDelete, Promise!Delete, Shown
  <2> QED
    BY <2>1 DEF Promise!Next
<1>6. ASSUME kb' = "deleted" <=> kb = "deleted", target' = target
      PROVE  Shown' = Shown
  BY <1>6 DEF Shown
<1>7. CASE UNCHANGED vars
  BY <1>7, <1>6 DEF vars, queueVars, deleteVars
<1>8. ASSUME NEW w \in Workers, Begin(w) \/ Store(w) \/ Raise(w) \/ Crash(w) \/ IdlePoll(w)
      PROVE  Shown' = Shown
  BY <1>8, <1>6 DEF Begin, Store, Raise, Crash, IdlePoll, vars, queueVars, deleteVars
<1>9. ASSUME NEW j \in Jobs, LeaseExpires(j) \/ RetryDue(j)
      PROVE  Shown' = Shown
  BY <1>9, <1>6 DEF LeaseExpires, RetryDue, deleteVars
<1>10. CASE LockForDelete \/ HoldJobs \/ RefuseDelete \/ AbortDelete
  BY <1>10, <1>6 DEF LockForDelete, HoldJobs, RefuseDelete, AbortDelete, queueVars
<1> QED
  BY <1>1, <1>2, <1>3, <1>4, <1>5, <1>7, <1>8, <1>9, <1>10 DEF Next, WorkerStep

(* The leased queue implements the promise made to the user. *)
THEOREM QueueImplementsPromise == Spec => ImplementsPromise
  BY InitPromised, StepPromised, IndInvHolds, PTL DEF Spec, ImplementsPromise, Promise!Spec

===============================================================================
