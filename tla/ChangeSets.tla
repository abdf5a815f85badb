----------------------------- MODULE ChangeSets -----------------------------
(***************************************************************************)
(* What becomes of the change set of a scan: the projection job that turns *)
(* its files into notes, and one semantic job for each of its files.       *)
(* knowledge/worker.py, with project and mark_indexed of vault/sync.py.    *)
(*                                                                         *)
(* Jobs of one set run in any order and at the same time, with scans that  *)
(* record newer change sets of the same files.  A job's effects and its    *)
(* end commit together; a job that fails is tried again until its attempts *)
(* are spent, and then takes its change set with it.  (How jobs are leased *)
(* is module IngestionQueue, what an index build does is IndexBuild.)      *)
(***************************************************************************)
EXTENDS Naturals, FiniteSets

CONSTANTS
    CsFiles,       \* markdown files of one knowledge base
    CsContents,    \* contents, one hash each
    MaxSets,       \* change sets
    MaxCsEdits,    \* changes on disk
    MaxTries       \* max_attempts of a job

ASSUME ChangeSetAssumption ==
    /\ MaxSets \in Nat /\ MaxCsEdits \in Nat /\ MaxTries \in Nat \ {0}
    /\ {"gone", "none"} \cap CsContents = {}

VARIABLES
    csDisk,      \* file -> content on disk, or "gone"
    csRow,       \* file -> content of its row, "gone" for a tombstone, and
                 \*   the change set that wrote it last
    csEntry,     \* change set -> file -> content after it, "none": no entry
    csState,     \* change set -> its state
    projectJob,  \* change set -> its projection job and the semantic jobs
                 \*   it has created, by file
    planJob,     \* change set -> file -> its semantic job
    csEdits

csVars == <<csDisk, csRow, csEntry, csState, projectJob, planJob, csEdits>>

Sets == 1..MaxSets
CsValue == CsContents \cup {"gone"}
FileRow == [content : CsValue, set : 0..MaxSets]
NeverSeen == [content |-> "gone", set |-> 0]
JobState == {"none", "queued", "completed", "failed"}
ProjectJob == [state : JobState, tries : 0..MaxTries, plans : SUBSET CsFiles]
\* `saw' is the row of its file as a running semantic job has loaded it.
PlanJob == [state : JobState \cup {"running"}, tries : 0..MaxTries, saw : FileRow]

CsInit ==
    /\ csDisk = [f \in CsFiles |-> "gone"]
    /\ csRow = [f \in CsFiles |-> NeverSeen]
    /\ csEntry = [s \in Sets |-> [f \in CsFiles |-> "none"]]
    /\ csState = [s \in Sets |-> "absent"]
    /\ projectJob = [s \in Sets |->
                       [state |-> "none", tries |-> 0, plans |-> {}]]
    /\ planJob = [s \in Sets |-> [f \in CsFiles |->
                    [state |-> "none", tries |-> 0, saw |-> NeverSeen]]]
    /\ csEdits = 0

CsWrite(f) ==
    /\ csEdits < MaxCsEdits
    /\ csEdits' = csEdits + 1
    /\ \E c \in CsValue \ {csDisk[f]} : csDisk' = [csDisk EXCEPT ![f] = c]
    /\ UNCHANGED <<csRow, csEntry, csState, projectJob, planJob>>

\* make_vault_scan_handler: rows, change set and projection job in one commit.
\* (How a scan overlaps with edits is module VaultFiles.)
CsScan(s) ==
    LET changed == {f \in CsFiles : csDisk[f] # csRow[f].content} IN
    /\ csState[s] = "absent"
    /\ \A r \in 1..(s - 1) : csState[r] # "absent"
    /\ changed # {}
    /\ csState' = [csState EXCEPT ![s] = "committed"]
    /\ csEntry' = [csEntry EXCEPT ![s] =
                     [f \in CsFiles |->
                        IF f \in changed THEN csDisk[f] ELSE "none"]]
    /\ csRow' = [f \in CsFiles |->
                   IF f \in changed THEN [content |-> csDisk[f], set |-> s]
                   ELSE csRow[f]]
    /\ projectJob' = [projectJob EXCEPT ![s].state = "queued"]
    /\ UNCHANGED <<csDisk, planJob, csEdits>>

-----------------------------------------------------------------------------
(* Projection                                                              *)

\* _semantic_file_matches_change_entry: r, the row of f, is as set s left it.
Matches(s, f, r) ==
    /\ r.set = s /\ r.content # "gone"
    /\ csEntry[s][f] = r.content

Eligible(s) == {f \in CsFiles : Matches(s, f, csRow[f])}

\* project: every file of the set that has content is read, and it is what its
\* row says; a set that was projected before is left alone.
Projectable(s) ==
    \/ csState[s] \in {"indexing", "indexed"}
    \/ \A f \in CsFiles :
         csEntry[s][f] \in {"none", "gone"} \/ csRow[f].content = "gone"
         \/ csDisk[f] = csRow[f].content

\* The semantic jobs are created with the list of them all, or the set has no
\* file left that is still as it was, and counts as indexed.
ProjectSet(s) ==
    /\ projectJob[s].state = "queued"
    /\ Projectable(s)
    /\ projectJob' = [projectJob EXCEPT ![s] =
                        [state |-> "completed", tries |-> @.tries,
                         plans |-> Eligible(s)]]
    /\ planJob' = [planJob EXCEPT ![s] =
                     [f \in CsFiles |->
                        IF f \in Eligible(s) THEN [@[f] EXCEPT !.state = "queued"]
                        ELSE @[f]]]
    /\ csState' = [csState EXCEPT ![s] =
                     IF Eligible(s) = {} THEN "indexed" ELSE "indexing"]
    /\ UNCHANGED <<csDisk, csRow, csEntry, csEdits>>

\* Variant: the last attempt is followed by one more.
AfterFailureOnceMore(tries) == IF tries < MaxTries THEN "queued" ELSE "failed"

\* _record_durable_failure: a job that has no attempts left fails its set.
AfterFailure(tries) == IF tries + 1 < MaxTries THEN "queued" ELSE "failed"
FailedSet(s, tries) ==
    [csState EXCEPT ![s] = IF tries + 1 < MaxTries THEN @ ELSE "failed"]

\* The files changed on disk, there is no parsed document to build on, or
\* anything else.
ProjectFails(s) ==
    LET j == projectJob[s] IN
    /\ j.state = "queued"
    /\ projectJob' = [projectJob EXCEPT ![s] =
                        [state |-> AfterFailure(j.tries), tries |-> j.tries + 1,
                         plans |-> j.plans]]
    /\ csState' = FailedSet(s, j.tries)
    /\ UNCHANGED <<csDisk, csRow, csEntry, planJob, csEdits>>

-----------------------------------------------------------------------------
(* Semantic jobs                                                           *)

\* What a semantic job checks before it calls the planner: the set has not
\* failed, and row and file are what the set's entry says.
Plannable(s, f) ==
    /\ csState[s] \in {"committed", "indexing", "indexed"}
    /\ csRow[f].content # "gone" /\ csEntry[s][f] = csRow[f].content
    /\ csDisk[f] = csRow[f].content

PlanBegins(s, f) ==
    /\ planJob[s][f].state = "queued"
    /\ Plannable(s, f)
    /\ planJob' = [planJob EXCEPT ![s][f] =
                     [state |-> "running", tries |-> @.tries, saw |-> csRow[f]]]
    /\ UNCHANGED <<csDisk, csRow, csEntry, csState, projectJob, csEdits>>

\* The planner or the index build fails, a check refuses, a worker is lost.
PlanFails(s, f) ==
    LET j == planJob[s][f] IN
    /\ j.state = "running" \/ (j.state = "queued" /\ ~Plannable(s, f))
    /\ planJob' = [planJob EXCEPT ![s][f] =
                     [state |-> AfterFailure(j.tries), tries |-> j.tries + 1,
                      saw |-> NeverSeen]]
    /\ csState' = FailedSet(s, j.tries)
    /\ UNCHANGED <<csDisk, csRow, csEntry, projectJob, csEdits>>

\* _validated_semantic_jobs under the lock on the set: its files are those the
\* jobs were made for.  The job's own file is still the object it has loaded at
\* first; the others are read now.
StillExpected(s, f) ==
    projectJob[s].plans =
      {g \in CsFiles :
         Matches(s, g, IF g = f THEN planJob[s][f].saw ELSE csRow[g])}

\* Variant: the job that ends counts only once its own row says so.
LastOfSetLate(s, f) ==
    \A g \in projectJob[s].plans : planJob[s][g].state = "completed"

\* All the others have completed: their ends committed before this one got the
\* lock on the set.
LastOfSet(s, f) ==
    \A g \in projectJob[s].plans \ {f} : planJob[s][g].state = "completed"

\* _finalize_semantic_change_set, and the job completes in the same commit.
PlanEnds(s, f) ==
    /\ planJob[s][f].state = "running"
    /\ csState[s] # "failed" => StillExpected(s, f)
    /\ csState' = [csState EXCEPT ![s] =
         CASE @ = "failed" -> "failed"
           [] @ # "failed" /\ (\E g \in projectJob[s].plans :
                                 planJob[s][g].state = "failed") -> "failed"
           [] OTHER -> IF LastOfSet(s, f) THEN "indexed" ELSE "indexing"]
    /\ planJob' = [planJob EXCEPT ![s][f] =
                     [state |-> "completed", tries |-> @.tries, saw |-> NeverSeen]]
    /\ UNCHANGED <<csDisk, csRow, csEntry, projectJob, csEdits>>

-----------------------------------------------------------------------------
CsJobStep ==
    \E s \in Sets :
        \/ ProjectSet(s) \/ ProjectFails(s)
        \/ \E f \in CsFiles :
            PlanBegins(s, f) \/ PlanFails(s, f) \/ PlanEnds(s, f)

CsNext ==
    \/ \E f \in CsFiles : CsWrite(f)
    \/ \E s \in Sets : CsScan(s)
    \/ CsJobStep

\* While there is a job to do, workers do some job; each job has a last attempt.
CsFairness == WF_csVars(CsJobStep)

CsSpec == CsInit /\ [][CsNext]_csVars /\ CsFairness

-----------------------------------------------------------------------------
(* Properties                                                              *)

CsTypeOK ==
    /\ csDisk \in [CsFiles -> CsValue]
    /\ csRow \in [CsFiles -> FileRow]
    /\ csEntry \in [Sets -> [CsFiles -> CsValue \cup {"none"}]]
    /\ csState \in [Sets -> {"absent", "committed", "indexing", "indexed", "failed"}]
    /\ projectJob \in [Sets -> ProjectJob]
    /\ planJob \in [Sets -> [CsFiles -> PlanJob]]
    /\ csEdits \in 0..MaxCsEdits

\* Indexed with every semantic job of it completed, or failed.
Settled(s) ==
    \/ csState[s] = "failed"
    \/ /\ csState[s] = "indexed"
       /\ \A f \in projectJob[s].plans : planJob[s][f].state = "completed"

\* Every change set of a scan ends up failed, or indexed with all its jobs
\* completed, for good: whatever order its jobs end in, however they fail and
\* whatever later scans do to its files (worker.py:1601).
ChangeSetsSettle ==
    <>[](\A s \in Sets : csState[s] # "absent" => Settled(s))
=============================================================================
