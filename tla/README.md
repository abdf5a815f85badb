# TLA+ models of the intelligent tutoring agent

Models, model-checking configurations and machine-checked proofs for the parts
of this repository whose correctness depends on the order of events: the
ingestion queue, the retrieval indexes, objects and their deletion, the event
stream of agent sessions, the wallet and its payments, the Vault with its
scans, change sets and migration, the question bank, candidate review,
classrooms and OCR calls. The modules are translated from the source, and `PROJECT.json` maps every definition to the lines it stands for.

    tlasany M.tla                            parse a module
    tlc -workers 2 -config X.cfg M.tla       model-check (pairs: see "Runs")
    tlapm MProofs.tla                        check the proofs of a module

Contents: 1 the system, 2 the modules and how they relate to the code, 3 the
runs and what they show, 4 the proofs, 5 where code and documents disagree,
6 what is not modelled, 7 the plan.

## 1. The system

The program is a tutoring web application. A FastAPI server and its worker
processes (`src/apps/api/src/tutor_api`, about 26,500 lines of Python) keep all
durable state in PostgreSQL (READ COMMITTED; SQLite in tests) and an object
store. A TypeScript agent runtime (`src/apps/agent-runtime/src`, about 17,400
lines of which 14,000 are a vendored execution layer) runs the turns of agent
sessions and reports to the API over HTTP. A Next.js client (`src/apps/web`)
talks to the API only. `src/packages/agent-protocol` holds shared types.

| Component | State | Operations | Talks to | Hard behaviour | What makes it correct |
|---|---|---|---|---|---|
| Ingestion queue (`knowledge/worker.py`, `worker_main.py`) | `ingestion_jobs` rows: state, attempt, lease owner and expiry, `available_at` | submit, claim, sweep of exhausted rows, handler transaction, complete, fail, crash | all ingestion handlers through row locks; `delete_knowledge_base` | leases that expire under a working handler, lost commit acknowledgements, crashes on the last attempt, deadlock with deletion | a stale attempt writes nothing; job and target end together; every accepted job settles |
| Index versions (`knowledge/indexing.py`, `semantic_worker.py`, `service.py`) | `index_versions`, their signature and state; document versions | enqueue a build, build, retarget after an embedding change, activate, semantic builds of vault edits | queue (as handlers), retrieval (reads the ACTIVE index) | builds that finish out of order, a document set read earlier than it is used | one ACTIVE index, replaced by an older one only by a rollback of the migration; a searchable document stays searchable |
| Objects and deletion outbox (`knowledge/service.py`, `object_deletion.py`, `storage.py`) | storage objects, rows that point at them, outbox rows with leases | upload, parse, delete a knowledge base, claim and delete an outbox item | object storage; the same row locks as the queue | no common transaction of storage and database; cleaners that crash or lose their lease | rows have their objects; deletion forgets none; COMPLETED means gone |
| Agent sessions and event log (`agent/router.py`, `service.py`, `event_store.py`) | `agent_sessions` (state, last sequence), `agent_turns`, `agent_session_events`, subscriber queues in memory | post a turn, stop, archive, callback for events, list, websocket; deleted with the knowledge base | runtime over HTTP both ways; browsers | repeated, late and lost calls; restart of either side; gap between replay and subscription; full queues | contiguous log, whole turns, browser sees a prefix |
| Agent runtime (`agent-runtime/src/runtime`, `server.ts`, `providers/faro`) | active turn, request cache in memory; session file with the last sequence | start, stop, publish until acknowledged | API callback; LLM | crash between the acknowledged event and the saved number; a file that cannot be written | turns end; numbers are not reused |
| Web client (`web/src/lib/agent-*.ts`, `agent-panel.tsx`) | shown events, cursor, connection | select, poll or socket, reduce, recover a gap | API | reconnection at an old cursor, repeated broadcasts | shows a prefix, catches up |
| Candidate generation and review (`knowledge/candidates.py`, `candidate_service.py`) | candidate batches with their notes and decisions | generate (a job), merge, confirm, publish | queue; notes | two reviewers of one batch, batches with a common title, answers that name parents in several ways | a batch publishes the tree its review accepted, once |
| Vault file operations (`vault/service.py`, `storage.py`) | files on disk and their rows | create, update with an expected hash, move, delete | file system and database in two orders | disk and rows part on a rollback; lost update | rows and disk agree when users stop |
| Vault synchronisation (`vault/sync.py`, `watcher.py`, `worker.py`) | `vault_files`, scan runs, change sets | request a scan, scan, project, fan out to semantic jobs, finalise | file system, queue | deduplication against a running scan; files that change while they are read, and rows between their read and the commit; finalisation in any order | every change set ends; every change is found |
| Vault migration (`vault/migration.py`) | route row; manifest and state file | inventory, copy, verify, shadow, cutover, rollback | file system, database, publications | commands cut off between files, state file and commit | no published note is lost at the cutover |
| Wallet (`billing/service.py`, `router.py`) | ledger, recharge records, orders, reservations | recharge, confirm, reverse, reserve, settle, release | payment gateways | repeated notifications, lock order, concurrent reservations | never overdrawn; credited once; ended rows stay |
| Payment gateways (`billing/gateways.py`) | platform certificates, time of the last download | open an order, verify a notification | gateways over HTTP | replaced certificates, repeated and overlapping notifications, restarts | what is acknowledged is recorded; payments arrive |
| Question bank (`question_bank`) | questions, attempts, assessments, generation jobs | submit, replay, grade, list in pages | queue, LLM | overlapping submissions whose `created_at` is their start; pages between submissions | one chain of assessments, one answer per key, pages show every row |
| Classrooms (`classrooms/service.py`, `knowledge/access.py`) | memberships, invites with a use limit | join, invite, change or remove a member, write under a role | knowledge base requests | the last use, a demotion during a write | invites and roles hold until the commit |
| OCR (`knowledge/ocr.py`) | none in the database; processes, threads, pipes, deadlines of a call | render, recognise, stop, collect | tesseract and renderer processes | processes that neither read, write nor end; grandchildren that keep pipes open | calls end, but for a renderer that stalls within an image; texts are whole |
| Identity (`identity`) | sessions, login failures | log in, log out | - | - | functional |
| Retrieval, graph, markdown; parsers, embeddings, LLM clients; providers catalogue; legacy tutor | none of their own | read or transform | - | - | functional |

The hazards of the code, each at its line with the properties that would catch
it, are the `hazards` of `PROJECT.json`. The hardest ones come from four
sources: transactions that are split (claim, handler, failure report), two
stores without a common commit, calls between processes that are repeated or
lost, and data read before a lock and used after it.

## 2. The modules

| Module | Models | Composition |
|---|---|---|
| `IngestionPromise` | what a user is promised about ingestion work: accepted, processing, done or failed, exactly once | abstract specification |
| `IngestionQueue` | the leased queue with workers and deletion | implements `IngestionPromise` (`Promise == INSTANCE ... WITH status <- Shown`) |
| `MCIngestionQueue` | kinds, follow-ups and attempt limits for small instances | EXTENDS `IngestionQueue` |
| `IndexBuild` | the content of the build and semantic handlers | abstracts the queue to "queued until completed or finally failed" |
| `ObjectLifecycle` | storage objects, rows and outbox | abstracts the queue's attempts to "may be tried again or be final" |
| `AgentEvents` | runtime, API and browser of one agent session | composes the three processes |
| `Wallet` | billing transactions with their row locks | takes a notification as the call of `confirm_recharge_payment` it leads to |
| `PaymentCallbacks` | orders at a gateway, certificates, notifications | takes `confirm_recharge_payment`, the subject of `Wallet`, as one step |
| `VaultFiles` | files on disk, their rows, API calls, other programs, scans | - |
| `ChangeSets` | projection and semantic jobs of the change sets of scans | takes the scan of `VaultFiles` as one step, and abstracts leases (`IngestionQueue`) and index content (`IndexBuild`) |
| `VaultMigration` | the migration's commands against publications, scans and edits | takes the scan as one step per file |
| `QuestionBank` | submissions, assessments, generation, pages | - |
| `CandidateReview` | candidate batches from the model's answers to published notes | abstracts the job to its attempts (`IngestionQueue`) |
| `Classrooms` | members, invites, writers | - |
| `OcrCalls` | the OCR of a document with its processes and threads | - |
| `MCTutorRows`, `MCTutorServices` | small instances of `ObjectLifecycle`, `Wallet`, `VaultMigration`, `QuestionBank`, `CandidateReview`, `Classrooms`; and of `PaymentCallbacks`, `VaultFiles`, `ChangeSets`, `OcrCalls` | EXTENDS them; `part` chooses the one that runs, alone |
| `IngestionQueueProofs`, `IndexBuildProofs`, `ObjectLifecycleProofs`, `AgentEventsProofs` | theorems about the module they are named after | EXTENDS it, with TLAPS |
| `BillingProofs`, `VaultProofs`, `LearningProofs`, `OcrProofs` | theorems about the services: money; the Vault; candidates, questions, classrooms; OCR | EXTENDS their modules, with TLAPS |

Some of these models are about the same rows. `VaultFiles`, `ChangeSets` and
`VaultMigration` share `vault_files`; `Wallet` and `PaymentCallbacks` share
orders and what they credit; `IndexBuild` and `VaultMigration` share the
migration's rollback; `QuestionBank` and `VaultFiles` read whether there is an
index. Each of them has the others' steps only as far as its table row says, and
no run and no theorem puts two of them side by side: apart from
`IngestionPromise` no module composes another.

### IngestionQueue

State: the columns of the job rows (`state`, `attempts`, `owner`), the two
comparisons with the clock (`expired`, `due`), the row each job works for
(`target`), the knowledge base row and the job rows a deletion has locked, and
for every worker where it is in `run_worker_once` (`pc`, `cur`, `claimNo`).
The steps of a worker are the code's transactions and the gaps between them:
`Poll` (sweep of exhausted rows and claim, one transaction), `Begin` and
`Store` (handler transaction: job row, then knowledge base row, locked),
`Commit`, `Raise` (rollback), `FailJob` (third transaction), `Crash`,
`LeaseExpires`, `RetryDue`. The deletion is `LockForDelete`, `HoldJobs`,
`RefuseDelete`, `CommitDelete`; `AbortDelete` and `Raise` are also what a
deadlock between the two lock orders does, as the database aborts one side.
`Commit` with a lost acknowledgement goes on to `FailJob`, as the code does.

Abstracted: time (any lease may expire, any delay may pass, at any moment after
it started), the order of claims (any runnable job), and the size of a sweep
(100 rows at a time in the code; the rest follows with the next poll). Content
that is uploaded again and requests repeated with the same key create no job
and are no step. A member of `Workers` is one process incarnation, because
`worker_main.py` puts a fresh uuid into its id: a restart is another member.

### IndexBuild

State: document versions, the sequence of index rows (place = version number)
with signature, state and job, the embedding contract of the workers, vault
contents, queued semantic jobs with the documents they recorded at the scan,
`last_index_version_id`, and the rollback of the Vault migration that is under
way. Every handler locks the knowledge base row before it reads, so each is one
action: `Upload`, `ParseSucceeds` (and enqueueing),
`ParseFails`, `RunBuild`, `RetargetBuild` (`EmbeddingContractChanged`),
`BuildFails`, `ChangeContract`, `ScanEdit`, `RunSemantic`, `SemanticFails`.
`Prepare`, `Enqueue`, `Activate` are the helpers of `indexing.py` and
`service.py` with the same roles. Facts that look odd and are the code's: a
semantic build has a null plan id in its signature, so content that returns
finds the old row; a contract that returns (A, B, A) finds the COMPLETED job
and starts none; a FAILED content uploaded again is answered with its FAILED
job.

The rollback (`migration.py:1031-1079`) takes no such lock. `Inventory` records
the ACTIVE index, `RollbackReads` loads it (`session.get`), `RollbackCommits`
retires every other ACTIVE index and makes this one ACTIVE, or retires the
searched one with no successor when the inventory saw none;
`RollbackAborts` is a failure or the refusal of the table's unique index. It may
also commit in the middle of an activation, after that has read and before it
writes: `Found` are the rows an activation then finds. The object-relational
mapper writes no attribute that the session has read with the same value
(`Written`, `sawActive`), so that a rollback to an index it has read as ACTIVE,
with an activation committed in between, leaves no index ACTIVE at all.

### ObjectLifecycle

State: the objects in storage, the version of every upload with the open
transaction that works on it, the deletion, the outbox rows with their leases,
and each cleaner's place in `run_object_deletion_once`. Actions follow the
boundaries between storage and database: `BeginUpload`, `PutSource`,
`CommitUpload` or `AbortUpload`; `ClaimParse`, `BeginParse`, `PutPreview`,
`CommitParse` or `FailParse`; `LockForDelete`, `HoldJobs`, `CollectKeys`,
`CommitDelete`; `Claim`, `DeleteItem` or `DeleteFails`, `Record` or
`LeaseLost`, `Crash`. The vault directory is one more outbox key whose contents
are not tracked. Keys hold a fresh uuid, so the code's exclusion of objects
shared with another knowledge base (`service.py:172-197`) has no case to meet.
A database error in the maintenance transaction ends the process and is
`Crash`.

### AgentEvents

One session. `log` holds the event rows in insertion order and `last` the
session's `last_event_sequence`; `run` is the execution in the runtime's
memory with the event it is about to publish; `registry` is the session's number
in memory and `saved` that in the session file; `posted` are the events posted
so far, which stay deliverable for ever, so that duplication, delay and loss
need no channel of their own;
`link`, `inbox`, `subscribed`, `cursor` and `view` are the browser's
connection.

| Code | Actions |
|---|---|
| `post_turn`, `stop`, `archive_session` | `PostTurn`, `TurnAccepted`, `TurnRefused`; `Stop`, `StopCommits`; `Archive` |
| `delete_knowledge_base` with its cascade to sessions | `DeleteKnowledgeBase` |
| `server.ts` `idempotentMutation`, `RuntimeService.startTurn` | `TakeStart`, `StartFails`, `Post`, `ProviderFails`, `AbortedRunEnds`, `Acknowledged` |
| process restart, `SessionRegistry.open` | `Crash` |
| `runtime_event_callback`, `persist_runtime_event`, `_derive_state` | `Store`, `DeliverAgain` |
| `connectAgentEvents`, `agent-panel.tsx`, `websocket_events` | `Select`, `Leave`, `Poll`, `Connect`, `Subscribe`, `Receive`, `Disconnect`, `Recover` |

Choices a reader should know:

- `turn_started` stands for itself and the `user_message` that follows at once.
- A turn sent again with its key carries a new capability, so the runtime's
  cache answers `idempotency_conflict` while it remembers the key; after a
  restart the turn runs a second time.
- `ReadError` of a connection broken by a crash is not a `RuntimeErrorBase`,
  so `post_turn` fails without touching the session; a refusal or a timeout sets
  it FAILED.
- Acknowledgement and saved cursor are one step: a crash between them leaves the
  same state as a crash before the acknowledgement arrives. The write of the file
  may fail (`SaveFails`): the number in memory has moved on, `publishSource`
  throws, and the turn is refused, reported as failed, or just ends. Writes
  are chained (`writeChain`, `SessionRegistry.ts:72`), so after one that failed
  all later ones of the process fail, and a restart finds an old file (`behind`).
- A deleted session refuses every event (`agent_session_not_found`,
  `event_store.py:134`): `Insertable` and `DeliverAgain` need the row. Its turns
  and the log stay in the model as they were, and nothing reads them. A call that
  is under way when the session goes finds no row to set (`SetState`).
- The callback is one step, because its body has no await and the API is one
  process; the websocket handler awaits between its replay and its
  subscription, which are `Connect` and `Subscribe`.
- An aborted turn publishes nothing more and its `AgentTurn` row stays
  `running`, as in the code.
- `resume` posts no body and is always answered 400; it is no step.

### Wallet

State: for each user the two sums the code computes with `SUM()` (`posted`,
the ledger, and `reserved`, the active reservations), the recharge records by
reference, reservations by request id, orders, and for each client the request
it is working on (`call`), the row locks it holds (`holds`), those it has still
to take (`plan`) and the available balance it has read (`funds`). `Ask*` are
the requests of `router.py` and of the agent; `LockRow` takes the next
`SELECT ... FOR UPDATE`; which rows follow depends on what the locked one says
(`LocksAfter`). A transaction that decides on a balance reads it (`ReadFunds`)
when it has its locks and writes at its commit (`Commit*`), a step later: what
keeps the two apart from other writers is only the wallet's lock. `Rollback`
ends a transaction at any point; it is also what a deadlock's victim does.
`CommitMismatch` is the order whose notification carries another amount.
`Reconfigure` restarts the API with or without the mock cashier. `reserve`,
`settle` and `release` have no HTTP route on purpose (`service.py:3-8`).

### PaymentCallbacks

A call is one request to the API and its place in it: look the certificate
up, refresh (the time is noted before the download), download, look again,
verified, recorded. `PayNotify` is enabled as long as the notification is not
acknowledged, so the gateway repeats it, also while an earlier one is under
way. `PayRefuse` is every answer but 200: failed download, unknown serial, bad
signature, failed transaction. `PayDuplicate` is the reference an administrator
has entered by hand (`PayByHand`): no handler takes its exception.

### VaultFiles and ChangeSets

`VaultFiles`: an API call is three steps, the read of row and file without a
lock (`Begin*`), the change of the disk (`ChangeDisk`), the commit
(`CommitVaultCall`), and may roll back before its commit. `FlushTombstone`
is delete's flush, after which its row is locked. A scan is requested (and
deduplicated, or refused while the knowledge base has no index or is deleted:
`base`, changed by `IndexChanges` and `DeleteVault`), begins with the listing,
reads one file after another, then reads the rows without a lock (`ReadRows`),
and commits what it found different (`EndScan`: removals, additions, moves by
identity or content, tombstones that come back). Calls may commit in between: the
scan's flush writes only the columns it has set to another value than it read
(`Column`), over what is there now, and a path that has been taken meanwhile, or
two rows on one path, fail it (`FailScan`). From its first flush to its commit
the rows it changed are locked and it reads nothing more, so that is one step.
The two checks of a requested scan run in one transaction and are one step.

`ChangeSets`: `CsScan` records a set; `ProjectSet` marks it indexing and queues
a semantic job for each of its files that still is as recorded; `PlanBegins`
and `PlanEnds` are the two reads of `make_semantic_plan_handler`, with scans
in between; the last of a set finalises it (`LastOfSet`); a job whose attempts
are spent takes the set with it. As in the code, the row of the handler's own
file is the one it read first when it finalises.

### VaultMigration

One operator runs one command at a time. What a command writes to files, and
for `copy`, `activate_shadow` and `cutover` to the state file, happens at once;
the database follows when the command is over (`Commit*`), or not
(`CommandCutOff`). A rollback commits first and publishes its state file then.
Publications mirror a note into the Vault while the route says so, at its own
path or, if a row has that, at a new one; their transactions are open for a
while, so that a command may run in between. `late` are the notes published
without a mirror after the check of a cutover, the gap section 5 describes.

### QuestionBank

A submission begins (its `created_at`), waits for the advisory lock of learner
and version, is replayed or graded, and commits. `Newest` is by `created_at`
as the code orders, and not by commit. The paged list of review items is read a
page at a time with the code's cursor, between other steps. `QueueGeneration`
is a generation request between its check and its insert. A submission's
number stands for the ids of its rows, days for time.

### CandidateReview

`MergedParents` and its helpers are `merge_knowledge_candidates`: references
with or without their prefix, aliases, unknown parents. `GenerateBatch` is an
attempt of the job, with `Ordered` the check that refuses a tree in a circle.
`Decide` takes the locks of knowledge base and batch, `Publish` writes and
commits.

### Classrooms

One action per statement that waits or decides: an invite's lock, the insert
of the membership (which waits for a writer's lock on the classroom), the
commit. `BeginWrite` is the one statement that locks knowledge base, space,
classroom and membership. Membership rows are numbered, so that a row that is
gone is not the one of a user who joined again.

### OcrCalls

The parent's loop, the reader and the writer thread, the renderer's and the child
process each take their own steps; the parent polls the renderer with a time
limit (`PollRenderer`) and then waits for its whole message without one
(`ReceiveImage`), while the renderer may stop at any point of it. Pipes and the
reader's queue are bounded; the deadlines pass at any moment. The child reads, writes, ends and leaves heirs as it likes.
Images and texts are counted in chunks.

## 3. Runs

| Run | Module | Bounds | Distinct states | Shows |
|---|---|---|---|---|
| `ingestion_queue` | `MCIngestionQueue` | 2 uploads asking for one build, limits 2, 1 and 2 attempts, 2 worker incarnations, 1 deletion | 43,772 | `TypeOK`, `TargetsFollowJobs`, `FailedOnlyWhenSpent`, `OnlyCrashesStrandLeases`, `StaleAttemptNeverWrites`, `EveryJobSettles`, `ImplementsPromise` |
| `candidate_batch` | `MCIngestionQueue` | 1 upload, 1 candidate job | violation | `CandidateBatchFollowsJob` fails, see 5 |
| `index_uploads` | `IndexBuild` | 2 documents with 2 versions | 2,533 | `SearchableStaysSearchable`, `ReadyVersionsSettle` |
| `index_drift` | `IndexBuild` | 2 documents, 2 contracts and changes, 1 file with 2 edits, 1 inventory and rollback | 1,278,386 | `TypeOK`, `OneActiveIndex`, `ActiveNeverMovesBack` |
| `semantic_snapshot`, `semantic_revert` | `IndexBuild` | 1 file, 1 and 3 edits | violations | see 5 |
| `object_cleanup` | `ObjectLifecycle` | 1 upload (3 keys), 2 cleaners | 51,995 | `CompletedMeansGone`, `EveryDeletionCompletes` |
| `agent_socket` | `AgentEvents` | 1 turn run at most twice, 1 crash, websocket, queue limit 1, states of at most 4 rows continued (`ShortLog`) | 2,207,421 | `ViewIsPrefix` |
| `agent_polling` | `AgentEvents` | 1 turn run at most twice, 1 crash, polling | 474,186 | `TypeOK`, `LogIsContiguous`, `CursorTrailsLog`, `TurnsAreWhole`, `AcceptedMeansLogged`; `TurnsEndWithoutCrash`, `BrowserCatchesUp` |
| `agent_restart` | `AgentEvents` | as `agent_polling` | violation | `EveryTurnEnds` fails, see 5 |
| `rows` | `MCTutorRows` | see below | 1,603,164 | `RowsTypeOK`; `LiveRowsKeepObjects`, `DeletedObjectsAreQueued`; `NeverOverdrawn`, `BalanceIsItsHistory`, `EndedStaysEnded`, `OnlyRepeatedReservationsDeadlock`; `VaultServesEveryNote`; `AttemptsFormOneChain`, `PagesShowEveryRow`; `ReviewPublishesItsTree`; `AdmissionHolds` |
| `services` | `MCTutorServices` | see below | 195,796 | `ServicesTypeOK`; `AcknowledgedIsRecorded`, `PaymentsArrive`; `VaultConverges`; `ChangeSetsSettle`; `OcrCallsEnd` |

`agent_socket` goes on only from states of at most 4 rows: these still have the
first rows of a second execution after a whole first one or after a crash, late
and repeated events, a full queue, and deletion. The log itself is checked
without that bound by `agent_polling`.

`rows` and `services` each check several modules on their own: a behaviour
chooses one of them (`part`) and takes only its steps, while the others keep
their initial states. The states of the run are the union of theirs, and a
property of one is checked on all of its states. This shows nothing of two of
them side by side. Their bounds, first those of `rows`:

- `ObjectLifecycle`: 2 uploads, 1 cleaner.
- `Wallet`: 1 user, 1 order, 1 reference (which is also the mock's trade), 1
  request id, 2 clients, orders of 1 for which 1 or 2 is paid. Two clients with every pair of
  requests give every conflict over the rows; its theorems have no bounds.
- `VaultMigration`: 1 note, 1 manifest, 1 edit; every command in any phase, any
  number of times. The proof covers more notes and manifests.
- `QuestionBank`: 2 versions, 3 keys (two of them with attempts older
  than assessments of one version), 3 submissions, scores of none and all, pages of one row, 2 days,
  window 1. Two answered submissions make a second page, and the third comes
  between the two and may move what is due; the mutant that pages by offset
  then skips a row.
- `CandidateReview`: 2 batches, 2 reviewers, 2 attempts, answers of two chunks
  with prefixes, an unknown parent and a circle.
- `Classrooms`: 1 user beside the owner, 2 invites with 1 and 2 uses, 2
  requests at a time. That several users compete for one last use is beyond this
  bound; the proof covers it.

And those of `services`:

- `PaymentCallbacks`: 1 order, 2 overlapping calls, 1 new certificate, 1
  restart. The throttle can refuse a first call because of a second one.
- `VaultFiles`: 2 paths, 2 contents, 3 identities, 2 changes by API calls or other
  programs beside scans: two updates may begin from one hash, a file can be
  replaced, renamed over a tombstone, or edited between a scan's read and its
  end, with a call in any of its steps, or committing between the scan's read of
  the rows and its commit. The index may come and go at any time.
- `ChangeSets`: 2 files, 2 sets, 3 edits, 2 attempts: the jobs of two sets of
  the same files overlap and fail in any order.
- `OcrCalls`: 2 pages with at most 1 recognised, images of 2 and 4 chunks,
  evidence for 3, output for 2, pipes and queue of 1: both pipes fill up, the
  queue too, and every limit is passed and met.

Why the bounds are enough to be interesting. Two workers and a limit of two
attempts give a claim that is taken over while the first holder still works,
a takeover on the last attempt, and a worker that dies on it; two uploads that
share a follow-up give the race for its row. Two documents with two versions
give every order in which four builds of growing document sets can finish. Two
contract changes reach A, B, A; two edits reach a file edited back, with the
third making that row a retired one. One inventory and one rollback, at any
moment, undo any activation that came between them, and fall in the middle of
any other. Two uploads and one deletion give every
pair of open transactions at the deletion's locks; two cleaners give a lost
lease with the other one repeating the work. One turn that may run twice with
one crash gives events of a dead execution arriving between or after those of
the live one, numbers that are used again, and the retry of a turn whose first
start is still in the cache; a queue of one overflows with the second event.
Turns with different keys are not enumerated (the state space multiplies by
about the number of interleavings of their requests), and neither are larger
queues: the theorems of section 4 cover them.

Every property has a mutant in `PROJECT.json`: a definition of the model,
changed as a plausible slip in the code would change it ("Variant:" or the
like in the modules), for which TLC reports the property violated.

Deadlock is checked for `IngestionQueue`, where an idle worker's poll is a step.
The other modules switch it off: idle polling is not a step there, so a system
that has nothing left to do stops.

### Fairness

- `IngestionQueue`: weak fairness of each worker's steps (`run_worker_forever`
  is a loop, and a handler ends or raises), of expiring leases and passing
  delays (clocks), and of the deletion's transaction. Nobody is forced to
  crash, to upload or to delete; `Crash` leaves one incarnation alive, as the
  supervisor restarts workers. `EveryJobSettles` has the premise that the
  knowledge base is not under deletion over and over, since each attempt may
  make a handler give way.
- `IndexBuild`: weak fairness of parses and of the queue's build and semantic
  steps, which `EveryJobSettles` justifies.
- `ObjectLifecycle`: weak fairness of a cleaner's steps and of clocks; strong
  fairness of the claim of each key: claims go by `created_at` among due rows
  and a failed row waits out a delay, so none is passed over for ever, which is
  assumed here and not shown; and of the deletion of each key, since an outage
  of storage ends.
  `EveryDeletionCompletes` has the premise that from some time on only dead
  workers lose their leases: without it two workers with leases that are too
  short could take turns for ever.
- `AgentEvents`: weak fairness of the provider's next step (the completion
  answers or times out), of `Store` of the event being published (the sink
  repeats until it is answered, and some repetition gets through), and of
  `Poll` on an open page, all as long as the session exists. Nothing forces a
  websocket to deliver.
- `PaymentCallbacks`: weak fairness of the steps of a call (a request ends) and
  of the five seconds. What the outside has to do is a premise of
  `PaymentsArrive` (`WorldPersists`), as it is not the code's to give: the
  gateway repeats the notification of each order, an outage ends, and not every
  download, look-up and recording fails. `PaymentsArrive` therefore says that
  the code does not stand in the way of an arrival, not how soon it is.
- `VaultFiles`: weak fairness of the calls and of the scan's steps, requests among
  them (the watcher's reconciliation comes for ever). That some scan that could
  end again and again does is a premise of `VaultConverges`, and so is that the
  knowledge base has an index from some time on, without which it is never
  scanned.
- `ChangeSets`: weak fairness of the jobs together, as every job has a last
  attempt, which `EveryJobSettles` justifies.
- `OcrCalls`: weak fairness of the parent, its threads and the clock; none of
  the processes, which need not do anything. `OcrCallsEnd` has one way out: a
  renderer that stalls within its image holds the parent for ever.
- `Wallet`, `VaultMigration`, `QuestionBank`, `CandidateReview`, `Classrooms`:
  none; only safety is asked of them.

## 4. Proofs

Proved for every value of the constants are all invariants and action
properties of the passing runs, each for its own module (`RowsTypeOK` and
`ServicesTypeOK` are the modules' type invariants), and the safety halves of
`VaultConverges`, `ChangeSetsSettle` and `OcrCallsEnd`. Liveness, and the fairness
of the refinement, are not. Eight modules hold the proofs, three of them of
several components each.

| Module | Theorems | Assumes | The inductive invariant adds |
|---|---|---|---|
| `IngestionQueueProofs` | `TypeCorrect`, `TargetsAlwaysFollowJobs`, `NeverGivesUpEarly`, `LeasesStrandOnlyByCrash`, `NoStaleWrite`, `QueueImplementsPromise` | `ConstantsAssumption`: no job follows itself, limits are positive | `HandlersOwn` (an open handler's row lock keeps its lease its own), `ClaimsAreLatest` (who owns a job is on its latest attempt), `RowsGoWithKb`, `DeletionHolds` (a deletion past its check holds every row), `TargetsExist` |
| `IndexBuildProofs` | `TypeCorrect`, `AtMostOneActive`, `SearchOnlyMovesForward`, `UploadsKeepSearch` | its `ConstantsAssumption`; `UploadsKeepSearch` also no edits, contract changes and rollbacks | `Sound`, on any sequence of rows, as a rollback in the middle of an activation makes one that no state has; and for uploads that documents enter rows in growing sets |
| `ObjectLifecycleProofs` | `TypeCorrect`, `RowsKeepTheirObjects`, `DeletionForgetsNothing`, `CompletedStaysGone` | `KeysAssumption` | `QueuedWhenDone`, `DeletionExcludes`, `PutsAreStored`, `CollectedIsComplete`, `CleanersKnow` |
| `AgentEventsProofs` | `TypeCorrect`, `LogStaysContiguous`, `CursorAtMostOneBehind`, `TurnsNeverInterleave`, `AcceptedStartsAreLogged`, `BrowserShowsPrefix` | `AgentAssumption` | `WireInv` (every posted event's predecessor is stored right below it, and its number is at most one above the number in memory, unless an old file was read), `RunInv` (so for the event about to be posted), and that everything on its way to the browser is stored |
| `BillingProofs`: `Wallet` | `WalletTypeCorrect`, `WalletIsNeverOverdrawn`, `PaidOrdersAreCredited`, `EndedRowsAreFinal`, `DeadlocksNeedARepeatedReservation` | `WalletAssumption` | `Shape` (which rows each kind of request may hold and still take), `Exclusive` (no two hold one row), `FundsHold` (a balance read under the wallet's lock is still the balance), `StaleSeen` (what the mock cashier read of an order without a lock) |
| the balances | `BalancesAreTheirHistory` | the same | `HistoryInv`: the rows of a user are finitely many, a reservation is charged only when it settles, and both sums are those of the rows |
| `PaymentCallbacks` | `PayInvariant`, `AcknowledgedStaysRecorded` | `PaymentAssumption` | `TradesHaveRows`, `OpensAreAlone`, `NotifiedIsDecided`, `CommittedIsRecorded` |
| `VaultProofs`: `VaultFiles` | `VaultTypeCorrect`, `ScansRecordFiles` | `VaultAssumption`: more identities than paths | one row per path, `CallsHaveRows` (unless the knowledge base is deleted), `SeenIsFound` (a scan has found what it has seen, and reads nothing twice), `ReadRowsExist` (what it has read of the rows still has rows, each path once) |
| `ChangeSets` | `CsTypeCorrect`, `SettledStays` | `ChangeSetAssumption` | `ProjectionOfSet` (a set's state is what became of its projection), `PlansAreListed` (semantic jobs exist for the files it lists), `FailedPlanFails`, `JobsHaveTries` |
| `VaultMigration` | `MigTypeCorrect`, `VaultHasEveryNote` | `MigrationAssumption` | `FilesHaveRows`, `DeletedHadFile`, `CutoverSawAll`, and what an uncommitted copy will give rows to |
| `LearningProofs`: `CandidateReview` | `CrTypeCorrect`, `BatchesPublishTheirTree` | `CandidateReviewAssumption` | `OneDecides` (one confirmation is between decision and commit, and the batch is still as it read it), `AcceptedIsConfirmed` |
| `QuestionBank` | `QbTypeCorrect`, `AttemptsAreOneChain`, `PagesAreComplete` | `QuestionBankAssumption` | `RowsInv`, `LocksInv` (what a submission graded against under the lock is still all there is), `PagesInv` (what was shown is not past the cursor, and what was there and is still listed was shown or is past it) |
| `Classrooms` | `RoomInvariant`, `AdmissionIsKept` | `ClassroomsAssumption` | `InviteLocks` (one request at a time between an invite's check and its commit), `InsertsAreNew`, `RowsAreNumbered`, `InvitesBegin` |
| `OcrProofs` | `OcrTypeCorrect`, `OcrTextsAreWhole` | `OcrAssumption` | `NoChunkIsLost` (what the child wrote is counted, queued, in the reader's hand or in the pipe; an end on its way is the end), `WriterIsHonest`, `StoppedWhole`, `CallIsNew` |

The arguments in a few words. Queue: the second and third transactions re-read
the row under its lock; as long as the lease is the worker's own, nobody can
have claimed since, so the attempt is the latest, and an attempt that is not
owns nothing. The refinement shows each step as a step of `IngestionPromise`
or a stutter: only the transactions that end a job or the knowledge base move
what a user sees. Indexes: every handler changes the rows either quietly (new
BUILDING rows, failures of unfinished ones) or by one activation, which may find a
rollback between its read and its write, or by a rollback, and all keep the
rows sound; without a rollback the searched row moves to a higher number only.
Objects: before
the deletion commits no outbox row exists, so nothing is removed; from the
moment it holds its locks no other transaction is open, so what it collected is
complete. Events: an event is posted only after its predecessor was
acknowledged, that is stored at the number below; rows never change, so this
stays true of it when its execution is long dead, and the check
`sequence == last + 1` then stores it in its place or not at all. Wallet: every
request that lowers a balance holds the wallet's row from its read to its
commit, and the others can only raise it; all locks but those of a repeated
reservation are taken in one order. Payments: a call that has committed is
about an order whose row says what the payer did, and neither changes again.
Migration: the cutover's check looks at every listed note; after it a note
without a file comes only from a publication that began before the shadow.
Classrooms: the checked limit is still free at the commit, since a request
holds the invite alone, and the row it adds is new. Sums: `posted` is set against a fold over sets of
rows; the same sum as a recursive function over subsets (`Total`) exists, and
changes with one row by that row, because a smallest set without this would not
be the smallest; the steps that change a balance change one row by as much.
Vault: the recursive function of the move detection exists by the same argument
over the positions of the walk; after each position it gives no row to two paths
and keeps the row of an identity for the path where that is seen (`Fits`), so
the rows of a scan are the files it read. What calls commit between its read of
the rows and its commit are other values of columns, and those it does not write
stay theirs; a row it makes is at a path that is still free. Change sets: the last job of a set
finds all others ended, and no later projection or retry finds a set to begin
with. Candidates: the lock of the batch lets one confirmation through, and its
notes come from the answer whose parents `Ordered` has checked. Questions: the
advisory lock makes the rows of a version a chain; what a reader was shown is at
its cursor or before it, and a row that was there at its first page and is still
listed was shown or is after the cursor, since rows do not move in the list. OCR:
the end is put in the queue only when pipe and child have ended, so whoever
takes it has taken every chunk before it.

What proving changed. The second half of `ScanRecords` said at first that the
row of an identity that is found at one new path always follows it. TLC agreed
for the two paths of the run; the proof did not go through, and with three paths
TLC shows why: the walk meets a copy with the same content earlier, and
`_unique_move_candidate` gives the row to that (`sync.py:395`). The property now
says so (`KeepsIdentity`), and is proved for any number of paths.

Model-checked only: `EveryJobSettles`, `ReadyVersionsSettle`,
`EveryDeletionCompletes`, `TurnsEndWithoutCrash`, `BrowserCatchesUp`,
`PaymentsArrive`, and the `<>[]` of `VaultConverges`, `ChangeSetsSettle` and
`OcrCallsEnd`: liveness under fairness is outside the prover's reach, and so is
ENABLED. Induction over data is possible only where a least counterexample can
be named, as for the sums and for the walk above; the library's induction
theorems cannot be used.

## 5. Where the code and what is said of it disagree

The first four have a run that finds them.

- `candidate_batch`: `_fail_exhausted_stale_jobs` (`worker.py:473`) closes the
  targets of builds and parses but not the candidate batch, which `fail_job`
  does. A batch whose worker died on the last attempt stays open.
- `semantic_snapshot`: a semantic job carries the documents that were READY at
  its scan, and gets its number when it runs. A late one supersedes an index
  with newer documents, although the handoff of task 7 says that older late
  builds cannot.
- `semantic_revert`: content that returns to what it was finds its RETIRED
  index. The job reports ACTIVE and records that index as the file's last one,
  but another index is searched.
- `agent_restart`: `publishSource` posts an event and then saves its number
  (`RuntimeService.ts:105`). A runtime that dies in between begins again with a
  number that is taken; the API answers 409 `event_sequence_conflict` with the
  expected number, which the sink does not read, and it repeats the request
  without end. The next turn never ends and every later one is refused as
  busy, although the design document (line 1129) has sessions recover from a
  restart. `CursorTrailsLog` says how small the gap is: one number.

The first is a bug of the code; the others are differences between code and
document. The models of the services have more; each is part of a module as the
code has it, and has no run of its own.

- `router.py:276-278` says that verified notifications are always acknowledged.
  A trade whose reference an administrator has used raises a duplicate error
  that no handler takes: 500, and the gateway repeats it (`PayDuplicate`).
- A file renamed to the path of a tombstone makes every later scan fail
  (`RenamedOntoTombstone`), though `sync.py:74-76` has scans bring rows back to
  the disk. `VaultConverges` excepts it.
- `create` (`service.py:201`) overwrites a file that another program has put
  there and no scan has seen.
- Change sets of API calls stay COMMITTED: only those of scans are projected
  and indexed. `requires_full_scan` has no effect, as the scan drops `force`.
- A finalising semantic job sees the row of its own file as it first read it;
  `pending_count` is not brought up to date when a projection finally fails.
- A scan's flush writes over what API calls have committed since it read the
  rows; the next scan repairs it (`Updated`). A knowledge base whose last index
  was retired or failed is not scanned at all.
- A build of an older document set that meets another embedding contract is
  retargeted to a new index (`worker.py:964`), which has the highest number and
  takes documents out of search when it is activated, as the late semantic job of
  `semantic_snapshot` does: that numbers only go up (`ActiveNeverMovesBack`) does
  not say that documents do.
- The rollback of the migration makes an older index ACTIVE, as
  `test_vault_migration.py:294` has it; but it does not lock the knowledge base,
  and an activation that commits after it has read the old index leaves none
  ACTIVE: the state it assigns is the one it has read, and is not written.
- `PDFiumPageRenderer` promises "a parent-enforced wall-clock timeout"
  (`ocr.py:836`), but only `poll` has one: a renderer that stalls after the first
  bytes of its image holds `recv` (`ocr.py:882`), and the parse, for ever.
- The sink repeats for ever what the API refuses for good: the events of a session
  that was deleted with its knowledge base (`event_store.py:134`), with no crash at
  all, and those of a runtime that restarts with a session file it could not
  write. `TurnsEndWithoutCrash` and `EveryTurnEnds` except the deletion.
- The cutover checks and commits later: a note published in between without a
  mirror is in the database only (`late`). `copy`, `activate_shadow` and
  `cutover` write the state file before the database commits. Under the Vault
  route one tombstoned file makes every read of notes answer 503
  (`workspace.py`). A note mirrored or changed during the shadow keeps that
  manifest from its cutover.
- The streak of assessments follows `created_at`, which is not the order of
  commits; `AttemptsFormOneChain` therefore bounds it by the chain only.
- `create_question_generation` says an in-progress job is reused
  (`question_bank/service.py:254-258`); its check and insert have no lock, so
  that two jobs for one request are possible (`QueueGeneration`).
- The comment of the candidate merge says that unknown references never are
  fatal and a batch always reaches NEEDS_REVIEW; a note that is its own parent
  by alias fails each attempt with `candidate_parent_order_invalid`.
- `ClassroomInvite.revoked_at` is read and never set.
- A subscriber whose websocket queue overflows is dropped without a message,
  where `docs/superpowers/plans/2026-08-28-agent-control-plane-vault.md:360` has
  it reconnect. An archived session is set active again by late events and by a
  stop, and the turn of a stopped session stays `running`.

## 6. Not modelled

- Retrieval scores, chunking, markdown, graph layout, parsing, OCR, embeddings,
  prompts: functions of data without interleaving; their failures are steps
  (`Raise`, `ParseFails`, `BuildFails`, `ProviderFails`).
- Permissions and shapes of HTTP requests: stateless checks.
- The login rate limit (counters in the memory of one process) and sessions:
  single statements that do not interact. `learning/*` is imported by its tests
  only.
- Parsers, prompts, recognition, prices: functions of data. OCR as modelled is
  not selectable by a setting yet (`worker_main.py:58`); its descriptors'
  reuse by a thread left behind is not modelled.
- Two turns of one agent session with different keys; and any two services of
  `MCTutorRows` and `MCTutorServices` together, although some have rows in common
  (section 2).
- Of `VaultFiles`, the renaming of files by the migration and the projection of
  notes; a scan that fails before it has read the rows shows nothing else than one
  that fails after.
- The vendored execution layer, providers' catalogue, legacy tutor, migrations
  of the schema, scripts and generated types.
- Orphans: the source of an upload that rolled back and the previews of a parse
  that finally failed stay in storage (`findings.md:294` knows them); no
  property speaks of them.
- Of agent sessions: fork, rewind, usage and audit rows, sidecar files, and
  events that overwrite the state of an archived session.

## 7. Plan

Done, in this order: `IngestionPromise` and `IngestionQueue` with the
refinement, as every other knowledge operation runs inside it; `IndexBuild`;
`ObjectLifecycle`; `AgentEvents`; the proofs of each; then the services: `Wallet`
and `PaymentCallbacks`, `VaultFiles`, `ChangeSets` and `VaultMigration`,
`QuestionBank`, `CandidateReview`, `Classrooms`, `OcrCalls`, with their proofs;
then the rollback of the migration, the deletion of sessions, failing files and the
unlocked reads of scans in those modules.

Left, in this order:

1. `VaultFiles`, `ChangeSets` and `VaultMigration` over the same rows, and `Wallet`
   with `PaymentCallbacks`, as compositions.
2. An abstract account (a balance and the set of what has ended) that `Wallet`
   implements, and that `IndexBuild`'s jobs implement `IngestionPromise`.
3. The state of agent sessions and turns under late events, fork and rewind, on
   top of `AgentEvents`; the silent websocket as a run of its own.
