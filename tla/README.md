# A TLA+ verification project for AIOS

AIOS is a local, single-user knowledge workspace: a Streamlit application that
ingests documents, embeds them with a BGE model, answers questions about them,
runs small pieces of "agent work" on a local folder, interviews experts, and
publishes approved knowledge to a shared library. This directory models the parts of it where
several threads, processes or restarts meet on shared state, model-checks them
with TLC on small instances, and proves the main results with TLAPS for every
instance. Paths below are relative to `src/src/aios_habit/`.

## 1. The system

| Part | State | Operations | What is hard |
|---|---|---|---|
| Source preparation (`workspace_chat_rag_v2_adapter.py`) | SQLite ledger, in-memory readiness registry, text cache, coverage cache, drain flag, one executor thread, two locks | schedule, resume, promote, retry, forget, summary, close; the drain | sessions and the drain interleave between SQLite statements; wake-ups; restart; swallowed errors; lock order |
| Agent work queue (`workspace_agent_orchestrator.py`, `workspace_case_repository.py`) | table `agent_work_items`, an in-memory lock per workspace | enqueue, process next, cancel, resume, run and import code under the lock | check-then-act across transactions, a re-entrant lock, crash with an item running |
| Ingestion jobs (`rag_v2/ingestion_jobs.py`) | tables `ingestion_jobs`, `ingestion_checkpoints` | submit, claim, heartbeat, transition, checkpoint, retry | leases that expire while their holder is still about to write |
| Ingestion service and watcher (`rag_v2/ingestion_service.py`) | a thread, a stop event, the last manifest | start, stop, run once, scan | start and stop races, a directory that changes while it is read |
| Library publication (`knowledge_publication.py`, `library_backup.py`, `workspace_chat_store.py`) | a collection's SQLite file, published documents, backups, a lock file | publish, revoke, back up, restore, move a storage root | crash between two file replacements, roll-back, a backup that changes before it is restored |
| BGE worker (`rag_v2/bge_subprocess_client.py`, `..._worker.py`) | a child process, its pipes, the pending init, abandoned reader threads | initialise, prepare, query, delete, close | time-outs that leave a reply behind, waiters without the lock, a close without the lock |
| Expert interviews (`expert_interview_service.py`, `expert_interview_repository.py`, `adaptive_interview_engine.py`) | tables `interview_sessions`, `interview_turns` | answer, pause, stop, resume | two tabs number their answers alike; the session row is overwritten |
| Controlled knowledge (the same files, `knowledge_publication.py`, `workspace_case_ui.py`) | artifacts, their versions, decisions, packages in the library | draft, revise, confirm, seal, publish, revoke | a decision about a text that has been revised since; a stale package |
| Index registry and chunk revisions (`rag_v2/index_registry.py`, `index_bundle.py`, `chunk_revisions.py`) | JSON registry, versions | stage, activate, roll back | no lock |
| Chat store and JSON lines (`workspace_chat_store.py`, `local_jsonl.py`, `shared_mailbox.py`) | JSONL files | append, rewrite, mark done | lost updates, partial batches |
| Case workflow (`workspace_case_service.py`) | SQLite, versions, idempotency keys | approve, supersede, record | optimistic concurrency |
| Retrieval, routing, UI, prediction, extractors | mostly none that is shared | - | numeric and textual detail |

**How they interact.** The UI (one process; each page run is a thread) calls
the source preparation and the agent queue. Preparation takes the library's
writer lease, asks the BGE worker to embed, and reads the index that the worker
writes. The agent queue stores its items in the case repository. Publication
takes the lease of the same kind before it replaces an index. The interview
page writes the turns from which the review page drafts an artifact, and the
publication page confirms, seals and publishes it. Warm-up, questions,
preparation and deletion share one worker client. The ingestion service is a
thread over the job store, and the watcher submits jobs to it; no page of the
application starts them, so `start`, `stop` and `scan` are called by anybody.

**What makes each part correct.**

- Preparation: nothing is shown ready before its vectors were committed; every
  enqueued source is eventually settled; one worker owns a processing row;
  closing ends.
- Agent queue: one writer at a time; no lock is left behind, a `running` item is
  in somebody's hands, and what has ended stays so.
- Job store: a token exactly while a job is active; committed units never
  change and are never over-counted; a dead worker blocks a job for one lease at
  most; a finished job stays finished.
- Ingestion service: one loop per service, and what the watcher submits was in
  the directory at one moment, as far as two readings of each file can tell.
- Publication: no publication or revocation is lost to another session; a call
  that fails leaves the library as it found it; a listed package has its
  document; a revocation is on record only when it took effect; the lease is
  always given back.
- Worker client: a reply is given to the request it answers; a worker is ready
  only with its models loaded; none is lost sight of; one that loads is left to
  load, and in the end serves.
- Interviews and knowledge: no answer is lost and no question answered twice;
  nothing is in the library that was not confirmed to the letter; a status is
  one that was decided for the current text; a saved version stays.

`PROJECT.json` lists every component with its status and, under `hazards`,
every line where one of these could go wrong.

## 2. Modules

| Module | What it is |
|---|---|
| `SourcePreparation` | the preparation queue, with its properties |
| `MCSourcePreparation` | texts and symmetry for TLC |
| `SourcePreparationProofs` | six theorems |
| `AgentWorkQueue` | the agent queue and its lock, with its properties |
| `AgentWorkQueueProofs` | seven theorems |
| `LeasedJobs` | abstract specification: what the job store promises |
| `IngestionJobs` | the job store, its properties, the refinement mapping to `LeasedJobs` |
| `MCIngestionJobs` | symmetry for TLC |
| `IngestionJobsProofs` | seven theorems, two of them about the refinement |
| `IngestionService` | the service and the watcher, over `IngestionJobs` |
| `MCIngestionService`, `IngestionServiceProofs` | symmetry for TLC; five theorems |
| `BgeWorkerClient`, `MCBgeWorkerClient` | the worker client, its pipes and the worker's loop; symmetry for TLC |
| `BgeWorkerClientProofs` | six theorems |
| `LibraryChanges` | abstract specification: what a reader of the libraries may rely on |
| `LibraryPublication` | publication, revocation, backup, restore and relocation under the writer lease; the refinement mapping to `LibraryChanges` |
| `LibraryPublicationProofs` | eight theorems, one of them the refinement |
| `InterviewSession`, `InterviewSessionProofs` | one interview in several tabs; two theorems |
| `ControlledKnowledge` | what becomes of it, over `InterviewSession`: draft, revisions, decisions, packages |
| `MCControlledKnowledge`, `ControlledKnowledgeProofs` | symmetry for TLC; nine theorems |

Definitions whose comment starts with "Mutant" are wrong versions of the
definition after or before them. They are used only to see that a property
fails when the code has a plausible bug.

### SourcePreparation

Grain: one SQLite statement outside a transaction, one transaction, and one
critical section of `_PREPARATION_LOCK` or `_DRAIN_RUNNING_LOCK` is one step. A
session (`session[x]`) has a program counter and the row it has read; the drain
(`drain`) has one too. So whatever the code reads and later uses can be stale.

| Code | Model |
|---|---|
| ledger row: `state`, `priority`; `last_error` only where it decides (`_RETRYABLE_PREPARATION_ERRORS`) | `ledger[s].state`, `.pri`, the state `retryable` |
| local index; `_COVERAGE_CACHE` | `index`, `coverage` |
| `_PREPARATION_REGISTRY` entries whose status is ready | `registry` |
| `_SOURCE_CACHE`; the chat store | `cache`, `stored` |
| `_DRAIN_IS_RUNNING`; submitted futures; whether the executor was shut down | `flag`, `queued`, `shut` |
| `_PREPARATION_LEDGER_INITIALIZED_PATHS` | `reclaimed` |
| `reconcile_and_enqueue...` | `ReconcileRead`, `ReconcileKnownReady`, `ReconcileCovered`, `ReconcileUncovered`, `Insert`, `Rewrite`, `Stamp`, `MarkPending`, then `Start...` (the flag, `_get_executor` and `submit` are three steps, so a close may come between) |
| `promote_...`, `retry_...`, `forget_...` | `PromoteLoad`; `RetryLoad`, `Delete`, `PopReadiness`, `DeleteLedgerRow`, `ForgetVectors` |
| `_drain_preparation_queue`, `_claim_next_preparation_item`, `_commit_preparation_result` | the `Drain...` actions |
| `close_...` | `CloseBegin`, `CloseJoined`, `CloseReset` |
| an error of SQLite, of the chat store or of the file system, swallowed or passed on | `DrainClaimFails`, `DrainCommitLost`, `DrainCommitFails`, `DrainRaises`, `DrainStartRaises`; `ReconcileReadLost`, `ReconcileLookUpLost`, `RetryLoadLost`, `DeleteLedgerRowLost`, `RefreshLost`, `CallRaises` |
| `get_..._preparation_summary`, expiry of a lookup, end of the process | `Refresh`, `CoverageExpires`, `Restart` |

A document id is a hash of the text, so two sources with one text are one
document: `DocOf`. `embedded` is a history variable: the documents whose
vectors were ever committed.

Abstracted:
a source's text does not change under its id and the embedding backend does not
change (`source_fingerprint`, `model_revision` and `model_fingerprint` always
match); `attempt_count` decides nothing; `updated_at` only orders rows of one
priority, so `DrainSelect` takes any of them; the priority `backfill` and the
state `cancelled` are written by nobody; a call reconciles one source (a longer
list is several calls); the two successive writes of `processing` to the
registry (lines 2303 and 1384) are one. The BGE worker is a step that commits
all vectors of a document or fails, perhaps after it has committed.
There is one application process at a time; other processes appear only as
the writer lease being busy. `_DRAIN_RUNNING_LOCK` and `_PREPARATION_LOCK` are
held over several steps only where the code waits or runs SQL under them, and
`PreparationLockFree` and `RunningLockFree` say when they are free.

### AgentWorkQueue

Each repository call is one SQLite transaction and one step, and so is each use
of the lock. `thread[t]` is the call of one Streamlit thread. `holder` is
`WorkspaceWriterLock._locks` for the one workspace modelled. `process_next_work_item`
is `ProcessList` ... `Release`; the runner is what the application passes
(`workspace_chat_app.py` 4748-4814): it stores its own result (`RunnerReports`)
and then writes a chat message, and may raise before or after. `hold` is
`run_code_task` and `import_code_result`. A call that was given no runner (the
default of `process_next_work_item`) returns with the item still running
(`ProcessWithoutRunner`). A repository call that raises inside the `try` goes to the
`except` clause (`ProcessRaises`), also after the item was completed; one that raises
inside that clause leaves the status as it is (`FailRaises`); the write of an enqueue,
a cancellation or a resume that raises ends the call (`WriteRaises`). `CancelUnlock` may or may not free the
lock, as the item's roots may not name the workspace. `resume_interrupted_tasks`
marks each item it has listed in a step of its own.

Abstracted: an item's content, timestamps and references; several workspaces
(their locks and rows are independent); ties of `queue_position`, where either
item may be first; a call that raises before it has read or locked anything, which
changes nothing; exceptions that `except Exception` does not catch (a
`KeyboardInterrupt`), which end the process here.
Not modelled: checkpoints, worktrees and the UI's roll-back of a result.

### IngestionJobs and LeasedJobs

Python's `sqlite3` opens a transaction at the first write, so `_require_lease`
and the `SELECT`s of `submit` and `checkpoint` are steps before it; `claim`
starts with `BEGIN IMMEDIATE` and is one step after it has read the clock.
`call[x]` is the call of a thread with the time it began at and what it has
read. A token is the number of the claim that wrote it, 0 is the empty string.
A worker may use the token of any claim, long after its lease was over.
`Crash` ends a call anywhere.

Abstracted: `payload` and `unit_hash` (another payload differs as another
ordinal does, `CheckpointLook` refuses both); the manifest and the other fields
of an identity (a resubmission has no effect on the tables); unit ids are not
compared with the manifest, as in the code; `created_at` order is the order of
the job numbers; the clock does not go back.

`LeasedJobs` is the queue without a clock and without anything between a check
and a write: submit, claim, commit a unit, release to waiting or done. The
mapping (`Promise` in `IngestionJobs`) takes the phase of the status, the token
and the number of attempts.

### IngestionService

EXTENDS `IngestionJobs`: the threads of the service (`Loops`) and the watcher are
the callers of the store, and each step of them is a step of the store or leaves
it alone. `loop[x]` is where `run_forever` is in thread `x`, `thread` and `stop`
are `_thread` and `_stop`, `starting` the caller that holds `_lock`. `StartClears`
and `StartSpawns` are the two halves of `start`, `Stop` sets the event (its join
ends after five seconds, whatever the thread does), `LoopEnds` ... `HandlerEnds`
are `run_forever` and `run_once`. A handler is the caller's code: it makes any
calls with the job and token it was given, and returns or raises. `ScanBegins`,
`ScanLists` and `ScanReads` (one file at a time) and `ScanSees...`, `ScanWaits`,
`ScanSubmits`, `SubmitEnds` are `scan`; `source` is the manifest that a job's identity
was made of. Meanwhile other programs change the directory: `FileChanges` writes any
content to a file, deletes it or brings back what it held before, `FileRenamed` moves
it, over another one or not. A file that is gone when its turn comes makes the scan
raise (`ScanFails`), one that is new is not seen. History variables: `past`, every state
the directory has been in; `away`, the files that have changed since the last complete
scan settled them and before the present one did; `later`, those that have changed
since the present one settled them.

Abstracted: a content is a number, and a file is read in one step (a file that is
written while its blocks are read has a digest of a content it never had; that is the
same mixture within one file); the digest of a manifest is the manifest; the wait
between two polls is time that passes before the next step. Once no job is left to
submit, the bound `Jobs` being reached, the directory is left alone.

### BgeWorkerClient

| Code | Model |
|---|---|
| `_lock`, `_process`, `_active_config`, `_pending_init` | `lock`, `process`, `active`, `pending` |
| the worker process, its session, its stdin and stdout, the reader threads that wait on stdout in turn, the result of the init reader | `worker[p]`: `state`, `config`, `pipeline`, `staging`, `staged`, `stdin`, `stdout`, `readers`, `init` |
| the call of each thread with its local variables | `call[c]` |
| `initialize_worker` | `InitializeJoins` or `InitializeReplaces`, `Close...`, `Spawn`, `Track`, `Await`, `Join`, `Finish`, `Adopt`, and their failures |
| `prepare_staged_source`, `query_ready`, `delete_documents` | `Prepare`, `Query`, `Delete`, then `Send`, `Write`, `Continue`, `Succeed`, `Refused`, `WaitTimesOut`, `StreamEnded`, `Aborted` |
| `_close_internal`; `close` | `CloseReads`, `CloseClears`, `CloseEnds`; `Close`, `CloseUnlocked` |
| `_WorkerSession.handle` | the `Worker...` actions |

Each request of the protocol is one step of the worker, and the assignments of
`_close_internal` are a step apart, since `close` may run it without the lock.
A reader thread that nobody joins any more (`None` in `readers`) still takes the
next line: blocked `readline` calls get lines in the order in which they came,
which is how the buffered reader's lock serves them and is assumed here. `for` in
a request, a reply's origin, is there for the property only. `indexed` says that
the index holds the one document modelled; `raced` that a `close` went ahead
without the lock. `RacesAgain` is a bound: whether that may happen again.

Abstracted: the texts and vectors, several documents, the reason strings,
`readiness` (the guard of its callers). Not modelled: the named-pipe transport
(Windows, off by default), `prepare_sources` and `ingest_and_query` (no page of
the application calls them; the second holds the lock while it waits for the
models, against the docstring of `_start_worker_locked`).

### InterviewSession and ControlledKnowledge

A tab's click runs the page's script once; a step is one read or one transaction
of such a run, and runs interleave. `session` is the row of `interview_sessions`,
`turns` the rows of `interview_turns` by their sequence, which is part of their
key. `Ask` is the click, `NumberAnswer` or `RefuseAnswer` what
`submit_interview_turn` makes of the turns it lists, `SaveTurn` or `KeyTaken` the
insertion, `SaveSession` the row at the end. Pause and stop are `Park` and
`SaveNote`, in the other order. The page chooses the question (`PageQuestion`).

`ControlledKnowledge` EXTENDS it by the one artifact of that interview: its row,
its `versions`, the `decisions`, and for each of the `Places` that the collection's
storage pointer (`place`) may lead to, a `library` and a writer `lease`. `Draft...` and
`Edit...` are the review page and `save_artifact`; `PublishReads`, `Approve`, `Seal`,
`Publish` the publication page; `RevokeReads`, `Remove`, `Record` or `Restore` a
revocation. `BackUp`, `RestoreBackup`, `Relocate` and `SelectLibrary` are the other
pages that touch a library, each of them one step; every publication and revocation
adds a backup too. `PageDies` ends a run between two steps, and `Fails` ends one
without effect.

Abstracted: a digest covers version and text, so the two stand for it; one
artifact; a publication is one step under the lease, and so is a restored backup or a
relocation (`LibraryPublication` has their files and failures, and there the default
directories of the publisher and of the application are two, here one place); the checkpoints of an interview, which nothing reads back;
claims (none of the pages makes a conflicted one); the decisions to reject and to
ask for changes, which no page takes.

### LibraryPublication and LibraryChanges

A session is a script run of the application, in a process of its own. A step
is one `os.replace`, one use of a `LibraryWriterLease` or one read of the
collection's `storage_root`; staging copies are private, so what is done to
them belongs to the step that ends it.

| Code | Model |
|---|---|
| `KnowledgeCollection.storage_root` | `storage` |
| `library.sqlite` of a runtime directory; its `published_documents` | `present`, `listed` |
| files under `published_docs` | `files` |
| the lock of `.aios-library-writer.lock` | `lease` |
| verified backups; decisions that record a revocation | `backups`, `recorded` |
| `publish_package`, `revoke_publication` | `Start...`, `Acquire` or `Busy`, `Stage...`, `ReplaceFile`, `ReplaceDatabase`, `Complete`; on failure `Fail`, `BackupFails`, `DatabaseStays`, `CheckFails`, `UndoDatabase`, `UndoFile` |
| `create_library_backup`, `restore_library_backup` | `Backup`; `Restore`, `RestoreEnds`, `RestoreSpoilt` |
| `relocate_collection_storage`, `select_library_mode` | `CopyLibrary`, `PointTo`, `CopySpoilt`; `SelectLibrary` |
| the end of a process, or a roll-back that itself fails | `Crash` |

With an empty `storage_root` the publisher page uses a directory beside the case
database and the application another one (`workspace_case_ui.py` 1189): `Homes`.
A package stands for one `package_id`: its row of `published_documents` and its files.
The search tables beside that row (`chunk_metadata`, `chunk_fts`) are not modelled.
`was` in a call is a history variable: what the library listed when the call
staged its copy.

`LibraryChanges` is what is left for a reader: a library is changed in one step, by
one package more or less, by a list that was backed up, or by the list of another
library; the change is open until it is settled or undone, and no other change
begins meanwhile. The mapping takes the lists and the backups as they are. A
library is open (`Open`) while a call is between its replacement of the file and
its end or undo, and `Back` is what the undo would bring: the call's own backup
after a publication or revocation, nothing after a restore or relocation, whose
spoilt file is unlinked.

Abstracted: the seal, the digests and the acceptance questions (a failed
acceptance is `Fail`), the text of the rows, the info file beside the lock (it
decides nothing), the files of a package that has several (they move
together). Not modelled: the approvals behind a package, the lease as the
preparation of sources takes it (there it is the busy writer of `DrainBusy`),
and the search rows. The patterns that remove those (`LIKE 'package_id%'` at 516 and
`'package_id_%'` at 383) take the rows of `...-V10` with those of `...-V1`, which leaves
a listed package that no search finds; this is among the hazards, with no property.

## 3. Runs

| Run | Instance | Checks | Outcome |
|---|---|---|---|
| `prep_safety` | 1 source, 1 session that makes all calls and 1 that closes, 2 errors, 1 restart, 1 queued drain | `TypeOK`, `ReadyMeansEmbedded`, `WakeupNotLost`, `OnlyTheseOrphan`, `OnlyTheseStrand` | hold |
| `prep_live` | 2 sources, 1 session that schedules | `ProcessingIsOwned`, `EnqueuedSettles` | hold |
| `prep_close` | schedule and close, fair | `CloseEnds` | violated |
| `agent_queue` | 2 items, 2 threads, all calls, errors at any time, 1 restart | `TypeOK`, `NoOrphanLock`, `OnlyTheseAbandon`, `EndedForGood` | hold |
| `agent_writer` | 2 items, 2 threads that process | `OneWriter` | violated |
| `jobs_safety` | 1 job, 2 units, 2 ordinals, 2 callers, 2 claims, clock to 2 | `TypeOK`, `LeaseMatchesStatus`, `CompletedNotOverstated`, `Reclaimable`, `CheckpointsKept` | hold |
| `service` | 2 loop threads, 2 callers of start, the watcher, 2 files that change 5 times, 1 job, 1 unit, 2 claims, clock to 2 | `ServiceTypeOK`, `OneLoop`, `SubmittedWasThere`, `AtomicLeases` | hold |
| `bge_safety` | 2 callers, 2 configurations (1 read-only), 2 process identities, 2 unread messages in a pipe, 1 fault, any number of closes without the lock | `TypeOK`, `AnswerIsOwn`, `ActiveIsLoaded`, `NoStrayWorker`, `PreparedIsIndexed`, `LoadingIsKept` | hold |
| `bge_warm` | 2 callers, 1 configuration, no faults, 1 close without the lock | `WarmsUp` | holds |
| `library_safety` | 2 sessions, 2 packages, 1 shared folder, 3 calls | `TypeOK`, `StagedIsCurrent`, `RelocationCarries`, `FailureRestoresOwnBackup`, `PublishedStays`, `ListedHasFile` | hold |
| `expert` | 2 tabs, 6 runs of a page, 2 texts, 3 versions, 1 death, 2 places, 2 backups, restores or changes of the library | `KnowledgeTypeOK`, `NoQuestionTwice`, `NumbersHaveNoGap`, `PublishedIsConfirmed`, `StatusIsDecided`, `AnswersKept`, `VersionsAreFixed` | hold |
| `expert_revoked` | 1 tab, 7 runs, 2 versions | `RevokedLeavesLibrary` | violated |

What the properties say:

- `ReadyMeansEmbedded`: a ready row or registry entry has a document whose
  vectors were once committed. It says "once" because deleting one of two sources
  of the same text removes the vectors of both.
- `WakeupNotLost`: while the drain flag keeps callers from starting a drain,
  some drain will still look at the queue. The exceptions (`FlagIsLeft`): an uncaught
  error has just ended a drain, whose `finally` clears the flag next, or has ended it
  before its `try` (adapter 2265-2271), and then nothing but a close does; or a close
  has shut the executor down under the caller that was about to submit.
- `OnlyTheseOrphan`: a processing row loses its worker only when a promotion or a
  retry writes back a row it had read, or by an error in the drain's load or commit.
- `OnlyTheseStrand`: a pending row is left with no drain on its way only by the steps
  that `Stranding` lists.
- `ProcessingIsOwned`: a `processing` row has the worker that will commit it.
- `EnqueuedSettles` (liveness): a source that a session has enqueued leaves
  `pending` and `processing`. Checked with one session that only schedules, and
  texts that differ: otherwise disagreement 5 breaks it.
- `NoOrphanLock`: a taken lock belongs to a thread that will release it.
- `OnlyTheseAbandon`: an item is left running with no thread to settle it only by a call
  without a runner, by a failure whose own write fails, or by a restart.
- `EndedForGood`: an item that has ended and that no call has in hand never changes
  again. A call that had read it before may still overwrite its end (hazard at 656).
- `LeaseMatchesStatus`, `CompletedNotOverstated`, `Reclaimable`,
  `CheckpointsKept`: stated in section 1.
- `AtomicLeases`: the refinement. It is checked and proved of the service, whose
  one loop is the only caller that holds tokens, and proved of the store with one
  caller. Callers that are not one service break it.
- `OneLoop`: a start that meets a stop, another start or a dying thread never
  leaves two loops on one worker id.
- `SubmittedWasThere`: the watcher lists and reads the directory file by file while
  it changes, and submits a manifest only after two scans have read it alike. It was
  then the directory's at one moment, unless a file that the first scan had settled
  changed before the second one came to it, and was back by then (`CameBack`). That is
  what the code can promise: with such a file the submitted manifest may be a mixture,
  and TLC finds one when the exception is dropped.
- `AnswerIsOwn`: a caller takes only the reply to its own request for an answer,
  however many callers before it gave up on replies that come later through the
  same pipe.
- `ActiveIsLoaded`, `NoStrayWorker`: a worker that is called ready has loaded that
  configuration, and a live worker is the client's or about to be shut down. The
  second has the exception of a `close` that did not get the lock (`raced`).
- `PreparedIsIndexed`: a preparation that reports success has its document in the
  index, whatever deletions timed out before.
- `LoadingIsKept`, `WarmsUp` (liveness): a worker that loads is taken down only by
  `close` or for another configuration; and callers that keep asking get one.
- `NoQuestionTwice`, `NumbersHaveNoGap`, `AnswersKept`: an interview in several
  tabs has no question answered twice but below the turn of a pause or a stop that
  was numbered past both answers, no gap in its numbers while no run dies (an
  answer would then meet a number that is taken, for ever), and loses no answer.
- `PublishedIsConfirmed`, `StatusIsDecided`, `VersionsAreFixed`: stated in section 1.
  The first speaks of the library of every place, whatever was restored or moved there.
- `RevokedLeavesLibrary`: FR-015, content that was revoked is not in the library.
- `StagedIsCurrent`: the copy that will replace a library is that library with
  one package added or taken out, so no other session's work is lost.
- `RelocationCarries`: when a relocation moves the pointer after a copy, both
  directories list the same.
- `FailureRestoresOwnBackup`: at the end of a roll-back the library lists what
  the call found and the package's document is there if it was, provided that the
  call's backup is of the library that it writes to.
- `PublishedStays`, `ListedHasFile`: the only ways in which a package leaves a
  library, or is listed without its document. The exceptions named in them are
  what the code does: a crash in a revocation loses the document first, a restore
  brings rows back and no documents, a relocation copies no documents.

**Bounds.** In `prep_safety` one session and the drain already give every
interleaving of a read-then-write call with the worker, and a second session closes the
runtimes under both. One source has every state and every race of a row; what takes
two is in `prep_live` (priorities and the drain's choice, for calls that schedule) and,
for any number, any calls and also for sources of one text, in the proofs. Two errors let one
meet what another has left behind, and one restart lets each of these be recovered.
`MaxQueued` 1 admits one drain that waits while another runs its `finally`;
`prep_live` uses 2. Two threads are what every race of
the agent queue and of the job store needs. Lease 1, delay at most 1 and a clock up
to 2 let a lease expire while its holder is between check and write; two claims
let a second worker finish the job. `CHECK_DEADLOCK FALSE` appears where
`close` may really deadlock, in `agent_writer`, where all items end, and where the
bounds end a run.
Three calls of two sessions let one publication be listed, and then a
revocation, a restore or a relocation meet a second call; one shared folder
and the two homes give three directories, enough for a backup of the wrong one.

In `service` two loop threads are enough for a start that finds an old thread
alive, and two starters for two starts at once; two files make a torn scan, and five
changes (`MaxChanges`) are what the shortest behaviour takes in which files come
back and the submitted manifest is a mixture. In
`bge_safety` two callers and two configurations let each take the worker from the
other, `MaxPipe` 2 leaves one reply unread while the next request is written, and
a process identity is used again when nothing refers to the old process. One
fault is a death or a failed start; after two the client is where it was after
one. `bge_warm` has one configuration, for two callers with different ones may
take the worker from each other for ever; and one close without the lock
(`RacesAgain` is FALSE), for each of them may leave a worker that nobody shuts
down, whose identity is then never free again, and there are two identities. In `expert`
six runs of a page are
what it takes to answer, draft, revise, confirm, publish and revoke, or to do less of
that in one tab and the rest in another; the budget of two turns lets an interview be
completed, three versions let an older revision come back, and two moves (`MaxMoves`)
let a library be changed and a backup be restored there.

**Fairness** (`FairSpec`). Threads keep running: weak fairness of a session's
next step and of the drain's. A lock that is free again and again is obtained:
strong fairness of the steps that take `_DRAIN_RUNNING_LOCK` after waiting
(Python's locks do not promise order, but a waiter that is overtaken for ever
would need a caller that asks for ever). `ORDER BY updated_at` brings each
pending row to the head: strong fairness of `DrainSelect(s)`. Another process
holds the writer lease for short writes only: strong fairness of an attempt that
is not busy. There is no fairness of calls, faults, restarts or the clock.
In `BgeWorkerClient` threads run on (weak fairness of `Step`), a lock that is
free again and again is obtained before ten seconds have passed (strong fairness
of `Await` and `Finish`), and a worker serves what it was sent (weak fairness of
`Serve`). A time-out may come at any moment: nothing says that a caller waits
until the models are loaded.

**Disagreements found.** Three are runs that TLC finds violated, listed with
their lines under `findings`:

1. `prep_close`: closing holds the lock that the running drain needs, and waits
   for that drain without its time-out.
2. `agent_writer`: two threads that listed one item both pass the re-entrant lock.
3. `expert_revoked`: a revocation is recorded for the artifact's current version,
   not for the one that was published; the other one stays in the library.

The models take the steps of these others too, and the properties above name
them as exceptions or leave the calls out:

4. Promoting a source writes back the row it read (adapter 2151-2169); a row the
   drain has settled meanwhile becomes `processing` with no worker, and every
   later claim is refused until a restart (1718-1720). `ProcessingIsOwned` is
   therefore checked without promotions; add `"promote"` to `Operations` in
   `SourcePreparationLive.cfg` to see it fail.
5. A claim whose candidate is deleted under it (1743-1767) looks like an empty
   queue: the drain ends and leaves other pending rows until the next call. A stamp
   does the same: of three sources, two with one text, the drain may select the
   second of these under the lock while a call that finds its vectors marks it
   ready; the third then waits. And so does a claim that meets an `sqlite3.Error`
   (1768). Hence `EnqueuedSettles` without deletions, without errors and with
   different texts; `"forget"` there shows it, or such a third source.
   `OnlyTheseStrand` says which steps can strand a source, and that there are no others.
6. `_require_lease` (`rag_v2/ingestion_jobs.py` 137) is a `SELECT` before the
   write's transaction, so a worker whose lease runs out in between can take a
   finished job back out of its final status. `AtomicLeases` fails with two callers
   that hold tokens.
7. `create_library_backup` reads the storage pointer again (`library_backup.py` 85)
   after the publisher has read it (`knowledge_publication.py` 241, 463). If it
   moved, a failed last check restores another library over this one; hence the
   proviso of `FailureRestoresOwnBackup`.
8. After the first turn the page always asks the same follow-up
   (`workspace_case_ui.py` 1018) and sends it as `question_override`;
   `validate_candidate_question` refuses a question that was asked. An interview
   in the application therefore takes two answers at most, one if it was paused
   first, although the plan's budget is ten and `specs/010-expert-knowledge-acquisition/spec.md`
   line 125 wants follow-ups. Every refusal is `RefuseAnswer` in the model.
9. A run that ends between `save_session` and `save_turn` of a pause (service
   269-280) leaves `checkpoint_seq` ahead of the turns; a second pause then
   numbers its turn past a gap, and each later answer, numbered by its count, meets
   a number that is taken. `NumbersHaveNoGap` excludes deaths for this reason.
10. An answer in one tab writes the session row it read and so reopens a session
    that another tab has stopped: `VALID_SESSION_TRANSITIONS`
    (`adaptive_interview_engine.py` 64) is used nowhere.
11. `start` while a stopped thread still works on its last job returns without
    effect and leaves the stop flag set: the service ends after that job. A job
    whose lease ends is claimed again before younger ones, so that one whose
    handler always dies holds the others up.
12. Four tabs a, b, c, d that pause and resume one after the other, each before any
    turn of a pause is saved, number these turns 1 to 4, since the row counts them
    and the table does not. If d's is saved first, and d resumes and answers, its
    answer counts one turn and is number 2; when a's is saved, the page of a tab that
    had read one turn asks the same follow-up, and numbers its answer 3 by the two
    turns it counts. Both are saved: one question has two answers.
    `NoQuestionTwice` says where such answers must lie; with two tabs, as in
    `expert`, there are none.
13. `start_workspace_chat_background_drain` submits outside `_PREPARATION_LOCK`
    (2196): a close in between has shut the executor down, `submit` raises in the
    caller, and until the close clears the flag (3480) other callers are turned away.
    `_drain_preparation_queue` makes the ledger's directory before its `try`
    (2265-2271): if that raises, the flag is never cleared but by a close.
14. Without a runner `process_next_work_item` leaves the item running (653), and a
    repository error in its `except` clause (660) does too; one after the result was
    stored (658) turns completed into failed. The application always passes a runner.
15. A file that leaves the content that one scan read and has it again when the next
    one reads it makes two different states look alike: the watcher submits a
    manifest of files that were never there together.
16. A deletion on a worker that was opened for questions is refused (its index is
    read-only), the preparation queue ignores that, and the vectors stay.

## 4. Proofs

All theorems hold for every value of the constants that satisfies the named
assumptions of the modules (`DocOfAssumption`, `WorksAssumption`,
`JobsAssumption`, `UnitsAssumption`, `TimesAssumption`, `ServiceThreads`,
`FoldersAssumption`, `TextsAssumption`, `LoaderAssumption`, `LeaseAssumption`,
`MovesAssumption`, ...), which TLC evaluates in every run. The bounds `MaxQueued`,
`MaxFaults`, `MaxRestarts`, `MaxTime`, `MaxAttempts`, `MaxCalls`, `MaxRuns`,
`MaxDeaths`, `MaxVersion`, `MaxMoves`, `MaxChanges`, `RacesAgain` and `MaxPipe` appear as guards and may have any value.

**Preparation.** `TypeCorrect` from `TypeInv`: the types, and that the drain
and every call in progress name a source. `ReadyAfterEmbedding` needs more than
`ReadyMeansEmbedded`, which is not inductive: a session may hold a snapshot that
says `ready` and write it later, a drain may be about to commit `ready`, and a
remembered lookup may outlive the vectors. `ReadyInv` adds one conjunct for each
of these (`SnapshotsEmbedded`, `DrainEmbedded`, `DocumentsEmbedded`), each kept by
its own lemma. `WakeupsAreKept` needs one more conjunct, `RefusedByClose`: an
executor that is shut down while a caller is about to submit to it belongs to a close
that has still to clear the flag. The interesting steps are the drain's second look,
which clears the flag under the lock that `StartSetFlag` needs, `DrainExit`, and the
errors that end a drain.

`ProcessingIsOwned` is false with promotions and after an error of the drain.
`OrphansHaveACause` says that nothing else breaks it, with all calls and all errors:
the set of processing rows without a worker (`Ownerless`) grows only at a `Rewrite`
of a row that was read earlier, at `DrainRaises` or at `DrainCommitLost`. It needs
`OwnerInv`: what a call is about to insert or stamp is never `processing`
(`CallsWrite`), and a drain that commits writes a settled state (`CommitSettles`). The
argument has two halves: who may put a row into `processing` (`RowWriters`,
`ProcessingComesFrom`: only the claim of a drain, which then works on it) and when a
drain lets go of its row (`OwnersStay`: only at its commit). From it
`ProcessingHasItsWorker`: without promotions and retries `ProcessingIsOwned` holds
until the first such error, whereas `prep_live` checks it for scheduling alone.

`StrandedHasACause` is the safety part of `EnqueuedSettles`, without its restriction
to one session that only schedules. A source is `Stranded` if its row is pending and
no drain is submitted, running, or to be started by a call that has written its row
(`Noticed`): only another call will get it going. The steps that lead there, listed in
`Stranding`: a restart; the first access after it, which makes processing rows pending
and starts nothing; a drain that leaves because a row is in processing, because it
loses its row between its `SELECT` and its `UPDATE`, because its claim failed with an
error that looks like an empty queue, or because of an error that it does not catch;
and a call that gives up before it has a drain, turned away by a flag that an error or
a close has left, refused by an executor that was shut down, or raising itself. TLC
finds a behaviour for each, so none can be dropped; eight of the ten occur in the
instance of `prep_safety`, and a row in processing or lost leaves another source behind
only where there are two (with two sources, two callers and one error TLC finds both).
The proof has two halves: a drain that is on its way stays so (`NoticeIsKept`, from
`WakeupNotLost`; under the lock a drain that saw nothing in processing and nothing
pending has seen the truth), and a new pending row comes with a call that will start
the drain (`NewRowsAreNoticed`, from `CallsWrite`).

**Agent queue.** `LockIsReleased`: the property is inductive together with
`TypeInv`. Its point is the step of another thread with the same item: whoever
releases frees the lock for both, and the lock is never left without one of them. Two
lemmas say that a step of one thread leaves the witness of another alone.
`RunningIsLeftOnlyBy` and `EndedItemsStay` are action properties, each from `TypeInv`
with one lemma about the thread that moves: what it does not settle it still has in
hand (`HandsKept`), and it leaves alone what has ended and it has not in hand
(`StaysEnded`), since every call that takes an item in hand reads a status that is not
an end.

What the queue does not keep is shown by its causes. `OneWriter` is violated, but
`LockIsTakenAwayOnlyBy` says that if every thread inside the lock works on the item
that holds it (`WritersHold`), this ends only by a cancellation that frees the lock
or when one of two threads inside for one item leaves; TLC finds that each of the
two is needed. `OthersMakeCallsStale` takes the statuses that each call has read
(`Fresh`) and shows that only another thread's write makes one of them wrong, not
the thread's own steps nor a restart. With one thread, all calls are therefore
fresh (`AllFresh` is inductive with `TypeInv`) and `OneThreadFollowsTheLifeCycle`
follows: absent, queued, running, an end; a call that fails after the result was
stored, in its runner or at 658, is the one step back.

**Job store.** `LeaseFollowsStatus` rests on what each write sets together;
`CheckpointsAreImmutable` on the table's keys. `CountIsCommitted` needs
`CountsCommitted`: a count that a repeated checkpoint has read and not yet
written is no more than what is committed, since commits only grow.
`LeasesAreBounded` needs `Timely`: a call began in the past and an expiry it
carries was legal when read. `OneCallerIsAtomic` assumes `OneCaller`
(any two threads are equal) and needs `CheckHolds`: what the check has seen is
still so at the write. It is this invariant that two callers with tokens break. Then
every step maps to a step of `LeasedJobs` or to a stutter.
`BrokenLeasesAreLateWrites` drops that assumption: with any number of callers the
one step that `LeasedJobs` does not have is `LateWrite`, a transition, a retry or a
checkpoint of a caller whose token or active status was gone when it wrote. So
disagreement 6 is the only way in which the store departs from the atomic queue.

**Publication.** `IInv` says that a call past `acquire` holds the lease of every
directory it works in (`Leased`), that a directory without a library lists
nothing (`Gone`), and what the library and the document look like at each stage
of the call (`Works`: `Prepared` and `Follows`). `StepApart` is the
heart of the argument: a step of one session changes no directory that another
one has leased, so `Works` survives the steps of others (`ApartKeeps`) and only a
session's own step has to be examined (`StepMine`). The six safety theorems are
read off `IInv`; the two about who may take a package or its document away go
through `OneWriter`, which lists the steps that write to a directory.

`ChangesAreSerial` is the refinement of `LibraryChanges`: every step of every session
is a change, a settlement, an undo or a backup of one library, or a stutter. `IInv`
gives that at most one call is in a library at a time and that a copy goes to a
library that lists nothing; `BackedUp` adds that what an edit would bring back and
what a restore brings was saved. A step of one session is then quiet in
every library (`Quiet`), opens one (`Opens`) or closes one (`Closes`), and each of the
three has one lemma that maps it. It was checked with TLC on the instance of
`library_safety` (444562 states) and is kept as a theorem, since it needs no bound.

**Ingestion service.** `ServiceUsesTheQueue` says that the composition is one
behaviour of the store (each step of the service is a step of `IngestionJobs` or
a stutter), so that the theorems of the store hold under the service without
another proof. `OneThread` carries `OneLoop`: the thread that lives is the one
that `start` knows, and none lives while a start holds the lock. `Snapshot` carries
`SubmittedWasThere`, for arbitrary changes of the directory: what the present scan has
settled is still there or has changed later (`StillThere`), and what the last complete
scan read was in the directory or one of its files is in `away` (`Basis`). At the end
of a scan that reads the same again, a file in `away` came back; if there is none, the
manifest is in `past`. `ServiceLeasesAreAtomic` proves the mapping to `LeasedJobs`
again, from `OneThread` in place of `OneCaller`: tokens are only with the thread
that lives.

**Worker client.** None of the six properties is inductive. `ClientInv` adds
`Locals` (what a call's local variables are at each of its steps), `Locked` (one
call works at a time, and a close() beside it if that gave up on the lock),
`Fields` (between its start and the end of its loading a worker is pending, then
active) and `Loads` (what a call remembers of a worker stays true of it); these
four carry `ActiveIsLoaded`, `NoStrayWorker` and `LoadingIsKept`. The pipes are the
heart of the matter. `Pipes` says that up to a "close", whose answer nobody reads,
the readers wait in the order of the requests: a reader that is abandoned stays in
its place, which is what `TimeOutDropsReader` breaks. `Names` says that a caller is
named at most once in a pipe, and only while it waits at that worker for an answer
it has not got. From both, `CallsHear` lists all that a call can be told, and
`AnswerIsOwn` follows. `PreparedIsIndexed` needs one more, `LastIsMine`: without a
race the call that waits has the last reader, and when it has its answer nothing is
left in the pipe, so that no deletion that timed out earlier can still be served
after a commit. `LoaderAssumption` only says that no thread has the name of the
reader that awaits "init".

**Controlled knowledge.** `KnowledgeInv` joins the types and `RowIsAVersion`,
`StatusIsDecided`, `PublishedIsConfirmed` with `PagesSealed`, without which the
last is not inductive: a page about to publish holds a version and a text that
are confirmed, and one about to put a package back holds a text that was
(`BackupsConfirmed` says the same of every list that may be restored). A text
once confirmed for a version stays so since decisions are only added, and a
version's text never changes. `QuestionsAnsweredOnceBelow` and
`NumbersWithoutGapBelow` carry over what is proved of the interview: a step of the
composition is a step of the interview or leaves it alone.

`RevokedLeavesLibrary` is violated. `RevokedTextStandsOnlyBy` says how far: a text
whose revocation is decided is newly in the library that the pointer leads to only in
five ways. A revocation records its decision for another version than it took out
(disagreement 3), or for a package that it took out of a library the pointer has left
since; a package is published that was sealed before the decision; a failed revocation
puts back a package that should have been out already; a backup from before the
decision is restored; or `select_library_mode` leads the pointer to a library that has
its own copy of the package. A relocation, which copies, is no such way. TLC finds each
of the five on the instance of `expert` with up to eight runs. The invariant behind it is `Withheld`: what a revocation has taken out of a
library stays out of it as long as it holds that library's writer lease. `LeaseAssumption`
says that no tab has the name of the free lease.

**Interviews.** `NoQuestionTwice` and `NumbersHaveNoGap` compare the turns of all
tabs, of which a run has counted only those that it read, so neither is inductive.
In `OnceInv`, a number is `Fresh` for a question if all lower numbers are taken by
turns of other questions, or if a pause or a stop has taken a number past it; once
so, it stays so, for turns are only added. Every answer is fresh (`AnswersFresh`), and
so is the number of a run that is about to save one, unless that number is taken
already (`Numbered`), since it is one past the turns that the run read. `ByCount` says
that only the turn of a pause or a stop has a number past the count of the turns: if a
number up to the count is free, one such turn lies beyond. `GapInv` says that while no
run has died every number below one that a row, a turn or a run has got hold of is
`Covered`: taken, or kept for the turn of a pause that is about to be saved. When no
run is under way, covered is taken. The original form of
`NoQuestionTwice`, without its exception, held in `expert` for two tabs; the attempt to
prove it for any number gave the behaviour of disagreement 12.

Only model-checked: `EnqueuedSettles` and `WarmsUp` (liveness under
fairness is out of the prover's reach), and of course the violated properties.
Every safety invariant and every action property that a run checks is a theorem.
Only proved: `LockIsTakenAwayOnlyBy`, `OthersMakeCallsStale`,
`OneThreadFollowsTheLifeCycle`, `BrokenLeasesAreLateWrites`, `RecordMeansRemoved`,
`RowsAreVersions`, `RevokedTextStandsOnlyBy` and `ChangesAreSerial`. The formulas are in
the modules of the proofs; those of `RecordMeansRemoved` (`RecordedIsRemoved`),
`RowsAreVersions` (`RowIsAVersion`) and `ChangesAreSerial` (`OneChangeAtATime`) are in
the modules of the components.

## 5. Not modelled

- The index registry, its bundles and chunk revisions, and the JSONL stores
  (`index_registry.py`, `index_bundle.py`, `chunk_revisions.py`,
  `workspace_chat_store.py` apart from the collection's storage,
  `shared_mailbox.py`): files that are read, changed and written whole with no
  lock. A model would say that one of two updates is lost, and the code claims
  no more. Rewriting a mailbox (`shared_mailbox.py` 111) also drops the lines that
  do not parse, a matter of text.
- Two application processes on one ledger (the second reclaims rows of the first)
  and the preparation queue's use of the writer lease, which is the busy writer of
  `DrainBusy`.
- The kinds of agent work: the application passes the runner of the newest request
  to `process_next_work_item`, which gives it the oldest queued item
  (`workspace_chat_app.py` 4809).
- The case workflow, consent, recordings, plans and gaps of the interviews, and the
  named-pipe transport of the worker.
- For good: retrieval, ranking and synthesis (pure computations over document
  text), providers and the network, the layout of the UI, the statistics of the
  prediction product, format conversion, and the command line.

Next would come `ControlledKnowledge` over `LibraryChanges` in place of its own
one-step publication.
`PROJECT.json` names the files of every part
that is left out and the reason for each.
