# Verification of the Vaultr AI backend

TLA+ models of the parts of this repository whose correctness depends on the
order of concurrent steps: the durable job queue, the way a document's objects
leave storage, what a version row says about its bytes, the processing of
uploads, the lease that tabular generation runs under, and the erasure of an
account. TLC checks them on small instances; TLAPS proves every safety property of
the passing runs, and that the queue implements its abstract specification, for every
value of the constants (three of them under a hypothesis on the faults or on time that
sections 5 and 6 state and show to be needed). Liveness is checked by TLC only.

All paths are below `src/backend/src/` unless they start with `migrations/`
(`src/backend/migrations/`) or `src/`.

## 1. The system

The backend is an Express application over Postgres (schema plus SQL functions
in `migrations/`), an object store, and optionally Redis with BullMQ. Several
processes run the same build: web processes, which also poll for jobs, and
workers. They share no memory; they meet in Postgres rows, in storage keys and
in BullMQ queues. No transaction spans Postgres and the object store.

| component | state | operations | meets |
|---|---|---|---|
| durable job queue (`lib/dbq`, `lib/queue/appJobsQueue.ts`, `workers/appJobsWorker.ts`) | `db_jobs` rows; BullMQ deliveries that carry a row id | enqueue with dedupe, cancel, claim (batch, single), settle under a fence, hook, defer, redeliver, sweep | every component with background work |
| document versions (`modules/documents`) | `documents`, `document_versions`, objects | create, replace, rewrite in place, delete, activate | trigger writes `document.cleanup` rows |
| document cleanup and text cache (`documents.cleanupJobs.ts`, `documents.textJobs.ts`) | cleanup and precompute rows, `extracted-text/<version>` objects | retire keys, coalesce rows, delete keys, write cache | versions, uploads, chat's `read_document` |
| uploads (`modules/uploads`) | sessions, session files, processing jobs with a lease | create, extend, queue, claim, heartbeat, process, retry | versions, storage cleanup |
| conversion (`documents.conversion*.ts`, `documents.maintenance.ts`) | `documents.status`, rendition objects | convert, finalize, sweep stale, recover | queue, versions |
| tabular extraction (`modules/tabular`) | cells with a generation stamp, generation lease of a review | begin, renew, finish, extract row, clear cells | queue, cancellation |
| exports and erasure (`modules/user`) | export artifacts, account rows | build, retain, download, erase | queue, storage |
| memory (`modules/memory`, `lib/memory`) | files, epochs, scheduled passes | schedule, consolidate, defer, reset | queue |
| connectors (`lib/mcp`, `lib/integrations`) | OAuth states and rotating tokens | start, complete, refresh, disconnect | queue (MCP refresh) |
| sign-in hand-off (`lib/authHandoff.ts`) | single-use tickets | create, consume | — |
| chat, projects, library, workflows, orgs, audit | rows | request-scoped CRUD | access checks |

What makes it hard:

* **At-least-once execution.** A job may run again after a crash, a hang past
  600 s, a lost update or a duplicated delivery, at the same time as the
  handler it replaces.
* **Two stores.** A row and the object it names are written in two steps; a
  crash or another actor can come between them.
* **Check, then act.** Reference checks, liveness checks and "is this still
  current" reads are followed by writes that no lock covers.
* **Rolling deployments.** A process of an older release claims kinds it does
  not know.
* **Deferral and revival.** A job may hand itself back without spending an
  attempt, and cleanup rows are revived even after they failed.

What makes each part correct: a row is settled by one claim, keeps to its
budget and, once accepted, is answered (queue); live bytes are never deleted,
dead bytes never forgotten (cleanup); an upload never resurrects a deleted
document (uploads); a review has one generation at a time and its cells belong
to one run (tabular); an erased account leaves nothing behind (erasure).

The complete lists of components and hazards, each with its line, are in
`PROJECT.json`.

## 2. Plan

| # | module | subject | state |
|---|---|---|---|
| 1 | `DurableJobs`, `JobQueue` | the promise to callers; rows, claims, deliveries | written, checked |
| 2 | `JobQueueProofs`, `JobQueueOutcomeProofs`, `JobQueueRefinementProofs` | type, budget, dedupe keys, fence; finished rows, cleanup intents, failure hook; refinement of `DurableJobs`, cancellation | proved |
| 3 | `DocumentCleanup`, `DocumentCleanupProofs` | versions, cleanup runs, cache writers, replacement uploads | written, checked, proved |
| 4 | `GenerationLease`, `GenerationLeaseProofs` | tabular lease, generation stamps of cells, clear-cells, sweep of stale cells | written, checked, proved |
| 5 | `UploadProcessing`, `UploadProcessingProofs` | session and job lease, heartbeat, steal, `document_created_at` guard, stale sweep | written, checked, proved |
| 6 | `AccountErasure`, `AccountErasureProofs` | artifact before pointer, retention, account purge against running work | written, checked, proved |
| 7 | `VersionContents`, `VersionContentsProofs` | hash, rendition and bytes of a version: in-place rewrite, conversion, replacement | written, checked, proved |
| 8 | OAuth completion and refresh, MCP refresh, memory passes | candidates | open |

The modules meet in the job rows and in the keys of the object store. `JobQueue`
has the life of a row in full; the others keep of it what their properties need
(a claim with its fence, a budget, deaths and stale claims) and leave backoff and
delivery to the choice of when a row is claimed. `DocumentCleanup` has the cleanup
rows and the runs that work on them in full; `VersionContents` and
`UploadProcessing` keep a set of owed keys. `UploadProcessing` has the uploads that
create documents, `DocumentCleanup` those that replace a file. An abstract
specification is stated for the queue (`DurableJobs`).

Each component has one `...Proofs` module (the queue has three, each extending the one
before). A proof module gives the inductive invariants first, then one lemma per action
or, where a component has many actions and few variables, a summary of what any step may
do to each variable, and the theorems last. Open: theorems about the next components, and
abstract specifications of the lease and of an upload session that the modules
could be shown to implement.

## 3. `JobQueue`

**State.** `rows` is the `db_jobs` table, one record per row that is ever
inserted. Times are kept only as far as guards read them: `due` is
`run_at <= now()`, `stale` is `claimed_at < now() - 600 s`, and `claimed_at` is
a coarse clock, which may stand still between a settle and the next claim (the
column's resolution does not exclude it) and moves on between a claim and its
stale reclaim. `claims` are the job objects processes hold, `deliveries` the
BullMQ queue keyed by (row, attempt), `ran` the rows whose effect has happened.

**Actions.** `Enqueue` (`enqueueDbJob`, with the partial unique index), `Cancel`
(`cancel_db_jobs`), `RequestCleanupDelivery`, `Tick` (`runDbJobTick` with
`claim_db_jobs`, abandonment included), `Deliver` (`runAppJobDelivery` with
`claim_db_job`), then the stages of `processClaimedJob`: a handler returns,
throws, refuses, defers or is unknown; `Settle` is the one fenced update, which
may match no row or err without being looked at; `RunHook` and `Redeliver`
follow whether or not it matched. The environment: backoff elapses, claims go
stale (those of live processes too), crashes, lost and stalled deliveries,
`Sweep` (retention). `MaxFaults` bounds crashes, hangs, throws, deferrals, lost
updates and delivery faults together.

**Abstract specification.** `DurableJobs` is what callers are told: an accepted
job is owed until its effect has been applied; a persistent job is neither
refused nor dropped; an answer stands. The refinement maps pending and running
to *owed* — and so for a cleanup row also failed, because it is revived — done
to *settled*, failed to *refused*, deleted to *gone*.

**Runs.**

| run | instance | checks |
|---|---|---|
| `jobqueue_poll` | Postgres driver, 2 processes, 2 rows of one key, one of which may defer, budget 2, 3 faults | `OneLivePerKey`, `AttemptBudget`, `SingleFinalizer`, `HookMeansOver`, `FinishedIsFinal`, `CancelSticks`, refinement |
| `jobqueue_live` | Redis driver, rolling deployment, a refusable row and a cleanup row, 1 fault | `TypeOK`, `SingleFinalizer`, `JobsFinish`, `CleanupHappens`, `CleanupIntentKept`, refinement |

Two processes are enough for a stale writer and its successor, two rows for a
key conflict, a budget of two for a first and a last attempt. Three faults allow
a hang, a crash of the successor and a lost update in one behaviour.

**Fairness** (`jobqueue_live`). Every process keeps polling (`setInterval`;
ticks never overlap and a failed tick is followed by another), a started handler
and the update after it end, backoff elapses, and the claims of dead processes
go stale because 600 s pass. Enqueues, Redis, faults and retention are not fair.
An older process is only deployed while faults remain: a rolling deployment
ends. Without that assumption a cleanup row could be rejected for ever.

**Known limits of the code.** A deferral refunds its attempt, so the redelivery of
the next claim reuses the id of a delivery still being processed, and BullMQ drops
it (the comment on `enqueueAppJobDelivery` says it never dedupes). The poll backstop
runs the row 60 s later, so nothing is lost. A worker that dies on a row's last
attempt leaves it to the claim statement's `abandoned` step, which fails it without
running its hook, although the comment of `DbJobFailureHook` promises one for every
permanent failure; `HookMeansOver` is the direction that holds.

## 4. What is proved of the queue

`JobQueueProofs`, `JobQueueOutcomeProofs` and `JobQueueRefinementProofs` prove, for any number of rows, processes, keys, budgets and
faults and with or without Redis, from `ConstAssumption` alone:

* `TypeCorrect`: `Spec => []TypeOK`. This includes that no attempt counter
  leaves `0..2^31-1`, although a cleanup row is claimed without limit and
  every deferral subtracts one.
* `BudgetCorrect`: `Spec => []AttemptBudget`.
* `KeysCorrect`: `Spec => []OneLivePerKey`.
* `FenceCorrect`: `Spec => []SingleFinalizer`.
* `FinalCorrect`: `Spec => FinishedIsFinal`, an action property.
* `IntentCorrect`: `Spec => CleanupIntentKept`, an action property.
* `HookCorrect`: `Spec => []HookMeansOver`.
* `ImplementsDurable`: `Spec => ImplementsDurableJobs`, the refinement.
* `CanceledStays`: `Spec => CancelSticks`.

*Type and budget.* `TypeInv` is `TypeOK`, `AttemptBudget` and `BudgetKept`.
`AttemptBudget` is not inductive on its own: a retry puts a row back with the
attempts it has, and that is below the budget only because the claim was not
spent. `Spent` reads the claim's copy of attempts and budget, so `BudgetKept`
says that rows and claims carry the budget the row was inserted with, and that a
claim bound for a retry has not used it up. There is one lemma per action, and
`TypeInvNext` puts them together.

*Keys.* A step that makes no row live and gives no live row a key keeps the
property (`RowQuiet`, `KeysKept`). Left are the enqueue, guarded by the index,
and the claim, which can revive a failed row but then drops its key.

*Fence.* Call a claim *current* when it may still write and bears its row's
`claimed_at`. `FenceInv` says that no claim is younger than its row, that a row
which can be claimed without moving its timestamp (pending, or a failed cleanup
row) has no current claim, and that no row has two. Attempts alone would not do:
a deferral refunds its attempt, so two claims of a row can be equal in attempts.
Timestamps alone are enough because only a stale reclaim meets a claim that is
still unsettled, and a stale reclaim is at least 600 s later.

*Outcomes.* `StepKinds` sorts the steps into insertions, claims, settlements and
quiet ones, and says of each what it does to a row; the action properties follow
kind by kind. `FinalCorrect` needs that a settlement meets a running row (the
fence) and that a claim takes a failed row only if its kind is a cleanup kind.
`IntentCorrect` also needs `KeyOrigin`: a row has the key it was inserted with
or none, so a cleanup row, inserted without a key, is no target of a
cancellation.

*Hook.* The hook follows the update whether or not the update hit a row, so it
is right only if the row cannot be claimed again. `HookOutcome` says that a
hooked row fails only when its budget is spent, because kinds with a hook throw no
`NonRetryableJobError`. `LastIsOver` says that the claim of the last attempt,
until it is put back by a deferral, is the last of its row: the row has failed or
is deleted, or it is running without an attempt left and nobody else is
current. Its proof uses `FenceInv` for the new claims of a claim statement, and
for a settlement that another claim of the row could make.

*Refinement.* The initial states map to the initial state, and `ImplNext` shows that
every step is a step of `DurableJobs` or leaves its variables alone: one lemma per action
says which (`Implemented`) and what it does to the flag of each row (`RowFacts`). The
invariant is `RefInv`. A settlement as done maps to `Complete` because a claim that
reports success has applied its effect or was canceled, and a claim is canceled only if
its row is (`Accounted`); a cancellation maps to `Revoke` because its rows were inserted
with its key (`KeyOrigin`); a handler maps to `Apply` because no claim is of an absent row
(`FenceInv`). A tick may refuse several abandoned rows at once, which is why `Refuse`
takes a set; a requeue, a claim and a failed cleanup row are stutters.

*Cancellation.* `CancelSticks` has a box under a box. `Dropped` is the stable part: the
row is canceled, its effect has not happened, and every claim of it knows that it is
canceled. It holds when no claim is in flight, and every later claim reads the flag from
the row (`ClaimFacts`), which keeps it through requeues, reclaims and revivals (`FlagKept`).

TLC checked `TypeInv`'s and `FenceInv`'s parts before they were proved.

Only model-checked: `JobsFinish` and `CleanupHappens`, and the liveness of the other
modules (`RetiredFilesErased`, `NoEternalSpinner`, `QueuedFilesEnd`,
`NoEternalProcessing`). TLAPS cannot reason about fairness and ENABLED. The runs that end in a violation
(`cleanup_retry`, `lease_dedupe`, `versions_hash`) refute their property, which therefore
has no theorem or one with a hypothesis that excludes the fault.

## 5. `DocumentCleanup`

**State.** `version` is the `document_versions` table (live, soft-deleted or
gone, and the file it points at); `object` the store, with the file a key's
bytes come from — the cache slot of a version has the version as its key, so a
*stale* cache is a slot whose bytes come from a file the version no longer has.
The source and the rendition of an upload are one object: they are retired and
deleted together. `uploads` is the progress of each replacement, `reading` the
storage path a `read_document` call has loaded, `rows` the cleanup and precompute
rows, `runs` what each worker slot is doing.

**Actions.** `DeleteVersion` (the SQL function), `DeleteDocument` (any deletion
that cascades), `CommitUpload` (`updateDocumentVersion`): each inserts what the
trigger `queue_document_version_cleanup` inserts in the same transaction.
`StartUpload`, `CopyFile`, `RecordUpload` and `RetryUpload` are the steps of
`processReplacementDocumentVersion` inside `processUploadJob`. `EndRead` is the
cache miss that enqueues a precompute job with the path read at `StartRead`. A
cleanup run goes through `Coalesce`, `Guard` (a running cache writer defers the
batch), `Lookup` (one reference check), `Delete` (one key at a time) and
`Settle` (each row by the outcome of its own keys, siblings first). A precompute
run goes through `Check`, `Load`, `Write`, `Recheck`, `Retire`. `Fence` is the
claim fence; a slot works on one claim at a time, so the slot's name stands for
the token (attempts, claimed_at).

**Runs.**

| run | instance | checks |
|---|---|---|
| `cleanup_safe` | 2 versions sharing a legacy file, 1 replacement, 2 slots, 3 rows plus follow-ups, one crash or error | `TypeOK`, `LiveFilesExist`, `RetiredFilesOwed`, `StaleCacheOwed` |
| `cleanup_live` | 1 version, 1 replacement, 2 slots, 2 rows plus follow-ups, one hang or upload retry | `RetiredFilesErased` |
| `cleanup_retry` | 1 version, 2 replacements, upload retries | finding: `LiveFilesExist` |

`MaxRows` bounds the rows requests and uploads insert; rows that precompute
runs enqueue come on top, at most one for each attempt. Two versions are what
sharing needs, two slots what coalescing each other's rows needs; three rows
allow a replacement, a read and a deletion, or a replacement and the deletion
of both versions. One fault at any step covers every single failure.

**Fairness** (`cleanup_live`). A started run goes on; a row that is due again and
again is claimed (claims are ordered by `run_at`, so none is passed over for
ever); spent rows are abandoned. Uploads, reads and deletions are not fair.

**Proved** in `DocumentCleanupProofs`, for any versions, uploads, slots, rows and faults:

* `TypeCorrect` and `RetiredFilesStayOwed` (`RetiredFilesOwed`) with no fault excluded; the
  bytes of an upload that is repeated are in progress again, and exempt, until it commits. The
  property is not inductive: a run that is past its reference check may settle the row that
  names the bytes. `RetiredInv` strengthens "some row that is not done names the key" by
  `Ahead`: no run that holds this row is past the check without the key among those it has
  yet to delete or failed to delete. So no settlement, not even one by a run
  whose claim was taken over, closes the last row that names bytes which are still there.
* `StaleCachesStayOwed` (`StaleCacheOwed`), when no process goes on after its claim was
  taken over (`"zombie" \notin Faults`). `StaleInv` says that a writer at work holds its
  claim and, once the version has changed under it, some cleanup that names its slot has yet
  to look for writers; what a finished writer left behind has a witness as above. The
  hypothesis is needed: with a single hang, TLC finds a violation on one version (see the
  known limits).
* `LiveFilesStay` (`LiveFilesExist`), when no committed upload is repeated
  (`"retry" \notin Faults`). `Kept` says that cleanup rows name, and runs delete, only files
  that were committed once; without a repetition such a file is never pointed at again, so
  the gap between reference check and delete does not matter. `cleanup_retry` shows that
  the hypothesis is needed.

**Finding.** `cleanup_retry`: a replacement upload's key depends on the upload alone
and its update is unconditional. An attempt that committed but was not recorded, and
is retried after a newer replacement, points the version at the retired key again;
between a cleanup run's check and its delete this costs a live version its file.

**Known limits of the code that the properties respect.** `StaleCacheOwed` is
checked without hung claims: a cache writer that hangs past 600 s stops counting
as active once its row is failed or claimed by another, and may upload after the
cleanup. Between a replacement and its cleanup the slot of the version still
holds the old text; the property says it is owed, not that it is gone. A replacement overtaken
by the deletion of its version fails with a plain error and its copied object is
named by nothing (the create path and the new-version path hand such bytes to
`storage.cleanup`).

## 6. `GenerationLease`

One review. A generation is numbered by the order in which its lease begins.

**State.** `lease` is `active_generation_id` with "has not expired"; `cells` the
`tabular_cells` rows, where the content is the generation that wrote it and
`stamp` is `generation_id`; `requests` the progress of each generate,
regenerate-cell or clear-cells request; `jobs` the live row of each dedupe key;
`execs` the row extractions under way, in a worker (current claim or zombie) or
inline in a request; `sweep` the pass over stale cells. `async` is the deployment's
`ASYNC_TABULAR_EXTRACTION`, either way.

**Actions.** `Begin*` is `begin_tabular_review_generation` called by each of the
three requests (a call that finds the lease held, or `updated_at` changed, changes
nothing). Then `Load` and `ClaimCells` (generate), `StampCell` (regenerate),
`CancelJobs` and `BlankCells` (clear); `Enqueue`, `HandOver`, `UndoCell`; inline
`Abort`, `InlineOver` and `RowFails` (one row throws: `Promise.all` rejects and the request
ends, the other rows go on); `FinishRequest`, the `finally` block. The lease in time is
`Lapse`, `LapseHung` and `Renew`. A job is claimed (`Claim`, `Reclaim`,
`ReclaimHung`, which also fails a last attempt that hangs), reads its cells (`Start`), marks and fills them one by one (`Mark`,
`Answer`), and leaves through `ClearStamps`, `CheckIdle`, `Release`, `Settle` and,
spent, `Hook` and `Flip`. The sweep reads, looks up the lease and the jobs, flips
and releases in separate steps.

**Properties.** `OnlyLatestWrites`: no result over the work of a later request.
`FinishedCellsKept`: a result disappears only where a request asks for that.
`LeaseOutlastsWork`: the "last one out" check releases the lease of a handed-over
run only when none of its cells is stamped; until it is released or lapses, no
other request writes. `NoEternalSpinner`: see below.

**Runs.**

| run | instance | checks |
|---|---|---|
| `lease_safe` | 2 rows, 1 column, 2 requests of any kind, budget 2, one crash, hang or failure; rows symmetric | `TypeOK`, `OnlyLatestWrites`, `FinishedCellsKept`, `LeaseOutlastsWork` |
| `lease_live` | 1 row, the same, with the sweep | `NoEternalSpinner` |
| `lease_dedupe` | 1 row, two generates, no faults | finding: `HandedRunEnds` |

Two rows are what "last one out" needs, two generations what a lapse needs: one
that is superseded and one that supersedes it. A budget of two has a retry and a
last attempt. Waiting jobs let the lease lapse without any fault, so one fault
still leaves a zombie against a successor. One column keeps a row's job and its
single-cell job on the same cell, where they collide; several columns of one job
behave like several rows.

**Fairness** (`lease_live`, `lease_dedupe`). Requests and claimed jobs proceed,
pending jobs are polled for, the claims of dead workers go stale, 300 s without a
renewal pass, and the sweep is on a timer in every worker process
(`workerRuntime.ts`). Nobody has to make a request, and nothing has to fail.

**Proved** in `GenerationLeaseProofs`, for any rows, columns, requests, budgets and faults:

* `TypeCorrect`, with `Authors`: what acts for a generation (a stamp, a job, an
  extraction, a sweep's reading) does so after its request has written its cells.
* `LeaseHeldWhileWorked` (`LeaseOutlastsWork`), without a hypothesis. The check for idleness and the release
  are separate steps; `Released` says that a generation once found idle never gets a stamp
  again, because its request has written and only requests stamp. So it does not
  matter who runs the release, or how late.
* `FinishedCellsStay` (`FinishedCellsKept`), without a hypothesis. `Unfinished` says that,
  with the queue, what a run has to do under its own stamp is not finished.
* `LatestRequestWins` (`OnlyLatestWrites`), under `PromptRequests`. `Prompt` says that a
  request that has yet to write is the last one and has the lease; `Latest` that a stamped cell
  carries the stamp of the last request that wrote it, so the guard on the stamp turns every
  superseded run away. Without the hypothesis `Prompt` fails, and TLC violates
  the property within seconds.

**Finding.** `lease_dedupe`: the dedupe key of an extraction job names the row, the
job's guard names the generation. A job that waits longer than 300 s outlives its
lease; the next generate stamps the cells, and its enqueue is absorbed by the old
job, which then owns nothing. The second run's cells stay pending and stamped, its
lease lapses, and no worker comes. A third request repairs it.

**Abstractions.** Extraction jobs follow the Postgres driver (a BullMQ job goes
through the same handler and hook). Columns and rows do not change and every cell
exists. In the sweep, the two job lookups of a cell are one step and the lookup for
the row is repeated for each cell; the limit of 500 cells is left out. Updates of
cells do not err.

**Known limits of the code that the properties respect.** `PromptRequests`: the
lease of a request does not lapse between its begin and its first write, which goes
by cell ids without a guard (`claimCellsForGeneration`, and the stamp of
`regenerateTabularCell`). A pause of 300 s just there would let it take the cells
of its successor. `FinishedCellsKept` says nothing of the sweep: a canceled job that
is claimed again drops its stamp and leaves a cell "generating" without one; the
sweep updates such a cell without a guard, so it can wipe a result that a later run
wrote after the sweep read it (this takes three requests on one row). Without the
queue (`async` FALSE) there is no sweep, and a crashed request leaves its spinners.

## 7. `UploadProcessing`

One session that creates documents (`document_create`).

**State.** `session`, `files` and `jobs` are the rows of `upload_sessions`,
`upload_session_files` and `upload_processing_jobs`; `docs` the `documents` row of
each file and whether its first version is stored; `store` the staging, sealed and
document object of each file; `owed` the cleanup jobs for the document object, which
delete it either without looking (`storage.cleanup`) or only if no version names it.
`requests`, `execs` and `eraser` are the completion requests, the claim loops and the
one cancellation or sweep that deletes objects. `removed` and `faults.late` are
history variables: how the user deleted a document, and whether a step outlasted a
lease or a backoff.

**Actions.** The client: `PutObject`, `Complete`, `ReportFailed`, `RefreshUrls`.
`RequestStep` goes through `completeSessionFile`: verify, seal, write, queue, refresh.
`Claim` is `claim_upload_processing_jobs` (lease, `locked_by`, attempts), `WorkerStep`
goes through `processUploadJob` and `processCreatedDocument`: the guard on
`document_created_at`, the upsert, its marker, the copy, the version, the publication,
the cleanup of each kind of failure. `CallFails` and `CrashWorker` may end any step,
`LeaseLapses` also takes the lease of a worker that still runs. `BeginCancel`,
`Expire` and `EraseStep` are cancellation and `cleanupUploadSessions`,
`SweepDocument` is `sweepStaleProcessingDocuments`, `EndExhausted` the end of jobs
without attempts, `DeleteDocument` the user, `RunCleanup` the queued deletes.

**Properties.** `CompletedHasBytes`: a file reported as completed has its version and
its bytes. `StaysDeleted`: a document deleted between two attempts is not created
again. `ResultsStand`: nobody takes a published result back. `QueuedFilesEnd` and
`NoEternalProcessing` are liveness.

**Run.** `upload_live`: one file, two claim loops, two attempts, one request at a time,
one crash, hang or failed call anywhere. Two loops are what a stolen lease needs, two
attempts what a retry needs. The safety part was also checked with two faults, and
with two files without faults: files of a session meet only in its status.

**Proved** in `UploadProcessingProofs`, from `ConstAssumption` alone, for any number of files,
workers, attempts, requests and faults, late workers included: `TypeCorrect`,
`CompletedKeepsBytes` (`CompletedHasBytes`), `ResultsStay` (`ResultsStand`) and `StaysGone`
(`StaysDeleted`). `Leases` says that the holder of a lease is the last attempt of its job;
`Stages` that the status of a file follows that attempt, and that an attempt which failed
without a retry left means the file is never completed. `Bytes` adds that the holder has stored what its
step presumes and that a blind delete is owed only for a document recorded as deleted;
`Gone` that a quiet deletion is known to every attempt under way or to come. The proof goes variable by variable: a frame lemma says
which actions may change each one, a summary (`FileSteps`, `JobSteps`, `ExecSteps`, ...) how, and
the invariants follow from the summaries. TLC checked the invariants with two faults first.

**Fairness.** The loops poll and go on (`setInterval`), leases of the dead lapse
because 30 minutes pass, and both sweeps are on timers. The client owes nothing.

**Abstractions.** The heartbeat and the write it guards are one step, as are a claim
and the reads that follow it; `EndExhausted` is one step; one eraser runs at a time;
best-effort deletes of single objects succeed. `SweepDocument` looks neither at the age of
a document (30 minutes) nor for a live conversion job, so it may flip a document
earlier than the code does, and nothing is said about live conversions. The cap per user, backoff, the order of
claims, the retention of session rows, temporary files and the extension of deadlines
are left out, and so is `document_version_create`.

**Known limits of the code that the properties respect.**

* A cancellation reads that no file is handed over, a completion queues one, and the
  cancellation then deletes its bytes (`uploads.sessions.ts:601`; the docstring at 571
  says a handed-over session is refused). The job fails cleanly.
* A document that the user deletes while a job is at work on it (between the check of
  the marker and the upsert, or after a crash between the upsert and the marker) is
  created again; `StaysDeleted` is about documents deleted quietly.
* `removeFailedCreatedDocument` deletes the bytes of a document whose version an
  earlier attempt committed, when the last attempt fails; `RemovesDocument` models it
  and `CompletedHasBytes` holds because such a file is not reported as completed.
* A crash between the publication and the delete of the sealed object leaves that
  object, and `cleaned_at` is stamped although it is there.
* A session may show "processing" until the next request refreshes it.

## 8. `AccountErasure`

**State.** `rows` are the `export.build` rows and the one `account.delete` row; `docs`
the rows of each document, `objects` the artifacts and the bytes of documents,
`uploads` how far the upload of each document is, `execs` what each worker does,
`gone` whether the auth user is deleted, `blocked` whether the user is the sole admin
of an organization. `overlap` is a history variable: the work that an erasure found
under way or met, and the bytes a best-effort sweep did not come to. `expiring` is the
exports whose artifact a retention sweep has just deleted and whose row it has yet to.

**Actions.** `RequestExport`, `StoreArtifact`, `Settle` are the export (artifact first,
then the result of the row that names it), `ExpireArtifact`, `ExpireRow`, `CrashSweep`
and `ForgetFailed` its retention (artifact, then row, and a sweep that stops in between);
`StartUpload`, `CopyBytes`, `CreateVersion`, `CleanUpload`, `CrashUpload`
the uploads; `CheckBlockers`, `PurgeArtifacts`, `DeleteDocuments`, `ListStorage`,
`FindOrphans`, `SweepStorage` or `SkipSweep`, `LeaveOrgs`, `DeleteArtifacts`,
`PurgeRows`, `DeleteUser` the erasure in the order of `handleAccountDelete` and
`deleteUserAccountData`; `Claim`, `ClaimAges`, `Throw`, `CrashWorker`, `Abandon` the
queue.

**Properties.** `ErasureLeavesNothing`: what is left of a deleted user was under way
during the erasure. `OrgBytesKept`: an organization keeps the bytes it owns, although
their key has the user's prefix. `ArtifactsKeepTheirName`: an artifact is not
stored without a row, wherever a handler or a sweep stops.

**Run.** `erasure_safe`: one export, a personal and an organization document, two
workers, two attempts of each job, two crashes, hangs or failures. One of each is what
the properties speak about; two workers let an erasure meet a running export or its
own zombie.

**Proved** in `AccountErasureProofs`, from `ConstAssumption` alone, for any number of exports,
documents, workers, attempts and faults: `TypeCorrect`, `ErasedAccountLeavesNothing`
(`ErasureLeavesNothing`), `OrgKeepsItsBytes` (`OrgBytesKept`) and `NoArtifactLosesItsName`
(`ArtifactsKeepTheirName`). One invariant, `ErasureInv`, gives the three. `Meeting` says that
what is under way during an erasure is in `overlap`; for the rest, `Erased` says how far each
erasing worker (the current claim or a zombie) is with each document: gone from the table
from the listing on, gone from storage from the sweep on, or still in its hands.
`Unrequested` and `Artifacts` say the same of exports and their artifacts, `Expiring` that
the artifact of a row the retention sweep is about to delete is gone and stays gone,
`Kept` that no sweep
is after the bytes of an organization's version. Nothing a second erasure does undoes this.

**Abstractions.** The detachment of the user's organizations is one step, the tables
without objects, the path for deployments without a queue and the dedupe of export
requests are left out. That jobs end is checked in `JobQueue`.

**Known limits of the code that the properties respect.** An upload or an export that is
under way when the erasure begins, or starts before the auth user is deleted, needs no
session: its rows (with a null owner, migration 20260904_01 has SET NULL where the
comment at `user.account.ts:81` says CASCADE) and its bytes stay, although
`user.accountJobs.ts:34` says no new data can appear. The erasure can be refused at
`deleteUserOrganizations`, or on a retry, after it has destroyed data. An artifact of a
failed export has no name once its row is forgotten after 30 days, until the account is
erased. The sweep can take the bytes of an organization's upload before its version
row names them; a sweep that fails is logged and leaves unclaimed bytes.

## 9. `VersionContents`

One version of a document, and what its row says about the object store.

**State.** `live`, `file`, `pdf` and `hash` are the row: whether it lives, its file, its
rendition and its hash. A *content* is the file it came from and the tracked changes resolved in it; the
hash is the content it was computed from, an object is the content it holds, a rendition
the content it was rendered from. `job` is the conversion row, `worker` its attempts (an
old one may go on beside its successor), `request` the requests that resolve a change,
`marked` the changes whose row says accepted or rejected, `owed` and `cleaner` the keys
to delete and the one a cleanup run has found unreferenced. `crossed` and `adrift` are
history variables: two writers were at the file, or a rewrite and a conversion were; and
keys whose writer could not or did not live to have them named.

**Actions.** `Read`, `Clear`, `Overwrite`, `Rehash`, `Mark` are the steps of
`resolveEdit`, `Quit` its end at any of them. `Replace` is the commit of a replacement
upload (its keys are fresh, so what comes before is not seen), `Delete` the deletion of
the version, both with what the trigger retires. `Claim`, `ConvertFails`,
`UploadRendition`, `Attach`, `Report` are `runConversionJob` with the settling of its
row; `Fail`, `Die`, `Abandon` and a claim of a hung row are its faults. `Lookup`,
`EraseObject`, `CleanupRetry` are the cleanup job.

**Properties.** `RecordMatchesBytes`: hash and marked changes agree with the bytes,
wherever a request stops. `RenditionMatchesBytes`: no rendition of older bytes or of a
replaced file is attached. `DeadBytesOwed`: what no live version names is owed to a
cleanup or still in the hands of the attempt that stored it.

**Runs.**

| run | instance | checks |
|---|---|---|
| `versions_safe` | 2 request slots and changes, 2 requests, 1 replacement, 2 workers, 2 attempts, 1 fault | `TypeOK`, `RecordMatchesBytes`, `RenditionMatchesBytes`, `DeadBytesOwed` |
| `versions_hash` | the same without replacement and faults, 1 attempt | finding: `HashNamesTheBytes` |

Two requests are a rewrite beside another one, or a retry after a stopped one; two
workers a hung attempt and its successor. The run was also made with two faults (four
minutes, no violation). No liveness is claimed: nothing here waits for anything but the
queue.

**Proved** in `VersionContentsProofs`, from `ConstAssumption` alone (the files differ,
`Nothing` is none of the data, the bounds are numbers): all four properties, for any number
of changes, requests, workers, replacements and faults. None is inductive. `TypeInv` adds
to the types what a request or an attempt holds at the step that needs it. `LiveFile` says
that the file of a live version is there and neither owed nor in the hands of a cleanup
run, so no cleanup takes bytes from under a rewrite; it rests on the fresh keys of a
replacement and on the reference check, because no step makes an owed key live again
except a conversion, which writes renditions only. `Solo` says that without a meeting of
writers the one rewrite there is works on the version's file, knows its bytes, and holds
the hash empty from `Clear` to `Rehash`; `Marked` carries a resolved change from the bytes
to its mark. Together they are `RecordInv`, which gives `RecordTrue`. `RenditionTrue` adds
`Apart`: without a crossing no conversion runs beside a rewrite, the rendition is given up
before the bytes change, and every attempt, hung ones included, holds the bytes of the
file as long as the version names it. `DeadOwed` is inductive given `TypeInv` and
`LiveFile`: each step that drops a reference writes the cleanup row, and a rendition stays
in hand until it is attached, reported or adrift. TLC checked `TypeInv`, `LiveFile`,
`Solo`, `Marked` and `Apart` before they were proved.

**Finding.** `versions_hash`: two requests for two changes of one version read the same
bytes. The first overwrites them and stores its hash; the second, which cleared the hash
before that, overwrites the bytes again. The hash now attests to content the version
does not hold, for good if the second update fails or its process stops; and the first
change, marked accepted, is not in the bytes. A replacement that commits during a rewrite
has the same effect: the update of the hash goes by the version id alone.

**Known limits of the code that the properties respect.** A version deleted or replaced
after a rewrite has read its path gets its old path written again, perhaps after the
cleanup has run (`adrift`; the update that matches no row is not noticed). A rewrite that
overlaps a conversion leaves a rendition of the old bytes: the fence of the update is the
storage path, which a rewrite keeps. An attempt that dies between storing the rendition
and attaching or reporting it leaves the object to its retry, and to nobody if the original
is gone by then. A retried conversion can attach its rendition between the reference check
and the delete of a cleanup run that an earlier failed update asked for, so the named
rendition may be missing; `RenditionMatchesBytes` allows for that.

**Abstractions.** The document has one version, so the activation of another one between
the two reads of `resolveEdit` is left out. The trigger's `extracted-text` key is in
`DocumentCleanup`. Whether a change is found in the bytes is whether it is not yet resolved
in them. The turn-scoped rewrite of `documentOps.ts:1185` follows the same pattern and is
not modelled apart.

## 10. Not modelled

Wording, formats, parsing, rendering, model calls, access checks, the inline
cleanup fallback for deployments without a queue, the user interfaces.
Each component of `PROJECT.json` that is not modelled has its reason there.

## 11. Running

    tlc -config JobQueue_poll.cfg MCJobQueue
    tlc -config DocumentCleanup_safe.cfg MCDocumentCleanup
    tlc -config GenerationLease_safe.cfg MCGenerationLease
    tlc -config UploadProcessing_live.cfg MCUploadProcessing
    tlc -config AccountErasure_safe.cfg MCAccountErasure
    tlc -config VersionContents_safe.cfg MCVersionContents
    tlapm JobQueueProofs.tla
    tlapm JobQueueOutcomeProofs.tla
    tlapm JobQueueRefinementProofs.tla
    tlapm DocumentCleanupProofs.tla
    tlapm GenerationLeaseProofs.tla
    tlapm UploadProcessingProofs.tla
    tlapm AccountErasureProofs.tla
    tlapm VersionContentsProofs.tla

Every run finishes in about two minutes or less. A comment "Mutation" marks a definition that
stands for a plausible mistake in the code; `PROJECT.json` pairs each property with the
mutation that breaks it.
