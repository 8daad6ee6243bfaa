# TLA+ specifications of Corpus

Corpus admits PDF documents over an HTTP API, keeps their bytes in a blob store and
their identity in PostgreSQL, and has worker processes extract every page. These
modules specify the parts of its backend in which several actors share state: admission,
the durable processing of jobs and the files of their pages, the blob store under both,
the registers and the rate limit that readers meet, the in-memory documents of the legacy
path, and the start and stop of a deployment. TLC checks them on small instances; TLAPS
proves most of their safety for every number of the actors.

Paths below are relative to `src/`; `repositories.py`, `worker.py`, `main.py` and the
like are in `backend/app/`.

## Inventory

| component | state | operations | what must hold |
|---|---|---|---|
| **Durable processing** (`repositories.py`, `worker.py`, migrations) | tables `processing_jobs`, `page_checkpoints`, `processing_attempts`, `derived_representations`; the locals of each worker | create, retry, recover, claim, heartbeat, set total, ensure/list checkpoints, mark page, commit page, fail page, finalize, fail document | completed pages stay; a completed job is whole; the lease fences the job; one active job per source; every queued job is settled |
| **Requests for jobs** (`create_processing_job`, `retry_job`, `admit`, `commit_page_artifacts` of one source) | row locks, the index of active jobs | lock, insert, update, answer | every call is answered; the source gets the job that was asked for |
| **Admission** (`main.py` `admit_source`, `repositories.py` `admit`) | `canonical_objects`, `sources`, `source_arrivals`, `source_enrollments`, `admission_requests`, advisory locks, canonical blobs | stage and store the bytes, lock, look up the key, upsert, record, answer | one arrival and one answer per idempotency key; no row without its blob; one delivery is new; no redundant job |
| **Page artifacts** (`worker.py` `_persist_page`) | staging files, derived blobs | stage, put, commit, clean up | a committed representation has its bytes |
| **Blob store** (`blobstore.py`) | files and S3 objects under staging and final keys | put, finalize, open, clean up staging | a final object is whole; cleaning never removes one |
| **Ephemeral documents** (`storage.py`, `/extract`, page images) | the dict `_documents`, temporary files | store, get, sweep, evict, render | a record has its file; nothing outlives its time |
| **Rate limit and access** (`main.py` `security_middleware`) | a deque of times per client | admit, refuse | never more than the limit within a minute, and none refused that is within it |
| **Custodians and corpora** (`main.py`, `repositories.py`) | tables `custodians`, `corpora` | create, list | one custodian per slug, none without its corpus |
| **Process supervisor** (`render_supervisor.py`) | two child processes, the flag `stopping` | poll, signal, terminate, kill | a stop is orderly; one child does not outlive the other; the service comes back |
| **Migrations** (`db/migrate.py`) | `schema_migrations` | read, apply | each migration is applied once and in order; nothing serves before |
| **PDF processing** (`processor.py`, `extraction.py`, `rendering.py`) | none | parse, render | sequential code on one PDF |
| **Read endpoints** (`main.py`, `repositories.py`) | none | queries scoped by custodian | a list read in several statements and requests skips nothing |
| **Configuration, diagnostics** (`config.py`, `diagnostics.py`, `database.py`) | none | parse, ping | no state changes |
| **Frontend** (`useCorpusContext.ts`, monitor, register, inspector, admission form) | React state, timers, abort controllers | load, select, poll, retry, admit | what is shown belongs to what is selected |
| **Scripts** (`scripts/`) | none | operator demos | outside the running system |

How they interact. The browser calls the API. `admit_source` writes the blob first and
then, in one transaction, the rows, among them a queued job; `create_processing_job` and
`retry_job` queue jobs too. Workers share nothing with the API or each other but the
database and the blob store: they poll for queued jobs, hold a job by a lease
(`lease_owner`, `lease_expires_at`), and a thread beside the main one renews it. There
is no other coordination: whatever a worker does after its lease was lost arrives at the
same tables. The legacy `/extract` path has its own in-memory registry, used by the event
loop and by threads of a pool. On Render one container is a migrator and then a supervisor
with an API and a worker as children; containers of two deployments overlap.

What is hard: a worker that only looks dead goes on (there is no fencing token in
`commit_page_artifacts`, `mark_page_pending`, `set_total_pages`); state is read in one
transaction and used in later ones (the page list and its attempt counts,
`worker.py:114-120`); processes stop anywhere; leases lapse under a running worker; the
answer of an admission is lost and repeated; two advisory locks are taken in two steps;
a retry locks two rows, in the order opposite to that of foreign keys; uploads of one content meet in the blob store while cleanups go through its staging area;
a dict is iterated beside its writers; a signal handler interrupts a poll loop anywhere.
`PROJECT.json` lists these hazards by line with the properties that would catch them.

## Modules

### `DurableProcessing`: jobs, pages, attempts, workers

| in the model | in the code |
|---|---|
| `job` | rows of `processing_jobs`; `lease` says whether `lease_expires_at` is null, ahead or past |
| `page` | `page_checkpoints`, and in `rep` the attempt whose commit inserted the page's pair of representations |
| `attempts` | rows of `processing_attempts`; an attempt whose `ended_at` is null has outcome `"open"` |
| `worker` | program counter and locals of each worker's main thread: the claimed job, its attempt, and `todo`, the local `attempts` of every page the loop has still to visit |
| `spent` | how much of each bound is used; no code |
| `CreateJob`, `RetryJob` | `create_processing_job`, `retry_job` with the unique index `uq_processing_jobs_active_source` |
| `RecoverExpired`, `ClaimJob`, `ClaimNothing` | the two transactions of `claim_job`, and its `None` |
| `StartProcessing` .. `ListCheckpoints` | `process_claimed_job` up to the page loop |
| `CheckLease`, `MarkPageProcessing` | the snapshot and the write of `mark_page_processing` |
| `CommitPage`, `PageFails` | the rest of one turn of the loop |
| `FinalizeJob`, `RejectDocument`, `Fault`, `DropClaim` | the ways out of `process_claimed_job` and `run_forever` |
| `HeartbeatJob`, `LeaseRunsOut`, `HeartbeatStalls` | `LeaseHeartbeat` and the passing of time |
| `WorkerExits` | a crash, or SIGTERM: both leave the tables as they are and never release the lease |

One action is one transaction. The exception is `mark_page_processing`: under READ
COMMITTED an UPDATE that waited for a row evaluates its condition on that row again but
not the `EXISTS` on another table, so the lease check and the write are two steps.
Workers are separate processes and a restarted one takes a new id (`worker.py:46`), so an
id that exits never comes back. Time is only the fact the code asks for, whether a lease
has passed. Left out: `worker_heartbeats` (written for display, read by no decision),
priorities and order (any queued job may be claimed, as `SKIP LOCKED` allows),
`next_attempt_at` (always `now()` when a job is queued).

### `JobRequests`: the same transactions under their row locks

| in the model | in the code |
|---|---|
| `state` | the state column of the source's jobs; `"active"` is queued or processing |
| `lock` | the row locks of transactions on the jobs and the source, and the entry of the source in `uq_processing_jobs_active_source` |
| `call` | program counter of each call, the job it is about, its answer |
| `LockJob`, `LockSource`, `UpdateJob` | `retry_job`: its `FOR UPDATE` over a join, the test of the state, the UPDATE |
| `InsertJob`, `CheckSource` | the INSERT of `create_processing_job` and its foreign key |
| `InsertArrival`, `ChooseJob`, `LockChosen` | `admit` of a content that is there |
| `InsertRepresentation`, `CommitPage` | the foreign keys of `commit_page_artifacts` |
| `SettleJob` | a worker's verdict |
| `Blockers`, `BreakDeadlock`, `Interrupt` | which locks conflict, and the deadlock detector: PostgreSQL, external; a failure |

`DurableProcessing` and `Admission` take each of these as one or two steps. Here they meet
statement by statement: `FOR UPDATE` without `OF` locks the job and then its source, while
`admit` and `commit_page_artifacts` have a key share of the source when they come to the job,
and `create_processing_job` makes its index entry before the foreign key looks at the source.
The index's refusal is an answer of the model (`"violation"`), as are 409 and the lost deadlock.
Different sources share no row.

### `JobLifecycle`: what a job promises

The abstract specification: the transitions of `transition_job`'s table
(`repositories.py:536-553`), and pages that only ever get extracted. A job completes with
all its pages, is partial with some, fails with any. `DurableProcessing` implements it
with `state` as the state column and `done` as the set of completed pages; the leases,
attempts, workers and crashes are stuttering or `Interrupt`.

### `Admission`: one transaction under two locks, after the bytes

| in the model | in the code |
|---|---|
| `blob` | canonical objects in the blob store |
| `source`, `job`, `arrival`, `recorded` | rows of `canonical_objects` + `sources`, `processing_jobs`, `source_arrivals`, `admission_requests` |
| `lock` | holder of each transaction-scoped advisory lock |
| `request` | program counter of each HTTP call and the receipt it builds |
| `StoreCanonical` | staging, hashing and `put_canonical` |
| `LockObject`, `LockKey` | the two `pg_advisory_xact_lock` calls of `admit` |
| `FindPrior`, `FindNoPrior` | the lookup of `admission_requests`: replay or `IdempotencyConflict` |
| `UpsertObject` | the upsert of the object, which waits for a transaction that wrote it, and the read of `existing_source` |
| `Admit` | source, arrival, job and key, and the commit |
| `Respond`, `Interrupt` | the answer; a failure anywhere, or an answer that is lost |
| `BreakDeadlock` | PostgreSQL's deadlock detector, external |
| `CreateJob`, `SettleJob` | what users and workers do to jobs meanwhile |

A retry is another call with the same key. The rows are named by the call that inserted
them. Left out: validation that changes nothing, enrollments (an upsert nothing depends
on), the repository method `register`, which only tests call. Not modelled: that two
different names may hash to the same lock; a collision only makes calls wait for each
other, as the crossed instance shows.

### `PageArtifacts`: two workers of one page and its files

| in the model | in the code |
|---|---|
| `Calls` | calls of `_persist_page` for one page of one job: the worker that lost its lease, and its successors |
| `stage` | the file under each of the two staging names, which are made of job, page and kind and so are the same for all calls |
| `bytes` | what a file holds; a file keeps its identity when it is renamed, unlinked or truncated, as inodes do |
| `derived`, `remote` | each call's derived objects: local files, or S3 objects under the staging key and the final key |
| `rep` | the call whose pair of rows is in `derived_representations` |
| `call` | program counter, the kind in work, whether an exception is on its way, and the files opened and not yet written |
| `exited`, `struck`, `met` | which calls exited, met an error, or were at work together with another; no code |
| `OpenStaged`, `WriteStaged` | `open("wb")` and the rest of `_write_staged` |
| `StagedIsGone`, `MoveStaged` | `_put` of the local store |
| `CheckStaged`, `UploadStaged`, `UploadTorn`, `StagedIsLost`, `CopyRemote` | `_finalize` of the S3 store |
| `TidyUp`, `DeleteFails` | the unlink at the end of both and the best-effort delete |
| `Commit`, `UnlinkStaged` | `commit_page_artifacts`, the `finally` block |
| `FileFails`, `UploadFails`, `CopyFails`, `CommitFails`, `Exit` | errors, with or without effect, and a killed process |

The variable `backend` says which store the deployment has, one of `Backends`. Workers share
the names when they share the staging directory: several worker processes on one host, or one root mounted by several.
A page has the same bytes for every call, since extraction and rendering are
deterministic, so a file holds them or not. A write and an upload are one step each; the
second `head`s are merged with what they verify, because the keys they look at are random
and belong to the call. The uniqueness test of the final key (`destination.exists()`, the first
`_head`) never fires for derived objects, whose key has a fresh uuid.

### `BlobStore` and `BlobVault`: puts of one content beside cleanups

| in the model | in the code |
|---|---|
| `Uploads`, `Pages` | calls of `admit_source` and single `put_derived` calls of `_persist_page`; the former use fresh staging names, the latter a name on which a killed worker may have left a file |
| `part`, `old` | what the file under each staging name holds, and whether it was last written before the cutoff of 24 hours |
| `remote`, `oldRemote` | S3: each put's object under its random staging key |
| `object` | what is stored under each final key |
| `put` | program counter and locals; `todo` and `name` are those of the cleanup |
| `StartUpload` .. `EndSweep`, `ListingFails` | `cleanup_staging`, name by name, and then the remote listing |
| `OpenPart`, `WritePart` | `_stream_pdf_to_stage`, `_write_staged` |
| `PartIsGone`, `ReuseStored`, `BeginPut` | the tests at the head of `_put` and `_finalize` |
| `MovePart` | `os.replace` of the local store |
| `UploadPart`, `CopyToKey`, `Tidy` | the remote steps of `_finalize` with their `head`s |
| `Close` | the `finally` blocks of the callers |
| `FileFails`, `ServiceFails`, `Exit`, `GetOld` | errors with and without effect, a killed process, 24 hours |

`BlobVault` is the abstract specification: a key that was returned names its bytes, now and
from then on, and nothing is promised of a put that raised. `BlobStore` implements it with
the whole objects and the keys of the puts that returned. That is what `Admission` takes
`put_canonical` for (`blob`) and `PageArtifacts` `put_derived`. The listing and the deletes of
old remote objects are one step, since their keys are random and never used again.

### `EphemeralDocuments`: a dict under threads

| in the model | in the code |
|---|---|
| `table` | the entries of `_documents` in insertion order; a deleted key leaves a `Hole` until the dict is compacted, as CPython's dict does |
| `created`, `dir` | `created_at` and the temporary directory of each document: `"none"`, `"partial"` (a write failed), `"remnant"` (a removal failed half way) or `"document"` |
| `call` | program counter and locals of each call of `extract` or `get_page_image`, with the position of its iterator and the size it was made for |
| `BeginSweep` .. `RemoveDir`, `SweepBreaks` | `_sweep_expired` and `_evict`, entry by entry, and the `RuntimeError` of a dict whose size has changed |
| `StageDocument`, `StageFails`, `InsertDocument` | the rest of `store_document` |
| `FindDocument`, `OpenDocument` | `get_document` and the checks; `render_page_png`: a page, or 422 because the file is gone or the page does not render |
| `Exit` | `clear_all` |
| `meanwhile`, `known`, `faults` | what others did during a sweep, what was stored before a call; no code |

`extract` is a coroutine that awaits nothing from its sweep to its insertion, so one of them
runs at a time; page images run on threads beside it and each other. One look of the
iterator at an entry, one `pop`, one `rmtree` is a step: the interpreter lock makes each
atomic. Time only advances by whole units of which the limit has `TTL`.

### `Migrations` and `RenderSupervisor`: a deployment

| in the model | in the code |
|---|---|
| `table`, `recorded` | `schema_migrations` and its rows |
| `runs` | how often each script was committed; no code |
| `migrator` | program counter of each `apply_migrations` and the scripts it has still to run |
| `CreateTable`, `ReadExisting`, `RunScript`, `CommitScript` | its statements; a script and its row are one transaction that waits for another with the same script and then fails on a key |
| `sup` | program counter of each supervisor, `stopping`, the polls of this turn, the exit code |
| `child` | the API and the worker of each container |
| `Launch` .. `InstallHandlers` | `main` up to the loop |
| `PollApi` .. `PollAgain` | the loop; the two polls are two steps |
| `Cleanup` | the `finally` block, which kills what has not exited |
| `StopHandler`, `SignalIsLost` | SIGTERM in the loop or the cleanup, and before the handler is there: process 1 of a container ignores a signal it does not handle |
| `EndsOnTerm`, `EndsByItself`, `MigrationBreaks`, `SpawnFails` | the processes' ends |
| `Launch`, `Destroy` | the platform, which starts again what is down and destroys what it retired; external |

`RenderSupervisor` extends `Migrations`: every container starts with a migrator and they share
one database. PostgreSQL is modelled by what it guarantees here: a second transaction that
creates what an uncommitted one has created waits for it. The supervisor's return code is
`0` or not.

### `RateLimit`, `SlidingWindow` and `SourceRegister`: readers

| in the model | in the code |
|---|---|
| `now`, `window` | `time.monotonic()` in units of which a minute has `Span`; `_rate_windows` |
| `admitted`, `answer` | every request ever let through, the last answer; no code |
| `Admit`, `Refuse` | `security_middleware` for a request that reaches the window; `Drops` is the loop of `popleft` |
| `custodian`, `corpus`, `founder` | committed rows, and each `create_custodian` with its two INSERTs |
| `source`, `delivery` | committed rows with their enrollments, and the transactions that register them; `begun` is `created_at`, the start of the transaction |
| `reader` | a walk through the register: program counter, page, total, rows shown |
| `AskForCorpora`, `FindCustodian`, `FindCorpus` | `list_custodian_corpora` with its two transactions |
| `AskForPage`, `CountSources`, `ReadPage` | `list_sources`: two statements with a snapshot each |
| `TurnPage`, `Poll` | `RegisterView`: the next page if there is one, the same page again |

`SlidingWindow` is the abstract limit, which remembers every request: one is admitted exactly
when fewer than `Limit` were within the last `Span`. `SourceRegister` extends `RateLimit`, so
readers are refused by it, and implements `SlidingWindow`. What in a delivery `Admission`
models is one transaction here.

### Model-checking modules

`MCDurableProcessing`, `MCJobRequests`, `MCAdmission`, `MCPageArtifacts`, `MCBlobStore`,
`MCEphemeralDocuments`, `MCRenderSupervisor` and `MCSourceRegister` define the instances; each
`.cfg` is one question.

## Runs

| run | instance | shows |
|---|---|---|
| `pages` | one job, two pages, two workers, one try more per page; one retry; three mishaps, of which one exit, lapsed lease and unexpected exception each, and any number of page failures | `TypeOK`, `CompletedJobIsWhole`, `ProgressIsNotManufactured`, `CompletedPagesAreDurable`, `OpenAttemptIsTheLease`, `LeaseFencesTheJob`, `ImplementsLifecycle`, `EveryJobSettles` |
| `lost_job` | one job, one page, three workers of which two exit | `NoJobIsLost` is violated |
| `job_requests` | one job of a source in any state, two retries of it, a creation, a repeated delivery, a commit, one interruption | `TypeOK`, `EveryCallIsAnswered`, `SourceIsRevived` |
| `admission` | four calls: a call and its retry, other content under the same key, the same content without a key; one interruption; a user's job | one arrival and answer per key, blobs before rows, one new delivery, one admitted job per content, no database error |
| `admission_crossed` | three calls whose keys are each other's lock names, one interruption | `EveryCallIsAnswered` through a deadlock |
| `page_artifacts` | three calls for one page, either store, one error and one exit | committed rows have objects, a call alone succeeds, staging is emptied, a torn local object has a writer to blame, S3 objects under final keys are whole |
| `blob_store` | two uploads of one content and a page, either store, one error, exit and stall each | the store implements `BlobVault`, objects are whole, a cleanup fails nobody else's upload, staging is left clean |
| `cleanup_fails` | the same with S3 and one error | `CleanupFailsNoUpload` is violated |
| `ephemeral` | three uploads, two page images, `TTL` 1, one failing write or removal, exit | records have their files and no directory is lost but by a failed write, a fresh document is found, an iterator breaks only beside others |
| `failed_extract` | the same | `FailedExtractRetainsNothing` is violated |
| `deployment` | two containers, two scripts, any number of which are recorded before, one failure, SIGTERM at any step | `AppliedOnceInOrder`, `ServesOnlyMigrated`, `StopIsOrderly`, `EveryContainerSettles` |
| `register` | two founders of one slug, three sources, one reader with pages of one row, three requests per minute | `NoSourceIsSkipped`, `CustodianHasItsCorpus`, `AtMostLimitPerSpan`, `ImplementsSlidingWindow` |

Bounds, and why they are enough. Two workers are one that lost the lease and one that
took over; a third only repeats the second, and the invariants of this module are proved
for any number anyway. Two pages are the least with a first page completed and a second
still open, the mixture `finalize_job` tells apart; one page suffices where pages do not
matter. `RetryLimit` 1 gives a failure that is retried and one that is not. Three mishaps are one
more than a page has tries: all tries of a page fail beside a failure of the other, an exit,
a lapse and an exception meet in one behaviour, and one of them alone leaves the page a try,
so that `EveryJobSettles` grants its exception to none that is alone. With four mishaps, and `RetryLimit` 1
or 2, TLC finds no error either, but takes four minutes. Jobs of several sources share no
row; what several jobs of one source do to each other is in `JobRequests`. One retry brings
back a settled job with pages of every kind. One exit, one lapse and one fault produce every
zombie: late commit, late mark, late finalize, late fail. In `job_requests` two retries, a creation, a delivery and a commit are the least in which every
pair of the four meets, two retries included, and a third call finds what a refused or aborted
one has left. Four calls of `admission` are the least in which a retry, a conflict
and a duplicate without key overlap. Of three calls for a page one can exit half way, one come
later and find what it left, and one be at work beside either; the invariants are proved
for any number.

In `blob_store` two uploads pass the test for the key together, or one is at work while the
other cleans up, and what one that exited left behind is a third thing to find; the page has a
key of its own and a name that may be taken from the start. Of three documents one can
expire, one be stored in its place and one be stored while both happen, which is the least
that moves entries under an iterator of unchanged size; the two images sweep beside each
other and beside an upload. `MaxTime` 2 with `TTL` 1 is before, at and past the limit. Two
containers are the old and the new one of a deployment, and their migrators collide in every
pair of steps; two scripts are the least with an order. One failure at a time keeps the
liveness run small; the safety of any number is proved. Three requests per minute, a minute of
two units and a time of two give requests exactly a minute apart, and a window that slides:
at time 2 what was admitted at 0 has left it and what was admitted at 1 has not. Three sources on pages of one row give a first, a middle and a
last page with rows arriving before, between and behind them. The window is proved for every
limit and span.

Symmetry is used in safety runs only. `CHECK_DEADLOCK FALSE` is said where a run ends: all
calls are answered, all containers retired, time is up. Durable processing never stops, since
an idle worker polls, and the deadlock check stays on.

Fairness. `DurableProcessing`: a worker's main thread goes on (`WF` of `WorkerStep`: it
is a loop that only ever waits with a timeout, and a transaction ends), and a lease that
nobody renews runs out (`WF` of `LeaseRunsOut`: a clock). The choice within a step
(success or failure of a page, which exception) is not fair, and neither are exits,
faults, stalls, heartbeats or users. `Admission`: a call goes on unless it waits for a
lock, and PostgreSQL's detector breaks a deadlock that stays. No strong fairness: the run
shows that none is needed for the instance. `JobRequests`: the same; callers, workers that
settle and interruptions are not fair. `RenderSupervisor`: the supervisor's loop and the
migrators go on, a child that was sent SIGTERM ends, and the platform launches a container
that is down or exited, and destroys one that it retired once that has exited or has missed
the signal. A signal is not fair, nor is a failure, nor the destruction of a container whose
supervisor is stopping: that one must end by itself. The other modules claim no liveness.

What the runs show together with the theorems: no interleaving of late workers, recovery
and retries takes back a completed page or completes a job that is not whole, although
the page statements carry no fence. What protects the pages is that
`mark_page_pending`/`mark_page_failed` ask for state `processing`, that the commit inserts
with the pair only where there is none, and that the two verdicts ask for the owner. The
run `pages` and the theorem `Fenced` show that this is enough for the job row.

What `job_requests` shows. `retry_job` beside a creation, a repeated delivery or a late commit
of the same source may deadlock, and one of the two ends in an error 500; a retry that comes
behind another active job ends in a 500 too, by the index, since its endpoint catches only
`ValueError`. No such answer leaves a lock, and none is the end of the request: another call
has made a job active or met one, unless the deadlock was lost to a delivery or a commit, which
make none, or an interruption came between (`SourceIsRevived`). `NoCallFails` of `Admission` is
said of admissions among themselves only, and a worker whose commit loses the deadlock takes
`Fault` of `DurableProcessing`.

What the page artifact runs show. The shared staging names cannot make a row without its
object, and what an exited worker left under them is truncated and replaced by the next
one. They can make calls fail: of two calls for one page, one takes the JSON file the
other has written, the other finds it gone, unlinks both names on its way out, and the
first finds its render gone. Both then fail by `FileNotFoundError`, which is not a
`PageProcessingError`, and so fail their document: `Fault` of `DurableProcessing`.
`LoneCallSucceeds` says that this takes a second call or an error. With local files a
committed object may also lack its bytes, while another call has it open and has not
written yet, and for good if that call fails or exits there (`TornOnlyByAWriter`); the
sizes that S3 finalization compares turn the same order of events into a failed call
(`FinalObjectsAreWhole`).

What the other runs show. Uploads of one content that pass `destination.exists()` together
store the same bytes twice, which is harmless; a part that gets old under its upload costs
that upload, and no other. Records and directories of ephemeral documents stay together
although nothing locks the dict. What a failed removal leaves is removed by nobody, but has lost
its record. A sweep may end its call with an error 500 when another call
stores or evicts meanwhile, and may pass over an expired document, which is then shown once
more, only when others did both (`SweepFailsOnlyBesideOthers`). Of two migrators that collide
one fails, its container exits and is started again, and then finds the scripts recorded. A
child that exits by itself takes the other with it in the same breath (terminate, then kill);
a stop that came before lets both end. A reader of the register is shown every source that was
there when it began, although rows sort by the start of their transactions and may appear
before rows already shown. The total and the page come from two snapshots, so a reader may
take a page for the last one that is not; its next poll corrects that (`late` in
`NoSourceIsSkipped`).

### Disagreements between code and documentation

The cleanup. The comment at `blobstore.py:221-223` says that remote cleanup is best effort and
"must never make admission fail merely because a cleanup listing is unavailable". The
handler at `blobstore.py:235` catches `AttributeError` and `NotImplementedError` only, which
covers a client without the method and not a service that refuses or does not answer; and
`admit_source` calls the cleanup at `main.py:199`, before its `try` block. The run
`cleanup_fails` has an upload end there.

Lost jobs. `README.md:38-40` says that the worker "can be stopped and restarted without losing
queued jobs", `backend/README.md:35-37` that "a lease-expired job returns to `queued`".
The run `lost_job` finds the following. `mark_page_processing` counts a try when a page
is begun, not when it fails. A worker stopped during a page uses one. When as many are
used as there are, the next worker's loop skips the page (`worker.py:120-121`) and nobody
marks it failed; `finalize_job` then finds neither a failed page nor all of them
completed, leaves the job `processing` and sets its lease to NULL (`repositories.py:584`).
Recovery asks for `lease_expires_at < now()`, a claim for `queued`, a retry for `partial`
or `failed`, and the unique index refuses another job for the source. A retry of a job
with a failed page comes to the same end, since `retry_job` does not reset
`attempt_count`, and a single interruption suffices where failures have used the other
tries: it is the interruption of a page's last try that counts. A stop by SIGTERM is none,
since the handler lets the page in work end; a kill, a fault and a lapse are. So
`EveryJobSettles` has an exception, which `TriesMayHaveRunOut` keeps small: it takes an
interruption or a retry, and together with the failures as many as use up a page's tries.
A single mishap never loses a job whose pages have two tries. That `finalize_job` is the only
step that loses a job, that a lost job is out of reach for good, and that the index then
refuses every other job of its source, is proved (`OnlyFinalizeLoses`, `LostForGood`,
`LostBlocksSource`).

Failed uploads. `backend/README.md:162` says of `/extract` "On failure (any `4xx`/`5xx`),
nothing is retained", the docstring at `storage.py:56-58` that a normal exit leaves no orphaned
directories behind. `store_document` makes the directory and writes the file before it has a
record (`storage.py:32-35`), and nothing catches an error of the write: the answer is 500, the
directory stays with what was written, and neither a sweep nor `clear_all` knows of it. The run
`failed_extract` shows it; `FilesMatchRecords` says that only this, and the removal of an expired
document that fails half way, lose a directory while the process runs.

A cleanup that has found a leftover part of a page old may unlink it after a worker has opened
the same name anew (`blobstore.py:102-103`, `FindStale` and `UnlinkStale`), although its
docstring (`:97`) speaks of removal "without touching active or canonical objects": that put
fails, and so `UploadFailsByItself` is said of uploads only, whose names are fresh.

Seen while reading, and below what the modules tell apart: `_rate_windows` keeps a deque for
every address it has ever seen (`main.py:90`); `RegisterView` keys jobs by source and so shows the last of several;
`_positive_float` (`config.py:126`) accepts `nan` and `inf`; the signal handler prints
(`render_supervisor.py:36`), which may re-enter a print of the loop.

## Proofs

`DurableProcessing_proofs` (TLAPS) proves for every value of the constants, from the
assumptions `SourcesAssumption`, `PagesAssumption`, `NullsAssumption` and
`BoundsAssumption` of the module:

| theorem | states |
|---|---|
| `Invariance` | `Spec => []IInv` |
| `TypeCorrect` | `Spec => []TypeOK` |
| `AttemptsAgree` | `Spec => []OpenAttemptIsTheLease` |
| `CompletedIsWhole` | `Spec => []CompletedJobIsWhole` |
| `CompletedStaysCompleted` | `Spec => CompletedPagesAreDurable` |
| `ProgressIsTrue` | `Spec => []ProgressIsNotManufactured` |
| `Fenced` | `Spec => LeaseFencesTheJob` |
| `AreNumbered` | `Spec => []AttemptsAreNumbered` |
| `HistoryKept` | `Spec => HistoryIsKept` |
| `CompletedIsFinal` | a completed job stays completed |
| `LostForGood` | a job that is lost stays lost |
| `LostBlocksSource` | of a source with a lost job no other job becomes active |
| `OnlyFinalizeLoses` | a job is lost only by a step that finds it `LeftUnfinished` |
| `Implements` | `Spec => ImplementsLifecycle` |

The argument. None of the properties is inductive. `IInv` adds:

- `LeaseOK`: only a processing job is leased, and the lease columns are null together;
- `OpenAttemptIsTheLease` itself, which needs the attempt numbers to be those of the job;
- `PagesOK`: only pages of the document have checkpoints, and a page has representations
  exactly when it is completed;
- `WorkersOK`: a worker works for an attempt of a job that exists, on pages that have a
  checkpoint, and *while it owns the lease* the job's `total_pages` is the document's
  page count. This is the heart of `CompletedJobIsWhole`: `finalize_job` compares two
  counts, and a total that is still 0 from the moment of creation would make an empty
  job whole. `set_total_pages` does not ask for the lease, but what it writes is the same
  for every worker of the job.

Each proof has one step per action of `Next` and one lemma per part of `IInv`. The count
in `finalize_job` becomes a set by the cardinality theorems of finite sets (a set of
pages within `1..PageCount` that has `PageCount` members is all of them).
`CompletedPagesAreDurable`, `LeaseFencesTheJob` and the refinement are action properties
that follow from `IInv` and a step. The refinement maps `RecoverExpired` to `Interrupt` of
the set of expired jobs, `ClaimJob` to `Claim`, `CommitPage` to `ExtractPage`,
`FinalizeJob` and the failures of the document to `Settle` or a stutter, everything else to a stutter.

Six theorems state what no run checks. `AreNumbered` says that the attempts of a job have
the numbers 1 .. `attempt_count`, each once, and so justifies a thing the model leaves out:
`UNIQUE (job_id, attempt_number)` (001_initial.sql) never refuses the INSERT of `claim_job`.
It rests on one lemma (`HistoryEffects`): a step closes an attempt, opens the next, or leaves
them alone. `HistoryKept` follows from the same lemma. The last three are about the finding of
the run `lost_job`. `Lost(j)` is a processing job without a lease; `LostForGood` says that no
step whatever leaves that state, and `OnlyFinalizeLoses` that the only way into it is
`finalize_job` of the lease's owner when a page is neither completed nor failed and none has
failed. Such a page may be one over its retry limit that the worker skipped, as in the run, or
one that a late worker put back to pending during the owner's last try, since
`mark_page_pending` does not ask for the lease. So the finding has one place in the code, and
no remedy within the program. `LostBlocksSource` draws the consequence for users: while the
lost job counts as active, the unique index (`IndexOK`, an invariant of its own) keeps every
other job of the source from being created or retried.

`Admission_proofs` proves for every value of the constants, from `RequestsAssumption`,
`PrintsAssumption`, `NamesAssumption` and `InterruptsAssumption`:

| theorem | states |
|---|---|
| `Invariance` | `Spec => []IInv` |
| `TypeCorrect` | `Spec => []TypeOK` |
| `Once` | `Spec => []OncePerKey` |
| `SameAnswer` | `Spec => []SameAnswerPerKey` |
| `Durable` | `Spec => []ReceiptsAreDurable` |
| `OneIsNew` | `Spec => []OneDeliveryIsNew` |
| `OneJob` | `Spec => []OneJobPerAdmittedSource` |
| `NoFailure` | `Spec => []NoCallFails`, if no key has the lock of a content |
| `UpsertsGoOn` | `Spec => []UpsertsDoNotWait` |
| `WaitsEnd` | `Spec => []WaitsAreShort`, if no key has the lock of a content |

Its `IInv` says who holds which lock at which program counter (`LocksOK`), that a call past
its lookup may still record its key (`KeysOK`), that arrivals, recorded keys and receipts
belong together (`ArrivalsOK`, `ReplaysOK`, `RowsOK`), and that what a call has read about
duplicates still holds when it commits (`DuplicatesOK`). The locks carry the argument: two
calls in their transactions differ in content (`ObjectsExclude`), and two past the lookup
differ in key (`KeysExclude`), so neither what `KeysOK` nor what `DuplicatesOK` says of one
call is undone by the commit of another. The steps fall into two kinds, the one that
commits (`CommitEffect`) and those that leave the tables alone (`QuietEffect`), and each
part of `IInv` is one lemma over the two. `NoFailure` needs its assumption: a call that
waits for a key holds only its content's lock, and then nobody in a deadlock could hold a
key's; where keys and contents share locks the run `admission_crossed` has calls end in
deadlock errors. `WaitsEnd` says more of the case without deadlocks: who waits for a call
that waits holds no key (`WaiterHasNoKey`), so a third call in the row holds the key it was
asked for and waits neither for a lock nor, by `UpsertsGoOn`, for the row of its content.

`PageArtifacts_proofs` proves for every value of the constants, from `NoCallAssumption` and
`BackendsAssumption`:

| theorem | states |
|---|---|
| `Invariance` | `Spec => []IInv` |
| `TypeCorrect` | `Spec => []TypeOK` |
| `PairIsStored` | `Spec => []CommittedPairIsStored` |
| `TornByAWriter` | `Spec => []TornOnlyByAWriter` |
| `FinalIsWhole` | `Spec => []FinalObjectsAreWhole` |
| `LoneSucceeds` | `Spec => []LoneCallSucceeds` |
| `StagingEmptied` | `Spec => []StagingIsEmptied` |

Its `IInv` says that an empty file has a call that opened and did not write it
(`FilesOK`, `HalvesOK`), that a call that goes on has its earlier objects (`ObjectsOK`,
`RepOK`), that a call which has met nobody finds its files as it left them (`LoneOK`), that
a call that goes wrong met an error or a call (`FailuresOK`), and that a taken name has
somebody with the unlink still ahead (`CleanedOK`). `LoneOK` is what `FailuresOK` needs: a
missing or torn file is then proof of another call. One lemma per part, one case per action.

`BlobStore_proofs` proves for every number of puts, keys, exits, errors and stalls, from
`KeysAssumption` and `NoPutAssumption`:

| theorem | states |
|---|---|
| `Invariance` | `Spec => []IInv` |
| `TypeCorrect` | `Spec => []TypeOK` |
| `Whole` | `Spec => []ObjectsAreWhole` |
| `FailsByItself` | `Spec => []UploadFailsByItself` |
| `LeftClean` | `Spec => []StagingIsLeftClean` |
| `Implements` | `Spec => ImplementsVault` |
| `PromisesKept` | a key that was returned names bytes that are there, and stays |

`IInv` says of each put that what is about to get a final key is whole (`ContentsOK`), that
a put which has not failed by its tidying has its object (`PromiseOK`), where it leaves parts
and staging objects (`StagingOK`), and that an upload fails by itself only (`FailuresOK`). The
last needs `FreshOK`: an upload in time is old for nobody, no cleanup holds its name, and it
finds what it has written; a cleanup holds only names that were old when it looked. One lemma per action shows that
the step keeps its own put in order and does no more to the others than remove what is old
(`Good`), and one lemma (`OtherPut`) that those survive it. In the refinement an object
comes only by a put of its key, whole, and what was returned stays returned, so every
step is a `Store`, a `Return` or a stutter of the vault. `PromisesKept` needs nothing of the
store but that: it is proved of the vault's actions and carried over by `Implements`.

`SourceRegister_proofs` proves for every value of the constants, from the assumptions of
`RateLimit` and `CallsAssumption`:

| theorem | states |
|---|---|
| `WindowInvariant` | `Spec => []WInv` |
| `NeverMoreThanLimit` | `Spec => []AtMostLimitPerSpan` |
| `Implements` | `Spec => ImplementsSlidingWindow` |
| `RowsInvariant` | `Spec => []CInv` |
| `HasItsCorpus` | `Spec => []CustodianHasItsCorpus` |

and `SourcePages_proofs`, on top of it,

| theorem | states |
|---|---|
| `PagesInvariant` | `Spec => [](CInv /\ PInv)` |
| `NothingSkipped` | `Spec => []NoSourceIsSkipped` |

`WInv` says that a deque is what was admitted without its first k entries, that those k are
all a minute old, and that times are noted in order. The order makes `popleft` from the front
enough: when the first entry that stays is not past, none behind it is. So a deque is full
exactly when the request `Limit` admissions ago is within the minute, whatever k is. A single
lemma (`Steps`) reduces the module's actions to those on the windows.

`CInv` says that of two calls with one slug at most one is founding or has founded, since an
INSERT waits for who is founding and is refused by who has, that a committed custodian has its
corpus, and that a reader that looks for a corpus has found its custodian.

`PInv` is about the rank of a row, the number of rows that sort before it. A row that was
there when the reader began and that it has not been shown has a rank not below the start of
the page it asks for (past the end of the page it is shown). Rows are never removed and those
that were committed keep their `created_at`, so a rank never falls (`RowsGrow`), and a page holds exactly
the ranks of its range (`Rank`: sorted rows are an injection into a finite set of the same
size, so each row has a place, and before it are exactly the rows that precede it). At the
last page the range ends at or after the total, and a reader that is not late read no more rows than
the total.

`RenderSupervisor_proofs` proves for every number of containers, scripts and failures, from
`LastAssumption` and `MaxCrashesAssumption`:

| theorem | states |
|---|---|
| `Invariance` | `Spec => []IInv` |
| `AppliedOnce` | `Spec => []AppliedOnceInOrder` |
| `ServesMigrated` | `Spec => []ServesOnlyMigrated` |
| `StopOrderly` | `Spec => []StopIsOrderly` |

`IInv` says of the database that exactly 1 .. n are recorded, that a migrator at work has
the scripts from some place up to n + 1 still to run, and that at most one transaction is
open, for n + 1 (`Recorded`, `OneCommits`). A migrator whose list begins earlier fails at its
next script and commits nothing. Of a container it says that once past its migrator it is on a
database that has everything (`Serving`), and that a supervisor in its cleanup has no child
left that the handler had asked in time (`Orderly`): to return 0 it has polled codes of both,
and to return a child's code it must not have been stopping.

`EphemeralDocuments_proofs` proves for every number of calls and failures and every time to
live, from `CallsAssumption` and `BoundsAssumption`:

| theorem | states |
|---|---|
| `Invariance` | `Spec => []IInv` |
| `FilesMatch` | `Spec => []FilesMatchRecords` |
| `FailsBesideOthers` | `Spec => []SweepFailsOnlyBesideOthers` |
| `FreshFound` | `Spec => []FreshDocumentIsFound` |

The dict has no document twice and records only what a call has stored (`TableOK`); while the
process runs, a stored document has a record unless its time has passed (`FateOK`, on which
`FreshFound` rests: the list a sweep evicts from has only documents that had expired when the
sweep began, `LocalsOK`, and time does not go back). `DirOK` and `RestOK` are the second half of
`FilesMatchRecords`: every directory has a record, a call that is about to remove it, or the
failure that left it. What an iterator over an unlocked dict can get wrong is in two parts.
`SizeOK`: beside a sweep only stores make the dict larger than the iterator was made for, only
evictions smaller, so that a sweep that goes to its end has met neither or both, and one that
breaks has met another call. `SweepOK`: a sweep that has met nobody has found, of the records
before its position, all that had expired, and at its end all. The table's part is four
lemmas: `PoppedIs`, `InsertedIs`, `RecordedIsFinite`, and `CompactedIs`, by which the dict that
CPython rebuilds has the same records once each (its positions inject into a set of the same
size). One lemma per action; those of a call reach the others by `Effect`, what any step does
to a call that does not take it, and `OtherCall`.

Two parts of `IInv` came out of the proof: that the iterator's position is never 0, without
which "has passed the end" says nothing, and that an idle call has no locals.

Only model-checked: liveness (`EveryJobSettles`, `EveryCallIsAnswered`,
`EveryContainerSettles`, `SourceIsRevived`), which is out of the prover's reach, and the
`TypeOK` of `JobRequests`. Every other safety property that a passing run checks is proved.
The `TypeOK` of `BlobStore` is proved only.
`NoJobIsLost`, `CleanupFailsNoUpload` and `FailedExtractRetainsNothing` are false.

## Plan

1. `DurableProcessing`, `JobLifecycle`, `JobRequests`, `Admission`, `PageArtifacts`, their runs and proofs: done.
2. `BlobStore` against `BlobVault`, `EphemeralDocuments`, their runs and proofs: done.
3. `Migrations`, `RenderSupervisor`, `RateLimit`, `SourceRegister`, their runs and proofs: done.
4. `Polling`, `CorpusContext`, `InspectorView`: answers that arrive late in the frontend.

## Not modelled

PDF parsing and rendering (sequential, a page succeeds or raises); the read endpoints other
than the lists of custodians' corpora and of sources (one statement or one snapshot, no state
changes); configuration and diagnostics (no state changes); scripts. In `security_middleware`
the refusals before the window (token, configuration, method) change nothing and are left out.
The frontend's views are item 4 of the plan; of it only the paging and polling of
`RegisterView` are modelled, as a reader.
