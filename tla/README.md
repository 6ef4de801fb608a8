# Verification of the deterministic job pipeline

TLA+ models of the job pipeline in `src/`, TLC configurations that check them on
small instances, and TLAPS proofs of the properties that matter most for every
instance. Paths below are relative to the repository's `src/src/`.

## 1. The system

| Component | State it keeps | Operations | Talks to |
|---|---|---|---|
| Job service (`jobs/service.py`) | `jobs` rows | `submit_job` (create or reuse, plus an outbox event), `retry_from_dlq`, reads | outbox `create_event`; runs in its caller's transaction |
| Attempt pipeline (`jobs/pipeline.py`, `jobs/repository.py`) | `jobs`, `job_attempts` | `begin_attempt`, `finalize_attempt`, `reset_stuck_running_jobs` | row locks of PostgreSQL; outbox `create_event` |
| Worker runtime (`jobs/runner.py`, `jobs/tasks.py`) | one process_job message, one transaction | `run_process_job`: begin, execute, classify, finalize, commit, retry or acknowledge | executors, Celery |
| Outbox (`outbox/`) | `outbox_events` | `create_event`, `publish_pending_events` | broker through `jobs/dispatch.py` |
| Reports domain (`apps/reports/`) | `reports` | `create_report`, `complete_report`, executor `generate_report` | job service; worker's unit of work |
| Unit of work (`db/`) | a session | commit on a clean exit, rollback on an exception | PostgreSQL |
| Celery, Redis, beat (`config/celery.py`) | queue, schedule | late acknowledgement, redelivery, two periodic tasks | external |
| Executor registry, dispatcher (`jobs/registry.py`, `jobs/dispatch.py`) | one dict and one singleton per process | registration by imported modules, `get_executor`, `get_dispatcher` | Python's import system |
| Back-off helpers (`jobs/utils.py`, `outbox/utils.py`) | none | two delays with full jitter | |
| Migrations, start-up (`../alembic/`, `db/utils.py`, `main.py`) | the schema and its version | `upgrade`, `downgrade`, `wait_for_db` | PostgreSQL's locks |
| API (`api/`) | none of its own | routes; `GET /jobs/dlq` hands cursors to its callers | services |
| Logging, metrics, middleware | none of their own | | |

What is hard here: two deliveries of a job racing for its row; an attempt that is
one transaction around foreign code and swallows a failing savepoint; steps after
the commit that no transaction covers (publishing the retry, acknowledging);
publishers that overlap and drop their row lock half way; retry budgets that travel
with messages while the job has several; repairs (sweeper, manual retry) of jobs
that are still being worked on; requests that race under one key and must recover
from each other's inserts; a list that changes while it is read page by page; a
registry filled by an import that several jobs may trigger and that may fail half way;
containers that migrate one database at the same time.

What makes each component correct:

* pipeline: attempt numbers without gaps, one attempt at a time, a status the
  attempt rows agree with, COMPLETED final, an append-only history;
* worker: executor writes neither lost nor repeated except where stated, no PENDING
  job without somebody to move it but for a lost event or message, every other job
  settled in the end;
* outbox: at least one delivery before an outcome, bounded retries, bounded duplicates
  and dispatches inside a back-off, every event decided;
* reports and API: READY goes with COMPLETED, a report is generated once, one report
  and one job per key, an answer is durable if its caller commits, a walk through the
  DLQ repeats and skips nothing;
* registry and dispatcher: no job meets a registry that is not filled yet, one
  dispatcher per process;
* migrations: the schema is the one its version names, no data is changed by it.

## 2. Modules

| Module | What it is |
|---|---|
| `JobPipeline` | jobs, attempts, outbox events (counted per job and retry count), queue, workers; faults; all properties |
| `JobLifecycle` | the abstract promise: a status and an append-only ledger of attempts per job |
| `Outbox` | the publisher statement by statement, with overlapping ticks |
| `OutboxContract` | the abstract promise: delivered, then one outcome for good |
| `Reports` | the requests: `create_report` and `submit_job` statement by statement, racing for unique indexes |
| `ReportPipeline` | `JobPipeline` composed with the executor `generate_report` and the report's status |
| `Backoff` | the two delay functions, against a reference definition |
| `DlqPages` | a walk through `GET /jobs/dlq` while jobs die and are retried |
| `WorkerProcess` | the threads of a worker process: the first import of the runner, the registry, the dispatcher |
| `Migrations` | racing alembic runs, statement by statement, and the start of the API |
| `MCPipeline`, `MCOutbox`, `MCReports`, `MCReportPipeline` | symmetry; a statement of the documentation that does not hold |
| `MCDlqPages`, `MCWorkerProcess` | values of the constants |
| `JobPipelineProofs`, `JobBudgetProofs`, `ReportPipelineProofs`, `ReportsProofs`, `OutboxProofs`, `DlqPagesProofs`, `WorkerProcessProofs`, `MigrationsProofs` | TLAPS proofs about the module of that name (`JobPipelineProofs`: also that `JobPipeline` implements `JobLifecycle`; `JobBudgetProofs`: what bounds the attempts and the steps of `JobPipeline`) |

`ReportPipeline` extends `JobPipeline`; it takes from `Reports` that each job has its
report. `Reports` has no workers: a committed event is where `JobPipeline` begins.
`Outbox` extends `Backoff`. `WorkerProcess` is what `JobPipeline` takes for granted when
a worker has its executor, `DlqPages` sees of the pipeline that jobs enter and leave
DEAD, and `Migrations` ends where the API starts.

Definitions named after a mistake (`NeverLocked`, `ClassifyOneMore`, ...) are
mutants: each replaces the definition it stands before with a plausible bug, and is
used by nothing else. `PROJECT.json` pairs each property of each passing run with the
mutant that breaks it.

### 2.1 `JobPipeline` and the code

One step is one committed transaction, or one step outside any transaction.

| Code | Model |
|---|---|
| `jobs.status`, `jobs.attempts` | `status`, `attempts` |
| `job_attempts` (job_id, attempt_no, status) | `log[j]`: attempt_no to status |
| the executor's own writes | `effects[j]`: how often they were committed; `EarlyWriters`: jobs whose executor may write before it raises |
| `outbox_events` | `pending[j][retry_count]`, `published[j]`, `failed[j]` |
| process_job messages with `task.request.retries` | `queue[j][retries]` |
| a worker in `run_process_job` | `pc[w]`, `task[w]` (job, retries, attempt_no) |
| `submit_job` | `SubmitNew`, `SubmitAgain` (a reused job gets another event) |
| `retry_from_dlq` | `RetryFromDlq` |
| `reset_stuck_running_jobs` | `Sweep` |
| one event of `publish_pending_events` | `Publish`, `PublishUnmarked`, `PublishFails` |
| `begin_attempt` | `Begin` (takes the row lock), `NoopAttempt` |
| executor, `_safe_finalize_attempt`, COMMIT | `Finalize`, `FinalizeFails`, `AbortedAttempt`, `RaiseUnexpected` |
| `_schedule_retry`, return | `ScheduleRetry`, `Ack` |
| a rejected message (`config/celery.py:21`), the retry refused at `runner.py:316` | `Lose`, `RetryRefused` |
| external: death of a worker or of a pool process, second delivery | `Crash`, `ChildLost`, `Redeliver` |

The worker transaction (`runner.py:249`) is why an attempt has two steps: `Begin`
takes the row lock and the attempt number, and nothing is visible until it commits;
`Locked` is derived from the workers that are in between. A consequence worth
knowing: RUNNING is never committed by an attempt that ends normally or dies (a
crash rolls the row back to what it was), only by one whose `finalize_attempt`
failed. The README of the repository expects it after a worker crash (line 183).

The `IntegrityError` branch of `begin_attempt` has no action, because it cannot be
taken: `AttemptsSerialized`, a theorem, says that the number a worker took is free
until it commits. `not_found` is part of `NoopAttempt`'s guard.

A classified error is swallowed inside the transaction (`runner.py:181`), so writes an
executor made before it raised are committed with the FAILED attempt, and again by the
retry. `Writes` chooses them for the jobs in `EarlyWriters`; `generate_report` writes last
and is not one of them.

`Lose` is the end of a message that did not move its job on, counted in `lost`. Celery
5.6 acknowledges late, does not acknowledge a failure and has no
`task_reject_on_worker_lost` here, so it rejects without requeue the message of a task
that raised (`RaiseUnexpected`), of one whose pool process died (`ChildLost`) and of one
whose retry the broker did not take (`RetryRefused`). Only a whole worker that dies or
loses its connection leaves its message to be delivered again (`Crash`). A message
acknowledged after an attempt that rolled back on its last retry (`AbortedAttempt`) is
lost in the same sense.

Time is abstracted: a back-off or an execution timeout may elapse at any moment, so
a committed RUNNING row is always old enough to be swept. The sweeper's limit of 50
is any non-empty subset. Error texts, results, request ids and metrics are left out.
`PublishFails` stands for a dispatch that raises and delivers nothing, the case that
delivers all the same is `PublishUnmarked`; each event is one step, and what happens
inside it is the subject of `Outbox`.

### 2.2 `Outbox` and the code

`row[e]` is the committed row (status, retry_count, and `wait`, the time left to
`next_attempt_at`, which `Tick` counts down); the wait after a failure is any that
`Delays` of module `Backoff` admits. A publisher goes collect, next, locked, sent, and after an
exception raised, refetched. `Raise` rolls back and so gives up the lock;
`Refetch` reads without it (`outbox/service.py:239`); `RecordFailure` is the
decision, the UPDATE and the commit, which waits for the lock. `FlushDirty` is the
UPDATE as SQLAlchemy writes it: only the columns that differ from what was loaded.
`sent` and `tries` count what the broker accepted and the dispatches that raised,
`early` the dispatches inside a back-off. `AfterFailure` leaves out the first branch of
`_decide_publish_failure` (FAILED at once for a terminal error): it asks for
`UnsupportedOutboxEventType`, which nothing in `src/` raises, and an event without a
handler is `FailUnsupported` before any dispatch.

`OutboxContract` is what holds for any number of publishers. A publisher whose dispatch
raised is in doubt (`Doubt`) until it has written that down (`Settle`) or died (`Forget`),
and only `Settle` may revise an outcome; the number of doubts is bounded by the number
of publishers (`Hands`), and nothing is delivered or decided while all of them are in
doubt. With one publisher that makes outcomes final.

### 2.3 `Reports` and the code

A request makes at most one report and one job, so that both are named by the request
that inserts them and `found[r]`, `taken[r]` say whose it works with.

| Code | Model |
|---|---|
| a statement of `create_report`, `submit_job` | one value of `pc[r]`, one action |
| an uncommitted row | `report[x]`, `job[x] = "inserted"`, seen by request x only (`Sees`) |
| partial unique index on `idempotency_key` | `Entries`; an INSERT waits (`Free`) or fails (`Violated`) |
| fast path, `IntegrityError`, second read | `FindReport`/`FindJob`, `ReportKeyTaken`/`JobKeyTaken`, `RereadReport`/`RereadJob` |
| `_validate_idempotent_match` | `Reuse`: the report in the payload must be the request's |
| `_attach_job_to_report` and its FOR UPDATE | `Attach`, `LockedReport` |
| end of the request's session | `Exit`: commit or, where nobody entered the `UnitOfWork`, rollback |
| a dead process or connection, a failing statement | `Abort` |

No key is NULL, which is in no partial index; an empty key is '' and is in it, while
Python's `if idempotency_key` takes both for none: hence `NoKey`, `EmptyKey` and
`Truthy`. `caller[r]` says whether the caller of request r enters its `UnitOfWork`, as the
class and architecture.md 138 prescribe, or got one from `get_uow` as the routes do
(`db/session.py:43`), which nobody enters; requests of both kinds race with each other.
Requests that call `submit_job` alone, as the repository's README shows (line 399),
share the keys of jobs with those that create reports. `reports.job_id` is written
by `Commit`, although the code writes it in `_attach_job_to_report`: it is read only
under the row lock the writer keeps until then. The request's row lock and the
worker's are never held together with the other table's in opposite orders, so the two
models need no common lock state.

### 2.4 `ReportPipeline` and the code

`reportStatus[j]` is the status of the report of job j. `Generate` is the executor
that completes a PENDING report, in the attempt's transaction; `Reject` is
`InvalidReportState` for a READY one, which the runner does not classify, so that the
message is lost;
`Unregistered` is a worker without the executor. `ReportStatus.FAILED` is written by no
code. Everything else is a step of `JobPipeline` with the report unchanged.

### 2.5 `DlqPages` and the code

`NextPage` is one request: `Matching` is the statement's WHERE clause with the cursor's
row as `db.get` finds it, whatever its status (`jobs/repository.py:34`), `Pages` its
ORDER BY and LIMIT, `NextCursors` what the caller passes next, as the route's parameter
describes it. `dead` is the committed set of DEAD jobs, changed by `Die` (an attempt
that ends in the DLQ) and `Retry` (`retry_from_dlq`); both keep `created_at` and the
id. `listed`, `repeated` and `stayed` record the walk. Ids are numbers, and
`created_at` need not be unique or in the order of ids.

### 2.6 `WorkerProcess` and the code

| Code | Model |
|---|---|
| `_EXECUTORS`, `_DISPATCHER`, `_DISPATCHER_LOCK` | `registry`, `dispatcher`, `lock` |
| `sys.modules`, the import lock of `jobs.runner` | `imported` and `runner`, `importer` |
| `from .runner import run_process_job` (`tasks.py:27`) | `FindRunner`, `AwaitRunner`, `WakeUp`, `BeginImport` |
| `load_executors()` in the runner's body | `module`, `FinishModule`, `FinishImport` |
| `@register(...)` | `done`, `Register`, `RefuseDuplicate` |
| an executor module that raises | `ImportRaises` |
| `get_executor` | `GetExecutor` |
| `get_dispatcher`, line by line | `CheckDispatcher` to `ReturnDispatcher` |

Celery's default pool gives each process one thread, and then there is nobody to race
with: the model has several, as with `--pool threads`, which is what the code's locks
are for. The body of the registry's lock is one step of one thread, so that lock has no
variable. The import is started by the first job, since the task imports the runner
only when it is called.

### 2.7 `Migrations` and the code

A deployer is a container that runs `alembic upgrade head && uvicorn`
(`docker-compose.yml:25`) or an operator who runs `alembic downgrade`. `Begin` reads the
version, `Step` is one table's share of a revision (and the UPDATE of revision 3),
`Stamp` the UPDATE of `alembic_version` after each revision and, after the last, the
COMMIT. All of a run is one transaction (`alembic/env.py:58`): `held[d]` is what it has
changed and so locked, `draft[d]` how it will look. `Accepted` is when PostgreSQL does
not raise, `Conflict` which statements wait for which changes, `Blockers` whom a
statement waits for. `"key"` among the `Targets` is the foreign key of job_attempts:
dropping that table takes the lock of jobs as well, so a downgrade to base has it from the
start. `Serve` and `KeepTrying` are
`wait_for_db`. Of a column the model keeps what migrations convert: the labels of the
status type, and of the timestamps whether they have a zone and how far a conversion
has moved them (`shift`), which is where the order of conversions and the session's time
zone show. `Crash` has the run rolled back, as PostgreSQL does for a client that is gone.

## 3. Assumptions about what is outside the repository

* PostgreSQL at READ COMMITTED: row locks are held to the end of the transaction and
  released by rollback and by the death of the client; a failed statement aborts the
  transaction, after which a savepoint fails and COMMIT rolls back without an error.
* A session whose commit raises behaves like a rollback and an unhandled failure. A
  failed flush in the executor makes the session refuse its commit, which is this case
  (`RaiseUnexpected`); a failed SELECT does not (`AbortedAttempt`).
* An INSERT waits for the transaction that holds its key in a unique index, then fails
  if that one committed and goes on if it rolled back.
* Python runs a module's body under a lock of that module and takes a module whose body
  raised out of `sys.modules`, without undoing what the body did.
* PostgreSQL's DDL is transactional, locks the table until the transaction ends, and a
  deadlock ends one of its transactions. Alembic requires that its UPDATE of
  `alembic_version` matches one row.
* The broker loses no message it accepted. With `task_acks_late` a message is
  acknowledged after the run, and possibly delivered a second time while it still runs.
* Celery does what its settings say and not what the comment beside them says
  (`config/celery.py:23`): with `task_acks_on_failure_or_timeout=False` the message of a
  failed task is rejected with `requeue=False`, as it is when a pool process is lost and
  `task_reject_on_worker_lost` is unset, and when `task.retry` cannot publish. A message
  that was neither acknowledged nor rejected is delivered again.

## 4. Runs

All bounds are constants with a comment in the module. In `JobPipeline`, `Outbox` and
`Reports` `Next` stops when the requests and faults are used up, hence
`CHECK_DEADLOCK FALSE` there; in the other runs deadlock is checked.

| Run | Bounds | Question |
|---|---|---|
| `pipeline_safety` | 1 job, 2 workers, MaxRetries 1, 2 submissions, 1 rerun, 2 faults of 9 kinds, an executor that may write before it raises | the tables stay consistent; `JobLifecycle` is implemented |
| `pipeline_live` | the same with an executor that writes last, no symmetry | what strands a job; `EventuallySettled` |
| `outbox_one` | 1 publisher, 3 events (1 unsupported), batches of 2, 1 retry, back-offs of 0 to 1, 1 crash | types, every event decided |
| `outbox_two` | 2 publishers, 2 events, 1 retry, back-offs of 0 to 1, 1 crash | contract, claims, budgets, duplicates, early dispatches |
| `reports` | 3 requests, 1 key or an empty key, callers of both kinds, any of them aborted, no symmetry | what answers promise, pairs, recovery, liveness |
| `report_pipeline` | 2 reports, 2 workers, 2 submissions each, 1 rerun, 2 faults of 9 kinds | the report against its job |
| `dlq_pages` | 5 jobs created in 2 ticks, pages of 1 or 2, any number of deaths and retries | a walk repeats and skips nothing, and ends |
| `worker_process` | 2 threads, 3 job types in 2 modules, with and without a conflict, 2 imports that raise, 1 restart | the registry behind the import, the one dispatcher |
| `migrations` | 2 deployers, 1 row of jobs, any first version, sessions an hour off UTC, 2 connection attempts, 1 downgrade, 1 crash | schema and data after racing, failing and dying runs |
| `finding_*` | the smallest that shows it | see section 6 |

Why the bounds are enough: jobs interact only through the workers they occupy, so
one job with two workers has every race for a row, and the two jobs of
`report_pipeline` do not disturb each other. MaxRetries 1 has both a retry and an exhausted budget. Two
submissions and a rerun give up to three chains of retries at once; two faults give
the combinations that matter (a swallowed finalisation and then a crash, a duplicate
of a retried message). Two workers cannot run a job at once, so a third only waits.
Three requests under one key have a winner, a loser and one that comes later or meets the
abort of either; the second of two keys would add nothing, keys do not interact, nor
would a request without a key, which is like one with an empty key that meets no other.
Two publishers are the smallest number that overlaps: one loses its lock while the other
holds it. Batches of two among three events have a full and a short batch; with
one retry the first ceiling is all a back-off meets, larger counts are checked by
`Backoff`'s assumptions and the proof of `WaitsBounded`. Five jobs make a walk of three
pages in which ties in `created_at` fall inside a page and across two. One thread that
imports and one that meets it are all a job can see of the import; two failures fit
before and after a registration. Racing deployers never wait in a circle of more than two
(`SomeRunGoesOn`), and which one came first is told by the version; one downgrade gives
each revision its way back and up again. The row of jobs has every status.

What the properties say:

* `AttemptLogComplete`, `AttemptsSerialized`, `StatusMatchesLog`: section 5.
* `EffectsAccounted`: executor writes are committed at most once per attempt on record
  that may have carried them, and at least once for a COMPLETED job. FAILED attempts
  carry some only if the executor writes before it raises. Crashes and duplicates do not
  repeat them; a swallowed finalisation or a swallowed error can.
* `AttemptsBudgeted`: attempts are at most (JOB_MAX_RETRIES + 1) times the number of
  requests and faults: the budget that does hold, in place of the documented one.
* `StrandedOnlyByLoss`: a job that is PENDING with no event, message or worker became so
  by the step that gave up one of its events or lost one of its messages; no end of an
  attempt, sweep, crash of a worker, duplicate or manual retry does it.
* `NeverStranded`: what the documents promise, that only a given-up event strands a job;
  violated in run `finding_aborted_transaction` and by three other faults (section 6).
* `CompletedFinal`: no step changes anything of a COMPLETED job.
* `EventuallySettled`: under fairness every accepted job ends COMPLETED or DEAD, or is
  stranded: no schedule keeps one open while something carries it.
* `ImplementsLifecycle`: the history is append-only and the status follows from it.
* `ClaimsExclusive`, `FailedAfterBudget`: with overlapping publishers one event is in
  one publisher's hands, and is given up only after MAX_PUBLISH_RETRIES + 1 failures.
* `DispatchesAccounted`: however publishers overlap, duplicates are paid for by dispatches
  that raised or by crashes; without a fault there is one message per event.
* `EarlyDispatchesBounded`: phase 2 does not look at `next_attempt_at` again, so that an id
  collected before another publisher rescheduled the event is dispatched inside its
  back-off, at most once per failure and other publisher, and never with one publisher.
* `ImplementsContract`: the publishers implement `OutboxContract`. `EventuallyDecided`: every
  event gets an outcome.
* `AnswersDurable`: who is answered with a report or job finds it committed, attached
  and with a dispatch event, also when another request inserted it, and except when it
  was inserted by the request itself through `get_uow`.
* `SameKeySameAnswer`: answers under one true key that last name one report and one job.
* `ReportsHaveJobs`: committed reports and jobs of reports name each other, without a
  foreign key, so no executor meets a job whose report is missing.
* `RacesRecover`: under a true key no request ends with an `IntegrityError`,
  `ReportNotFound` or `ReportJobAlreadyAttached`, and a conflict means other work.
* `EventuallyAnswered`: waits for rows and locks of other requests end.
* `ReportMatchesJob`: COMPLETED implies READY; READY without COMPLETED needs an attempt
  row left running by a failed finalisation (the exception is a finding, section 6).
* `GeneratedOnce`: the executor's state check makes reports idempotent where the
  pipeline alone is not (compare `EffectsAccounted`).
* `ReadyButOpenStays`: a job whose report became READY without it (a finalisation that
  failed) is never completed afterwards: the state check refuses each further attempt.
* `WaitsBounded`: however publishers overlap, an event waits at most the ceiling of the
  failures counted in its row, so that the count drawn with is the count written.
* `ListedOnce`, `NoneSkipped`, `WalkEnds`: a walk through the DLQ lists no job twice,
  lists every job that is DEAD throughout, and ends although jobs keep dying: they
  are all behind the cursor or among finitely many ids before it.
* `NoneMisdirected`: a job whose type is configured is never taken for unregistered,
  although the registry is read without a lock.
* `EventuallyReady`: a process comes to run jobs after any number of failed imports unless
  two executors claim one type or an import failed after it had registered something.
  The second is a trap: the module's next import is refused as a duplicate until a
  restart.
* `OneDispatcher`: double-checked locking builds one dispatcher, and everybody uses it.
* `SchemaMatchesVersion`, `InstantsPreserved`, `StatusesPreserved`: what runs that race, fail
  or die commit is the schema of the version, and data as it was. Without alembic's
  check of the version, a second conversion of the timestamps would be committed.
* `FailuresExplained`: a run fails only because another run got there first or holds what
  it needs, or because a downgrade to base left the enum types behind, after which
  no upgrade succeeds. That is among alembic runs: transactions of the API and the
  workers, which may deadlock with a run as well, are not modelled.
* `RunsEnd`: each start ends, deadlocks between an UPDATE and an ALTER included.

Fairness: `WF` of the publisher, the sweeper and each worker in `JobPipeline`, of each
publisher and of time in `Outbox`, of each running request in `Reports` (its thread
runs on; whether it arrives or dies is free), of the operator's next page in `DlqPages`, of
each thread inside a call in `WorkerProcess` and of each run in `Migrations`; `SF` of
`Receive` in `WorkerProcess`, where ticks and jobs share the threads and the queue is
served in order; it assumes that jobs keep arriving, as a process that never gets one
never imports the runner. Beat starts the two periodic tasks for as long as
it runs and workers take messages for as long as they run; otherwise nothing is assumed of
the arrival of requests, of faults (they may never happen), or of which outcome an executor has.

## 5. Proofs

`JobPipelineProofs` proves, for every set of jobs and workers, every bound and every
set of fault kinds, from `ConstantsAssumption` alone:

* `TypeCorrect`: `Spec => []TypeOK`;
* `AttemptLog`, `Serialized`, `StatusLog`: the three log invariants;
* `CompletedIsFinal`: `Spec => CompletedFinal`;
* `NoLostJobs`: `Spec => StrandedOnlyByLoss`, with no condition on the faults.

The inductive invariant of the middle three is
`LogInv == TypeOK /\ AttemptLogComplete /\ AttemptsSerialized /\ StatusMatchesLog`. None
of them is inductive alone: committing an attempt adds row `task[w].no`, which keeps
the log complete only if that number is the next one; it is, because the worker took
it under the lock and nobody else commits an attempt of the job meanwhile; and nobody
reopens or closes the job meanwhile because the other writers of the row need the
lock. `StatusMatchesLog` needs that the job is open when an attempt commits.
`LogFrame` disposes of the steps that write no row, `CommitLog` is the main case.

`NoLostJobs` looks at each step that takes a carrier away: it gives the job another or
settles it (`CarryFrame`, `EnqueueCarries`, `HandOver`), or it is counted in `failed` or
`lost` (`LoseCarried`). As an invariant, a stranded job has lost an event or a message.

Two more theorems rest on `LogInv`. Of all steps
only a new submission, a manual retry, a sweep and a committed attempt write rows
(`RowSteps`), and a committed attempt adds one row at the end (`AttemptRows`).
`EffectsAreAccounted` (`EffectsAccounted`) counts: an attempt that commits adds at most one
effect together with a row whose number was free, and that row is one that may have
carried writes. `PipelineKeepsLifecycle`
(`ImplementsLifecycle`) maps those four kinds of step to `Accept`, `Rerun`, `Reset` and
`Attempt`, the last one because the new row is exactly what `Append` makes of the ledger,
and everything else to a stutter.

`JobBudgetProofs` counts. A sum over chains of retries would need an induction; here the
sum of `f` is the cardinality of its units, the pairs of `x` and `1..f[x]`, and the facts
about finite sets suffice. `BudgetKept` is `Spec => []AttemptsBudgeted`. Its inductive
invariant gives each holder a credit of attempts: MAX_RETRIES + 1 for an event and a
RUNNING row, what its `retries` leaves for a message and a worker. Attempts and credits
together stay within MAX_RETRIES + 1 for each request and each fault, which are the only steps
that pay in: a row is left RUNNING by a fault, and a sweep spends what that fault paid.

The same terms, weighted by the steps of a delivery, measure the work a job has left
(`Work`). With three theorems the safety half of `EventuallySettled` is proved:

* `WorkIsSpent`: each step of the publisher, the sweeper and the workers lowers the work of
  some job and raises no other's, so only requests and faults keep the pipeline moving;
* `WorkGoesOn`: while any job has work left one of their guards holds (no deadlock over
  row locks);
* `SettledWhenDone`: a job without work is COMPLETED or DEAD, or has lost an event or a
  message, whatever faults there were.

That a guard that holds is acted on is fairness, and stays with TLC. `IsFiniteSet(Workers)`
is a hypothesis where workers are summed, `Workers # {}` where one has to move: a deployment
has a finite number of workers and at least one.

`ReportPipelineProofs` (`ReportAgrees`, `ReportGeneratedOnce`) adds `ReportMatchesJob` and
`GeneratedOnce` to `LogInv`. Each step but `Reject` is a step of `JobPipeline`
(`ReportSteps`), so that `LogInv` carries over; that COMPLETED implies READY then
rests on `Generate` being the only step that commits a success. The properties of the
pipeline that the composition could break are proved of it again: `ReportsWithinBudget`
(`AttemptsBudgeted`), `NoLostReports` (`StrandedOnlyByLoss`), `ReportJobsKeepLifecycle`
(`ImplementsLifecycle` and `EffectsAccounted`) and `ReportWorkIsSpent`: the `Reject` of a
READY report whose job is still open spends its message, so that it does not go round.

`ReportStaysOpen` (`ReadyButOpenStays`) follows from `LogInv` and the state check: an
attempt that completes the job would have to generate the report, which is READY.

`ReportsProofs` proves from `ReportsAssumption`, for any number of requests and keys:
`ReportsTyped`, `ReportsPaired` (`ReportsHaveJobs`), `RacesAlwaysRecover` (`RacesRecover`)
`AnswersLast` (`AnswersDurable`) and `AnswersAgree` (`SameKeySameAnswer`), for any mixture of
callers that enter their `UnitOfWork` and callers that do not. The
inductive invariant is `ReportsInv`. Its centre is `Pairs`: a report is committed only
together with the job of the same request. To keep it, `Exit` needs that the job
a creator submits cannot be another's (`Unique`: one row per key, committed or not)
and that a request working with a report of another found it committed, hence with
its job (`Working`). `Recovering` says that the loser of an INSERT still has the
winner's row to read. Each action has its lemma, with a step per conjunct. `WaitsAreOrdered`
and `SomeRequestGoesOn` are the safety half of `EventuallyAnswered`: a request waits only
for one at a later statement (the entry of a report, then of a job, then the row of a
report, each held to the commit), so requests never wait in a circle and one of them can go on.

`OutboxProofs` proves from `OutboxAssumption`, for any number of publishers, events and
crashes: `OutboxTypeCorrect`, `ClaimsAreExclusive`, `GivenUpAfterBudget` and `WaitsAreBounded`.
`FailedAfterBudget` rests on `BudgetInv`: a lost update can take an increment of
`retry_count` back, so what bounds the count from above is the number of dispatches that
raised less those whose failure is still to be written (`CountsBounded`, in the committed
row and in the copies read without the lock). `OutboxKeepsContract` proves
`ImplementsContract`: the publishers whose dispatch of an event raised are its doubts
(`InFlight`), one that has the event in hand is not among them, and so each step is one
of `OutboxContract` or a stutter. `DispatchesAreAccounted` counts two messages for each
dispatch that raised, one it may have delivered and one of the event its publisher may
reopen: what is still in doubt has a message in reserve (`SendsBounded`).
`EarlyDispatchesAreBounded` gives each failure as many early dispatches as there are other
publishers, which may still hold the id from phase 1 (`Holders`, `EarlyInv`); who has
looked at the event since is no longer one of them. The
prover has no powers of two: that `MaxDelay` is a natural number up to the retry
budget is a conjunct of `OutboxAssumption`, which TLC evaluates in the runs.

`DlqPagesProofs` proves `WalkTyped`, `WalkListsOnce` and `WalkSkipsNone` from
`DlqAssumption`. The inductive invariant `WalkInv` adds to the three that what was listed
is not after the cursor (`CursorInv`); the rest is that (created_at, id) is a strict
total order (`BeforeOrder`), ties included, whatever page sizes are asked for.

`WorkerProcessProofs` proves `WorkerTypeCorrect`, `JobsFindExecutors` (`NoneMisdirected`)
and `DispatcherIsOne` (`OneDispatcher`) from
`WorkerAssumption`, for any number of threads, modules, failures and restarts.
`ImportsInv` says that what is in `sys.modules` has registered its types, that the importer
has passed the modules and decorators before its own, and that a job runs only behind the
whole import. `DispatcherInv` says that who builds found none under the lock.
What `EventuallyReady` excepts is made precise by two theorems that no run checks.
`FailedImportsAreExplained`: an import fails only because its module raises, the process dies,
two executors claim one type, or the trap of an earlier half-way import is shut.
`TrapHolds`: from then on no thread ever imports the process out of it. Both
rest on `OriginInv`, that a registration is of a decorator of the module it names: a refused
decorator has met one of a module that is imported, hence another one, or of one that
is not. `HalfImportedIsTrapped` ties the trap to what an operator sees. `SomeThreadGoesOn`:
the two locks never leave all threads waiting.

`MigrationsProofs` proves every safety property of `Migrations` from
`MigrationsAssumption`: `MigrationsTyped`, `SchemaFollowsVersion`, `InstantsAreKept`,
`StatusesAreKept` and `FailuresAreExplained`, for any number of runs, rows, crashes and
downgrades. Racing runs do see half-converted drafts, so the invariant `MInv` is about
what a draft is worth. `LockInv`: no table is held by two runs. `TableInv`: a table a run
has not touched looks the same before and after what it has done so far (`SameAt`); one it
has changed is right *if* the version the run found is still the one its table is at.
`Stamp` turns that condition into a fact, by its UPDATE of the version that was read, and
so `CommittedInv` holds. `PlanInv` and `UpdateInv` say which statements are left, for the
two action properties.

`SomeRunGoesOn` justifies a choice of the model. PostgreSQL breaks any circle of waits,
`BreakDeadlock` only two runs that wait for each other; the theorem says that, for any number
of runs, when all of them wait there are two such. Its invariant `LocksInv` gives what a
run holds at each statement of its order. A run that holds nothing of jobs is on its way
down, at reports or outbox_events, and a chain of such runs ends at outbox_events; so a
circle goes through the holder of jobs (of its rows or its key), and what that one waits
for is held by a run that waits for it.

Only model-checked: the liveness properties (`ENABLED`, and so fairness, is out of the
prover's reach) and the delay functions of `Backoff` (powers, which only an induction
over a recursive function would give).

## 6. Where documentation and code part

Three are runs that end in a counterexample.

* `finding_aborted_transaction`: a database error on the last retry leaves the job
  PENDING with no event, message or worker, and the sweeper looks at RUNNING only
  (architecture.md 324, README 27).
* `finding_published_durable`: an overlapping publisher puts PENDING or FAILED over
  PUBLISHED (`outbox/service.py` 286, architecture.md 375).
* `finding_request_commit`: a request through `get_uow` answers with a report that is
  rolled back when the session closes, as nobody enters or commits the `UnitOfWork`
  (architecture.md 138).

The others have no run of their own; a property of section 4 says what holds instead.

* Three more faults strand a job that was submitted once; put in the place of `"aborted"`
  in `MCPipeline_aborted.cfg` each gives its counterexample to `NeverStranded`, and
  `StrandedOnlyByLoss` says that these losses are all there are.
  `"unexpected"`: the message of an exception the executor does not classify is rejected
  and not requeued, although `config/celery.py` 23 and architecture.md 282 and 327 say
  that the broker requeues it. `"lost"`: a pool process that dies loses its message, as
  `task_reject_on_worker_lost` is unset, and leaves no RUNNING row to sweep (README 354,
  183). `"refused"`: a retry the broker does not take is published after the commit and
  outside the outbox (architecture.md 324, README 27).
* A duplicate that waited for the lock while the first delivery failed retryably runs the
  executor again (README 459, architecture.md 373 call it a no-op), and two submissions
  under one key start two chains of retries and exceed JOB_MAX_RETRIES + 1 attempts
  without any fault (README 158, 270): `AttemptsBudgeted` is the bound.
* READY and COMPLETED are not always consistent (architecture.md 505): `ReportMatchesJob`
  has the exception, an attempt whose finalisation failed. The sweeper does not recover
  such a job (architecture.md 341): it resets it once, the attempt raises
  `InvalidReportState`, rolls back and loses its message, and `ReadyButOpenStays`, a
  theorem, says that the job never completes.
* The second request with an empty `Idempotency-Key` gets an `IntegrityError`
  (`apps/reports/service.py` 88): `RacesRecover` is about true keys.
* Executor modules are imported by the first job of a process and not "at worker startup"
  (`config/settings.py` 50, README 264): a module that cannot be imported fails jobs, not
  the start (`EventuallyReady`).
* architecture.md 220 gives the ceiling of a retry's delay as `min(2^n * base, cap)`; it is
  `min(base ** n, cap)` (`CountdownsGrowToCap`), as its docstring says.

## 7. Plan

Done, in this order:

1. `JobPipeline` with `JobLifecycle`, its runs, `JobPipelineProofs`.
2. `Outbox` with `OutboxContract` and `Backoff`, its runs, `OutboxProofs`.
3. `Reports`, its runs, `ReportsProofs`.
4. `ReportPipeline`, its runs, `ReportPipelineProofs`.
5. The refinement of `JobLifecycle` and `JobBudgetProofs`.
6. `DlqPages`, `WorkerProcess`, `Migrations`, their runs, `DlqPagesProofs`,
   `WorkerProcessProofs`, `MigrationsProofs`.

Left: a proof about the delay functions of `Backoff`, which needs an induction.

Not modelled: schemas, routing and the mapping of exceptions to responses; request ids,
logging and metrics, which no other component reads; the readiness probe, which only
asks the database and Redis; the eager execution of tests; `clear_registry`, a helper of
tests; and the loss of accepted messages by Redis.
