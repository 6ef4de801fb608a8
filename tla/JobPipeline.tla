----------------------------- MODULE JobPipeline -----------------------------
(***************************************************************************)
(* The job pipeline: the jobs and job_attempts tables, the events of the   *)
(* transactional outbox, the Celery queue of process_job messages, and the *)
(* workers that run them (src/jobs/service.py, pipeline.py, runner.py,     *)
(* tasks.py and the calls they make into src/outbox/service.py).           *)
(*                                                                         *)
(* One step is one committed database transaction, or one step that no     *)
(* transaction covers: a message received, acknowledged or published, a    *)
(* worker dying.  A worker attempt is ONE transaction (runner.py:249), so  *)
(* it has two steps: it takes the row lock and reads the job (Begin), and  *)
(* later commits, rolls back or dies.  Nothing of it is visible before.    *)
(***************************************************************************)
EXTENDS Naturals, FiniteSets

CONSTANTS
  Jobs,               \* job ids
  Workers,            \* worker processes, one message each (prefetch 1)
  NoJob,              \* the job of an idle worker
  MaxRetries,         \* settings.job_max_retries
  MaxPublishRetries,  \* outbox.config.MAX_PUBLISH_RETRIES
  MaxSubmissions,     \* bound: submit_job calls per job
  MaxReruns,          \* bound: retry_from_dlq calls per job
  EarlyWriters,       \* the jobs whose executor may write before it raises
  FaultKinds,         \* the faults that may happen, a subset of AllFaults
  MaxFaults           \* bound: faults of all kinds in a behaviour

\* How an executor ends when nothing goes wrong around it: it returns, or raises
\* RetryableJobError, or NonRetryableJobError / ExecutorNotRegistered.
Outcomes == {"success", "retryable", "nonretryable"}

AllFaults ==
  {"unmarked", "publish", "finalize", "aborted", "unexpected", "crash", "redeliver",
   "lost", "refused"}

ASSUME ConstantsAssumption ==
  /\ NoJob \notin Jobs
  /\ MaxRetries \in Nat
  /\ MaxPublishRetries \in Nat
  /\ MaxSubmissions \in Nat
  /\ MaxReruns \in Nat
  /\ EarlyWriters \subseteq Jobs
  /\ FaultKinds \subseteq AllFaults
  /\ MaxFaults \in Nat

VARIABLES
  status,     \* status[j]: jobs.status, "absent" before the row exists
  attempts,   \* attempts[j]: jobs.attempts
  log,        \* log[j]: the job_attempts rows, a function from attempt_no to status
  effects,    \* effects[j]: how often an executor's own writes were committed
  pending,    \* pending[j][n]: PENDING outbox events with retry_count n
  published,  \* published[j]: PUBLISHED outbox events
  failed,     \* failed[j]: FAILED outbox events
  queue,      \* queue[j][r]: process_job messages whose Celery retry number is r
  lost,       \* history, lost[j]: messages of j used up without moving it on (Lose)
  pc,         \* pc[w]: where worker w is in run_process_job
  task,       \* task[w]: its message, and the attempt_no it took in begin_attempt
  submissions, \* submissions[j]: submit_job calls for j (bounded by MaxSubmissions)
  reruns,     \* reruns[j]: retry_from_dlq calls for j (bounded by MaxReruns)
  faults      \* faults that happened (bounded by MaxFaults)

rows == <<status, attempts, log, effects>>
outbox == <<pending, published, failed>>
broker == <<queue, lost>>
worker == <<pc, task>>
requests == <<submissions, reruns>>
vars == <<rows, outbox, broker, worker, requests, faults>>

JobStatus == {"pending", "running", "completed", "dead"}
AttemptStatus == {"running", "succeeded", "failed"}
\* Mutant: a completed job may run again.
TerminalDeadOnly == {"dead"}
Terminal == {"completed", "dead"}
Phases == {"idle", "received", "executing", "retrying", "acking"}

Retries == 0..MaxRetries
PublishRetries == 0..MaxPublishRetries

NoTask == [job |-> NoJob, retries |-> 0, no |-> 0]
Tasks == [job : Jobs \cup {NoJob}, retries : Retries, no : Nat]

-----------------------------------------------------------------------------
(* The data the steps are made of.                                         *)

\* Mutant: the job is read without FOR UPDATE.
NeverLocked(j) == FALSE

\* SELECT ... FOR UPDATE: the row is locked by the worker whose transaction is open.
Locked(j) == \E w \in Workers : pc[w] = "executing" /\ task[w].job = j

\* The rows that get_for_update reads next, when no other transaction holds them.
NextAttemptNo(j) == attempts[j] + 1

\* Mutant: one retry too many.
ClassifyOneMore(outcome, retries) ==
  CASE outcome = "success" ->
         [job |-> "completed", attempt |-> "succeeded", retry |-> FALSE]
    [] outcome = "retryable" /\ retries <= MaxRetries ->
         [job |-> "pending", attempt |-> "failed", retry |-> TRUE]
    [] OTHER ->
         [job |-> "dead", attempt |-> "failed", retry |-> FALSE]

\* The (job status, attempt status, retry wanted) an executor's outcome asks for.
Classify(outcome, retries) ==
  CASE outcome = "success" ->
         [job |-> "completed", attempt |-> "succeeded", retry |-> FALSE]
    [] outcome = "retryable" /\ retries < MaxRetries ->
         [job |-> "pending", attempt |-> "failed", retry |-> TRUE]
    [] OTHER ->
         [job |-> "dead", attempt |-> "failed", retry |-> FALSE]

\* How often the executor of j may have written when it ends like this.
Writes(j, outcome) ==
  IF outcome = "success" THEN {1} ELSE IF j \in EarlyWriters THEN {0, 1} ELSE {0}

\* Mutant: the attempt row is inserted inside finalize_attempt's savepoint.
WithRowIfFinalized(rowsOfJob, no, s) ==
  IF s = "running" THEN rowsOfJob
  ELSE [n \in DOMAIN rowsOfJob \cup {no} |-> IF n = no THEN s ELSE rowsOfJob[n]]

\* Mutant: finalize_attempt looks the attempt up by its status, not its number.
WithRunningRows(rowsOfJob, no, s) ==
  [n \in DOMAIN rowsOfJob \cup {no} |->
     IF n = no THEN s ELSE IF rowsOfJob[n] = "running" THEN s ELSE rowsOfJob[n]]

\* The log with the row (no, s) added, or changed when it is there.
WithRow(rowsOfJob, no, s) ==
  [n \in DOMAIN rowsOfJob \cup {no} |-> IF n = no THEN s ELSE rowsOfJob[n]]

\* outbox_service.create_event for each job of J, in the caller's transaction.
CreateEvents(J) ==
  pending' = [j \in Jobs |->
                IF j \in J THEN [pending[j] EXCEPT ![0] = @ + 1] ELSE pending[j]]

\* The broker takes a message.
Enqueue(j, r) ==
  /\ queue' = [queue EXCEPT ![j][r] = @ + 1]
  /\ UNCHANGED lost

\* A message of j is gone though its job was not moved on.  Celery rejects it without
\* requeue when its task fails (late acks, no ack on failure, and
\* task_reject_on_worker_lost unset: config/celery.py:21-24), or it is acknowledged
\* after an attempt that was rolled back.
Lose(j) ==
  /\ lost' = [lost EXCEPT ![j] = @ + 1]
  /\ UNCHANGED queue

\* A worker is done with its message.
Release(w) ==
  /\ pc' = [pc EXCEPT ![w] = "idle"]
  /\ task' = [task EXCEPT ![w] = NoTask]

Goto(w, phase) == pc' = [pc EXCEPT ![w] = phase] /\ UNCHANGED task

Fault(kind) ==
  /\ kind \in FaultKinds
  /\ faults < MaxFaults
  /\ faults' = faults + 1

Submission(j) ==
  /\ submissions[j] < MaxSubmissions
  /\ submissions' = [submissions EXCEPT ![j] = @ + 1]
  /\ UNCHANGED reruns

Init ==
  /\ status = [j \in Jobs |-> "absent"]
  /\ attempts = [j \in Jobs |-> 0]
  /\ log = [j \in Jobs |-> [n \in {} |-> "running"]]
  /\ effects = [j \in Jobs |-> 0]
  /\ pending = [j \in Jobs |-> [n \in PublishRetries |-> 0]]
  /\ published = [j \in Jobs |-> 0]
  /\ failed = [j \in Jobs |-> 0]
  /\ queue = [j \in Jobs |-> [r \in Retries |-> 0]]
  /\ lost = [j \in Jobs |-> 0]
  /\ pc = [w \in Workers |-> "idle"]
  /\ task = [w \in Workers |-> NoTask]
  /\ submissions = [j \in Jobs |-> 0]
  /\ reruns = [j \in Jobs |-> 0]
  /\ faults = 0

-----------------------------------------------------------------------------
(* Requests: submit_job and retry_from_dlq, each in a committed transaction. *)

\* submit_job, new key: the job row and its dispatch event, atomically.
SubmitNew(j) ==
  /\ Submission(j)
  /\ status[j] = "absent"
  /\ status' = [status EXCEPT ![j] = "pending"]
  /\ CreateEvents({j})
  /\ UNCHANGED <<attempts, log, effects, published, failed, broker, worker, faults>>

\* submit_job, known key: the row is reused as it is, whatever its status, and
\* a further dispatch event is recorded.
SubmitAgain(j) ==
  /\ Submission(j)
  /\ status[j] # "absent"
  /\ CreateEvents({j})
  /\ UNCHANGED <<rows, published, failed, broker, worker, faults>>

\* retry_from_dlq: only a dead job, under its row lock; attempts are kept.
RetryFromDlq(j) ==
  /\ reruns[j] < MaxReruns
  /\ reruns' = [reruns EXCEPT ![j] = @ + 1]
  /\ ~Locked(j)
  /\ status[j] = "dead"
  /\ status' = [status EXCEPT ![j] = "pending"]
  /\ CreateEvents({j})
  /\ UNCHANGED <<attempts, log, effects, published, failed, broker, worker,
                 submissions, faults>>

\* reset_stuck_running_jobs: SKIP LOCKED picks committed RUNNING rows nobody holds.
\* (First a mutant: it never finds one.)
NothingStuck == {j \in Jobs : status[j] = "running" /\ Locked(j)}

Sweepable == {j \in Jobs : status[j] = "running" /\ ~Locked(j)}

Sweep ==
  \E J \in (SUBSET Sweepable) \ {{}} :
    /\ status' = [j \in Jobs |-> IF j \in J THEN "pending" ELSE status[j]]
    /\ CreateEvents(J)
    /\ UNCHANGED <<attempts, log, effects, published, failed, broker, worker,
                   requests, faults>>

-----------------------------------------------------------------------------
(* The outbox publisher, one event at a time and each in its own transaction. *)
(* (Overlapping publishers are the subject of module Outbox.)              *)

\* The dispatch succeeds and the event is committed as PUBLISHED.
Publish(j, n) ==
  /\ pending[j][n] > 0
  /\ pending' = [pending EXCEPT ![j][n] = @ - 1]
  /\ published' = [published EXCEPT ![j] = @ + 1]
  /\ Enqueue(j, 0)
  /\ UNCHANGED <<rows, failed, worker, requests, faults>>

\* The dispatch succeeds and the publisher dies before its commit.
PublishUnmarked(j, n) ==
  /\ Fault("unmarked")
  /\ pending[j][n] > 0
  /\ Enqueue(j, 0)
  /\ UNCHANGED <<rows, outbox, worker, requests>>

\* The dispatch raises: another try with retry_count + 1, or FAILED.
PublishFails(j, n) ==
  /\ Fault("publish")
  /\ pending[j][n] > 0
  /\ IF n + 1 > MaxPublishRetries
       THEN /\ pending' = [pending EXCEPT ![j][n] = @ - 1]
            /\ failed' = [failed EXCEPT ![j] = @ + 1]
       ELSE /\ pending' = [pending EXCEPT ![j][n] = @ - 1, ![j][n + 1] = @ + 1]
            /\ UNCHANGED failed
  /\ UNCHANGED <<rows, published, broker, worker, requests>>

-----------------------------------------------------------------------------
(* A worker: run_process_job.                                              *)

Receive(w, j, r) ==
  /\ pc[w] = "idle"
  /\ queue[j][r] > 0
  /\ queue' = [queue EXCEPT ![j][r] = @ - 1]
  /\ UNCHANGED lost
  /\ pc' = [pc EXCEPT ![w] = "received"]
  /\ task' = [task EXCEPT ![w] = [job |-> j, retries |-> r, no |-> 0]]
  /\ UNCHANGED <<rows, outbox, requests, faults>>

\* begin_attempt says no: the job is missing or terminal.
NoopAttempt(w) ==
  /\ pc[w] = "received"
  /\ ~Locked(task[w].job)
  /\ status[task[w].job] \in Terminal \cup {"absent"}
  /\ Goto(w, "acking")
  /\ UNCHANGED <<rows, outbox, broker, requests, faults>>

\* begin_attempt takes the row lock and the next attempt number.
Begin(w) ==
  /\ pc[w] = "received"
  /\ ~Locked(task[w].job)
  /\ status[task[w].job] \notin Terminal \cup {"absent"}
  /\ pc' = [pc EXCEPT ![w] = "executing"]
  /\ task' = [task EXCEPT ![w].no = NextAttemptNo(task[w].job)]
  /\ UNCHANGED <<rows, outbox, broker, requests, faults>>

\* The attempt's transaction commits with job status s and attempt row a.  A classified
\* error is swallowed inside it (runner.py:181-197), so what the executor had
\* written before it raised is committed as well.
CommitAttempt(w, outcome, s, a) ==
  LET j == task[w].job IN
  /\ pc[w] = "executing"
  /\ status' = [status EXCEPT ![j] = s]
  /\ attempts' = [attempts EXCEPT ![j] = task[w].no]
  /\ log' = [log EXCEPT ![j] = WithRow(log[j], task[w].no, a)]
  /\ \E n \in Writes(j, outcome) : effects' = [effects EXCEPT ![j] = @ + n]

\* Where the worker goes once its attempt is over: retry, or acknowledge.
AfterAttempt(w, outcome) ==
  Goto(w, IF Classify(outcome, task[w].retries).retry THEN "retrying" ELSE "acking")

\* The executor returns or raises a classified error, and finalize_attempt works.
Finalize(w, outcome) ==
  LET c == Classify(outcome, task[w].retries) IN
  /\ CommitAttempt(w, outcome, c.job, c.attempt)
  /\ AfterAttempt(w, outcome)
  /\ UNCHANGED <<outbox, broker, requests, faults>>

\* finalize_attempt fails inside its savepoint: the error is logged, and what
\* begin_attempt and the executor wrote is committed without the outcome.
FinalizeFails(w, outcome) ==
  /\ Fault("finalize")
  /\ CommitAttempt(w, outcome, "running", "running")
  /\ AfterAttempt(w, outcome)
  /\ UNCHANGED <<outbox, broker, requests>>

\* A statement of the executor fails (complete_report's SELECT ... FOR UPDATE) and
\* it raises RetryableJobError: the database has aborted the transaction, so the
\* savepoint fails (and is logged) and COMMIT rolls everything back, while the worker
\* goes on as if the outcome were stored.  (After a failed flush the session refuses
\* to commit at all: that is RaiseUnexpected.)
AbortedAttempt(w) ==
  /\ Fault("aborted")
  /\ pc[w] = "executing"
  /\ AfterAttempt(w, "retryable")
  /\ IF Classify("retryable", task[w].retries).retry
       THEN UNCHANGED broker ELSE Lose(task[w].job)
  /\ UNCHANGED <<rows, outbox, requests>>

\* Mutant: the executor writes through a session of its own.
RaiseAfterWriting(w) ==
  /\ Fault("unexpected")
  /\ pc[w] = "executing"
  /\ effects' = [effects EXCEPT ![task[w].job] = @ + 1]
  /\ Lose(task[w].job)
  /\ Release(w)
  /\ UNCHANGED <<status, attempts, log, outbox, requests>>

\* An unclassified exception leaves the transaction: rollback, a failed task, and a
\* message that is rejected.
RaiseUnexpected(w) ==
  /\ Fault("unexpected")
  /\ pc[w] = "executing"
  /\ Lose(task[w].job)
  /\ Release(w)
  /\ UNCHANGED <<rows, outbox, requests>>

\* Mutant: the retry message does not count the retry.
ScheduleSameRetry(w) ==
  /\ pc[w] = "retrying"
  /\ Enqueue(task[w].job, task[w].retries)
  /\ Release(w)
  /\ UNCHANGED <<rows, outbox, requests, faults>>

\* _schedule_retry: task.retry publishes a new message, and the old one is acked.
ScheduleRetry(w) ==
  /\ pc[w] = "retrying"
  /\ Enqueue(task[w].job, task[w].retries + 1)
  /\ Release(w)
  /\ UNCHANGED <<rows, outbox, requests, faults>>

Ack(w) ==
  /\ pc[w] = "acking"
  /\ Release(w)
  /\ UNCHANGED <<rows, outbox, broker, requests, faults>>

\* Mutant: messages are acknowledged before their task runs.
CrashAfterEarlyAck(w) ==
  /\ Fault("crash")
  /\ pc[w] # "idle"
  /\ Release(w)
  /\ UNCHANGED <<rows, outbox, broker, requests>>

\* The whole worker dies, or loses its connection: its open transaction is rolled back,
\* and its message, never acknowledged, is delivered again.
Crash(w) ==
  /\ Fault("crash")
  /\ pc[w] # "idle"
  /\ Enqueue(task[w].job, task[w].retries)
  /\ Release(w)
  /\ UNCHANGED <<rows, outbox, requests>>

\* The broker refuses the retry message (runner.py:316, after the commit): Celery turns
\* the failed publication into a rejection of the message in hand.
RetryRefused(w) ==
  /\ Fault("refused")
  /\ pc[w] = "retrying"
  /\ Lose(task[w].job)
  /\ Release(w)
  /\ UNCHANGED <<rows, outbox, requests>>

\* Only the pool process that runs the task dies (killed, out of memory): the worker's
\* main process outlives it and rejects the message.
ChildLost(w) ==
  /\ Fault("lost")
  /\ pc[w] # "idle"
  /\ Lose(task[w].job)
  /\ Release(w)
  /\ UNCHANGED <<rows, outbox, requests>>

\* The broker delivers a message a second time while a worker still has it.
Redeliver(w) ==
  /\ Fault("redeliver")
  /\ pc[w] # "idle"
  /\ Enqueue(task[w].job, task[w].retries)
  /\ UNCHANGED <<rows, outbox, worker, requests>>

-----------------------------------------------------------------------------
RequestStep == \E j \in Jobs : SubmitNew(j) \/ SubmitAgain(j) \/ RetryFromDlq(j)

PublisherStep == \E j \in Jobs, n \in PublishRetries : Publish(j, n)

WorkerStep(w) ==
  \/ \E j \in Jobs, r \in Retries : Receive(w, j, r)
  \/ NoopAttempt(w)
  \/ Begin(w)
  \/ \E outcome \in Outcomes : Finalize(w, outcome)
  \/ ScheduleRetry(w)
  \/ Ack(w)

FaultStep ==
  \/ \E j \in Jobs, n \in PublishRetries : PublishUnmarked(j, n) \/ PublishFails(j, n)
  \/ \E w \in Workers :
       \/ \E outcome \in Outcomes : FinalizeFails(w, outcome)
       \/ AbortedAttempt(w)
       \/ RaiseUnexpected(w)
       \/ RetryRefused(w)
       \/ ChildLost(w)
       \/ Crash(w)
       \/ Redeliver(w)

Next ==
  \/ RequestStep
  \/ Sweep
  \/ PublisherStep
  \/ \E w \in Workers : WorkerStep(w)
  \/ FaultStep

Spec == Init /\ [][Next]_vars

\* The beat schedule keeps running the publisher and the sweeper, and workers
\* keep running: each of them takes a step it can always take.
Fairness ==
  /\ WF_vars(PublisherStep)
  /\ WF_vars(Sweep)
  /\ \A w \in Workers : WF_vars(WorkerStep(w))

FairSpec == Spec /\ Fairness

-----------------------------------------------------------------------------
(* Properties.                                                             *)

RowsOK ==
  /\ status \in [Jobs -> JobStatus \cup {"absent"}]
  /\ attempts \in [Jobs -> Nat]
  /\ DOMAIN log = Jobs
  /\ \A j \in Jobs : log[j] \in [DOMAIN log[j] -> AttemptStatus]
  /\ effects \in [Jobs -> Nat]

OutboxOK ==
  /\ pending \in [Jobs -> [PublishRetries -> Nat]]
  /\ published \in [Jobs -> Nat]
  /\ failed \in [Jobs -> Nat]

QueueOK ==
  /\ queue \in [Jobs -> [Retries -> Nat]]
  /\ lost \in [Jobs -> Nat]

WorkersOK ==
  /\ pc \in [Workers -> Phases]
  /\ task \in [Workers -> Tasks]
  /\ \A w \in Workers : pc[w] = "idle" <=> task[w].job = NoJob
  /\ \A w \in Workers : pc[w] = "retrying" => task[w].retries < MaxRetries

CountersOK ==
  /\ submissions \in [Jobs -> Nat]
  /\ reruns \in [Jobs -> Nat]
  /\ faults \in Nat

\* The type invariant: every variable is what the schema and the broker allow, a
\* worker has a job exactly when it is busy, and a retry it is about to publish is
\* within max_retries.
TypeOK == RowsOK /\ OutboxOK /\ QueueOK /\ WorkersOK /\ CountersOK

\* The attempt rows of a job are numbered 1, 2, ... without a gap, and
\* jobs.attempts is their number: begin_attempt derives the next number from
\* the job row, not from the rows, through crashes, duplicates and rollbacks.
AttemptLogComplete == \A j \in Jobs : DOMAIN log[j] = 1..attempts[j]

\* However often a job's message is delivered, one worker at a time runs it, it
\* runs it only while the job is open, and the number it took at begin_attempt is
\* still free: the IntegrityError branch (pipeline.py:65) cannot be taken.
AttemptsSerialized ==
  \A w \in Workers : pc[w] = "executing" =>
    LET j == task[w].job IN
    /\ \A v \in Workers : pc[v] = "executing" /\ task[v].job = j => v = w
    /\ status[j] \in {"pending", "running"}
    /\ task[w].no = attempts[j] + 1
    /\ task[w].no \notin DOMAIN log[j]

\* The job row and the attempt rows, written by different statements, tell one
\* story: a job is COMPLETED exactly when its last attempt succeeded, no other
\* attempt ever did, a DEAD job's last attempt failed, and a RUNNING job's last
\* attempt is unfinished.
StatusMatchesLog ==
  \A j \in Jobs :
    /\ \A n \in DOMAIN log[j] :
         log[j][n] = "succeeded" => n = attempts[j] /\ status[j] = "completed"
    /\ status[j] = "completed" =>
         attempts[j] \in DOMAIN log[j] /\ log[j][attempts[j]] = "succeeded"
    /\ status[j] = "dead" =>
         attempts[j] \in DOMAIN log[j] /\ log[j][attempts[j]] = "failed"
    /\ status[j] = "running" =>
         attempts[j] \in DOMAIN log[j] /\ log[j][attempts[j]] = "running"

\* The attempts whose commit may have carried writes of the executor: those that did
\* not record a failure, and failures of an executor that writes before it raises.
MayHaveWritten(j) ==
  {n \in DOMAIN log[j] : log[j][n] # "failed" \/ j \in EarlyWriters}

\* An executor's writes are committed at most once for each attempt on record that may
\* have carried them, and a COMPLETED job has them: duplicates, rollbacks and lost
\* workers never repeat or lose them.
EffectsAccounted ==
  \A j \in Jobs :
    /\ effects[j] <= Cardinality(MayHaveWritten(j))
    /\ status[j] = "completed" => effects[j] > 0

\* JOB_MAX_RETRIES bounds the attempts of one chain of retry messages.  A job has
\* at most one chain per request and one more per fault, so that is its budget.
AttemptsBudgeted ==
  \A j \in Jobs : attempts[j] <= (MaxRetries + 1) * (submissions[j] + reruns[j] + faults)

\* Who will still move job j: an outbox event, a message, or a worker.
CarriedBy(w, j) == task[w].job = j /\ pc[w] \in {"received", "executing", "retrying"}

Carried(j) ==
  \/ \E n \in PublishRetries : pending[j][n] > 0
  \/ \E r \in Retries : queue[j][r] > 0
  \/ \E w \in Workers : CarriedBy(w, j)

\* A job that nothing will move: the sweeper looks at RUNNING only, so it stays PENDING
\* until somebody submits it again.
Stranded(j) == status[j] = "pending" /\ ~Carried(j)

\* A job is stranded only by the step that gives up one of its dispatch events, or that
\* uses up one of its messages without moving it on: never by an end of an attempt,
\* a sweep, a race with a duplicate, a crash or a manual retry.
StrandedOnlyByLoss ==
  [][\A j \in Jobs : Stranded(j)' /\ ~Stranded(j) =>
       failed'[j] > failed[j] \/ lost'[j] > lost[j]]_vars

\* What the documents promise (README.md:27, "No lost jobs after a successful submission
\* commit"): a PENDING job has somebody to move it, or a dispatch event in the
\* outbox that was given up as FAILED.
NeverStranded == \A j \in Jobs : Stranded(j) => failed[j] > 0

\* A COMPLETED job is final: no later duplicate, retry, sweep or DLQ request
\* touches its row, its attempts or its effects.
CompletedFinal ==
  [][\A j \in Jobs : status[j] = "completed" =>
       /\ status'[j] = "completed"
       /\ attempts'[j] = attempts[j]
       /\ log'[j] = log[j]
       /\ effects'[j] = effects[j]]_vars

\* Every job that was accepted is settled in the end, COMPLETED, or DEAD in the DLQ,
\* or has been stranded: no schedule keeps one open while something carries it.
EventuallySettled ==
  \A j \in Jobs : status[j] # "absent" ~> status[j] \in Terminal \/ Stranded(j)

\* The attempt history as a reader of the API sees it, oldest attempt first.
Ledger == [j \in Jobs |-> [n \in 1..attempts[j] |-> log[j][n]]]

Lifecycle == INSTANCE JobLifecycle WITH ledger <- Ledger

\* Behind queues, duplicates, crashes and repairs, a job only ever takes the steps
\* of JobLifecycle: its history is append-only (a finished row is never rewritten
\* and no attempt is recorded twice), and each attempt settles the status that
\* its outcome calls for.
ImplementsLifecycle == Lifecycle!Spec
=============================================================================
