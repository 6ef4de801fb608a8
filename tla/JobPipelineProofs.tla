-------------------------- MODULE JobPipelineProofs --------------------------
(***************************************************************************)
(* Theorems about JobPipeline, for every set of jobs and workers and every *)
(* value of the bounds.                                                    *)
(***************************************************************************)
EXTENDS JobPipeline, FiniteSetTheorems, SequenceTheorems, TLAPS

-----------------------------------------------------------------------------
(* Type correctness.                                                       *)

LEMMA EnqueueOK ==
  ASSUME QueueOK, NEW j \in Jobs, NEW r \in Retries, Enqueue(j, r)
  PROVE  QueueOK'
<1>1. [queue[j] EXCEPT ![r] = @ + 1] \in [Retries -> Nat]
  BY DEF QueueOK
<1>2. queue' = [queue EXCEPT ![j] = [queue[j] EXCEPT ![r] = @ + 1]] /\ UNCHANGED lost
  BY DEF Enqueue
<1> QED
  BY <1>1, <1>2 DEF QueueOK

LEMMA LoseOK ==
  ASSUME QueueOK, NEW j \in Jobs, Lose(j)
  PROVE  QueueOK'
  BY DEF Lose, QueueOK

LEMMA CreateEventsOK ==
  ASSUME OutboxOK, NEW J, CreateEvents(J), UNCHANGED <<published, failed>>
  PROVE  OutboxOK'
<1>1. 0 \in PublishRetries
  BY ConstantsAssumption DEF PublishRetries
<1> QED
  BY <1>1 DEF OutboxOK, CreateEvents

LEMMA ReleaseOK ==
  ASSUME WorkersOK, NEW w \in Workers, Release(w)
  PROVE  WorkersOK'
<1>1. NoTask \in Tasks /\ NoTask.job = NoJob
  BY ConstantsAssumption DEF NoTask, Tasks, Retries
<1> QED
  BY <1>1 DEF WorkersOK, Release, Phases

\* A busy worker has a message that could have been queued.
LEMMA BusyTask ==
  ASSUME WorkersOK, NEW w \in Workers, pc[w] # "idle"
  PROVE  task[w].job \in Jobs /\ task[w].retries \in Retries /\ task[w].no \in Nat
  BY DEF WorkersOK, Tasks

LEMMA GotoOK ==
  ASSUME WorkersOK, NEW w \in Workers, pc[w] # "idle",
         NEW phase \in Phases \ {"idle"}, Goto(w, phase),
         phase = "retrying" => task[w].retries < MaxRetries
  PROVE  WorkersOK'
  BY DEF WorkersOK, Goto, Phases

LEMMA AfterAttemptOK ==
  ASSUME WorkersOK, NEW w \in Workers, pc[w] # "idle", NEW outcome,
         AfterAttempt(w, outcome)
  PROVE  WorkersOK'
<1> DEFINE retry == Classify(outcome, task[w].retries).retry
<1>1. retry => task[w].retries < MaxRetries
  BY DEF Classify
<1>2. CASE retry
  <2>1. Goto(w, "retrying")
    BY <1>2 DEF AfterAttempt
  <2> QED
    BY <1>1, <1>2, <2>1, GotoOK DEF Phases
<1>3. CASE ~retry
  <2>1. Goto(w, "acking")
    BY <1>3 DEF AfterAttempt
  <2> QED
    BY <2>1, GotoOK DEF Phases
<1> QED
  BY <1>2, <1>3

LEMMA CommitAttemptOK ==
  ASSUME RowsOK, WorkersOK, NEW w \in Workers, NEW outcome,
         NEW s \in JobStatus, NEW a \in AttemptStatus,
         CommitAttempt(w, outcome, s, a)
  PROVE  RowsOK'
<1> DEFINE j == task[w].job
<1>1. j \in Jobs /\ task[w].no \in Nat
  BY BusyTask DEF CommitAttempt
<1>2. status' \in [Jobs -> JobStatus \cup {"absent"}]
  BY <1>1 DEF RowsOK, CommitAttempt
<1>3. attempts' \in [Jobs -> Nat]
  BY <1>1 DEF RowsOK, CommitAttempt
<1>4. DOMAIN log' = Jobs
  BY <1>1 DEF RowsOK, CommitAttempt
<1>5. \A i \in Jobs : log'[i] \in [DOMAIN log'[i] -> AttemptStatus]
  <2>1. WithRow(log[j], task[w].no, a)
          \in [DOMAIN WithRow(log[j], task[w].no, a) -> AttemptStatus]
    BY <1>1 DEF RowsOK, WithRow
  <2>2. \A i \in Jobs : log'[i] = IF i = j THEN WithRow(log[j], task[w].no, a) ELSE log[i]
    BY <1>1 DEF RowsOK, CommitAttempt
  <2> QED
    BY <2>1, <2>2 DEF RowsOK
<1>6. effects' \in [Jobs -> Nat]
  <2>1. PICK n \in Writes(j, outcome) : effects' = [effects EXCEPT ![j] = @ + n]
    BY DEF CommitAttempt
  <2>2. n \in Nat
    BY DEF Writes
  <2> QED
    BY <1>1, <2>1, <2>2 DEF RowsOK
<1> QED
  BY <1>2, <1>3, <1>4, <1>5, <1>6 DEF RowsOK

LEMMA ClassifyOK ==
  ASSUME NEW outcome, NEW r
  PROVE  /\ Classify(outcome, r).job \in JobStatus
         /\ Classify(outcome, r).attempt \in AttemptStatus
  BY DEF Classify, JobStatus, AttemptStatus

LEMMA FaultOK ==
  ASSUME CountersOK, NEW kind, Fault(kind), UNCHANGED requests
  PROVE  CountersOK'
  BY DEF CountersOK, Fault, requests

LEMMA InitTypeOK == Init => TypeOK
<1> SUFFICES ASSUME Init PROVE TypeOK
  OBVIOUS
<1>1. RowsOK
  BY DEF Init, RowsOK
<1>2. OutboxOK
  BY DEF Init, OutboxOK
<1>3. QueueOK
  BY DEF Init, QueueOK
<1>4. WorkersOK
  BY ConstantsAssumption DEF Init, WorkersOK, NoTask, Tasks, Retries, Phases
<1>5. CountersOK
  BY DEF Init, CountersOK
<1> QED
  BY <1>1, <1>2, <1>3, <1>4, <1>5 DEF TypeOK

LEMMA RequestsTypeOK ==
  ASSUME TypeOK, NEW j \in Jobs, SubmitNew(j) \/ SubmitAgain(j) \/ RetryFromDlq(j)
  PROVE  TypeOK'
<1> USE DEF TypeOK
<1>1. OutboxOK'
  BY CreateEventsOK DEF SubmitNew, SubmitAgain, RetryFromDlq
<1>2. RowsOK'
  BY DEF SubmitNew, SubmitAgain, RetryFromDlq, rows, RowsOK, JobStatus
<1>3. CountersOK'
  BY DEF SubmitNew, SubmitAgain, RetryFromDlq, Submission, CountersOK
<1>4. QueueOK' /\ WorkersOK'
  BY DEF SubmitNew, SubmitAgain, RetryFromDlq, worker, broker, QueueOK, WorkersOK
<1> QED
  BY <1>1, <1>2, <1>3, <1>4

LEMMA SweepTypeOK ==
  ASSUME TypeOK, Sweep
  PROVE  TypeOK'
<1> USE DEF TypeOK
<1>1. OutboxOK'
  BY CreateEventsOK DEF Sweep
<1>2. RowsOK'
  BY DEF Sweep, RowsOK, JobStatus
<1>3. QueueOK' /\ WorkersOK' /\ CountersOK'
  BY DEF Sweep, worker, requests, broker, QueueOK, WorkersOK, CountersOK
<1> QED
  BY <1>1, <1>2, <1>3

LEMMA PublisherTypeOK ==
  ASSUME TypeOK, NEW j \in Jobs, NEW n \in PublishRetries,
         Publish(j, n) \/ PublishUnmarked(j, n) \/ PublishFails(j, n)
  PROVE  TypeOK'
<1> USE DEF TypeOK
<1>0. 0 \in Retries /\ n \in Nat
  BY ConstantsAssumption DEF Retries, PublishRetries
<1>1. RowsOK' /\ WorkersOK'
  BY DEF Publish, PublishUnmarked, PublishFails, rows, worker, RowsOK, WorkersOK
<1>2. QueueOK'
  BY <1>0, EnqueueOK DEF Publish, PublishUnmarked, PublishFails, broker, QueueOK
<1>3. CountersOK'
  BY FaultOK DEF Publish, PublishUnmarked, PublishFails, requests, CountersOK
<1>4. ASSUME pending[j][n] > 0
      PROVE  [pending[j] EXCEPT ![n] = @ - 1] \in [PublishRetries -> Nat]
  BY <1>4 DEF OutboxOK
<1>5. CASE Publish(j, n)
  <2>1. pending' = [pending EXCEPT ![j] = [pending[j] EXCEPT ![n] = @ - 1]]
    BY <1>5 DEF Publish
  <2>2. pending' \in [Jobs -> [PublishRetries -> Nat]]
    BY <1>4, <1>5, <2>1 DEF Publish, OutboxOK
  <2> QED
    BY <1>1, <1>2, <1>3, <1>5, <2>2 DEF Publish, OutboxOK
<1>6. CASE PublishUnmarked(j, n)
  BY <1>1, <1>2, <1>3, <1>6 DEF PublishUnmarked, OutboxOK, outbox
<1>7. CASE PublishFails(j, n)
  <2>1. CASE n + 1 > MaxPublishRetries
    <3>1. /\ pending' = [pending EXCEPT ![j] = [pending[j] EXCEPT ![n] = @ - 1]]
          /\ failed' = [failed EXCEPT ![j] = @ + 1]
      BY <1>7, <2>1 DEF PublishFails
    <3>2. pending' \in [Jobs -> [PublishRetries -> Nat]]
      BY <1>4, <1>7, <3>1 DEF PublishFails, OutboxOK
    <3> QED
      BY <1>1, <1>2, <1>3, <1>7, <3>1, <3>2 DEF PublishFails, OutboxOK
  <2>2. CASE ~(n + 1 > MaxPublishRetries)
    <3> DEFINE less == [pending[j] EXCEPT ![n] = @ - 1]
    <3>1. n + 1 \in PublishRetries
      BY <1>0, <2>2, ConstantsAssumption DEF PublishRetries
    <3>2. less \in [PublishRetries -> Nat]
      BY <1>4, <1>7 DEF PublishFails
    <3>3. [less EXCEPT ![n + 1] = @ + 1] \in [PublishRetries -> Nat]
      BY <3>1, <3>2
    <3>4. /\ pending' = [pending EXCEPT ![j] = [less EXCEPT ![n + 1] = @ + 1]]
          /\ UNCHANGED failed
      BY <1>7, <2>2 DEF PublishFails, OutboxOK
    <3>5. pending' \in [Jobs -> [PublishRetries -> Nat]]
      BY <3>3, <3>4 DEF OutboxOK
    <3> QED
      BY <1>1, <1>2, <1>3, <1>7, <3>4, <3>5 DEF PublishFails, OutboxOK
  <2> QED
    BY <2>1, <2>2
<1> QED
  BY <1>5, <1>6, <1>7

LEMMA WorkerTypeOK ==
  ASSUME TypeOK, NEW w \in Workers, WorkerStep(w)
  PROVE  TypeOK'
<1> USE DEF TypeOK
<1>1. ASSUME NEW j \in Jobs, NEW r \in Retries, Receive(w, j, r)
      PROVE  TypeOK'
  <2>1. [queue[j] EXCEPT ![r] = @ - 1] \in [Retries -> Nat]
    BY <1>1 DEF Receive, broker, QueueOK
  <2>2. queue' = [queue EXCEPT ![j] = [queue[j] EXCEPT ![r] = @ - 1]]
    BY <1>1 DEF Receive
  <2>3. QueueOK'
    BY <1>1, <2>1, <2>2 DEF Receive, QueueOK
  <2>4. WorkersOK'
    BY <1>1, ConstantsAssumption DEF Receive, WorkersOK, Tasks, Phases
  <2> QED
    BY <1>1, <2>3, <2>4 DEF Receive, rows, outbox, requests, RowsOK, OutboxOK, CountersOK
<1>2. CASE NoopAttempt(w)
  <2>1. WorkersOK'
    BY <1>2, GotoOK DEF NoopAttempt, Phases
  <2> QED
    BY <1>2, <2>1 DEF NoopAttempt, rows, outbox, requests, RowsOK, OutboxOK, broker, QueueOK,
                      CountersOK
<1>3. CASE Begin(w)
  <2>1. task[w].job \in Jobs
    BY <1>3, BusyTask DEF Begin
  <2>2. NextAttemptNo(task[w].job) \in Nat
    BY <2>1 DEF NextAttemptNo, RowsOK
  <2>3. WorkersOK'
    BY <1>3, <2>2 DEF Begin, WorkersOK, Tasks, Phases
  <2> QED
    BY <1>3, <2>3 DEF Begin, rows, outbox, requests, RowsOK, OutboxOK, broker, QueueOK, CountersOK
<1>4. ASSUME NEW outcome \in Outcomes, Finalize(w, outcome)
      PROVE  TypeOK'
  <2>1. RowsOK'
    BY <1>4, ClassifyOK, CommitAttemptOK DEF Finalize
  <2>2. WorkersOK'
    BY <1>4, AfterAttemptOK DEF Finalize, CommitAttempt
  <2> QED
    BY <1>4, <2>1, <2>2 DEF Finalize, outbox, requests, OutboxOK, broker, QueueOK, CountersOK
<1>5. CASE ScheduleRetry(w)
  <2>1. task[w].job \in Jobs /\ task[w].retries + 1 \in Retries
    BY <1>5, BusyTask, ConstantsAssumption DEF ScheduleRetry, WorkersOK, Retries
  <2>2. QueueOK'
    BY <1>5, <2>1, EnqueueOK DEF ScheduleRetry
  <2>3. WorkersOK'
    BY <1>5, ReleaseOK DEF ScheduleRetry
  <2> QED
    BY <1>5, <2>2, <2>3 DEF ScheduleRetry, rows, outbox, requests, RowsOK, OutboxOK,
                            CountersOK
<1>6. CASE Ack(w)
  <2>1. WorkersOK'
    BY <1>6, ReleaseOK DEF Ack
  <2> QED
    BY <1>6, <2>1 DEF Ack, rows, outbox, requests, RowsOK, OutboxOK, broker, QueueOK, CountersOK
<1> QED
  BY <1>1, <1>2, <1>3, <1>4, <1>5, <1>6 DEF WorkerStep

LEMMA WorkerFaultTypeOK ==
  ASSUME TypeOK, NEW w \in Workers,
         \/ \E outcome \in Outcomes : FinalizeFails(w, outcome)
         \/ AbortedAttempt(w)
         \/ RaiseUnexpected(w)
         \/ RetryRefused(w)
         \/ ChildLost(w)
         \/ Crash(w)
         \/ Redeliver(w)
  PROVE  TypeOK'
<1> USE DEF TypeOK
<1>1. ASSUME NEW outcome \in Outcomes, FinalizeFails(w, outcome)
      PROVE  TypeOK'
  <2>1. RowsOK'
    BY <1>1, CommitAttemptOK DEF FinalizeFails, JobStatus, AttemptStatus
  <2>2. WorkersOK'
    BY <1>1, AfterAttemptOK DEF FinalizeFails, CommitAttempt
  <2>3. CountersOK'
    BY <1>1, FaultOK DEF FinalizeFails
  <2> QED
    BY <1>1, <2>1, <2>2, <2>3 DEF FinalizeFails, outbox, OutboxOK, broker, QueueOK
<1>2. CASE AbortedAttempt(w)
  <2>1. WorkersOK'
    BY <1>2, AfterAttemptOK DEF AbortedAttempt
  <2>2. CountersOK'
    BY <1>2, FaultOK DEF AbortedAttempt
  <2>3. QueueOK'
    BY <1>2, BusyTask, LoseOK DEF AbortedAttempt, broker, QueueOK
  <2> QED
    BY <1>2, <2>1, <2>2, <2>3 DEF AbortedAttempt, rows, outbox, RowsOK, OutboxOK
<1>3. CASE RaiseUnexpected(w) \/ RetryRefused(w) \/ ChildLost(w)
  <2>1. task[w].job \in Jobs
    BY <1>3, BusyTask DEF RaiseUnexpected, RetryRefused, ChildLost
  <2>2. QueueOK'
    BY <1>3, <2>1, LoseOK DEF RaiseUnexpected, RetryRefused, ChildLost
  <2>3. WorkersOK' /\ CountersOK'
    BY <1>3, ReleaseOK, FaultOK DEF RaiseUnexpected, RetryRefused, ChildLost
  <2> QED
    BY <1>3, <2>2, <2>3 DEF RaiseUnexpected, RetryRefused, ChildLost, rows, outbox, RowsOK,
                            OutboxOK
<1>4. CASE Crash(w)
  <2>1. task[w].job \in Jobs /\ task[w].retries \in Retries
    BY <1>4, BusyTask DEF Crash
  <2>2. QueueOK'
    BY <1>4, <2>1, EnqueueOK DEF Crash
  <2>3. WorkersOK' /\ CountersOK'
    BY <1>4, ReleaseOK, FaultOK DEF Crash
  <2> QED
    BY <1>4, <2>2, <2>3 DEF Crash, rows, outbox, RowsOK, OutboxOK
<1>5. CASE Redeliver(w)
  <2>1. task[w].job \in Jobs /\ task[w].retries \in Retries
    BY <1>5, BusyTask DEF Redeliver
  <2>2. QueueOK'
    BY <1>5, <2>1, EnqueueOK DEF Redeliver
  <2>3. CountersOK'
    BY <1>5, FaultOK DEF Redeliver
  <2> QED
    BY <1>5, <2>2, <2>3 DEF Redeliver, rows, outbox, worker, RowsOK, OutboxOK, WorkersOK
<1> QED
  BY <1>1, <1>2, <1>3, <1>4, <1>5

LEMMA TypeStep ==
  ASSUME TypeOK, [Next]_vars
  PROVE  TypeOK'
<1>1. CASE RequestStep
  BY <1>1, RequestsTypeOK DEF RequestStep
<1>2. CASE Sweep
  BY <1>2, SweepTypeOK
<1>3. CASE PublisherStep
  BY <1>3, PublisherTypeOK DEF PublisherStep
<1>4. CASE \E w \in Workers : WorkerStep(w)
  BY <1>4, WorkerTypeOK
<1>5. CASE FaultStep
  BY <1>5, PublisherTypeOK, WorkerFaultTypeOK DEF FaultStep
<1>6. CASE UNCHANGED vars
  BY <1>6 DEF vars, rows, outbox, worker, requests, TypeOK, RowsOK, OutboxOK, broker, QueueOK,
              WorkersOK, CountersOK
<1> QED
  BY <1>1, <1>2, <1>3, <1>4, <1>5, <1>6 DEF Next

\* Type correctness: in every behaviour the tables, the queue and the workers stay
\* within their types, whatever is delivered twice, lost by a rollback or repaired.
THEOREM TypeCorrect == Spec => []TypeOK
<1>1. Init => TypeOK
  BY InitTypeOK
<1>2. TypeOK /\ [Next]_vars => TypeOK'
  BY TypeStep
<1> QED
  BY <1>1, <1>2, PTL DEF Spec

-----------------------------------------------------------------------------
(* The attempt log.  None of the three invariants is inductive alone: a    *)
(* finished attempt extends the log by the number a worker took earlier, so *)
(* the log needs that number to be the next one (AttemptsSerialized), and   *)
(* the number stays the next one because nobody else can commit an attempt  *)
(* of the job, nor reopen it, while it is locked.                          *)

LogInv == TypeOK /\ AttemptLogComplete /\ AttemptsSerialized /\ StatusMatchesLog

\* A step that touches no row, and starts no attempt, preserves the invariant.
LEMMA LogFrame ==
  ASSUME LogInv, TypeOK', UNCHANGED rows,
         \A v \in Workers : pc'[v] = "executing" =>
                              pc[v] = "executing" /\ task'[v] = task[v]
  PROVE  LogInv'
<1>1. AttemptLogComplete' /\ StatusMatchesLog'
  BY DEF LogInv, AttemptLogComplete, StatusMatchesLog, rows
<1>2. AttemptsSerialized'
  BY DEF LogInv, AttemptsSerialized, rows
<1> QED
  BY <1>1, <1>2 DEF LogInv

LEMMA RequestsLog ==
  ASSUME LogInv, TypeOK', NEW j \in Jobs,
         SubmitNew(j) \/ SubmitAgain(j) \/ RetryFromDlq(j)
  PROVE  LogInv'
<1>1. CASE SubmitAgain(j)
  BY <1>1, LogFrame DEF SubmitAgain, worker
<1>2. CASE SubmitNew(j) \/ RetryFromDlq(j)
  <2>1. /\ status' = [status EXCEPT ![j] = "pending"]
        /\ status[j] \in {"absent", "dead"}
        /\ UNCHANGED <<attempts, log, pc, task>>
    BY <1>2 DEF SubmitNew, RetryFromDlq, worker
  <2>2. AttemptLogComplete'
    BY <2>1 DEF LogInv, AttemptLogComplete
  <2>3. AttemptsSerialized'
    BY <2>1 DEF LogInv, AttemptsSerialized, TypeOK, RowsOK
  <2>4. StatusMatchesLog'
    BY <2>1 DEF LogInv, StatusMatchesLog, TypeOK, RowsOK
  <2> QED
    BY <2>2, <2>3, <2>4 DEF LogInv
<1> QED
  BY <1>1, <1>2

LEMMA SweepLog ==
  ASSUME LogInv, TypeOK', Sweep
  PROVE  LogInv'
<1>1. PICK J \in SUBSET Sweepable :
        status' = [j \in Jobs |-> IF j \in J THEN "pending" ELSE status[j]]
  BY DEF Sweep
<1>2. UNCHANGED <<attempts, log, pc, task>>
  BY DEF Sweep, worker
<1>3. \A j \in J : status[j] = "running"
  BY DEF Sweepable
<1>4. AttemptLogComplete'
  BY <1>2 DEF LogInv, AttemptLogComplete
<1>5. AttemptsSerialized'
  <2> SUFFICES ASSUME NEW w \in Workers, pc[w] = "executing"
               PROVE  status'[task[w].job] \in {"pending", "running"}
    BY <1>2 DEF LogInv, AttemptsSerialized
  <2>1. task[w].job \in Jobs /\ status[task[w].job] \in {"pending", "running"}
    BY BusyTask DEF LogInv, TypeOK, AttemptsSerialized
  <2> QED
    BY <1>1, <2>1
<1>6. StatusMatchesLog'
  BY <1>1, <1>2, <1>3 DEF LogInv, StatusMatchesLog
<1> QED
  BY <1>4, <1>5, <1>6 DEF LogInv

LEMMA BeginLog ==
  ASSUME LogInv, TypeOK', NEW w \in Workers, Begin(w)
  PROVE  LogInv'
<1> DEFINE j == task[w].job
<1>1. j \in Jobs
  BY BusyTask DEF Begin, LogInv, TypeOK
<1>2. UNCHANGED <<status, attempts, log>>
  BY DEF Begin, rows
<1>3. AttemptLogComplete' /\ StatusMatchesLog'
  BY <1>2 DEF LogInv, AttemptLogComplete, StatusMatchesLog
<1>4. /\ pc' = [pc EXCEPT ![w] = "executing"]
      /\ task' = [task EXCEPT ![w] = [task[w] EXCEPT !.no = attempts[j] + 1]]
  BY DEF Begin, NextAttemptNo
<1>5. /\ pc'[w] = "executing" /\ task'[w].job = j /\ task'[w].no = attempts[j] + 1
      /\ \A v \in Workers \ {w} : pc'[v] = pc[v] /\ task'[v] = task[v]
  BY <1>4 DEF LogInv, TypeOK, WorkersOK, Tasks
<1>6. \A v \in Workers : pc[v] = "executing" => task[v].job # j
  BY DEF Begin, Locked
<1>7. status[j] \in {"pending", "running"}
  BY <1>1 DEF Begin, Terminal, LogInv, TypeOK, RowsOK, JobStatus
<1>8. attempts[j] \in Nat /\ attempts[j] + 1 \notin DOMAIN log[j]
  BY <1>1 DEF LogInv, AttemptLogComplete, TypeOK, RowsOK
<1>9. AttemptsSerialized'
  <2> SUFFICES ASSUME NEW u \in Workers, pc'[u] = "executing"
               PROVE  LET i == task'[u].job IN
                      /\ \A v \in Workers : pc'[v] = "executing" /\ task'[v].job = i => v = u
                      /\ status[i] \in {"pending", "running"}
                      /\ task'[u].no = attempts[i] + 1
                      /\ task'[u].no \notin DOMAIN log[i]
    BY <1>2 DEF AttemptsSerialized
  <2>1. CASE u = w
    BY <1>5, <1>6, <1>7, <1>8, <2>1
  <2>2. CASE u # w
    BY <1>5, <1>6, <2>2 DEF LogInv, AttemptsSerialized
  <2> QED
    BY <2>1, <2>2
<1> QED
  BY <1>3, <1>9 DEF LogInv

LEMMA CommitLog ==
  ASSUME LogInv, TypeOK', NEW w \in Workers, NEW outcome, NEW s, NEW a,
         CommitAttempt(w, outcome, s, a), AfterAttempt(w, outcome),
         \/ s = "completed" /\ a = "succeeded"
         \/ s \in {"pending", "dead"} /\ a = "failed"
         \/ s = "running" /\ a = "running"
  PROVE  LogInv'
<1> DEFINE j == task[w].job
           no == task[w].no
<1>1. /\ j \in Jobs
      /\ pc[w] = "executing"
  BY BusyTask DEF CommitAttempt, LogInv, TypeOK
<1>2. /\ attempts[j] \in Nat
      /\ no = attempts[j] + 1
      /\ status[j] \in {"pending", "running"}
      /\ DOMAIN log[j] = 1..attempts[j]
      /\ \A v \in Workers : pc[v] = "executing" /\ task[v].job = j => v = w
  BY <1>1 DEF LogInv, TypeOK, RowsOK, AttemptsSerialized, AttemptLogComplete
<1>3. /\ status'[j] = s
      /\ attempts'[j] = no
      /\ log'[j] = WithRow(log[j], no, a)
      /\ \A i \in Jobs \ {j} :
           status'[i] = status[i] /\ attempts'[i] = attempts[i] /\ log'[i] = log[i]
  BY <1>1 DEF CommitAttempt, LogInv, TypeOK, RowsOK
<1>4. /\ DOMAIN log'[j] = 1..no
      /\ log'[j][no] = a
      /\ \A n \in 1..attempts[j] : log'[j][n] = log[j][n]
  BY <1>2, <1>3 DEF WithRow
<1>5. /\ UNCHANGED task
      /\ pc'[w] # "executing"
      /\ \A v \in Workers \ {w} : pc'[v] = pc[v]
  BY DEF AfterAttempt, Goto, LogInv, TypeOK, WorkersOK
<1>6. AttemptLogComplete'
  BY <1>3, <1>4 DEF LogInv, AttemptLogComplete
<1>7. AttemptsSerialized'
  <2> SUFFICES ASSUME NEW u \in Workers, pc'[u] = "executing"
               PROVE  LET i == task[u].job IN
                      /\ \A v \in Workers : pc'[v] = "executing" /\ task[v].job = i => v = u
                      /\ status'[i] \in {"pending", "running"}
                      /\ task[u].no = attempts'[i] + 1
                      /\ task[u].no \notin DOMAIN log'[i]
    BY <1>5 DEF AttemptsSerialized
  <2>1. u # w /\ pc[u] = "executing" /\ task[u].job # j
    BY <1>2, <1>5
  <2>2. task[u].job \in Jobs
    BY <2>1, BusyTask DEF LogInv, TypeOK
  <2> QED
    BY <1>3, <1>5, <2>1, <2>2 DEF LogInv, AttemptsSerialized
<1>8. StatusMatchesLog'
  <2> SUFFICES ASSUME NEW i \in Jobs
               PROVE  /\ \A n \in DOMAIN log'[i] :
                           log'[i][n] = "succeeded" =>
                             n = attempts'[i] /\ status'[i] = "completed"
                      /\ status'[i] = "completed" =>
                           attempts'[i] \in DOMAIN log'[i] /\ log'[i][attempts'[i]] = "succeeded"
                      /\ status'[i] = "dead" =>
                           attempts'[i] \in DOMAIN log'[i] /\ log'[i][attempts'[i]] = "failed"
                      /\ status'[i] = "running" =>
                           attempts'[i] \in DOMAIN log'[i] /\ log'[i][attempts'[i]] = "running"
    BY DEF StatusMatchesLog
  <2>1. CASE i # j
    BY <1>3, <2>1 DEF LogInv, StatusMatchesLog
  <2>2. CASE i = j
    <3>1. no \in 1..no
      BY <1>2
    <3>2. \A n \in 1..attempts[j] : log[j][n] # "succeeded"
      BY <1>1, <1>2 DEF LogInv, StatusMatchesLog
    <3>3. \A n \in 1..no : n # no => n \in 1..attempts[j]
      BY <1>2
    <3> QED
      BY <1>3, <1>4, <2>2, <3>1, <3>2, <3>3
  <2> QED
    BY <2>1, <2>2
<1> QED
  BY <1>6, <1>7, <1>8 DEF LogInv

\* What a classified outcome commits is one of the combinations of CommitLog.
LEMMA ClassifyPairs ==
  ASSUME NEW outcome, NEW r
  PROVE  LET c == Classify(outcome, r) IN
         \/ c.job = "completed" /\ c.attempt = "succeeded"
         \/ c.job \in {"pending", "dead"} /\ c.attempt = "failed"
  BY DEF Classify

LEMMA WorkerLog ==
  ASSUME LogInv, TypeOK', NEW w \in Workers, WorkerStep(w)
  PROVE  LogInv'
<1> DEFINE Quiet == \A v \in Workers : pc'[v] = "executing" =>
                      pc[v] = "executing" /\ task'[v] = task[v]
<1> USE DEF LogInv, TypeOK, WorkersOK
<1>1. ASSUME NEW j \in Jobs, NEW r \in Retries, Receive(w, j, r)
      PROVE  LogInv'
  <2>1. Quiet
    BY <1>1 DEF Receive
  <2> QED
    BY <1>1, <2>1, LogFrame DEF Receive
<1>2. CASE NoopAttempt(w)
  <2>1. Quiet
    BY <1>2 DEF NoopAttempt, Goto
  <2> QED
    BY <1>2, <2>1, LogFrame DEF NoopAttempt
<1>3. CASE Begin(w)
  BY <1>3, BeginLog
<1>4. ASSUME NEW outcome \in Outcomes, Finalize(w, outcome)
      PROVE  LogInv'
  BY <1>4, CommitLog, ClassifyPairs DEF Finalize
<1>5. CASE ScheduleRetry(w) \/ Ack(w)
  <2>1. Quiet
    BY <1>5 DEF ScheduleRetry, Ack, Release
  <2> QED
    BY <1>5, <2>1, LogFrame DEF ScheduleRetry, Ack
<1> QED
  BY <1>1, <1>2, <1>3, <1>4, <1>5 DEF WorkerStep

LEMMA WorkerFaultLog ==
  ASSUME LogInv, TypeOK', NEW w \in Workers,
         \/ \E outcome \in Outcomes : FinalizeFails(w, outcome)
         \/ AbortedAttempt(w)
         \/ RaiseUnexpected(w)
         \/ RetryRefused(w)
         \/ ChildLost(w)
         \/ Crash(w)
         \/ Redeliver(w)
  PROVE  LogInv'
<1> DEFINE Quiet == \A v \in Workers : pc'[v] = "executing" =>
                      pc[v] = "executing" /\ task'[v] = task[v]
<1>1. ASSUME NEW outcome \in Outcomes, FinalizeFails(w, outcome)
      PROVE  LogInv'
  BY <1>1, CommitLog DEF FinalizeFails
<1>2. CASE AbortedAttempt(w)
  <2>1. Quiet
    BY <1>2 DEF AbortedAttempt, AfterAttempt, Goto, LogInv, TypeOK, WorkersOK
  <2> QED
    BY <1>2, <2>1, LogFrame DEF AbortedAttempt
<1>3. CASE RaiseUnexpected(w) \/ RetryRefused(w) \/ ChildLost(w) \/ Crash(w)
  <2>1. Quiet
    BY <1>3 DEF RaiseUnexpected, RetryRefused, ChildLost, Crash, Release, LogInv, TypeOK,
                WorkersOK
  <2> QED
    BY <1>3, <2>1, LogFrame DEF RaiseUnexpected, RetryRefused, ChildLost, Crash
<1>4. CASE Redeliver(w)
  BY <1>4, LogFrame DEF Redeliver, worker
<1> QED
  BY <1>1, <1>2, <1>3, <1>4

LEMMA LogStep ==
  ASSUME LogInv, [Next]_vars
  PROVE  LogInv'
<1>0. TypeOK'
  BY TypeStep DEF LogInv
<1>1. CASE RequestStep
  BY <1>0, <1>1, RequestsLog DEF RequestStep
<1>2. CASE Sweep
  BY <1>0, <1>2, SweepLog
<1>3. ASSUME NEW j \in Jobs, NEW n \in PublishRetries,
             Publish(j, n) \/ PublishUnmarked(j, n) \/ PublishFails(j, n)
      PROVE  LogInv'
  BY <1>0, <1>3, LogFrame DEF Publish, PublishUnmarked, PublishFails, worker
<1>4. CASE \E w \in Workers : WorkerStep(w)
  BY <1>0, <1>4, WorkerLog
<1>5. CASE FaultStep
  BY <1>0, <1>3, <1>5, WorkerFaultLog DEF FaultStep
<1>6. CASE UNCHANGED vars
  BY <1>0, <1>6, LogFrame DEF vars, worker
<1> QED
  BY <1>1, <1>2, <1>3, <1>4, <1>5, <1>6 DEF Next, PublisherStep

LEMMA LogInit == Init => LogInv
<1> SUFFICES ASSUME Init PROVE LogInv
  OBVIOUS
<1>1. AttemptLogComplete
  BY DEF Init, AttemptLogComplete
<1>2. AttemptsSerialized
  BY DEF Init, AttemptsSerialized
<1>3. StatusMatchesLog
  BY DEF Init, StatusMatchesLog
<1> QED
  BY <1>1, <1>2, <1>3, InitTypeOK DEF LogInv

LEMMA LogInvariant == Spec => []LogInv
  BY LogInit, LogStep, PTL DEF Spec

\* The attempt rows of every job are numbered 1 .. jobs.attempts without a gap.
THEOREM AttemptLog == Spec => []AttemptLogComplete
<1>1. LogInv => AttemptLogComplete
  BY DEF LogInv
<1> QED
  BY <1>1, LogInvariant, PTL

\* The row lock alone serialises the attempts of a job: the number taken by
\* begin_attempt is always free, so UNIQUE(job_id, attempt_no) never fires.
THEOREM Serialized == Spec => []AttemptsSerialized
<1>1. LogInv => AttemptsSerialized
  BY DEF LogInv
<1> QED
  BY <1>1, LogInvariant, PTL

\* The status of a job and its attempt rows always agree; in particular a job has
\* at most one successful attempt, and it is its last.
THEOREM StatusLog == Spec => []StatusMatchesLog
<1>1. LogInv => StatusMatchesLog
  BY DEF LogInv
<1> QED
  BY <1>1, LogInvariant, PTL

-----------------------------------------------------------------------------
(* COMPLETED is final: the steps that write job rows start from other      *)
(* statuses, and an attempt commits only on a job that is open when it ends. *)

LEMMA CommitSparesCompleted ==
  ASSUME LogInv, NEW w \in Workers, NEW outcome, NEW s, NEW a,
         CommitAttempt(w, outcome, s, a),
         NEW j \in Jobs, status[j] = "completed"
  PROVE  /\ status'[j] = "completed"
         /\ attempts'[j] = attempts[j]
         /\ log'[j] = log[j]
         /\ effects'[j] = effects[j]
<1>1. status[task[w].job] \in {"pending", "running"}
  BY DEF CommitAttempt, LogInv, AttemptsSerialized
<1> QED
  BY <1>1 DEF CommitAttempt, LogInv, TypeOK, RowsOK

LEMMA CompletedStep ==
  ASSUME LogInv, [Next]_vars, NEW j \in Jobs, status[j] = "completed"
  PROVE  /\ status'[j] = "completed"
         /\ attempts'[j] = attempts[j]
         /\ log'[j] = log[j]
         /\ effects'[j] = effects[j]
<1>1. CASE RequestStep
  BY <1>1 DEF RequestStep, SubmitNew, SubmitAgain, RetryFromDlq, rows, LogInv, TypeOK, RowsOK
<1>2. CASE Sweep
  BY <1>2 DEF Sweep, Sweepable
<1>3. CASE PublisherStep
  BY <1>3 DEF PublisherStep, Publish, rows
<1>4. ASSUME NEW w \in Workers, WorkerStep(w)
      PROVE  /\ status'[j] = "completed"
             /\ attempts'[j] = attempts[j]
             /\ log'[j] = log[j]
             /\ effects'[j] = effects[j]
  <2>1. ASSUME NEW outcome \in Outcomes, Finalize(w, outcome)
        PROVE  /\ status'[j] = "completed"
               /\ attempts'[j] = attempts[j]
               /\ log'[j] = log[j]
               /\ effects'[j] = effects[j]
    BY <2>1, CommitSparesCompleted DEF Finalize
  <2> QED
    BY <1>4, <2>1 DEF WorkerStep, Receive, NoopAttempt, Begin, ScheduleRetry, Ack, rows
<1>5. CASE FaultStep
  <2>1. ASSUME NEW w \in Workers, NEW outcome \in Outcomes, FinalizeFails(w, outcome)
        PROVE  /\ status'[j] = "completed"
               /\ attempts'[j] = attempts[j]
               /\ log'[j] = log[j]
               /\ effects'[j] = effects[j]
    BY <2>1, CommitSparesCompleted DEF FinalizeFails
  <2> QED
    BY <1>5, <2>1 DEF FaultStep, PublishUnmarked, PublishFails, AbortedAttempt,
                      RaiseUnexpected, RetryRefused, ChildLost, Crash, Redeliver, rows
<1>6. CASE UNCHANGED vars
  BY <1>6 DEF vars, rows
<1> QED
  BY <1>1, <1>2, <1>3, <1>4, <1>5, <1>6 DEF Next

\* A completed job is never touched again, by any duplicate, retry or repair.
THEOREM CompletedIsFinal == Spec => CompletedFinal
<1>1. LogInv /\ [Next]_vars =>
        [\A j \in Jobs : status[j] = "completed" =>
           /\ status'[j] = "completed"
           /\ attempts'[j] = attempts[j]
           /\ log'[j] = log[j]
           /\ effects'[j] = effects[j]]_vars
  BY CompletedStep
<1> QED
  BY <1>1, LogInvariant, PTL DEF Spec, CompletedFinal

-----------------------------------------------------------------------------
(* No lost jobs: what a step may do to the jobs that somebody carries.     *)

\* The step strands no job, except one whose event or message it loses.
OnlyByLoss ==
  \A j \in Jobs : Stranded(j)' /\ ~Stranded(j) =>
    failed'[j] > failed[j] \/ lost'[j] > lost[j]

\* A carrier of j that a step leaves alone still carries j.
LEMMA CarryFrame ==
  ASSUME NEW j \in Jobs, Carried(j),
         pending'[j] = pending[j], queue'[j] = queue[j],
         \A v \in Workers : CarriedBy(v, j) => CarriedBy(v, j)'
  PROVE  Carried(j)'
  BY DEF Carried

LEMMA EnqueueCarries ==
  ASSUME QueueOK, NEW j \in Jobs, NEW r \in Retries, Enqueue(j, r)
  PROVE  /\ Carried(j)'
         /\ \A i \in Jobs : i # j => queue'[i] = queue[i]
<1>1. queue[j][r] \in Nat
  BY DEF QueueOK
<1>2. queue' = [queue EXCEPT ![j] = [queue[j] EXCEPT ![r] = @ + 1]]
  BY DEF Enqueue
<1>3. queue'[j][r] = queue[j][r] + 1
  BY <1>2 DEF QueueOK
<1>4. queue'[j][r] > 0
  BY <1>1, <1>3
<1> QED
  BY <1>2, <1>4 DEF Carried, QueueOK

\* Recording events takes no carrier away, and gives each job of J one.
LEMMA CreateEventsCarries ==
  ASSUME TypeOK, NEW J, CreateEvents(J), UNCHANGED <<queue, worker>>, NEW j \in Jobs,
         Carried(j) \/ j \in J
  PROVE  Carried(j)'
<1>1. 0 \in PublishRetries
  BY ConstantsAssumption DEF PublishRetries
<1>2. CASE j \in J
  <2>1. pending'[j] = [pending[j] EXCEPT ![0] = @ + 1]
    BY <1>2 DEF CreateEvents
  <2>2. pending[j][0] \in Nat /\ pending'[j][0] = pending[j][0] + 1
    BY <1>1, <2>1 DEF TypeOK, OutboxOK
  <2> QED
    BY <1>1, <2>2 DEF Carried
<1>3. CASE j \notin J
  <2>1. pending'[j] = pending[j]
    BY <1>3 DEF CreateEvents
  <2> QED
    BY <1>3, <2>1, CarryFrame DEF worker, CarriedBy
<1> QED
  BY <1>2, <1>3

\* A worker step that gives back or hands on the worker's own message.
LEMMA HandOver ==
  ASSUME TypeOK, NEW w \in Workers, pc[w] # "idle",
         NEW r \in Retries, Enqueue(task[w].job, r), UNCHANGED <<rows, outbox>>,
         \A v \in Workers \ {w} : pc'[v] = pc[v] /\ task'[v] = task[v]
  PROVE  OnlyByLoss
<1>1. PICK i \in Jobs : i = task[w].job
  BY BusyTask DEF TypeOK
<1>2. Carried(i)'
  BY <1>1, EnqueueCarries DEF TypeOK
<1>3. ASSUME NEW j \in Jobs, j # i, Carried(j)
      PROVE  Carried(j)'
  <2>1. queue'[j] = queue[j] /\ pending'[j] = pending[j]
    BY <1>1, <1>3, EnqueueCarries DEF TypeOK, outbox
  <2>2. \A v \in Workers : CarriedBy(v, j) => CarriedBy(v, j)'
    BY <1>1, <1>3 DEF CarriedBy
  <2> QED
    BY <1>3, <2>1, <2>2, CarryFrame
<1> QED
  BY <1>2, <1>3 DEF OnlyByLoss, Stranded, rows

LEMMA RequestsCarried ==
  ASSUME TypeOK, RequestStep \/ Sweep
  PROVE  OnlyByLoss
<1>1. ASSUME NEW i \in Jobs, SubmitNew(i) \/ SubmitAgain(i) \/ RetryFromDlq(i)
      PROVE  OnlyByLoss
  <2>1. /\ CreateEvents({i})
        /\ UNCHANGED <<queue, worker>>
        /\ \A j \in Jobs : j # i => status'[j] = status[j]
    BY <1>1 DEF SubmitNew, SubmitAgain, RetryFromDlq, rows, broker, TypeOK, RowsOK
  <2> QED
    BY <2>1, CreateEventsCarries DEF OnlyByLoss, Stranded
<1>2. CASE Sweep
  <2>1. PICK J \in SUBSET Sweepable :
          /\ status' = [j \in Jobs |-> IF j \in J THEN "pending" ELSE status[j]]
          /\ CreateEvents(J)
          /\ UNCHANGED <<queue, worker>>
    BY <1>2 DEF Sweep, broker
  <2> QED
    BY <2>1, CreateEventsCarries DEF OnlyByLoss, Stranded
<1> QED
  BY <1>1, <1>2 DEF RequestStep

LEMMA PublisherCarried ==
  ASSUME TypeOK, NEW i \in Jobs, NEW n \in PublishRetries,
         Publish(i, n) \/ PublishUnmarked(i, n) \/ PublishFails(i, n)
  PROVE  OnlyByLoss
<1>1. /\ UNCHANGED <<status, pc, task>>
      /\ \A j \in Jobs : j # i => /\ pending'[j] = pending[j]
                                  /\ failed'[j] = failed[j]
  BY DEF Publish, PublishUnmarked, PublishFails, rows, worker, outbox, TypeOK, OutboxOK
<1>2. \A j \in Jobs : j # i => queue'[j] = queue[j]
  BY DEF Publish, PublishUnmarked, PublishFails, Enqueue, broker, TypeOK, QueueOK
<1>3. Carried(i)' \/ failed'[i] > failed[i]
  <2>1. CASE Publish(i, n) \/ PublishUnmarked(i, n)
    <3>1. 0 \in Retries
      BY ConstantsAssumption DEF Retries
    <3> QED
      BY <2>1, <3>1, EnqueueCarries DEF Publish, PublishUnmarked, TypeOK
  <2>2. CASE PublishFails(i, n) /\ n + 1 > MaxPublishRetries
    BY <2>2 DEF PublishFails, TypeOK, OutboxOK
  <2>3. CASE PublishFails(i, n) /\ ~(n + 1 > MaxPublishRetries)
    <3> DEFINE less == [pending[i] EXCEPT ![n] = @ - 1]
    <3>1. n \in Nat /\ n + 1 \in PublishRetries /\ n + 1 # n
      BY <2>3, ConstantsAssumption DEF PublishRetries
    <3>2. pending' = [pending EXCEPT ![i] = [less EXCEPT ![n + 1] = @ + 1]]
      BY <2>3 DEF PublishFails, TypeOK, OutboxOK
    <3>3. pending'[i][n + 1] = pending[i][n + 1] + 1 /\ pending[i][n + 1] \in Nat
      BY <3>1, <3>2 DEF TypeOK, OutboxOK
    <3> QED
      BY <3>1, <3>3 DEF Carried
  <2> QED
    BY <2>1, <2>2, <2>3
<1>4. ASSUME NEW j \in Jobs, j # i, Carried(j)
      PROVE  Carried(j)'
  BY <1>1, <1>2, <1>4, CarryFrame DEF CarriedBy
<1> QED
  BY <1>1, <1>3, <1>4 DEF OnlyByLoss, Stranded

\* The end of an attempt: a job it leaves PENDING is the worker's to retry.
LEMMA CommitCarried ==
  ASSUME TypeOK, NEW w \in Workers, NEW outcome, NEW s, NEW a,
         CommitAttempt(w, outcome, s, a), AfterAttempt(w, outcome),
         s = "pending" => Classify(outcome, task[w].retries).retry,
         UNCHANGED <<outbox, queue>>
  PROVE  OnlyByLoss
<1>1. PICK i \in Jobs : i = task[w].job
  BY BusyTask DEF CommitAttempt, TypeOK
<1>2. /\ status'[i] = s
      /\ \A j \in Jobs : j # i => status'[j] = status[j]
  BY <1>1 DEF CommitAttempt, TypeOK, RowsOK
<1>3. s = "pending" => CarriedBy(w, i)'
  BY <1>1 DEF AfterAttempt, Goto, CarriedBy, TypeOK, WorkersOK
<1>4. ASSUME NEW j \in Jobs, j # i, Carried(j)
      PROVE  Carried(j)'
  <2>1. \A v \in Workers : CarriedBy(v, j) => CarriedBy(v, j)'
    BY <1>1, <1>4 DEF AfterAttempt, Goto, CarriedBy, TypeOK, WorkersOK
  <2> QED
    BY <1>4, <2>1, CarryFrame DEF outbox
<1> QED
  BY <1>1, <1>2, <1>3, <1>4 DEF OnlyByLoss, Stranded, Carried, outbox

LEMMA WorkerCarried ==
  ASSUME TypeOK, NEW w \in Workers, WorkerStep(w)
  PROVE  OnlyByLoss
<1> USE DEF TypeOK
<1>1. ASSUME NEW i \in Jobs, NEW r \in Retries, Receive(w, i, r)
      PROVE  OnlyByLoss
  <2>1. /\ UNCHANGED <<status, pending, failed>>
        /\ CarriedBy(w, i)'
    BY <1>1 DEF Receive, rows, outbox, CarriedBy, WorkersOK
  <2>2. ASSUME NEW j \in Jobs, j # i, Carried(j)
        PROVE  Carried(j)'
    <3>1. queue'[j] = queue[j]
      BY <1>1, <2>2 DEF Receive, QueueOK
    <3>2. \A v \in Workers : CarriedBy(v, j) => CarriedBy(v, j)'
      BY <1>1 DEF Receive, CarriedBy, WorkersOK
    <3> QED
      BY <2>1, <2>2, <3>1, <3>2, CarryFrame
  <2> QED
    BY <2>1, <2>2 DEF OnlyByLoss, Stranded, Carried
<1>2. CASE NoopAttempt(w)
  <2>1. /\ UNCHANGED <<status, pending, failed, queue>>
        /\ status[task[w].job] # "pending"
    BY <1>2 DEF NoopAttempt, rows, outbox, broker, Terminal
  <2>2. ASSUME NEW j \in Jobs, j # task[w].job, Carried(j)
        PROVE  Carried(j)'
    <3>1. \A v \in Workers : CarriedBy(v, j) => CarriedBy(v, j)'
      BY <1>2, <2>2 DEF NoopAttempt, Goto, CarriedBy, WorkersOK
    <3> QED
      BY <2>1, <2>2, <3>1, CarryFrame
  <2> QED
    BY <2>1, <2>2 DEF OnlyByLoss, Stranded
<1>3. CASE Begin(w)
  <2>1. UNCHANGED <<status, pending, failed, queue>>
    BY <1>3 DEF Begin, rows, outbox, broker
  <2>2. task'[w].job = task[w].job /\ pc'[w] = "executing"
    BY <1>3 DEF Begin, WorkersOK, Tasks
  <2>3. \A v \in Workers : v # w => pc'[v] = pc[v] /\ task'[v] = task[v]
    BY <1>3 DEF Begin, WorkersOK
  <2>4. \A j \in Jobs, v \in Workers : CarriedBy(v, j) => CarriedBy(v, j)'
    BY <2>2, <2>3 DEF CarriedBy
  <2> QED
    BY <2>1, <2>4, CarryFrame DEF OnlyByLoss, Stranded
<1>4. ASSUME NEW outcome \in Outcomes, Finalize(w, outcome)
      PROVE  OnlyByLoss
  <2>1. LET c == Classify(outcome, task[w].retries) IN c.job = "pending" => c.retry
    BY DEF Classify
  <2> QED
    BY <1>4, <2>1, CommitCarried DEF Finalize, broker
<1>5. CASE ScheduleRetry(w)
  <2>1. task[w].retries + 1 \in Retries
    BY <1>5, BusyTask, ConstantsAssumption DEF ScheduleRetry, WorkersOK, Retries
  <2>2. \A v \in Workers \ {w} : pc'[v] = pc[v] /\ task'[v] = task[v]
    BY <1>5 DEF ScheduleRetry, Release, WorkersOK
  <2> QED
    BY <1>5, <2>1, <2>2, HandOver DEF ScheduleRetry
<1>6. CASE Ack(w)
  <2>1. UNCHANGED <<status, pending, failed, queue>>
    BY <1>6 DEF Ack, rows, outbox, broker
  <2>2. \A j \in Jobs, v \in Workers : CarriedBy(v, j) => CarriedBy(v, j)'
    BY <1>6 DEF Ack, Release, CarriedBy, WorkersOK
  <2> QED
    BY <2>1, <2>2, CarryFrame DEF OnlyByLoss, Stranded
<1> QED
  BY <1>1, <1>2, <1>3, <1>4, <1>5, <1>6 DEF WorkerStep

\* A worker that is done with its message without having moved the job on.
LEMMA LoseCarried ==
  ASSUME TypeOK, NEW w \in Workers, pc[w] # "idle", Lose(task[w].job),
         UNCHANGED <<rows, outbox>>,
         \A v \in Workers \ {w} : pc'[v] = pc[v] /\ task'[v] = task[v]
  PROVE  OnlyByLoss
<1>1. PICK i \in Jobs : i = task[w].job
  BY BusyTask DEF TypeOK
<1>2. lost'[i] = lost[i] + 1 /\ lost[i] \in Nat /\ UNCHANGED queue
  BY <1>1 DEF Lose, TypeOK, QueueOK
<1>3. ASSUME NEW j \in Jobs, j # i, Carried(j)
      PROVE  Carried(j)'
  <2>1. \A v \in Workers : CarriedBy(v, j) => CarriedBy(v, j)'
    BY <1>1, <1>3 DEF CarriedBy
  <2> QED
    BY <1>2, <1>3, <2>1, CarryFrame DEF outbox
<1>4. lost'[i] > lost[i]
  BY <1>2
<1> QED
  BY <1>3, <1>4 DEF OnlyByLoss, Stranded, rows

LEMMA WorkerFaultCarried ==
  ASSUME TypeOK, NEW w \in Workers,
         \/ \E outcome \in Outcomes : FinalizeFails(w, outcome)
         \/ AbortedAttempt(w)
         \/ RaiseUnexpected(w)
         \/ RetryRefused(w)
         \/ ChildLost(w)
         \/ Crash(w)
         \/ Redeliver(w)
  PROVE  OnlyByLoss
<1> USE DEF TypeOK
<1>1. ASSUME NEW outcome \in Outcomes, FinalizeFails(w, outcome)
      PROVE  OnlyByLoss
  BY <1>1, CommitCarried DEF FinalizeFails, broker
<1>2. CASE AbortedAttempt(w)
  <2>1. /\ pc[w] = "executing" /\ UNCHANGED <<rows, outbox, task>>
        /\ \A v \in Workers \ {w} : pc'[v] = pc[v]
    BY <1>2 DEF AbortedAttempt, AfterAttempt, Goto, WorkersOK
  <2>2. CASE Classify("retryable", task[w].retries).retry
    <3>1. UNCHANGED queue /\ pc'[w] = "retrying"
      BY <1>2, <2>2 DEF AbortedAttempt, AfterAttempt, Goto, broker, WorkersOK
    <3>2. \A j \in Jobs, v \in Workers : CarriedBy(v, j) => CarriedBy(v, j)'
      BY <2>1, <3>1 DEF CarriedBy
    <3> QED
      BY <2>1, <3>1, <3>2, CarryFrame DEF OnlyByLoss, Stranded, rows, outbox
  <2>3. CASE ~Classify("retryable", task[w].retries).retry
    BY <1>2, <2>1, <2>3, LoseCarried DEF AbortedAttempt
  <2> QED
    BY <2>2, <2>3
<1>3. CASE RaiseUnexpected(w) \/ RetryRefused(w) \/ ChildLost(w)
  <2>1. pc[w] # "idle" /\ UNCHANGED <<rows, outbox>> /\ Lose(task[w].job)
    BY <1>3 DEF RaiseUnexpected, RetryRefused, ChildLost
  <2>2. \A v \in Workers \ {w} : pc'[v] = pc[v] /\ task'[v] = task[v]
    BY <1>3 DEF RaiseUnexpected, RetryRefused, ChildLost, Release, WorkersOK
  <2> QED
    BY <2>1, <2>2, LoseCarried
<1>4. CASE Crash(w) \/ Redeliver(w)
  <2>1. pc[w] # "idle" /\ UNCHANGED <<rows, outbox>> /\ Enqueue(task[w].job, task[w].retries)
    BY <1>4 DEF Crash, Redeliver
  <2>2. task[w].retries \in Retries
    BY <2>1, BusyTask
  <2>3. \A v \in Workers \ {w} : pc'[v] = pc[v] /\ task'[v] = task[v]
    BY <1>4 DEF Crash, Redeliver, Release, worker, WorkersOK
  <2> QED
    BY <2>1, <2>2, <2>3, HandOver
<1> QED
  BY <1>1, <1>2, <1>3, <1>4

LEMMA StrandedStep ==
  ASSUME TypeOK, [Next]_vars
  PROVE  OnlyByLoss
<1>1. CASE RequestStep \/ Sweep
  BY <1>1, RequestsCarried
<1>2. CASE PublisherStep
  BY <1>2, PublisherCarried DEF PublisherStep
<1>3. CASE \E w \in Workers : WorkerStep(w)
  BY <1>3, WorkerCarried
<1>4. CASE FaultStep
  BY <1>4, PublisherCarried, WorkerFaultCarried DEF FaultStep
<1>5. CASE UNCHANGED vars
  BY <1>5 DEF vars, rows, outbox, broker, worker, OnlyByLoss, Stranded, Carried, CarriedBy
<1> QED
  BY <1>1, <1>2, <1>3, <1>4, <1>5 DEF Next

\* No lost jobs, without a condition on the faults: the only steps that leave a PENDING
\* job without an event, a message or a worker are those that give up one of its events
\* or lose one of its messages; never a crash, a race, the end of an attempt, a lost
\* commit or a repair.
THEOREM NoLostJobs == Spec => StrandedOnlyByLoss
<1>1. TypeOK /\ [Next]_vars => [OnlyByLoss]_vars
  BY StrandedStep
<1> QED
  BY <1>1, TypeCorrect, PTL DEF Spec, StrandedOnlyByLoss, OnlyByLoss

\* As an invariant: a job that is stranded has lost an event or a message.
StrandedHasLoss == \A j \in Jobs : Stranded(j) => failed[j] > 0 \/ lost[j] > 0

LEMMA LossesGrow ==
  ASSUME TypeOK, [Next]_vars, NEW j \in Jobs
  PROVE  failed'[j] >= failed[j] /\ lost'[j] >= lost[j]
<1>1. failed[j] \in Nat /\ lost[j] \in Nat
  BY DEF TypeOK, OutboxOK, QueueOK
<1>2. CASE RequestStep \/ Sweep \/ PublisherStep
  <2>1. CASE RequestStep
    BY <1>1, <2>1 DEF RequestStep, SubmitNew, SubmitAgain, RetryFromDlq, broker
  <2>2. CASE Sweep
    BY <1>1, <2>2 DEF Sweep, broker
  <2>3. CASE PublisherStep
    BY <1>1, <2>3 DEF PublisherStep, Publish, Enqueue
  <2> QED
    BY <1>2, <2>1, <2>2, <2>3
<1>3. ASSUME NEW w \in Workers, WorkerStep(w)
      PROVE  UNCHANGED <<failed, lost>>
  BY <1>3 DEF WorkerStep, Receive, NoopAttempt, Begin, Finalize, ScheduleRetry, Ack, Enqueue,
              outbox, broker
<1>4. ASSUME NEW i \in Jobs, NEW n \in PublishRetries,
             PublishUnmarked(i, n) \/ PublishFails(i, n)
      PROVE  failed'[j] >= failed[j] /\ lost'[j] >= lost[j]
  BY <1>1, <1>4 DEF PublishUnmarked, PublishFails, Enqueue, outbox, broker, TypeOK, OutboxOK
<1>5. ASSUME NEW w \in Workers,
             \/ \E outcome \in Outcomes : FinalizeFails(w, outcome)
             \/ AbortedAttempt(w) \/ RaiseUnexpected(w) \/ RetryRefused(w)
             \/ ChildLost(w) \/ Crash(w) \/ Redeliver(w)
      PROVE  failed'[j] >= failed[j] /\ lost'[j] >= lost[j]
  <2>1. UNCHANGED failed
    BY <1>5 DEF FinalizeFails, AbortedAttempt, RaiseUnexpected, RetryRefused, ChildLost, Crash,
                Redeliver, outbox
  <2>2. UNCHANGED lost \/ Lose(task[w].job)
    BY <1>5 DEF FinalizeFails, AbortedAttempt, RaiseUnexpected, RetryRefused, ChildLost, Crash,
                Redeliver, Enqueue, broker
  <2> QED
    BY <1>1, <2>1, <2>2 DEF Lose, TypeOK, QueueOK
<1>6. CASE UNCHANGED vars
  BY <1>1, <1>6 DEF vars, outbox, broker
<1> QED
  BY <1>1, <1>2, <1>3, <1>4, <1>5, <1>6 DEF Next, FaultStep

LEMMA LossesExplain == Spec => []StrandedHasLoss
<1>1. Init => StrandedHasLoss
  BY DEF Init, StrandedHasLoss, Stranded
<1>2. TypeOK /\ StrandedHasLoss /\ [Next]_vars => StrandedHasLoss'
  <2> SUFFICES ASSUME TypeOK, StrandedHasLoss, [Next]_vars,
                      NEW j \in Jobs, Stranded(j)'
               PROVE  failed'[j] > 0 \/ lost'[j] > 0
    BY DEF StrandedHasLoss
  <2>1. /\ failed[j] \in Nat /\ lost[j] \in Nat
        /\ failed'[j] \in Nat /\ lost'[j] \in Nat
    BY TypeStep DEF TypeOK, OutboxOK, QueueOK
  <2>2. CASE Stranded(j)
    BY <2>1, <2>2, LossesGrow DEF StrandedHasLoss
  <2>3. CASE ~Stranded(j)
    BY <2>1, <2>3, StrandedStep DEF OnlyByLoss
  <2> QED
    BY <2>2, <2>3
<1> QED
  BY <1>1, <1>2, TypeCorrect, PTL DEF Spec

-----------------------------------------------------------------------------
(* The steps that write rows, for the two results below: what an executor  *)
(* wrote is accounted for, and the pipeline implements JobLifecycle.       *)

\* What an attempt with this outcome may commit.
Committed(outcome, s, a) ==
  \/ outcome = "success" /\ s = "completed" /\ a = "succeeded"
  \/ outcome # "success" /\ s \in {"pending", "dead"} /\ a = "failed"
  \/ s = "running" /\ a = "running"

Attempted ==
  \E w \in Workers, outcome \in Outcomes, s \in JobStatus, a \in AttemptStatus :
    CommitAttempt(w, outcome, s, a) /\ Committed(outcome, s, a)

\* The steps that write to the job's tables.
LEMMA RowSteps ==
  ASSUME [Next]_vars
  PROVE  \/ UNCHANGED rows
         \/ \E j \in Jobs : SubmitNew(j) \/ RetryFromDlq(j)
         \/ Sweep
         \/ Attempted
<1>1. ASSUME NEW w \in Workers, NEW outcome \in Outcomes, Finalize(w, outcome)
      PROVE  Attempted
  <2> DEFINE c == Classify(outcome, task[w].retries)
  <2>1. Committed(outcome, c.job, c.attempt)
    BY DEF Classify, Committed
  <2>2. c.job \in JobStatus /\ c.attempt \in AttemptStatus
    BY ClassifyOK
  <2>3. CommitAttempt(w, outcome, c.job, c.attempt)
    BY <1>1 DEF Finalize
  <2> QED
    BY <2>1, <2>2, <2>3 DEF Attempted
<1>2. ASSUME NEW w \in Workers, NEW outcome \in Outcomes, FinalizeFails(w, outcome)
      PROVE  Attempted
  BY <1>2 DEF FinalizeFails, Attempted, Committed, JobStatus, AttemptStatus
<1>3. ASSUME NEW w \in Workers, WorkerStep(w)
      PROVE  UNCHANGED rows \/ Attempted
  BY <1>1, <1>3 DEF WorkerStep, Receive, NoopAttempt, Begin, ScheduleRetry, Ack
<1>4. CASE FaultStep
  BY <1>2, <1>4 DEF FaultStep, PublishUnmarked, PublishFails, AbortedAttempt,
                    RaiseUnexpected, RetryRefused, ChildLost, Crash, Redeliver
<1>5. CASE RequestStep \/ PublisherStep
  BY <1>5 DEF RequestStep, SubmitAgain, PublisherStep, Publish
<1> QED
  BY <1>3, <1>4, <1>5 DEF Next, vars

\* A committed attempt is the next of its job, which is open.
LEMMA AttemptRows ==
  ASSUME LogInv, NEW w \in Workers, NEW outcome, NEW s, NEW a,
         CommitAttempt(w, outcome, s, a)
  PROVE  LET j == task[w].job IN
         /\ j \in Jobs
         /\ attempts[j] \in Nat
         /\ DOMAIN log[j] = 1..attempts[j]
         /\ status[j] \in {"pending", "running"}
         /\ status' = [status EXCEPT ![j] = s]
         /\ attempts' = [attempts EXCEPT ![j] = @ + 1]
         /\ log' = [log EXCEPT ![j] = [n \in 1..attempts[j] + 1 |->
                                         IF n = attempts[j] + 1 THEN a ELSE log[j][n]]]
         /\ \E n \in Writes(j, outcome) : effects' = [effects EXCEPT ![j] = @ + n]
<1> DEFINE j == task[w].job
<1>1. j \in Jobs /\ pc[w] = "executing"
  BY BusyTask DEF CommitAttempt, LogInv, TypeOK
<1>2. /\ attempts[j] \in Nat
      /\ task[w].no = attempts[j] + 1
      /\ status[j] \in {"pending", "running"}
      /\ DOMAIN log[j] = 1..attempts[j]
  BY <1>1 DEF LogInv, TypeOK, RowsOK, AttemptsSerialized, AttemptLogComplete
<1>3. DOMAIN log[j] \cup {attempts[j] + 1} = 1..attempts[j] + 1
  BY <1>2
<1>4. WithRow(log[j], task[w].no, a) =
        [n \in 1..attempts[j] + 1 |-> IF n = attempts[j] + 1 THEN a ELSE log[j][n]]
  BY <1>2, <1>3 DEF WithRow
<1>5. attempts' = [attempts EXCEPT ![j] = @ + 1]
  BY <1>1, <1>2 DEF CommitAttempt
<1> QED
  BY <1>1, <1>2, <1>4, <1>5 DEF CommitAttempt

-----------------------------------------------------------------------------
(* The executor's writes.                                                  *)

LEMMA MayHaveWrittenFinite ==
  ASSUME LogInv, NEW j \in Jobs
  PROVE  IsFiniteSet(MayHaveWritten(j)) /\ Cardinality(MayHaveWritten(j)) \in Nat
<1>1. attempts[j] \in Nat /\ DOMAIN log[j] = 1..attempts[j]
  BY DEF LogInv, TypeOK, RowsOK, AttemptLogComplete
<1>2. IsFiniteSet(1..attempts[j])
  BY <1>1, FS_Interval
<1>3. MayHaveWritten(j) \in SUBSET (1..attempts[j])
  BY <1>1 DEF MayHaveWritten
<1> QED
  BY <1>2, <1>3, FS_Subset, FS_CardinalityType

LEMMA AttemptEffects ==
  ASSUME LogInv, EffectsAccounted, Attempted
  PROVE  EffectsAccounted'
<1>1. PICK w \in Workers, outcome \in Outcomes, s \in JobStatus, a \in AttemptStatus :
        CommitAttempt(w, outcome, s, a) /\ Committed(outcome, s, a)
  BY DEF Attempted
<1>0. PICK j \in Jobs : j = task[w].job
  BY <1>1, AttemptRows
<1> DEFINE no == attempts[j] + 1
<1>2. /\ attempts[j] \in Nat
      /\ DOMAIN log[j] = 1..attempts[j]
      /\ status' = [status EXCEPT ![j] = s]
      /\ log' = [log EXCEPT ![j] = [n \in 1..no |-> IF n = no THEN a ELSE log[j][n]]]
      /\ \E n \in Writes(j, outcome) : effects' = [effects EXCEPT ![j] = @ + n]
  BY <1>0, <1>1, AttemptRows
<1>3. /\ status \in [Jobs -> JobStatus \cup {"absent"}]
      /\ effects \in [Jobs -> Nat]
      /\ DOMAIN log = Jobs
  BY DEF LogInv, TypeOK, RowsOK
<1>4. ASSUME NEW i \in Jobs, i # j
      PROVE  /\ effects'[i] <= Cardinality(MayHaveWritten(i))'
             /\ status'[i] = "completed" => effects'[i] > 0
  <2>1. effects'[i] = effects[i] /\ log'[i] = log[i] /\ status'[i] = status[i]
    BY <1>2, <1>3, <1>4
  <2> QED
    BY <2>1 DEF EffectsAccounted, MayHaveWritten
<1>5. log'[j] = [n \in 1..no |-> IF n = no THEN a ELSE log[j][n]]
  BY <1>2, <1>3
<1>6. no \notin MayHaveWritten(j) /\ no \in 1..no /\ 1..no = 1..attempts[j] \cup {no}
  BY <1>2 DEF MayHaveWritten
<1>7. MayHaveWritten(j)' =
        IF a = "failed" /\ j \notin EarlyWriters
        THEN MayHaveWritten(j) ELSE MayHaveWritten(j) \cup {no}
  BY <1>2, <1>5, <1>6 DEF MayHaveWritten
<1>8. Cardinality(MayHaveWritten(j))' =
        IF a = "failed" /\ j \notin EarlyWriters
        THEN Cardinality(MayHaveWritten(j)) ELSE Cardinality(MayHaveWritten(j)) + 1
  BY <1>2, <1>6, <1>7, MayHaveWrittenFinite, FS_AddElement
<1>9. /\ effects[j] \in Nat /\ effects[j] <= Cardinality(MayHaveWritten(j))
      /\ Cardinality(MayHaveWritten(j)) \in Nat
  BY <1>2, <1>3, MayHaveWrittenFinite DEF EffectsAccounted
<1>10. PICK n \in Writes(j, outcome) : effects'[j] = effects[j] + n
  BY <1>2, <1>3
<1>11. /\ n \in {0, 1}
       /\ outcome = "success" => n = 1
       /\ n = 1 => ~(a = "failed" /\ j \notin EarlyWriters)
  BY <1>1 DEF Writes, Committed
<1>12. status'[j] = s
  BY <1>2, <1>3
<1>13. /\ effects'[j] <= Cardinality(MayHaveWritten(j))'
       /\ status'[j] = "completed" => effects'[j] > 0
  BY <1>1, <1>8, <1>9, <1>10, <1>11, <1>12 DEF Committed
<1> QED
  BY <1>4, <1>13 DEF EffectsAccounted

LEMMA EffectsStep ==
  ASSUME LogInv, EffectsAccounted, [Next]_vars
  PROVE  EffectsAccounted'
<1>1. CASE UNCHANGED rows
  BY <1>1 DEF rows, EffectsAccounted, MayHaveWritten
<1>2. ASSUME NEW j \in Jobs, SubmitNew(j) \/ RetryFromDlq(j)
      PROVE  EffectsAccounted'
  <2>1. status' = [status EXCEPT ![j] = "pending"] /\ UNCHANGED <<log, effects>>
    BY <1>2 DEF SubmitNew, RetryFromDlq
  <2> QED
    BY <2>1 DEF EffectsAccounted, MayHaveWritten, LogInv, TypeOK, RowsOK
<1>3. CASE Sweep
  BY <1>3 DEF Sweep, EffectsAccounted, MayHaveWritten
<1> QED
  BY <1>1, <1>2, <1>3, RowSteps, AttemptEffects

LEMMA EffectsInit == Init => EffectsAccounted
<1> SUFFICES ASSUME Init PROVE EffectsAccounted
  OBVIOUS
<1>1. \A j \in Jobs : MayHaveWritten(j) = {} /\ effects[j] = 0 /\ status[j] = "absent"
  BY DEF Init, MayHaveWritten
<1> QED
  BY <1>1, FS_EmptySet DEF EffectsAccounted

\* What an executor wrote is committed at most once for each attempt on record that may
\* have carried it (a FAILED one only if the executor writes before it raises), and is
\* there once the job is COMPLETED, whatever is delivered twice, rolled back,
\* swallowed or repaired.
THEOREM EffectsAreAccounted == Spec => []EffectsAccounted
<1>1. Init => EffectsAccounted
  BY EffectsInit
<1>2. LogInv /\ EffectsAccounted /\ [Next]_vars => EffectsAccounted'
  BY EffectsStep
<1> QED
  BY <1>1, <1>2, LogInvariant, PTL DEF Spec

-----------------------------------------------------------------------------
(* The abstract history.                                                   *)

LEMMA LedgerTyped ==
  ASSUME LogInv, NEW j \in Jobs
  PROVE  /\ Ledger[j] \in Seq(AttemptStatus)
         /\ Len(Ledger[j]) = attempts[j]
         /\ attempts[j] \in Nat
<1>1. /\ attempts[j] \in Nat
      /\ \A n \in 1..attempts[j] : log[j][n] \in AttemptStatus
  BY DEF LogInv, TypeOK, RowsOK, AttemptLogComplete
<1>2. Ledger[j] = [n \in 1..attempts[j] |-> log[j][n]]
  BY DEF Ledger
<1>3. Ledger[j] \in Seq(AttemptStatus)
  BY <1>1, <1>2, SeqDef
<1> QED
  BY <1>1, <1>2, <1>3

\* An attempt appends its row to the history.
LEMMA AttemptLedger ==
  ASSUME LogInv, LogInv', Attempted
  PROVE  \E j \in Jobs, result \in Lifecycle!Results : Lifecycle!Attempt(j, result)
<1>1. PICK w \in Workers, outcome \in Outcomes, s \in JobStatus, a \in AttemptStatus :
        CommitAttempt(w, outcome, s, a) /\ Committed(outcome, s, a)
  BY DEF Attempted
<1> DEFINE j == task[w].job
           no == attempts[j] + 1
<1>2. /\ j \in Jobs
      /\ attempts[j] \in Nat
      /\ status[j] \in {"pending", "running"}
      /\ status' = [status EXCEPT ![j] = s]
      /\ attempts' = [attempts EXCEPT ![j] = @ + 1]
      /\ log' = [log EXCEPT ![j] = [n \in 1..no |-> IF n = no THEN a ELSE log[j][n]]]
  BY <1>1, AttemptRows
<1>3. attempts \in [Jobs -> Nat] /\ DOMAIN log = Jobs
  BY DEF LogInv, TypeOK, RowsOK
<1>4. \A i \in Jobs \ {j} : Ledger'[i] = Ledger[i]
  BY <1>2, <1>3 DEF Ledger
<1>5. Ledger'[j] = [n \in 1..no |-> IF n = no THEN a ELSE log[j][n]]
  BY <1>2, <1>3 DEF Ledger
<1>6. Append(Ledger[j], a) = [n \in 1..no |-> IF n = no THEN a ELSE log[j][n]]
  <2>1. Ledger[j] \in Seq(AttemptStatus) /\ Len(Ledger[j]) = attempts[j]
    BY <1>2, LedgerTyped
  <2>2. \A n \in 1..attempts[j] : Ledger[j][n] = log[j][n]
    BY <1>2 DEF Ledger
  <2> DEFINE new == Append(Ledger[j], a)
  <2>3. /\ new \in Seq(AttemptStatus)
        /\ Len(new) = no
        /\ \A n \in 1..attempts[j] : new[n] = log[j][n]
        /\ new[no] = a
    BY <2>1, <2>2, AppendProperties
  <2>4. new \in [1..no -> AttemptStatus]
    BY <2>3, LenProperties
  <2>5. \A n \in 1..no : new[n] = IF n = no THEN a ELSE log[j][n]
    BY <1>2, <2>3
  <2> QED
    BY <2>4, <2>5
<1>7. Ledger' = [Ledger EXCEPT ![j] = Append(@, a)]
  BY <1>2, <1>4, <1>5, <1>6 DEF Ledger
<1>8. <<a, s>> \in Lifecycle!Results
  BY <1>1 DEF Committed, Lifecycle!Results
<1>9. Lifecycle!Attempt(j, <<a, s>>)
  BY <1>2, <1>7 DEF Lifecycle!Attempt
<1> QED
  BY <1>2, <1>8, <1>9

LEMMA LifecycleStep ==
  ASSUME LogInv, LogInv', [Next]_vars
  PROVE  [Lifecycle!Next]_Lifecycle!vars
<1>1. CASE UNCHANGED rows
  BY <1>1 DEF rows, Ledger, Lifecycle!vars
<1>2. ASSUME NEW j \in Jobs, SubmitNew(j)
      PROVE  Lifecycle!Accept(j)
  BY <1>2 DEF SubmitNew, Lifecycle!Accept, Ledger
<1>3. ASSUME NEW j \in Jobs, RetryFromDlq(j)
      PROVE  Lifecycle!Rerun(j)
  BY <1>3 DEF RetryFromDlq, Lifecycle!Rerun, Ledger
<1>4. CASE Sweep
  <2>1. PICK J \in SUBSET Sweepable :
          status' = [j \in Jobs |-> IF j \in J THEN "pending" ELSE status[j]]
    BY <1>4 DEF Sweep
  <2>2. UNCHANGED Ledger
    BY <1>4 DEF Sweep, Ledger
  <2>3. J \in SUBSET Jobs /\ \A j \in J : status[j] = "running"
    BY DEF Sweepable
  <2>4. Lifecycle!Reset(J)
    BY <2>1, <2>2, <2>3 DEF Lifecycle!Reset
  <2> QED
    BY <2>3, <2>4 DEF Lifecycle!Next
<1>5. CASE Attempted
  BY <1>5, AttemptLedger DEF Lifecycle!Next
<1> QED
  BY <1>1, <1>2, <1>3, <1>4, <1>5, RowSteps DEF Lifecycle!Next

LEMMA LifecycleInit == Init => Lifecycle!Init
<1> SUFFICES ASSUME Init PROVE Lifecycle!Init
  OBVIOUS
<1>1. LogInv
  BY LogInit
<1>2. ASSUME NEW j \in Jobs
      PROVE  Ledger[j] = <<>>
  <2>1. Ledger[j] \in Seq(AttemptStatus) /\ Len(Ledger[j]) = 0
    BY <1>1, LedgerTyped DEF Init
  <2> QED
    BY <2>1, EmptySeq
<1>3. Ledger = [j \in Jobs |-> <<>>]
  BY <1>2 DEF Ledger
<1> QED
  BY <1>3 DEF Init, Lifecycle!Init

\* For a reader of the API, behind any queues, duplicates, crashes and repairs, a job
\* has an append-only history of attempts and the status that its last entry calls for.
THEOREM PipelineKeepsLifecycle == Spec => ImplementsLifecycle
<1>1. Init => Lifecycle!Init
  BY LifecycleInit
<1>2. LogInv /\ LogInv' /\ [Next]_vars => [Lifecycle!Next]_Lifecycle!vars
  BY LifecycleStep
<1> QED
  BY <1>1, <1>2, LogInvariant, PTL DEF Spec, ImplementsLifecycle, Lifecycle!Spec
=============================================================================
