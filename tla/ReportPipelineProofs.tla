------------------------ MODULE ReportPipelineProofs ------------------------
(* Proofs about ReportPipeline.  Its steps are steps of JobPipeline, with   *)
(* the report's status beside them, except Reject, which changes no row:    *)
(* the invariant of JobPipelineProofs carries over.                        *)
EXTENDS ReportPipeline, JobBudgetProofs

ReportInv ==
  /\ LogInv
  /\ reportStatus \in [Jobs -> ReportStatus]
  /\ ReportMatchesJob
  /\ GeneratedOnce

\* Every step but Reject is a step of the pipeline, and Reject leaves the rows alone.
LEMMA ReportSteps ==
  ASSUME [ReportNext]_reportVars
  PROVE  [Next]_vars \/ \E w \in Workers : Reject(w)
<1>1. ASSUME NEW w \in Workers, ReportWorkerStep(w)
      PROVE  WorkerStep(w) \/ Reject(w)
  BY <1>1 DEF ReportWorkerStep, WorkerStep, Generate, Outcomes
<1>2. ASSUME NEW w \in Workers, GenerateUnfinalized(w)
      PROVE  FaultStep
  BY <1>2 DEF GenerateUnfinalized, FaultStep, Outcomes
<1>3. ASSUME NEW w \in Workers, Unregistered(w)
      PROVE  WorkerStep(w) \/ FaultStep
  BY <1>3 DEF Unregistered, WorkerStep, FaultStep, Outcomes
<1>4. ASSUME NEW w \in Workers, ReportWorkerFault(w)
      PROVE  FaultStep
  BY <1>4 DEF ReportWorkerFault, FaultStep
<1>5. CASE \E j \in Jobs, n \in PublishRetries : PublishUnmarked(j, n) \/ PublishFails(j, n)
  BY <1>5 DEF FaultStep, Next
<1>6. CASE UNCHANGED reportVars
  BY <1>6 DEF reportVars
<1> QED
  BY <1>1, <1>2, <1>3, <1>4, <1>5, <1>6 DEF ReportNext, Next

LEMMA RejectLog ==
  ASSUME LogInv, NEW w \in Workers, Reject(w)
  PROVE  LogInv'
<1>1. pc[w] # "idle" /\ task[w].job \in Jobs
  BY BusyTask DEF Reject, LogInv, TypeOK
<1>2. WorkersOK' /\ QueueOK'
  BY <1>1, ReleaseOK, LoseOK DEF Reject, LogInv, TypeOK
<1>3. TypeOK'
  BY <1>2 DEF Reject, LogInv, TypeOK, RowsOK, OutboxOK, CountersOK, rows, outbox, requests
<1>4. \A v \in Workers : pc'[v] = "executing" => pc[v] = "executing" /\ task'[v] = task[v]
  BY DEF Reject, Release, LogInv, TypeOK, WorkersOK
<1> QED
  BY <1>3, <1>4, LogFrame DEF Reject

LEMMA ReportLogStep ==
  ASSUME LogInv, [ReportNext]_reportVars
  PROVE  LogInv'
  BY ReportSteps, RejectLog, LogStep

-----------------------------------------------------------------------------
(* The report and its job.                                                 *)

\* A step that leaves the logs, the effects and the reports alone and reopens or
\* settles no completed job keeps the two in agreement.
LEMMA ReportFrame ==
  ASSUME ReportInv, LogInv', UNCHANGED <<log, effects, reportStatus>>,
         \A j \in Jobs : status'[j] = "completed" <=> status[j] = "completed"
  PROVE  ReportInv'
<1>1. ReportMatchesJob'
  BY DEF ReportInv, ReportMatchesJob
<1>2. GeneratedOnce'
  BY DEF ReportInv, GeneratedOnce
<1> QED
  BY <1>1, <1>2 DEF ReportInv

\* What a committing attempt does to its own job's rows, and to no other's.
LEMMA CommitRows ==
  ASSUME LogInv, NEW w \in Workers, NEW outcome, NEW s, NEW a,
         CommitAttempt(w, outcome, s, a),
         NEW i, i = task[w].job
  PROVE  /\ i \in Jobs
         /\ status[i] # "completed"
         /\ status'[i] = s
         /\ effects'[i] = IF outcome = "success" THEN effects[i] + 1 ELSE effects[i]
         /\ task[w].no \in DOMAIN log'[i] /\ log'[i][task[w].no] = a
         /\ \A n \in DOMAIN log[i] : n \in DOMAIN log'[i] /\ log'[i][n] = log[i][n]
         /\ \A j \in Jobs \ {i} : /\ status'[j] = status[j]
                                 /\ effects'[j] = effects[j]
                                 /\ log'[j] = log[j]
<1>1. /\ pc[w] = "executing"
      /\ status' = [status EXCEPT ![i] = s]
      /\ log' = [log EXCEPT ![i] = WithRow(log[i], task[w].no, a)]
      /\ effects' = [effects EXCEPT ![i] = IF outcome = "success" THEN @ + 1 ELSE @]
  <2>1. PICK n \in Writes(i, outcome) : effects' = [effects EXCEPT ![i] = @ + n]
    BY DEF CommitAttempt
  <2>2. n = IF outcome = "success" THEN 1 ELSE 0
    BY WritesLast DEF Writes
  <2>3. i \in Jobs => effects[i] + 0 = effects[i]
    BY DEF LogInv, TypeOK, RowsOK
  <2>4. i \in Jobs
    BY BusyTask DEF CommitAttempt, LogInv, TypeOK
  <2> QED
    BY <2>1, <2>2, <2>3, <2>4 DEF CommitAttempt
<1>2. i \in Jobs
  BY <1>1, BusyTask DEF LogInv, TypeOK
<1>3. status[i] \in {"pending", "running"} /\ task[w].no \notin DOMAIN log[i]
  BY <1>1 DEF LogInv, AttemptsSerialized
<1>4. log'[i] = WithRow(log[i], task[w].no, a)
  BY <1>1, <1>2 DEF LogInv, TypeOK, RowsOK
<1>5. task[w].no \in DOMAIN log'[i] /\ log'[i][task[w].no] = a
  BY <1>4 DEF WithRow
<1>6. ASSUME NEW n \in DOMAIN log[i]
      PROVE  n \in DOMAIN log'[i] /\ log'[i][n] = log[i][n]
  BY <1>3, <1>4 DEF WithRow
<1>7. /\ status'[i] = s
      /\ effects'[i] = IF outcome = "success" THEN effects[i] + 1 ELSE effects[i]
      /\ \A j \in Jobs \ {i} : /\ status'[j] = status[j]
                              /\ effects'[j] = effects[j]
                              /\ log'[j] = log[j]
  BY <1>1, <1>2 DEF LogInv, TypeOK, RowsOK
<1> QED
  BY <1>2, <1>3, <1>5, <1>6, <1>7

\* A successful attempt completes the report, whether or not it is finalised.
LEMMA SuccessReport ==
  ASSUME ReportInv, LogInv', NEW w \in Workers, NEW s, NEW a,
         CommitAttempt(w, "success", s, a), CompleteReport(task[w].job),
         s = "completed" \/ (s = "running" /\ a = "running")
  PROVE  ReportInv'
<1> DEFINE no == task[w].no
<1>1. PICK i : i = task[w].job
  OBVIOUS
<1>2. /\ i \in Jobs
      /\ status'[i] = s
      /\ effects'[i] = effects[i] + 1
      /\ no \in DOMAIN log'[i] /\ log'[i][no] = a
      /\ \A j \in Jobs \ {i} : /\ status'[j] = status[j]
                              /\ effects'[j] = effects[j]
                              /\ log'[j] = log[j]
  BY <1>1, CommitRows DEF ReportInv
<1> HIDE DEF no
<1>3. /\ reportStatus[i] = "pending"
      /\ reportStatus' = [reportStatus EXCEPT ![i] = "ready"]
  BY <1>1 DEF CompleteReport
<1>4. /\ reportStatus' \in [Jobs -> ReportStatus]
      /\ reportStatus'[i] = "ready"
      /\ \A j \in Jobs \ {i} : reportStatus'[j] = reportStatus[j]
  BY <1>2, <1>3 DEF ReportInv, ReportStatus
<1>5. ReportMatchesJob'
  BY <1>2, <1>4 DEF ReportInv, ReportMatchesJob
<1>6. GeneratedOnce'
  <2>1. effects'[i] = 1
    BY <1>2, <1>3 DEF ReportInv, GeneratedOnce
  <2> QED
    BY <1>2, <1>4, <2>1 DEF ReportInv, GeneratedOnce
<1> QED
  BY <1>4, <1>5, <1>6 DEF ReportInv

\* An attempt that ends without a success leaves the report as it was, and every
\* unfinished row of the log as it was.
LEMMA FailureReport ==
  ASSUME ReportInv, LogInv', NEW w \in Workers, NEW s, NEW a,
         CommitAttempt(w, "nonretryable", s, a), UNCHANGED reportStatus,
         s # "completed"
  PROVE  ReportInv'
<1>1. PICK i : i = task[w].job
  OBVIOUS
<1>2. /\ i \in Jobs
      /\ status[i] # "completed"
      /\ status'[i] = s
      /\ effects'[i] = effects[i]
      /\ \A n \in DOMAIN log[i] : n \in DOMAIN log'[i] /\ log'[i][n] = log[i][n]
      /\ \A j \in Jobs \ {i} : /\ status'[j] = status[j]
                              /\ effects'[j] = effects[j]
                              /\ log'[j] = log[j]
  BY <1>1, CommitRows DEF ReportInv
<1>3. ReportMatchesJob'
  BY <1>2 DEF ReportInv, ReportMatchesJob
<1>4. GeneratedOnce'
  BY <1>2 DEF ReportInv, GeneratedOnce
<1> QED
  BY <1>3, <1>4 DEF ReportInv

LEMMA ReportStep ==
  ASSUME ReportInv, [ReportNext]_reportVars
  PROVE  ReportInv'
<1>0. LogInv /\ LogInv'
  BY ReportLogStep DEF ReportInv
<1> DEFINE Quiet == /\ UNCHANGED <<log, effects, reportStatus>>
                    /\ \A j \in Jobs : status'[j] = "completed" <=> status[j] = "completed"
<1>1. CASE (RequestStep \/ Sweep \/ PublisherStep) /\ UNCHANGED reportStatus
  <2>1. CASE RequestStep
    <3>1. PICK j \in Jobs : SubmitNew(j) \/ SubmitAgain(j) \/ RetryFromDlq(j)
      BY <2>1 DEF RequestStep
    <3>2. Quiet
      BY <1>0, <1>1, <3>1 DEF SubmitNew, SubmitAgain, RetryFromDlq, rows, LogInv, TypeOK, RowsOK
    <3> QED
      BY <1>0, <3>2, ReportFrame
  <2>2. CASE Sweep
    <3>1. Quiet
      BY <1>1, <2>2 DEF Sweep, Sweepable
    <3> QED
      BY <1>0, <3>1, ReportFrame
  <2>3. CASE PublisherStep
    BY <1>0, <1>1, <2>3, ReportFrame DEF PublisherStep, Publish, rows
  <2> QED
    BY <1>1, <2>1, <2>2, <2>3
<1>2. CASE /\ \E j \in Jobs, n \in PublishRetries : PublishUnmarked(j, n) \/ PublishFails(j, n)
           /\ UNCHANGED reportStatus
  BY <1>0, <1>2, ReportFrame DEF PublishUnmarked, PublishFails, rows
<1>3. ASSUME NEW w \in Workers, ReportWorkerStep(w)
      PROVE  ReportInv'
  <2>1. CASE Generate(w)
    <3>1. CommitAttempt(w, "success", "completed", "succeeded")
      BY <2>1 DEF Generate, Finalize, Classify
    <3> QED
      BY <1>0, <2>1, <3>1, SuccessReport DEF Generate
  <2>2. CASE ~Generate(w)
    BY <1>0, <1>3, <2>2, ReportFrame
    DEF ReportWorkerStep, Receive, NoopAttempt, Begin, ScheduleRetry, Ack, Reject, rows
  <2> QED
    BY <2>1, <2>2
<1>4. ASSUME NEW w \in Workers, GenerateUnfinalized(w)
      PROVE  ReportInv'
  BY <1>0, <1>4, SuccessReport DEF GenerateUnfinalized, FinalizeFails
<1>5. ASSUME NEW w \in Workers, Unregistered(w)
      PROVE  ReportInv'
  <2>1. \/ CommitAttempt(w, "nonretryable", "dead", "failed")
        \/ CommitAttempt(w, "nonretryable", "running", "running")
    BY <1>5 DEF Unregistered, Finalize, FinalizeFails, Classify
  <2> QED
    BY <1>0, <1>5, <2>1, FailureReport DEF Unregistered
<1>6. ASSUME NEW w \in Workers, ReportWorkerFault(w)
      PROVE  ReportInv'
  BY <1>0, <1>6, ReportFrame
  DEF ReportWorkerFault, AbortedAttempt, RaiseUnexpected, RetryRefused, ChildLost, Crash, Redeliver,
      rows
<1>7. CASE UNCHANGED reportVars
  BY <1>0, <1>7, ReportFrame DEF reportVars, vars, rows
<1> QED
  BY <1>1, <1>2, <1>3, <1>4, <1>5, <1>6, <1>7 DEF ReportNext

LEMMA ReportInvInit == ReportInit => ReportInv
<1> SUFFICES ASSUME ReportInit PROVE ReportInv
  OBVIOUS
<1>1. LogInv
  BY LogInit DEF ReportInit
<1>2. reportStatus \in [Jobs -> ReportStatus] /\ ReportMatchesJob /\ GeneratedOnce
  BY DEF ReportInit, Init, ReportStatus, ReportMatchesJob, GeneratedOnce
<1> QED
  BY <1>1, <1>2 DEF ReportInv

LEMMA ReportInvariant == ReportSpec => []ReportInv
  BY ReportInvInit, ReportStep, PTL DEF ReportSpec

\* COMPLETED and READY go together, except for an attempt that was never finalised:
\* for any number of reports and workers and any faults.
THEOREM ReportAgrees == ReportSpec => []ReportMatchesJob
<1>1. ReportInv => ReportMatchesJob
  BY DEF ReportInv
<1> QED
  BY <1>1, ReportInvariant, PTL

\* The state check of complete_report makes generate_report idempotent: its writes
\* are committed once, however often the job runs.
THEOREM ReportGeneratedOnce == ReportSpec => []GeneratedOnce
<1>1. ReportInv => GeneratedOnce
  BY DEF ReportInv
<1> QED
  BY <1>1, ReportInvariant, PTL

\* A job whose report is READY without it is completed by no step: a commit that
\* completes a job is Generate's, which needs the report PENDING.
LEMMA ReadyButOpenStep ==
  ASSUME ReportInv, [ReportNext]_reportVars, NEW j \in Jobs,
         reportStatus[j] = "ready", status[j] # "completed"
  PROVE  status'[j] # "completed"
<1>0. LogInv
  BY DEF ReportInv
<1>1. CASE \E w \in Workers : Generate(w)
  <2>1. PICK w \in Workers : Generate(w)
    BY <1>1
  <2>2. PICK i : i = task[w].job
    OBVIOUS
  <2>3. CommitAttempt(w, "success", "completed", "succeeded")
    BY <2>1 DEF Generate, Finalize, Classify
  <2>4. status'[j] = status[j] \/ j = i
    BY <1>0, <2>2, <2>3, CommitRows
  <2>5. reportStatus[i] = "pending"
    BY <2>1, <2>2 DEF Generate, CompleteReport
  <2> QED
    BY <2>4, <2>5
<1>2. CASE \E w \in Workers : GenerateUnfinalized(w) \/ Unregistered(w)
  <2>1. PICK w \in Workers : GenerateUnfinalized(w) \/ Unregistered(w)
    BY <1>2
  <2>2. PICK i : i = task[w].job
    OBVIOUS
  <2>3. PICK outcome \in {"success", "nonretryable"}, s \in {"running", "dead"},
             a \in AttemptStatus : CommitAttempt(w, outcome, s, a)
    BY <2>1 DEF GenerateUnfinalized, Unregistered, Finalize, FinalizeFails, Classify,
                AttemptStatus
  <2>4. status'[j] = status[j] \/ status'[j] = s
    BY <1>0, <2>2, <2>3, CommitRows
  <2> QED
    BY <2>3, <2>4
<1>3. CASE RequestStep \/ Sweep \/ PublisherStep
  <2>1. CASE RequestStep
    BY <1>0, <2>1
    DEF RequestStep, SubmitNew, SubmitAgain, RetryFromDlq, rows, LogInv, TypeOK, RowsOK
  <2>2. CASE Sweep
    BY <2>2 DEF Sweep, Sweepable
  <2>3. CASE PublisherStep
    BY <2>3 DEF PublisherStep, Publish, rows
  <2> QED
    BY <1>3, <2>1, <2>2, <2>3
<1>4. CASE \E i \in Jobs, n \in PublishRetries : PublishUnmarked(i, n) \/ PublishFails(i, n)
  BY <1>4 DEF PublishUnmarked, PublishFails, rows
<1>5. CASE \E w \in Workers : ReportWorkerStep(w) /\ ~Generate(w)
  BY <1>5 DEF ReportWorkerStep, Receive, NoopAttempt, Begin, ScheduleRetry, Ack, Reject, rows
<1>6. CASE \E w \in Workers : ReportWorkerFault(w)
  BY <1>6 DEF ReportWorkerFault, AbortedAttempt, RaiseUnexpected, RetryRefused, ChildLost, Crash, Redeliver,
      rows
<1>7. CASE UNCHANGED reportVars
  BY <1>7 DEF reportVars, vars, rows
<1> QED
  BY <1>1, <1>2, <1>3, <1>4, <1>5, <1>6, <1>7 DEF ReportNext

\* No sequence of sweeps and retries completes the job of a report that is READY
\* without it.
THEOREM ReportStaysOpen == ReportSpec => ReadyButOpenStays
<1>1. ReportInv /\ [ReportNext]_reportVars =>
        \A j \in Jobs : reportStatus[j] = "ready" /\ status[j] # "completed" =>
          status'[j] # "completed"
  BY ReadyButOpenStep
<1> QED
  BY <1>1, ReportInvariant, PTL DEF ReportSpec, ReadyButOpenStays

-----------------------------------------------------------------------------
(* What JobPipeline promises for any executor holds with this one too,      *)
(* though ReportSpec has a step more: Reject loses a message without a     *)
(* fault.                                                                  *)

LEMMA RejectBudget ==
  ASSUME LogInv, TypeOK', BudgetInv, NEW w \in Workers, Reject(w)
  PROVE  BudgetInv'
  BY LoseBudget DEF Reject, LogInv

\* The attempts of a report's job are within JOB_MAX_RETRIES + 1 for each submission,
\* manual retry and fault: a report that is READY already, which fails the message
\* every time the job is run again, costs none.
THEOREM ReportsWithinBudget == ReportSpec => []AttemptsBudgeted
<1>1. ReportInit => BudgetInv
  BY BudgetInit DEF ReportInit
<1>2. LogInv /\ BudgetInv /\ [ReportNext]_reportVars => BudgetInv'
  <2> SUFFICES ASSUME LogInv, BudgetInv, [ReportNext]_reportVars PROVE BudgetInv'
    OBVIOUS
  <2>1. TypeOK'
    BY ReportLogStep DEF LogInv
  <2> QED
    BY <2>1, ReportSteps, BudgetStep, RejectBudget
<1>3. ReportInv => LogInv
  BY DEF ReportInv
<1> QED
  BY <1>1, <1>2, <1>3, BudgetBounds, ReportInvariant, PTL DEF ReportSpec

\* No report is forgotten: the job of a report is left without an event, a message or a
\* worker only by a step that gives up one of its events or loses one of its messages,
\* a rejection of a report that is READY already among them.
THEOREM NoLostReports == ReportSpec => StrandedOnlyByLoss
<1>1. ASSUME LogInv, NEW w \in Workers, Reject(w)
      PROVE  OnlyByLoss
  <2>1. \A v \in Workers \ {w} : pc'[v] = pc[v] /\ task'[v] = task[v]
    BY <1>1 DEF Reject, Release, LogInv, TypeOK, WorkersOK
  <2> QED
    BY <1>1, <2>1, LoseCarried DEF Reject, LogInv
<1>2. LogInv /\ [ReportNext]_reportVars => [OnlyByLoss]_vars
  BY <1>1, ReportSteps, StrandedStep DEF LogInv
<1>3. ReportInv => LogInv
  BY DEF ReportInv
<1> QED
  BY <1>2, <1>3, ReportInvariant, PTL DEF ReportSpec, StrandedOnlyByLoss, OnlyByLoss

\* The job of a report keeps the history that JobLifecycle promises, and its executor's
\* writes are accounted for, with the outcomes this executor has.
THEOREM ReportJobsKeepLifecycle == ReportSpec => ImplementsLifecycle /\ []EffectsAccounted
<1>1. ReportInit => Lifecycle!Init /\ EffectsAccounted
  BY LifecycleInit, EffectsInit DEF ReportInit
<1>2. ASSUME NEW w \in Workers, Reject(w)
      PROVE  UNCHANGED Lifecycle!vars /\ (EffectsAccounted => EffectsAccounted')
  BY <1>2 DEF Reject, rows, Lifecycle!vars, Ledger, EffectsAccounted, MayHaveWritten
<1>3. LogInv /\ LogInv' /\ [ReportNext]_reportVars => [Lifecycle!Next]_Lifecycle!vars
  BY <1>2, ReportSteps, LifecycleStep
<1>4. LogInv /\ EffectsAccounted /\ [ReportNext]_reportVars => EffectsAccounted'
  BY <1>2, ReportSteps, EffectsStep
<1>5. ReportInv => LogInv
  BY DEF ReportInv
<1> QED
  BY <1>1, <1>3, <1>4, <1>5, ReportInvariant, PTL
  DEF ReportSpec, ImplementsLifecycle, Lifecycle!Spec

LEMMA RejectSpends ==
  ASSUME LogInv, TypeOK', IsFiniteSet(Workers), NEW w \in Workers, Reject(w)
  PROVE  Spends
<1>1. TypeOK /\ pc[w] = "executing"
  BY DEF Reject, LogInv
<1>2. PICK i \in Jobs : i = task[w].job
  BY <1>1, BusyTask DEF TypeOK
<1>3. Moves(w, i)
  BY <1>1, <1>2, BusyMoves DEF Reject, Lose, rows, outbox, requests
<1>4. /\ MessageWork(i)' = MessageWork(i) /\ RowWork(i)' = RowWork(i)
      /\ MessageWork(i) \in Nat /\ RowWork(i) \in Nat
  BY <1>1, WorkNat DEF Reject, Lose, rows, MessageWork, RowWork
<1>5. Left(pc[w], task[w], i) > 0 /\ Left(pc'[w], task'[w], i) = 0
  <2>1. task[w].retries \in Nat /\ task[w].retries <= MaxRetries
    BY <1>1, BusyTask, ConstantsAssumption DEF TypeOK, Retries
  <2>2. pc'[w] = "idle"
    BY <1>1 DEF Reject, Release, TypeOK, WorkersOK
  <2> QED
    BY <1>1, <1>2, <2>1, <2>2, ConstantsAssumption DEF Left, Tries
<1>6. Left(pc[w], task[w], i) \in Nat
  BY <1>1, LeftNat DEF TypeOK
<1> QED
  BY <1>1, <1>3, <1>4, <1>5, <1>6, WorkerSpends

\* Nothing goes round in circles here either: every step of the composed system that is
\* not a request or a fault uses up work, a rejection included.
THEOREM ReportWorkIsSpent ==
  ASSUME IsFiniteSet(Workers)
  PROVE  ReportSpec => [][RequestStep \/ FaultStep \/ Spends]_vars
<1>1. ReportInv /\ ReportInv' /\ [ReportNext]_reportVars =>
        [RequestStep \/ FaultStep \/ Spends]_vars
  <2> SUFFICES ASSUME ReportInv, ReportInv', [ReportNext]_reportVars
               PROVE  RequestStep \/ FaultStep \/ Spends \/ UNCHANGED vars
    OBVIOUS
  <2>1. LogInv /\ TypeOK /\ TypeOK'
    BY DEF ReportInv, LogInv
  <2> QED
    BY <2>1, ReportSteps, StepSpends, RejectSpends
<1> QED
  BY <1>1, ReportInvariant, PTL DEF ReportSpec
=============================================================================
