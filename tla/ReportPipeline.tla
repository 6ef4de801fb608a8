--------------------------- MODULE ReportPipeline ---------------------------
(***************************************************************************)
(* The job pipeline with the executor it is deployed with, generate_report *)
(* (src/apps/reports/executors.py), and the status of the report it        *)
(* completes (src/apps/reports/service.py).  Every job of JobPipeline is   *)
(* the job of one report: that such a report exists and names the job back *)
(* is what module Reports shows.                                           *)
(*                                                                         *)
(* The executor's outcome is no longer free, it depends on the report: a   *)
(* report that is READY makes complete_report raise InvalidReportState,    *)
(* which the pipeline does not classify.                                   *)
(***************************************************************************)
EXTENDS JobPipeline

\* generate_report writes with its last call, complete_report: an error it raises
\* before leaves nothing to commit.
ASSUME WritesLast == EarlyWriters = {}

VARIABLES
  reportStatus  \* reportStatus[j]: reports.status of the report of job j

reportVars == <<vars, reportStatus>>

\* ReportStatus without FAILED, which no code writes.
ReportStatus == {"pending", "ready"}

ReportInit == Init /\ reportStatus = [j \in Jobs |-> "pending"]

\* Mutant: the status of the report is not checked.
AnyState(j) == reportStatus' = [reportStatus EXCEPT ![j] = "ready"]

\* complete_report, in the worker's transaction: only a PENDING report is completed.
CompleteReport(j) ==
  /\ reportStatus[j] = "pending"
  /\ reportStatus' = [reportStatus EXCEPT ![j] = "ready"]

\* Mutant: the report is changed in memory and not saved.
GenerateUnsaved(w) ==
  /\ Finalize(w, "success")
  /\ reportStatus[task[w].job] = "pending"
  /\ UNCHANGED reportStatus

\* generate_report returns its result, and the attempt is committed as a success.
Generate(w) ==
  /\ Finalize(w, "success")
  /\ CompleteReport(task[w].job)

\* The same, and finalize_attempt fails: the report is READY, the job still RUNNING.
GenerateUnfinalized(w) ==
  /\ FinalizeFails(w, "success")
  /\ CompleteReport(task[w].job)

\* InvalidReportState: an unclassified exception, so the attempt leaves no row and
\* the message is rejected.  No fault is needed for it.
Reject(w) ==
  /\ pc[w] = "executing"
  /\ reportStatus[task[w].job] # "pending"
  /\ Lose(task[w].job)
  /\ Release(w)
  /\ UNCHANGED <<rows, outbox, requests, faults, reportStatus>>

\* ExecutorNotRegistered: JOB_EXECUTORS of this worker lacks the reports.  (The
\* executor's own NonRetryableJobErrors need a job without its report.)
Unregistered(w) ==
  /\ Finalize(w, "nonretryable") \/ FinalizeFails(w, "nonretryable")
  /\ UNCHANGED reportStatus

ReportWorkerStep(w) ==
  \/ /\ \/ \E j \in Jobs, r \in Retries : Receive(w, j, r)
        \/ NoopAttempt(w)
        \/ Begin(w)
        \/ ScheduleRetry(w)
        \/ Ack(w)
     /\ UNCHANGED reportStatus
  \/ Generate(w)
  \/ Reject(w)

\* What may befall a worker whatever the executor: a database error reported as
\* retryable, any other exception, a retry that is refused, death, a second delivery.
ReportWorkerFault(w) ==
  /\ \/ AbortedAttempt(w)
     \/ RaiseUnexpected(w)
     \/ RetryRefused(w)
     \/ ChildLost(w)
     \/ Crash(w)
     \/ Redeliver(w)
  /\ UNCHANGED reportStatus

ReportNext ==
  \/ (RequestStep \/ Sweep \/ PublisherStep) /\ UNCHANGED reportStatus
  \/ /\ \E j \in Jobs, n \in PublishRetries : PublishUnmarked(j, n) \/ PublishFails(j, n)
     /\ UNCHANGED reportStatus
  \/ \E w \in Workers :
       \/ ReportWorkerStep(w)
       \/ GenerateUnfinalized(w)
       \/ Unregistered(w)
       \/ ReportWorkerFault(w)

ReportSpec == ReportInit /\ [][ReportNext]_reportVars

-----------------------------------------------------------------------------
\* The report and its job row are written by different layers in one transaction: a
\* COMPLETED job has a READY report, and a READY report whose job is not COMPLETED
\* has an attempt that was never finalised.
ReportMatchesJob ==
  \A j \in Jobs :
    /\ status[j] = "completed" => reportStatus[j] = "ready"
    /\ reportStatus[j] = "ready" /\ status[j] # "completed" =>
         \E n \in DOMAIN log[j] : log[j][n] = "running"

\* A report is generated once, through duplicates, retries, sweeps of a job whose
\* finalisation failed and manual retries: the executor's state check makes
\* it idempotent, which the pipeline alone is not (EffectsAccounted).
GeneratedOnce ==
  \A j \in Jobs : effects[j] = IF reportStatus[j] = "ready" THEN 1 ELSE 0

\* What a swallowed finalisation costs: no sweep, retry or manual retry ever completes a
\* job whose report became READY without it, since each further attempt meets
\* InvalidReportState.
ReadyButOpenStays ==
  [][\A j \in Jobs : reportStatus[j] = "ready" /\ status[j] # "completed" =>
       status'[j] # "completed"]_reportVars
=============================================================================
