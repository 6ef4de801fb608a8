------------------------------ MODULE Reports ------------------------------
(***************************************************************************)
(* Requests that create reports and jobs: create_report                    *)
(* (src/apps/reports/service.py) and submit_job (src/jobs/service.py), one *)
(* step per statement, in one transaction per request.  Requests race      *)
(* under one idempotency key; the partial unique indexes of the two tables *)
(* decide, and the loser recovers by reading again.                        *)
(*                                                                         *)
(* A request creates at most one report and one job, so that a report or a *)
(* job is named by the request that inserts it.  A row is "inserted" while *)
(* only its own transaction sees it and "committed" when all do.           *)
(***************************************************************************)
EXTENDS Naturals

CONSTANTS
  Requests,       \* requests, and the ids of the reports and jobs they insert
  Keys,           \* idempotency keys, not empty
  NoKey,          \* no Idempotency-Key header: NULL in the indexed column
  EmptyKey,       \* an empty Idempotency-Key header: '', which is not NULL
  UsedKeys,       \* the keys the requests choose from
  None,           \* no report, no job
  Callers         \* how the callers treat the UnitOfWork they pass

ASSUME ReportsAssumption ==
  /\ None \notin Requests
  /\ NoKey # EmptyKey
  /\ {NoKey, EmptyKey} \cap Keys = {}
  /\ UsedKeys \subseteq Keys \cup {NoKey, EmptyKey}
  /\ Callers \subseteq {"enters", "get_uow"}

VARIABLES
  kind,       \* kind[r]: what r calls, create_report or submit_job
  key,        \* key[r]: its idempotency key, stored in the rows it inserts
  caller,     \* caller[r]: it enters its UnitOfWork, which commits at the end of the with
              \*   block (db/unit_of_work.py:46), or it got one from get_uow
              \*   (db/session.py:43), as the API does, and nobody enters that
  pc,         \* pc[r]: the statement r executes next, or how r ended
  found,      \* found[r]: the report r works with
  taken,      \* taken[r]: the job submit_job returns to r
  report,     \* report[x]: whether the row of report x exists
  reportJob,  \* reportJob[x]: reports.job_id of report x
  job,        \* job[x]: whether the row of job x exists
  jobReport,  \* jobReport[x]: the report in the payload of job x, or None for other work
  events      \* events[x]: committed dispatch events of job x

request == <<kind, key, caller>>
rows == <<report, reportJob, job, jobReport, events>>
vars == <<request, pc, found, taken, rows>>

Kinds == {"create_report", "submit_job"}
RowState == {"absent", "inserted", "committed"}
Errors == {"conflict", "integrity", "not_found", "already_attached", "aborted"}
Running == {"insert_report", "reread_report", "find_job", "insert_job", "reread_job",
            "attach", "exit"}
Phases == {"new", "find_report", "returned"} \cup Running \cup Errors

-----------------------------------------------------------------------------
\* `if idempotency_key`: None and '' are both false.
Truthy(k) == k \notin {NoKey, EmptyKey}

\* READ COMMITTED: what others committed, and what this transaction wrote.
Sees(table, r, x) == table[x] = "committed" \/ (x = r /\ table[x] # "absent")

\* Mutant: every read uses a snapshot from before the other requests committed.
MatchesOwn(table, r) == {x \in Requests : key[x] = key[r] /\ x = r /\ table[x] # "absent"}

\* get_by_idempotency_key.
Matches(table, r) == {x \in Requests : key[x] = key[r] /\ Sees(table, r, x)}

\* Mutant: the index is not unique.
NoEntries(table, r) == {}

\* The other entries under r's key in the partial unique index of a table.
Entries(table, r) ==
  {x \in Requests : x # r /\ key[x] = key[r] /\ key[r] # NoKey /\ table[x] # "absent"}

\* An INSERT waits while an entry of its key is not committed, fails on a committed one.
Free(table, r) == Entries(table, r) = {}
Violated(table, r) == \E x \in Entries(table, r) : table[x] = "committed"

\* SELECT ... FOR UPDATE in _attach_job_to_report holds the report to the end.
LockedReport(x) == \E r \in Requests : pc[r] = "exit" /\ found[r] = x /\ taken[r] # None

Goto(r, phase) == pc' = [pc EXCEPT ![r] = phase]

\* Mutant: an error leaves the transaction open.
KeepOpen(r) == UNCHANGED rows

\* The transaction ends without a trace.
Rollback(r) ==
  /\ report' = [report EXCEPT ![r] = IF @ = "inserted" THEN "absent" ELSE @]
  /\ job' = [job EXCEPT ![r] = IF @ = "inserted" THEN "absent" ELSE @]
  /\ UNCHANGED <<reportJob, jobReport, events>>

\* Mutant: the report is committed without its job_id.
CommitUnattached(r) ==
  /\ report' = [report EXCEPT ![r] = IF @ = "inserted" THEN "committed" ELSE @]
  /\ job' = [job EXCEPT ![r] = IF @ = "inserted" THEN "committed" ELSE @]
  /\ events' = [x \in Requests |-> IF x = taken[r] THEN events[x] + 1 ELSE events[x]]
  /\ UNCHANGED <<reportJob, jobReport>>

\* The transaction ends with all its writes: its rows, the job_id and the event.
Commit(r) ==
  /\ report' = [report EXCEPT ![r] = IF @ = "inserted" THEN "committed" ELSE @]
  /\ job' = [job EXCEPT ![r] = IF @ = "inserted" THEN "committed" ELSE @]
  /\ reportJob' = [x \in Requests |->
       IF x = found[r] /\ reportJob[x] = None THEN taken[r] ELSE reportJob[x]]
  /\ events' = [x \in Requests |-> IF x = taken[r] THEN events[x] + 1 ELSE events[x]]
  /\ UNCHANGED jobReport

\* An exception leaves the request.
Fail(r, error) ==
  /\ Goto(r, error)
  /\ Rollback(r)
  /\ UNCHANGED <<request, found, taken>>

Init ==
  /\ kind = [r \in Requests |-> "create_report"]
  /\ key = [r \in Requests |-> NoKey]
  /\ caller = [r \in Requests |-> "get_uow"]
  /\ pc = [r \in Requests |-> "new"]
  /\ found = [r \in Requests |-> None]
  /\ taken = [r \in Requests |-> None]
  /\ report = [r \in Requests |-> "absent"]
  /\ reportJob = [r \in Requests |-> None]
  /\ job = [r \in Requests |-> "absent"]
  /\ jobReport = [r \in Requests |-> None]
  /\ events = [r \in Requests |-> 0]

-----------------------------------------------------------------------------
Arrive(r) ==
  /\ pc[r] = "new"
  /\ \E k \in Kinds, i \in UsedKeys, c \in Callers :
       /\ caller' = [caller EXCEPT ![r] = c]
       /\ kind' = [kind EXCEPT ![r] = k]
       /\ key' = [key EXCEPT ![r] = i]
       /\ Goto(r, IF k = "create_report" THEN "find_report" ELSE "find_job")
  /\ UNCHANGED <<found, taken, rows>>

\* The fast path of create_report: a known report is returned as it is.
FindReport(r) ==
  /\ pc[r] = "find_report"
  /\ IF Truthy(key[r]) /\ Matches(report, r) # {}
       THEN /\ \E x \in Matches(report, r) : found' = [found EXCEPT ![r] = x]
            /\ Goto(r, "exit")
       ELSE Goto(r, "insert_report") /\ UNCHANGED found
  /\ UNCHANGED <<request, taken, rows>>

\* _create_report_with_recovery: the INSERT in its savepoint.
InsertReport(r) ==
  /\ pc[r] = "insert_report"
  /\ Free(report, r)
  /\ report' = [report EXCEPT ![r] = "inserted"]
  /\ found' = [found EXCEPT ![r] = r]
  /\ Goto(r, "find_job")
  /\ UNCHANGED <<request, taken, reportJob, job, jobReport, events>>

\* IntegrityError: only the savepoint is rolled back.  Without a (true) key it
\* is raised again.
ReportKeyTaken(r) ==
  /\ pc[r] = "insert_report"
  /\ Violated(report, r)
  /\ IF Truthy(key[r])
       THEN Goto(r, "reread_report") /\ UNCHANGED <<request, found, taken, rows>>
       ELSE Fail(r, "integrity")

RereadReport(r) ==
  /\ pc[r] = "reread_report"
  /\ IF Matches(report, r) # {}
       THEN /\ \E x \in Matches(report, r) : found' = [found EXCEPT ![r] = x]
            /\ Goto(r, "find_job")
            /\ UNCHANGED <<request, taken, rows>>
       ELSE Fail(r, "integrity")

\* submit_job has its job: the event is recorded, and a report still to be attached.
Submitted(r, j) ==
  /\ taken' = [taken EXCEPT ![r] = j]
  /\ Goto(r, IF kind[r] = "create_report" THEN "attach" ELSE "exit")

\* Mutant: any job found under the key is reused.
ReuseAny(r, j) == Submitted(r, j) /\ UNCHANGED <<request, found, rows>>

\* _validate_idempotent_match: a job is reused for the same work only.
Reuse(r, j) ==
  IF jobReport[j] = found[r]
    THEN Submitted(r, j) /\ UNCHANGED <<request, found, rows>>
    ELSE Fail(r, "conflict")

\* The fast path of _create_job_row.
FindJob(r) ==
  /\ pc[r] = "find_job"
  /\ IF Truthy(key[r]) /\ Matches(job, r) # {}
       THEN \E j \in Matches(job, r) : Reuse(r, j)
       ELSE Goto(r, "insert_job") /\ UNCHANGED <<request, found, taken, rows>>

InsertJob(r) ==
  /\ pc[r] = "insert_job"
  /\ Free(job, r)
  /\ job' = [job EXCEPT ![r] = "inserted"]
  /\ jobReport' = [jobReport EXCEPT ![r] = found[r]]
  /\ Submitted(r, r)
  /\ UNCHANGED <<request, found, report, reportJob, events>>

JobKeyTaken(r) ==
  /\ pc[r] = "insert_job"
  /\ Violated(job, r)
  /\ IF Truthy(key[r])
       THEN Goto(r, "reread_job") /\ UNCHANGED <<request, found, taken, rows>>
       ELSE Fail(r, "integrity")

RereadJob(r) ==
  /\ pc[r] = "reread_job"
  /\ IF Matches(job, r) # {}
       THEN \E j \in Matches(job, r) : Reuse(r, j)
       ELSE Fail(r, "integrity")

\* _attach_job_to_report, under the report's row lock.
Attach(r) ==
  /\ pc[r] = "attach"
  /\ ~LockedReport(found[r])
  /\ IF ~Sees(report, r, found[r]) THEN Fail(r, "not_found")
     ELSE IF reportJob[found[r]] \in {None, taken[r]}
       THEN Goto(r, "exit") /\ UNCHANGED <<request, found, taken, rows>>
       ELSE Fail(r, "already_attached")

\* The answer is ready and the request's session ends: with a commit when the
\* caller entered its UnitOfWork, with close(), which rolls back, when not.
Exit(r) ==
  /\ pc[r] = "exit"
  /\ Goto(r, "returned")
  /\ IF caller[r] = "enters" THEN Commit(r) ELSE Rollback(r)
  /\ UNCHANGED <<request, found, taken>>

\* The process or its connection dies, or a statement fails, before the commit.
Abort(r) == pc[r] \in Running /\ Fail(r, "aborted")

RequestStep(r) ==
  \/ FindReport(r)
  \/ InsertReport(r)
  \/ ReportKeyTaken(r)
  \/ RereadReport(r)
  \/ FindJob(r)
  \/ InsertJob(r)
  \/ JobKeyTaken(r)
  \/ RereadJob(r)
  \/ Attach(r)
  \/ Exit(r)

Next == \E r \in Requests : Arrive(r) \/ RequestStep(r) \/ Abort(r)

Spec == Init /\ [][Next]_vars

\* A request that can go on does: its thread keeps running.
Fairness == \A r \in Requests : WF_vars(RequestStep(r))

FairSpec == Spec /\ Fairness

-----------------------------------------------------------------------------
\* The type invariant; uncommitted rows belong to requests that are still running.
TypeOK ==
  /\ kind \in [Requests -> Kinds]
  /\ key \in [Requests -> Keys \cup {NoKey, EmptyKey}]
  /\ caller \in [Requests -> {"enters", "get_uow"}]
  /\ pc \in [Requests -> Phases]
  /\ found \in [Requests -> Requests \cup {None}]
  /\ taken \in [Requests -> Requests \cup {None}]
  /\ report \in [Requests -> RowState]
  /\ reportJob \in [Requests -> Requests \cup {None}]
  /\ job \in [Requests -> RowState]
  /\ jobReport \in [Requests -> Requests \cup {None}]
  /\ events \in [Requests -> Nat]
  /\ \A r \in Requests : "inserted" \in {report[r], job[r]} => pc[r] \in Running

\* What r was answered with outlives r's session: another request has inserted it, or
\* r's caller commits.
Kept(r, x) == x # r \/ caller[r] = "enters"

\* A request that was answered with a report or a job got one that is in the database,
\* attached and with its dispatch recorded, whoever inserted it and however that request
\* ended -- unless r inserted it itself through get_uow, which loses it again.
AnswersDurable ==
  \A r \in Requests : pc[r] = "returned" =>
    /\ kind[r] = "create_report" =>
         /\ found[r] # None
         /\ Kept(r, found[r]) =>
              report[found[r]] = "committed" /\ reportJob[found[r]] # None
    /\ taken[r] # None /\ Kept(r, taken[r]) =>
         job[taken[r]] = "committed" /\ events[taken[r]] > 0

\* Answers under one key that last agree: the same report, and the same job.
SameKeySameAnswer ==
  \A r, s \in Requests :
    pc[r] = "returned" /\ pc[s] = "returned" /\ key[r] = key[s] /\ Truthy(key[r]) =>
      /\ /\ kind[r] = "create_report" /\ kind[s] = "create_report"
         /\ Kept(r, found[r]) /\ Kept(s, found[s])
         => found[r] = found[s]
      /\ /\ kind[r] = kind[s] /\ taken[r] # None /\ taken[s] # None
         /\ Kept(r, taken[r]) /\ Kept(s, taken[s])
         => taken[r] = taken[s]

\* Reports and jobs of reports come in pairs that name each other, without a
\* foreign key: no executor meets a job whose report is missing (ReportNotFound),
\* no report waits for a job that does other work or that nobody dispatches.
ReportsHaveJobs ==
  \A x \in Requests :
    /\ report[x] = "committed" =>
         LET j == reportJob[x] IN
         j # None /\ job[j] = "committed" /\ jobReport[j] = x
    /\ job[x] = "committed" =>
         /\ events[x] > 0
         /\ jobReport[x] # None =>
              report[jobReport[x]] = "committed" /\ reportJob[jobReport[x]] = x

\* The errors a race must not cause: the loser of an INSERT always finds the
\* winner's row, and a report it did not create is already attached to the very
\* job it submits.  IdempotencyKeyConflict means that the key does other work.
RacesRecover ==
  \A r \in Requests :
    /\ Truthy(key[r]) => pc[r] \notin {"integrity", "not_found", "already_attached"}
    /\ pc[r] = "conflict" =>
         \E j \in Requests : key[j] = key[r] /\ job[j] = "committed" /\ kind[j] # kind[r]

\* Waiting for another request's row or lock ends: every request is answered.
EventuallyAnswered ==
  \A r \in Requests :
    pc[r] \in Running \cup {"find_report"} ~> pc[r] \in {"returned"} \cup Errors
=============================================================================
