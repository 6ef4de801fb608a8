--------------------------- MODULE ReportsProofs ---------------------------
(* Proofs about Reports: for every number of requests, every assignment of  *)
(* keys and every interleaving of their statements.                        *)
EXTENDS Reports, TLAPS

-----------------------------------------------------------------------------
(* The inductive invariant.  Its centre is Pairs: a report is only ever     *)
(* committed together with the job inserted by the same request, so that    *)
(* both carry one id here.  It holds because at most one row per key exists *)
(* in a table, committed or not (Unique), and because a request that works  *)
(* with another's report found it committed, with its job (Working).        *)

\* At most one row per key, committed or not.
Unique(table) ==
  \A x, y \in Requests :
    table[x] # "absent" /\ table[y] # "absent" /\ key[x] = key[y] /\ key[x] # NoKey => x = y

\* What a request found or took was there, under its own key.
KeysAgree ==
  \A r \in Requests :
    /\ pc[r] = "new" => /\ report[r] = "absent" /\ job[r] = "absent"
                        /\ found[r] = None /\ taken[r] = None
    /\ found[r] # None => pc[found[r]] # "new" /\ key[found[r]] = key[r]
    /\ taken[r] # None => pc[taken[r]] # "new" /\ key[taken[r]] = key[r]
    /\ found[r] \notin {None, r} => Truthy(key[r])

\* Where a request is when rows of its own exist.
OwnRows ==
  \A r \in Requests :
    /\ report[r] = "inserted" =>
         /\ found[r] = r
         /\ pc[r] \in {"find_job", "insert_job", "reread_job", "attach", "exit"}
    /\ job[r] = "inserted" => taken[r] = r /\ pc[r] \in {"attach", "exit"}
    /\ "committed" \in {report[r], job[r]} => pc[r] = "returned"

\* What a request holds at each statement.
Working ==
  \A r \in Requests :
    /\ kind[r] = "submit_job" =>
         found[r] = None /\ pc[r] \notin {"find_report", "insert_report", "reread_report", "attach"}
    /\ pc[r] \in {"find_report", "insert_report", "reread_report"} => found[r] = None
    /\ pc[r] \in (Running \ {"attach", "exit"}) \cup {"find_report"} => taken[r] = None
    /\ pc[r] \in {"find_job", "insert_job", "reread_job", "attach", "exit"}
       /\ kind[r] = "create_report" => found[r] # None /\ Sees(report, r, found[r])
    /\ pc[r] = "attach" => taken[r] # None
    /\ pc[r] = "exit" /\ taken[r] = None =>
         kind[r] = "create_report" /\ report[found[r]] = "committed"
    /\ pc[r] \in {"attach", "exit"} /\ taken[r] # None =>
         Sees(job, r, taken[r]) /\ jobReport[taken[r]] = found[r]

\* The loser of an INSERT will find the winner.
Recovering ==
  \A r \in Requests :
    /\ pc[r] = "reread_report" =>
         Truthy(key[r]) /\ \E x \in Requests : key[x] = key[r] /\ report[x] = "committed"
    /\ pc[r] = "reread_job" =>
         Truthy(key[r]) /\ \E x \in Requests : key[x] = key[r] /\ job[x] = "committed"

Pairs ==
  \A x \in Requests :
    /\ report[x] = "committed" =>
         reportJob[x] = x /\ job[x] = "committed" /\ jobReport[x] = x
    /\ report[x] # "committed" => reportJob[x] = None
    /\ job[x] # "absent" => (jobReport[x] = None <=> kind[x] = "submit_job")
    /\ job[x] = "committed" =>
         /\ events[x] > 0
         /\ jobReport[x] # None => jobReport[x] = x /\ report[x] = "committed"

ReportsInv ==
  /\ TypeOK
  /\ Unique(report) /\ Unique(job)
  /\ KeysAgree
  /\ OwnRows
  /\ Working
  /\ Recovering
  /\ Pairs
  /\ RacesRecover

\* A request arrives: it has no rows yet, and nobody has found any.
LEMMA ArriveInv ==
  ASSUME ReportsInv, NEW r \in Requests, Arrive(r)
  PROVE  ReportsInv'
<1> USE DEF Arrive, Goto, request, rows, Truthy
<1>1. TypeOK'
  BY ReportsAssumption DEF ReportsInv, TypeOK, Phases, Running
<1>2. Unique(report)'
  BY DEF ReportsInv, Unique, KeysAgree
<1>3. Unique(job)'
  BY DEF ReportsInv, Unique, KeysAgree
<1>4. KeysAgree'
  BY DEF ReportsInv, KeysAgree
<1>5. OwnRows'
  BY DEF ReportsInv, OwnRows
<1>6. Working'
  BY DEF ReportsInv, TypeOK, Working, KeysAgree
<1>7. Recovering'
  BY DEF ReportsInv, Recovering, KeysAgree
<1>8. Pairs'
  BY DEF ReportsInv, Pairs, KeysAgree
<1>9. RacesRecover'
  BY DEF ReportsInv, RacesRecover, OwnRows
<1> QED
  BY <1>1, <1>2, <1>3, <1>4, <1>5, <1>6, <1>7, <1>8, <1>9 DEF ReportsInv

\* The fast path finds committed rows of its own key only.
LEMMA FindReportInv ==
  ASSUME ReportsInv, NEW r \in Requests, FindReport(r)
  PROVE  ReportsInv'
<1> USE DEF FindReport, Goto, Matches, Sees, request, rows, Truthy
<1>1. TypeOK'
  BY DEF ReportsInv, TypeOK, Phases, Running
<1>2. Unique(report)'
  BY DEF ReportsInv, Unique
<1>3. Unique(job)'
  BY DEF ReportsInv, Unique
<1>4. KeysAgree'
  BY DEF ReportsInv, TypeOK, KeysAgree
<1>5. OwnRows'
  BY DEF ReportsInv, TypeOK, OwnRows
<1>6. Working'
  BY ReportsAssumption DEF ReportsInv, TypeOK, Working, Kinds, Running, RowState
<1>7. Recovering'
  BY DEF ReportsInv, TypeOK, Recovering
<1>8. Pairs'
  BY DEF ReportsInv, Pairs
<1>9. RacesRecover'
  BY DEF ReportsInv, TypeOK, RacesRecover
<1> QED
  BY <1>1, <1>2, <1>3, <1>4, <1>5, <1>6, <1>7, <1>8, <1>9 DEF ReportsInv

\* An INSERT that goes through is the only row of its key.
LEMMA InsertReportInv ==
  ASSUME ReportsInv, NEW r \in Requests, InsertReport(r)
  PROVE  ReportsInv'
<1> USE DEF InsertReport, Goto, Free, Entries, request, Truthy
<1>1. TypeOK'
  BY DEF ReportsInv, TypeOK, Phases, Running, RowState
<1>2. Unique(report)'
  BY DEF ReportsInv, Unique
<1>3. Unique(job)'
  BY DEF ReportsInv, Unique
<1>4. KeysAgree'
  BY DEF ReportsInv, KeysAgree
<1>5. OwnRows'
  BY DEF ReportsInv, TypeOK, OwnRows
<1>6. Working'
  BY ReportsAssumption DEF ReportsInv, TypeOK, Working, OwnRows, Sees, Running
<1>7. Recovering'
  BY DEF ReportsInv, Recovering, OwnRows
<1>8. Pairs'
  BY DEF ReportsInv, Pairs, OwnRows
<1>9. RacesRecover'
  BY DEF ReportsInv, RacesRecover
<1> QED
  BY <1>1, <1>2, <1>3, <1>4, <1>5, <1>6, <1>7, <1>8, <1>9 DEF ReportsInv

\* An INSERT that fails leaves a committed row to be read.
LEMMA ReportKeyTakenInv ==
  ASSUME ReportsInv, NEW r \in Requests, ReportKeyTaken(r)
  PROVE  ReportsInv'
<1> USE DEF ReportKeyTaken, Goto, Fail, Rollback, Violated, Entries, request, rows, Truthy
<1>1. TypeOK'
  BY DEF ReportsInv, TypeOK, Phases, Running, Errors, RowState
<1>2. Unique(report)'
  BY DEF ReportsInv, TypeOK, Unique
<1>3. Unique(job)'
  BY DEF ReportsInv, TypeOK, Unique
<1>4. KeysAgree'
  BY DEF ReportsInv, TypeOK, KeysAgree
<1>5. OwnRows'
  BY DEF ReportsInv, TypeOK, OwnRows
<1>6. Working'
  BY DEF ReportsInv, TypeOK, Working, Sees, Running
<1>7. Recovering'
  BY DEF ReportsInv, TypeOK, Recovering
<1>8. Pairs'
  BY DEF ReportsInv, TypeOK, Pairs
<1>9. RacesRecover'
  BY DEF ReportsInv, TypeOK, RacesRecover
<1> QED
  BY <1>1, <1>2, <1>3, <1>4, <1>5, <1>6, <1>7, <1>8, <1>9 DEF ReportsInv

\* The second read finds the winner.
LEMMA RereadReportInv ==
  ASSUME ReportsInv, NEW r \in Requests, RereadReport(r)
  PROVE  ReportsInv'
<1> USE DEF RereadReport, Goto, Fail, Rollback, Matches, Sees, request, rows, Truthy
<1>1. TypeOK'
  BY DEF ReportsInv, TypeOK, Phases, Running, Errors
<1>2. Unique(report)'
  BY DEF ReportsInv, TypeOK, Unique
<1>3. Unique(job)'
  BY DEF ReportsInv, TypeOK, Unique
<1>4. KeysAgree'
  <2>1. PICK x \in Requests : key[x] = key[r] /\ report[x] = "committed"
    BY DEF ReportsInv, Recovering
  <2>2. Truthy(key[r]) /\ x \in Matches(report, r)
    BY <2>1 DEF ReportsInv, Recovering
  <2>3. PICK y \in Matches(report, r) : found' = [found EXCEPT ![r] = y]
    BY <2>2
  <2>4. key[y] = key[r] /\ pc[y] # "new"
    BY <2>3 DEF ReportsInv, KeysAgree
  <2> QED
    BY <2>2, <2>3, <2>4 DEF ReportsInv, KeysAgree, TypeOK
<1>5. OwnRows'
  BY DEF ReportsInv, TypeOK, OwnRows
<1>6. Working'
  BY ReportsAssumption DEF ReportsInv, TypeOK, Working, Running
<1>7. Recovering'
  BY DEF ReportsInv, TypeOK, Recovering
<1>8. Pairs'
  BY DEF ReportsInv, TypeOK, Pairs
<1>9. RacesRecover'
  BY DEF ReportsInv, TypeOK, RacesRecover, Recovering
<1> QED
  BY <1>1, <1>2, <1>3, <1>4, <1>5, <1>6, <1>7, <1>8, <1>9 DEF ReportsInv

\* A job is reused for the same report, and a conflict is another kind of work.
LEMMA FindJobInv ==
  ASSUME ReportsInv, NEW r \in Requests, FindJob(r)
  PROVE  ReportsInv'
<1> USE DEF FindJob, Goto, Fail, Rollback, Reuse, Submitted, Matches, Sees, request, rows, Truthy
<1>1. TypeOK'
  BY DEF ReportsInv, TypeOK, Phases, Running, Errors, RowState
<1>2. Unique(report)'
  BY DEF ReportsInv, TypeOK, Unique
<1>3. Unique(job)'
  BY DEF ReportsInv, TypeOK, Unique
<1>4. KeysAgree'
  BY DEF ReportsInv, TypeOK, KeysAgree
<1>5. OwnRows'
  BY DEF ReportsInv, TypeOK, OwnRows
<1>6. Working'
  BY ReportsAssumption DEF ReportsInv, TypeOK, Working, Running
<1>7. Recovering'
  BY DEF ReportsInv, TypeOK, Recovering
<1>8. Pairs'
  BY DEF ReportsInv, TypeOK, Pairs
<1>9. RacesRecover'
  BY DEF ReportsInv, TypeOK, RacesRecover, KeysAgree, Pairs, OwnRows, Working, Unique, Kinds,
         RowState
<1> QED
  BY <1>1, <1>2, <1>3, <1>4, <1>5, <1>6, <1>7, <1>8, <1>9 DEF ReportsInv

LEMMA InsertJobInv ==
  ASSUME ReportsInv, NEW r \in Requests, InsertJob(r)
  PROVE  ReportsInv'
<1> USE DEF InsertJob, Goto, Submitted, Free, Entries, request, Truthy
<1>1. TypeOK'
  BY DEF ReportsInv, TypeOK, Phases, Running, RowState
<1>2. Unique(report)'
  BY DEF ReportsInv, Unique
<1>3. Unique(job)'
  BY DEF ReportsInv, Unique
<1>4. KeysAgree'
  BY DEF ReportsInv, KeysAgree
<1>5. OwnRows'
  BY DEF ReportsInv, TypeOK, OwnRows
<1>6. Working'
  BY ReportsAssumption DEF ReportsInv, TypeOK, Working, OwnRows, Sees
<1>7. Recovering'
  BY DEF ReportsInv, Recovering, OwnRows
<1>8. Pairs'
  BY DEF ReportsInv, TypeOK, Pairs, OwnRows, Working, Kinds
<1>9. RacesRecover'
  BY DEF ReportsInv, RacesRecover, OwnRows
<1> QED
  BY <1>1, <1>2, <1>3, <1>4, <1>5, <1>6, <1>7, <1>8, <1>9 DEF ReportsInv

LEMMA JobKeyTakenInv ==
  ASSUME ReportsInv, NEW r \in Requests, JobKeyTaken(r)
  PROVE  ReportsInv'
<1> USE DEF JobKeyTaken, Goto, Fail, Rollback, Violated, Entries, request, rows, Truthy
<1>1. TypeOK'
  BY DEF ReportsInv, TypeOK, Phases, Running, Errors, RowState
<1>2. Unique(report)'
  BY DEF ReportsInv, TypeOK, Unique
<1>3. Unique(job)'
  BY DEF ReportsInv, TypeOK, Unique
<1>4. KeysAgree'
  BY DEF ReportsInv, TypeOK, KeysAgree
<1>5. OwnRows'
  BY DEF ReportsInv, TypeOK, OwnRows
<1>6. Working'
  BY DEF ReportsInv, TypeOK, Working, Sees, Running
<1>7. Recovering'
  BY DEF ReportsInv, TypeOK, Recovering
<1>8. Pairs'
  BY DEF ReportsInv, TypeOK, Pairs
<1>9. RacesRecover'
  BY DEF ReportsInv, TypeOK, RacesRecover
<1> QED
  BY <1>1, <1>2, <1>3, <1>4, <1>5, <1>6, <1>7, <1>8, <1>9 DEF ReportsInv

LEMMA RereadJobInv ==
  ASSUME ReportsInv, NEW r \in Requests, RereadJob(r)
  PROVE  ReportsInv'
<1> USE DEF RereadJob, Goto, Fail, Rollback, Reuse, Submitted, Matches, Sees, request, rows, Truthy
<1>1. TypeOK'
  BY DEF ReportsInv, TypeOK, Phases, Running, Errors, RowState
<1>2. Unique(report)'
  BY DEF ReportsInv, TypeOK, Unique
<1>3. Unique(job)'
  BY DEF ReportsInv, TypeOK, Unique
<1>4. KeysAgree'
  BY DEF ReportsInv, TypeOK, KeysAgree
<1>5. OwnRows'
  BY DEF ReportsInv, TypeOK, OwnRows
<1>6. Working'
  BY ReportsAssumption DEF ReportsInv, TypeOK, Working, Running
<1>7. Recovering'
  BY DEF ReportsInv, TypeOK, Recovering
<1>8. Pairs'
  BY DEF ReportsInv, TypeOK, Pairs
<1>9. RacesRecover'
  BY DEF ReportsInv, TypeOK, RacesRecover, Recovering, KeysAgree, Pairs, Working, Unique, Kinds
<1> QED
  BY <1>1, <1>2, <1>3, <1>4, <1>5, <1>6, <1>7, <1>8, <1>9 DEF ReportsInv

\* The report is the request's own, or committed with the very job it submits.
LEMMA AttachInv ==
  ASSUME ReportsInv, NEW r \in Requests, Attach(r)
  PROVE  ReportsInv'
<1> USE DEF Attach, Goto, Fail, Rollback, Sees, request, rows, Truthy
<1>1. TypeOK'
  BY DEF ReportsInv, TypeOK, Phases, Running, Errors, RowState
<1>2. Unique(report)'
  BY DEF ReportsInv, TypeOK, Unique
<1>3. Unique(job)'
  BY DEF ReportsInv, TypeOK, Unique
<1>4. KeysAgree'
  BY DEF ReportsInv, TypeOK, KeysAgree
<1>5. OwnRows'
  BY DEF ReportsInv, TypeOK, OwnRows
<1>6. Working'
  BY DEF ReportsInv, TypeOK, Working, Running
<1>7. Recovering'
  BY DEF ReportsInv, TypeOK, Recovering
<1>8. Pairs'
  BY DEF ReportsInv, TypeOK, Pairs
<1>9. RacesRecover'
  BY DEF ReportsInv, TypeOK, RacesRecover, KeysAgree, Pairs, Working, Unique, Kinds
<1> QED
  BY <1>1, <1>2, <1>3, <1>4, <1>5, <1>6, <1>7, <1>8, <1>9 DEF ReportsInv

\* The end of a transaction: either it inserted both rows, or neither.
LEMMA ExitInv ==
  ASSUME ReportsInv, NEW r \in Requests, Exit(r)
  PROVE  ReportsInv'
<1> USE DEF Exit, Goto, Rollback, Commit, request, Truthy
<1>1. TypeOK'
  BY DEF ReportsInv, TypeOK, Phases, RowState
<1>2. Unique(report)'
  BY DEF ReportsInv, TypeOK, Unique
<1>3. Unique(job)'
  BY DEF ReportsInv, TypeOK, Unique
<1>4. KeysAgree'
  BY DEF ReportsInv, TypeOK, KeysAgree
<1>5. OwnRows'
  BY DEF ReportsInv, TypeOK, OwnRows
<1>6. Working'
  BY DEF ReportsInv, TypeOK, Working, Sees, Running
<1>7. Recovering'
  BY DEF ReportsInv, TypeOK, Recovering
<1>8. Pairs'
  <2> HIDE DEF Commit, Rollback
  <2>1. CASE caller[r] # "enters"
    BY <2>1 DEF Rollback, ReportsInv, TypeOK, RowState, Pairs, OwnRows
  <2>2. CASE caller[r] = "enters" /\ taken[r] = None
    <3>1. pc[r] = "exit" /\ found[r] # None /\ report[found[r]] = "committed"
      BY <2>2, ReportsAssumption DEF ReportsInv, TypeOK, Working
    <3>2. report[r] # "committed" /\ job[r] # "committed" /\ job[r] # "inserted"
      BY <2>2, <3>1, ReportsAssumption DEF ReportsInv, OwnRows
    <3>3. report[r] # "inserted"
      BY <3>1, <3>2 DEF ReportsInv, OwnRows
    <3>4. reportJob[found[r]] # None
      BY <3>1, ReportsAssumption DEF ReportsInv, TypeOK, Pairs
    <3>5. UNCHANGED <<report, job, jobReport, kind>>
      BY <2>2, <3>2, <3>3 DEF Commit, ReportsInv, TypeOK
    <3>6. \A x \in Requests : reportJob'[x] = reportJob[x] /\ events'[x] = events[x]
      BY <2>2, <3>4, ReportsAssumption DEF Commit, ReportsInv, TypeOK
    <3> QED
      BY <3>5, <3>6 DEF ReportsInv, Pairs
  <2>3. CASE caller[r] = "enters" /\ kind[r] = "submit_job"
    <3>1. pc[r] = "exit" /\ found[r] = None
      BY <2>3 DEF ReportsInv, Working
    <3>2. report[r] # "inserted"
      BY <3>1, ReportsAssumption DEF ReportsInv, OwnRows
    <3>3. /\ UNCHANGED <<report, jobReport, kind>>
          /\ \A x \in Requests : reportJob'[x] = reportJob[x]
      <4>1. Commit(r) /\ UNCHANGED kind
        BY <2>3
      <4>2. report \in [Requests -> RowState] /\ None \notin Requests
        BY ReportsAssumption DEF ReportsInv, TypeOK
      <4>3. UNCHANGED <<report, jobReport>>
        BY <3>2, <4>1, <4>2 DEF Commit
      <4>4. \A x \in Requests : reportJob'[x] = reportJob[x]
        BY <3>1, <4>1, <4>2 DEF Commit
      <4> QED
        BY <4>1, <4>3, <4>4
    <3>4. report[r] # "committed" /\ job[r] # "committed"
      BY <3>1 DEF ReportsInv, OwnRows
    <3>5. job[r] = "inserted" => taken[r] = r
      BY DEF ReportsInv, OwnRows
    <3> QED
      BY <2>3, <3>3, <3>4, <3>5 DEF Commit, ReportsInv, TypeOK, RowState, Pairs
  <2>4. CASE caller[r] = "enters" /\ kind[r] = "create_report" /\ found[r] = r /\ taken[r] # None
    <3>1. pc[r] = "exit" /\ report[r] # "committed" /\ job[r] # "committed"
      BY DEF ReportsInv, OwnRows
    <3>2. report[r] = "inserted" /\ Sees(job, r, taken[r]) /\ jobReport[taken[r]] = r
      BY <2>4, <3>1 DEF ReportsInv, TypeOK, RowState, Working, Sees
    <3>3. taken[r] = r /\ job[r] = "inserted"
      BY <2>4, <3>1, <3>2, ReportsAssumption DEF ReportsInv, TypeOK, RowState, Sees, Pairs
    <3>4. reportJob[r] = None
      BY <3>1 DEF ReportsInv, Pairs
    <3>5. /\ report' = [report EXCEPT ![r] = "committed"]
          /\ job' = [job EXCEPT ![r] = "committed"]
          /\ UNCHANGED <<jobReport, kind>>
      BY <2>4, <3>2, <3>3 DEF Commit
    <3>6. reportJob' = [reportJob EXCEPT ![r] = r] /\ events' = [events EXCEPT ![r] = @ + 1]
      BY <2>4, <3>2, <3>3, <3>4 DEF Commit, ReportsInv, TypeOK
    <3> QED
      BY <3>2, <3>3, <3>5, <3>6 DEF ReportsInv, TypeOK, Pairs
  <2>5. CASE caller[r] = "enters" /\ kind[r] = "create_report" /\ found[r] # r /\ taken[r] # None
    <3>1. pc[r] = "exit" /\ found[r] \in Requests /\ report[found[r]] = "committed"
      BY <2>5 DEF ReportsInv, TypeOK, Working, Sees
    <3>2. job[found[r]] = "committed" /\ reportJob[found[r]] = found[r]
      BY <3>1 DEF ReportsInv, Pairs
    <3>3. key[found[r]] = key[r] /\ key[r] # NoKey
      BY <2>5, <3>1, ReportsAssumption DEF ReportsInv, KeysAgree, Truthy
    <3>4. job[r] = "absent"
      BY <2>5, <3>1, <3>2, <3>3 DEF ReportsInv, Unique
    <3>5. report[r] # "inserted"
      BY <2>5 DEF ReportsInv, OwnRows
    <3>6. UNCHANGED <<report, job, jobReport, kind>>
      BY <2>5, <3>4, <3>5 DEF Commit, ReportsInv, TypeOK
    <3>7. \A x \in Requests : reportJob'[x] = reportJob[x]
      BY <2>5, <3>1, <3>2, ReportsAssumption DEF Commit, ReportsInv, TypeOK
    <3> QED
      BY <2>5, <3>6, <3>7 DEF Commit, ReportsInv, TypeOK, Pairs
  <2> QED
    BY <2>1, <2>2, <2>3, <2>4, <2>5 DEF ReportsInv, TypeOK, Kinds
<1>9. RacesRecover'
  BY DEF ReportsInv, TypeOK, RacesRecover
<1> QED
  BY <1>1, <1>2, <1>3, <1>4, <1>5, <1>6, <1>7, <1>8, <1>9 DEF ReportsInv

LEMMA AbortInv ==
  ASSUME ReportsInv, NEW r \in Requests, Abort(r)
  PROVE  ReportsInv'
<1> USE DEF Abort, Goto, Fail, Rollback, request, Truthy
<1>1. TypeOK'
  BY DEF ReportsInv, TypeOK, Phases, Errors, RowState
<1>2. Unique(report)'
  BY DEF ReportsInv, Unique
<1>3. Unique(job)'
  BY DEF ReportsInv, Unique
<1>4. KeysAgree'
  BY DEF ReportsInv, KeysAgree
<1>5. OwnRows'
  BY DEF ReportsInv, TypeOK, OwnRows, Running
<1>6. Working'
  BY DEF ReportsInv, TypeOK, Working, Sees, Running
<1>7. Recovering'
  BY DEF ReportsInv, Recovering
<1>8. Pairs'
  BY DEF ReportsInv, Pairs
<1>9. RacesRecover'
  BY DEF ReportsInv, RacesRecover
<1> QED
  BY <1>1, <1>2, <1>3, <1>4, <1>5, <1>6, <1>7, <1>8, <1>9 DEF ReportsInv

LEMMA ReportsStep ==
  ASSUME ReportsInv, [Next]_vars
  PROVE  ReportsInv'
<1>1. CASE UNCHANGED vars
  BY <1>1 DEF vars, request, rows, ReportsInv, TypeOK, Unique, KeysAgree, OwnRows, Working,
              Recovering, Pairs, RacesRecover, Sees
<1>2. ASSUME NEW r \in Requests, RequestStep(r)
      PROVE  ReportsInv'
  BY <1>2, FindReportInv, InsertReportInv, ReportKeyTakenInv, RereadReportInv, FindJobInv,
     InsertJobInv, JobKeyTakenInv, RereadJobInv, AttachInv, ExitInv DEF RequestStep
<1> QED
  BY <1>1, <1>2, ArriveInv, AbortInv DEF Next

LEMMA ReportsInit == Init => ReportsInv
<1> SUFFICES ASSUME Init PROVE ReportsInv
  OBVIOUS
<1>1. TypeOK
  BY DEF Init, TypeOK, Kinds, Phases, RowState
<1>2. Unique(report) /\ Unique(job) /\ KeysAgree /\ OwnRows /\ Working
  BY DEF Init, Unique, KeysAgree, OwnRows, Working, Running
<1>3. Recovering /\ Pairs /\ RacesRecover
  BY DEF Init, Recovering, Pairs, RacesRecover
<1> QED
  BY <1>1, <1>2, <1>3 DEF ReportsInv

LEMMA ReportsInvariant == Spec => []ReportsInv
  BY ReportsInit, ReportsStep, PTL DEF Spec

-----------------------------------------------------------------------------
(* What the invariant means.                                               *)

\* Type correctness, with uncommitted rows only of requests that are running.
THEOREM ReportsTyped == Spec => []TypeOK
<1>1. ReportsInv => TypeOK
  BY DEF ReportsInv
<1> QED
  BY <1>1, ReportsInvariant, PTL

\* Reports and jobs of reports are committed in pairs that name each other, whichever
\* callers commit: ReportNotFound cannot reach an executor.
THEOREM ReportsPaired == Spec => []ReportsHaveJobs
<1>1. ReportsInv => ReportsHaveJobs
  <2> SUFFICES ASSUME Pairs, NEW x \in Requests
               PROVE  /\ report[x] = "committed" =>
                           /\ reportJob[x] # None
                           /\ job[reportJob[x]] = "committed" /\ jobReport[reportJob[x]] = x
                      /\ job[x] = "committed" =>
                           /\ events[x] > 0
                           /\ jobReport[x] # None =>
                                /\ report[jobReport[x]] = "committed"
                                /\ reportJob[jobReport[x]] = x
    BY DEF ReportsInv, ReportsHaveJobs
  <2>1. x # None
    BY ReportsAssumption
  <2>2. report[x] = "committed" =>
          reportJob[x] = x /\ job[x] = "committed" /\ jobReport[x] = x
    BY DEF Pairs
  <2>3. job[x] = "committed" =>
          /\ events[x] > 0
          /\ jobReport[x] # None => jobReport[x] = x /\ report[x] = "committed"
    BY DEF Pairs
  <2> QED
    BY <2>1, <2>2, <2>3
<1> QED
  BY <1>1, ReportsInvariant, PTL

\* No interleaving of requests under a true key makes one of them fail with an
\* IntegrityError, ReportNotFound or ReportJobAlreadyAttached.
THEOREM RacesAlwaysRecover == Spec => []RacesRecover
<1>1. ReportsInv => RacesRecover
  BY DEF ReportsInv
<1> QED
  BY <1>1, ReportsInvariant, PTL

-----------------------------------------------------------------------------
(* Answers last, but for what a request inserted without a commit.         *)

\* What AnswersDurable says of one request.
Answered(r) ==
  /\ kind[r] = "create_report" =>
       /\ found[r] # None
       /\ Kept(r, found[r]) => report[found[r]] = "committed" /\ reportJob[found[r]] # None
  /\ taken[r] # None /\ Kept(r, taken[r]) =>
       job[taken[r]] = "committed" /\ events[taken[r]] > 0

AnswersInv == ReportsInv /\ AnswersDurable

\* The answer of a request whose caller commits.
LEMMA CommittedAnswer ==
  ASSUME ReportsInv, NEW r \in Requests, Exit(r), caller[r] = "enters"
  PROVE  Answered(r)'
<1>1. /\ kind'[r] = "create_report" =>
           /\ found'[r] # None
           /\ report'[found'[r]] = "committed"
           /\ reportJob'[found'[r]] # None
      /\ taken'[r] # None => job'[taken'[r]] = "committed" /\ events'[taken'[r]] > 0
  BY ReportsAssumption
  DEF Exit, Commit, Goto, request, ReportsInv, TypeOK, RowState, OwnRows, Working, Sees, Pairs
<1> QED
  BY <1>1 DEF Answered

\* The answer of a request whose session rolls back: what others have inserted stays.
LEMMA RolledBackAnswer ==
  ASSUME ReportsInv, NEW r \in Requests, Exit(r), caller[r] # "enters"
  PROVE  Answered(r)'
<1>1. /\ pc[r] = "exit" /\ Rollback(r) /\ UNCHANGED <<kind, found, taken, caller>>
  BY DEF Exit, request
<1>2. \A x \in Requests : x # r => report'[x] = report[x] /\ job'[x] = job[x]
  BY <1>1 DEF Rollback, ReportsInv, TypeOK
<1>3. UNCHANGED <<reportJob, events>>
  BY <1>1 DEF Rollback
<1>4. found[r] \in Requests \cup {None} /\ taken[r] \in Requests \cup {None}
  BY DEF ReportsInv, TypeOK
<1>5. kind[r] = "create_report" => found[r] # None /\ Sees(report, r, found[r])
  BY <1>1 DEF ReportsInv, Working
<1>6. taken[r] # None => Sees(job, r, taken[r])
  BY <1>1 DEF ReportsInv, Working
<1>7. ASSUME kind[r] = "create_report", found[r] # r
      PROVE  report'[found[r]] = "committed" /\ reportJob'[found[r]] # None
  <2>1. found[r] \in Requests /\ report[found[r]] = "committed"
    BY <1>4, <1>5, <1>7 DEF Sees
  <2>2. reportJob[found[r]] # None
    BY <2>1, ReportsAssumption DEF ReportsInv, Pairs
  <2> QED
    BY <1>2, <1>3, <1>7, <2>1, <2>2
<1>8. ASSUME taken[r] # None, taken[r] # r
      PROVE  job'[taken[r]] = "committed" /\ events'[taken[r]] > 0
  <2>1. taken[r] \in Requests /\ job[taken[r]] = "committed"
    BY <1>4, <1>6, <1>8 DEF Sees
  <2>2. events[taken[r]] > 0
    BY <2>1 DEF ReportsInv, Pairs
  <2> QED
    BY <1>2, <1>3, <1>8, <2>1, <2>2
<1> QED
  BY <1>1, <1>5, <1>7, <1>8 DEF Answered, Kept

\* What was answered stays when nothing that is committed is taken back.
LEMMA AnswersFrame ==
  ASSUME ReportsInv, AnswersDurable, NEW q \in Requests, pc[q] = "returned",
         kind'[q] = kind[q], found'[q] = found[q], taken'[q] = taken[q],
         caller'[q] = caller[q],
         \A x \in Requests :
           /\ report[x] = "committed" => report'[x] = "committed"
           /\ reportJob[x] # None => reportJob'[x] # None
           /\ job[x] = "committed" => job'[x] = "committed"
           /\ events[x] > 0 => events'[x] > 0
  PROVE  Answered(q)'
<1>1. Answered(q)
  BY DEF AnswersDurable, Answered
<1>2. found[q] \in Requests \cup {None} /\ taken[q] \in Requests \cup {None}
  BY DEF ReportsInv, TypeOK
<1>3. ASSUME kind[q] = "create_report", Kept(q, found[q])
      PROVE  report'[found[q]] = "committed" /\ reportJob'[found[q]] # None
  BY <1>1, <1>2, <1>3 DEF Answered
<1>4. ASSUME taken[q] # None, Kept(q, taken[q])
      PROVE  job'[taken[q]] = "committed" /\ events'[taken[q]] > 0
  BY <1>1, <1>2, <1>4 DEF Answered
<1>5. kind[q] = "create_report" => found[q] # None
  BY <1>1 DEF Answered
<1> QED
  BY <1>3, <1>4, <1>5 DEF Answered, Kept

LEMMA AnswersStep ==
  ASSUME AnswersInv, [Next]_vars
  PROVE  AnswersInv'
<1>1. ReportsInv /\ ReportsInv' /\ AnswersDurable
  BY ReportsStep DEF AnswersInv
<1>2. ASSUME NEW r \in Requests, Exit(r)
      PROVE  AnswersDurable'
  <2>1. ASSUME NEW q \in Requests \ {r}, pc[q] = "returned"
        PROVE  Answered(q)'
    <3>1. UNCHANGED <<kind, found, taken, caller>>
      BY <1>2 DEF Exit, request
    <3>2. ASSUME NEW x \in Requests
          PROVE  /\ report[x] = "committed" => report'[x] = "committed"
                 /\ reportJob[x] # None => reportJob'[x] # None
                 /\ job[x] = "committed" => job'[x] = "committed"
                 /\ events[x] > 0 => events'[x] > 0
      BY <1>1, <1>2 DEF Exit, Commit, Rollback, ReportsInv, TypeOK
    <3> QED
      BY <1>1, <2>1, <3>1, <3>2, AnswersFrame
  <2>2. Answered(r)'
    BY <1>1, <1>2, CommittedAnswer, RolledBackAnswer
  <2>3. \A q \in Requests : pc'[q] = "returned" => q = r \/ pc[q] = "returned"
    BY <1>1, <1>2 DEF Exit, Goto, ReportsInv, TypeOK
  <2> QED
    BY <2>1, <2>2, <2>3 DEF AnswersDurable, Answered
<1>3. ASSUME \A q \in Requests : pc'[q] = "returned" => pc[q] = "returned",
             UNCHANGED <<reportJob, events>>,
             \A q \in Requests : pc[q] = "returned" =>
               /\ kind'[q] = kind[q] /\ found'[q] = found[q] /\ taken'[q] = taken[q]
               /\ caller'[q] = caller[q],
             \A x \in Requests :
               /\ report[x] = "committed" => report'[x] = "committed"
               /\ job[x] = "committed" => job'[x] = "committed"
      PROVE  AnswersDurable'
  <2>1. ASSUME NEW q \in Requests, pc'[q] = "returned"
        PROVE  Answered(q)'
    BY <1>1, <1>3, <2>1, AnswersFrame
  <2> QED
    BY <2>1 DEF AnswersDurable, Answered
<1>4. CASE UNCHANGED vars
  <2>1. UNCHANGED <<kind, caller, pc, found, taken, report, reportJob, job, events>>
    BY <1>4 DEF vars, request, rows
  <2>2. AnswersDurable'
    BY <1>1, <2>1 DEF AnswersDurable, Kept
  <2> QED
    BY <1>1, <2>2 DEF AnswersInv
<1>5. ASSUME NEW r \in Requests, Arrive(r)
      PROVE  AnswersDurable'
  BY <1>1, <1>3, <1>5 DEF Arrive, Goto, rows, ReportsInv, TypeOK
<1>6. ASSUME NEW r \in Requests, NEW error \in Errors, pc[r] # "returned", Fail(r, error)
      PROVE  AnswersDurable'
  BY <1>1, <1>3, <1>6 DEF Fail, Goto, Rollback, request, Errors, ReportsInv, TypeOK
<1>7. ASSUME NEW r \in Requests, FindReport(r) \/ InsertReport(r)
      PROVE  AnswersDurable'
  <2>1. CASE FindReport(r)
    BY <1>1, <1>3, <2>1 DEF FindReport, Goto, request, rows, ReportsInv, TypeOK
  <2>2. CASE InsertReport(r)
    BY <1>1, <1>3, <2>2 DEF InsertReport, Goto, request, ReportsInv, TypeOK, OwnRows
  <2> QED
    BY <1>7, <2>1, <2>2
<1>8. ASSUME NEW r \in Requests, ReportKeyTaken(r) \/ JobKeyTaken(r) \/ Attach(r) \/ Abort(r)
      PROVE  AnswersDurable'
  BY <1>1, <1>3, <1>6, <1>8
  DEF ReportKeyTaken, JobKeyTaken, Attach, Abort, Goto, request, rows, Errors, Running,
      ReportsInv, TypeOK
<1>9. ASSUME NEW r \in Requests, RereadReport(r)
      PROVE  AnswersDurable'
  BY <1>1, <1>3, <1>6, <1>9 DEF RereadReport, Goto, request, rows, Errors, ReportsInv, TypeOK
<1>10. ASSUME NEW r \in Requests, NEW j \in Requests, pc[r] # "returned", Reuse(r, j)
       PROVE  AnswersDurable'
  BY <1>1, <1>3, <1>6, <1>10
  DEF Reuse, Submitted, Goto, request, rows, Errors, ReportsInv, TypeOK
<1>11. ASSUME NEW r \in Requests, FindJob(r) \/ RereadJob(r)
       PROVE  AnswersDurable'
  BY <1>1, <1>3, <1>6, <1>10, <1>11
  DEF FindJob, RereadJob, Matches, Goto, request, rows, Errors, ReportsInv, TypeOK
<1>12. ASSUME NEW r \in Requests, InsertJob(r)
       PROVE  AnswersDurable'
  BY <1>1, <1>3, <1>12
  DEF InsertJob, Free, Submitted, Goto, request, ReportsInv, TypeOK, OwnRows
<1> QED
  BY <1>1, <1>2, <1>4, <1>5, <1>7, <1>8, <1>9, <1>11, <1>12 DEF AnswersInv, Next, RequestStep

\* Whoever is answered with a report or a job finds it in the database, unless it inserted
\* it itself and nobody committed; for any mixture of callers.
THEOREM AnswersLast == Spec => []AnswersDurable
<1>1. Init => AnswersInv
  BY ReportsInit DEF Init, AnswersInv, AnswersDurable
<1>2. AnswersInv /\ [Next]_vars => AnswersInv'
  BY AnswersStep
<1>3. AnswersInv => AnswersDurable
  BY DEF AnswersInv
<1> QED
  BY <1>1, <1>2, <1>3, PTL DEF Spec

\* Answers under one true key that last name one report and one job, for any mixture of
\* callers.
THEOREM AnswersAgree == Spec => []SameKeySameAnswer
<1>1. ASSUME ReportsInv, AnswersDurable
      PROVE  SameKeySameAnswer
  <2> SUFFICES ASSUME NEW r \in Requests, NEW s \in Requests,
                      pc[r] = "returned", pc[s] = "returned", key[r] = key[s], Truthy(key[r])
               PROVE  /\ /\ kind[r] = "create_report" /\ kind[s] = "create_report"
                         /\ Kept(r, found[r]) /\ Kept(s, found[s])
                         => found[r] = found[s]
                      /\ /\ kind[r] = kind[s] /\ taken[r] # None /\ taken[s] # None
                         /\ Kept(r, taken[r]) /\ Kept(s, taken[s])
                         => taken[r] = taken[s]
    BY DEF SameKeySameAnswer
  <2>1. /\ found[r] \in Requests \cup {None} /\ found[s] \in Requests \cup {None}
        /\ taken[r] \in Requests \cup {None} /\ taken[s] \in Requests \cup {None}
    BY <1>1 DEF ReportsInv, TypeOK
  <2>2. /\ found[r] # None => key[found[r]] = key[r]
        /\ found[s] # None => key[found[s]] = key[r]
        /\ taken[r] # None => key[taken[r]] = key[r]
        /\ taken[s] # None => key[taken[s]] = key[r]
    BY <1>1 DEF ReportsInv, KeysAgree
  <2>3. key[r] # NoKey
    BY DEF Truthy
  <2>4. ASSUME kind[r] = "create_report", kind[s] = "create_report",
               Kept(r, found[r]), Kept(s, found[s])
        PROVE  found[r] = found[s]
    <3>1. /\ found[r] # None /\ report[found[r]] = "committed"
          /\ found[s] # None /\ report[found[s]] = "committed"
      BY <1>1, <2>4 DEF AnswersDurable
    <3> QED
      BY <1>1, <2>1, <2>2, <2>3, <3>1 DEF ReportsInv, Unique
  <2>5. ASSUME taken[r] # None, taken[s] # None, Kept(r, taken[r]), Kept(s, taken[s])
        PROVE  taken[r] = taken[s]
    <3>1. job[taken[r]] = "committed" /\ job[taken[s]] = "committed"
      BY <1>1, <2>5 DEF AnswersDurable
    <3> QED
      BY <1>1, <2>1, <2>2, <2>3, <2>5, <3>1 DEF ReportsInv, Unique
  <2> QED
    BY <2>4, <2>5
<1> QED
  BY <1>1, AnswersLast, ReportsInvariant, PTL

-----------------------------------------------------------------------------
(* Waiting.  A transaction waits where the statement it is at needs an       *)
(* index entry or a row that another one holds uncommitted.                  *)

\* How far a running request is.
Stage(phase) ==
  CASE phase = "find_report"   -> 1
    [] phase = "insert_report" -> 2
    [] phase = "reread_report" -> 3
    [] phase = "find_job"      -> 4
    [] phase = "insert_job"    -> 5
    [] phase = "reread_job"    -> 6
    [] phase = "attach"        -> 7
    [] phase = "exit"          -> 8
    [] OTHER                   -> 9

UnderWay(r) == pc[r] \in Running \cup {"find_report"}

\* r waits for the transaction of x.
WaitsFor(r, x) ==
  \/ pc[r] = "insert_report" /\ ~Violated(report, r) /\ x \in Entries(report, r)
  \/ pc[r] = "insert_job" /\ ~Violated(job, r) /\ x \in Entries(job, r)
  \/ pc[r] = "attach" /\ pc[x] = "exit" /\ found[x] = found[r] /\ taken[x] # None

\* The guards of RequestStep.
CanGoOn(r) ==
  /\ UnderWay(r)
  /\ pc[r] = "insert_report" => Free(report, r) \/ Violated(report, r)
  /\ pc[r] = "insert_job" => Free(job, r) \/ Violated(job, r)
  /\ pc[r] = "attach" => ~LockedReport(found[r])

LEMMA WaitsForward ==
  ASSUME ReportsInv, NEW r \in Requests, NEW x \in Requests, WaitsFor(r, x)
  PROVE  UnderWay(x) /\ Stage(pc[r]) < Stage(pc[x])
<1>1. CASE pc[r] = "insert_report" /\ ~Violated(report, r) /\ x \in Entries(report, r)
  <2>1. report[x] = "inserted"
    BY <1>1 DEF Violated, Entries, ReportsInv, TypeOK, RowState
  <2>2. pc[x] \in {"find_job", "insert_job", "reread_job", "attach", "exit"}
    BY <2>1 DEF ReportsInv, OwnRows
  <2> QED
    BY <1>1, <2>2 DEF Stage, UnderWay, Running
<1>2. CASE pc[r] = "insert_job" /\ ~Violated(job, r) /\ x \in Entries(job, r)
  <2>1. job[x] = "inserted"
    BY <1>2 DEF Violated, Entries, ReportsInv, TypeOK, RowState
  <2>2. pc[x] \in {"attach", "exit"}
    BY <2>1 DEF ReportsInv, OwnRows
  <2> QED
    BY <1>2, <2>2 DEF Stage, UnderWay, Running
<1>3. CASE pc[r] = "attach" /\ pc[x] = "exit"
  BY <1>3 DEF Stage, UnderWay, Running
<1> QED
  BY <1>1, <1>2, <1>3 DEF WaitsFor

\* No deadlock among requests: who waits for another's uncommitted row or row lock is
\* always behind it in the one order in which a request takes them (its entry in the
\* index of reports, its entry in the index of jobs, the lock of its report), whatever
\* the keys, kinds and errors, so that no circle of waits can close.
THEOREM WaitsAreOrdered ==
  Spec => [](\A r, x \in Requests :
               WaitsFor(r, x) => UnderWay(x) /\ Stage(pc[r]) < Stage(pc[x]))
<1>1. ReportsInv => \A r, x \in Requests :
                      WaitsFor(r, x) => UnderWay(x) /\ Stage(pc[r]) < Stage(pc[x])
  BY WaitsForward
<1> QED
  BY <1>1, ReportsInvariant, PTL

LEMMA WaitsForSomebody ==
  ASSUME ReportsInv, NEW r \in Requests, UnderWay(r), ~CanGoOn(r)
  PROVE  \E x \in Requests : WaitsFor(r, x)
<1>1. CASE pc[r] = "insert_report" /\ ~Free(report, r) /\ ~Violated(report, r)
  BY <1>1 DEF Free, WaitsFor, Entries
<1>2. CASE pc[r] = "insert_job" /\ ~Free(job, r) /\ ~Violated(job, r)
  BY <1>2 DEF Free, WaitsFor, Entries
<1>3. CASE pc[r] = "attach" /\ LockedReport(found[r])
  BY <1>3 DEF LockedReport, WaitsFor
<1> QED
  BY <1>1, <1>2, <1>3 DEF CanGoOn

\* As long as requests are under way, one of them can execute its next statement: with
\* the steps of a request bounded by its stages, this is what EventuallyAnswered rests
\* on, for any number of requests and keys.
THEOREM SomeRequestGoesOn ==
  Spec => []((\E r \in Requests : UnderWay(r)) => \E r \in Requests : CanGoOn(r))
<1>1. ASSUME ReportsInv, NEW r \in Requests, UnderWay(r), \A x \in Requests : ~CanGoOn(x)
      PROVE  FALSE
  <2>1. ASSUME NEW x \in Requests, UnderWay(x)
        PROVE  \E y \in Requests : WaitsFor(x, y) /\ UnderWay(y) /\ Stage(pc[x]) < Stage(pc[y])
    BY <1>1, <2>1, WaitsForSomebody, WaitsForward
  <2>2. \A x \in Requests : pc[x] # "exit"
    BY <1>1 DEF CanGoOn, UnderWay, Running
  <2>3. \A x \in Requests : pc[x] # "attach"
    BY <2>1, <2>2 DEF WaitsFor, UnderWay, Running
  <2>4. \A x \in Requests : pc[x] # "insert_job"
    <3>1. ASSUME NEW x \in Requests, pc[x] = "insert_job" PROVE FALSE
      <4>1. PICK y \in Requests : WaitsFor(x, y)
        BY <2>1, <3>1 DEF UnderWay, Running
      <4>2. job[y] = "inserted"
        BY <1>1, <3>1, <4>1 DEF WaitsFor, Violated, Entries, ReportsInv, TypeOK, RowState
      <4> QED
        BY <1>1, <2>2, <2>3, <4>2 DEF ReportsInv, OwnRows
    <3> QED
      BY <3>1
  <2>5. pc[r] = "insert_report"
    BY <1>1, <2>1, <2>2, <2>3, <2>4 DEF WaitsFor
  <2>6. PICK y \in Requests : WaitsFor(r, y)
    BY <1>1, <2>1
  <2>7. report[y] = "inserted"
    BY <1>1, <2>5, <2>6 DEF WaitsFor, Violated, Entries, ReportsInv, TypeOK, RowState
  <2>8. pc[y] \in {"find_job", "reread_job"}
    BY <1>1, <2>2, <2>3, <2>4, <2>7 DEF ReportsInv, OwnRows
  <2>9. CanGoOn(y)
    BY <2>8 DEF CanGoOn, UnderWay, Running
  <2> QED
    BY <1>1, <2>9
<1>2. ReportsInv => ((\E r \in Requests : UnderWay(r)) => \E r \in Requests : CanGoOn(r))
  BY <1>1
<1> QED
  BY <1>2, ReportsInvariant, PTL
=============================================================================
