----------------------------- MODULE MCReports -----------------------------
(* Small instances of Reports for TLC, with a statement of the             *)
(* documentation that the code does not keep.                              *)
EXTENDS Reports

\* architecture.md:138-139: the request ends with a commit of the report row, the
\* job row and the event, so that a report that was returned is in the database.
ReturnedReportCommitted ==
  \A r \in Requests :
    pc[r] = "returned" /\ kind[r] = "create_report" => report[found[r]] = "committed"
=============================================================================
