------------------------------ MODULE DlqPages ------------------------------
(***************************************************************************)
(* GET /jobs/dlq: an operator walks the dead-letter queue page by page,    *)
(* with the id of the last job of a page as the cursor of the next         *)
(* (list_by_status, src/jobs/repository.py), while jobs die, are retried   *)
(* and die again between two pages.                                        *)
(*                                                                         *)
(* created_at and id of a job never change and no job is ever deleted, so  *)
(* that reading the cursor's row and selecting the page is one step.       *)
(***************************************************************************)
EXTENDS Integers, FiniteSets

CONSTANTS
  Jobs,       \* job ids, in the order PostgreSQL compares them
  CreatedAt,  \* CreatedAt[j]: jobs.created_at, which need not be unique
  MaxLimit,   \* the largest page the route allows
  NoJob       \* no cursor, or one that names no job

ASSUME DlqAssumption ==
  /\ Jobs \subseteq Int
  /\ IsFiniteSet(Jobs)
  /\ CreatedAt \in [Jobs -> Int]
  /\ MaxLimit \in Nat \ {0}
  /\ NoJob \notin Jobs

VARIABLES
  dead,      \* the jobs whose committed status is DEAD
  pc,        \* the operator is "idle", "walking" or has seen the "end"
  cursor,    \* the cursor of the next request
  listed,    \* the jobs listed in this walk
  repeated,  \* the jobs listed twice in this walk
  stayed     \* the jobs that have been DEAD since this walk began

walk == <<pc, cursor, listed, repeated, stayed>>
vars == <<dead, walk>>

\* ORDER BY created_at DESC, id DESC, which is also what the cursor is compared with.
Before(i, j) ==
  \/ CreatedAt[i] > CreatedAt[j]
  \/ CreatedAt[i] = CreatedAt[j] /\ i > j

\* Mutants: the cursor is looked up among the DEAD jobs; ties in created_at are skipped.
MatchingDeadCursor == {j \in dead : cursor \in dead => Before(cursor, j)}
MatchingByTime == {j \in dead : cursor # NoJob => CreatedAt[cursor] > CreatedAt[j]}

\* The rows the statement selects, before LIMIT.  A cursor is looked up by id,
\* whatever has become of its job; one that names no job is left out.
Matching == {j \in dead : cursor # NoJob => Before(cursor, j)}

\* The first `limit` of them (a set of one page, or of none if there is none).
Pages(limit) ==
  {page \in SUBSET Matching :
     /\ \A j \in page, i \in Matching \ page : Before(j, i)
     /\ Cardinality(page) = limit \/ (page = Matching /\ Cardinality(page) < limit)}

\* "Job id of the last item from the previous page." (a set of one)
NextCursors(page) == {j \in page : \A i \in page \ {j} : Before(i, j)}

Init ==
  /\ dead \in SUBSET Jobs
  /\ pc = "idle"
  /\ cursor = NoJob
  /\ listed = {}
  /\ repeated = {}
  /\ stayed = {}

-----------------------------------------------------------------------------
\* Some attempt of j ends in the DLQ.
Die(j) ==
  /\ j \notin dead
  /\ dead' = dead \cup {j}
  /\ UNCHANGED walk

\* retry_from_dlq.
Retry(j) ==
  /\ j \in dead
  /\ dead' = dead \ {j}
  /\ stayed' = stayed \ {j}
  /\ UNCHANGED <<pc, cursor, listed, repeated>>

\* The operator begins at the first page.
StartWalk ==
  /\ pc # "walking"
  /\ pc' = "walking"
  /\ cursor' = NoJob
  /\ listed' = {}
  /\ repeated' = {}
  /\ stayed' = dead
  /\ UNCHANGED dead

\* One request; a page shorter than its limit is the last.
NextPage ==
  /\ pc = "walking"
  /\ \E limit \in 1..MaxLimit : \E page \in Pages(limit) :
       /\ listed' = listed \cup page
       /\ repeated' = repeated \cup (listed \cap page)
       /\ IF Cardinality(page) < limit
            THEN pc' = "end" /\ UNCHANGED cursor
            ELSE cursor' \in NextCursors(page) /\ UNCHANGED pc
  /\ UNCHANGED <<dead, stayed>>

Next ==
  \/ \E j \in Jobs : Die(j) \/ Retry(j)
  \/ StartWalk
  \/ NextPage

\* The operator asks for the next page as long as there is one.
Spec == Init /\ [][Next]_vars /\ WF_vars(NextPage)

-----------------------------------------------------------------------------
\* The type invariant.
TypeOK ==
  /\ dead \in SUBSET Jobs
  /\ pc \in {"idle", "walking", "end"}
  /\ cursor \in Jobs \cup {NoJob}
  /\ listed \in SUBSET Jobs
  /\ repeated \in SUBSET listed
  /\ stayed \in SUBSET dead

\* No job is listed twice in a walk, although the job the cursor names may have left
\* the DLQ and jobs may leave and come back on either side of it.
ListedOnce == repeated = {}

\* A job that is DEAD throughout the walk is not skipped: it is listed, or still
\* ahead of the cursor; when the walk ends, it was listed.
NoneSkipped ==
  \A j \in stayed :
    \/ j \in listed
    \/ pc = "walking" /\ (cursor # NoJob => Before(cursor, j))

\* A walk ends, however many jobs die in the meantime.
WalkEnds == pc = "walking" ~> pc = "end"
=============================================================================
