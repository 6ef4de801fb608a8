----------------------------- MODULE Migrations -----------------------------
(***************************************************************************)
(* Start-up of the API containers: "alembic upgrade head", each container  *)
(* for itself, then uvicorn, whose start waits for the database            *)
(* (src/db/utils.py); and an operator's "alembic downgrade".  The three    *)
(* revisions under alembic/versions run statement by statement, all of a   *)
(* run in one transaction (alembic/env.py), against PostgreSQL's           *)
(* transactional DDL: a table that an open transaction changed is locked.  *)
(*                                                                         *)
(* A revision is a number, in the order of down_revision, 0 being base.    *)
(* The columns, indexes and constraints of a table come and go with it.    *)
(***************************************************************************)
EXTENDS Integers, Sequences

CONSTANTS
  Deployers,      \* containers and shells that run alembic
  Rows,           \* rows of jobs
  SessionOffset,  \* offset from UTC of the sessions' TimeZone
  MaxAttempts,    \* wait_for_db's max_attempts
  MaxDowngrades,  \* bound: downgrades that are started
  MaxCrashes      \* bound: runs that die

ASSUME MigrationsAssumption ==
  /\ SessionOffset \in Int
  /\ MaxAttempts \in Nat \ {0}
  /\ MaxDowngrades \in Nat
  /\ MaxCrashes \in Nat

VARIABLES
  version,     \* the committed alembic_version
  tables,      \* the committed tables
  status,      \* status[r]: the committed status of a row of jobs, or "absent"
  pc,
  goal,        \* goal[d]: the revision d's run is to end at
  seen,        \* seen[d]: the version it found
  at,          \* at[d]: the revision its transaction has reached
  todo,        \* todo[d]: what the revision under way has still to change
  held,        \* held[d]: what its transaction has changed and so locked
  draft,       \* draft[d]: the tables it holds as they will be
  tries,       \* tries[d]: connections wait_for_db has tried in vain
  downgrades,
  crashes

transaction == <<goal, seen, at, todo, held, draft>>
vars == <<version, tables, status, pc, transaction, tries, downgrades, crashes>>

Latest == 3
Tables == {"jobs", "outbox_events", "reports", "job_attempts"}

\* What a statement changes: a table, rows of jobs, or the foreign key of job_attempts,
\* which DROP TABLE takes from jobs.
Targets == Tables \cup {"rows", "key"}
JobStatus == {"pending", "running", "completed", "dead"}
Labels == JobStatus \cup {"failed"}
Phases == {"idle", "step", "stamp", "waiting", "serving", "exited"}
Running == {"step", "stamp", "waiting"}

\* The labels of a table's status type (none: there is no such type; of the other tables
\* only that matters), whether created_at and updated_at are with time zone, and how far
\* they have come from the instants that were written.
TableStates == [exists : BOOLEAN, labels : SUBSET Labels, zoned : BOOLEAN, shift : Int]

\* create_table, with its CREATE TYPE.
Created(t) ==
  [exists |-> TRUE, labels |-> Labels, zoned |-> t = "job_attempts", shift |-> 0]

\* drop_table.  The type stays behind.
Dropped(s) == [s EXCEPT !.exists = FALSE]

\* Mutant: no USING clause, so that the old values are taken for the session's local time.
WithZoneOfSession(s) == [s EXCEPT !.zoned = TRUE, !.shift = @ - SessionOffset]

\* ALTER COLUMN ... USING ... AT TIME ZONE 'UTC', right unless it was done before.
WithZone(s) ==
  [s EXCEPT !.zoned = TRUE, !.shift = IF s.zoned THEN @ - SessionOffset ELSE @]

WithoutZone(s) ==
  [s EXCEPT !.zoned = FALSE, !.shift = IF s.zoned THEN @ ELSE @ + SessionOffset]

\* The new job_status type takes the old one's place.
Relabelled(s, up) == [s EXCEPT !.labels = IF up THEN JobStatus ELSE Labels]

\* A table of a database that went straight to a revision.
TableAt(revision, t) ==
  IF revision = 0 THEN [Created(t) EXCEPT !.exists = FALSE, !.labels = {}]
  ELSE [Created(t) EXCEPT
          !.zoned = t = "job_attempts" \/ revision >= 2,
          !.labels = IF t = "jobs" /\ revision = 3 THEN JobStatus ELSE Labels]

SchemaAt(revision) == [t \in Tables |-> TableAt(revision, t)]

\* What upgrade() and downgrade() of each revision change, in their order.  (Where the key
\* is created the run has created jobs itself, which nobody else sees.)
UpgradeOrder ==
  << <<"jobs", "outbox_events", "reports", "job_attempts">>,
     <<"jobs", "outbox_events", "reports">>,
     <<"rows", "jobs">> >>

DowngradeOrder ==
  << <<"job_attempts", "key", "reports", "outbox_events", "jobs">>,
     <<"reports", "outbox_events", "jobs">>,
     <<"jobs">> >>

Order(from, to) ==
  CASE from < to -> UpgradeOrder[from + 1]
    [] from > to -> DowngradeOrder[from]
    [] from = to -> <<>>

Up(d) == at[d] < goal[d]
Revision(d) == IF Up(d) THEN at[d] + 1 ELSE at[d]

\* A table as d's transaction sees it.
View(d, t) == IF t \in held[d] THEN draft[d][t] ELSE tables[t]

Changed(d, t) ==
  LET s == View(d, t) IN
  CASE Revision(d) = 1 -> IF Up(d) THEN Created(t) ELSE Dropped(s)
    [] Revision(d) = 2 -> IF Up(d) THEN WithZone(s) ELSE WithoutZone(s)
    [] Revision(d) = 3 -> Relabelled(s, Up(d))

\* Mutants: the UPDATE has no WHERE; there is no UPDATE.
UpdatedAll == [r \in Rows |-> IF status[r] = "absent" THEN "absent" ELSE "dead"]
UpdatedNone == status

\* UPDATE jobs SET status = 'dead' WHERE status = 'failed'.
Updated == [r \in Rows |-> IF status[r] = "failed" THEN "dead" ELSE status[r]]

\* The rows as d's transaction sees them.
RowsOf(d) ==
  IF ~View(d, "jobs").exists THEN [r \in Rows |-> "absent"]
  ELSE IF "rows" \in held[d] THEN Updated ELSE status

\* The statement does not raise: what it creates is not there, what it changes is (the key
\* goes with its table), and the rows fit the new type.
Accepted(d, what) ==
  CASE what = "key" -> TRUE
    [] what = "rows" -> View(d, "jobs").exists
    [] what \in Tables /\ Up(d) /\ Revision(d) = 1 ->
         ~View(d, what).exists /\ View(d, what).labels = {}
    [] OTHER ->
         /\ View(d, what).exists
         /\ what = "jobs" /\ Up(d) /\ Revision(d) = 3 =>
              \A r \in Rows : RowsOf(d)[r] # "failed"

\* A statement on a waits for a transaction that has changed b: DDL of one table, its rows
\* or its key, and the UPDATE of rows that another UPDATE has met.
Conflict(a, b) ==
  \/ a = b /\ a # "rows"
  \/ a # b /\ {a, b} \subseteq {"jobs", "rows", "key"}
  \/ a = "rows" /\ b = "rows" /\ \E r \in Rows : status[r] = "failed"

\* Whose locks d's next statement waits for.
Blockers(d) ==
  {e \in Deployers \ {d} : pc[d] = "step" /\ \E b \in held[e] : Conflict(Head(todo[d]), b)}

Deadlocked(d) == \E e \in Blockers(d) : d \in Blockers(e)

Init ==
  /\ version \in 0..Latest
  /\ tables = SchemaAt(version)
  /\ status \in [Rows -> Labels \cup {"absent"}]
  /\ \A r \in Rows : status[r] # "absent" =>
       tables["jobs"].exists /\ status[r] \in tables["jobs"].labels
  /\ pc = [d \in Deployers |-> "idle"]
  /\ goal = [d \in Deployers |-> 0]
  /\ seen = [d \in Deployers |-> 0]
  /\ at = [d \in Deployers |-> 0]
  /\ todo = [d \in Deployers |-> <<>>]
  /\ held = [d \in Deployers |-> {}]
  /\ draft = [d \in Deployers |-> tables]
  /\ tries = [d \in Deployers |-> 0]
  /\ downgrades = 0
  /\ crashes = 0

-----------------------------------------------------------------------------
\* alembic reads the version it finds, without a lock, and plans its run.
Begin(d, target) ==
  /\ pc[d] \in {"idle", "serving", "exited"}
  /\ goal' = [goal EXCEPT ![d] = target]
  /\ seen' = [seen EXCEPT ![d] = version]
  /\ at' = [at EXCEPT ![d] = version]
  /\ todo' = [todo EXCEPT ![d] = Order(version, target)]
  /\ pc' = [pc EXCEPT ![d] = IF version = target THEN "waiting" ELSE "step"]
  /\ tries' = [tries EXCEPT ![d] = 0]
  /\ UNCHANGED <<version, tables, status, held, draft, crashes>>

\* A container starts, or is started again.
Upgrade(d) ==
  /\ Begin(d, Latest)
  /\ UNCHANGED downgrades

Downgrade(d, target) ==
  /\ target < version
  /\ downgrades < MaxDowngrades
  /\ downgrades' = downgrades + 1
  /\ Begin(d, target)

\* The next statement of upgrade() or downgrade(), once it has its lock.
Step(d) ==
  LET what == Head(todo[d]) IN
  /\ pc[d] = "step"
  /\ Blockers(d) = {}
  /\ Accepted(d, what)
  /\ held' = [held EXCEPT ![d] = @ \cup {what}]
  /\ draft' = IF what \in Tables THEN [draft EXCEPT ![d][what] = Changed(d, what)]
              ELSE draft
  /\ todo' = [todo EXCEPT ![d] = Tail(@)]
  /\ pc' = [pc EXCEPT ![d] = IF Len(todo[d]) = 1 THEN "stamp" ELSE "step"]
  /\ UNCHANGED <<version, tables, status, goal, seen, at, tries, downgrades, crashes>>

\* The transaction is over and its locks are released.
Release(d) ==
  /\ held' = [held EXCEPT ![d] = {}]
  /\ todo' = [todo EXCEPT ![d] = <<>>]
  /\ UNCHANGED <<goal, seen, draft, downgrades>>

\* Any error rolls the whole run back and ends the container: alembic && uvicorn.
RollBack(d) ==
  /\ Release(d)
  /\ pc' = [pc EXCEPT ![d] = "exited"]
  /\ UNCHANGED <<version, tables, status, at, tries>>

\* The statement raises.
StepRaises(d) ==
  /\ pc[d] = "step"
  /\ Blockers(d) = {}
  /\ ~Accepted(d, Head(todo[d]))
  /\ RollBack(d)
  /\ UNCHANGED crashes

\* PostgreSQL finds two runs waiting for each other and ends one of them.
BreakDeadlock(d) ==
  /\ Deadlocked(d)
  /\ RollBack(d)
  /\ UNCHANGED crashes

\* Mutant: the version is written whatever it was.
VersionAsReadUnchecked(d) == TRUE

\* UPDATE alembic_version SET ... WHERE version_num = <what was read> finds its row.
VersionAsRead(d) == version = seen[d]

\* The version of the revision that is done goes into the transaction; after the last
\* one it commits.
Stamp(d) ==
  LET reached == IF Up(d) THEN at[d] + 1 ELSE at[d] - 1 IN
  /\ pc[d] = "stamp"
  /\ VersionAsRead(d)
  /\ at' = [at EXCEPT ![d] = reached]
  /\ IF reached # goal[d]
       THEN /\ todo' = [todo EXCEPT ![d] = Order(reached, goal[d])]
            /\ pc' = [pc EXCEPT ![d] = "step"]
            /\ UNCHANGED <<version, tables, status, goal, seen, held, draft, downgrades>>
       ELSE /\ version' = reached
            /\ tables' = [t \in Tables |-> View(d, t)]
            /\ status' = RowsOf(d)
            /\ pc' = [pc EXCEPT ![d] = IF reached = Latest THEN "waiting" ELSE "idle"]
            /\ Release(d)
  /\ UNCHANGED <<tries, crashes>>

\* "Online migration expected to match one row, 0 found".
StampRaises(d) ==
  /\ pc[d] = "stamp"
  /\ ~VersionAsRead(d)
  /\ RollBack(d)
  /\ UNCHANGED crashes

\* The process dies or its connection breaks, at any statement or at its COMMIT.
Crash(d) ==
  /\ pc[d] \in {"step", "stamp"}
  /\ crashes < MaxCrashes
  /\ crashes' = crashes + 1
  /\ RollBack(d)

\* lifespan: the database answers, and the API serves.
Serve(d) ==
  /\ pc[d] = "waiting"
  /\ pc' = [pc EXCEPT ![d] = "serving"]
  /\ UNCHANGED <<version, tables, status, transaction, tries, downgrades, crashes>>

\* Mutant: it tries for ever.
KeepWaiting(d) ==
  /\ pc[d] = "waiting"
  /\ tries' = [tries EXCEPT ![d] = IF @ + 1 = MaxAttempts THEN 0 ELSE @ + 1]
  /\ UNCHANGED <<version, tables, status, transaction, pc, downgrades, crashes>>

\* Mutant: one attempt too many.
WaitOnceMore(d) ==
  /\ pc[d] = "waiting"
  /\ tries' = [tries EXCEPT ![d] = @ + 1]
  /\ pc' = [pc EXCEPT ![d] = IF tries[d] = MaxAttempts THEN "exited" ELSE "waiting"]
  /\ UNCHANGED <<version, tables, status, transaction, downgrades, crashes>>

\* wait_for_db: it does not answer; after max_attempts that is an error.
KeepTrying(d) ==
  /\ pc[d] = "waiting"
  /\ tries' = [tries EXCEPT ![d] = @ + 1]
  /\ pc' = [pc EXCEPT ![d] = IF tries[d] + 1 = MaxAttempts THEN "exited" ELSE "waiting"]
  /\ UNCHANGED <<version, tables, status, transaction, downgrades, crashes>>

-----------------------------------------------------------------------------
DeployerStep(d) ==
  \/ Step(d)
  \/ StepRaises(d)
  \/ BreakDeadlock(d)
  \/ Stamp(d)
  \/ StampRaises(d)
  \/ Serve(d)
  \/ KeepTrying(d)

Next ==
  \E d \in Deployers :
    \/ Upgrade(d)
    \/ \E target \in 0..Latest : Downgrade(d, target)
    \/ DeployerStep(d)
    \/ Crash(d)

\* A run that was started goes on; PostgreSQL looks for deadlocks.
Spec == Init /\ [][Next]_vars /\ \A d \in Deployers : WF_vars(DeployerStep(d))

-----------------------------------------------------------------------------
\* The type invariant.
TypeOK ==
  /\ version \in 0..Latest
  /\ tables \in [Tables -> TableStates]
  /\ status \in [Rows -> Labels \cup {"absent"}]
  /\ pc \in [Deployers -> Phases]
  /\ goal \in [Deployers -> 0..Latest]
  /\ seen \in [Deployers -> 0..Latest]
  /\ at \in [Deployers -> 0..Latest]
  /\ todo \in [Deployers -> Seq(Targets)]
  /\ held \in [Deployers -> SUBSET Targets]
  /\ draft \in [Deployers -> [Tables -> TableStates]]
  /\ tries \in [Deployers -> 0..MaxAttempts]
  /\ downgrades \in Nat
  /\ crashes \in Nat

\* Whatever runs raced, failed or died, the committed schema is the one its version
\* names, but for types that a downgrade to base left behind.
SchemaMatchesVersion ==
  \A t \in Tables :
    IF version = 0
      THEN ~tables[t].exists
      ELSE [tables[t] EXCEPT !.shift = 0] = TableAt(version, t)

\* No timestamp is moved by a migration, in whatever zone the sessions are: racing runs
\* do convert a column twice, and are rolled back.
InstantsPreserved == \A t \in Tables : tables[t].exists => tables[t].shift = 0

\* Rows keep their status, except that FAILED becomes DEAD on the way to the latest
\* revision, and are lost only on the way to base.
StatusesPreserved ==
  [][\A r \in Rows : status'[r] # status[r] =>
       \/ version' = 0
       \/ status[r] = "failed" /\ status'[r] = "dead" /\ version' = Latest]_vars

\* A run that nobody kills fails only for one of three reasons: another run committed or
\* holds what it waits for, or base was left with its types, so that CREATE TYPE raises.
\* That is among runs of alembic: transactions of the API and of the workers, which may
\* also meet a run in a deadlock, are not modelled.
FailuresExplained ==
  [][\A d \in Deployers : pc[d] \in {"step", "stamp"} /\ pc'[d] = "exited" =>
       \/ crashes' # crashes
       \/ version # seen[d]
       \/ Deadlocked(d)
       \/ version = 0 /\ \E t \in Tables : tables[t].labels # {}]_vars

\* Each start comes to an end: runs that wait for each other's locks do not wait for
\* ever, nor does the wait for the database.
RunsEnd == \A d \in Deployers : pc[d] \in Running ~> pc[d] \notin Running
=============================================================================
