---------------------------- MODULE JobLifecycle ----------------------------
(***************************************************************************)
(* What the pipeline promises about a job to whoever reads its row and its *)
(* attempt history (src/jobs/enums.py, models.py): a status, and a ledger  *)
(* of attempts that only grows at its end.  There are no queues, workers,  *)
(* locks or crashes here; JobPipeline is shown to implement this module.   *)
(***************************************************************************)
EXTENDS Naturals, Sequences

CONSTANT Jobs

VARIABLES
  status,  \* status[j]: "absent" or a JobStatus
  ledger   \* ledger[j]: the statuses of the job's attempts, oldest first

vars == <<status, ledger>>

\* What a job may become when an attempt ends the way it did.
Results ==
  {<<"succeeded", "completed">>, <<"failed", "pending">>, <<"failed", "dead">>,
   <<"running", "running">>}

Init ==
  /\ status = [j \in Jobs |-> "absent"]
  /\ ledger = [j \in Jobs |-> <<>>]

Accept(j) ==
  /\ status[j] = "absent"
  /\ status' = [status EXCEPT ![j] = "pending"]
  /\ UNCHANGED ledger

\* A whole attempt is one step: it starts from an open job, appends its row and
\* decides the job's status.  No earlier row changes.
Attempt(j, result) ==
  /\ status[j] \in {"pending", "running"}
  /\ status' = [status EXCEPT ![j] = result[2]]
  /\ ledger' = [ledger EXCEPT ![j] = Append(@, result[1])]

\* An operator sends a dead job back.
Rerun(j) ==
  /\ status[j] = "dead"
  /\ status' = [status EXCEPT ![j] = "pending"]
  /\ UNCHANGED ledger

\* The sweeper sends back some jobs whose outcome was never recorded.
Reset(J) ==
  /\ \A j \in J : status[j] = "running"
  /\ status' = [j \in Jobs |-> IF j \in J THEN "pending" ELSE status[j]]
  /\ UNCHANGED ledger

Next ==
  \/ \E j \in Jobs : Accept(j) \/ Rerun(j)
  \/ \E j \in Jobs, result \in Results : Attempt(j, result)
  \/ \E J \in SUBSET Jobs : Reset(J)

Spec == Init /\ [][Next]_vars
=============================================================================
