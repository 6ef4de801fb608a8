------------------------------- MODULE Outbox -------------------------------
(***************************************************************************)
(* The outbox publisher, statement by statement: publish_pending_events    *)
(* and _publish_single_event (src/outbox/service.py) over the rows of      *)
(* outbox_events, their row locks and the broker.  Celery beat starts a    *)
(* tick every two seconds, whether or not the last one is over, so that    *)
(* several publishers may be at work (Publishers).                         *)
(*                                                                         *)
(* A dispatch that raises makes the publisher roll back, which gives up    *)
(* the row lock, read the event again WITHOUT the lock (service.py:239)    *)
(* and then write the failure: those are three steps here.                 *)
(***************************************************************************)
EXTENDS Integers, FiniteSets, Backoff

CONSTANTS
  NumEvents,          \* bound: events that are ever recorded
  Unsupported,        \* the events whose event_type has no dispatch handler
  Publishers,         \* overlapping runs of publish_job_dispatch_events
  MaxPublishRetries,  \* outbox.config.MAX_PUBLISH_RETRIES
  BatchLimit,         \* outbox.config.OUTBOX_PUBLISH_BATCH_LIMIT
  BackoffBase,        \* outbox.config.OUTBOX_PUBLISH_BACKOFF_BASE_SECONDS
  BackoffCap,         \* outbox.config.OUTBOX_PUBLISH_BACKOFF_CAP_SECONDS
  MaxCrashes          \* bound: publishers that die, or whose commit fails

\* Event ids in the order of (created_at, id).
Events == 1..NumEvents

ASSUME OutboxAssumption ==
  /\ NumEvents \in Nat
  /\ Unsupported \subseteq Events
  /\ IsFiniteSet(Publishers) /\ Publishers # {}
  /\ MaxPublishRetries \in Nat
  /\ BatchLimit \in Nat \ {0}
  /\ \A n \in 1..MaxPublishRetries : MaxDelay(BackoffBase, BackoffCap, n) \in Nat
  /\ MaxCrashes \in Nat

VARIABLES
  row,      \* row[e]: the committed status, retry_count and time to next_attempt_at
  sent,     \* sent[e]: how often the broker accepted e's message
  tries,    \* tries[e]: how often the dispatch of e raised
  early,    \* early[e]: how often e was dispatched inside its back-off
  pc,       \* pc[p]: where publisher p is
  batch,    \* batch[p]: the ids collected and not yet looked at
  full,     \* full[p]: the last batch had BatchLimit ids
  event,    \* event[p]: the id p works on
  snap,     \* snap[p]: that row as p read it after its rollback
  crashes

publisher == <<pc, batch, full, event, snap>>
history == <<sent, tries, early>>
vars == <<row, history, publisher, crashes>>

OutboxStatus == {"pending", "published", "failed"}
Rows == [status : OutboxStatus \cup {"absent"}, retries : Nat, wait : Nat]
NoRow == [status |-> "absent", retries |-> 0, wait |-> 0]
Phases == {"idle", "collect", "next", "locked", "sent", "raised", "refetched"}

\* Mutant: events are read without FOR UPDATE.
NeverLocked(e) == FALSE

\* An open transaction holds the row lock of its event.
LockedEvent(e) == \E p \in Publishers : pc[p] \in {"locked", "sent"} /\ event[p] = e

\* get_pending_batch_ids: PENDING, due, not locked; the oldest BatchLimit of them.
\* (First two mutants: the back-off is ignored; retried events are never picked up.)
CollectableAnyTime == {e \in Events : row[e].status = "pending" /\ ~LockedEvent(e)}
CollectableOnce == {e \in CollectableAnyTime : row[e].wait = 0 /\ row[e].retries = 0}
Collectable == {e \in Events : row[e].status = "pending" /\ row[e].wait = 0 /\ ~LockedEvent(e)}
Oldest(S) == {e \in S : Cardinality({d \in S : d < e}) < BatchLimit}

\* update_event, on the row it has loaded.
Updated(r, status) == [r EXCEPT !.status = status, !.wait = 0]

\* schedule_retry with a count, and any delay that backoff_delay_seconds may draw.
Rescheduled(count, exponent) ==
  {[status |-> "pending", retries |-> count, wait |-> w] :
     w \in Delays(BackoffBase, BackoffCap, exponent)}

\* Mutants: the failure is counted down; given up one try early; the delay is that of the
\* next failure.
AfterFailureCountsDown(r) == Rescheduled(r.retries - 1, r.retries)
AfterFailureEarly(r) ==
  IF r.retries + 1 >= MaxPublishRetries
    THEN {Updated(r, "failed")}
    ELSE Rescheduled(r.retries + 1, r.retries + 1)
AfterFailureLater(r) ==
  IF r.retries + 1 > MaxPublishRetries
    THEN {Updated(r, "failed")}
    ELSE Rescheduled(r.retries + 1, r.retries + 2)

\* _decide_publish_failure, then update_event or schedule_retry.  Its first branch, FAILED
\* at once for a terminal error, is not taken by any execution: is_terminal_publish_error
\* recognises UnsupportedOutboxEventType alone, which nothing raises, and an event without
\* a handler never gets as far as a dispatch (FailUnsupported).
AfterFailure(r) ==
  IF r.retries + 1 > MaxPublishRetries
    THEN {Updated(r, "failed")}
    ELSE Rescheduled(r.retries + 1, r.retries + 1)

\* The ORM writes the columns that changed since it loaded the row, and only them.
FlushDirty(current, loaded, new) ==
  [status |-> IF new.status = loaded.status THEN current.status ELSE new.status,
   retries |-> IF new.retries = loaded.retries THEN current.retries ELSE new.retries,
   wait |-> new.wait]

\* History: e is being dispatched, and its next_attempt_at is still to come.
CountEarly(e) == early' = [early EXCEPT ![e] = IF row[e].wait > 0 THEN @ + 1 ELSE @]

Goto(p, phase) == pc' = [pc EXCEPT ![p] = phase]

Init ==
  /\ row = [e \in Events |-> NoRow]
  /\ sent = [e \in Events |-> 0]
  /\ tries = [e \in Events |-> 0]
  /\ early = [e \in Events |-> 0]
  /\ pc = [p \in Publishers |-> "idle"]
  /\ batch = [p \in Publishers |-> {}]
  /\ full = [p \in Publishers |-> FALSE]
  /\ event = [p \in Publishers |-> 0]
  /\ snap = [p \in Publishers |-> NoRow]
  /\ crashes = 0

-----------------------------------------------------------------------------
\* create_event, committed with its caller's transaction.
CreateEvent(e) ==
  /\ row[e].status = "absent"
  /\ \A d \in Events : d < e => row[d].status # "absent"
  /\ row' = [row EXCEPT ![e].status = "pending"]
  /\ UNCHANGED <<history, publisher, crashes>>

\* Time passes.
Tick ==
  /\ \E e \in Events : row[e].wait > 0
  /\ row' = [e \in Events |-> [row[e] EXCEPT !.wait = IF @ > 0 THEN @ - 1 ELSE 0]]
  /\ UNCHANGED <<history, publisher, crashes>>

StartTick(p) ==
  /\ pc[p] = "idle"
  /\ Goto(p, "collect")
  /\ UNCHANGED <<row, history, batch, full, event, snap, crashes>>

\* Phase 1: the ids are collected, and the commit gives their locks up again.
Collect(p) ==
  LET ids == Oldest(Collectable) IN
  /\ pc[p] = "collect"
  /\ batch' = [batch EXCEPT ![p] = ids]
  /\ full' = [full EXCEPT ![p] = Cardinality(ids) = BatchLimit]
  /\ Goto(p, IF ids = {} THEN "idle" ELSE "next")
  /\ UNCHANGED <<row, history, event, snap, crashes>>

\* Mutant: the status is not looked at again.
ClaimUnchecked(p) ==
  /\ pc[p] = "next"
  /\ \E e \in batch[p] :
       /\ \A d \in batch[p] : e <= d
       /\ ~LockedEvent(e)
       /\ batch' = [batch EXCEPT ![p] = @ \ {e}]
       /\ Goto(p, "locked")
       /\ event' = [event EXCEPT ![p] = e]
  /\ UNCHANGED <<row, history, full, snap, crashes>>

\* Phase 2: lock the next row and look whether it is still PENDING.
Claim(p) ==
  /\ pc[p] = "next"
  /\ \E e \in batch[p] :
       /\ \A d \in batch[p] : e <= d
       /\ ~LockedEvent(e)
       /\ batch' = [batch EXCEPT ![p] = @ \ {e}]
       /\ IF row[e].status = "pending"
            THEN Goto(p, "locked") /\ event' = [event EXCEPT ![p] = e]
            ELSE UNCHANGED <<pc, event>>
  /\ UNCHANGED <<row, history, full, snap, crashes>>

\* The batch is done: loop at once after a full one, else wait for the next tick.
EndBatch(p) ==
  /\ pc[p] = "next"
  /\ batch[p] = {}
  /\ Goto(p, IF full[p] THEN "collect" ELSE "idle")
  /\ UNCHANGED <<row, history, batch, full, event, snap, crashes>>

\* _handle_unsupported_event, and the commit.
FailUnsupported(p) ==
  /\ pc[p] = "locked"
  /\ event[p] \in Unsupported
  /\ row' = [row EXCEPT ![event[p]] = Updated(@, "failed")]
  /\ Goto(p, "next")
  /\ UNCHANGED <<history, batch, full, event, snap, crashes>>

\* The broker accepts the message; PUBLISHED is written but not committed.
Dispatch(p) ==
  /\ pc[p] = "locked"
  /\ event[p] \notin Unsupported
  /\ sent' = [sent EXCEPT ![event[p]] = @ + 1]
  /\ CountEarly(event[p])
  /\ Goto(p, "sent")
  /\ UNCHANGED <<row, tries, batch, full, event, snap, crashes>>

\* Mutant: the outcome is not written.
CommitUnmarked(p) ==
  /\ pc[p] = "sent"
  /\ Goto(p, "next")
  /\ UNCHANGED <<row, history, batch, full, event, snap, crashes>>

CommitPublished(p) ==
  /\ pc[p] = "sent"
  /\ row' = [row EXCEPT ![event[p]] = Updated(@, "published")]
  /\ Goto(p, "next")
  /\ UNCHANGED <<history, batch, full, event, snap, crashes>>

\* dispatch_job raises (the broker may have the message all the same), or it
\* returns and writing PUBLISHED raises.  The rollback releases the row lock.
Raise(p) ==
  /\ pc[p] = "locked"
  /\ event[p] \notin Unsupported
  /\ \E accepted \in {0, 1} : sent' = [sent EXCEPT ![event[p]] = @ + accepted]
  /\ tries' = [tries EXCEPT ![event[p]] = @ + 1]
  /\ CountEarly(event[p])
  /\ Goto(p, "raised")
  /\ UNCHANGED <<row, batch, full, event, snap, crashes>>

\* get_event: a plain SELECT in a new transaction.
Refetch(p) ==
  /\ pc[p] = "raised"
  /\ snap' = [snap EXCEPT ![p] = row[event[p]]]
  /\ Goto(p, "refetched")
  /\ UNCHANGED <<row, history, batch, full, event, crashes>>

\* _handle_publish_failure on what was read, the UPDATE (which waits for the row
\* lock) and the commit.
RecordFailure(p) ==
  /\ pc[p] = "refetched"
  /\ ~LockedEvent(event[p])
  /\ \E new \in AfterFailure(snap[p]) :
       row' = [row EXCEPT ![event[p]] = FlushDirty(@, snap[p], new)]
  /\ snap' = [snap EXCEPT ![p] = NoRow]
  /\ Goto(p, "next")
  /\ UNCHANGED <<history, batch, full, event, crashes>>

\* The process dies, or a commit raises out of the task: the tick is over and its
\* open transaction is rolled back.
Crash(p) ==
  /\ crashes < MaxCrashes
  /\ crashes' = crashes + 1
  /\ pc[p] # "idle"
  /\ Goto(p, "idle")
  /\ batch' = [batch EXCEPT ![p] = {}]
  /\ snap' = [snap EXCEPT ![p] = NoRow]
  /\ UNCHANGED <<row, history, full, event>>

-----------------------------------------------------------------------------
PublisherStep(p) ==
  \/ StartTick(p)
  \/ Collect(p)
  \/ Claim(p)
  \/ EndBatch(p)
  \/ FailUnsupported(p)
  \/ Dispatch(p)
  \/ CommitPublished(p)
  \/ Raise(p)
  \/ Refetch(p)
  \/ RecordFailure(p)

Next ==
  \/ \E e \in Events : CreateEvent(e)
  \/ Tick
  \/ \E p \in Publishers : PublisherStep(p) \/ Crash(p)

Spec == Init /\ [][Next]_vars

\* Beat keeps starting ticks, a tick that can go on does, and time passes.
Fairness ==
  /\ \A p \in Publishers : WF_vars(PublisherStep(p))
  /\ WF_vars(Tick)

FairSpec == Spec /\ Fairness

-----------------------------------------------------------------------------
\* The type invariant.
TypeOK ==
  /\ row \in [Events -> Rows]
  /\ sent \in [Events -> Nat]
  /\ tries \in [Events -> Nat]
  /\ early \in [Events -> Nat]
  /\ pc \in [Publishers -> Phases]
  /\ batch \in [Publishers -> SUBSET Events]
  /\ full \in [Publishers -> BOOLEAN]
  /\ event \in [Publishers -> Events \cup {0}]
  /\ snap \in [Publishers -> Rows]
  /\ crashes \in Nat

\* The row lock of phase 2 and its status check keep two publishers from having
\* one event in hand, and what they have in hand is PENDING.
ClaimsExclusive ==
  \A p \in Publishers : pc[p] \in {"locked", "sent"} =>
    /\ row[event[p]].status = "pending"
    /\ \A q \in Publishers :
         pc[q] \in {"locked", "sent"} /\ event[q] = event[p] => q = p

\* An event is given up only after MAX_PUBLISH_RETRIES + 1 dispatches of it raised,
\* however publishers overlap: increments get lost, they are never invented.
FailedAfterBudget ==
  \A e \in Events \ Unsupported :
    /\ row[e].retries <= MaxPublishRetries
    /\ row[e].retries <= tries[e]
    /\ row[e].status = "failed" => tries[e] > MaxPublishRetries

\* An event never waits longer than its recorded retries account for, also when one
\* publisher overwrites what another rescheduled: the delay is drawn from the count that
\* is written with it, and doubles from the base to the cap.
WaitsBounded ==
  \A e \in Events :
    row[e].wait <= IF row[e].retries = 0 THEN 0
                   ELSE MaxDelay(BackoffBase, BackoffCap, row[e].retries)

\* Messages are paid for, however publishers overlap: by a dispatch that raised (twice,
\* as its publisher may also reopen an event that another has published meanwhile), by a
\* crash, or by the outcome.  The outbox does not duplicate without a fault.
DispatchesAccounted ==
  \A e \in Events : sent[e] <= 2 * tries[e] + crashes + 1

\* Phase 2 looks at the status again and not at next_attempt_at, so that an id collected
\* before another publisher rescheduled the event is dispatched inside its back-off.  That
\* happens at most once per failure and other publisher, whatever the batches hold.
EarlyDispatchesBounded ==
  \A e \in Events : early[e] <= (Cardinality(Publishers) - 1) * tries[e]

\* The outcome of an event, once committed as PUBLISHED, stays (service.py:286).
PublishedDurable ==
  [][\A e \in Events : row[e].status = "published" => row'[e].status = "published"]_vars

\* The publishers whose dispatch of e raised and who have not written the failure yet.
InFlight(e) == {p \in Publishers : pc[p] \in {"raised", "refetched"} /\ event[p] = e}

\* The outbox implements its contract, however publishers overlap.
Contract == INSTANCE OutboxContract WITH
  Hands <- Cardinality(Publishers),
  status <- [e \in Events |-> row[e].status],
  doubts <- [e \in Events |-> Cardinality(InFlight(e))]

ImplementsContract == Contract!Spec

\* Every recorded event comes to an outcome: no event stays PENDING for ever,
\* whatever the order of failures, back-offs, full batches and crashed ticks.
EventuallyDecided ==
  \A e \in Events : row[e].status = "pending" ~> row[e].status \in {"published", "failed"}
=============================================================================
