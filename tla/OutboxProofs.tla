---------------------------- MODULE OutboxProofs ----------------------------
(***************************************************************************)
(* Proofs about Outbox: for any number of events and of overlapping        *)
(* publishers, every retry limit and batch size, and any crashes.          *)
(***************************************************************************)
EXTENDS Outbox, FiniteSetTheorems, TLAPS

USE DEF history

-----------------------------------------------------------------------------
(* Type correctness.                                                       *)

\* A publisher that has an event in hand has one.
InHand == {"locked", "sent", "raised", "refetched"}
EventOK == \A p \in Publishers : pc[p] \in InHand => event[p] \in Events

OutboxTyped == TypeOK /\ EventOK

\* What AfterFailure may write, for a row that was read.
LEMMA AfterFailureRow ==
  ASSUME NEW r \in Rows, NEW new \in AfterFailure(r)
  PROVE  /\ new.status \in {"pending", "failed"}
         /\ new.wait \in Nat
         /\ new.status = "failed" => r.retries + 1 > MaxPublishRetries /\ new.wait = 0
         /\ \/ new.retries = r.retries /\ r.retries + 1 > MaxPublishRetries /\ new.wait = 0
            \/ /\ new.retries = r.retries + 1 /\ r.retries + 1 <= MaxPublishRetries
               /\ new.wait <= MaxDelay(BackoffBase, BackoffCap, r.retries + 1)
<1>1. r.retries \in Nat /\ MaxPublishRetries \in Nat
  BY OutboxAssumption DEF Rows
<1>2. CASE r.retries + 1 > MaxPublishRetries
  <2>1. new = Updated(r, "failed")
    BY <1>2 DEF AfterFailure
  <2> QED
    BY <1>1, <1>2, <2>1 DEF Updated, Rows
<1>3. CASE ~(r.retries + 1 > MaxPublishRetries)
  <2>1. new \in Rescheduled(r.retries + 1, r.retries + 1)
    BY <1>3 DEF AfterFailure
  <2>2. PICK w \in Delays(BackoffBase, BackoffCap, r.retries + 1) :
          new = [status |-> "pending", retries |-> r.retries + 1, wait |-> w]
    BY <2>1 DEF Rescheduled
  <2>3. w \in Nat /\ w <= MaxDelay(BackoffBase, BackoffCap, r.retries + 1)
    BY <2>2 DEF Delays
  <2> QED
    BY <1>1, <1>3, <2>2, <2>3
<1> QED
  BY <1>2, <1>3

LEMMA FlushDirtyRow ==
  ASSUME NEW r \in Rows, NEW loaded \in Rows, NEW new \in AfterFailure(loaded)
  PROVE  FlushDirty(r, loaded, new) \in Rows
<1>1. new.status \in OutboxStatus /\ new.wait \in Nat /\ new.retries \in Nat
  BY AfterFailureRow DEF OutboxStatus, Rows
<1> QED
  BY <1>1 DEF FlushDirty, Rows

LEMMA OutboxInit == Init => OutboxTyped
  BY DEF Init, OutboxTyped, TypeOK, EventOK, InHand, Phases, Rows, NoRow

LEMMA PublisherTyped ==
  ASSUME OutboxTyped, NEW p \in Publishers, PublisherStep(p)
  PROVE  OutboxTyped'
<1> USE DEF OutboxTyped, TypeOK, EventOK, InHand, Goto, Phases
<1>1. CASE StartTick(p)
  BY <1>1 DEF StartTick
<1>2. CASE Collect(p)
  <2>1. Oldest(Collectable) \in SUBSET Events
    BY DEF Oldest, Collectable
  <2> HIDE DEF Events
  <2> QED
    BY <1>2, <2>1 DEF Collect
<1>3. CASE Claim(p)
  BY <1>3 DEF Claim
<1>4. CASE EndBatch(p)
  BY <1>4 DEF EndBatch
<1>5. CASE FailUnsupported(p)
  BY <1>5 DEF FailUnsupported, Updated, Rows, OutboxStatus
<1>6. CASE Dispatch(p)
  BY <1>6 DEF Dispatch, CountEarly
<1>7. CASE CommitPublished(p)
  BY <1>7 DEF CommitPublished, Updated, Rows, OutboxStatus
<1>8. CASE Raise(p)
  BY <1>8 DEF Raise, CountEarly
<1>9. CASE Refetch(p)
  BY <1>9 DEF Refetch
<1>10. CASE RecordFailure(p)
  <2>1. PICK new \in AfterFailure(snap[p]) :
          row' = [row EXCEPT ![event[p]] = FlushDirty(@, snap[p], new)]
    BY <1>10 DEF RecordFailure
  <2>2. FlushDirty(row[event[p]], snap[p], new) \in Rows
    BY <1>10, FlushDirtyRow DEF RecordFailure
  <2>3. row' \in [Events -> Rows]
    BY <2>1, <2>2
  <2>4. NoRow \in Rows
    BY DEF NoRow, Rows
  <2> QED
    BY <1>10, <2>3, <2>4 DEF RecordFailure
<1> QED
  BY <1>1, <1>2, <1>3, <1>4, <1>5, <1>6, <1>7, <1>8, <1>9, <1>10 DEF PublisherStep

LEMMA OutboxTypedStep ==
  ASSUME OutboxTyped, [Next]_vars
  PROVE  OutboxTyped'
<1> USE DEF OutboxTyped, TypeOK, EventOK, InHand
<1>1. ASSUME NEW e \in Events, CreateEvent(e)
      PROVE  OutboxTyped'
  BY <1>1 DEF CreateEvent, publisher, Rows, OutboxStatus
<1>2. CASE Tick
  <2>1. \A e \in Events : [row[e] EXCEPT !.wait = IF @ > 0 THEN @ - 1 ELSE 0] \in Rows
    BY DEF Rows
  <2> QED
    BY <1>2, <2>1 DEF Tick, publisher
<1>3. ASSUME NEW p \in Publishers, Crash(p)
      PROVE  OutboxTyped'
  BY <1>3 DEF Crash, Goto, Phases, NoRow, Rows
<1>4. CASE UNCHANGED vars
  BY <1>4 DEF vars, publisher
<1> QED
  BY <1>1, <1>2, <1>3, <1>4, PublisherTyped DEF Next

LEMMA OutboxTypedAlways == Spec => []OutboxTyped
  BY OutboxInit, OutboxTypedStep, PTL DEF Spec

\* Type correctness, for every number of events and publishers.
THEOREM OutboxTypeCorrect == Spec => []TypeOK
<1>1. OutboxTyped => TypeOK
  BY DEF OutboxTyped
<1> QED
  BY <1>1, OutboxTypedAlways, PTL

-----------------------------------------------------------------------------
(* The row lock.                                                           *)

\* Only the holder of an event's lock, and nobody while there is one, changes the status
\* of a row; a lock is taken when nobody has it and the row is PENDING.
LEMMA PublisherClaims ==
  ASSUME OutboxTyped, ClaimsExclusive, NEW p \in Publishers, PublisherStep(p)
  PROVE  ClaimsExclusive'
<1> USE DEF OutboxTyped, TypeOK, EventOK, InHand, ClaimsExclusive, Goto
<1>1. CASE StartTick(p) \/ Collect(p) \/ EndBatch(p) \/ Dispatch(p) \/ Raise(p) \/ Refetch(p)
  BY <1>1 DEF StartTick, Collect, EndBatch, Dispatch, Raise, Refetch
<1>2. CASE Claim(p)
  <2>1. PICK e \in batch[p] :
          /\ ~LockedEvent(e)
          /\ IF row[e].status = "pending"
               THEN pc' = [pc EXCEPT ![p] = "locked"] /\ event' = [event EXCEPT ![p] = e]
               ELSE UNCHANGED <<pc, event>>
    BY <1>2 DEF Claim
  <2>2. UNCHANGED row
    BY <1>2 DEF Claim
  <2>3. CASE row[e].status = "pending"
    BY <2>1, <2>2, <2>3 DEF LockedEvent
  <2>4. CASE row[e].status # "pending"
    BY <2>1, <2>2, <2>4
  <2> QED
    BY <2>3, <2>4
<1>3. CASE FailUnsupported(p) \/ CommitPublished(p)
  <2>1. /\ pc[p] \in {"locked", "sent"}
        /\ pc' = [pc EXCEPT ![p] = "next"]
        /\ event' = event
        /\ \E status \in {"failed", "published"} :
             row' = [row EXCEPT ![event[p]] = Updated(row[event[p]], status)]
    BY <1>3 DEF FailUnsupported, CommitPublished
  <2>2. \A e \in Events : e # event[p] => row'[e] = row[e]
    BY <2>1
  <2> QED
    BY <2>1, <2>2
<1>4. CASE RecordFailure(p)
  <2>1. /\ ~LockedEvent(event[p])
        /\ pc[p] = "refetched"
        /\ pc' = [pc EXCEPT ![p] = "next"]
        /\ event' = event
        /\ \E new \in AfterFailure(snap[p]) :
             row' = [row EXCEPT ![event[p]] = FlushDirty(row[event[p]], snap[p], new)]
    BY <1>4 DEF RecordFailure
  <2>2. \A e \in Events : e # event[p] => row'[e] = row[e]
    BY <2>1
  <2> QED
    BY <2>1, <2>2 DEF LockedEvent
<1> QED
  BY <1>1, <1>2, <1>3, <1>4 DEF PublisherStep

LEMMA ClaimsStep ==
  ASSUME OutboxTyped, ClaimsExclusive, [Next]_vars
  PROVE  ClaimsExclusive'
<1> USE DEF OutboxTyped, TypeOK, EventOK, InHand, ClaimsExclusive
<1>1. ASSUME NEW e \in Events, CreateEvent(e)
      PROVE  ClaimsExclusive'
  BY <1>1 DEF CreateEvent, publisher, Rows
<1>2. CASE Tick
  <2>1. \A e \in Events : row'[e].status = row[e].status
    BY <1>2 DEF Tick, Rows
  <2> QED
    BY <1>2, <2>1 DEF Tick, publisher
<1>3. ASSUME NEW p \in Publishers, Crash(p)
      PROVE  ClaimsExclusive'
  BY <1>3 DEF Crash, Goto
<1>4. CASE UNCHANGED vars
  BY <1>4 DEF vars, publisher
<1> QED
  BY <1>1, <1>2, <1>3, <1>4, PublisherClaims DEF Next

\* However many publishers overlap, an event is in the hands of one, and it is PENDING.
THEOREM ClaimsAreExclusive == Spec => []ClaimsExclusive
<1>1. Init => ClaimsExclusive
  BY DEF Init, ClaimsExclusive
<1> QED
  BY <1>1, ClaimsStep, OutboxTypedAlways, PTL DEF Spec

-----------------------------------------------------------------------------
(* The retry budget.  A lost update may take an increment of retry_count    *)
(* back, so that what bounds it is the number of dispatches that raised     *)
(* less those whose failure is still to be written.                        *)

CountsBounded ==
  /\ \A e \in Events : row[e].retries + Cardinality(InFlight(e)) <= tries[e]
  /\ \A p \in Publishers : pc[p] = "refetched" =>
       snap[p].retries + Cardinality(InFlight(event[p])) <= tries[event[p]]

RetriesBounded ==
  \A e \in Events :
    /\ row[e].retries <= MaxPublishRetries
    /\ e \notin Unsupported /\ row[e].status = "failed" => tries[e] > MaxPublishRetries

BudgetInv == OutboxTyped /\ CountsBounded /\ RetriesBounded /\ WaitsBounded

LEMMA InFlightFinite ==
  \A e : IsFiniteSet(InFlight(e)) /\ Cardinality(InFlight(e)) \in Nat
<1>1. ASSUME NEW e
      PROVE  IsFiniteSet(InFlight(e)) /\ Cardinality(InFlight(e)) \in Nat
  <2>1. InFlight(e) \in SUBSET Publishers /\ IsFiniteSet(Publishers)
    BY OutboxAssumption DEF InFlight
  <2>2. IsFiniteSet(InFlight(e))
    BY <2>1, FS_Subset
  <2> QED
    BY <2>2, FS_CardinalityType
<1> QED
  BY <1>1

\* The bound of WaitsBounded is a number.
LEMMA DelayBound ==
  ASSUME OutboxTyped, RetriesBounded, NEW e \in Events
  PROVE  (IF row[e].retries = 0 THEN 0 ELSE MaxDelay(BackoffBase, BackoffCap, row[e].retries))
           \in Nat
<1>1. row[e].retries \in 0..MaxPublishRetries
  BY OutboxAssumption DEF OutboxTyped, TypeOK, Rows, RetriesBounded
<1> QED
  BY <1>1, OutboxAssumption

\* Steps that count no failure, reschedule nothing and bring nobody into flight.
LEMMA BudgetFrame ==
  ASSUME BudgetInv, OutboxTyped', UNCHANGED tries,
         \A e \in Events :
           /\ row'[e].retries = row[e].retries
           /\ row'[e].wait <= row[e].wait
           /\ e \notin Unsupported /\ row'[e].status = "failed" => row[e].status = "failed",
         \A p \in Publishers : pc'[p] \in {"raised", "refetched"} =>
           pc'[p] = pc[p] /\ event'[p] = event[p] /\ snap'[p] = snap[p]
  PROVE  BudgetInv'
<1>1. ASSUME NEW e \in Events
      PROVE  Cardinality(InFlight(e)') <= Cardinality(InFlight(e))
  <2>1. InFlight(e)' \in SUBSET InFlight(e)
    BY DEF InFlight
  <2> QED
    BY <2>1, InFlightFinite, FS_Subset
<1>2. \A e \in Events : Cardinality(InFlight(e)') \in Nat
  <2>1. ASSUME NEW e \in Events
        PROVE  Cardinality(InFlight(e)') \in Nat
    <3>1. InFlight(e)' \in SUBSET InFlight(e)
      BY DEF InFlight
    <3>2. IsFiniteSet(InFlight(e)')
      BY <3>1, InFlightFinite, FS_Subset
    <3> QED
      BY <3>2, FS_CardinalityType
  <2> QED
    BY <2>1
<1>3. \A e \in Events : row'[e].retries + Cardinality(InFlight(e)') <= tries'[e]
  BY <1>1, <1>2, InFlightFinite DEF BudgetInv, CountsBounded, OutboxTyped, TypeOK, Rows
<1>4. ASSUME NEW p \in Publishers, pc'[p] = "refetched"
      PROVE  snap'[p].retries + Cardinality(InFlight(event[p])') <= tries'[event[p]]
  <2>1. /\ pc[p] = "refetched" /\ event'[p] = event[p] /\ snap'[p] = snap[p]
        /\ event[p] \in Events
        /\ snap[p].retries \in Nat
        /\ tries[event[p]] \in Nat
    BY <1>4 DEF BudgetInv, OutboxTyped, TypeOK, EventOK, InHand, Rows
  <2>2. snap[p].retries + Cardinality(InFlight(event[p])) <= tries[event[p]]
    BY <2>1 DEF BudgetInv, CountsBounded
  <2> QED
    BY <1>1, <1>2, <2>1, <2>2, InFlightFinite
<1>5. CountsBounded'
  BY <1>3, <1>4 DEF CountsBounded
<1>6. RetriesBounded'
  BY DEF BudgetInv, RetriesBounded
<1>7. WaitsBounded'
  <2>1. ASSUME NEW e \in Events
        PROVE  row'[e].wait <= IF row'[e].retries = 0 THEN 0
                               ELSE MaxDelay(BackoffBase, BackoffCap, row'[e].retries)
    <3> DEFINE bound == IF row[e].retries = 0 THEN 0
                        ELSE MaxDelay(BackoffBase, BackoffCap, row[e].retries)
    <3>1. bound \in Nat
      BY DelayBound DEF BudgetInv
    <3>2. row[e].wait <= bound
      BY DEF BudgetInv, WaitsBounded
    <3>3. row[e].wait \in Nat /\ row'[e].wait \in Nat
      BY DEF BudgetInv, OutboxTyped, TypeOK, Rows
    <3>4. row'[e].wait <= bound
      <4> HIDE DEF bound
      <4> QED
        BY <3>1, <3>2, <3>3
    <3> QED
      BY <3>4
  <2> QED
    BY <2>1 DEF WaitsBounded
<1> QED
  BY <1>5, <1>6, <1>7 DEF BudgetInv

\* A dispatch that raises puts its publisher in flight and is counted.
LEMMA RaiseBudget ==
  ASSUME BudgetInv, OutboxTyped', NEW p \in Publishers, Raise(p)
  PROVE  BudgetInv'
<1>0. PICK i : i = event[p]
  OBVIOUS
<1>1. /\ i \in Events
      /\ pc[p] = "locked" /\ pc' = [pc EXCEPT ![p] = "raised"]
      /\ tries' = [tries EXCEPT ![i] = @ + 1]
      /\ UNCHANGED <<row, event, snap>>
  BY <1>0 DEF Raise, Goto, BudgetInv, OutboxTyped, EventOK, InHand
<1>2. Cardinality(InFlight(i)') = Cardinality(InFlight(i)) + 1
  <2>1. InFlight(i)' = InFlight(i) \cup {p} /\ p \notin InFlight(i)
    BY <1>0, <1>1 DEF InFlight, BudgetInv, OutboxTyped, TypeOK
  <2> QED
    BY <2>1, InFlightFinite, FS_AddElement
<1>3. \A e \in Events \ {i} : InFlight(e)' = InFlight(e)
  BY <1>0, <1>1 DEF InFlight, BudgetInv, OutboxTyped, TypeOK
<1>4. /\ tries'[i] = tries[i] + 1
      /\ \A e \in Events \ {i} : tries'[e] = tries[e]
      /\ \A e \in Events : tries[e] \in Nat /\ row[e].retries \in Nat
  BY <1>1 DEF BudgetInv, OutboxTyped, TypeOK, Rows
<1>5. \A e \in Events : row'[e].retries + Cardinality(InFlight(e)') <= tries'[e]
  <2>1. \A e \in Events : row[e].retries + Cardinality(InFlight(e)) <= tries[e]
    BY DEF BudgetInv, CountsBounded
  <2>2. row'[i].retries + Cardinality(InFlight(i)') <= tries'[i]
    BY <1>1, <1>2, <1>4, <2>1, InFlightFinite
  <2>3. ASSUME NEW e \in Events \ {i}
        PROVE  row'[e].retries + Cardinality(InFlight(e)') <= tries'[e]
    BY <1>1, <1>3, <1>4, <2>1
  <2> QED
    BY <2>2, <2>3
<1>6. ASSUME NEW q \in Publishers, pc'[q] = "refetched"
      PROVE  snap'[q].retries + Cardinality(InFlight(event[q])') <= tries'[event[q]]
  <2>1. /\ pc[q] = "refetched" /\ event[q] \in Events /\ snap[q].retries \in Nat
        /\ snap'[q] = snap[q]
    BY <1>1, <1>6 DEF BudgetInv, OutboxTyped, TypeOK, EventOK, InHand, Rows
  <2>2. snap[q].retries + Cardinality(InFlight(event[q])) <= tries[event[q]]
    BY <2>1 DEF BudgetInv, CountsBounded
  <2>3. CASE event[q] = i
    BY <1>1, <1>2, <1>4, <2>1, <2>2, <2>3, InFlightFinite
  <2>4. CASE event[q] # i
    <3>1. InFlight(event[q])' = InFlight(event[q]) /\ tries'[event[q]] = tries[event[q]]
      BY <1>1, <1>3, <1>4, <2>1, <2>4
    <3> QED
      BY <1>1, <2>1, <2>2, <3>1
  <2> QED
    BY <2>3, <2>4
<1>7. CountsBounded'
  BY <1>1, <1>5, <1>6 DEF CountsBounded
<1>8. RetriesBounded' /\ WaitsBounded'
  BY <1>1, <1>4, OutboxAssumption DEF BudgetInv, RetriesBounded, WaitsBounded
<1> QED
  BY <1>7, <1>8 DEF BudgetInv

\* What is read back is a row that is accounted for.
LEMMA RefetchBudget ==
  ASSUME BudgetInv, OutboxTyped', NEW p \in Publishers, Refetch(p)
  PROVE  BudgetInv'
<1>1. /\ pc[p] = "raised" /\ pc' = [pc EXCEPT ![p] = "refetched"]
      /\ snap' = [snap EXCEPT ![p] = row[event[p]]]
      /\ UNCHANGED <<row, event, tries>>
      /\ event[p] \in Events
  BY DEF Refetch, Goto, BudgetInv, OutboxTyped, EventOK, InHand
<1>2. \A e : InFlight(e)' = InFlight(e)
  BY <1>1 DEF InFlight, BudgetInv, OutboxTyped, TypeOK
<1>3. CountsBounded'
  <2>1. ASSUME NEW q \in Publishers, pc'[q] = "refetched"
        PROVE  snap'[q].retries + Cardinality(InFlight(event[q])) <= tries[event[q]]
    <3>1. CASE q = p
      <4>1. snap'[q] = row[event[p]]
        BY <1>1, <3>1 DEF BudgetInv, OutboxTyped, TypeOK
      <4> QED
        BY <1>1, <3>1, <4>1 DEF BudgetInv, CountsBounded
    <3>2. CASE q # p
      BY <1>1, <2>1, <3>2 DEF BudgetInv, OutboxTyped, TypeOK, CountsBounded
    <3> QED
      BY <3>1, <3>2
  <2> QED
    BY <1>1, <1>2, <2>1 DEF BudgetInv, CountsBounded
<1>4. RetriesBounded' /\ WaitsBounded'
  BY <1>1 DEF BudgetInv, RetriesBounded, WaitsBounded
<1> QED
  BY <1>3, <1>4 DEF BudgetInv

\* Whatever was read, and whoever wrote since: what is written is one more than was
\* read, and pays with the publisher's own failure.
LEMMA RecordFailureBudget ==
  ASSUME BudgetInv, OutboxTyped', NEW p \in Publishers, RecordFailure(p)
  PROVE  BudgetInv'
<1>0. PICK i : i = event[p]
  OBVIOUS
<1>1. PICK new \in AfterFailure(snap[p]) :
        row' = [row EXCEPT ![i] = FlushDirty(row[i], snap[p], new)]
  BY <1>0 DEF RecordFailure
<1>2. /\ pc[p] = "refetched" /\ pc' = [pc EXCEPT ![p] = "next"]
      /\ snap' = [snap EXCEPT ![p] = NoRow]
      /\ UNCHANGED <<event, tries>>
      /\ i \in Events
  BY <1>0 DEF RecordFailure, Goto, BudgetInv, OutboxTyped, EventOK, InHand
<1>3. /\ row[i] \in Rows /\ snap[p] \in Rows
      /\ row[i].retries \in Nat /\ snap[p].retries \in Nat /\ tries[i] \in Nat
      /\ row'[i] = FlushDirty(row[i], snap[p], new)
      /\ \A e \in Events \ {i} : row'[e] = row[e]
  BY <1>1, <1>2 DEF BudgetInv, OutboxTyped, TypeOK, Rows
<1>4. Cardinality(InFlight(i)') = Cardinality(InFlight(i)) - 1 /\ Cardinality(InFlight(i)) > 0
  <2>1. InFlight(i)' = InFlight(i) \ {p} /\ p \in InFlight(i)
    BY <1>0, <1>2 DEF InFlight, BudgetInv, OutboxTyped, TypeOK
  <2>2. Cardinality(InFlight(i)) # 0
    BY <2>1, InFlightFinite, FS_EmptySet
  <2> QED
    BY <2>1, <2>2, InFlightFinite, FS_RemoveElement
<1>5. \A e \in Events \ {i} : InFlight(e)' = InFlight(e)
  BY <1>0, <1>2 DEF InFlight, BudgetInv, OutboxTyped, TypeOK
<1>6. snap[p].retries + Cardinality(InFlight(i)) <= tries[i]
  BY <1>0, <1>2 DEF BudgetInv, CountsBounded
<1>7. /\ row'[i].retries \in {row[i].retries, snap[p].retries + 1}
      /\ row'[i].retries <= MaxPublishRetries
      /\ row'[i].wait <= IF row'[i].retries = 0 THEN 0
                         ELSE MaxDelay(BackoffBase, BackoffCap, row'[i].retries)
      /\ row'[i].status = "failed" =>
           row[i].status = "failed" \/ snap[p].retries + 1 > MaxPublishRetries
  <2>1. CASE /\ new.retries = snap[p].retries /\ snap[p].retries + 1 > MaxPublishRetries
             /\ new.wait = 0
    <3>1. row'[i].retries = row[i].retries /\ row'[i].wait = 0
      BY <1>3, <2>1 DEF FlushDirty
    <3>2. (IF row[i].retries = 0 THEN 0 ELSE MaxDelay(BackoffBase, BackoffCap, row[i].retries))
            \in Nat
      BY <1>2, DelayBound DEF BudgetInv
    <3> QED
      BY <1>2, <2>1, <3>1, <3>2 DEF BudgetInv, RetriesBounded
  <2>2. CASE /\ new.retries = snap[p].retries + 1
             /\ snap[p].retries + 1 <= MaxPublishRetries
             /\ new.wait <= MaxDelay(BackoffBase, BackoffCap, snap[p].retries + 1)
    <3>1. row'[i].retries = snap[p].retries + 1 /\ row'[i].wait = new.wait
      BY <1>3, <2>2 DEF FlushDirty
    <3>2. new.status = "pending"
      BY <1>3, <2>2, AfterFailureRow, OutboxAssumption
    <3>3. row'[i].status \in {row[i].status, "pending"}
      BY <1>3, <3>2 DEF FlushDirty
    <3> QED
      BY <1>3, <2>2, <3>1, <3>3
  <2> QED
    BY <1>3, <2>1, <2>2, AfterFailureRow
<1>8. CountsBounded'
  <2>1. row'[i].retries + Cardinality(InFlight(i)') <= tries[i]
    BY <1>2, <1>3, <1>4, <1>6, <1>7, InFlightFinite DEF BudgetInv, CountsBounded
  <2>2. ASSUME NEW q \in Publishers, pc'[q] = "refetched"
        PROVE  snap'[q].retries + Cardinality(InFlight(event[q])') <= tries[event[q]]
    <3>1. /\ q # p /\ pc[q] = "refetched" /\ snap'[q] = snap[q]
          /\ event[q] \in Events /\ snap[q].retries \in Nat /\ tries[event[q]] \in Nat
      BY <1>2, <2>2 DEF BudgetInv, OutboxTyped, TypeOK, EventOK, InHand, Rows
    <3>2. snap[q].retries + Cardinality(InFlight(event[q])) <= tries[event[q]]
      BY <3>1 DEF BudgetInv, CountsBounded
    <3>3. CASE event[q] = i
      BY <1>2, <1>4, <3>1, <3>2, <3>3, InFlightFinite
    <3>4. CASE event[q] # i
      <4>1. InFlight(event[q])' = InFlight(event[q])
        BY <1>2, <1>5, <3>1, <3>4
      <4> QED
        BY <1>2, <3>1, <3>2, <4>1
    <3> QED
      BY <3>3, <3>4
  <2> QED
    BY <1>2, <1>3, <1>5, <2>1, <2>2 DEF BudgetInv, CountsBounded
<1>9. RetriesBounded'
  <2>1. snap[p].retries + 1 > MaxPublishRetries => tries[i] > MaxPublishRetries
    BY <1>3, <1>4, <1>6, InFlightFinite, OutboxAssumption
  <2> QED
    BY <1>2, <1>3, <1>7, <2>1 DEF BudgetInv, RetriesBounded
<1>10. WaitsBounded'
  BY <1>3, <1>7 DEF BudgetInv, WaitsBounded
<1> QED
  BY <1>8, <1>9, <1>10 DEF BudgetInv

LEMMA BudgetStep ==
  ASSUME BudgetInv, [Next]_vars
  PROVE  BudgetInv'
<1>0. OutboxTyped /\ OutboxTyped'
  BY OutboxTypedStep DEF BudgetInv
<1> USE DEF OutboxTyped, TypeOK, EventOK, InHand, Goto
<1>1. ASSUME NEW e \in Events, CreateEvent(e)
      PROVE  BudgetInv'
  BY <1>0, <1>1, BudgetFrame DEF CreateEvent, publisher, Rows
<1>2. CASE Tick
  <2>1. \A e \in Events : /\ row'[e].retries = row[e].retries
                         /\ row'[e].wait <= row[e].wait
                         /\ row'[e].status = row[e].status
    BY <1>0, <1>2 DEF Tick, Rows
  <2> QED
    BY <1>0, <1>2, <2>1, BudgetFrame DEF Tick, publisher
<1>3. ASSUME NEW p \in Publishers, StartTick(p) \/ Collect(p) \/ EndBatch(p) \/ Dispatch(p)
      PROVE  BudgetInv'
  BY <1>0, <1>3, BudgetFrame DEF StartTick, Collect, EndBatch, Dispatch, Rows
<1>4. ASSUME NEW p \in Publishers, Claim(p)
      PROVE  BudgetInv'
  BY <1>0, <1>4, BudgetFrame DEF Claim, Rows
<1>5. ASSUME NEW p \in Publishers, FailUnsupported(p) \/ CommitPublished(p)
      PROVE  BudgetInv'
  <2>1. /\ pc[p] \in {"locked", "sent"}
        /\ pc' = [pc EXCEPT ![p] = "next"]
        /\ UNCHANGED <<event, snap, tries>>
        /\ \E status \in {"failed", "published"} :
             /\ row' = [row EXCEPT ![event[p]] = Updated(row[event[p]], status)]
             /\ status = "failed" => event[p] \in Unsupported
    BY <1>5 DEF FailUnsupported, CommitPublished
  <2>2. \A e \in Events :
          /\ row'[e].retries = row[e].retries
          /\ row'[e].wait <= row[e].wait
          /\ e \notin Unsupported /\ row'[e].status = "failed" => row[e].status = "failed"
    BY <1>0, <2>1 DEF Updated, Rows
  <2> QED
    BY <1>0, <2>1, <2>2, BudgetFrame
<1>6. ASSUME NEW p \in Publishers, Crash(p)
      PROVE  BudgetInv'
  BY <1>0, <1>6, BudgetFrame DEF Crash, Rows
<1>7. CASE UNCHANGED vars
  BY <1>0, <1>7, BudgetFrame DEF vars, publisher, Rows
<1> QED
  BY <1>0, <1>1, <1>2, <1>3, <1>4, <1>5, <1>6, <1>7,
     RaiseBudget, RefetchBudget, RecordFailureBudget
  DEF Next, PublisherStep

LEMMA BudgetInit == Init => BudgetInv
<1> SUFFICES ASSUME Init PROVE BudgetInv
  OBVIOUS
<1>1. \A e \in Events : InFlight(e) = {} /\ Cardinality(InFlight(e)) = 0
  BY FS_EmptySet DEF Init, InFlight
<1>2. CountsBounded
  BY <1>1 DEF Init, CountsBounded, NoRow
<1>3. RetriesBounded /\ WaitsBounded
  BY OutboxAssumption DEF Init, RetriesBounded, WaitsBounded, NoRow
<1> QED
  BY <1>2, <1>3, OutboxInit DEF BudgetInv

LEMMA BudgetInvariant == Spec => []BudgetInv
  BY BudgetInit, BudgetStep, PTL DEF Spec

\* An event is given up only after MAX_PUBLISH_RETRIES + 1 dispatches of it raised, for
\* any number of overlapping publishers that overwrite each other's counts.
THEOREM GivenUpAfterBudget == Spec => []FailedAfterBudget
<1>1. BudgetInv => FailedAfterBudget
  BY InFlightFinite
  DEF BudgetInv, CountsBounded, RetriesBounded, FailedAfterBudget, OutboxTyped, TypeOK, Rows
<1> QED
  BY <1>1, BudgetInvariant, PTL

\* No event waits longer than its recorded retries account for.
THEOREM WaitsAreBounded == Spec => []WaitsBounded
<1>1. BudgetInv => WaitsBounded
  BY DEF BudgetInv
<1> QED
  BY <1>1, BudgetInvariant, PTL

-----------------------------------------------------------------------------
(* The contract.  What a publisher holds locked is PENDING, and what it     *)
(* writes about an event it no longer holds is the end of a doubt.         *)

\* What is marked has been sent.
SentFirst == \A p \in Publishers : pc[p] = "sent" => sent[event[p]] > 0

LEMMA SentFirstStep ==
  ASSUME OutboxTyped, SentFirst, [Next]_vars
  PROVE  SentFirst'
<1> USE DEF OutboxTyped, TypeOK, EventOK, InHand, SentFirst, Goto
<1>1. ASSUME NEW e \in Events, CreateEvent(e)
      PROVE  SentFirst'
  BY <1>1 DEF CreateEvent, publisher
<1>2. CASE Tick
  BY <1>2 DEF Tick, publisher
<1>3. ASSUME NEW p \in Publishers,
             \/ StartTick(p) \/ Collect(p) \/ Claim(p) \/ EndBatch(p) \/ FailUnsupported(p)
             \/ CommitPublished(p) \/ Refetch(p) \/ RecordFailure(p) \/ Crash(p)
      PROVE  SentFirst'
  BY <1>3 DEF StartTick, Collect, Claim, EndBatch, FailUnsupported, CommitPublished, Refetch,
              RecordFailure, Crash
<1>4. ASSUME NEW p \in Publishers, Dispatch(p) \/ Raise(p)
      PROVE  SentFirst'
  BY <1>4 DEF Dispatch, Raise
<1>5. CASE UNCHANGED vars
  BY <1>5 DEF vars, publisher
<1> QED
  BY <1>1, <1>2, <1>3, <1>4, <1>5 DEF Next, PublisherStep

\* The status of the events and the doubts about them, as the contract sees them.
Statuses == [e \in Events |-> row[e].status]
Doubts == [e \in Events |-> Cardinality(InFlight(e))]

\* A publisher that is not in doubt about an event leaves room for one more that is.
LEMMA HandsLeft ==
  ASSUME NEW p \in Publishers, NEW e, p \notin InFlight(e)
  PROVE  Cardinality(InFlight(e)) < Cardinality(Publishers)
<1>1. IsFiniteSet(Publishers) /\ InFlight(e) \in SUBSET Publishers /\ InFlight(e) # Publishers
  BY OutboxAssumption DEF InFlight
<1> QED
  BY <1>1, FS_Subset, FS_CardinalityType, InFlightFinite

LEMMA SameDoubts ==
  ASSUME \A e \in Events : InFlight(e)' = InFlight(e)
  PROVE  Doubts' = Doubts
  BY DEF Doubts

\* One publisher more, or one less, in doubt about one event.
LEMMA DoubtAdded ==
  ASSUME NEW p \in Publishers, NEW i \in Events, p \notin InFlight(i),
         InFlight(i)' = InFlight(i) \cup {p},
         \A e \in Events \ {i} : InFlight(e)' = InFlight(e)
  PROVE  Doubts' = [Doubts EXCEPT ![i] = @ + 1]
<1>1. Cardinality(InFlight(i)') = Cardinality(InFlight(i)) + 1
  BY InFlightFinite, FS_AddElement
<1> QED
  BY <1>1 DEF Doubts

LEMMA DoubtRemoved ==
  ASSUME NEW p \in Publishers, NEW i \in Events, p \in InFlight(i),
         InFlight(i)' = InFlight(i) \ {p},
         \A e \in Events \ {i} : InFlight(e)' = InFlight(e)
  PROVE  Doubts' = [Doubts EXCEPT ![i] = @ - 1] /\ Doubts[i] > 0
<1>1. Cardinality(InFlight(i)') = Cardinality(InFlight(i)) - 1
  BY InFlightFinite, FS_RemoveElement
<1>2. Doubts' = [Doubts EXCEPT ![i] = @ - 1]
  BY <1>1 DEF Doubts
<1>3. Doubts[i] = Cardinality(InFlight(i)) /\ Cardinality(InFlight(i)) \in Nat
  BY InFlightFinite DEF Doubts
<1>4. Cardinality(InFlight(i)) # 0
  BY InFlightFinite, FS_EmptySet
<1> QED
  BY <1>2, <1>3, <1>4

\* What each statement does to the doubts.
LEMMA DoubtsKept ==
  ASSUME OutboxTyped, NEW p \in Publishers,
         \/ StartTick(p) \/ Collect(p) \/ Claim(p) \/ EndBatch(p) \/ Refetch(p)
         \/ Dispatch(p) \/ FailUnsupported(p) \/ CommitPublished(p)
  PROVE  Doubts' = Doubts
<1>1. \A e \in Events : InFlight(e)' = InFlight(e)
  BY DEF StartTick, Collect, Claim, EndBatch, Refetch, Dispatch, FailUnsupported,
         CommitPublished, Goto, InFlight, OutboxTyped, TypeOK
<1> QED
  BY <1>1, SameDoubts

LEMMA DoubtRaised ==
  ASSUME OutboxTyped, NEW p \in Publishers, NEW i, i = event[p], Raise(p)
  PROVE  Doubts' = [Doubts EXCEPT ![i] = @ + 1]
<1>1. i \in Events /\ p \notin InFlight(i)
  BY DEF Raise, OutboxTyped, EventOK, InHand, InFlight
<1>2. /\ InFlight(i)' = InFlight(i) \cup {p}
      /\ \A e \in Events \ {i} : InFlight(e)' = InFlight(e)
  BY DEF Raise, Goto, InFlight, OutboxTyped, TypeOK
<1> QED
  BY <1>1, <1>2, DoubtAdded

LEMMA DoubtSettled ==
  ASSUME OutboxTyped, NEW p \in Publishers, NEW i, i = event[p], RecordFailure(p)
  PROVE  Doubts' = [Doubts EXCEPT ![i] = @ - 1] /\ Doubts[i] > 0
<1>1. i \in Events /\ p \in InFlight(i)
  BY DEF RecordFailure, OutboxTyped, EventOK, InHand, InFlight
<1>2. /\ InFlight(i)' = InFlight(i) \ {p}
      /\ \A e \in Events \ {i} : InFlight(e)' = InFlight(e)
  BY DEF RecordFailure, Goto, InFlight, OutboxTyped, TypeOK
<1> QED
  BY <1>1, <1>2, DoubtRemoved

LEMMA DoubtForgotten ==
  ASSUME OutboxTyped, NEW p \in Publishers, NEW i, i = event[p], Crash(p)
  PROVE  \/ Doubts' = Doubts
         \/ i \in Events /\ Doubts' = [Doubts EXCEPT ![i] = @ - 1] /\ Doubts[i] > 0
<1>1. CASE pc[p] \in {"raised", "refetched"}
  <2>1. i \in Events /\ p \in InFlight(i)
    BY <1>1 DEF OutboxTyped, EventOK, InHand, InFlight
  <2>2. /\ InFlight(i)' = InFlight(i) \ {p}
        /\ \A e \in Events \ {i} : InFlight(e)' = InFlight(e)
    BY <1>1 DEF Crash, Goto, InFlight, OutboxTyped, TypeOK
  <2> QED
    BY <2>1, <2>2, DoubtRemoved
<1>2. CASE pc[p] \notin {"raised", "refetched"}
  <2>1. \A e \in Events : InFlight(e)' = InFlight(e)
    BY <1>2 DEF Crash, Goto, InFlight, OutboxTyped, TypeOK
  <2> QED
    BY <2>1, SameDoubts
<1> QED
  BY <1>1, <1>2

LEMMA DoubtsDropped ==
  ASSUME OutboxTyped, NEW p \in Publishers, Crash(p)
  PROVE  \A e \in Events : Doubts'[e] \in Nat /\ Doubts'[e] <= Doubts[e]
<1>0. PICK i : i = event[p]
  OBVIOUS
<1>1. \A e \in Events : Doubts[e] \in Nat
  BY InFlightFinite DEF Doubts
<1>2. CASE Doubts' = Doubts
  BY <1>1, <1>2
<1>3. CASE i \in Events /\ Doubts' = [Doubts EXCEPT ![i] = @ - 1] /\ Doubts[i] > 0
  <2>1. Doubts'[i] = Doubts[i] - 1 /\ \A e \in Events \ {i} : Doubts'[e] = Doubts[e]
    BY <1>3 DEF Doubts
  <2> QED
    BY <1>1, <1>3, <2>1
<1> QED
  BY <1>0, <1>2, <1>3, DoubtForgotten

\* What the statements of one event do for the contract, in its own terms.
LEMMA ContractMoves ==
  ASSUME NEW e \in Events,
         \/ /\ Statuses[e] = "absent" /\ Statuses' = [Statuses EXCEPT ![e] = "pending"]
            /\ UNCHANGED <<sent, Doubts>>
         \/ /\ Statuses[e] = "pending" /\ Doubts[e] < Cardinality(Publishers)
            /\ \/ /\ sent' = [sent EXCEPT ![e] = @ + 1] /\ UNCHANGED <<Statuses, Doubts>>
               \/ /\ sent[e] > 0 /\ Statuses' = [Statuses EXCEPT ![e] = "published"]
                  /\ UNCHANGED <<sent, Doubts>>
               \/ Statuses' = [Statuses EXCEPT ![e] = "failed"] /\ UNCHANGED <<sent, Doubts>>
               \/ /\ Doubts' = [Doubts EXCEPT ![e] = @ + 1]
                  /\ sent' \in {sent, [sent EXCEPT ![e] = @ + 1]}
                  /\ UNCHANGED Statuses
         \/ /\ Doubts[e] > 0 /\ Doubts' = [Doubts EXCEPT ![e] = @ - 1] /\ UNCHANGED sent
            /\ \/ UNCHANGED Statuses
               \/ \E s \in {Statuses[e], "pending", "failed"} :
                    Statuses' = [Statuses EXCEPT ![e] = s]
  PROVE  Contract!Next
<1> USE DEF Statuses, Doubts
<1>1. CASE /\ Statuses[e] = "absent" /\ Statuses' = [Statuses EXCEPT ![e] = "pending"]
           /\ UNCHANGED <<sent, Doubts>>
  BY <1>1 DEF Contract!Next, Contract!Record
<1>2. CASE /\ Statuses[e] = "pending" /\ Doubts[e] < Cardinality(Publishers)
           /\ sent' = [sent EXCEPT ![e] = @ + 1] /\ UNCHANGED <<Statuses, Doubts>>
  BY <1>2 DEF Contract!Next, Contract!Deliver, Contract!InHand
<1>3. CASE /\ Statuses[e] = "pending" /\ Doubts[e] < Cardinality(Publishers)
           /\ sent[e] > 0 /\ Statuses' = [Statuses EXCEPT ![e] = "published"]
           /\ UNCHANGED <<sent, Doubts>>
  BY <1>3 DEF Contract!Next, Contract!MarkPublished, Contract!InHand
<1>4. CASE /\ Statuses[e] = "pending" /\ Doubts[e] < Cardinality(Publishers)
           /\ Statuses' = [Statuses EXCEPT ![e] = "failed"] /\ UNCHANGED <<sent, Doubts>>
  BY <1>4 DEF Contract!Next, Contract!GiveUp, Contract!InHand
<1>5. CASE /\ Statuses[e] = "pending" /\ Doubts[e] < Cardinality(Publishers)
           /\ Doubts' = [Doubts EXCEPT ![e] = @ + 1]
           /\ sent' \in {sent, [sent EXCEPT ![e] = @ + 1]}
           /\ UNCHANGED Statuses
  BY <1>5 DEF Contract!Next, Contract!Doubt, Contract!InHand
<1>6. CASE /\ Doubts[e] > 0 /\ Doubts' = [Doubts EXCEPT ![e] = @ - 1]
           /\ UNCHANGED <<sent, Statuses>>
  BY <1>6 DEF Contract!Next, Contract!Forget
<1>7. CASE /\ Doubts[e] > 0 /\ Doubts' = [Doubts EXCEPT ![e] = @ - 1] /\ UNCHANGED sent
           /\ \E s \in {Statuses[e], "pending", "failed"} :
                Statuses' = [Statuses EXCEPT ![e] = s]
  BY <1>7 DEF Contract!Next, Contract!Settle
<1> QED
  BY <1>1, <1>2, <1>3, <1>4, <1>5, <1>6, <1>7

LEMMA ContractStep ==
  ASSUME OutboxTyped, ClaimsExclusive, SentFirst, [Next]_vars
  PROVE  [Contract!Next]_Contract!vars
<1>1. ASSUME NEW e \in Events, CreateEvent(e)
      PROVE  Contract!Next
  <2>1. Statuses[e] = "absent" /\ Statuses' = [Statuses EXCEPT ![e] = "pending"]
    BY <1>1 DEF CreateEvent, Statuses, OutboxTyped, TypeOK, Rows
  <2>2. UNCHANGED <<sent, Doubts>>
    BY <1>1 DEF CreateEvent, publisher, Doubts, InFlight
  <2> QED
    BY <2>1, <2>2, ContractMoves
<1>2. ASSUME UNCHANGED <<Statuses, sent, Doubts>>
      PROVE  UNCHANGED Contract!vars
  BY <1>2 DEF Contract!vars, Statuses, Doubts
<1>3. CASE Tick
  <2>1. Statuses' = Statuses
    BY <1>3 DEF Tick, Statuses, OutboxTyped, TypeOK, Rows
  <2>2. UNCHANGED <<sent, Doubts>>
    BY <1>3 DEF Tick, publisher, Doubts, InFlight
  <2> QED
    BY <1>2, <2>1, <2>2
<1>4. ASSUME NEW p \in Publishers,
             \/ StartTick(p) \/ Collect(p) \/ Claim(p) \/ EndBatch(p) \/ Refetch(p)
      PROVE  UNCHANGED Contract!vars
  <2>1. Doubts' = Doubts
    BY <1>4, DoubtsKept
  <2>2. UNCHANGED <<Statuses, sent>>
    BY <1>4 DEF StartTick, Collect, Claim, EndBatch, Refetch, Statuses
  <2> QED
    BY <1>2, <2>1, <2>2
<1>5. ASSUME NEW p \in Publishers, Dispatch(p)
      PROVE  Contract!Next
  <2>1. event[p] \in Events /\ Statuses[event[p]] = "pending" /\ p \notin InFlight(event[p])
    BY <1>5 DEF Dispatch, OutboxTyped, EventOK, InHand, ClaimsExclusive, Statuses, InFlight
  <2>2. Doubts' = Doubts
    BY <1>5, DoubtsKept
  <2>3. sent' = [sent EXCEPT ![event[p]] = @ + 1] /\ UNCHANGED Statuses
    BY <1>5 DEF Dispatch, Statuses
  <2>4. Doubts[event[p]] < Cardinality(Publishers)
    BY <2>1, HandsLeft DEF Doubts
  <2> QED
    BY <2>1, <2>2, <2>3, <2>4, ContractMoves
<1>6. ASSUME NEW p \in Publishers, Raise(p)
      PROVE  Contract!Next
  <2>0. PICK i : i = event[p]
    OBVIOUS
  <2>1. i \in Events /\ Statuses[i] = "pending" /\ p \notin InFlight(i)
    BY <1>6, <2>0
    DEF Raise, OutboxTyped, EventOK, InHand, ClaimsExclusive, Statuses, InFlight
  <2>2. Doubts' = [Doubts EXCEPT ![i] = @ + 1]
    BY <1>6, <2>0, DoubtRaised
  <2>3. sent' \in {sent, [sent EXCEPT ![i] = @ + 1]} /\ UNCHANGED Statuses
    <3>1. PICK accepted \in {0, 1} : sent' = [sent EXCEPT ![i] = @ + accepted]
      BY <1>6, <2>0 DEF Raise
    <3>2. sent \in [Events -> Nat]
      BY DEF OutboxTyped, TypeOK
    <3>3. accepted = 0 => sent' = sent
      BY <2>1, <3>1, <3>2
    <3>4. UNCHANGED Statuses
      BY <1>6 DEF Raise, Statuses
    <3> QED
      BY <3>1, <3>3, <3>4
  <2>4. Doubts[i] < Cardinality(Publishers)
    BY <2>1, HandsLeft DEF Doubts
  <2> QED
    BY <2>1, <2>2, <2>3, <2>4, ContractMoves
<1>7. ASSUME NEW p \in Publishers, FailUnsupported(p) \/ CommitPublished(p)
      PROVE  Contract!Next
  <2>1. PICK status \in {"failed", "published"} :
          /\ row' = [row EXCEPT ![event[p]] = Updated(row[event[p]], status)]
          /\ status = "published" => pc[p] = "sent"
    BY <1>7 DEF FailUnsupported, CommitPublished
  <2>2. /\ pc[p] \in {"locked", "sent"} /\ pc' = [pc EXCEPT ![p] = "next"]
        /\ UNCHANGED <<sent, event>>
    BY <1>7 DEF FailUnsupported, CommitPublished, Goto
  <2>3. /\ event[p] \in Events /\ Statuses[event[p]] = "pending"
        /\ p \notin InFlight(event[p])
    BY <2>2 DEF OutboxTyped, EventOK, InHand, ClaimsExclusive, Statuses, InFlight
  <2>4. Statuses' = [Statuses EXCEPT ![event[p]] = status]
    BY <2>1, <2>3 DEF Statuses, Updated, Rows, OutboxTyped, TypeOK
  <2>5. Doubts' = Doubts
    BY <1>7, DoubtsKept
  <2>6. Doubts[event[p]] < Cardinality(Publishers)
    BY <2>3, HandsLeft DEF Doubts
  <2>7. status = "published" => sent[event[p]] > 0
    BY <2>1 DEF SentFirst
  <2> QED
    BY <2>1, <2>2, <2>3, <2>4, <2>5, <2>6, <2>7, ContractMoves
<1>8. ASSUME NEW p \in Publishers, RecordFailure(p)
      PROVE  Contract!Next
  <2>0. PICK i : i = event[p]
    OBVIOUS
  <2>1. PICK new \in AfterFailure(snap[p]) :
          row' = [row EXCEPT ![i] = FlushDirty(row[i], snap[p], new)]
    BY <1>8, <2>0 DEF RecordFailure
  <2>2. /\ pc[p] = "refetched" /\ pc' = [pc EXCEPT ![p] = "next"]
        /\ UNCHANGED <<sent, event>>
        /\ i \in Events /\ snap[p] \in Rows
    BY <1>8, <2>0 DEF RecordFailure, Goto, OutboxTyped, TypeOK, EventOK, InHand
  <2>3. row'[i].status \in {row[i].status, "pending", "failed"}
    <3>1. new.status \in {"pending", "failed"}
      BY <2>2, AfterFailureRow
    <3>2. row'[i] = FlushDirty(row[i], snap[p], new)
      BY <2>1, <2>2 DEF OutboxTyped, TypeOK
    <3> QED
      BY <3>1, <3>2 DEF FlushDirty
  <2>4. Statuses' = [Statuses EXCEPT ![i] = row'[i].status]
    BY <2>1, <2>2 DEF Statuses, OutboxTyped, TypeOK
  <2>5. Statuses[i] = row[i].status
    BY <2>2 DEF Statuses
  <2>6. Doubts' = [Doubts EXCEPT ![i] = @ - 1] /\ Doubts[i] > 0
    BY <1>8, <2>0, DoubtSettled
  <2> QED
    BY <2>2, <2>3, <2>4, <2>5, <2>6, ContractMoves
<1>9. ASSUME NEW p \in Publishers, Crash(p)
      PROVE  [Contract!Next]_Contract!vars
  <2>0. PICK i : i = event[p]
    OBVIOUS
  <2>1. UNCHANGED <<sent, Statuses>>
    BY <1>9 DEF Crash, Statuses
  <2>2. CASE Doubts' = Doubts
    BY <1>2, <2>1, <2>2
  <2>3. CASE i \in Events /\ Doubts' = [Doubts EXCEPT ![i] = @ - 1] /\ Doubts[i] > 0
    BY <2>1, <2>3, ContractMoves
  <2> QED
    BY <1>9, <2>0, <2>2, <2>3, DoubtForgotten
<1>10. CASE UNCHANGED vars
  BY <1>2, <1>10 DEF vars, publisher, Statuses, Doubts, InFlight
<1> QED
  BY <1>1, <1>3, <1>4, <1>5, <1>6, <1>7, <1>8, <1>9, <1>10 DEF Next, PublisherStep

\* The outbox implements its contract for any number of events and of overlapping
\* publishers, any retry limit and any crashes: nothing but PENDING events is delivered,
\* each is delivered before it is PUBLISHED, and an outcome is revised only by a
\* publisher whose own dispatch of that event raised.
THEOREM OutboxKeepsContract == Spec => ImplementsContract
<1>1. ASSUME Init
      PROVE  Contract!Init /\ SentFirst /\ ClaimsExclusive
  <2>1. \A e \in Events : InFlight(e) = {} /\ Cardinality(InFlight(e)) = 0
    BY <1>1, FS_EmptySet DEF Init, InFlight
  <2> QED
    BY <1>1, <2>1 DEF Init, NoRow, Contract!Init, SentFirst, ClaimsExclusive
<1>2. OutboxTyped /\ SentFirst /\ [Next]_vars => SentFirst'
  BY SentFirstStep
<1>3. OutboxTyped /\ ClaimsExclusive /\ [Next]_vars => ClaimsExclusive'
  BY ClaimsStep
<1>4. OutboxTyped /\ ClaimsExclusive /\ SentFirst /\ [Next]_vars
        => [Contract!Next]_Contract!vars
  BY ContractStep
<1> QED
  BY <1>1, <1>2, <1>3, <1>4, OutboxTypedAlways, PTL
  DEF Spec, ImplementsContract, Contract!Spec

-----------------------------------------------------------------------------
(* Duplicates.  An event that is open, and whose message nobody has just    *)
(* sent, has one message to spare; a failure that is not written yet has   *)
(* not reopened anything.                                                  *)

Spare(e) ==
  IF /\ row[e].status \in {"absent", "pending"}
     /\ \A p \in Publishers : ~(pc[p] = "sent" /\ event[p] = e)
    THEN 1 ELSE 0

SendsBounded ==
  \A e \in Events : sent[e] + Spare(e) + Doubts[e] <= 2 * tries[e] + crashes + 1

LEMMA SpareRange == \A e : Spare(e) \in {0, 1}
  BY DEF Spare

LEMMA DoubtsAreNumbers == \A e \in Events : Doubts[e] \in Nat
  BY InFlightFinite DEF Doubts

\* Steps that send nothing and free no message.
LEMMA SendsFrame ==
  ASSUME OutboxTyped, SendsBounded, UNCHANGED <<sent, tries, crashes, Doubts>>,
         \A e \in Events : Spare(e)' <= Spare(e)
  PROVE  SendsBounded'
<1> SUFFICES ASSUME NEW e \in Events
             PROVE  sent'[e] + Spare(e)' + Doubts'[e] <= 2 * tries'[e] + crashes' + 1
  BY DEF SendsBounded
<1>1. sent[e] \in Nat /\ tries[e] \in Nat /\ crashes \in Nat /\ Doubts[e] \in Nat
  BY DoubtsAreNumbers DEF OutboxTyped, TypeOK
<1>2. sent[e] + Spare(e) + Doubts[e] <= 2 * tries[e] + crashes + 1
  BY DEF SendsBounded
<1>3. Spare(e) \in {0, 1} /\ Spare(e)' \in {0, 1} /\ Spare(e)' <= Spare(e)
  BY DEF Spare
<1> QED
  BY <1>1, <1>2, <1>3

\* Steps about one event: the others keep their accounts.
LEMMA SendsOfOne ==
  ASSUME OutboxTyped, SendsBounded, NEW i \in Events, crashes' = crashes,
         \A e \in Events \ {i} :
           /\ sent'[e] = sent[e] /\ tries'[e] = tries[e] /\ Doubts'[e] = Doubts[e]
           /\ Spare(e)' = Spare(e),
         sent'[i] + Spare(i)' + Doubts'[i] <= 2 * tries'[i] + crashes + 1
  PROVE  SendsBounded'
<1>1. ASSUME NEW e \in Events \ {i}
      PROVE  sent'[e] + Spare(e)' + Doubts'[e] <= 2 * tries'[e] + crashes' + 1
  BY <1>1 DEF SendsBounded
<1> QED
  BY <1>1 DEF SendsBounded

LEMMA SendsBoundedStep ==
  ASSUME OutboxTyped, ClaimsExclusive, SendsBounded, [Next]_vars
  PROVE  SendsBounded'
<1>0. \A e \in Events : /\ sent[e] \in Nat /\ tries[e] \in Nat /\ crashes \in Nat
                        /\ Doubts[e] \in Nat /\ Spare(e) \in {0, 1} /\ Spare(e)' \in {0, 1}
  BY DoubtsAreNumbers DEF OutboxTyped, TypeOK, Spare
<1>1. ASSUME NEW e \in Events, CreateEvent(e)
      PROVE  SendsBounded'
  <2>1. UNCHANGED <<sent, tries, crashes, Doubts>>
    BY <1>1 DEF CreateEvent, publisher, Doubts, InFlight
  <2>2. \A i \in Events : Spare(i)' <= Spare(i)
    BY <1>1 DEF CreateEvent, publisher, Spare, OutboxTyped, TypeOK, Rows
  <2> QED
    BY <2>1, <2>2, SendsFrame
<1>2. CASE Tick
  <2>1. UNCHANGED <<sent, tries, crashes, Doubts>>
    BY <1>2 DEF Tick, publisher, Doubts, InFlight
  <2>2. \A i \in Events : Spare(i)' <= Spare(i)
    BY <1>2 DEF Tick, publisher, Spare, OutboxTyped, TypeOK, Rows
  <2> QED
    BY <2>1, <2>2, SendsFrame
<1>3. ASSUME NEW p \in Publishers,
             \/ StartTick(p) \/ Collect(p) \/ Claim(p) \/ EndBatch(p) \/ Refetch(p)
      PROVE  SendsBounded'
  <2>1. UNCHANGED <<sent, tries, crashes>>
    BY <1>3 DEF StartTick, Collect, Claim, EndBatch, Refetch
  <2>2. \A e \in Events : Spare(e)' <= Spare(e)
    BY <1>3 DEF StartTick, Collect, Claim, EndBatch, Refetch, Goto, Spare, OutboxTyped, TypeOK
  <2> QED
    BY <1>3, <2>1, <2>2, DoubtsKept, SendsFrame
<1>4. ASSUME NEW p \in Publishers, Dispatch(p)
      PROVE  SendsBounded'
  <2>0. PICK i : i = event[p]
    OBVIOUS
  <2>1. /\ i \in Events /\ pc[p] = "locked" /\ pc' = [pc EXCEPT ![p] = "sent"]
        /\ sent' = [sent EXCEPT ![i] = @ + 1]
        /\ UNCHANGED <<row, tries, crashes, event>>
    BY <1>4, <2>0 DEF Dispatch, Goto, OutboxTyped, EventOK, InHand
  <2>2. Spare(i) = 1 /\ Spare(i)' = 0
    BY <2>0, <2>1 DEF Spare, ClaimsExclusive, OutboxTyped, TypeOK
  <2>3. \A e \in Events \ {i} : sent'[e] = sent[e] /\ Spare(e)' = Spare(e)
    BY <2>0, <2>1 DEF Spare, OutboxTyped, TypeOK
  <2>4. Doubts' = Doubts
    BY <1>4, DoubtsKept
  <2>5. sent'[i] = sent[i] + 1
    BY <2>1 DEF OutboxTyped, TypeOK
  <2>6. sent[i] + Spare(i) + Doubts[i] <= 2 * tries[i] + crashes + 1
    BY <2>1 DEF SendsBounded
  <2>7. sent'[i] + Spare(i)' + Doubts'[i] <= 2 * tries'[i] + crashes + 1
    BY <1>0, <2>1, <2>2, <2>4, <2>5, <2>6
  <2> QED
    BY <2>1, <2>3, <2>4, <2>7, SendsOfOne
<1>5. ASSUME NEW p \in Publishers, Raise(p)
      PROVE  SendsBounded'
  <2>0. PICK i : i = event[p]
    OBVIOUS
  <2>1. /\ i \in Events /\ pc[p] = "locked" /\ pc' = [pc EXCEPT ![p] = "raised"]
        /\ \E accepted \in {0, 1} : sent' = [sent EXCEPT ![i] = @ + accepted]
        /\ tries' = [tries EXCEPT ![i] = @ + 1]
        /\ UNCHANGED <<row, crashes, event>>
    BY <1>5, <2>0 DEF Raise, Goto, OutboxTyped, EventOK, InHand
  <2>2. \A e \in Events : Spare(e)' = Spare(e)
    BY <2>1 DEF Spare, OutboxTyped, TypeOK
  <2>3. /\ sent'[i] \in {sent[i], sent[i] + 1} /\ tries'[i] = tries[i] + 1
        /\ \A e \in Events \ {i} : sent'[e] = sent[e] /\ tries'[e] = tries[e]
    BY <2>1 DEF OutboxTyped, TypeOK
  <2>4. Doubts' = [Doubts EXCEPT ![i] = @ + 1]
    BY <1>5, <2>0, DoubtRaised
  <2>5. Doubts'[i] = Doubts[i] + 1 /\ \A e \in Events \ {i} : Doubts'[e] = Doubts[e]
    BY <2>1, <2>4 DEF Doubts
  <2>6. sent[i] + Spare(i) + Doubts[i] <= 2 * tries[i] + crashes + 1
    BY <2>1 DEF SendsBounded
  <2>7. sent'[i] + Spare(i)' + Doubts'[i] <= 2 * tries'[i] + crashes + 1
    BY <1>0, <2>1, <2>2, <2>3, <2>5, <2>6
  <2> QED
    BY <2>1, <2>2, <2>3, <2>5, <2>7, SendsOfOne
<1>6. ASSUME NEW p \in Publishers, FailUnsupported(p) \/ CommitPublished(p)
      PROVE  SendsBounded'
  <2>1. PICK status \in {"failed", "published"} :
          row' = [row EXCEPT ![event[p]] = Updated(row[event[p]], status)]
    BY <1>6 DEF FailUnsupported, CommitPublished
  <2>2. /\ pc[p] \in {"locked", "sent"} /\ pc' = [pc EXCEPT ![p] = "next"]
        /\ UNCHANGED <<sent, tries, crashes, event>>
        /\ event[p] \in Events
    BY <1>6 DEF FailUnsupported, CommitPublished, Goto, OutboxTyped, EventOK, InHand
  <2>3. /\ row'[event[p]].status = status
        /\ \A e \in Events \ {event[p]} : row'[e] = row[e]
    BY <2>1, <2>2 DEF Updated, Rows, OutboxTyped, TypeOK
  <2>4. \A e \in Events : Spare(e)' <= Spare(e)
    BY <2>2, <2>3 DEF Spare, OutboxTyped, TypeOK
  <2> QED
    BY <1>6, <2>2, <2>4, DoubtsKept, SendsFrame
<1>7. ASSUME NEW p \in Publishers, RecordFailure(p)
      PROVE  SendsBounded'
  <2>0. PICK i : i = event[p]
    OBVIOUS
  <2>1. /\ i \in Events /\ pc[p] = "refetched" /\ pc' = [pc EXCEPT ![p] = "next"]
        /\ \E r : row' = [row EXCEPT ![i] = r]
        /\ UNCHANGED <<sent, tries, crashes, event>>
    BY <1>7, <2>0 DEF RecordFailure, Goto, OutboxTyped, EventOK, InHand
  <2>2. \A e \in Events \ {i} : row'[e] = row[e]
    BY <2>1 DEF OutboxTyped, TypeOK
  <2>3. \A e \in Events \ {i} : Spare(e)' = Spare(e)
    BY <2>1, <2>2 DEF Spare, OutboxTyped, TypeOK
  <2>4. Doubts' = [Doubts EXCEPT ![i] = @ - 1] /\ Doubts[i] > 0
    BY <1>7, <2>0, DoubtSettled
  <2>5. Doubts'[i] = Doubts[i] - 1 /\ \A e \in Events \ {i} : Doubts'[e] = Doubts[e]
    BY <2>1, <2>4 DEF Doubts
  <2>6. sent[i] + Spare(i) + Doubts[i] <= 2 * tries[i] + crashes + 1
    BY <2>1 DEF SendsBounded
  <2>7. sent'[i] + Spare(i)' + Doubts'[i] <= 2 * tries'[i] + crashes + 1
    BY <1>0, <2>1, <2>5, <2>6
  <2> QED
    BY <2>1, <2>3, <2>5, <2>7, SendsOfOne
<1>8. ASSUME NEW p \in Publishers, Crash(p)
      PROVE  SendsBounded'
  <2>1. crashes' = crashes + 1 /\ UNCHANGED <<sent, tries>>
    BY <1>8 DEF Crash
  <2>2. \A e \in Events : Doubts'[e] \in Nat /\ Doubts'[e] <= Doubts[e]
    BY <1>8, DoubtsDropped
  <2>3. ASSUME NEW e \in Events
        PROVE  sent'[e] + Spare(e)' + Doubts'[e] <= 2 * tries'[e] + crashes' + 1
    <3>1. sent[e] + Spare(e) + Doubts[e] <= 2 * tries[e] + crashes + 1
      BY DEF SendsBounded
    <3> QED
      BY <1>0, <2>1, <2>2, <3>1
  <2> QED
    BY <2>3 DEF SendsBounded
<1>9. CASE UNCHANGED vars
  <2>1. UNCHANGED <<sent, tries, crashes, Doubts>> /\ \A e \in Events : Spare(e)' = Spare(e)
    BY <1>9 DEF vars, publisher, Doubts, InFlight, Spare
  <2> QED
    BY <1>0, <2>1, SendsFrame
<1> QED
  BY <1>1, <1>2, <1>3, <1>4, <1>5, <1>6, <1>7, <1>8, <1>9 DEF Next, PublisherStep

\* However many publishers overlap, an event is dispatched again only for a dispatch that
\* raised or a crash.
THEOREM DispatchesAreAccounted == Spec => []DispatchesAccounted
<1>1. ASSUME Init
      PROVE  SendsBounded /\ ClaimsExclusive
  <2>1. \A e \in Events : InFlight(e) = {} /\ Cardinality(InFlight(e)) = 0
    BY <1>1, FS_EmptySet DEF Init, InFlight
  <2>2. \A e \in Events : Doubts[e] = 0 /\ Spare(e) \in {0, 1}
    BY <2>1 DEF Doubts, Spare
  <2> QED
    BY <1>1, <2>2 DEF Init, SendsBounded, ClaimsExclusive
<1>2. OutboxTyped /\ ClaimsExclusive /\ [Next]_vars => ClaimsExclusive'
  BY ClaimsStep
<1>3. OutboxTyped /\ ClaimsExclusive /\ SendsBounded /\ [Next]_vars => SendsBounded'
  BY SendsBoundedStep
<1>4. OutboxTyped /\ SendsBounded => DispatchesAccounted
  <2> SUFFICES ASSUME OutboxTyped, SendsBounded, NEW e \in Events
               PROVE  sent[e] <= 2 * tries[e] + crashes + 1
    BY DEF DispatchesAccounted
  <2>1. sent[e] + Spare(e) + Doubts[e] <= 2 * tries[e] + crashes + 1
    BY DEF SendsBounded
  <2>2. /\ sent[e] \in Nat /\ tries[e] \in Nat /\ crashes \in Nat /\ Doubts[e] \in Nat
        /\ Spare(e) \in {0, 1}
    BY DoubtsAreNumbers, SpareRange DEF OutboxTyped, TypeOK
  <2> QED
    BY <2>1, <2>2
<1> QED
  BY <1>1, <1>2, <1>3, <1>4, OutboxTypedAlways, PTL DEF Spec

-----------------------------------------------------------------------------
(* The back-off.  A failure that is written makes an event wait under at    *)
(* most all the other publishers that hold it; each of them may come to it *)
(* too early once, for which the failure pays in advance.                  *)

\* Those that will dispatch e if it is still PENDING when they come to it.
Holders(e) == {p \in Publishers : e \in batch[p] \/ (pc[p] = "locked" /\ event[p] = e)}
Impatient(e) == IF row[e].wait > 0 THEN Cardinality(Holders(e)) ELSE 0

Others == Cardinality(Publishers) - 1
Credit(e) == Others * (tries[e] - Doubts[e])

TakenOut == \A p \in Publishers : pc[p] \in InHand => event[p] \notin batch[p]
EarlyBounded == \A e \in Events : early[e] + Impatient(e) <= Credit(e)
EarlyInv == TakenOut /\ EarlyBounded

LEMMA TakenOutStep ==
  ASSUME OutboxTyped, TakenOut, [Next]_vars
  PROVE  TakenOut'
<1> USE DEF OutboxTyped, TypeOK, InHand, TakenOut, Goto
<1>1. ASSUME NEW e \in Events, CreateEvent(e)
      PROVE  TakenOut'
  BY <1>1 DEF CreateEvent, publisher
<1>2. CASE Tick
  BY <1>2 DEF Tick, publisher
<1>3. ASSUME NEW p \in Publishers, Collect(p)
      PROVE  TakenOut'
  BY <1>3 DEF Collect
<1>4. ASSUME NEW p \in Publishers, Claim(p)
      PROVE  TakenOut'
  BY <1>4 DEF Claim
<1>5. ASSUME NEW p \in Publishers,
             \/ StartTick(p) \/ EndBatch(p) \/ FailUnsupported(p) \/ CommitPublished(p)
             \/ RecordFailure(p) \/ Dispatch(p) \/ Raise(p) \/ Refetch(p) \/ Crash(p)
      PROVE  TakenOut'
  BY <1>5 DEF StartTick, EndBatch, FailUnsupported, CommitPublished, RecordFailure, Dispatch,
              Raise, Refetch, Crash
<1>6. CASE UNCHANGED vars
  BY <1>6 DEF vars, publisher
<1> QED
  BY <1>1, <1>2, <1>3, <1>4, <1>5, <1>6 DEF Next, PublisherStep

LEMMA HoldersFinite ==
  \A e : IsFiniteSet(Holders(e)) /\ Cardinality(Holders(e)) \in Nat
<1>1. ASSUME NEW e
      PROVE  IsFiniteSet(Holders(e)) /\ Cardinality(Holders(e)) \in Nat
  <2>1. Holders(e) \in SUBSET Publishers /\ IsFiniteSet(Publishers)
    BY OutboxAssumption DEF Holders
  <2> QED
    BY <2>1, FS_Subset, FS_CardinalityType
<1> QED
  BY <1>1

LEMMA OthersIsNatural == Others \in Nat
<1>1. Cardinality(Publishers) \in Nat /\ Cardinality(Publishers) # 0
  BY OutboxAssumption, FS_CardinalityType, FS_EmptySet
<1> QED
  BY <1>1 DEF Others

\* One unit more buys all the others; less doubt never costs.
LEMMA Distribute ==
  ASSUME NEW k \in Nat, NEW x \in Int
  PROVE  k * (x + 1) = k * x + k
  OBVIOUS

LEMMA Monotone ==
  ASSUME NEW k \in Nat, NEW x \in Int, NEW y \in Int, x <= y
  PROVE  k * x <= k * y
<1>1. k * (y - x) >= 0
  OBVIOUS
<1>2. k * y = k * x + k * (y - x)
  OBVIOUS
<1> QED
  BY <1>1, <1>2

LEMMA EarlyNumbers ==
  ASSUME OutboxTyped
  PROVE  \A e \in Events :
           /\ early[e] \in Nat /\ tries[e] \in Nat /\ Doubts[e] \in Nat
           /\ Impatient(e) \in Nat /\ Credit(e) \in Int
<1>1. \A e \in Events : early[e] \in Nat /\ tries[e] \in Nat /\ Doubts[e] \in Nat
  BY DoubtsAreNumbers DEF OutboxTyped, TypeOK
<1>2. \A e \in Events : Impatient(e) \in Nat
  BY HoldersFinite DEF Impatient
<1>3. \A e \in Events : Credit(e) \in Int
  BY <1>1, OthersIsNatural DEF Credit
<1> QED
  BY <1>1, <1>2, <1>3

\* Steps that dispatch nothing, and make nobody new wait.
LEMMA EarlyFrame ==
  ASSUME OutboxTyped, OutboxTyped', EarlyBounded, UNCHANGED <<early, tries>>,
         \A e \in Events :
           /\ Doubts'[e] \in Nat /\ Doubts'[e] <= Doubts[e]
           /\ row'[e].wait > 0 =>
                row[e].wait > 0 /\ Holders(e)' \in SUBSET Holders(e)
  PROVE  EarlyBounded'
<1> SUFFICES ASSUME NEW e \in Events
             PROVE  early'[e] + Impatient(e)' <= Credit(e)'
  BY DEF EarlyBounded
<1>1. Impatient(e)' <= Impatient(e) /\ Impatient(e)' \in Nat
  <2>1. CASE row'[e].wait > 0
    <3>1. Holders(e)' \in SUBSET Holders(e) /\ row[e].wait > 0
      BY <2>1
    <3>2. /\ Cardinality(Holders(e)') <= Cardinality(Holders(e))
          /\ Cardinality(Holders(e)') \in Nat
      BY <3>1, HoldersFinite, FS_Subset, FS_CardinalityType
    <3> QED
      BY <2>1, <3>1, <3>2 DEF Impatient
  <2>2. CASE ~(row'[e].wait > 0)
    BY <2>2, EarlyNumbers DEF Impatient
  <2> QED
    BY <2>1, <2>2
<1>2. Credit(e) <= Credit(e)' /\ Credit(e)' \in Int
  <2> DEFINE x == tries[e] - Doubts[e]
             y == tries[e] - Doubts'[e]
  <2>1. x \in Int /\ y \in Int /\ x <= y
    BY EarlyNumbers
  <2>2. Credit(e) = Others * x /\ Credit(e)' = Others * y
    BY DEF Credit, Others
  <2> HIDE DEF x, y
  <2> QED
    BY <2>1, <2>2, OthersIsNatural, Monotone
<1>3. early[e] + Impatient(e) <= Credit(e)
  BY DEF EarlyBounded
<1> QED
  BY <1>1, <1>2, <1>3, EarlyNumbers

\* Steps about one event.
LEMMA EarlyOfOne ==
  ASSUME EarlyBounded, NEW i \in Events,
         \A e \in Events \ {i} :
           /\ early'[e] = early[e] /\ tries'[e] = tries[e] /\ Doubts'[e] = Doubts[e]
           /\ row'[e] = row[e] /\ Holders(e)' = Holders(e),
         early'[i] + Impatient(i)' <= Credit(i)'
  PROVE  EarlyBounded'
<1>1. ASSUME NEW e \in Events \ {i}
      PROVE  early'[e] + Impatient(e)' <= Credit(e)'
  <2>1. Impatient(e)' = Impatient(e) /\ Credit(e)' = Credit(e)
    BY DEF Impatient, Credit, Others
  <2> QED
    BY <2>1 DEF EarlyBounded
<1> QED
  BY <1>1 DEF EarlyBounded

\* A dispatch, whether it raises or not, is early if the event waits, and takes its
\* publisher out of those that wait with it.
LEMMA DispatchEarly ==
  ASSUME OutboxTyped, EarlyInv, NEW p \in Publishers, NEW i \in Events, i = event[p],
         Dispatch(p) \/ Raise(p)
  PROVE  /\ early'[i] + Impatient(i)' = early[i] + Impatient(i)
         /\ \A e \in Events \ {i} : early'[e] = early[e] /\ Holders(e)' = Holders(e)
<1>1. /\ pc[p] = "locked" /\ \E phase \in {"sent", "raised"} : pc' = [pc EXCEPT ![p] = phase]
      /\ early' = [early EXCEPT ![i] = IF row[i].wait > 0 THEN @ + 1 ELSE @]
      /\ UNCHANGED <<row, batch, event>>
  BY DEF Dispatch, Raise, Goto, CountEarly
<1>2. Holders(i)' = Holders(i) \ {p} /\ p \in Holders(i)
  BY <1>1 DEF Holders, EarlyInv, TakenOut, InHand, OutboxTyped, TypeOK
<1>3. /\ Cardinality(Holders(i)') = Cardinality(Holders(i)) - 1
      /\ Cardinality(Holders(i)) \in Nat
  BY <1>2, HoldersFinite, FS_RemoveElement
<1>4. early'[i] + Impatient(i)' = early[i] + Impatient(i)
  <2>1. CASE row[i].wait > 0
    <3>1. early'[i] = early[i] + 1 /\ early[i] \in Nat
      BY <1>1, <2>1 DEF OutboxTyped, TypeOK
    <3>2. Impatient(i)' = Impatient(i) - 1 /\ Impatient(i) \in Nat
      BY <1>1, <1>3, <2>1 DEF Impatient
    <3> QED
      BY <3>1, <3>2
  <2>2. CASE ~(row[i].wait > 0)
    BY <1>1, <2>2 DEF Impatient, OutboxTyped, TypeOK
  <2> QED
    BY <2>1, <2>2
<1>5. \A e \in Events \ {i} : early'[e] = early[e] /\ Holders(e)' = Holders(e)
  BY <1>1 DEF Holders, OutboxTyped, TypeOK
<1> QED
  BY <1>4, <1>5

\* A failure that is written makes the event wait under the other publishers at most.
LEMMA FailureEarly ==
  ASSUME OutboxTyped, OutboxTyped', EarlyInv, NEW p \in Publishers, RecordFailure(p)
  PROVE  EarlyBounded'
<1>0. PICK i : i = event[p]
  OBVIOUS
<1>1. /\ i \in Events /\ pc[p] = "refetched" /\ pc' = [pc EXCEPT ![p] = "next"]
      /\ \E r : row' = [row EXCEPT ![i] = r]
      /\ UNCHANGED <<early, tries, batch, event>>
  BY <1>0 DEF RecordFailure, Goto, OutboxTyped, EventOK, InHand
<1>2. Doubts' = [Doubts EXCEPT ![i] = @ - 1] /\ Doubts[i] > 0
  BY <1>0, DoubtSettled
<1>3. /\ Doubts'[i] = Doubts[i] - 1
      /\ \A e \in Events \ {i} :
           Doubts'[e] = Doubts[e] /\ row'[e] = row[e] /\ Holders(e)' = Holders(e)
  BY <1>0, <1>1, <1>2 DEF Doubts, Holders, OutboxTyped, TypeOK
<1>4. Impatient(i)' <= Others /\ Impatient(i)' \in Nat
  <2>1. Holders(i)' \in SUBSET (Publishers \ {p})
    BY <1>0, <1>1 DEF Holders, EarlyInv, TakenOut, InHand, OutboxTyped, TypeOK
  <2>2. IsFiniteSet(Publishers \ {p}) /\ Cardinality(Publishers \ {p}) = Others
    BY OutboxAssumption, FS_RemoveElement DEF Others
  <2>3. Cardinality(Holders(i)') <= Others /\ Cardinality(Holders(i)') \in Nat
    BY <2>1, <2>2, FS_Subset, FS_CardinalityType
  <2> QED
    BY <2>3, OthersIsNatural DEF Impatient
<1>5. Credit(i)' = Credit(i) + Others
  <2> DEFINE x == tries[i] - Doubts[i]
  <2>1. x \in Int /\ tries[i] - Doubts'[i] = x + 1
    BY <1>1, <1>3, EarlyNumbers
  <2>2. Credit(i) = Others * x /\ Credit(i)' = Others * (x + 1)
    BY <1>1, <2>1 DEF Credit, Others
  <2> HIDE DEF x
  <2> QED
    BY <2>1, <2>2, OthersIsNatural, Distribute
<1>6. early[i] + Impatient(i) <= Credit(i)
  BY <1>1 DEF EarlyInv, EarlyBounded
<1>7. early'[i] + Impatient(i)' <= Credit(i)'
  BY <1>1, <1>4, <1>5, <1>6, EarlyNumbers, OthersIsNatural
<1> QED
  BY <1>1, <1>3, <1>7, EarlyOfOne DEF EarlyInv

LEMMA EarlyStep ==
  ASSUME OutboxTyped, EarlyInv, [Next]_vars
  PROVE  EarlyInv'
<1>0. OutboxTyped' /\ TakenOut' /\ EarlyBounded
  BY OutboxTypedStep, TakenOutStep DEF EarlyInv
<1>a. \A e \in Events : Doubts[e] \in Nat
  BY DoubtsAreNumbers
<1>1. ASSUME NEW e \in Events, CreateEvent(e)
      PROVE  EarlyBounded'
  <2>1. /\ UNCHANGED <<early, tries, Doubts>>
        /\ \A i \in Events : row'[i].wait = row[i].wait /\ Holders(i)' = Holders(i)
    BY <1>1 DEF CreateEvent, publisher, Doubts, InFlight, Holders, OutboxTyped, TypeOK, Rows
  <2> QED
    BY <1>0, <1>a, <2>1, EarlyFrame
<1>2. ASSUME Tick
      PROVE  EarlyBounded'
  <2>1. /\ UNCHANGED <<early, tries, Doubts>>
        /\ \A i \in Events : Holders(i)' = Holders(i)
    BY <1>2 DEF Tick, publisher, Doubts, InFlight, Holders
  <2>2. \A i \in Events : row'[i].wait > 0 => row[i].wait > 0
    BY <1>2 DEF Tick, OutboxTyped, TypeOK, Rows
  <2> QED
    BY <1>0, <1>a, <2>1, <2>2, EarlyFrame
<1>3. ASSUME NEW p \in Publishers,
             \/ StartTick(p) \/ Collect(p) \/ Claim(p) \/ EndBatch(p) \/ Refetch(p)
      PROVE  EarlyBounded'
  <2>1. UNCHANGED <<row, early, tries>>
    BY <1>3 DEF StartTick, Collect, Claim, EndBatch, Refetch
  <2>2. ASSUME NEW e \in Events, row[e].wait > 0
        PROVE  Holders(e)' \in SUBSET Holders(e)
    <3>1. CASE StartTick(p) \/ EndBatch(p) \/ Refetch(p)
      BY <3>1 DEF StartTick, EndBatch, Refetch, Goto, Holders, OutboxTyped, TypeOK
    <3>2. CASE Collect(p)
      <4>1. e \notin Oldest(Collectable)
        BY <2>2 DEF Oldest, Collectable
      <4> QED
        BY <3>2, <4>1 DEF Collect, Goto, Holders, OutboxTyped, TypeOK
    <3>3. CASE Claim(p)
      BY <3>3 DEF Claim, Goto, Holders, OutboxTyped, TypeOK
    <3> QED
      BY <1>3, <3>1, <3>2, <3>3
  <2> QED
    BY <1>0, <1>3, <1>a, <2>1, <2>2, DoubtsKept, EarlyFrame
<1>4. ASSUME NEW p \in Publishers, Dispatch(p)
      PROVE  EarlyBounded'
  <2>0. PICK i : i = event[p]
    OBVIOUS
  <2>1. i \in Events /\ UNCHANGED <<row, tries>>
    BY <1>4, <2>0 DEF Dispatch, OutboxTyped, EventOK, InHand
  <2>2. UNCHANGED Doubts
    BY <1>4, DoubtsKept
  <2>3. Credit(i)' = Credit(i)
    BY <2>1, <2>2 DEF Credit, Others
  <2>4. early'[i] + Impatient(i)' <= Credit(i)'
    BY <1>0, <1>4, <2>0, <2>1, <2>3, DispatchEarly DEF EarlyBounded
  <2>5. \A e \in Events \ {i} : early'[e] = early[e] /\ Holders(e)' = Holders(e)
    BY <1>4, <2>0, <2>1, DispatchEarly
  <2> QED
    BY <1>0, <2>1, <2>2, <2>4, <2>5, EarlyOfOne
<1>5. ASSUME NEW p \in Publishers, Raise(p)
      PROVE  EarlyBounded'
  <2>0. PICK i : i = event[p]
    OBVIOUS
  <2>1. /\ i \in Events /\ UNCHANGED row
        /\ tries'[i] = tries[i] + 1 /\ \A e \in Events \ {i} : tries'[e] = tries[e]
    BY <1>5, <2>0 DEF Raise, OutboxTyped, TypeOK, EventOK, InHand
  <2>2. Doubts' = [Doubts EXCEPT ![i] = @ + 1]
    BY <1>5, <2>0, DoubtRaised
  <2>3. Doubts'[i] = Doubts[i] + 1 /\ \A e \in Events \ {i} : Doubts'[e] = Doubts[e]
    BY <2>1, <2>2 DEF Doubts
  <2>4. Credit(i)' = Credit(i)
    <3>1. tries'[i] - Doubts'[i] = tries[i] - Doubts[i]
      BY <2>1, <2>3, EarlyNumbers
    <3> QED
      BY <3>1 DEF Credit, Others
  <2>5. early'[i] + Impatient(i)' <= Credit(i)'
    BY <1>0, <1>5, <2>0, <2>1, <2>4, DispatchEarly DEF EarlyBounded
  <2>6. \A e \in Events \ {i} : early'[e] = early[e] /\ Holders(e)' = Holders(e)
    BY <1>5, <2>0, <2>1, DispatchEarly
  <2> QED
    BY <1>0, <2>1, <2>3, <2>5, <2>6, EarlyOfOne
<1>6. ASSUME NEW p \in Publishers, FailUnsupported(p) \/ CommitPublished(p)
      PROVE  EarlyBounded'
  <2>1. PICK status : row' = [row EXCEPT ![event[p]] = Updated(row[event[p]], status)]
    BY <1>6 DEF FailUnsupported, CommitPublished
  <2>2. /\ pc' = [pc EXCEPT ![p] = "next"] /\ UNCHANGED <<early, tries, batch, event>>
        /\ event[p] \in Events
    BY <1>6 DEF FailUnsupported, CommitPublished, Goto, OutboxTyped, EventOK, InHand
  <2>3. \A e \in Events : row'[e].wait > 0 => row[e].wait > 0
    BY <2>1, <2>2 DEF Updated, Rows, OutboxTyped, TypeOK
  <2>4. \A e \in Events : Holders(e)' \in SUBSET Holders(e)
    BY <2>2 DEF Holders, OutboxTyped, TypeOK
  <2> QED
    BY <1>0, <1>6, <1>a, <2>2, <2>3, <2>4, DoubtsKept, EarlyFrame
<1>7. ASSUME NEW p \in Publishers, Crash(p)
      PROVE  EarlyBounded'
  <2>1. UNCHANGED <<row, early, tries>>
    BY <1>7 DEF Crash
  <2>2. \A e \in Events : Holders(e)' \in SUBSET Holders(e)
    BY <1>7 DEF Crash, Goto, Holders, OutboxTyped, TypeOK
  <2> QED
    BY <1>0, <1>7, <2>1, <2>2, DoubtsDropped, EarlyFrame
<1>8. ASSUME UNCHANGED vars
      PROVE  EarlyBounded'
  <2>1. /\ UNCHANGED <<row, early, tries, Doubts>>
        /\ \A i \in Events : Holders(i)' = Holders(i)
    BY <1>8 DEF vars, publisher, Doubts, InFlight, Holders
  <2> QED
    BY <1>0, <1>a, <2>1, EarlyFrame
<1> QED
  BY <1>0, <1>1, <1>2, <1>3, <1>4, <1>5, <1>6, <1>7, <1>8, FailureEarly
  DEF Next, PublisherStep, EarlyInv

\* However many publishers overlap, each failure lets every other publisher dispatch the
\* event at most once inside its back-off; one that is alone respects the back-off.
THEOREM EarlyDispatchesAreBounded == Spec => []EarlyDispatchesBounded
<1>1. ASSUME Init
      PROVE  EarlyInv
  <2>1. \A e \in Events : InFlight(e) = {} /\ Cardinality(InFlight(e)) = 0
    BY <1>1, FS_EmptySet DEF Init, InFlight
  <2>2. \A e \in Events : Doubts[e] = 0 /\ Impatient(e) = 0 /\ early[e] = 0 /\ tries[e] = 0
    BY <1>1, <2>1 DEF Init, Doubts, Impatient, NoRow
  <2>3. \A e \in Events : Credit(e) = 0
    BY <2>2, OthersIsNatural DEF Credit
  <2> QED
    BY <1>1, <2>2, <2>3 DEF Init, EarlyInv, EarlyBounded, TakenOut, InHand
<1>2. OutboxTyped /\ EarlyInv /\ [Next]_vars => EarlyInv'
  BY EarlyStep
<1>3. OutboxTyped /\ EarlyInv => EarlyDispatchesBounded
  <2> SUFFICES ASSUME OutboxTyped, EarlyInv, NEW e \in Events
               PROVE  early[e] <= Others * tries[e]
    BY DEF EarlyDispatchesBounded, Others
  <2>1. early[e] + Impatient(e) <= Credit(e)
    BY DEF EarlyInv, EarlyBounded
  <2>2. Credit(e) <= Others * tries[e] /\ Others * tries[e] \in Int
    <3> DEFINE x == tries[e] - Doubts[e]
    <3>1. x \in Int /\ tries[e] \in Int /\ x <= tries[e]
      BY EarlyNumbers
    <3>2. Credit(e) = Others * x
      BY DEF Credit
    <3> HIDE DEF x
    <3> QED
      BY <3>1, <3>2, OthersIsNatural, Monotone
  <2> QED
    BY <2>1, <2>2, EarlyNumbers
<1> QED
  BY <1>1, <1>2, <1>3, OutboxTypedAlways, PTL DEF Spec
=============================================================================
