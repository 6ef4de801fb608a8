--------------------------- MODULE JobBudgetProofs ---------------------------
(***************************************************************************)
(* The budget of a job: how many attempts JOB_MAX_RETRIES allows it.  Each *)
(* event, message and worker holds a credit of attempts that it may still  *)
(* lead to, and what all of them hold is never more than the requests and  *)
(* the faults paid for.                                                    *)
(* Then the work that is left of a job: a count that every step which is   *)
(* not a request or a fault makes smaller, and that is zero only when the  *)
(* job is settled.                                                         *)
(***************************************************************************)
EXTENDS JobPipelineProofs

-----------------------------------------------------------------------------
(* Sums.  The sum of f is the number of its units, <<x, 1>> .. <<x, f[x]>> *)
(* for each x: a definition without recursion, which the facts about        *)
(* cardinalities are enough for.                                           *)

Column(x, n) == {x} \X (1..n)

Units(f) == UNION {Column(x, f[x]) : x \in DOMAIN f}

Total(f) == Cardinality(Units(f))

Finite(f) == IsFiniteSet(Units(f))

\* f and g are two lists of terms that differ at most at x.
Change(S, f, g, x) ==
  /\ f \in [S -> Nat]
  /\ g \in [S -> Nat]
  /\ x \in S
  /\ \A y \in S \ {x} : g[y] = f[y]

\* more counts one x more than less does.
OneMore(S, less, more, x) ==
  /\ less \in [S -> Nat]
  /\ x \in S
  /\ more = [less EXCEPT ![x] = @ + 1]

Weighted(weight, count) == [x \in DOMAIN count |-> weight[x] * count[x]]

LEMMA EmptyTotal ==
  ASSUME NEW S, NEW f, DOMAIN f = S, \A x \in S : f[x] = 0
  PROVE  Finite(f) /\ Total(f) = 0
<1>1. \A x \in S : Column(x, f[x]) = {}
  BY DEF Column
<1>2. Units(f) = {}
  BY <1>1 DEF Units
<1> QED
  BY <1>2, FS_EmptySet DEF Finite, Total

LEMMA ColumnSize ==
  ASSUME NEW x, NEW n \in Nat
  PROVE  IsFiniteSet(Column(x, n)) /\ Cardinality(Column(x, n)) = n
<1>1. IsFiniteSet({x}) /\ Cardinality({x}) = 1
  BY FS_Singleton
<1>2. IsFiniteSet(1..n) /\ Cardinality(1..n) = n
  BY FS_Interval
<1>3. /\ IsFiniteSet(Column(x, n))
      /\ Cardinality(Column(x, n)) = Cardinality({x}) * Cardinality(1..n)
  BY <1>1, <1>2, FS_Product DEF Column
<1> QED
  BY <1>1, <1>2, <1>3

LEMMA ColumnsApart ==
  ASSUME NEW x, NEW y, x # y, NEW n, NEW m, NEW p \in Column(x, n)
  PROVE  p \notin Column(y, m)
  BY DEF Column

LEMMA DisjointUnion ==
  ASSUME NEW S, NEW T, IsFiniteSet(S), IsFiniteSet(T), S \cap T = {}
  PROVE  IsFiniteSet(S \cup T) /\ Cardinality(S \cup T) = Cardinality(S) + Cardinality(T)
<1>1. /\ IsFiniteSet(S \cup T)
      /\ Cardinality(S \cup T) = Cardinality(S) + Cardinality(T) - Cardinality(S \cap T)
  BY FS_Union
<1>2. Cardinality(S \cap T) = 0
  BY FS_EmptySet
<1>3. Cardinality(S) \in Nat /\ Cardinality(T) \in Nat
  BY FS_CardinalityType
<1> QED
  BY <1>1, <1>2, <1>3

\* Changing one term changes the sum by as much.
LEMMA TotalUpdate ==
  ASSUME NEW S, NEW f, NEW g, NEW x, Change(S, f, g, x), Finite(f)
  PROVE  /\ Finite(g)
         /\ Total(f) \in Nat
         /\ Total(g) \in Nat
         /\ f[x] <= Total(f)
         /\ Total(g) = Total(f) - f[x] + g[x]
<1> DEFINE Old == Column(x, f[x])
           New == Column(x, g[x])
           Rest == UNION {Column(y, f[y]) : y \in S \ {x}}
<1>0. f[x] \in Nat /\ g[x] \in Nat
  BY DEF Change
<1>1. IsFiniteSet(Old) /\ Cardinality(Old) = f[x]
  BY <1>0, ColumnSize
<1>2. IsFiniteSet(New) /\ Cardinality(New) = g[x]
  BY <1>0, ColumnSize
<1>3. Units(f) = Rest \cup Old
  BY DEF Change, Units
<1>4. Units(g) = Rest \cup New
  BY DEF Change, Units
<1>5. Rest \cap Old = {} /\ Rest \cap New = {}
  BY ColumnsApart
<1> HIDE DEF Old, New, Rest
<1>6. IsFiniteSet(Rest)
  BY <1>3, FS_Subset DEF Finite
<1>7. Cardinality(Units(f)) = Cardinality(Rest) + Cardinality(Old)
  BY <1>1, <1>3, <1>5, <1>6, DisjointUnion
<1>8. IsFiniteSet(Units(g)) /\ Cardinality(Units(g)) = Cardinality(Rest) + Cardinality(New)
  BY <1>2, <1>4, <1>5, <1>6, DisjointUnion
<1>9. Cardinality(Rest) \in Nat
  BY <1>6, FS_CardinalityType
<1> QED
  BY <1>0, <1>1, <1>2, <1>7, <1>8, <1>9 DEF Finite, Total

LEMMA TotalNat ==
  ASSUME NEW f, Finite(f)
  PROVE  Total(f) \in Nat
  BY FS_CardinalityType DEF Finite, Total

LEMMA Distributes ==
  ASSUME NEW a \in Nat, NEW b \in Nat
  PROVE  /\ a * b \in Nat
         /\ a * (b + 1) = a * b + a
  OBVIOUS

LEMMA OneLess ==
  ASSUME NEW S, NEW more, more \in [S -> Nat], NEW x \in S, more[x] > 0,
         NEW less, less = [more EXCEPT ![x] = @ - 1]
  PROVE  OneMore(S, less, more, x)
<1>1. less \in [S -> Nat] /\ less[x] + 1 = more[x]
  OBVIOUS
<1>2. \A y \in S : more[y] = [less EXCEPT ![x] = @ + 1][y]
  BY <1>1
<1>3. more = [less EXCEPT ![x] = @ + 1]
  BY <1>1, <1>2
<1> QED
  BY <1>1, <1>3 DEF OneMore

\* A weighted sum of counts grows by the weight of what is counted once more.
LEMMA WeightedSum ==
  ASSUME NEW S, NEW less, NEW more, NEW x, OneMore(S, less, more, x),
         NEW weight, weight \in [S -> Nat],
         Finite(Weighted(weight, less)) \/ Finite(Weighted(weight, more))
  PROVE  /\ Finite(Weighted(weight, less)) /\ Finite(Weighted(weight, more))
         /\ Total(Weighted(weight, less)) \in Nat
         /\ Total(Weighted(weight, more)) = Total(Weighted(weight, less)) + weight[x]
<1> DEFINE f == Weighted(weight, less)
           g == Weighted(weight, more)
<1>1. less \in [S -> Nat] /\ more \in [S -> Nat] /\ more[x] = less[x] + 1 /\ x \in S
  BY DEF OneMore
<1>2. \A y \in S : weight[y] * less[y] \in Nat /\ weight[y] * more[y] \in Nat
  BY <1>1, Distributes
<1>3. f \in [S -> Nat] /\ g \in [S -> Nat]
  BY <1>1, <1>2 DEF Weighted
<1>4. \A y \in S \ {x} : g[y] = f[y]
  BY <1>1 DEF OneMore, Weighted
<1>5. Change(S, f, g, x) /\ Change(S, g, f, x)
  BY <1>1, <1>3, <1>4 DEF Change
<1>6. g[x] = f[x] + weight[x]
  BY <1>1, Distributes DEF Weighted
<1>7. f[x] \in Nat /\ g[x] \in Nat /\ weight[x] \in Nat
  BY <1>1, <1>3
<1>8. Finite(f) \/ Finite(g)
  OBVIOUS
<1>9. /\ Finite(f) /\ Finite(g)
      /\ Total(f) \in Nat /\ Total(g) \in Nat
      /\ Total(g) = Total(f) - f[x] + g[x]
  <2> HIDE DEF f, g
  <2>1. Finite(f) /\ Finite(g)
    BY <1>5, <1>8, TotalUpdate
  <2> QED
    BY <1>5, <2>1, TotalUpdate
<1> HIDE DEF f, g
<1>10. Total(g) = Total(f) + weight[x]
  BY <1>6, <1>7, <1>9
<1> QED
  BY <1>9, <1>10 DEF f, g

-----------------------------------------------------------------------------
(* The attempts that a job may still get.                                  *)

Tries == MaxRetries + 1

EventWeight == [n \in PublishRetries |-> Tries]

MessageWeight == [r \in Retries |-> Tries - r]

EventCredit(j) == Weighted(EventWeight, pending[j])

MessageCredit(j) == Weighted(MessageWeight, queue[j])

\* What a worker with message m may still lead to: its attempt and the retries after it.
Held(phase, m, j) ==
  IF m.job # j THEN 0
  ELSE IF phase \in {"received", "executing"} THEN Tries - m.retries
  ELSE IF phase = "retrying" THEN MaxRetries - m.retries
  ELSE 0

WorkerCredit(j) == [w \in Workers |-> Held(pc[w], task[w], j)]

\* The sweeper will dispatch a RUNNING job once more.
RowCredit(j) == IF status[j] = "running" THEN Tries ELSE 0

Outstanding(j) ==
  Total(EventCredit(j)) + Total(MessageCredit(j)) + Total(WorkerCredit(j)) + RowCredit(j)

Budget(j) == Tries * (submissions[j] + reruns[j] + faults)

CreditsFinite(j) ==
  Finite(EventCredit(j)) /\ Finite(MessageCredit(j)) /\ Finite(WorkerCredit(j))

WithinBudget(j) == CreditsFinite(j) /\ attempts[j] + Outstanding(j) <= Budget(j)

\* The inductive invariant: the attempts that were made and those that are
\* outstanding are within the budget.
BudgetInv == \A j \in Jobs : WithinBudget(j)

LEMMA Weights ==
  /\ Tries \in Nat /\ Tries = MaxRetries + 1
  /\ EventWeight \in [PublishRetries -> Nat]
  /\ MessageWeight \in [Retries -> Nat]
  BY ConstantsAssumption DEF Tries, EventWeight, MessageWeight, Retries

LEMMA EventSum ==
  ASSUME NEW less, NEW more, NEW n, OneMore(PublishRetries, less, more, n),
         Finite(Weighted(EventWeight, less)) \/ Finite(Weighted(EventWeight, more))
  PROVE  /\ Finite(Weighted(EventWeight, less)) /\ Finite(Weighted(EventWeight, more))
         /\ Total(Weighted(EventWeight, less)) \in Nat
         /\ Total(Weighted(EventWeight, more)) = Total(Weighted(EventWeight, less)) + Tries
<1>1. EventWeight[n] = Tries
  BY DEF OneMore, EventWeight
<1> QED
  BY <1>1, Weights, WeightedSum

LEMMA MessageSum ==
  ASSUME NEW less, NEW more, NEW r, OneMore(Retries, less, more, r),
         Finite(Weighted(MessageWeight, less)) \/ Finite(Weighted(MessageWeight, more))
  PROVE  /\ Finite(Weighted(MessageWeight, less)) /\ Finite(Weighted(MessageWeight, more))
         /\ Total(Weighted(MessageWeight, less)) \in Nat
         /\ Total(Weighted(MessageWeight, more)) =
              Total(Weighted(MessageWeight, less)) + (Tries - r)
<1>1. MessageWeight[r] = Tries - r
  BY DEF OneMore, MessageWeight
<1> QED
  BY <1>1, Weights, WeightedSum

LEMMA EventGain ==
  ASSUME OutboxOK, NEW j \in Jobs, NEW n \in PublishRetries, Finite(EventCredit(j)),
         pending'[j] = [pending[j] EXCEPT ![n] = @ + 1]
  PROVE  /\ Finite(EventCredit(j))'
         /\ Total(EventCredit(j))' = Total(EventCredit(j)) + Tries
<1>1. OneMore(PublishRetries, pending[j], pending'[j], n)
  BY DEF OneMore, OutboxOK
<1> QED
  BY <1>1, EventSum DEF EventCredit

LEMMA MessageGain ==
  ASSUME QueueOK, NEW j \in Jobs, NEW r \in Retries, Finite(MessageCredit(j)), Enqueue(j, r)
  PROVE  /\ Finite(MessageCredit(j))'
         /\ Total(MessageCredit(j))' = Total(MessageCredit(j)) + (Tries - r)
         /\ \A i \in Jobs \ {j} : queue'[i] = queue[i]
<1>1. queue' = [queue EXCEPT ![j] = [queue[j] EXCEPT ![r] = @ + 1]]
  BY DEF Enqueue
<1>2. OneMore(Retries, queue[j], queue'[j], r)
  BY <1>1 DEF OneMore, QueueOK
<1>3. /\ Finite(MessageCredit(j))'
      /\ Total(MessageCredit(j))' = Total(MessageCredit(j)) + (Tries - r)
  BY <1>2, MessageSum DEF MessageCredit
<1>4. \A i \in Jobs \ {j} : queue'[i] = queue[i]
  BY <1>1 DEF QueueOK
<1> QED
  BY <1>3, <1>4

LEMMA MessageLoss ==
  ASSUME QueueOK, NEW j \in Jobs, NEW r \in Retries, Finite(MessageCredit(j)),
         queue[j][r] > 0, queue' = [queue EXCEPT ![j][r] = @ - 1]
  PROVE  /\ Finite(MessageCredit(j))'
         /\ Total(MessageCredit(j))' \in Nat
         /\ Total(MessageCredit(j)) = Total(MessageCredit(j))' + (Tries - r)
         /\ \A i \in Jobs \ {j} : queue'[i] = queue[i]
<1>1. queue' = [queue EXCEPT ![j] = [queue[j] EXCEPT ![r] = @ - 1]]
  OBVIOUS
<1>2. OneMore(Retries, queue'[j], queue[j], r)
  <2>1. queue'[j] = [queue[j] EXCEPT ![r] = @ - 1] /\ queue[j] \in [Retries -> Nat]
    BY <1>1 DEF QueueOK
  <2> QED
    BY <2>1, OneLess
<1>3. /\ Finite(MessageCredit(j))'
      /\ Total(MessageCredit(j))' \in Nat
      /\ Total(MessageCredit(j)) = Total(MessageCredit(j))' + (Tries - r)
  BY <1>2, MessageSum DEF MessageCredit
<1>4. \A i \in Jobs \ {j} : queue'[i] = queue[i]
  BY <1>1 DEF QueueOK
<1> QED
  BY <1>3, <1>4

LEMMA HeldNat ==
  ASSUME WorkersOK, NEW w \in Workers, NEW j \in Jobs
  PROVE  Held(pc[w], task[w], j) \in Nat /\ Held(pc[w], task[w], j) <= Tries
<1>1. /\ task[w].retries \in Nat /\ task[w].retries <= MaxRetries
      /\ pc[w] = "retrying" => task[w].retries < MaxRetries
  BY ConstantsAssumption DEF WorkersOK, Tasks, Retries
<1> QED
  BY <1>1, ConstantsAssumption DEF Held, Tries

LEMMA HeldNatNext ==
  ASSUME WorkersOK', NEW w \in Workers, NEW j \in Jobs
  PROVE  Held(pc'[w], task'[w], j) \in Nat
<1>1. /\ task'[w].retries \in Nat /\ task'[w].retries <= MaxRetries
      /\ pc'[w] = "retrying" => task'[w].retries < MaxRetries
  BY ConstantsAssumption DEF WorkersOK, Tasks, Retries
<1> QED
  BY <1>1, ConstantsAssumption DEF Held, Tries

\* A step of one worker changes its own term only.
LEMMA WorkerChange ==
  ASSUME WorkersOK, WorkersOK', NEW w \in Workers, NEW j \in Jobs,
         \A v \in Workers \ {w} : pc'[v] = pc[v] /\ task'[v] = task[v],
         Finite(WorkerCredit(j))
  PROVE  /\ Finite(WorkerCredit(j))'
         /\ Total(WorkerCredit(j)) \in Nat
         /\ Total(WorkerCredit(j))' \in Nat
         /\ Total(WorkerCredit(j))' =
              Total(WorkerCredit(j)) - Held(pc[w], task[w], j) + Held(pc'[w], task'[w], j)
<1> DEFINE f == WorkerCredit(j)
           g == [v \in Workers |-> Held(pc'[v], task'[v], j)]
<1>1. f \in [Workers -> Nat] /\ g \in [Workers -> Nat]
  BY HeldNat, HeldNatNext DEF WorkerCredit
<1>2. Change(Workers, f, g, w)
  BY <1>1 DEF WorkerCredit, Change
<1>3. f' = g /\ f[w] = Held(pc[w], task[w], j) /\ g[w] = Held(pc'[w], task'[w], j)
  BY DEF WorkerCredit
<1>4. Finite(f)
  OBVIOUS
<1>5. Finite(g) /\ Total(f) \in Nat /\ Total(g) \in Nat /\ Total(g) = Total(f) - f[w] + g[w]
  <2> HIDE DEF f, g
  <2> QED
    BY <1>2, <1>4, TotalUpdate
<1>6. Finite(f)' = Finite(g) /\ Total(f)' = Total(g)
  BY <1>3 DEF Finite, Total, Units
<1> QED
  BY <1>3, <1>5, <1>6

LEMMA Amounts ==
  ASSUME TypeOK, NEW j \in Jobs, CreditsFinite(j)
  PROVE  /\ attempts[j] \in Nat
         /\ Total(EventCredit(j)) \in Nat
         /\ Total(MessageCredit(j)) \in Nat
         /\ Total(WorkerCredit(j)) \in Nat
         /\ RowCredit(j) \in Nat /\ RowCredit(j) <= Tries
         /\ Budget(j) \in Nat
<1>1. submissions[j] + reruns[j] + faults \in Nat
  BY DEF TypeOK, CountersOK
<1>2. Budget(j) \in Nat
  BY <1>1, Weights, Distributes DEF Budget
<1>3. RowCredit(j) \in Nat /\ RowCredit(j) <= Tries
  BY Weights DEF RowCredit
<1> QED
  BY <1>2, <1>3, TotalNat DEF CreditsFinite, TypeOK, RowsOK

\* A request or a fault pays for one more chain of retries.
LEMMA Paid ==
  ASSUME TypeOK, NEW j \in Jobs,
         submissions'[j] + reruns'[j] + faults' = submissions[j] + reruns[j] + faults + 1
  PROVE  Budget(j)' = Budget(j) + Tries
<1>1. submissions[j] + reruns[j] + faults \in Nat
  BY DEF TypeOK, CountersOK
<1> QED
  BY <1>1, Weights, Distributes DEF Budget

\* A job whose carriers, row and requests a step leaves alone stays within its budget.
LEMMA BudgetFrame ==
  ASSUME TypeOK, BudgetInv, NEW j \in Jobs,
         pending'[j] = pending[j], queue'[j] = queue[j], UNCHANGED <<pc, task>>,
         status'[j] = status[j], attempts'[j] = attempts[j],
         submissions'[j] = submissions[j], reruns'[j] = reruns[j],
         faults' = faults \/ faults' = faults + 1
  PROVE  WithinBudget(j)'
<1>1. WithinBudget(j)
  BY DEF BudgetInv
<1>2. CreditsFinite(j)' /\ (attempts[j] + Outstanding(j))' = attempts[j] + Outstanding(j)
  <2>1. /\ EventCredit(j)' = EventCredit(j)
        /\ MessageCredit(j)' = MessageCredit(j)
        /\ WorkerCredit(j)' = WorkerCredit(j)
        /\ RowCredit(j)' = RowCredit(j)
    BY DEF EventCredit, MessageCredit, WorkerCredit, RowCredit
  <2> QED
    BY <1>1, <2>1 DEF WithinBudget, CreditsFinite, Outstanding, Finite, Total, Units
<1>3. attempts[j] + Outstanding(j) \in Nat /\ Budget(j) \in Nat
  BY <1>1, Amounts DEF WithinBudget, Outstanding
<1>4. CASE faults' = faults
  BY <1>1, <1>2, <1>4 DEF WithinBudget, Budget
<1>5. CASE faults' = faults + 1
  <2>1. Budget(j)' = Budget(j) + Tries
    <3>1. submissions'[j] + reruns'[j] + faults' = submissions[j] + reruns[j] + faults + 1
      BY <1>5 DEF TypeOK, CountersOK
    <3> QED
      BY <3>1, Paid
  <2> QED
    BY <1>1, <1>2, <1>3, <2>1, Weights DEF WithinBudget
<1> QED
  BY <1>4, <1>5

LEMMA RequestsBudget ==
  ASSUME TypeOK, BudgetInv, NEW j \in Jobs,
         SubmitNew(j) \/ SubmitAgain(j) \/ RetryFromDlq(j)
  PROVE  BudgetInv'
<1>1. /\ UNCHANGED <<attempts, queue, pc, task, faults>>
      /\ status'[j] = status[j] \/ status'[j] = "pending"
      /\ \A i \in Jobs \ {j} : status'[i] = status[i]
  BY DEF SubmitNew, SubmitAgain, RetryFromDlq, rows, worker, TypeOK, RowsOK, broker
<1>2. /\ pending'[j] = [pending[j] EXCEPT ![0] = @ + 1]
      /\ \A i \in Jobs \ {j} : pending'[i] = pending[i]
  BY DEF SubmitNew, SubmitAgain, RetryFromDlq, CreateEvents
<1>3. /\ submissions'[j] + reruns'[j] + faults' = submissions[j] + reruns[j] + faults + 1
      /\ \A i \in Jobs \ {j} : submissions'[i] = submissions[i] /\ reruns'[i] = reruns[i]
  BY DEF SubmitNew, SubmitAgain, RetryFromDlq, Submission, TypeOK, CountersOK
<1>4. ASSUME NEW i \in Jobs \ {j} PROVE WithinBudget(i)'
  BY <1>1, <1>2, <1>3, BudgetFrame
<1>5. WithinBudget(j)'
  <2>1. WithinBudget(j)
    BY DEF BudgetInv
  <2>2. 0 \in PublishRetries
    BY ConstantsAssumption DEF PublishRetries
  <2>3. Finite(EventCredit(j))' /\ Total(EventCredit(j))' = Total(EventCredit(j)) + Tries
    BY <1>2, <2>1, <2>2, EventGain DEF WithinBudget, CreditsFinite, TypeOK
  <2>4. MessageCredit(j)' = MessageCredit(j) /\ WorkerCredit(j)' = WorkerCredit(j)
    BY <1>1 DEF MessageCredit, WorkerCredit
  <2>5. CreditsFinite(j)'
    BY <2>1, <2>3, <2>4 DEF WithinBudget, CreditsFinite, Finite, Units
  <2>6. RowCredit(j)' = RowCredit(j) \/ RowCredit(j)' = 0
    BY <1>1 DEF RowCredit
  <2>7. Budget(j)' = Budget(j) + Tries
    BY <1>3, Paid
  <2>8. /\ Total(MessageCredit(j))' = Total(MessageCredit(j))
        /\ Total(WorkerCredit(j))' = Total(WorkerCredit(j))
    BY <2>4 DEF Total, Units
  <2> QED
    BY <1>1, <2>1, <2>3, <2>5, <2>6, <2>7, <2>8, Amounts, Weights DEF WithinBudget, Outstanding
<1> QED
  BY <1>4, <1>5 DEF BudgetInv

LEMMA SweepBudget ==
  ASSUME TypeOK, BudgetInv, Sweep
  PROVE  BudgetInv'
<1>1. PICK J \in SUBSET Sweepable :
        /\ status' = [j \in Jobs |-> IF j \in J THEN "pending" ELSE status[j]]
        /\ CreateEvents(J)
  BY DEF Sweep
<1>2. UNCHANGED <<attempts, queue, pc, task, submissions, reruns, faults>>
  BY DEF Sweep, worker, broker, requests
<1>3. ASSUME NEW j \in Jobs \ J PROVE WithinBudget(j)'
  <2>1. status'[j] = status[j] /\ pending'[j] = pending[j]
    BY <1>1 DEF CreateEvents
  <2> QED
    BY <1>2, <2>1, BudgetFrame
<1>4. ASSUME NEW j \in J PROVE WithinBudget(j)'
  <2>0. j \in Jobs /\ status[j] = "running"
    BY DEF Sweepable
  <2>1. WithinBudget(j)
    BY <2>0 DEF BudgetInv
  <2>2. 0 \in PublishRetries
    BY ConstantsAssumption DEF PublishRetries
  <2>3. pending'[j] = [pending[j] EXCEPT ![0] = @ + 1]
    BY <1>1, <2>0 DEF CreateEvents
  <2>4. Finite(EventCredit(j))' /\ Total(EventCredit(j))' = Total(EventCredit(j)) + Tries
    BY <2>0, <2>1, <2>2, <2>3, EventGain DEF WithinBudget, CreditsFinite, TypeOK
  <2>5. MessageCredit(j)' = MessageCredit(j) /\ WorkerCredit(j)' = WorkerCredit(j)
    BY <1>2 DEF MessageCredit, WorkerCredit
  <2>6. CreditsFinite(j)'
    BY <2>1, <2>4, <2>5 DEF WithinBudget, CreditsFinite, Finite, Units
  <2>7. RowCredit(j) = Tries /\ RowCredit(j)' = 0
    BY <1>1, <2>0 DEF RowCredit
  <2>8. Budget(j)' = Budget(j) /\ attempts'[j] = attempts[j]
    BY <1>2 DEF Budget
  <2>9. /\ Total(MessageCredit(j))' = Total(MessageCredit(j))
        /\ Total(WorkerCredit(j))' = Total(WorkerCredit(j))
    BY <2>5 DEF Total, Units
  <2> QED
    BY <2>0, <2>1, <2>4, <2>6, <2>7, <2>8, <2>9, Amounts, Weights DEF WithinBudget, Outstanding
<1> QED
  BY <1>3, <1>4 DEF BudgetInv

LEMMA PublisherBudget ==
  ASSUME TypeOK, BudgetInv, NEW j \in Jobs, NEW n \in PublishRetries,
         Publish(j, n) \/ PublishUnmarked(j, n) \/ PublishFails(j, n)
  PROVE  BudgetInv'
<1>0. /\ pending[j][n] > 0 /\ 0 \in Retries /\ n \in Nat
      /\ WithinBudget(j)
  BY ConstantsAssumption DEF Publish, PublishUnmarked, PublishFails, Retries, PublishRetries,
     BudgetInv
<1>1. /\ UNCHANGED <<status, attempts, pc, task, submissions, reruns>>
      /\ faults' = faults \/ faults' = faults + 1
  BY DEF Publish, PublishUnmarked, PublishFails, Fault, rows, worker, broker, requests
<1>2. \A i \in Jobs \ {j} : pending'[i] = pending[i]
  BY DEF Publish, PublishUnmarked, PublishFails, outbox, broker, TypeOK, OutboxOK
<1>3. \A i \in Jobs \ {j} : queue'[i] = queue[i]
  BY DEF Publish, PublishUnmarked, PublishFails, Enqueue, TypeOK, QueueOK, broker
<1>4. ASSUME NEW i \in Jobs \ {j} PROVE WithinBudget(i)'
  BY <1>1, <1>2, <1>3, BudgetFrame
<1>5. /\ Finite(EventCredit(j)) /\ Finite(MessageCredit(j)) /\ Finite(WorkerCredit(j))
      /\ OutboxOK /\ QueueOK
  BY <1>0 DEF WithinBudget, CreditsFinite, TypeOK
<1>6. /\ Finite(WorkerCredit(j))' /\ Total(WorkerCredit(j))' = Total(WorkerCredit(j))
      /\ RowCredit(j)' = RowCredit(j)
  <2>1. WorkerCredit(j)' = WorkerCredit(j)
    BY <1>1 DEF WorkerCredit
  <2> QED
    BY <1>1, <1>5, <2>1 DEF Finite, Total, Units, RowCredit
<1>7. ASSUME Publish(j, n) PROVE WithinBudget(j)'
  <2>1. OneMore(PublishRetries, pending'[j], pending[j], n)
    <3>1. pending' = [pending EXCEPT ![j] = [pending[j] EXCEPT ![n] = @ - 1]]
      BY <1>7 DEF Publish
    <3>2. /\ pending'[j] = [pending[j] EXCEPT ![n] = @ - 1]
          /\ pending[j] \in [PublishRetries -> Nat]
      BY <1>5, <3>1 DEF OutboxOK
    <3> QED
      BY <1>0, <3>2, OneLess
  <2>2. Finite(EventCredit(j))' /\ Total(EventCredit(j)) = Total(EventCredit(j))' + Tries
    BY <1>5, <2>1, EventSum DEF EventCredit
  <2>3. Finite(MessageCredit(j))' /\ Total(MessageCredit(j))' = Total(MessageCredit(j)) + (Tries - 0)
    BY <1>0, <1>5, <1>7, MessageGain DEF Publish
  <2>4. Total(EventCredit(j))' \in Nat
    BY <2>2, TotalNat DEF Finite, Total
  <2>5. Budget(j)' = Budget(j)
    BY <1>1, <1>7 DEF Publish, Budget
  <2> QED
    BY <1>0, <1>1, <1>6, <2>2, <2>3, <2>4, <2>5, Amounts, Weights
    DEF WithinBudget, CreditsFinite, Outstanding
<1>8. ASSUME PublishUnmarked(j, n) PROVE WithinBudget(j)'
  <2>1. Finite(EventCredit(j))' /\ Total(EventCredit(j))' = Total(EventCredit(j))
    <3>1. EventCredit(j)' = EventCredit(j)
      BY <1>8 DEF PublishUnmarked, outbox, broker, EventCredit
    <3> QED
      BY <1>5, <3>1 DEF Finite, Total, Units
  <2>2. Finite(MessageCredit(j))' /\ Total(MessageCredit(j))' = Total(MessageCredit(j)) + (Tries - 0)
    BY <1>0, <1>5, <1>8, MessageGain DEF PublishUnmarked
  <2>3. Budget(j)' = Budget(j) + Tries
    BY <1>1, <1>8, Paid DEF PublishUnmarked, Fault, TypeOK, CountersOK
  <2> QED
    BY <1>0, <1>1, <1>6, <2>1, <2>2, <2>3, Amounts, Weights
    DEF WithinBudget, CreditsFinite, Outstanding
<1>9. ASSUME PublishFails(j, n) PROVE WithinBudget(j)'
  <2>1. Finite(MessageCredit(j))' /\ Total(MessageCredit(j))' = Total(MessageCredit(j))
    <3>1. MessageCredit(j)' = MessageCredit(j)
      BY <1>9 DEF PublishFails, MessageCredit, broker
    <3> QED
      BY <1>5, <3>1 DEF Finite, Total, Units
  <2>2. Budget(j)' = Budget(j) + Tries
    BY <1>1, <1>9, Paid DEF PublishFails, Fault, TypeOK, CountersOK
  <2>3. PICK less : less = [pending[j] EXCEPT ![n] = @ - 1]
    OBVIOUS
  <2> DEFINE rest == Weighted(EventWeight, less)
  <2>4. OneMore(PublishRetries, less, pending[j], n)
    <3>1. pending[j] \in [PublishRetries -> Nat]
      BY <1>5 DEF OutboxOK
    <3> QED
      BY <1>0, <2>3, <3>1, OneLess
  <2>5. Finite(rest) /\ Total(rest) \in Nat /\ Total(EventCredit(j)) = Total(rest) + Tries
    BY <1>5, <2>4, EventSum DEF EventCredit
  <2>6. CASE n + 1 > MaxPublishRetries
    <3>1. pending'[j] = less
      BY <1>9, <2>3, <2>6 DEF PublishFails, TypeOK, OutboxOK
    <3>2. Finite(EventCredit(j))' /\ Total(EventCredit(j))' = Total(rest)
      BY <2>5, <3>1 DEF EventCredit
    <3> QED
      BY <1>0, <1>1, <1>6, <2>1, <2>2, <2>5, <3>2, Amounts, Weights
      DEF WithinBudget, CreditsFinite, Outstanding
  <2>7. CASE ~(n + 1 > MaxPublishRetries)
    <3>1. n + 1 \in PublishRetries
      BY <1>0, <2>7, ConstantsAssumption DEF PublishRetries
    <3>2. pending'[j] = [less EXCEPT ![n + 1] = @ + 1]
      BY <1>9, <2>3, <2>7 DEF PublishFails, TypeOK, OutboxOK
    <3>3. OneMore(PublishRetries, less, pending'[j], n + 1)
      BY <2>4, <3>1, <3>2 DEF OneMore
    <3>4. Finite(EventCredit(j))' /\ Total(EventCredit(j))' = Total(rest) + Tries
      BY <2>5, <3>3, EventSum DEF EventCredit
    <3> QED
      BY <1>0, <1>1, <1>6, <2>1, <2>2, <2>5, <3>4, Amounts, Weights
      DEF WithinBudget, CreditsFinite, Outstanding
  <2> QED
    BY <2>6, <2>7
<1>10. WithinBudget(j)'
  BY <1>7, <1>8, <1>9
<1> QED
  BY <1>4, <1>10 DEF BudgetInv

\* What a step of worker w about job i may change of the outstanding attempts of i.
Balance(w, i) ==
  Held(pc[w], task[w], i) + Total(MessageCredit(i)) + RowCredit(i) + attempts[i]

\* Worker w moves, and its step is about job i.
Moves(w, i) ==
  /\ \A v \in Workers \ {w} : pc'[v] = pc[v] /\ task'[v] = task[v]
  /\ task[w].job \in {i, NoJob} /\ task'[w].job \in {i, NoJob}
  /\ UNCHANGED <<pending, submissions, reruns>>
  /\ \A j \in Jobs \ {i} : /\ queue'[j] = queue[j]
                           /\ status'[j] = status[j]
                           /\ attempts'[j] = attempts[j]

\* A worker's step adds nothing to the balance of its job, or a fault pays for it.
LEMMA WorkerBudget ==
  ASSUME TypeOK, TypeOK', BudgetInv, NEW w \in Workers, NEW i \in Jobs,
         Moves(w, i), Finite(MessageCredit(i))',
         \/ faults' = faults /\ Balance(w, i)' <= Balance(w, i)
         \/ faults' = faults + 1 /\ Balance(w, i)' <= Balance(w, i) + Tries
  PROVE  BudgetInv'
<1> USE DEF TypeOK
<1>1. NoJob \notin Jobs
  BY ConstantsAssumption
<1>2. \A j \in Jobs : WithinBudget(j)
  BY DEF BudgetInv
<1>3. ASSUME NEW j \in Jobs
      PROVE  /\ Finite(WorkerCredit(j))'
             /\ Total(WorkerCredit(j))' \in Nat
             /\ Total(WorkerCredit(j)) \in Nat
             /\ Total(WorkerCredit(j))' =
                  Total(WorkerCredit(j)) - Held(pc[w], task[w], j) + Held(pc'[w], task'[w], j)
             /\ Held(pc[w], task[w], j) \in Nat
             /\ Held(pc'[w], task'[w], j) \in Nat
  BY <1>2, WorkerChange, HeldNat, HeldNatNext DEF Moves, WithinBudget, CreditsFinite
<1>4. ASSUME NEW j \in Jobs
      PROVE  Finite(EventCredit(j))' /\ Total(EventCredit(j))' = Total(EventCredit(j))
  <2>1. EventCredit(j)' = EventCredit(j) /\ Finite(EventCredit(j))
    BY <1>2 DEF Moves, EventCredit, WithinBudget, CreditsFinite
  <2> QED
    BY <2>1 DEF Finite, Total, Units
<1>5. ASSUME NEW j \in Jobs
      PROVE  /\ faults' = faults => Budget(j)' = Budget(j)
             /\ faults' = faults + 1 => Budget(j)' = Budget(j) + Tries
  <2>1. faults' = faults => Budget(j)' = Budget(j)
    BY DEF Moves, Budget
  <2>2. faults' = faults + 1 => Budget(j)' = Budget(j) + Tries
    BY Paid DEF Moves, CountersOK
  <2> QED
    BY <2>1, <2>2
<1>6. ASSUME NEW j \in Jobs \ {i} PROVE WithinBudget(j)'
  <2>1. /\ Held(pc[w], task[w], j) = 0 /\ Held(pc'[w], task'[w], j) = 0
    BY <1>1 DEF Moves, Held
  <2>2. Finite(MessageCredit(j))' /\ Total(MessageCredit(j))' = Total(MessageCredit(j))
    <3>1. MessageCredit(j)' = MessageCredit(j) /\ Finite(MessageCredit(j))
      BY <1>2 DEF Moves, MessageCredit, WithinBudget, CreditsFinite
    <3> QED
      BY <3>1 DEF Finite, Total, Units
  <2>3. RowCredit(j)' = RowCredit(j) /\ attempts'[j] = attempts[j]
    BY DEF Moves, RowCredit
  <2> QED
    BY <1>2, <1>3, <1>4, <1>5, <2>1, <2>2, <2>3, Amounts, Weights
    DEF WithinBudget, CreditsFinite, Outstanding
<1>7. WithinBudget(i)'
  <2>1. Total(MessageCredit(i))' \in Nat
    BY TotalNat DEF Finite, Total
  <2>2. RowCredit(i)' \in Nat /\ attempts'[i] \in Nat
    BY Weights DEF RowCredit, RowsOK
  <2>3. WithinBudget(i)
    BY <1>2
  <2>4. CreditsFinite(i)'
    BY <1>3, <1>4 DEF CreditsFinite
  <2>5. attempts'[i] + Outstanding(i)' <= Budget(i)'
    BY <1>3, <1>4, <1>5, <2>1, <2>2, <2>3, Amounts, Weights
    DEF WithinBudget, Outstanding, Balance
  <2> QED
    BY <2>4, <2>5 DEF WithinBudget
<1> QED
  BY <1>6, <1>7 DEF BudgetInv

\* A step of a busy worker moves its own job.
LEMMA BusyMoves ==
  ASSUME TypeOK, NEW w \in Workers, pc[w] # "idle",
         \/ Release(w)
         \/ \E phase \in Phases : Goto(w, phase)
         \/ UNCHANGED worker,
         UNCHANGED <<pending, submissions, reruns>>,
         \A j \in Jobs \ {task[w].job} : /\ queue'[j] = queue[j]
                                         /\ status'[j] = status[j]
                                         /\ attempts'[j] = attempts[j]
  PROVE  /\ task[w].job \in Jobs
         /\ Moves(w, task[w].job)
<1>1. task[w].job \in Jobs
  BY BusyTask DEF TypeOK
<1>2. \A v \in Workers \ {w} : pc'[v] = pc[v] /\ task'[v] = task[v]
  BY DEF Release, Goto, worker, TypeOK, WorkersOK
<1>3. task'[w].job \in {task[w].job, NoJob}
  BY DEF Release, Goto, worker, NoTask, TypeOK, WorkersOK
<1> QED
  BY <1>1, <1>2, <1>3 DEF Moves

\* The end of an attempt: its number is used up, and what the worker still holds is
\* the retry, if there is one.
LEMMA AttemptBudget ==
  ASSUME TypeOK, NEW w \in Workers, pc[w] = "executing", NEW outcome,
         AfterAttempt(w, outcome)
  PROVE  LET i == task[w].job IN
         /\ Held(pc[w], task[w], i) = Tries - task[w].retries
         /\ task[w].retries \in Nat /\ task[w].retries <= MaxRetries
         /\ Held(pc'[w], task'[w], i) \in Nat
         /\ Held(pc'[w], task'[w], i) <= MaxRetries - task[w].retries
<1>1. /\ task[w].retries \in Nat /\ task[w].retries <= MaxRetries /\ MaxRetries \in Nat
  BY ConstantsAssumption DEF TypeOK, WorkersOK, Tasks, Retries
<1>2. task'[w] = task[w] /\ pc'[w] \in {"retrying", "acking"}
  BY DEF AfterAttempt, Goto, TypeOK, WorkersOK
<1> QED
  BY <1>1, <1>2 DEF Held, Tries

LEMMA MessagesSame ==
  ASSUME NEW i, UNCHANGED queue, Finite(MessageCredit(i))
  PROVE  Finite(MessageCredit(i))' /\ Total(MessageCredit(i))' = Total(MessageCredit(i))
<1>1. MessageCredit(i)' = MessageCredit(i)
  BY DEF MessageCredit
<1> QED
  BY <1>1 DEF Finite, Total, Units

LEMMA CommitBudget ==
  ASSUME LogInv, TypeOK', BudgetInv, NEW w \in Workers, NEW outcome, NEW s, NEW a,
         CommitAttempt(w, outcome, s, a), AfterAttempt(w, outcome),
         UNCHANGED <<outbox, queue, requests>>,
         \/ UNCHANGED faults /\ s # "running"
         \/ faults' = faults + 1
  PROVE  BudgetInv'
<1>1. PICK i \in Jobs : i = task[w].job
  BY BusyTask DEF CommitAttempt, LogInv, TypeOK
<1>2. TypeOK /\ pc[w] = "executing"
  BY DEF LogInv, CommitAttempt
<1>3. /\ attempts[i] \in Nat /\ attempts'[i] = attempts[i] + 1
      /\ status'[i] = s
      /\ \A j \in Jobs \ {i} : status'[j] = status[j] /\ attempts'[j] = attempts[j]
  <2>1. task[w].no = attempts[i] + 1
    BY <1>1, <1>2 DEF LogInv, AttemptsSerialized
  <2> QED
    BY <1>1, <2>1 DEF CommitAttempt, LogInv, TypeOK, RowsOK
<1>4. Moves(w, i)
  <2>1. \E phase \in Phases : Goto(w, phase)
    BY DEF AfterAttempt, Phases
  <2> QED
    BY <1>1, <1>2, <1>3, <2>1, BusyMoves DEF outbox, broker, requests
<1>5. Finite(MessageCredit(i))' /\ Total(MessageCredit(i))' = Total(MessageCredit(i))
  BY MessagesSame DEF BudgetInv, WithinBudget, CreditsFinite
<1>6. CreditsFinite(i)
  BY DEF BudgetInv, WithinBudget
<1>7. /\ RowCredit(i)' \in Nat /\ RowCredit(i)' <= Tries
      /\ s # "running" => RowCredit(i)' = 0
  BY <1>3, Weights DEF RowCredit
<1>8. /\ Held(pc[w], task[w], i) = Tries - task[w].retries
      /\ task[w].retries \in Nat /\ task[w].retries <= MaxRetries
      /\ Held(pc'[w], task'[w], i) \in Nat
      /\ Held(pc'[w], task'[w], i) <= MaxRetries - task[w].retries
  BY <1>1, <1>2, AttemptBudget
<1>9. /\ Balance(w, i)' <= Balance(w, i) + RowCredit(i)'
      /\ Balance(w, i) \in Nat
  BY <1>2, <1>3, <1>5, <1>6, <1>7, <1>8, Amounts, Weights, ConstantsAssumption DEF Balance
<1>10. \/ faults' = faults /\ Balance(w, i)' <= Balance(w, i)
       \/ faults' = faults + 1 /\ Balance(w, i)' <= Balance(w, i) + Tries
  <2>1. Balance(w, i)' \in Int
    BY <1>2, <1>3, <1>5, <1>6, <1>7, <1>8, Amounts, Weights DEF Balance
  <2> QED
    BY <1>7, <1>9, <2>1, Weights
<1> QED
  BY <1>2, <1>4, <1>5, <1>10, WorkerBudget

\* A worker that gives its message back, or hands on its retry, with message number r.
LEMMA HandOverBudget ==
  ASSUME TypeOK, TypeOK', BudgetInv, NEW w \in Workers, pc[w] # "idle",
         NEW r \in Retries, Enqueue(task[w].job, r),
         Release(w) \/ UNCHANGED worker,
         UNCHANGED <<rows, outbox, requests>>,
         \/ faults' = faults /\ Release(w) /\ Tries - r = Held(pc[w], task[w], task[w].job)
         \/ faults' = faults + 1
  PROVE  BudgetInv'
<1>1. PICK i \in Jobs : i = task[w].job
  BY BusyTask DEF TypeOK
<1>2. CreditsFinite(i) /\ Finite(MessageCredit(i)) /\ QueueOK
  BY DEF BudgetInv, WithinBudget, CreditsFinite, TypeOK
<1>3. /\ Finite(MessageCredit(i))'
      /\ Total(MessageCredit(i))' = Total(MessageCredit(i)) + (Tries - r)
      /\ \A j \in Jobs \ {i} : queue'[j] = queue[j]
  BY <1>1, <1>2, MessageGain
<1>4. Moves(w, i)
  BY <1>1, <1>3, BusyMoves DEF rows, outbox, broker, requests
<1>5. RowCredit(i)' = RowCredit(i) /\ attempts'[i] = attempts[i]
  BY DEF rows, RowCredit
<1>6. /\ Held(pc[w], task[w], i) \in Nat
      /\ Release(w) => Held(pc'[w], task'[w], i) = 0
      /\ UNCHANGED worker => Held(pc'[w], task'[w], i) = Held(pc[w], task[w], i)
  <2>1. Release(w) => task'[w].job # i
    BY ConstantsAssumption DEF Release, NoTask, TypeOK, WorkersOK
  <2> QED
    BY <2>1, HeldNat DEF Held, worker, TypeOK
<1>7. r \in Nat /\ r <= MaxRetries
  BY ConstantsAssumption DEF Retries
<1>8. \/ faults' = faults /\ Balance(w, i)' <= Balance(w, i)
      \/ faults' = faults + 1 /\ Balance(w, i)' <= Balance(w, i) + Tries
  BY <1>1, <1>2, <1>3, <1>5, <1>6, <1>7, Amounts, Weights DEF Balance
<1> QED
  BY <1>3, <1>4, <1>8, WorkerBudget

\* A busy worker that goes on without touching a message or a row, holding no more.
LEMMA GoOnBudget ==
  ASSUME TypeOK, TypeOK', BudgetInv, NEW w \in Workers, NEW i \in Jobs, Moves(w, i),
         UNCHANGED <<rows, queue>>, faults' = faults \/ faults' = faults + 1,
         Held(pc'[w], task'[w], i) <= Held(pc[w], task[w], i)
  PROVE  BudgetInv'
<1>1. CreditsFinite(i) /\ Finite(MessageCredit(i))
  BY DEF BudgetInv, WithinBudget, CreditsFinite
<1>2. Finite(MessageCredit(i))' /\ Total(MessageCredit(i))' = Total(MessageCredit(i))
  BY <1>1, MessagesSame
<1>3. RowCredit(i)' = RowCredit(i) /\ attempts'[i] = attempts[i]
  BY DEF rows, RowCredit
<1>4. Held(pc[w], task[w], i) \in Nat /\ Held(pc'[w], task'[w], i) \in Nat
  BY HeldNat, HeldNatNext DEF TypeOK
<1>5. Balance(w, i)' <= Balance(w, i) /\ Balance(w, i)' <= Balance(w, i) + Tries
  BY <1>1, <1>2, <1>3, <1>4, Amounts, Weights DEF Balance
<1> QED
  BY <1>2, <1>5, WorkerBudget

\* A worker that is done with its message gives up what it held.
LEMMA LoseBudget ==
  ASSUME TypeOK, TypeOK', BudgetInv, NEW w \in Workers, pc[w] # "idle",
         Lose(task[w].job), Release(w), UNCHANGED <<rows, outbox, requests>>,
         faults' = faults \/ faults' = faults + 1
  PROVE  BudgetInv'
<1>1. PICK i \in Jobs : i = task[w].job
  BY BusyTask DEF TypeOK
<1>2. UNCHANGED <<rows, queue>>
  BY DEF Lose
<1>3. Moves(w, i)
  BY <1>1, <1>2, BusyMoves DEF rows, outbox, broker, requests
<1>4. task'[w].job # i
  BY ConstantsAssumption DEF Release, NoTask, TypeOK, WorkersOK
<1>5. Held(pc'[w], task'[w], i) = 0 /\ Held(pc[w], task[w], i) \in Nat
  BY <1>4, HeldNat DEF Held, TypeOK
<1> QED
  BY <1>2, <1>3, <1>5, GoOnBudget

LEMMA ReceiveBudget ==
  ASSUME TypeOK, TypeOK', BudgetInv, NEW w \in Workers, NEW j \in Jobs, NEW r \in Retries,
         Receive(w, j, r)
  PROVE  BudgetInv'
<1>1. CreditsFinite(j) /\ Finite(MessageCredit(j)) /\ QueueOK
  BY DEF BudgetInv, WithinBudget, CreditsFinite, TypeOK
<1>2. /\ Finite(MessageCredit(j))'
      /\ Total(MessageCredit(j))' \in Nat
      /\ Total(MessageCredit(j)) = Total(MessageCredit(j))' + (Tries - r)
      /\ \A i \in Jobs \ {j} : queue'[i] = queue[i]
  BY <1>1, MessageLoss DEF Receive
<1>3. /\ task[w].job = NoJob /\ task'[w].job = j
      /\ task'[w].retries = r /\ pc'[w] = "received"
      /\ \A v \in Workers \ {w} : pc'[v] = pc[v] /\ task'[v] = task[v]
  BY DEF Receive, TypeOK, WorkersOK
<1>4. Moves(w, j)
  BY <1>2, <1>3 DEF Moves, Receive, rows, outbox, broker, requests
<1>5. Held(pc[w], task[w], j) = 0 /\ Held(pc'[w], task'[w], j) = Tries - r
  BY <1>3, ConstantsAssumption DEF Held
<1>6. RowCredit(j)' = RowCredit(j) /\ attempts'[j] = attempts[j] /\ faults' = faults
  BY DEF Receive, rows, RowCredit
<1>7. r \in Nat /\ r <= MaxRetries
  BY ConstantsAssumption DEF Retries
<1>8. Balance(w, j)' <= Balance(w, j)
  BY <1>1, <1>2, <1>5, <1>6, <1>7, Amounts, Weights DEF Balance
<1> QED
  BY <1>2, <1>4, <1>6, <1>8, WorkerBudget

LEMMA WorkerStepBudget ==
  ASSUME LogInv, TypeOK', BudgetInv, NEW w \in Workers, WorkerStep(w)
  PROVE  BudgetInv'
<1>0. TypeOK
  BY DEF LogInv
<1>1. ASSUME NEW j \in Jobs, NEW r \in Retries, Receive(w, j, r)
      PROVE  BudgetInv'
  BY <1>0, <1>1, ReceiveBudget
<1>2. CASE NoopAttempt(w) \/ Ack(w)
  <2>1. PICK i \in Jobs : i = task[w].job
    BY <1>0, <1>2, BusyTask DEF NoopAttempt, Ack, TypeOK
  <2>2. Release(w) \/ \E phase \in Phases : Goto(w, phase)
    BY <1>2 DEF NoopAttempt, Ack, Phases
  <2>3. Moves(w, i)
    BY <1>0, <1>2, <2>1, <2>2, BusyMoves DEF NoopAttempt, Ack, rows, outbox, broker, requests
  <2>4. pc'[w] \in {"acking", "idle"}
    BY <1>0, <1>2 DEF NoopAttempt, Ack, Goto, Release, TypeOK, WorkersOK
  <2>5. Held(pc'[w], task'[w], i) = 0 /\ Held(pc[w], task[w], i) \in Nat
    BY <1>0, <2>4, HeldNat DEF Held, TypeOK
  <2> QED
    BY <1>0, <1>2, <2>3, <2>5, GoOnBudget DEF NoopAttempt, Ack, broker
<1>3. CASE Begin(w)
  <2>1. PICK i \in Jobs : i = task[w].job
    BY <1>0, <1>3, BusyTask DEF Begin, TypeOK
  <2>2. /\ \A v \in Workers \ {w} : pc'[v] = pc[v] /\ task'[v] = task[v]
        /\ pc'[w] = "executing" /\ task'[w].job = i /\ task'[w].retries = task[w].retries
    BY <1>0, <1>3, <2>1 DEF Begin, TypeOK, WorkersOK, Tasks
  <2>3. Moves(w, i)
    BY <1>3, <2>1, <2>2 DEF Moves, Begin, rows, outbox, broker, requests
  <2>4. Held(pc'[w], task'[w], i) = Held(pc[w], task[w], i)
    BY <1>3, <2>1, <2>2 DEF Begin, Held
  <2>5. Held(pc[w], task[w], i) \in Nat
    BY <1>0, HeldNat DEF TypeOK
  <2> QED
    BY <1>0, <1>3, <2>3, <2>4, <2>5, GoOnBudget DEF Begin, broker
<1>4. ASSUME NEW outcome \in Outcomes, Finalize(w, outcome)
      PROVE  BudgetInv'
  BY <1>4, CommitBudget, ClassifyPairs DEF Finalize, broker
<1>5. CASE ScheduleRetry(w)
  <2>1. /\ task[w].retries \in Nat /\ task[w].retries + 1 \in Retries
        /\ Tries - (task[w].retries + 1) = Held(pc[w], task[w], task[w].job)
    <3>1. task[w].retries \in 0..MaxRetries /\ task[w].retries < MaxRetries
      BY <1>0, <1>5, BusyTask DEF ScheduleRetry, TypeOK, WorkersOK, Retries
    <3>2. Held(pc[w], task[w], task[w].job) = MaxRetries - task[w].retries
      BY <1>5 DEF ScheduleRetry, Held
    <3> QED
      BY <3>1, <3>2, ConstantsAssumption DEF Retries, Tries
  <2> QED
    BY <1>0, <1>5, <2>1, HandOverBudget DEF ScheduleRetry
<1> QED
  BY <1>1, <1>2, <1>3, <1>4, <1>5 DEF WorkerStep

LEMMA WorkerFaultBudget ==
  ASSUME LogInv, TypeOK', BudgetInv, NEW w \in Workers,
         \/ \E outcome \in Outcomes : FinalizeFails(w, outcome)
         \/ AbortedAttempt(w)
         \/ RaiseUnexpected(w)
         \/ RetryRefused(w)
         \/ ChildLost(w)
         \/ Crash(w)
         \/ Redeliver(w)
  PROVE  BudgetInv'
<1>0. TypeOK
  BY DEF LogInv
<1>1. ASSUME NEW outcome \in Outcomes, FinalizeFails(w, outcome)
      PROVE  BudgetInv'
  BY <1>1, CommitBudget DEF FinalizeFails, Fault, broker
<1>2. CASE AbortedAttempt(w)
  <2>1. PICK i \in Jobs : i = task[w].job
    BY <1>0, <1>2, BusyTask DEF AbortedAttempt, TypeOK
  <2>2. \E phase \in Phases : Goto(w, phase)
    BY <1>2 DEF AbortedAttempt, AfterAttempt, Phases
  <2>3. Moves(w, i)
    BY <1>0, <1>2, <2>1, <2>2, BusyMoves DEF AbortedAttempt, Lose, rows, outbox, broker, requests
  <2>4. Held(pc'[w], task'[w], i) <= Held(pc[w], task[w], i)
    BY <1>0, <1>2, <2>1, AttemptBudget, Weights, ConstantsAssumption DEF AbortedAttempt
  <2> QED
    BY <1>0, <1>2, <2>3, <2>4, GoOnBudget DEF AbortedAttempt, Fault, Lose, broker
<1>3. CASE Crash(w) \/ Redeliver(w)
  <2>1. /\ pc[w] # "idle" /\ Enqueue(task[w].job, task[w].retries)
        /\ Release(w) \/ UNCHANGED worker
        /\ UNCHANGED <<rows, outbox, requests>>
        /\ faults' = faults + 1
    BY <1>3 DEF Crash, Redeliver, Fault
  <2>2. task[w].retries \in Retries
    BY <1>0, <2>1, BusyTask DEF TypeOK
  <2> QED
    BY <1>0, <2>1, <2>2, HandOverBudget
<1>4. CASE RaiseUnexpected(w) \/ RetryRefused(w) \/ ChildLost(w)
  <2>1. /\ pc[w] # "idle" /\ Lose(task[w].job) /\ Release(w)
        /\ UNCHANGED <<rows, outbox, requests>>
        /\ faults' = faults + 1
    BY <1>4 DEF RaiseUnexpected, RetryRefused, ChildLost, Fault
  <2> QED
    BY <1>0, <2>1, LoseBudget
<1> QED
  BY <1>1, <1>2, <1>3, <1>4

LEMMA BudgetStep ==
  ASSUME LogInv, BudgetInv, [Next]_vars
  PROVE  BudgetInv'
<1>0. TypeOK /\ TypeOK'
  BY TypeStep DEF LogInv
<1>1. CASE RequestStep
  BY <1>0, <1>1, RequestsBudget DEF RequestStep
<1>2. CASE Sweep
  BY <1>0, <1>2, SweepBudget
<1>3. CASE PublisherStep
  BY <1>0, <1>3, PublisherBudget DEF PublisherStep
<1>4. CASE \E w \in Workers : WorkerStep(w)
  BY <1>0, <1>4, WorkerStepBudget
<1>5. CASE FaultStep
  BY <1>0, <1>5, PublisherBudget, WorkerFaultBudget DEF FaultStep
<1>6. CASE UNCHANGED vars
  BY <1>0, <1>6, BudgetFrame DEF vars, rows, outbox, worker, broker, requests, BudgetInv
<1> QED
  BY <1>1, <1>2, <1>3, <1>4, <1>5, <1>6 DEF Next

LEMMA BudgetInit == Init => BudgetInv
<1> SUFFICES ASSUME Init, NEW j \in Jobs PROVE WithinBudget(j)
  BY DEF BudgetInv
<1>1. Finite(EventCredit(j)) /\ Total(EventCredit(j)) = 0
  <2>1. /\ DOMAIN EventCredit(j) = PublishRetries
        /\ \A n \in PublishRetries : EventCredit(j)[n] = 0
    BY Weights DEF Init, EventCredit, Weighted
  <2> QED
    BY <2>1, EmptyTotal
<1>2. Finite(MessageCredit(j)) /\ Total(MessageCredit(j)) = 0
  <2>1. /\ DOMAIN MessageCredit(j) = Retries
        /\ \A r \in Retries : MessageCredit(j)[r] = 0
    BY Weights DEF Init, MessageCredit, Weighted
  <2> QED
    BY <2>1, EmptyTotal
<1>3. Finite(WorkerCredit(j)) /\ Total(WorkerCredit(j)) = 0
  <2>1. /\ DOMAIN WorkerCredit(j) = Workers
        /\ \A w \in Workers : WorkerCredit(j)[w] = 0
    BY ConstantsAssumption DEF Init, WorkerCredit, Held, NoTask
  <2> QED
    BY <2>1, EmptyTotal
<1>4. attempts[j] = 0 /\ RowCredit(j) = 0
  BY DEF Init, RowCredit
<1>5. Budget(j) = 0
  BY Weights DEF Init, Budget
<1> QED
  BY <1>1, <1>2, <1>3, <1>4, <1>5 DEF WithinBudget, CreditsFinite, Outstanding

LEMMA BudgetBounds == LogInv /\ BudgetInv => AttemptsBudgeted
<1> SUFFICES ASSUME TypeOK, BudgetInv, NEW j \in Jobs
             PROVE  attempts[j] <= (MaxRetries + 1) * (submissions[j] + reruns[j] + faults)
  BY DEF LogInv, AttemptsBudgeted
<1>1. WithinBudget(j) /\ CreditsFinite(j)
  BY DEF BudgetInv, WithinBudget
<1>2. attempts[j] <= Budget(j)
  BY <1>1, Amounts DEF WithinBudget, Outstanding
<1> QED
  BY <1>2 DEF Budget, Tries

\* The attempts of a job are bounded by JOB_MAX_RETRIES + 1 for each time it was
\* submitted, retried from the DLQ or struck by a fault, for any number of workers
\* and whatever is delivered twice, lost, repaired or rolled back.
THEOREM BudgetKept == Spec => []AttemptsBudgeted
<1>1. Init => BudgetInv
  BY BudgetInit
<1>2. LogInv /\ BudgetInv /\ [Next]_vars => BudgetInv'
  BY BudgetStep
<1> QED
  BY <1>1, <1>2, BudgetBounds, LogInvariant, PTL DEF Spec

-----------------------------------------------------------------------------
(* The work that is left.  Every step but a request or a fault uses some of *)
(* it up, as long as any is left somebody can move, and a job without any   *)
(* is settled: with finitely many requests and faults the pipeline comes to *)
(* rest.                                                                    *)

EventCost == [n \in PublishRetries |-> 4 * Tries + 1]

MessageCost == [r \in Retries |-> 4 * (Tries - r)]

EventWork(j) == Total(Weighted(EventCost, pending[j]))

MessageWork(j) == Total(Weighted(MessageCost, queue[j]))

\* What is left of the run of message m, and of its retries.
Left(phase, m, j) ==
  IF m.job # j \/ phase = "idle" THEN 0
  ELSE IF phase = "received" THEN 4 * (Tries - m.retries) - 1
  ELSE IF phase = "executing" THEN 4 * (Tries - m.retries) - 2
  ELSE IF phase = "retrying" THEN 4 * (Tries - m.retries) - 3
  ELSE 1

WorkerWork(j) == Total([w \in Workers |-> Left(pc[w], task[w], j)])

RowWork(j) == IF status[j] = "running" THEN 4 * Tries + 2 ELSE 0

Work(j) == EventWork(j) + MessageWork(j) + WorkerWork(j) + RowWork(j)

Spends ==
  /\ \A j \in Jobs : Work(j)' <= Work(j)
  /\ \E j \in Jobs : Work(j)' < Work(j)

LEMMA FiniteSum ==
  ASSUME NEW S, IsFiniteSet(S), NEW f, f \in [S -> Nat]
  PROVE  Finite(f) /\ Total(f) \in Nat
<1> DEFINE columns == {Column(x, f[x]) : x \in S}
           column == [x \in S |-> Column(x, f[x])]
<1>1. column \in Surjection(S, columns)
  BY DEF Surjection
<1>2. IsFiniteSet(columns)
  BY <1>1, FS_Surjection
<1>3. \A c \in columns : IsFiniteSet(c)
  BY ColumnSize
<1>4. Units(f) = UNION columns
  BY DEF Units
<1>5. Finite(f)
  <2> HIDE DEF columns
  <2> QED
    BY <1>2, <1>3, <1>4, FS_UNION DEF Finite
<1> QED
  BY <1>5, TotalNat

\* No term is more than the sum.
LEMMA TermBound ==
  ASSUME NEW S, IsFiniteSet(S), NEW f, f \in [S -> Nat], NEW x \in S
  PROVE  f[x] <= Total(f)
<1>1. Finite(f)
  BY FiniteSum
<1>2. Change(S, f, f, x)
  BY DEF Change
<1> QED
  BY <1>1, <1>2, TotalUpdate

LEMMA Costs ==
  /\ Tries \in Nat /\ Tries > 0
  /\ EventCost \in [PublishRetries -> Nat]
  /\ MessageCost \in [Retries -> Nat]
  /\ IsFiniteSet(PublishRetries) /\ IsFiniteSet(Retries)
<1>1. IsFiniteSet(PublishRetries) /\ IsFiniteSet(Retries)
  BY ConstantsAssumption, FS_Interval DEF PublishRetries, Retries
<1> QED
  BY <1>1, ConstantsAssumption DEF Tries, EventCost, MessageCost, Retries

LEMMA WeightedNat ==
  ASSUME NEW S, IsFiniteSet(S), NEW weight, weight \in [S -> Nat],
         NEW count, count \in [S -> Nat]
  PROVE  /\ Weighted(weight, count) \in [S -> Nat]
         /\ Finite(Weighted(weight, count))
         /\ Total(Weighted(weight, count)) \in Nat
<1>1. \A x \in S : weight[x] * count[x] \in Nat
  BY Distributes
<1>2. Weighted(weight, count) \in [S -> Nat]
  BY <1>1 DEF Weighted
<1> QED
  BY <1>2, FiniteSum

LEMMA LeftNat ==
  ASSUME WorkersOK, NEW w \in Workers, NEW j \in Jobs
  PROVE  Left(pc[w], task[w], j) \in Nat
<1>1. /\ task[w].retries \in Nat /\ task[w].retries <= MaxRetries
      /\ pc[w] \in Phases
  BY ConstantsAssumption DEF WorkersOK, Tasks, Retries
<1> QED
  BY <1>1, ConstantsAssumption DEF Left, Tries, Phases

LEMMA LeftNatNext ==
  ASSUME WorkersOK', NEW w \in Workers, NEW j \in Jobs
  PROVE  Left(pc'[w], task'[w], j) \in Nat
<1>1. /\ task'[w].retries \in Nat /\ task'[w].retries <= MaxRetries
      /\ pc'[w] \in Phases
  BY ConstantsAssumption DEF WorkersOK, Tasks, Retries
<1> QED
  BY <1>1, ConstantsAssumption DEF Left, Tries, Phases

LEMMA WorkNat ==
  ASSUME TypeOK, IsFiniteSet(Workers), NEW j \in Jobs
  PROVE  /\ EventWork(j) \in Nat
         /\ MessageWork(j) \in Nat
         /\ WorkerWork(j) \in Nat
         /\ RowWork(j) \in Nat
<1>1. EventWork(j) \in Nat
  BY Costs, WeightedNat DEF EventWork, TypeOK, OutboxOK
<1>2. MessageWork(j) \in Nat
  BY Costs, WeightedNat DEF MessageWork, TypeOK, QueueOK
<1>3. WorkerWork(j) \in Nat
  <2>1. [w \in Workers |-> Left(pc[w], task[w], j)] \in [Workers -> Nat]
    BY LeftNat DEF TypeOK
  <2> QED
    BY <2>1, FiniteSum DEF WorkerWork
<1>4. RowWork(j) \in Nat
  BY Costs DEF RowWork
<1> QED
  BY <1>1, <1>2, <1>3, <1>4

\* One event more or less, one message more or less, one worker that moves.
LEMMA EventsDiffer ==
  ASSUME NEW less, NEW more, NEW n, OneMore(PublishRetries, less, more, n)
  PROVE  /\ Total(Weighted(EventCost, less)) \in Nat
         /\ Total(Weighted(EventCost, more)) =
              Total(Weighted(EventCost, less)) + (4 * Tries + 1)
<1>1. EventCost[n] = 4 * Tries + 1
  BY DEF OneMore, EventCost
<1>2. Finite(Weighted(EventCost, less))
  BY Costs, WeightedNat DEF OneMore
<1> QED
  BY <1>1, <1>2, Costs, WeightedSum

LEMMA MessagesDiffer ==
  ASSUME NEW less, NEW more, NEW r, OneMore(Retries, less, more, r)
  PROVE  /\ Total(Weighted(MessageCost, less)) \in Nat
         /\ Total(Weighted(MessageCost, more)) =
              Total(Weighted(MessageCost, less)) + 4 * (Tries - r)
<1>1. MessageCost[r] = 4 * (Tries - r)
  BY DEF OneMore, MessageCost
<1>2. Finite(Weighted(MessageCost, less))
  BY Costs, WeightedNat DEF OneMore
<1> QED
  BY <1>1, <1>2, Costs, WeightedSum

LEMMA MessageSent ==
  ASSUME QueueOK, NEW j \in Jobs, NEW r \in Retries, Enqueue(j, r)
  PROVE  /\ MessageWork(j)' = MessageWork(j) + 4 * (Tries - r)
         /\ \A i \in Jobs \ {j} : MessageWork(i)' = MessageWork(i)
<1>1. queue' = [queue EXCEPT ![j] = [queue[j] EXCEPT ![r] = @ + 1]]
  BY DEF Enqueue
<1>2. OneMore(Retries, queue[j], queue'[j], r)
  BY <1>1 DEF OneMore, QueueOK
<1>3. \A i \in Jobs \ {j} : queue'[i] = queue[i]
  BY <1>1 DEF QueueOK
<1> QED
  BY <1>2, <1>3, MessagesDiffer DEF MessageWork

LEMMA MessageTaken ==
  ASSUME QueueOK, NEW j \in Jobs, NEW r \in Retries, queue[j][r] > 0,
         queue' = [queue EXCEPT ![j][r] = @ - 1]
  PROVE  /\ MessageWork(j) = MessageWork(j)' + 4 * (Tries - r)
         /\ MessageWork(j)' \in Nat
         /\ \A i \in Jobs \ {j} : MessageWork(i)' = MessageWork(i)
<1>1. queue' = [queue EXCEPT ![j] = [queue[j] EXCEPT ![r] = @ - 1]]
  OBVIOUS
<1>2. OneMore(Retries, queue'[j], queue[j], r)
  <2>1. queue'[j] = [queue[j] EXCEPT ![r] = @ - 1] /\ queue[j] \in [Retries -> Nat]
    BY <1>1 DEF QueueOK
  <2> QED
    BY <2>1, OneLess
<1>3. \A i \in Jobs \ {j} : queue'[i] = queue[i]
  BY <1>1 DEF QueueOK
<1> QED
  BY <1>2, <1>3, MessagesDiffer DEF MessageWork

LEMMA WorkerMoved ==
  ASSUME WorkersOK, WorkersOK', IsFiniteSet(Workers), NEW w \in Workers, NEW j \in Jobs,
         \A v \in Workers \ {w} : pc'[v] = pc[v] /\ task'[v] = task[v]
  PROVE  WorkerWork(j)' =
           WorkerWork(j) - Left(pc[w], task[w], j) + Left(pc'[w], task'[w], j)
<1> DEFINE f == [v \in Workers |-> Left(pc[v], task[v], j)]
           g == [v \in Workers |-> Left(pc'[v], task'[v], j)]
<1>1. f \in [Workers -> Nat] /\ g \in [Workers -> Nat]
  BY LeftNat, LeftNatNext
<1>2. Change(Workers, f, g, w)
  BY <1>1 DEF Change
<1>3. Finite(f)
  BY <1>1, FiniteSum
<1>4. f[w] = Left(pc[w], task[w], j) /\ g[w] = Left(pc'[w], task'[w], j)
  OBVIOUS
<1>5. WorkerWork(j) = Total(f) /\ WorkerWork(j)' = Total(g)
  BY DEF WorkerWork, Total, Units
<1>6. Total(g) = Total(f) - f[w] + g[w]
  <2> HIDE DEF f, g
  <2> QED
    BY <1>2, <1>3, TotalUpdate
<1> QED
  BY <1>4, <1>5, <1>6

\* A step that works on job i alone.
LEMMA SpendsOn ==
  ASSUME TypeOK, IsFiniteSet(Workers), NEW i \in Jobs, Work(i)' \in Int, Work(i)' < Work(i),
         \A j \in Jobs \ {i} : /\ EventWork(j)' = EventWork(j)
                               /\ MessageWork(j)' = MessageWork(j)
                               /\ WorkerWork(j)' = WorkerWork(j)
                               /\ RowWork(j)' = RowWork(j)
  PROVE  Spends
<1>1. ASSUME NEW j \in Jobs \ {i} PROVE Work(j)' <= Work(j)
  BY WorkNat DEF Work
<1>2. Work(i)' <= Work(i)
  <2>1. Work(i) \in Nat
    BY WorkNat DEF Work
  <2> QED
    BY <2>1
<1> QED
  BY <1>1, <1>2 DEF Spends

LEMMA PublishSpends ==
  ASSUME TypeOK, IsFiniteSet(Workers), NEW i \in Jobs, NEW n \in PublishRetries,
         Publish(i, n)
  PROVE  Spends
<1>1. pending' = [pending EXCEPT ![i] = [pending[i] EXCEPT ![n] = @ - 1]]
  BY DEF Publish
<1>2. OneMore(PublishRetries, pending'[i], pending[i], n)
  <2>1. /\ pending'[i] = [pending[i] EXCEPT ![n] = @ - 1]
        /\ pending[i] \in [PublishRetries -> Nat]
    BY <1>1 DEF TypeOK, OutboxOK
  <2> QED
    BY <2>1, OneLess DEF Publish
<1>3. EventWork(i)' \in Nat /\ EventWork(i) = EventWork(i)' + (4 * Tries + 1)
  BY <1>2, EventsDiffer DEF EventWork
<1>4. /\ MessageWork(i)' = MessageWork(i) + 4 * (Tries - 0)
      /\ \A j \in Jobs \ {i} : MessageWork(j)' = MessageWork(j)
  BY MessageSent, ConstantsAssumption DEF Publish, TypeOK, Retries
<1>5. ASSUME NEW j \in Jobs
      PROVE  WorkerWork(j)' = WorkerWork(j) /\ RowWork(j)' = RowWork(j)
  BY DEF Publish, rows, worker, WorkerWork, RowWork
<1>6. \A j \in Jobs \ {i} : EventWork(j)' = EventWork(j)
  BY <1>1 DEF EventWork, TypeOK, OutboxOK
<1>7. Work(i)' \in Int /\ Work(i)' < Work(i)
  BY <1>3, <1>4, <1>5, WorkNat, Costs DEF Work
<1> QED
  BY <1>4, <1>5, <1>6, <1>7, SpendsOn

LEMMA SweepSpends ==
  ASSUME TypeOK, IsFiniteSet(Workers), Sweep
  PROVE  Spends
<1>1. PICK J \in (SUBSET Sweepable) \ {{}} :
        /\ status' = [j \in Jobs |-> IF j \in J THEN "pending" ELSE status[j]]
        /\ CreateEvents(J)
  BY DEF Sweep
<1>2. ASSUME NEW j \in Jobs
      PROVE  MessageWork(j)' = MessageWork(j) /\ WorkerWork(j)' = WorkerWork(j)
  BY DEF Sweep, worker, MessageWork, WorkerWork, broker
<1>3. ASSUME NEW j \in Jobs \ J PROVE Work(j)' <= Work(j)
  <2>1. EventWork(j)' = EventWork(j) /\ RowWork(j)' = RowWork(j)
    BY <1>1 DEF CreateEvents, EventWork, RowWork
  <2> QED
    BY <1>2, <2>1, WorkNat DEF Work
<1>4. ASSUME NEW j \in J PROVE Work(j)' <= Work(j) /\ Work(j)' < Work(j)
  <2>1. j \in Jobs /\ status[j] = "running"
    BY DEF Sweepable
  <2>2. OneMore(PublishRetries, pending[j], pending'[j], 0)
    BY <1>1, <2>1, ConstantsAssumption DEF CreateEvents, OneMore, TypeOK, OutboxOK, PublishRetries
  <2>3. EventWork(j)' = EventWork(j) + (4 * Tries + 1)
    BY <2>2, EventsDiffer DEF EventWork
  <2>4. RowWork(j) = 4 * Tries + 2 /\ RowWork(j)' = 0
    BY <1>1, <2>1 DEF RowWork
  <2> QED
    BY <1>2, <2>1, <2>3, <2>4, WorkNat, Costs DEF Work
<1>5. PICK j \in J : j \in Jobs
  BY <1>1 DEF Sweepable
<1> QED
  BY <1>3, <1>4, <1>5 DEF Spends

\* A step of worker w about job i that leaves the outbox alone.
LEMMA WorkerSpends ==
  ASSUME TypeOK, TypeOK', IsFiniteSet(Workers), NEW w \in Workers, NEW i \in Jobs,
         Moves(w, i), MessageWork(i)' \in Int, RowWork(i)' \in Nat, RowWork(i)' <= RowWork(i),
         MessageWork(i)' + Left(pc'[w], task'[w], i) < MessageWork(i) + Left(pc[w], task[w], i)
  PROVE  Spends
<1>1. \A v \in Workers \ {w} : pc'[v] = pc[v] /\ task'[v] = task[v]
  BY DEF Moves
<1>2. ASSUME NEW j \in Jobs
      PROVE  /\ EventWork(j)' = EventWork(j)
             /\ WorkerWork(j)' =
                  WorkerWork(j) - Left(pc[w], task[w], j) + Left(pc'[w], task'[w], j)
  BY <1>1, WorkerMoved DEF Moves, EventWork, TypeOK
<1>3. ASSUME NEW j \in Jobs \ {i}
      PROVE  /\ MessageWork(j)' = MessageWork(j)
             /\ WorkerWork(j)' = WorkerWork(j)
             /\ RowWork(j)' = RowWork(j)
  <2>1. Left(pc[w], task[w], j) = 0 /\ Left(pc'[w], task'[w], j) = 0
    BY ConstantsAssumption DEF Moves, Left
  <2>2. MessageWork(j)' = MessageWork(j) /\ RowWork(j)' = RowWork(j)
    BY DEF Moves, MessageWork, RowWork
  <2> QED
    BY <1>2, <2>1, <2>2, WorkNat
<1>4. Left(pc[w], task[w], i) \in Nat /\ Left(pc'[w], task'[w], i) \in Nat
  BY LeftNat, LeftNatNext DEF TypeOK
<1>5. Work(i)' \in Int /\ Work(i)' < Work(i)
  BY <1>2, <1>4, WorkNat DEF Work
<1> QED
  BY <1>2, <1>3, <1>5, SpendsOn

LEMMA WorkerStepSpends ==
  ASSUME TypeOK, TypeOK', IsFiniteSet(Workers), NEW w \in Workers, WorkerStep(w)
  PROVE  Spends
<1>1. ASSUME NEW j \in Jobs, NEW r \in Retries, Receive(w, j, r)
      PROVE  Spends
  <2>1. /\ MessageWork(j) = MessageWork(j)' + 4 * (Tries - r)
        /\ MessageWork(j)' \in Nat
    BY <1>1, MessageTaken DEF Receive, TypeOK
  <2>2. \A i \in Jobs \ {j} : queue'[i] = queue[i]
    BY <1>1 DEF Receive, TypeOK, QueueOK
  <2>3. /\ pc[w] = "idle" /\ task[w].job = NoJob /\ task'[w].job = j
        /\ task'[w].retries = r /\ pc'[w] = "received"
        /\ \A v \in Workers \ {w} : pc'[v] = pc[v] /\ task'[v] = task[v]
    BY <1>1 DEF Receive, TypeOK, WorkersOK
  <2>4. Moves(w, j)
    BY <1>1, <2>2, <2>3 DEF Moves, Receive, rows, outbox, broker, requests
  <2>5. Left(pc[w], task[w], j) = 0 /\ Left(pc'[w], task'[w], j) = 4 * (Tries - r) - 1
    BY <2>3 DEF Left
  <2>6. r \in Nat /\ r <= MaxRetries
    BY ConstantsAssumption DEF Retries
  <2>7. RowWork(j)' = RowWork(j) /\ RowWork(j) \in Nat
    BY <1>1, WorkNat DEF Receive, rows, RowWork
  <2>8. MessageWork(j)' + Left(pc'[w], task'[w], j) < MessageWork(j) + Left(pc[w], task[w], j)
    BY <2>1, <2>5, <2>6, Weights
  <2> QED
    BY <2>1, <2>4, <2>7, <2>8, WorkerSpends
<1>2. ASSUME pc[w] # "idle"
      PROVE  /\ task[w].job \in Jobs
             /\ task[w].retries \in Nat /\ task[w].retries <= MaxRetries
             /\ \A i \in Jobs : MessageWork(i) \in Nat /\ RowWork(i) \in Nat
  BY <1>2, BusyTask, WorkNat, ConstantsAssumption DEF TypeOK, Retries
<1>3. CASE NoopAttempt(w) \/ Ack(w)
  <2>1. PICK i \in Jobs : i = task[w].job
    BY <1>2, <1>3 DEF NoopAttempt, Ack
  <2>2. Release(w) \/ \E phase \in Phases : Goto(w, phase)
    BY <1>3 DEF NoopAttempt, Ack, Phases
  <2>3. Moves(w, i)
    BY <1>3, <2>1, <2>2, BusyMoves DEF NoopAttempt, Ack, rows, outbox, broker, requests
  <2>4. MessageWork(i)' = MessageWork(i) /\ RowWork(i)' = RowWork(i)
    BY <1>3 DEF NoopAttempt, Ack, rows, MessageWork, RowWork, broker
  <2>5. Left(pc'[w], task'[w], i) < Left(pc[w], task[w], i)
    <3>1. CASE NoopAttempt(w)
      <4>1. pc'[w] = "acking" /\ task'[w] = task[w] /\ pc[w] = "received"
        BY <3>1 DEF NoopAttempt, Goto, TypeOK, WorkersOK
      <4> QED
        BY <1>2, <2>1, <4>1, Weights, ConstantsAssumption DEF Left
    <3>2. CASE Ack(w)
      <4>1. pc'[w] = "idle" /\ pc[w] = "acking"
        BY <3>2 DEF Ack, Release, TypeOK, WorkersOK
      <4> QED
        BY <2>1, <4>1 DEF Left
    <3> QED
      BY <1>3, <3>1, <3>2
  <2>6. Left(pc[w], task[w], i) \in Nat /\ Left(pc'[w], task'[w], i) \in Nat
    BY LeftNat, LeftNatNext DEF TypeOK
  <2>7. MessageWork(i) \in Nat /\ RowWork(i) \in Nat
    BY WorkNat
  <2> QED
    BY <2>3, <2>4, <2>5, <2>6, <2>7, WorkerSpends
<1>4. CASE Begin(w)
  <2>1. PICK i \in Jobs : i = task[w].job
    BY <1>2, <1>4 DEF Begin
  <2>2. /\ \A v \in Workers \ {w} : pc'[v] = pc[v] /\ task'[v] = task[v]
        /\ pc[w] = "received" /\ pc'[w] = "executing"
        /\ task'[w].job = i /\ task'[w].retries = task[w].retries
    BY <1>4, <2>1 DEF Begin, TypeOK, WorkersOK, Tasks
  <2>3. Moves(w, i)
    BY <1>4, <2>1, <2>2 DEF Moves, Begin, rows, outbox, broker, requests
  <2>4. MessageWork(i)' = MessageWork(i) /\ RowWork(i)' = RowWork(i)
    BY <1>4 DEF Begin, rows, MessageWork, RowWork, broker
  <2>5. Left(pc'[w], task'[w], i) = Left(pc[w], task[w], i) - 1
    BY <1>2, <2>1, <2>2, Weights DEF Left
  <2>6. MessageWork(i) \in Nat /\ RowWork(i) \in Nat /\ Left(pc[w], task[w], i) \in Nat
    BY WorkNat, LeftNat DEF TypeOK
  <2> QED
    BY <2>3, <2>4, <2>5, <2>6, WorkerSpends
<1>5. ASSUME NEW outcome \in Outcomes, Finalize(w, outcome)
      PROVE  Spends
  <2>0. pc[w] = "executing"
    BY <1>5 DEF Finalize, CommitAttempt
  <2>1. PICK i \in Jobs : i = task[w].job
    BY <1>2, <2>0
  <2>2. /\ status'[i] # "running"
        /\ \A j \in Jobs \ {i} : status'[j] = status[j] /\ attempts'[j] = attempts[j]
    BY <1>5, <2>1, ClassifyPairs DEF Finalize, CommitAttempt, TypeOK, RowsOK
  <2>3. \E phase \in Phases : Goto(w, phase)
    BY <1>5 DEF Finalize, AfterAttempt, Phases
  <2>4. Moves(w, i)
    BY <1>5, <2>0, <2>1, <2>2, <2>3, BusyMoves DEF Finalize, outbox, broker, requests
  <2>5. MessageWork(i)' = MessageWork(i) /\ RowWork(i)' = 0
    BY <1>5, <2>2 DEF Finalize, MessageWork, RowWork, broker
  <2>6. Left(pc'[w], task'[w], i) < Left(pc[w], task[w], i)
    <3>1. task'[w] = task[w] /\ pc'[w] \in {"retrying", "acking"}
      BY <1>5 DEF Finalize, AfterAttempt, Goto, TypeOK, WorkersOK
    <3> QED
      BY <1>2, <2>0, <2>1, <3>1, Weights, ConstantsAssumption DEF Left
  <2>7. MessageWork(i) \in Nat /\ RowWork(i) \in Nat
    BY WorkNat
  <2>8. Left(pc[w], task[w], i) \in Nat /\ Left(pc'[w], task'[w], i) \in Nat
    BY LeftNat, LeftNatNext DEF TypeOK
  <2> QED
    BY <2>4, <2>5, <2>6, <2>7, <2>8, WorkerSpends
<1>6. CASE ScheduleRetry(w)
  <2>0. pc[w] = "retrying" /\ Release(w) /\ UNCHANGED <<rows, outbox, requests>>
    BY <1>6 DEF ScheduleRetry
  <2>1. PICK i \in Jobs : i = task[w].job
    BY <1>2, <2>0
  <2>2. task[w].retries + 1 \in Retries
    BY <1>2, <2>0, ConstantsAssumption DEF TypeOK, WorkersOK, Retries
  <2>3. MessageWork(i)' = MessageWork(i) + 4 * (Tries - (task[w].retries + 1))
    BY <1>6, <2>1, <2>2, MessageSent DEF ScheduleRetry, TypeOK
  <2>4. \A j \in Jobs \ {i} : queue'[j] = queue[j]
    BY <1>6, <2>1 DEF ScheduleRetry, Enqueue, TypeOK, QueueOK
  <2>5. Moves(w, i)
    BY <2>0, <2>1, <2>4, BusyMoves DEF rows, outbox, broker, requests
  <2>6. /\ Left(pc[w], task[w], i) = 4 * (Tries - task[w].retries) - 3
        /\ Left(pc'[w], task'[w], i) = 0
    BY <2>0, <2>1 DEF Left, Release, TypeOK, WorkersOK
  <2>7. RowWork(i)' = RowWork(i) /\ RowWork(i) \in Nat /\ MessageWork(i) \in Nat
    BY <2>0, WorkNat DEF rows, RowWork
  <2> QED
    BY <1>2, <2>0, <2>3, <2>5, <2>6, <2>7, Weights, WorkerSpends
<1> QED
  BY <1>1, <1>3, <1>4, <1>5, <1>6 DEF WorkerStep

LEMMA StepSpends ==
  ASSUME TypeOK, [Next]_vars, IsFiniteSet(Workers)
  PROVE  RequestStep \/ FaultStep \/ Spends \/ UNCHANGED vars
<1>1. TypeOK'
  BY TypeStep
<1>2. ASSUME PublisherStep PROVE Spends
  BY <1>2, PublishSpends DEF PublisherStep
<1>3. ASSUME NEW w \in Workers, WorkerStep(w) PROVE Spends
  BY <1>1, <1>3, WorkerStepSpends
<1> QED
  BY <1>2, <1>3, SweepSpends DEF Next

\* The pipeline never goes round in circles: every step of the publisher, the sweeper
\* and the workers, duplicates included, uses up work of some job and adds none to any
\* other.  Only a request or a fault can add work, so without more of them the
\* pipeline stops after at most as many steps as there is work.
THEOREM WorkIsSpent ==
  ASSUME IsFiniteSet(Workers)
  PROVE  Spec => [][RequestStep \/ FaultStep \/ Spends]_vars /\ [](\A j \in Jobs : Work(j) \in Nat)
<1>1. TypeOK /\ [Next]_vars => [RequestStep \/ FaultStep \/ Spends]_vars
  BY StepSpends
<1>2. TypeOK => \A j \in Jobs : Work(j) \in Nat
  BY WorkNat DEF Work
<1> QED
  BY <1>1, <1>2, TypeCorrect, PTL DEF Spec

-----------------------------------------------------------------------------
(* What the end of the work means.                                         *)

Settled(j) == status[j] \in Terminal \cup {"absent"} \/ failed[j] > 0 \/ lost[j] > 0

\* The guards of the publisher, the sweeper and the workers: one of them holds.
SomebodyCanMove ==
  \/ \E j \in Jobs, n \in PublishRetries : pending[j][n] > 0
  \/ Sweepable # {}
  \/ \E w \in Workers, j \in Jobs, r \in Retries : pc[w] = "idle" /\ queue[j][r] > 0
  \/ \E w \in Workers : pc[w] = "received" /\ ~Locked(task[w].job)
  \/ \E w \in Workers : pc[w] \in {"executing", "retrying", "acking"}

\* Whatever carries a job is work.
LEMMA CarriersWork ==
  ASSUME TypeOK, IsFiniteSet(Workers), NEW j \in Jobs, Carried(j)
  PROVE  Work(j) > 0
<1>1. ASSUME NEW n \in PublishRetries, pending[j][n] > 0 PROVE EventWork(j) > 0
  <2>1. pending[j] \in [PublishRetries -> Nat]
    BY DEF TypeOK, OutboxOK
  <2>2. /\ Weighted(EventCost, pending[j]) \in [PublishRetries -> Nat]
        /\ Total(Weighted(EventCost, pending[j])) \in Nat
    BY <2>1, Costs, WeightedNat
  <2>3. Weighted(EventCost, pending[j])[n] = (4 * Tries + 1) * pending[j][n]
    BY <2>1 DEF Weighted, EventCost
  <2>4. Weighted(EventCost, pending[j])[n] > 0
    BY <1>1, <2>1, <2>3, Costs
  <2>5. Weighted(EventCost, pending[j])[n] <= Total(Weighted(EventCost, pending[j]))
    BY <2>2, Costs, TermBound
  <2> QED
    BY <2>2, <2>4, <2>5 DEF EventWork
<1>2. ASSUME NEW r \in Retries, queue[j][r] > 0 PROVE MessageWork(j) > 0
  <2>1. queue[j] \in [Retries -> Nat]
    BY DEF TypeOK, QueueOK
  <2>2. /\ Weighted(MessageCost, queue[j]) \in [Retries -> Nat]
        /\ Total(Weighted(MessageCost, queue[j])) \in Nat
    BY <2>1, Costs, WeightedNat
  <2>3. Weighted(MessageCost, queue[j])[r] = (4 * (Tries - r)) * queue[j][r]
    BY <2>1 DEF Weighted, MessageCost
  <2>4. Tries - r \in Nat /\ Tries - r > 0
    BY ConstantsAssumption DEF Tries, Retries
  <2>5. Weighted(MessageCost, queue[j])[r] > 0
    BY <1>2, <2>1, <2>3, <2>4
  <2>6. Weighted(MessageCost, queue[j])[r] <= Total(Weighted(MessageCost, queue[j]))
    BY <2>2, Costs, TermBound
  <2> QED
    BY <2>2, <2>5, <2>6 DEF MessageWork
<1>3. ASSUME NEW w \in Workers, CarriedBy(w, j) PROVE WorkerWork(j) > 0
  <2> DEFINE f == [v \in Workers |-> Left(pc[v], task[v], j)]
  <2>1. f \in [Workers -> Nat]
    BY LeftNat DEF TypeOK
  <2>2. f[w] <= Total(f) /\ Total(f) \in Nat
    <3> HIDE DEF f
    <3> QED
      BY <2>1, TermBound, FiniteSum
  <2>3. task[w].retries \in Nat /\ task[w].retries <= MaxRetries
    BY ConstantsAssumption DEF TypeOK, WorkersOK, Tasks, Retries
  <2>4. f[w] \in Nat /\ f[w] > 0
    BY <1>3, <2>1, <2>3, ConstantsAssumption DEF CarriedBy, Left, Tries
  <2> QED
    BY <2>2, <2>4 DEF WorkerWork
<1> QED
  BY <1>1, <1>2, <1>3, WorkNat DEF Carried, Work

\* When its work is used up a job is settled: COMPLETED, DEAD in the DLQ, or it has lost
\* a dispatch event or a message.  With WorkIsSpent, this is what EventuallySettled
\* rests on, for any finite number of workers and any faults.
THEOREM SettledWhenDone ==
  ASSUME IsFiniteSet(Workers)
  PROVE  Spec => [](\A j \in Jobs : Work(j) = 0 => Settled(j))
<1>1. ASSUME TypeOK, StrandedHasLoss, NEW j \in Jobs, Work(j) = 0
      PROVE  Settled(j)
  <2>1. status[j] # "running"
    BY <1>1, WorkNat, Costs DEF Work, RowWork
  <2>2. ~Carried(j)
    BY <1>1, CarriersWork
  <2> QED
    BY <1>1, <2>1, <2>2
    DEF StrandedHasLoss, Stranded, Settled, Terminal, TypeOK, RowsOK, JobStatus
<1>2. TypeOK /\ StrandedHasLoss => \A j \in Jobs : Work(j) = 0 => Settled(j)
  BY <1>1
<1> QED
  BY <1>2, TypeCorrect, LossesExplain, PTL

LEMMA WorkMoves ==
  ASSUME TypeOK, Workers # {}, NEW j \in Jobs, Work(j) > 0
  PROVE  SomebodyCanMove
<1> SUFFICES ASSUME ~SomebodyCanMove PROVE FALSE
  OBVIOUS
<1>1. \A w \in Workers : pc[w] = "idle"
  <2>1. \A w \in Workers : pc[w] \notin {"executing", "retrying", "acking"}
    BY DEF SomebodyCanMove
  <2>2. \A i \in Jobs : ~Locked(i)
    BY <2>1 DEF Locked
  <2>3. \A w \in Workers : pc[w] # "received"
    BY <2>2, BusyTask DEF SomebodyCanMove, TypeOK
  <2> QED
    BY <2>1, <2>3 DEF TypeOK, WorkersOK, Phases
<1>2. EventWork(j) = 0
  <2>1. pending[j] \in [PublishRetries -> Nat] /\ \A n \in PublishRetries : pending[j][n] = 0
    BY DEF SomebodyCanMove, TypeOK, OutboxOK
  <2>2. \A n \in PublishRetries : EventCost[n] * 0 = 0
    BY Costs
  <2>3. /\ DOMAIN Weighted(EventCost, pending[j]) = PublishRetries
        /\ \A n \in PublishRetries : Weighted(EventCost, pending[j])[n] = 0
    BY <2>1, <2>2 DEF Weighted
  <2> QED
    BY <2>3, EmptyTotal DEF EventWork
<1>3. MessageWork(j) = 0
  <2>1. queue[j] \in [Retries -> Nat] /\ \A r \in Retries : queue[j][r] = 0
    BY <1>1 DEF SomebodyCanMove, TypeOK, QueueOK
  <2>2. \A r \in Retries : MessageCost[r] * 0 = 0
    BY Costs
  <2>3. /\ DOMAIN Weighted(MessageCost, queue[j]) = Retries
        /\ \A r \in Retries : Weighted(MessageCost, queue[j])[r] = 0
    BY <2>1, <2>2 DEF Weighted
  <2> QED
    BY <2>3, EmptyTotal DEF MessageWork
<1>4. WorkerWork(j) = 0
  <2>1. \A w \in Workers : Left(pc[w], task[w], j) = 0
    BY <1>1 DEF Left
  <2> QED
    BY <2>1, EmptyTotal DEF WorkerWork
<1>5. RowWork(j) = 0
  <2>1. ~Locked(j)
    BY <1>1 DEF Locked
  <2> QED
    BY <2>1 DEF SomebodyCanMove, Sweepable, RowWork
<1> QED
  BY <1>2, <1>3, <1>4, <1>5 DEF Work

\* No deadlock: while any job has work left, the publisher has an event, the sweeper a
\* row, or a worker a step whose guard holds, whatever locks the others hold.
THEOREM WorkGoesOn ==
  ASSUME Workers # {}
  PROVE  Spec => []((\E j \in Jobs : Work(j) > 0) => SomebodyCanMove)
<1>1. TypeOK => ((\E j \in Jobs : Work(j) > 0) => SomebodyCanMove)
  BY WorkMoves
<1> QED
  BY <1>1, TypeCorrect, PTL
=============================================================================
