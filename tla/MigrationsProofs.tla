-------------------------- MODULE MigrationsProofs --------------------------
(***************************************************************************)
(* Proofs about Migrations: for any number of racing runs, rows, crashes   *)
(* and downgrades, and sessions in any time zone.  Then that the runs never *)
(* wait in circles longer than those PostgreSQL is modelled to break.      *)
(***************************************************************************)
EXTENDS Migrations, TLAPS

-----------------------------------------------------------------------------
(* Tables.                                                                 *)

\* The labels and the zone of the tables of a revision.
LabelsAt(revision, t) == IF t = "jobs" /\ revision = 3 THEN JobStatus ELSE Labels
ZonedAt(revision, t) == t = "job_attempts" \/ revision >= 2

\* What a table is like in a database at a revision.
GoodTable(revision, t, s) ==
  IF revision = 0 THEN ~s.exists
  ELSE /\ s.exists
       /\ s.zoned <=> ZonedAt(revision, t)
       /\ s.labels = LabelsAt(revision, t)
       /\ s.shift = 0

LEMMA CreatedFields ==
  ASSUME NEW t
  PROVE  /\ Created(t) \in TableStates
         /\ Created(t).exists /\ Created(t).labels = Labels /\ Created(t).shift = 0
         /\ Created(t).zoned <=> t = "job_attempts"
<1> DEFINE z == t = "job_attempts"
<1>1. Created(t) \in TableStates
  <2>1. z \in BOOLEAN /\ Labels \in SUBSET Labels /\ 0 \in Int
    OBVIOUS
  <2> HIDE DEF z
  <2>2. [exists |-> TRUE, labels |-> Labels, zoned |-> z, shift |-> 0] \in TableStates
    BY <2>1 DEF TableStates
  <2> QED
    BY <2>2 DEF Created, z
<1>2. Created(t).exists /\ Created(t).labels = Labels /\ Created(t).shift = 0
  BY DEF Created
<1>3. Created(t).zoned <=> t = "job_attempts"
  BY Zenon DEF Created
<1> QED
  BY <1>1, <1>2, <1>3

LEMMA DroppedFields ==
  ASSUME NEW s \in TableStates
  PROVE  Dropped(s) \in TableStates /\ ~Dropped(s).exists
<1>1. Dropped(s) \in TableStates
  BY Zenon DEF Dropped, TableStates
<1>2. ~Dropped(s).exists
  BY DEF Dropped, TableStates
<1> QED
  BY <1>1, <1>2

LEMMA WithZoneFields ==
  ASSUME NEW s \in TableStates
  PROVE  /\ WithZone(s) \in TableStates
         /\ WithZone(s).exists = s.exists /\ WithZone(s).labels = s.labels
         /\ WithZone(s).zoned = TRUE
         /\ ~s.zoned => WithZone(s).shift = s.shift
<1> DEFINE i == IF s.zoned THEN s.shift - SessionOffset ELSE s.shift
<1>1. i \in Int /\ (~s.zoned => i = s.shift)
  BY MigrationsAssumption DEF TableStates
<1>2. WithZone(s) = [s EXCEPT !.zoned = TRUE, !.shift = i]
  BY DEF WithZone
<1> HIDE DEF i
<1>3. WithZone(s) \in TableStates
  BY <1>1, <1>2, Zenon DEF TableStates
<1>4. /\ WithZone(s).exists = s.exists /\ WithZone(s).labels = s.labels
      /\ WithZone(s).zoned = TRUE /\ WithZone(s).shift = i
  BY <1>1, <1>2, SMT DEF TableStates
<1> QED
  BY <1>1, <1>3, <1>4

LEMMA WithoutZoneFields ==
  ASSUME NEW s \in TableStates
  PROVE  /\ WithoutZone(s) \in TableStates
         /\ WithoutZone(s).exists = s.exists /\ WithoutZone(s).labels = s.labels
         /\ WithoutZone(s).zoned = FALSE
         /\ s.zoned => WithoutZone(s).shift = s.shift
<1> DEFINE i == IF s.zoned THEN s.shift ELSE s.shift + SessionOffset
<1>1. i \in Int /\ (s.zoned => i = s.shift)
  BY MigrationsAssumption DEF TableStates
<1>2. WithoutZone(s) = [s EXCEPT !.zoned = FALSE, !.shift = i]
  BY DEF WithoutZone
<1> HIDE DEF i
<1>3. WithoutZone(s) \in TableStates
  BY <1>1, <1>2, Zenon DEF TableStates
<1>4. /\ WithoutZone(s).exists = s.exists /\ WithoutZone(s).labels = s.labels
      /\ WithoutZone(s).zoned = FALSE /\ WithoutZone(s).shift = i
  BY <1>1, <1>2, SMT DEF TableStates
<1> QED
  BY <1>1, <1>3, <1>4

LEMMA RelabelledFields ==
  ASSUME NEW s \in TableStates, NEW up \in BOOLEAN
  PROVE  /\ Relabelled(s, up) \in TableStates
         /\ Relabelled(s, up).exists = s.exists /\ Relabelled(s, up).shift = s.shift
         /\ Relabelled(s, up).zoned = s.zoned
         /\ Relabelled(s, up).labels = IF up THEN JobStatus ELSE Labels
<1>1. Relabelled(s, up) = [exists |-> s.exists, zoned |-> s.zoned, shift |-> s.shift,
                           labels |-> IF up THEN JobStatus ELSE Labels]
  BY DEF Relabelled, TableStates
<1> QED
  BY <1>1 DEF TableStates, Labels

LEMMA TableAtIs ==
  ASSUME NEW revision \in 1..Latest, NEW t
  PROVE  TableAt(revision, t) = [exists |-> TRUE, labels |-> LabelsAt(revision, t),
                                 zoned |-> ZonedAt(revision, t), shift |-> 0]
<1>1. revision # 0
  BY DEF Latest
<1>2. TableAt(revision, t) = [Created(t) EXCEPT !.zoned = ZonedAt(revision, t),
                                                !.labels = LabelsAt(revision, t)]
  BY <1>1, Zenon DEF TableAt, ZonedAt, LabelsAt
<1> QED
  BY <1>2, Zenon DEF Created

LEMMA TableAtFields ==
  ASSUME NEW revision \in 0..Latest, NEW t \in Tables
  PROVE  TableAt(revision, t) \in TableStates /\ GoodTable(revision, t, TableAt(revision, t))
<1> DEFINE z == t = "job_attempts"
<1>1. CASE revision = 0
  <2>1. TableAt(revision, t) = [exists |-> FALSE, labels |-> {}, zoned |-> z, shift |-> 0]
    BY <1>1, Zenon DEF TableAt, Created
  <2>2. z \in BOOLEAN /\ 0 \in Int
    OBVIOUS
  <2> HIDE DEF z
  <2>3. TableAt(revision, t) \in TableStates
    BY <2>1, <2>2 DEF TableStates
  <2>4. ~TableAt(revision, t).exists
    BY <2>1
  <2> QED
    BY <1>1, <2>3, <2>4 DEF GoodTable
<1>2. CASE revision # 0
  <2>1. revision \in 1..Latest
    BY <1>2 DEF Latest
  <2>2. TableAt(revision, t) = [exists |-> TRUE, labels |-> LabelsAt(revision, t),
                                zoned |-> ZonedAt(revision, t), shift |-> 0]
    BY <2>1, TableAtIs
  <2>3. ZonedAt(revision, t) \in BOOLEAN /\ LabelsAt(revision, t) \in SUBSET Labels /\ 0 \in Int
    BY DEF ZonedAt, LabelsAt, Labels
  <2>4. TableAt(revision, t) \in TableStates
    BY <2>2, <2>3 DEF TableStates
  <2>5. GoodTable(revision, t, TableAt(revision, t))
    <3>1. /\ TableAt(revision, t).exists /\ TableAt(revision, t).shift = 0
          /\ TableAt(revision, t).labels = LabelsAt(revision, t)
      BY <2>2
    <3>2. TableAt(revision, t).zoned <=> ZonedAt(revision, t)
      <4>1. TableAt(revision, t).zoned = ZonedAt(revision, t)
        BY <2>2
      <4> QED
        BY <4>1
    <3> QED
      BY <1>2, <3>1, <3>2 DEF GoodTable
  <2> QED
    BY <2>4, <2>5
<1> QED
  BY <1>1, <1>2

\* A table that is good for a revision is the one that SchemaMatchesVersion names.
LEMMA GoodTableMatches ==
  ASSUME NEW revision \in 1..Latest, NEW t \in Tables, NEW s \in TableStates,
         GoodTable(revision, t, s)
  PROVE  [s EXCEPT !.shift = 0] = TableAt(revision, t)
<1>1. [s EXCEPT !.shift = 0] =
        [exists |-> s.exists, labels |-> s.labels, zoned |-> s.zoned, shift |-> 0]
  BY DEF TableStates
<1>2. TableAt(revision, t) = [exists |-> TRUE, labels |-> LabelsAt(revision, t),
                              zoned |-> ZonedAt(revision, t), shift |-> 0]
  BY TableAtIs
<1>3. revision # 0
  BY DEF Latest
<1>4. s.exists = TRUE /\ s.labels = LabelsAt(revision, t)
  BY <1>3 DEF GoodTable, TableStates
<1>5. s.zoned \in BOOLEAN /\ ZonedAt(revision, t) \in BOOLEAN
  BY DEF TableStates, ZonedAt
<1>6. s.zoned <=> ZonedAt(revision, t)
  BY <1>3 DEF GoodTable
<1>7. s.zoned = ZonedAt(revision, t)
  BY <1>5, <1>6
<1> QED
  BY <1>1, <1>2, <1>4, <1>7

-----------------------------------------------------------------------------
(* The plan of a run.                                                      *)

\* The revision that a run at a passes, and the one after it, on its way to g.
Passed(a, g) == IF a < g THEN a + 1 ELSE a
Reached(a, g) == IF a < g THEN a + 1 ELSE a - 1

\* The tables that a revision changes, in either direction.
Touched(revision) ==
  CASE revision = 1 -> Tables
    [] revision = 2 -> Tables \ {"job_attempts"}
    [] revision = 3 -> {"jobs"}

\* What no table stands for.
Marks == {"rows", "key"}

Pending(q) == {q[i] : i \in 1..Len(q)}
NoDuplicates(q) == \A i, j \in 1..Len(q) : q[i] = q[j] => i = j

\* Where a table is with q still to be changed.
LevelOf(a, g, q, t) == IF t \in Pending(q) THEN a ELSE Reached(a, g)

\* A table that is good for a is good for b.
SameAt(a, b, t) ==
  \/ a = b
  \/ /\ a # 0 /\ b # 0
     /\ ZonedAt(a, t) <=> ZonedAt(b, t)
     /\ LabelsAt(a, t) = LabelsAt(b, t)

LEMMA SameAtGood ==
  ASSUME NEW a \in 0..Latest, NEW b \in 0..Latest, NEW t, NEW s,
         SameAt(a, b, t), GoodTable(a, t, s)
  PROVE  GoodTable(b, t, s)
  BY DEF SameAt, GoodTable

LEMMA SameAtTransitive ==
  ASSUME NEW a, NEW b, NEW c, NEW t, SameAt(a, b, t), SameAt(b, c, t)
  PROVE  SameAt(a, c, t)
  BY DEF SameAt

\* A revision leaves a table that it does not touch.
LEMMA UntouchedSame ==
  ASSUME NEW a \in 0..Latest, NEW g \in 0..Latest, a # g, NEW t \in Tables,
         t \notin Touched(Passed(a, g))
  PROVE  SameAt(a, Reached(a, g), t)
<1>1. Passed(a, g) \in {1, 2, 3}
  BY DEF Passed, Latest
<1>2. CASE Passed(a, g) = 1
  BY <1>2 DEF Touched
<1>3. CASE Passed(a, g) = 2
  <2>1. t = "job_attempts"
    BY <1>3 DEF Touched
  <2>2. a # 0 /\ Reached(a, g) # 0
    BY <1>3 DEF Passed, Reached, Latest
  <2> QED
    BY <2>1, <2>2 DEF SameAt, ZonedAt, LabelsAt
<1>4. CASE Passed(a, g) = 3
  <2>1. t # "jobs"
    BY <1>4 DEF Touched
  <2>2. a \in {2, 3} /\ Reached(a, g) \in {2, 3}
    BY <1>4 DEF Passed, Reached, Latest
  <2> QED
    BY <2>1, <2>2 DEF SameAt, ZonedAt, LabelsAt
<1> QED
  BY <1>1, <1>2, <1>3, <1>4

LEMMA PendingTail ==
  ASSUME NEW S, NEW q \in Seq(S), q # <<>>, NoDuplicates(q)
  PROVE  /\ Head(q) \in Pending(q) /\ Tail(q) \in Seq(S)
         /\ Pending(Tail(q)) = Pending(q) \ {Head(q)}
         /\ NoDuplicates(Tail(q))
         /\ Len(q) = 1 <=> Tail(q) = <<>>
<1>1. /\ Len(q) \in Nat /\ Len(q) > 0 /\ Head(q) = q[1]
      /\ Tail(q) \in Seq(S) /\ Len(Tail(q)) = Len(q) - 1
  OBVIOUS
<1>2. \A i \in 1..(Len(q) - 1) : Tail(q)[i] = q[i + 1]
  BY <1>1
<1>3. \A i \in 1..Len(q) : i = 1 \/ i - 1 \in 1..(Len(q) - 1)
  BY <1>1
<1>4. Pending(Tail(q)) \subseteq Pending(q) \ {Head(q)}
  <2> SUFFICES ASSUME NEW i \in 1..(Len(q) - 1)
               PROVE  Tail(q)[i] \in Pending(q) /\ Tail(q)[i] # Head(q)
    BY <1>1 DEF Pending
  <2>1. i + 1 \in 1..Len(q) /\ 1 \in 1..Len(q) /\ i + 1 # 1
    BY <1>1
  <2> QED
    BY <1>1, <1>2, <2>1 DEF Pending, NoDuplicates
<1>5. Pending(q) \ {Head(q)} \subseteq Pending(Tail(q))
  <2> SUFFICES ASSUME NEW i \in 1..Len(q), q[i] # Head(q)
               PROVE  q[i] \in Pending(Tail(q))
    BY DEF Pending
  <2>1. i - 1 \in 1..(Len(q) - 1) /\ (i - 1) + 1 = i
    BY <1>1, <1>3
  <2> QED
    BY <1>1, <1>2, <2>1 DEF Pending
<1>6. NoDuplicates(Tail(q))
  <2> SUFFICES ASSUME NEW i \in 1..(Len(q) - 1), NEW j \in 1..(Len(q) - 1),
                      Tail(q)[i] = Tail(q)[j]
               PROVE  i = j
    BY <1>1 DEF NoDuplicates
  <2>1. i + 1 \in 1..Len(q) /\ j + 1 \in 1..Len(q)
    BY <1>1
  <2>2. i + 1 = j + 1
    BY <1>2, <2>1 DEF NoDuplicates
  <2> QED
    BY <2>2
<1>7. Head(q) \in Pending(q)
  BY <1>1 DEF Pending
<1>8. Len(q) = 1 <=> Tail(q) = <<>>
  BY <1>1
<1> QED
  BY <1>1, <1>4, <1>5, <1>6, <1>7, <1>8

\* Plans of one to four changes.
LEMMA OnePending ==
  ASSUME NEW q, Len(q) = 1
  PROVE  Pending(q) = {q[1]} /\ NoDuplicates(q)
<1>1. 1..Len(q) = {1}
  OBVIOUS
<1>2. Pending(q) = {q[1]}
  BY <1>1 DEF Pending
<1>3. NoDuplicates(q)
  BY <1>1 DEF NoDuplicates
<1> QED
  BY <1>2, <1>3

LEMMA TwoPending ==
  ASSUME NEW q, Len(q) = 2,
         q[1] # q[2]
  PROVE  Pending(q) = {q[1], q[2]} /\ NoDuplicates(q)
<1>1. 1..Len(q) = {1, 2}
  OBVIOUS
<1>2. Pending(q) = {q[1], q[2]}
  BY <1>1 DEF Pending
<1>3. NoDuplicates(q)
  BY <1>1 DEF NoDuplicates
<1> QED
  BY <1>2, <1>3

LEMMA ThreePending ==
  ASSUME NEW q, Len(q) = 3,
         q[1] # q[2], q[1] # q[3], q[2] # q[3]
  PROVE  Pending(q) = {q[1], q[2], q[3]} /\ NoDuplicates(q)
<1>1. 1..Len(q) = {1, 2, 3}
  OBVIOUS
<1>2. Pending(q) = {q[1], q[2], q[3]}
  BY <1>1 DEF Pending
<1>3. NoDuplicates(q)
  BY <1>1 DEF NoDuplicates
<1> QED
  BY <1>2, <1>3

LEMMA FourPending ==
  ASSUME NEW q, Len(q) = 4,
         q[1] # q[2], q[1] # q[3], q[1] # q[4], q[2] # q[3], q[2] # q[4], q[3] # q[4]
  PROVE  Pending(q) = {q[1], q[2], q[3], q[4]} /\ NoDuplicates(q)
<1>1. 1..Len(q) = {1, 2, 3, 4}
  OBVIOUS
<1>2. Pending(q) = {q[1], q[2], q[3], q[4]}
  BY <1>1 DEF Pending
<1>3. NoDuplicates(q)
  BY <1>1 DEF NoDuplicates
<1> QED
  BY <1>2, <1>3

LEMMA FivePending ==
  ASSUME NEW q, Len(q) = 5,
         q[1] # q[2], q[1] # q[3], q[1] # q[4], q[1] # q[5], q[2] # q[3], q[2] # q[4],
         q[2] # q[5], q[3] # q[4], q[3] # q[5], q[4] # q[5]
  PROVE  Pending(q) = {q[1], q[2], q[3], q[4], q[5]} /\ NoDuplicates(q)
<1>1. 1..Len(q) = {1, 2, 3, 4, 5}
  OBVIOUS
<1>2. Pending(q) = {q[1], q[2], q[3], q[4], q[5]}
  BY <1>1 DEF Pending
<1>3. NoDuplicates(q)
  BY <1>1 DEF NoDuplicates
<1> QED
  BY <1>2, <1>3

\* What the plan of one revision holds.
LEMMA OrderHolds ==
  ASSUME NEW a \in 0..Latest, NEW g \in 0..Latest, a # g
  PROVE  /\ Order(a, g) \in Seq(Targets)
         /\ Order(a, g) # <<>> /\ NoDuplicates(Order(a, g))
         /\ Pending(Order(a, g)) \ Marks = Touched(Passed(a, g))
         /\ "rows" \in Pending(Order(a, g)) => a = 2 /\ g = 3
         /\ a = 2 /\ g = 3 => Order(a, g) = <<"rows", "jobs">>
<1>1. CASE a < g
  <2>1. Order(a, g) = UpgradeOrder[a + 1] /\ Passed(a, g) = a + 1
    BY <1>1 DEF Order, Passed
  <2>2. CASE a = 0
    <3>1. Order(a, g) = <<"jobs", "outbox_events", "reports", "job_attempts">>
      BY <2>1, <2>2 DEF UpgradeOrder
    <3>2. /\ Len(Order(a, g)) = 4
          /\ Order(a, g)[1] = "jobs" /\ Order(a, g)[2] = "outbox_events"
          /\ Order(a, g)[3] = "reports" /\ Order(a, g)[4] = "job_attempts"
      BY <3>1
    <3>3. Order(a, g) \in Seq(Targets) /\ Order(a, g) # <<>>
      BY <3>1 DEF Targets, Tables
    <3>4. Pending(Order(a, g)) = Tables /\ NoDuplicates(Order(a, g))
      BY <3>2, FourPending DEF Tables
    <3>6. Pending(Order(a, g)) \ Marks = Touched(Passed(a, g))
      BY <2>1, <2>2, <3>4 DEF Touched, Tables, Marks
    <3> QED
      BY <2>1, <2>2, <3>1, <3>3, <3>4, <3>6 DEF Tables
  <2>3. CASE a = 1
    <3>1. Order(a, g) = <<"jobs", "outbox_events", "reports">>
      BY <2>1, <2>3 DEF UpgradeOrder
    <3>2. /\ Len(Order(a, g)) = 3
          /\ Order(a, g)[1] = "jobs" /\ Order(a, g)[2] = "outbox_events"
          /\ Order(a, g)[3] = "reports"
      BY <3>1
    <3>3. Order(a, g) \in Seq(Targets) /\ Order(a, g) # <<>>
      BY <3>1 DEF Targets, Tables
    <3>4. Pending(Order(a, g)) = Tables \ {"job_attempts"} /\ NoDuplicates(Order(a, g))
      BY <3>2, ThreePending DEF Tables
    <3>6. Pending(Order(a, g)) \ Marks = Touched(Passed(a, g))
      BY <2>1, <2>3, <3>4 DEF Touched, Tables, Marks
    <3> QED
      BY <2>1, <2>3, <3>1, <3>3, <3>4, <3>6 DEF Tables
  <2>4. CASE a = 2
    <3>1. Order(a, g) = <<"rows", "jobs">>
      BY <2>1, <2>4 DEF UpgradeOrder
    <3>2. /\ Len(Order(a, g)) = 2
          /\ Order(a, g)[1] = "rows" /\ Order(a, g)[2] = "jobs"
      BY <3>1
    <3>3. Order(a, g) \in Seq(Targets) /\ Order(a, g) # <<>>
      BY <3>1 DEF Targets, Tables
    <3>4. Pending(Order(a, g)) = {"rows", "jobs"} /\ NoDuplicates(Order(a, g))
      BY <3>2, TwoPending DEF Tables
    <3>5. g = 3
      BY <1>1, <2>4 DEF Latest
    <3>6. Pending(Order(a, g)) \ Marks = Touched(Passed(a, g))
      BY <2>1, <2>4, <3>4 DEF Touched, Tables, Marks
    <3> QED
      BY <2>1, <2>4, <3>1, <3>3, <3>4, <3>6, <3>5 DEF Tables
  <2> QED
    BY <1>1, <2>2, <2>3, <2>4 DEF Latest
<1>2. CASE a > g
  <2>1. Order(a, g) = DowngradeOrder[a] /\ Passed(a, g) = a /\ ~(a = 2 /\ g = 3)
    BY <1>2 DEF Order, Passed
  <2>2. CASE a = 1
    <3>1. Order(a, g) = <<"job_attempts", "key", "reports", "outbox_events", "jobs">>
      BY <2>1, <2>2 DEF DowngradeOrder
    <3>2. /\ Len(Order(a, g)) = 5
          /\ Order(a, g)[1] = "job_attempts" /\ Order(a, g)[2] = "key"
          /\ Order(a, g)[3] = "reports" /\ Order(a, g)[4] = "outbox_events"
          /\ Order(a, g)[5] = "jobs"
      BY <3>1
    <3>3. Order(a, g) \in Seq(Targets) /\ Order(a, g) # <<>>
      BY <3>1 DEF Targets, Tables
    <3>4. Pending(Order(a, g)) = Tables \cup {"key"} /\ NoDuplicates(Order(a, g))
      BY <3>2, FivePending DEF Tables
    <3>6. Pending(Order(a, g)) \ Marks = Touched(Passed(a, g))
      BY <2>1, <2>2, <3>4 DEF Touched, Tables, Marks
    <3> QED
      BY <2>1, <2>2, <3>1, <3>3, <3>4, <3>6 DEF Tables
  <2>3. CASE a = 2
    <3>1. Order(a, g) = <<"reports", "outbox_events", "jobs">>
      BY <2>1, <2>3 DEF DowngradeOrder
    <3>2. /\ Len(Order(a, g)) = 3
          /\ Order(a, g)[1] = "reports" /\ Order(a, g)[2] = "outbox_events"
          /\ Order(a, g)[3] = "jobs"
      BY <3>1
    <3>3. Order(a, g) \in Seq(Targets) /\ Order(a, g) # <<>>
      BY <3>1 DEF Targets, Tables
    <3>4. Pending(Order(a, g)) = Tables \ {"job_attempts"} /\ NoDuplicates(Order(a, g))
      BY <3>2, ThreePending DEF Tables
    <3>6. Pending(Order(a, g)) \ Marks = Touched(Passed(a, g))
      BY <2>1, <2>3, <3>4 DEF Touched, Tables, Marks
    <3> QED
      BY <2>1, <2>3, <3>1, <3>3, <3>4, <3>6 DEF Tables
  <2>4. CASE a = 3
    <3>1. Order(a, g) = <<"jobs">>
      BY <2>1, <2>4 DEF DowngradeOrder
    <3>2. /\ Len(Order(a, g)) = 1
          /\ Order(a, g)[1] = "jobs"
      BY <3>1
    <3>3. Order(a, g) \in Seq(Targets) /\ Order(a, g) # <<>>
      BY <3>1 DEF Targets, Tables
    <3>4. Pending(Order(a, g)) = {"jobs"} /\ NoDuplicates(Order(a, g))
      BY <3>2, OnePending DEF Tables
    <3>6. Pending(Order(a, g)) \ Marks = Touched(Passed(a, g))
      BY <2>1, <2>4, <3>4 DEF Touched, Tables, Marks
    <3> QED
      BY <2>1, <2>4, <3>1, <3>3, <3>4, <3>6 DEF Tables
  <2> QED
    BY <1>2, <2>2, <2>3, <2>4 DEF Latest
<1> QED
  BY <1>1, <1>2 DEF Latest

-----------------------------------------------------------------------------
(* The invariant.                                                          *)

InTransaction(d) == pc[d] \in {"step", "stamp"}

\* A run is between the version it found and its goal, with a plan left exactly when it
\* has a statement to execute.
PlanInv(d) ==
  /\ \/ seen[d] <= at[d] /\ at[d] < goal[d]
     \/ seen[d] >= at[d] /\ at[d] > goal[d]
  /\ pc[d] = "step" <=> todo[d] # <<>>
  /\ NoDuplicates(todo[d])
  /\ Pending(todo[d]) \ Marks \subseteq Touched(Passed(at[d], goal[d]))

\* The UPDATE of rows is the first statement of the last revision.
UpdateInv(d) ==
  /\ "rows" \in Pending(todo[d]) \cup held[d] => goal[d] = 3
  /\ "rows" \in Pending(todo[d]) => at[d] = 2
  /\ at[d] = 2 /\ goal[d] = 3 /\ todo[d] # <<>> =>
       \/ todo[d] = <<"rows", "jobs">>
       \/ todo[d] = <<"jobs">> /\ "rows" \in held[d]

\* A table it has not changed is as the version it found has it; one that it has changed
\* is right if the version it found is still the committed one.
TableInv(d, t) ==
  LET level == LevelOf(at[d], goal[d], todo[d], t) IN
  IF t \in held[d]
    THEN GoodTable(seen[d], t, tables[t]) => GoodTable(level, t, draft[d][t])
    ELSE SameAt(seen[d], level, t)

RunInv(d) ==
  InTransaction(d) =>
    /\ PlanInv(d)
    /\ UpdateInv(d)
    /\ at[d] = seen[d] => held[d] \cap Pending(todo[d]) = {}
    /\ \A t \in Tables : TableInv(d, t)

\* A run that has changed jobs or dropped the key has the lock of jobs.
HasJobs(h) == "jobs" \in h \/ "key" \in h

LockInv ==
  /\ \A d \in Deployers : ~InTransaction(d) => held[d] = {}
  /\ \A d, e \in Deployers : d # e => held[d] \cap held[e] \cap Tables = {}
  /\ \A d, e \in Deployers : d # e => ~(HasJobs(held[d]) /\ HasJobs(held[e]))

WaitInv == \A d \in Deployers : pc[d] \in Running => tries[d] < MaxAttempts

CommittedInv == \A t \in Tables : GoodTable(version, t, tables[t])

MInv ==
  /\ TypeOK
  /\ WaitInv
  /\ LockInv
  /\ CommittedInv
  /\ \A d \in Deployers : RunInv(d)

-----------------------------------------------------------------------------
(* What a run sees and does.                                               *)

LEMMA RunTyped ==
  ASSUME TypeOK, NEW d \in Deployers, RunInv(d), InTransaction(d)
  PROVE  /\ at[d] \in 0..Latest /\ goal[d] \in 0..Latest /\ seen[d] \in 0..Latest
         /\ at[d] # goal[d] /\ seen[d] # Reached(at[d], goal[d])
         /\ todo[d] \in Seq(Targets)
         /\ Revision(d) = Passed(at[d], goal[d]) /\ Revision(d) \in {1, 2, 3}
         /\ Reached(at[d], goal[d]) \in 0..Latest
<1>1. /\ at[d] \in 0..Latest /\ goal[d] \in 0..Latest /\ seen[d] \in 0..Latest
      /\ todo[d] \in Seq(Targets)
  BY DEF TypeOK
<1>2. PlanInv(d)
  BY DEF RunInv
<1> QED
  BY <1>1, <1>2 DEF PlanInv, Revision, Up, Passed, Reached, Latest

LEMMA ViewTyped ==
  ASSUME TypeOK, NEW d \in Deployers, NEW t \in Tables
  PROVE  View(d, t) \in TableStates
  BY DEF TypeOK, View

LEMMA ViewGood ==
  ASSUME TypeOK, NEW d \in Deployers, RunInv(d), InTransaction(d), NEW t \in Tables,
         GoodTable(seen[d], t, tables[t])
  PROVE  GoodTable(LevelOf(at[d], goal[d], todo[d], t), t, View(d, t))
<1> DEFINE level == LevelOf(at[d], goal[d], todo[d], t)
<1>1. TableInv(d, t)
  BY DEF RunInv
<1>2. CASE t \in held[d]
  BY <1>1, <1>2 DEF TableInv, View
<1>3. CASE t \notin held[d]
  <2>1. SameAt(seen[d], level, t)
    BY <1>1, <1>3 DEF TableInv
  <2>2. seen[d] \in 0..Latest /\ level \in 0..Latest
    BY RunTyped DEF LevelOf
  <2>3. View(d, t) = tables[t]
    BY <1>3 DEF View
  <2> QED
    BY <2>1, <2>2, <2>3, SameAtGood
<1> QED
  BY <1>2, <1>3

LEMMA ChangedGood ==
  ASSUME TypeOK, NEW d \in Deployers, RunInv(d), InTransaction(d),
         NEW t \in Touched(Revision(d))
  PROVE  /\ Changed(d, t) \in TableStates
         /\ GoodTable(at[d], t, View(d, t)) =>
              GoodTable(Reached(at[d], goal[d]), t, Changed(d, t))
<1> DEFINE s == View(d, t)
<1>1. at[d] \in 0..3 /\ goal[d] \in 0..3 /\ at[d] # goal[d] /\ Revision(d) \in {1, 2, 3}
  BY RunTyped DEF Latest
<1>2. t \in Tables
  BY <1>1 DEF Touched, Tables
<1>3. s \in TableStates
  BY <1>2, ViewTyped
<1> HIDE DEF s
<1>4. CASE Revision(d) = 1 /\ Up(d)
  <2>1. Changed(d, t) = Created(t)
    BY <1>4 DEF Changed
  <2>2. Reached(at[d], goal[d]) = 1
    BY <1>1, <1>4 DEF Revision, Up, Reached
  <2>3. ZonedAt(1, t) <=> t = "job_attempts"
    BY DEF ZonedAt
  <2>4. LabelsAt(1, t) = Labels
    BY DEF LabelsAt
  <2>5. GoodTable(1, t, Created(t))
    BY <2>3, <2>4, CreatedFields DEF GoodTable
  <2> QED
    BY <2>1, <2>2, <2>5, CreatedFields
<1>5. CASE Revision(d) = 1 /\ ~Up(d)
  <2>1. Changed(d, t) = Dropped(s)
    BY <1>5 DEF Changed, s
  <2>2. Reached(at[d], goal[d]) = 0
    BY <1>1, <1>5 DEF Revision, Up, Reached
  <2> QED
    BY <1>3, <2>1, <2>2, DroppedFields DEF GoodTable
<1>6. CASE Revision(d) = 2 /\ Up(d)
  <2>1. Changed(d, t) = WithZone(s)
    BY <1>6 DEF Changed, s
  <2>2. at[d] = 1 /\ Reached(at[d], goal[d]) = 2
    BY <1>1, <1>6 DEF Revision, Up, Reached
  <2>3. t # "job_attempts"
    BY <1>6 DEF Touched
  <2>4. ASSUME GoodTable(1, t, s)
        PROVE  GoodTable(2, t, WithZone(s))
    <3>1. s.exists /\ ~s.zoned /\ s.labels = Labels /\ s.shift = 0
      BY <2>3, <2>4 DEF GoodTable, ZonedAt, LabelsAt
    <3>2. /\ WithZone(s).exists /\ WithZone(s).zoned
          /\ WithZone(s).labels = Labels /\ WithZone(s).shift = 0
      BY <1>3, <3>1, WithZoneFields
    <3> QED
      BY <3>2 DEF GoodTable, ZonedAt, LabelsAt
  <2> QED
    BY <1>3, <2>1, <2>2, <2>4, WithZoneFields DEF s
<1>7. CASE Revision(d) = 2 /\ ~Up(d)
  <2>1. Changed(d, t) = WithoutZone(s)
    BY <1>7 DEF Changed, s
  <2>2. at[d] = 2 /\ Reached(at[d], goal[d]) = 1
    BY <1>1, <1>7 DEF Revision, Up, Reached
  <2>3. t # "job_attempts"
    BY <1>7 DEF Touched
  <2>4. ASSUME GoodTable(2, t, s)
        PROVE  GoodTable(1, t, WithoutZone(s))
    <3>1. s.exists /\ s.zoned /\ s.labels = Labels /\ s.shift = 0
      BY <2>4 DEF GoodTable, ZonedAt, LabelsAt
    <3>2. /\ WithoutZone(s).exists /\ ~WithoutZone(s).zoned
          /\ WithoutZone(s).labels = Labels /\ WithoutZone(s).shift = 0
      BY <1>3, <3>1, WithoutZoneFields
    <3> QED
      BY <2>3, <3>2 DEF GoodTable, ZonedAt, LabelsAt
  <2> QED
    BY <1>3, <2>1, <2>2, <2>4, WithoutZoneFields DEF s
<1>8. CASE Revision(d) = 3
  <2>1. Changed(d, t) = Relabelled(s, Up(d)) /\ Up(d) \in BOOLEAN
    BY <1>8 DEF Changed, s, Up
  <2>2. t = "jobs"
    BY <1>8 DEF Touched
  <2>3. IF Up(d) THEN at[d] = 2 /\ Reached(at[d], goal[d]) = 3
                 ELSE at[d] = 3 /\ Reached(at[d], goal[d]) = 2
    BY <1>1, <1>8 DEF Revision, Up, Reached
  <2>4. ASSUME GoodTable(at[d], t, s)
        PROVE  GoodTable(Reached(at[d], goal[d]), t, Relabelled(s, Up(d)))
    <3>1. s.exists /\ s.zoned /\ s.shift = 0
      BY <2>3, <2>4 DEF GoodTable, ZonedAt
    <3> DEFINE r == Relabelled(s, Up(d))
    <3>2. /\ r.exists /\ r.zoned /\ r.shift = 0
          /\ r.labels = IF Up(d) THEN JobStatus ELSE Labels
      BY <1>3, <2>1, <3>1, RelabelledFields
    <3> HIDE DEF r
    <3>3. GoodTable(Reached(at[d], goal[d]), t, r)
      BY <2>2, <2>3, <3>2 DEF GoodTable, ZonedAt, LabelsAt
    <3> QED
      BY <3>3 DEF r
  <2> QED
    BY <1>3, <2>1, <2>4, RelabelledFields DEF s
<1> QED
  BY <1>1, <1>4, <1>5, <1>6, <1>7, <1>8

\* A run whose own part of the state is as it was, and the tables that it holds.
LEMMA RunFrame ==
  ASSUME NEW d \in Deployers, RunInv(d),
         InTransaction(d)' => /\ pc'[d] = pc[d] /\ goal'[d] = goal[d] /\ seen'[d] = seen[d]
                              /\ at'[d] = at[d] /\ todo'[d] = todo[d]
                              /\ held'[d] = held[d] /\ draft'[d] = draft[d]
                              /\ \A t \in Tables \cap held[d] : tables'[t] = tables[t]
  PROVE  RunInv(d)'
<1> SUFFICES ASSUME InTransaction(d)'
             PROVE  /\ PlanInv(d)' /\ UpdateInv(d)'
                    /\ at'[d] = seen'[d] => held'[d] \cap Pending(todo'[d]) = {}
                    /\ \A t \in Tables : TableInv(d, t)'
  BY DEF RunInv, Pending
<1>1. InTransaction(d)
  BY DEF InTransaction
<1>2. PlanInv(d)'
  BY <1>1 DEF RunInv, PlanInv
<1>3. UpdateInv(d)'
  BY <1>1 DEF RunInv, UpdateInv
<1>4. at'[d] = seen'[d] => held'[d] \cap Pending(todo'[d]) = {}
  BY <1>1 DEF RunInv
<1>5. ASSUME NEW t \in Tables
      PROVE  TableInv(d, t)'
  BY <1>1, <1>5 DEF RunInv, TableInv
<1> QED
  BY <1>2, <1>3, <1>4, <1>5

-----------------------------------------------------------------------------
(* Every step keeps the invariant.                                         *)

LEMMA InitInv ==
  ASSUME Init
  PROVE  MInv
<1>1. version \in 0..Latest /\ tables = [t \in Tables |-> TableAt(version, t)]
  BY DEF Init, SchemaAt
<1>2. \A t \in Tables : tables[t] \in TableStates /\ GoodTable(version, t, tables[t])
  BY <1>1, TableAtFields
<1>3. tables \in [Tables -> TableStates]
  BY <1>1, <1>2
<1>4. 0 \in 0..MaxAttempts /\ 0 \in 0..Latest /\ <<>> \in Seq(Targets)
  BY MigrationsAssumption DEF Latest
<1>5. TypeOK
  BY <1>3, <1>4 DEF Init, TypeOK, Phases
<1>6. WaitInv /\ LockInv /\ \A d \in Deployers : RunInv(d)
  BY DEF Init, WaitInv, Running, LockInv, HasJobs, RunInv, InTransaction
<1> QED
  BY <1>2, <1>5, <1>6 DEF MInv, CommittedInv

LEMMA BeginInv ==
  ASSUME MInv, NEW d \in Deployers, NEW target \in 0..Latest, Begin(d, target),
         downgrades' \in Nat
  PROVE  MInv'
<1> USE DEF MInv
<1>1. version \in 0..Latest
  BY DEF TypeOK
<1>2. TypeOK'
  <2>1. Order(version, target) \in Seq(Targets)
    <3>1. CASE version = target
      BY <1>1, <3>1 DEF Order, Latest
    <3>2. CASE version # target
      BY <1>1, <3>2, OrderHolds
    <3> QED
      BY <3>1, <3>2
  <2>2. 0 \in 0..MaxAttempts
    BY MigrationsAssumption
  <2> QED
    BY <1>1, <2>1, <2>2 DEF TypeOK, Begin, Phases
<1>3. WaitInv'
  BY MigrationsAssumption DEF WaitInv, Running, Begin, TypeOK
<1>4. ~InTransaction(d) /\ held[d] = {}
  BY DEF Begin, InTransaction, LockInv
<1>5. LockInv'
  BY <1>4 DEF LockInv, Begin, InTransaction, TypeOK
<1>6. CommittedInv'
  BY DEF CommittedInv, Begin
<1>7. ASSUME NEW e \in Deployers
      PROVE  RunInv(e)'
  <2>1. CASE e # d
    BY <2>1, RunFrame DEF Begin, TypeOK
  <2>2. CASE e = d /\ version = target
    BY <2>2 DEF RunInv, InTransaction, Begin, TypeOK
  <2>3. CASE e = d /\ version # target
    <3>1. /\ pc'[d] = "step" /\ goal'[d] = target /\ seen'[d] = version
          /\ at'[d] = version /\ todo'[d] = Order(version, target) /\ held'[d] = {}
      BY <1>4, <2>3 DEF Begin, TypeOK
    <3> DEFINE q == Order(version, target)
    <3>2. /\ q # <<>> /\ NoDuplicates(q)
          /\ Pending(q) \ Marks = Touched(Passed(version, target))
          /\ "rows" \in Pending(q) => version = 2 /\ target = 3
          /\ version = 2 /\ target = 3 => q = <<"rows", "jobs">>
      BY <1>1, <2>3, OrderHolds
    <3> HIDE DEF q
    <3>3. PlanInv(d)'
      BY <1>1, <2>3, <3>1, <3>2 DEF PlanInv, q, Latest
    <3>4. UpdateInv(d)'
      BY <3>1, <3>2 DEF UpdateInv, q
    <3>5. ASSUME NEW t \in Tables
          PROVE  TableInv(d, t)'
      <4>1. t \notin Marks
        BY DEF Tables, Marks
      <4>2. CASE t \in Pending(q)
        BY <3>1, <4>2 DEF TableInv, LevelOf, SameAt, q
      <4>3. CASE t \notin Pending(q)
        <5>1. SameAt(version, Reached(version, target), t)
          BY <1>1, <2>3, <3>2, <4>1, <4>3, UntouchedSame
        <5> QED
          BY <3>1, <4>3, <5>1 DEF TableInv, LevelOf, q
      <4> QED
        BY <4>2, <4>3
    <3> QED
      BY <2>3, <3>1, <3>3, <3>4, <3>5 DEF RunInv
  <2> QED
    BY <2>1, <2>2, <2>3
<1> QED
  BY <1>2, <1>3, <1>5, <1>6, <1>7

LEMMA RollBackInv ==
  ASSUME MInv, NEW d \in Deployers, RollBack(d), crashes' \in Nat
  PROVE  MInv'
<1> USE DEF MInv
<1>1. TypeOK'
  BY DEF TypeOK, RollBack, Release, Phases
<1>2. WaitInv'
  BY DEF WaitInv, Running, RollBack, TypeOK
<1>3. LockInv'
  BY DEF LockInv, HasJobs, RollBack, Release, InTransaction, TypeOK
<1>4. CommittedInv'
  BY DEF CommittedInv, RollBack
<1>5. ASSUME NEW e \in Deployers
      PROVE  RunInv(e)'
  <2>1. CASE e # d
    BY <2>1, RunFrame DEF RollBack, Release, TypeOK
  <2>2. CASE e = d
    BY <2>2 DEF RunInv, InTransaction, RollBack, TypeOK
  <2> QED
    BY <2>1, <2>2
<1> QED
  BY <1>1, <1>2, <1>3, <1>4, <1>5

\* The API's wait for the database.
LEMMA WaitedInv ==
  ASSUME MInv, NEW d \in Deployers, Serve(d) \/ KeepTrying(d)
  PROVE  MInv'
<1> USE DEF MInv, transaction
<1>1. TypeOK'
  <2>1. CASE Serve(d)
    BY <2>1 DEF TypeOK, Serve, Phases
  <2>2. CASE KeepTrying(d)
    <3>1. tries[d] + 1 \in 0..MaxAttempts
      BY <2>2, MigrationsAssumption DEF TypeOK, KeepTrying, WaitInv, Running
    <3> QED
      BY <2>2, <3>1 DEF TypeOK, KeepTrying, Phases
  <2> QED
    BY <2>1, <2>2
<1>2. WaitInv'
  <2> SUFFICES ASSUME NEW e \in Deployers, pc'[e] \in Running
               PROVE  tries'[e] < MaxAttempts
    BY DEF WaitInv, Running
  <2>1. CASE Serve(d)
    BY <2>1 DEF WaitInv, Running, Serve, TypeOK
  <2>2. CASE KeepTrying(d) /\ e # d
    BY <2>2 DEF WaitInv, Running, KeepTrying, TypeOK
  <2>3. CASE KeepTrying(d) /\ e = d
    <3>1. /\ tries[d] + 1 # MaxAttempts /\ tries'[d] = tries[d] + 1
          /\ tries[d] < MaxAttempts /\ tries[d] \in Nat
      BY <2>3 DEF WaitInv, Running, KeepTrying, TypeOK
    <3> QED
      BY <2>3, <3>1, MigrationsAssumption
  <2> QED
    BY <2>1, <2>2, <2>3
<1>3. LockInv'
  BY DEF LockInv, Serve, KeepTrying, InTransaction, TypeOK
<1>4. CommittedInv'
  BY DEF CommittedInv, Serve, KeepTrying
<1>5. ASSUME NEW e \in Deployers
      PROVE  RunInv(e)'
  <2>1. CASE e # d
    BY <2>1, RunFrame DEF Serve, KeepTrying, TypeOK
  <2>2. CASE e = d
    BY <2>2 DEF RunInv, InTransaction, Serve, KeepTrying, TypeOK
  <2> QED
    BY <2>1, <2>2
<1> QED
  BY <1>1, <1>2, <1>3, <1>4, <1>5

LEMMA StepInv ==
  ASSUME MInv, NEW d \in Deployers, Step(d)
  PROVE  MInv'
<1> DEFINE what == Head(todo[d])
           q == Tail(todo[d])
           level == Reached(at[d], goal[d])
<1> USE DEF MInv
<1>1. /\ pc[d] = "step" /\ InTransaction(d) /\ Blockers(d) = {}
      /\ UNCHANGED <<version, tables, status, goal, seen, at, tries, downgrades, crashes>>
  BY DEF Step, InTransaction
<1>2. RunInv(d) /\ PlanInv(d) /\ UpdateInv(d)
  BY <1>1 DEF RunInv
<1>3. /\ at[d] \in 0..Latest /\ goal[d] \in 0..Latest /\ seen[d] \in 0..Latest
      /\ at[d] # goal[d] /\ todo[d] \in Seq(Targets)
      /\ Revision(d) = Passed(at[d], goal[d]) /\ level \in 0..Latest
  BY <1>1, <1>2, RunTyped
<1>4. todo[d] # <<>> /\ NoDuplicates(todo[d])
  BY <1>1, <1>2 DEF PlanInv
<1>5. /\ what \in Pending(todo[d]) /\ q \in Seq(Targets)
      /\ Pending(q) = Pending(todo[d]) \ {what} /\ NoDuplicates(q)
      /\ Len(todo[d]) = 1 <=> q = <<>>
  BY <1>3, <1>4, PendingTail
<1>6. what \in Targets /\ (what \in Tables => what \in Touched(Revision(d)))
  <2>1. what \in Targets
    BY <1>3, <1>4
  <2>2. what \in Tables => what \notin Marks
    BY DEF Tables, Marks
  <2> QED
    BY <1>2, <1>3, <1>5, <2>1, <2>2 DEF PlanInv
<1>7. what \in Tables =>
        /\ Changed(d, what) \in TableStates
        /\ GoodTable(at[d], what, View(d, what)) => GoodTable(level, what, Changed(d, what))
  BY <1>1, <1>2, <1>6, ChangedGood
<1>8. /\ held' = [held EXCEPT ![d] = held[d] \cup {what}]
      /\ todo' = [todo EXCEPT ![d] = q]
      /\ pc' = [pc EXCEPT ![d] = IF Len(todo[d]) = 1 THEN "stamp" ELSE "step"]
      /\ draft' = IF what \in Tables THEN [draft EXCEPT ![d][what] = Changed(d, what)]
                  ELSE draft
  BY DEF Step
<1>9. ASSUME NEW e \in Deployers, e # d, NEW b \in held[e]
      PROVE  ~Conflict(what, b)
  BY <1>1, <1>9 DEF Blockers
<1> HIDE DEF what, q, level
<1>10. TypeOK'
  <2>1. draft' \in [Deployers -> [Tables -> TableStates]]
    BY <1>6, <1>7, <1>8 DEF TypeOK
  <2>2. pc' \in [Deployers -> Phases]
    BY <1>8 DEF TypeOK, Phases
  <2>3. /\ held' \in [Deployers -> SUBSET Targets]
        /\ todo' \in [Deployers -> Seq(Targets)]
    BY <1>5, <1>6, <1>8 DEF TypeOK
  <2> QED
    BY <1>1, <2>1, <2>2, <2>3 DEF TypeOK
<1>11. WaitInv'
  BY <1>1, <1>8 DEF WaitInv, Running, TypeOK
<1>12. LockInv'
  <2>1. \A e \in Deployers : ~InTransaction(e)' => held'[e] = {}
    BY <1>1, <1>8 DEF LockInv, InTransaction, TypeOK
  <2>2. ASSUME NEW e \in Deployers, NEW f \in Deployers, e # f
        PROVE  held'[e] \cap held'[f] \cap Tables = {}
    <3>1. \A g \in Deployers : g # d /\ what \in Tables => what \notin held[g]
      BY <1>9 DEF Conflict, Tables
    <3>2. held[e] \cap held[f] \cap Tables = {}
      BY <2>2 DEF LockInv
    <3> QED
      BY <1>8, <2>2, <3>1, <3>2 DEF TypeOK
  <2>3. ASSUME NEW e \in Deployers, NEW f \in Deployers, e # f
        PROVE  ~(HasJobs(held'[e]) /\ HasJobs(held'[f]))
    <3>1. ASSUME NEW g \in Deployers, g # d, what \in {"jobs", "key"}
          PROVE  ~HasJobs(held[g])
      BY <1>9, <3>1 DEF Conflict, HasJobs
    <3>2. ~(HasJobs(held[e]) /\ HasJobs(held[f]))
      BY <2>3 DEF LockInv
    <3>3. \A g \in Deployers : g # d => held'[g] = held[g]
      BY <1>8 DEF TypeOK
    <3>4. what \in {"jobs", "key"} \/ (HasJobs(held'[d]) => HasJobs(held[d]))
      BY <1>8 DEF TypeOK, HasJobs
    <3> QED
      BY <2>3, <3>1, <3>2, <3>3, <3>4
  <2> QED
    BY <2>1, <2>2, <2>3 DEF LockInv
<1>13. CommittedInv'
  BY <1>1 DEF CommittedInv
<1>14. ASSUME NEW e \in Deployers
       PROVE  RunInv(e)'
  <2>1. CASE e # d
    <3>1. draft'[e] = draft[e]
      BY <1>8, <2>1 DEF TypeOK
    <3> QED
      BY <1>1, <1>8, <2>1, <3>1, RunFrame DEF TypeOK
  <2>2. CASE e = d
    <3>1. /\ pc'[d] = (IF q = <<>> THEN "stamp" ELSE "step") /\ todo'[d] = q
          /\ held'[d] = held[d] \cup {what}
          /\ goal'[d] = goal[d] /\ seen'[d] = seen[d] /\ at'[d] = at[d]
          /\ tables' = tables
      BY <1>1, <1>5, <1>8 DEF TypeOK
    <3>2. PlanInv(d)'
      <4>1. pc'[d] = "step" <=> todo'[d] # <<>>
        BY <3>1
      <4>2. Pending(q) \ Marks \subseteq Touched(Passed(at[d], goal[d]))
        BY <1>2, <1>5 DEF PlanInv
      <4> QED
        BY <1>2, <1>5, <3>1, <4>1, <4>2 DEF PlanInv
    <3>3. UpdateInv(d)'
      <4>1. "rows" \in Pending(q) \cup held'[d] => goal[d] = 3
        BY <1>2, <1>5, <3>1 DEF UpdateInv
      <4>2. "rows" \in Pending(q) => at[d] = 2
        BY <1>2, <1>5 DEF UpdateInv
      <4>3. ASSUME at[d] = 2, goal[d] = 3, q # <<>>
            PROVE  q = <<"jobs">> /\ "rows" \in held'[d]
        <5>1. todo[d] = <<"rows", "jobs">> \/ todo[d] = <<"jobs">>
          BY <1>2, <1>4, <4>3 DEF UpdateInv
        <5>2. todo[d] # <<"jobs">>
          <6> SUFFICES ASSUME todo[d] = <<"jobs">>
                       PROVE  Len(todo[d]) = 1
            BY <1>5, <4>3
          <6> QED
            OBVIOUS
        <5>3. todo[d] = <<"rows", "jobs">>
          BY <5>1, <5>2
        <5>4. what = "rows" /\ q = <<"jobs">>
          BY <5>3 DEF what, q
        <5> QED
          BY <3>1, <5>4
      <4> QED
        BY <3>1, <4>1, <4>2, <4>3 DEF UpdateInv
    <3>4. at[d] = seen[d] => held'[d] \cap Pending(q) = {}
      BY <1>1, <1>5, <3>1 DEF RunInv
    <3>5. ASSUME NEW t \in Tables
          PROVE  TableInv(d, t)'
      <4>1. "rows" \notin Tables
        BY DEF Tables
      <4>2. CASE t = what
        <5>1. t \in held'[d] /\ LevelOf(at[d], goal[d], q, t) = level
          BY <1>5, <3>1, <4>2 DEF LevelOf, level
        <5>2. draft'[d][t] = Changed(d, t)
          BY <1>8, <4>1, <4>2 DEF TypeOK
        <5>3. ASSUME GoodTable(seen[d], t, tables[t])
              PROVE  GoodTable(level, t, Changed(d, t))
          <6>1. GoodTable(LevelOf(at[d], goal[d], todo[d], t), t, View(d, t))
            BY <1>1, <1>2, <5>3, ViewGood
          <6>2. LevelOf(at[d], goal[d], todo[d], t) = at[d]
            BY <1>5, <4>2 DEF LevelOf
          <6> QED
            BY <1>7, <4>1, <4>2, <6>1, <6>2
        <5> QED
          BY <3>1, <5>1, <5>2, <5>3 DEF TableInv
      <4>3. CASE t # what
        <5>1. /\ t \in held'[d] <=> t \in held[d]
              /\ LevelOf(at[d], goal[d], q, t) = LevelOf(at[d], goal[d], todo[d], t)
          BY <1>5, <3>1, <4>3 DEF LevelOf
        <5>2. draft'[d][t] = draft[d][t]
          BY <1>8, <4>3 DEF TypeOK
        <5>3. TableInv(d, t)
          BY <1>1, <1>2 DEF RunInv
        <5> QED
          BY <3>1, <5>1, <5>2, <5>3 DEF TableInv
      <4> QED
        BY <4>2, <4>3
    <3> QED
      BY <2>2, <3>1, <3>2, <3>3, <3>4, <3>5 DEF RunInv
  <2> QED
    BY <2>1, <2>2
<1> QED
  BY <1>10, <1>11, <1>12, <1>13, <1>14

LEMMA StampInv ==
  ASSUME MInv, NEW d \in Deployers, Stamp(d)
  PROVE  MInv'
<1> DEFINE level == Reached(at[d], goal[d])
           q == Order(level, goal[d])
<1> USE DEF MInv
<1>1. pc[d] = "stamp" /\ InTransaction(d) /\ version = seen[d]
  BY DEF Stamp, VersionAsRead, InTransaction
<1>2. RunInv(d) /\ PlanInv(d) /\ UpdateInv(d) /\ todo[d] = <<>>
  BY <1>1 DEF RunInv, PlanInv
<1>3. /\ at[d] \in 0..Latest /\ goal[d] \in 0..Latest /\ seen[d] \in 0..Latest
      /\ at[d] # goal[d] /\ seen[d] # level /\ level \in 0..Latest
  BY <1>1, <1>2, RunTyped
<1>4. ASSUME NEW t \in Tables
      PROVE  LevelOf(at[d], goal[d], todo[d], t) = level
  BY <1>2 DEF LevelOf, Pending
<1>5. at' = [at EXCEPT ![d] = level] /\ UNCHANGED <<tries, crashes>>
  BY DEF Stamp, Reached, Up
<1>6. CASE level # goal[d]
  <2>1. /\ todo' = [todo EXCEPT ![d] = q]
        /\ pc' = [pc EXCEPT ![d] = "step"]
        /\ UNCHANGED <<version, tables, status, goal, seen, held, draft, downgrades>>
    BY <1>6 DEF Stamp, Reached, Up
  <2>2. /\ q \in Seq(Targets) /\ q # <<>> /\ NoDuplicates(q)
        /\ Pending(q) \ Marks = Touched(Passed(level, goal[d]))
        /\ "rows" \in Pending(q) => level = 2 /\ goal[d] = 3
        /\ level = 2 /\ goal[d] = 3 => q = <<"rows", "jobs">>
    BY <1>3, <1>6, OrderHolds
  <2> HIDE DEF q
  <2>3. TypeOK'
    BY <1>3, <1>5, <2>1, <2>2 DEF TypeOK, Phases
  <2>4. WaitInv'
    BY <1>1, <1>5, <2>1 DEF WaitInv, Running, TypeOK
  <2>5. LockInv'
    BY <1>1, <2>1 DEF LockInv, HasJobs, InTransaction, TypeOK
  <2>6. CommittedInv'
    BY <2>1 DEF CommittedInv
  <2>7. ASSUME NEW e \in Deployers
        PROVE  RunInv(e)'
    <3>1. CASE e # d
      BY <1>5, <2>1, <3>1, RunFrame DEF TypeOK
    <3>2. CASE e = d
      <4>1. /\ pc'[d] = "step" /\ todo'[d] = q /\ at'[d] = level
            /\ goal'[d] = goal[d] /\ seen'[d] = seen[d] /\ held'[d] = held[d]
            /\ draft'[d] = draft[d] /\ tables' = tables
        BY <1>5, <2>1 DEF TypeOK
      <4>2. PlanInv(d)'
        <5>1. \/ seen[d] <= level /\ level < goal[d]
              \/ seen[d] >= level /\ level > goal[d]
          BY <1>2, <1>3, <1>6 DEF PlanInv, Reached, Latest
        <5> QED
          BY <2>2, <4>1, <5>1 DEF PlanInv
      <4>3. UpdateInv(d)'
        BY <1>2, <2>2, <4>1 DEF UpdateInv
      <4>4. ASSUME NEW t \in Tables
            PROVE  TableInv(d, t)'
        <5> DEFINE next == LevelOf(level, goal[d], q, t)
        <5>1. SameAt(level, next, t)
          <6>1. t \notin Marks
            BY DEF Tables, Marks
          <6>2. CASE t \in Pending(q)
            BY <6>2 DEF LevelOf, SameAt
          <6>3. CASE t \notin Pending(q)
            BY <1>3, <1>6, <2>2, <6>1, <6>3, UntouchedSame DEF LevelOf
          <6> QED
            BY <6>2, <6>3
        <5>2. next \in 0..Latest
          BY <1>3, <1>6 DEF LevelOf, Reached, Latest
        <5>3. TableInv(d, t) /\ LevelOf(at[d], goal[d], todo[d], t) = level
          BY <1>1, <1>2, <1>4 DEF RunInv
        <5> HIDE DEF next, level
        <5>4. CASE t \in held[d]
          <6>1. GoodTable(seen[d], t, tables[t]) => GoodTable(next, t, draft[d][t])
            BY <1>3, <5>1, <5>2, <5>3, <5>4, SameAtGood DEF TableInv
          <6> QED
            BY <4>1, <5>4, <6>1 DEF TableInv, next
        <5>5. CASE t \notin held[d]
          <6>1. SameAt(seen[d], next, t)
            BY <5>1, <5>3, <5>5, SameAtTransitive DEF TableInv
          <6> QED
            BY <4>1, <5>5, <6>1 DEF TableInv, next
        <5> QED
          BY <5>4, <5>5
      <4> QED
        BY <1>3, <3>2, <4>1, <4>2, <4>3, <4>4 DEF RunInv
    <3> QED
      BY <3>1, <3>2
  <2> QED
    BY <2>3, <2>4, <2>5, <2>6, <2>7
<1>7. CASE level = goal[d]
  <2>1. /\ version' = level /\ tables' = [t \in Tables |-> View(d, t)]
        /\ status' = RowsOf(d)
        /\ pc' = [pc EXCEPT ![d] = IF level = Latest THEN "waiting" ELSE "idle"]
        /\ held' = [held EXCEPT ![d] = {}] /\ todo' = [todo EXCEPT ![d] = <<>>]
        /\ UNCHANGED <<goal, seen, draft, downgrades>>
    BY <1>7 DEF Stamp, Reached, Up, Release
  <2>2. TypeOK'
    <3>1. tables' \in [Tables -> TableStates]
      BY <2>1, ViewTyped
    <3>2. status' \in [Rows -> Labels \cup {"absent"}]
      BY <2>1 DEF TypeOK, RowsOf, Updated, Labels, JobStatus
    <3> QED
      BY <1>3, <1>5, <2>1, <3>1, <3>2 DEF TypeOK, Phases
  <2>3. WaitInv'
    BY <1>1, <1>5, <2>1 DEF WaitInv, Running, TypeOK
  <2>4. LockInv'
    BY <1>1, <2>1 DEF LockInv, HasJobs, InTransaction, TypeOK
  <2>5. CommittedInv'
    <3> SUFFICES ASSUME NEW t \in Tables
                 PROVE  GoodTable(level, t, View(d, t))
      BY <2>1 DEF CommittedInv
    <3>1. GoodTable(seen[d], t, tables[t])
      BY <1>1 DEF CommittedInv
    <3>2. GoodTable(LevelOf(at[d], goal[d], todo[d], t), t, View(d, t))
      BY <1>1, <1>2, <3>1, ViewGood
    <3> QED
      BY <1>4, <3>2
  <2>6. ASSUME NEW e \in Deployers
        PROVE  RunInv(e)'
    <3>1. CASE e # d
      <4>1. \A t \in Tables \cap held[e] : t \notin held[d] /\ tables'[t] = tables[t]
        BY <2>1, <3>1 DEF LockInv, View
      <4> QED
        BY <1>5, <2>1, <3>1, <4>1, RunFrame DEF TypeOK
    <3>2. CASE e = d
      BY <2>1, <3>2 DEF RunInv, InTransaction, TypeOK
    <3> QED
      BY <3>1, <3>2
  <2> QED
    BY <2>2, <2>3, <2>4, <2>5, <2>6
<1> QED
  BY <1>6, <1>7

LEMMA StutterInv ==
  ASSUME MInv, UNCHANGED vars
  PROVE  MInv'
<1> USE DEF MInv, vars, transaction
<1>1. TypeOK'
  BY DEF TypeOK
<1>2. WaitInv' /\ CommittedInv'
  BY DEF WaitInv, CommittedInv
<1>3. LockInv'
  BY DEF LockInv, InTransaction
<1>4. \A d \in Deployers : RunInv(d)'
  BY RunFrame
<1> QED
  BY <1>1, <1>2, <1>3, <1>4

LEMMA NextInv ==
  ASSUME MInv, [Next]_vars
  PROVE  MInv'
<1>1. CASE UNCHANGED vars
  BY <1>1, StutterInv
<1>2. ASSUME NEW d \in Deployers, Upgrade(d)
      PROVE  MInv'
  BY <1>2, BeginInv DEF Upgrade, MInv, TypeOK, Latest
<1>3. ASSUME NEW d \in Deployers, NEW target \in 0..Latest, Downgrade(d, target)
      PROVE  MInv'
  <2>1. downgrades' \in Nat /\ Begin(d, target)
    BY <1>3 DEF Downgrade, MInv, TypeOK
  <2> QED
    BY <2>1, BeginInv
<1>4. ASSUME NEW d \in Deployers, StepRaises(d) \/ BreakDeadlock(d) \/ StampRaises(d)
      PROVE  MInv'
  BY <1>4, RollBackInv DEF StepRaises, BreakDeadlock, StampRaises, MInv, TypeOK
<1>5. ASSUME NEW d \in Deployers, Crash(d)
      PROVE  MInv'
  <2>1. crashes' \in Nat /\ RollBack(d)
    BY <1>5 DEF Crash, MInv, TypeOK
  <2> QED
    BY <2>1, RollBackInv
<1> QED
  BY <1>1, <1>2, <1>3, <1>4, <1>5, StepInv, StampInv, WaitedInv DEF Next, DeployerStep

-----------------------------------------------------------------------------
(* The theorems.                                                           *)

LEMMA MInvariant == Spec => []MInv
<1>1. Init => MInv
  BY InitInv
<1>2. MInv /\ [Next]_vars => MInv'
  BY NextInv
<1> QED
  BY <1>1, <1>2, PTL DEF Spec

\* The state of the runs and of the schema is as declared: wait_for_db gives up in time.
THEOREM MigrationsTyped == Spec => []TypeOK
<1>1. MInv => TypeOK
  BY DEF MInv
<1> QED
  BY <1>1, MInvariant, PTL

\* However many alembic runs race, fail or die, the committed schema is the one that the
\* committed alembic_version names.
THEOREM SchemaFollowsVersion == Spec => []SchemaMatchesVersion
<1>1. MInv => SchemaMatchesVersion
  <2> SUFFICES ASSUME MInv, NEW t \in Tables
               PROVE  IF version = 0
                        THEN ~tables[t].exists
                        ELSE [tables[t] EXCEPT !.shift = 0] = TableAt(version, t)
    BY DEF SchemaMatchesVersion
  <2>1. /\ version \in 0..Latest /\ tables[t] \in TableStates
        /\ GoodTable(version, t, tables[t])
    BY DEF MInv, TypeOK, CommittedInv
  <2>2. CASE version = 0
    BY <2>1, <2>2 DEF GoodTable
  <2>3. CASE version # 0
    <3>1. version \in 1..Latest
      BY <2>1, <2>3 DEF Latest
    <3>2. [tables[t] EXCEPT !.shift = 0] = TableAt(version, t)
      BY <2>1, <3>1, GoodTableMatches
    <3> QED
      BY <2>3, <3>2
  <2> QED
    BY <2>2, <2>3
<1> QED
  BY <1>1, MInvariant, PTL

\* No committed timestamp has been moved by a migration, in whatever time zone the
\* sessions of the runs are: USING ... AT TIME ZONE 'UTC'.
THEOREM InstantsAreKept == Spec => []InstantsPreserved
<1>1. MInv => InstantsPreserved
  BY DEF MInv, CommittedInv, GoodTable, InstantsPreserved
<1> QED
  BY <1>1, MInvariant, PTL

\* The only statement that changes a status is the UPDATE of the last revision, and rows go
\* only where the table goes.
LEMMA StatusStep ==
  ASSUME MInv, [Next]_vars, NEW r \in Rows, status'[r] # status[r]
  PROVE  \/ version' = 0
         \/ status[r] = "failed" /\ status'[r] = "dead" /\ version' = Latest
<1> USE DEF MInv
<1>1. PICK d \in Deployers : Stamp(d) /\ status' # status
  BY DEF Next, vars, Upgrade, Downgrade, Begin, DeployerStep, Step, StepRaises, BreakDeadlock,
         StampRaises, Crash, RollBack, Serve, KeepTrying
<1> DEFINE level == Reached(at[d], goal[d])
<1>2. level = goal[d] /\ version' = level /\ status' = RowsOf(d)
  BY <1>1 DEF Stamp, Reached, Up, Release
<1>3. pc[d] = "stamp" /\ InTransaction(d) /\ version = seen[d]
  BY <1>1 DEF Stamp, VersionAsRead, InTransaction
<1>4. RunInv(d) /\ UpdateInv(d) /\ todo[d] = <<>>
  BY <1>3 DEF RunInv, PlanInv
<1>5. CASE ~View(d, "jobs").exists
  <2>1. "jobs" \in Tables
    BY DEF Tables
  <2>2. GoodTable(seen[d], "jobs", tables["jobs"])
    BY <1>3, <2>1 DEF CommittedInv
  <2>3. GoodTable(LevelOf(at[d], goal[d], todo[d], "jobs"), "jobs", View(d, "jobs"))
    BY <1>3, <1>4, <2>1, <2>2, ViewGood
  <2>4. LevelOf(at[d], goal[d], todo[d], "jobs") = level
    BY <1>4 DEF LevelOf, Pending
  <2>5. level = 0
    BY <1>5, <2>3, <2>4 DEF GoodTable
  <2> QED
    BY <1>2, <2>5
<1>6. CASE View(d, "jobs").exists
  <2>1. "rows" \in held[d] /\ status' = Updated
    BY <1>1, <1>2, <1>6 DEF RowsOf
  <2>2. version' = Latest
    BY <1>2, <1>4, <2>1 DEF UpdateInv, Latest
  <2> QED
    BY <2>1, <2>2 DEF Updated
<1> QED
  BY <1>5, <1>6

\* Rows keep their status but for FAILED, which becomes DEAD with the last revision, and
\* are lost only with the table.
THEOREM StatusesAreKept == Spec => StatusesPreserved
<1>1. MInv /\ [Next]_vars =>
        [\A r \in Rows : status'[r] # status[r] =>
           \/ version' = 0
           \/ status[r] = "failed" /\ status'[r] = "dead" /\ version' = Latest]_vars
  BY StatusStep
<1> QED
  BY <1>1, MInvariant, PTL DEF Spec, StatusesPreserved

\* The statement of a run that found the committed version raises only in a database whose
\* types a downgrade to base left behind.
LEMMA StatementAccepted ==
  ASSUME MInv, NEW d \in Deployers, pc[d] = "step", version = seen[d],
         ~Accepted(d, Head(todo[d]))
  PROVE  version = 0 /\ \E t \in Tables : tables[t].labels # {}
<1> DEFINE what == Head(todo[d])
<1> USE DEF MInv
<1>1. InTransaction(d) /\ RunInv(d)
  BY DEF InTransaction
<1>2. /\ PlanInv(d) /\ UpdateInv(d) /\ todo[d] # <<>>
      /\ at[d] = seen[d] => held[d] \cap Pending(todo[d]) = {}
  BY <1>1 DEF RunInv, PlanInv
<1>3. /\ at[d] \in 0..3 /\ goal[d] \in 0..3 /\ seen[d] \in 0..3 /\ at[d] # goal[d]
      /\ todo[d] \in Seq(Targets)
      /\ Revision(d) = Passed(at[d], goal[d]) /\ Revision(d) \in {1, 2, 3}
  BY <1>1, RunTyped DEF Latest
<1>4. what \in Pending(todo[d])
  BY <1>2, <1>3, PendingTail DEF PlanInv
<1>5. \A t \in Tables : GoodTable(LevelOf(at[d], goal[d], todo[d], t), t, View(d, t))
  BY <1>1, ViewGood DEF CommittedInv
<1>6. what \notin Marks => what \in Touched(Revision(d)) /\ what \in Tables
  <2>1. what \notin Marks => what \in Touched(Revision(d))
    BY <1>2, <1>3, <1>4 DEF PlanInv
  <2> QED
    BY <1>3, <2>1 DEF Touched, Tables
<1>7. what \notin Marks => GoodTable(at[d], what, View(d, what))
  BY <1>4, <1>5, <1>6 DEF LevelOf
<1>8. ~Accepted(d, what)
  OBVIOUS
<1> HIDE DEF what
<1>9. what \notin Marks
  <2>1. what # "key"
    BY <1>8 DEF Accepted, Tables
  <2>2. ASSUME what = "rows"
        PROVE  View(d, "jobs").exists
    <3>1. at[d] = 2 /\ "jobs" \in Tables
      BY <1>2, <1>4, <2>2 DEF UpdateInv, Tables
    <3>2. LevelOf(at[d], goal[d], todo[d], "jobs") # 0
      BY <1>3, <3>1 DEF LevelOf, Reached
    <3> QED
      BY <1>5, <3>1, <3>2 DEF GoodTable
  <2>3. what # "rows"
    BY <1>8, <2>2 DEF Accepted, Tables
  <2> QED
    BY <2>1, <2>3 DEF Marks
<1>10. CASE Up(d) /\ Revision(d) = 1
  <2>1. at[d] = 0 /\ seen[d] = 0
    BY <1>2, <1>3, <1>10 DEF PlanInv, Up, Revision
  <2>2. ~View(d, what).exists
    BY <1>7, <1>9, <2>1 DEF GoodTable
  <2>3. View(d, what).labels # {}
    BY <1>6, <1>8, <1>9, <1>10, <2>2 DEF Accepted, Marks
  <2>4. View(d, what) = tables[what]
    BY <1>2, <1>4, <2>1 DEF View
  <2> QED
    BY <1>6, <1>9, <2>1, <2>3, <2>4
<1>11. CASE ~(Up(d) /\ Revision(d) = 1)
  <2>1. at[d] # 0
    BY <1>3, <1>11 DEF Up, Revision
  <2>2. View(d, what).exists
    BY <1>7, <1>9, <2>1 DEF GoodTable
  <2>3. /\ what = "jobs" /\ Up(d) /\ Revision(d) = 3
        /\ \E r \in Rows : RowsOf(d)[r] = "failed"
    BY <1>8, <1>9, <1>11, <2>2 DEF Accepted, Marks
  <2>4. at[d] = 2 /\ goal[d] = 3
    BY <1>3, <2>3 DEF Up, Revision
  <2>5. todo[d] # <<"rows", "jobs">>
    <3> SUFFICES ASSUME todo[d] = <<"rows", "jobs">>
                 PROVE  FALSE
      OBVIOUS
    <3>1. Head(todo[d]) = "rows"
      OBVIOUS
    <3> QED
      BY <2>3, <3>1 DEF what
  <2>6. "rows" \in held[d]
    BY <1>2, <2>4, <2>5 DEF UpdateInv
  <2>7. RowsOf(d) = Updated
    BY <2>2, <2>3, <2>6 DEF RowsOf
  <2> QED
    BY <2>3, <2>7 DEF Updated
<1> QED
  BY <1>10, <1>11

LEMMA FailureStep ==
  ASSUME MInv, [Next]_vars, NEW d \in Deployers, pc[d] \in {"step", "stamp"}, pc'[d] = "exited"
  PROVE  \/ crashes' # crashes
         \/ version # seen[d]
         \/ Deadlocked(d)
         \/ version = 0 /\ \E t \in Tables : tables[t].labels # {}
<1>1. pc \in [Deployers -> Phases] /\ crashes \in Nat /\ pc' # pc
  BY DEF MInv, TypeOK
<1>2. PICK e \in Deployers :
        \/ Upgrade(e) \/ (\E target \in 0..Latest : Downgrade(e, target))
        \/ DeployerStep(e) \/ Crash(e)
  BY <1>1 DEF Next, vars
<1>3. CASE e # d
  <2>1. pc'[d] = pc[d]
    BY <1>1, <1>2, <1>3 DEF Upgrade, Downgrade, Begin, DeployerStep, Step, StepRaises,
         BreakDeadlock, StampRaises, Stamp, Crash, RollBack, Serve, KeepTrying
  <2> QED
    BY <2>1
<1>4. CASE e = d
  <2>1. StepRaises(d) \/ BreakDeadlock(d) \/ StampRaises(d) \/ Crash(d)
    BY <1>1, <1>2, <1>4 DEF Upgrade, Downgrade, Begin, DeployerStep, Step, Stamp, Serve,
         KeepTrying
  <2>2. CASE StepRaises(d)
    BY <2>2, StatementAccepted DEF StepRaises
  <2>3. CASE BreakDeadlock(d)
    BY <2>3 DEF BreakDeadlock
  <2>4. CASE StampRaises(d)
    BY <2>4 DEF StampRaises, VersionAsRead
  <2>5. CASE Crash(d)
    BY <1>1, <2>5 DEF Crash
  <2> QED
    BY <2>1, <2>2, <2>3, <2>4, <2>5
<1> QED
  BY <1>3, <1>4

\* A run that nobody kills is rolled back only because another run committed, or waits for
\* it, or because base was left with its types.
THEOREM FailuresAreExplained == Spec => FailuresExplained
<1>1. MInv /\ [Next]_vars =>
        [\A d \in Deployers : pc[d] \in {"step", "stamp"} /\ pc'[d] = "exited" =>
           \/ crashes' # crashes
           \/ version # seen[d]
           \/ Deadlocked(d)
           \/ version = 0 /\ \E t \in Tables : tables[t].labels # {}]_vars
  BY FailureStep
<1> QED
  BY <1>1, MInvariant, PTL DEF Spec, FailuresExplained

-----------------------------------------------------------------------------
(* Waiting.  BreakDeadlock knows only two runs that wait for each other, as *)
(* if longer circles could not be.  They cannot, for any number of runs:    *)
(* when all of them wait, two wait for each other.  Upgrades take the lock  *)
(* of jobs first.  Downgrades take reports, then outbox_events, then jobs,  *)
(* those of the first revision jobs before reports, with the key of         *)
(* job_attempts.                                                            *)

Most == Tables \ {"job_attempts"}

\* A revision that changes x, then y, and so on is at q, its transaction holding h; it
\* held b when it came to the revision.
At1(x, b, q, h) ==
  \/ q = <<x>> /\ h = b
  \/ q = <<>> /\ h = b \cup {x}

At2(x, y, b, q, h) ==
  \/ q = <<x, y>> /\ h = b
  \/ At1(y, b \cup {x}, q, h)

At3(x, y, z, b, q, h) ==
  \/ q = <<x, y, z>> /\ h = b
  \/ At2(y, z, b \cup {x}, q, h)

At4(x, y, z, u, b, q, h) ==
  \/ q = <<x, y, z, u>> /\ h = b
  \/ At3(y, z, u, b \cup {x}, q, h)

At5(x, y, z, u, v, b, q, h) ==
  \/ q = <<x, y, z, u, v>> /\ h = b
  \/ At4(y, z, u, v, b \cup {x}, q, h)

\* What a run that found revision s holds when it comes to a.
Before(s, a) ==
  IF s = a THEN {}
  ELSE IF s = 0 THEN Tables
  ELSE IF s = 3 /\ a = 2 THEN {"jobs"}
  ELSE Most

\* The run found s, is at a and goes to g.
Locks(s, a, g, q, h) ==
  /\ a < g => \/ s <= a /\ a = 0 /\ At4("jobs", "outbox_events", "reports", "job_attempts",
                                        Before(s, a), q, h)
              \/ s <= a /\ a = 1 /\ At3("jobs", "outbox_events", "reports", Before(s, a), q, h)
              \/ s <= a /\ a = 2 /\ At2("rows", "jobs", Before(s, a), q, h)
  /\ a > g => \/ s >= a /\ a = 3 /\ At1("jobs", Before(s, a), q, h)
              \/ s >= a /\ a = 2 /\ At3("reports", "outbox_events", "jobs", Before(s, a), q, h)
              \/ s >= a /\ a = 1 /\ At5("job_attempts", "key", "reports", "outbox_events",
                                        "jobs", Before(s, a), q, h)

\* A run holds what its place in the order calls for.
InOrder(d) == InTransaction(d) => Locks(seen[d], at[d], goal[d], todo[d], held[d])

LocksInv == \A d \in Deployers : InOrder(d)

\* The guards of Stamp or StampRaises, Step or StepRaises, and BreakDeadlock.
Goes(d) ==
  \/ pc[d] = "stamp"
  \/ pc[d] = "step" /\ (Blockers(d) = {} \/ Deadlocked(d))

LEMMA OneTail ==
  ASSUME NEW x
  PROVE  <<x>> # <<>> /\ Head(<<x>>) = x /\ Tail(<<x>>) = <<>>
  OBVIOUS

LEMMA TwoTail ==
  ASSUME NEW x, NEW y
  PROVE  <<x, y>> # <<>> /\ Head(<<x, y>>) = x /\ Tail(<<x, y>>) = <<y>>
  OBVIOUS

LEMMA ThreeTail ==
  ASSUME NEW x, NEW y, NEW z
  PROVE  <<x, y, z>> # <<>> /\ Head(<<x, y, z>>) = x /\ Tail(<<x, y, z>>) = <<y, z>>
  OBVIOUS

LEMMA FourTail ==
  ASSUME NEW x, NEW y, NEW z, NEW u
  PROVE  /\ <<x, y, z, u>> # <<>> /\ Head(<<x, y, z, u>>) = x
         /\ Tail(<<x, y, z, u>>) = <<y, z, u>>
  OBVIOUS

LEMMA FiveTail ==
  ASSUME NEW x, NEW y, NEW z, NEW u, NEW v
  PROVE  /\ <<x, y, z, u, v>> # <<>> /\ Head(<<x, y, z, u, v>>) = x
         /\ Tail(<<x, y, z, u, v>>) = <<y, z, u, v>>
  OBVIOUS

\* The next statement takes the run one on in its order.
LEMMA Grow1 ==
  ASSUME NEW x, NEW b, NEW q, NEW h, At1(x, b, q, h), q # <<>>
  PROVE  At1(x, b, Tail(q), h \cup {Head(q)})
  BY OneTail DEF At1

LEMMA Grow2 ==
  ASSUME NEW x, NEW y, NEW b, NEW q, NEW h, At2(x, y, b, q, h), q # <<>>
  PROVE  At2(x, y, b, Tail(q), h \cup {Head(q)})
<1>1. CASE q = <<x, y>> /\ h = b
  <2>1. At1(y, b \cup {x}, Tail(q), h \cup {Head(q)})
    BY <1>1, TwoTail DEF At1
  <2> QED
    BY <2>1 DEF At2
<1>2. CASE At1(y, b \cup {x}, q, h)
  BY <1>2, Grow1 DEF At2
<1> QED
  BY <1>1, <1>2 DEF At2

LEMMA Grow3 ==
  ASSUME NEW x, NEW y, NEW z, NEW b, NEW q, NEW h, At3(x, y, z, b, q, h), q # <<>>
  PROVE  At3(x, y, z, b, Tail(q), h \cup {Head(q)})
<1>1. CASE q = <<x, y, z>> /\ h = b
  <2>1. At2(y, z, b \cup {x}, Tail(q), h \cup {Head(q)})
    BY <1>1, ThreeTail DEF At2
  <2> QED
    BY <2>1 DEF At3
<1>2. CASE At2(y, z, b \cup {x}, q, h)
  BY <1>2, Grow2 DEF At3
<1> QED
  BY <1>1, <1>2 DEF At3

LEMMA Grow4 ==
  ASSUME NEW x, NEW y, NEW z, NEW u, NEW b, NEW q, NEW h, At4(x, y, z, u, b, q, h), q # <<>>
  PROVE  At4(x, y, z, u, b, Tail(q), h \cup {Head(q)})
<1>1. CASE q = <<x, y, z, u>> /\ h = b
  <2>1. At3(y, z, u, b \cup {x}, Tail(q), h \cup {Head(q)})
    BY <1>1, FourTail DEF At3
  <2> QED
    BY <2>1 DEF At4
<1>2. CASE At3(y, z, u, b \cup {x}, q, h)
  BY <1>2, Grow3 DEF At4
<1> QED
  BY <1>1, <1>2 DEF At4

LEMMA Grow5 ==
  ASSUME NEW x, NEW y, NEW z, NEW u, NEW v, NEW b, NEW q, NEW h, At5(x, y, z, u, v, b, q, h),
         q # <<>>
  PROVE  At5(x, y, z, u, v, b, Tail(q), h \cup {Head(q)})
<1>1. CASE q = <<x, y, z, u, v>> /\ h = b
  <2>1. At4(y, z, u, v, b \cup {x}, Tail(q), h \cup {Head(q)})
    BY <1>1, FiveTail DEF At4
  <2> QED
    BY <2>1 DEF At5
<1>2. CASE At4(y, z, u, v, b \cup {x}, q, h)
  BY <1>2, Grow4 DEF At5
<1> QED
  BY <1>1, <1>2 DEF At5

LEMMA LocksGrow ==
  ASSUME NEW s, NEW a, NEW g, NEW q, NEW h, Locks(s, a, g, q, h), q # <<>>
  PROVE  Locks(s, a, g, Tail(q), h \cup {Head(q)})
<1> DEFINE b == Before(s, a)
<1>1. ASSUME a < g
      PROVE  Locks(s, a, g, Tail(q), h \cup {Head(q)})!1
  BY <1>1, Grow2, Grow3, Grow4, Zenon DEF Locks
<1>2. ASSUME a > g
      PROVE  Locks(s, a, g, Tail(q), h \cup {Head(q)})!2
  BY <1>2, Grow1, Grow3, Grow5, Zenon DEF Locks
<1> QED
  BY <1>1, <1>2, Zenon DEF Locks

\* What a run holds after the last statement of a revision is what it comes to the next with.
LEMMA LocksEnd ==
  ASSUME NEW s \in 0..3, NEW a \in 0..3, NEW g \in 0..3, NEW h, a # g,
         Locks(s, a, g, <<>>, h), Reached(a, g) # g
  PROVE  h = Before(s, Reached(a, g))
<1>1. /\ \A x, b : At1(x, b, <<>>, h) => h = b \cup {x}
      /\ \A x, y, b : At2(x, y, b, <<>>, h) => h = b \cup {x, y}
      /\ \A x, y, z, b : At3(x, y, z, b, <<>>, h) => h = b \cup {x, y, z}
      /\ \A x, y, z, u, b : At4(x, y, z, u, b, <<>>, h) => h = b \cup {x, y, z, u}
  BY DEF At1, At2, At3, At4
<1>2. CASE a < g /\ a = 0
  BY <1>1, <1>2 DEF Locks, Before, Reached, Tables, Most
<1>3. CASE a < g /\ a = 1
  <2>1. s \in {0, 1} /\ h = Before(s, a) \cup {"jobs", "outbox_events", "reports"}
    BY <1>1, <1>3 DEF Locks
  <2> QED
    BY <1>3, <2>1 DEF Before, Reached, Tables, Most
<1>4. CASE a > g /\ a = 3
  <2>1. s = 3 /\ h = Before(s, a) \cup {"jobs"}
    BY <1>1, <1>4 DEF Locks
  <2> QED
    BY <1>4, <2>1 DEF Before, Reached
<1>5. CASE a > g /\ a = 2
  <2>1. s \in {2, 3} /\ h = Before(s, a) \cup {"jobs", "outbox_events", "reports"}
    BY <1>1, <1>5 DEF Locks
  <2> QED
    BY <1>5, <2>1 DEF Before, Reached, Tables, Most
<1> QED
  BY <1>2, <1>3, <1>4, <1>5 DEF Reached

LEMMA LocksStart ==
  ASSUME NEW s \in 0..3, NEW a \in 0..3, NEW g \in 0..3,
         (s <= a /\ a < g) \/ (s >= a /\ a > g)
  PROVE  Locks(s, a, g, Order(a, g), Before(s, a))
<1>1. CASE a < g
  <2>1. Order(a, g) = UpgradeOrder[a + 1] /\ a \in {0, 1, 2}
    BY <1>1 DEF Order
  <2> QED
    BY <1>1, <2>1 DEF Locks, UpgradeOrder, At2, At3, At4
<1>2. CASE a > g
  <2>1. Order(a, g) = DowngradeOrder[a] /\ a \in {1, 2, 3}
    BY <1>2 DEF Order
  <2> QED
    BY <1>2, <2>1 DEF Locks, DowngradeOrder, At1, At3, At5
<1> QED
  BY <1>1, <1>2

LEMMA OrderFrame ==
  ASSUME NEW d \in Deployers, InOrder(d),
         InTransaction(d)' => /\ InTransaction(d) /\ goal'[d] = goal[d] /\ seen'[d] = seen[d]
                              /\ at'[d] = at[d] /\ todo'[d] = todo[d]
                              /\ held'[d] = held[d]
  PROVE  InOrder(d)'
  BY DEF InOrder

LEMMA BeginOrder ==
  ASSUME MInv, LocksInv, NEW d \in Deployers, NEW target \in 0..Latest, Begin(d, target)
  PROVE  LocksInv'
<1> SUFFICES ASSUME NEW e \in Deployers
             PROVE  InOrder(e)'
  BY DEF LocksInv
<1>1. CASE e # d
  BY <1>1, OrderFrame DEF LocksInv, Begin, MInv, TypeOK, InTransaction
<1>2. CASE e = d /\ version = target
  BY <1>2 DEF InOrder, InTransaction, Begin, MInv, TypeOK
<1>3. CASE e = d /\ version # target
  <2>1. /\ goal'[d] = target /\ seen'[d] = version /\ at'[d] = version
        /\ todo'[d] = Order(version, target) /\ held'[d] = {} /\ version \in 0..3
    BY DEF Begin, MInv, TypeOK, LockInv, InTransaction, Latest
  <2>2. Locks(version, version, target, Order(version, target), {})
    BY <1>3, <2>1, LocksStart DEF Before, Latest
  <2> QED
    BY <1>3, <2>1, <2>2 DEF InOrder
<1> QED
  BY <1>1, <1>2, <1>3

LEMMA RollBackOrder ==
  ASSUME MInv, LocksInv, NEW d \in Deployers, RollBack(d)
  PROVE  LocksInv'
<1> SUFFICES ASSUME NEW e \in Deployers
             PROVE  InOrder(e)'
  BY DEF LocksInv
<1> QED
  BY OrderFrame DEF LocksInv, RollBack, Release, MInv, TypeOK, InTransaction

LEMMA StepOrder ==
  ASSUME MInv, LocksInv, NEW d \in Deployers, Step(d)
  PROVE  LocksInv'
<1> SUFFICES ASSUME NEW e \in Deployers
             PROVE  InOrder(e)'
  BY DEF LocksInv
<1>1. CASE e # d
  BY <1>1, OrderFrame DEF LocksInv, Step, MInv, TypeOK, InTransaction
<1>2. CASE e = d
  <2> DEFINE what == Head(todo[d])
  <2>1. /\ InTransaction(d) /\ todo[d] # <<>>
    BY DEF Step, InTransaction, MInv, RunInv, PlanInv
  <2>2. /\ goal'[d] = goal[d] /\ seen'[d] = seen[d] /\ at'[d] = at[d]
        /\ todo'[d] = Tail(todo[d]) /\ held'[d] = held[d] \cup {what}
    BY DEF Step, MInv, TypeOK
  <2>3. Locks(seen[d], at[d], goal[d], todo[d], held[d])
    BY <2>1 DEF LocksInv, InOrder
  <2>4. Locks(seen[d], at[d], goal[d], Tail(todo[d]), held[d] \cup {what})
    BY <2>1, <2>3, LocksGrow
  <2> QED
    BY <1>2, <2>2, <2>4 DEF InOrder
<1> QED
  BY <1>1, <1>2

LEMMA StampOrder ==
  ASSUME MInv, LocksInv, NEW d \in Deployers, Stamp(d)
  PROVE  LocksInv'
<1> SUFFICES ASSUME NEW e \in Deployers
             PROVE  InOrder(e)'
  BY DEF LocksInv
<1> DEFINE reached == IF Up(d) THEN at[d] + 1 ELSE at[d] - 1
<1>1. /\ InTransaction(d) /\ PlanInv(d) /\ todo[d] = <<>>
  BY DEF Stamp, InTransaction, MInv, RunInv, PlanInv
<1>2. /\ at[d] \in 0..3 /\ goal[d] \in 0..3 /\ seen[d] \in 0..3 /\ at[d] # goal[d]
      /\ reached = Reached(at[d], goal[d])
  BY <1>1 DEF MInv, TypeOK, Latest, PlanInv, Up, Reached
<1>3. CASE e # d /\ reached # goal[d]
  BY <1>3, OrderFrame DEF LocksInv, Stamp, MInv, TypeOK, InTransaction
<1>4. CASE e # d /\ reached = goal[d]
  BY <1>4, OrderFrame DEF LocksInv, Stamp, Release, MInv, TypeOK, InTransaction
<1>5. CASE e = d /\ reached = goal[d]
  BY <1>5 DEF Stamp, InOrder, InTransaction, MInv, TypeOK
<1>6. CASE e = d /\ reached # goal[d]
  <2>1. /\ goal'[d] = goal[d] /\ seen'[d] = seen[d] /\ at'[d] = reached
        /\ todo'[d] = Order(reached, goal[d]) /\ held'[d] = held[d]
    BY <1>6 DEF Stamp, MInv, TypeOK
  <2>2. Locks(seen[d], at[d], goal[d], <<>>, held[d])
    BY <1>1 DEF LocksInv, InOrder
  <2>3. held[d] = Before(seen[d], reached)
    BY <1>2, <1>6, <2>2, LocksEnd
  <2>4. /\ reached \in 0..3
        /\ \/ seen[d] <= reached /\ reached < goal[d]
           \/ seen[d] >= reached /\ reached > goal[d]
    BY <1>1, <1>2, <1>6 DEF PlanInv, Reached
  <2>5. Locks(seen[d], reached, goal[d], Order(reached, goal[d]), held[d])
    BY <1>2, <2>3, <2>4, LocksStart
  <2> QED
    BY <1>6, <2>1, <2>5 DEF InOrder
<1> QED
  BY <1>3, <1>4, <1>5, <1>6

LEMMA LocksInvariant == Spec => []LocksInv
<1>1. Init => LocksInv
  BY DEF Init, LocksInv, InOrder, InTransaction
<1>2. MInv /\ LocksInv /\ [Next]_vars => LocksInv'
  <2> SUFFICES ASSUME MInv, LocksInv, [Next]_vars
               PROVE  LocksInv'
    OBVIOUS
  <2>1. CASE UNCHANGED vars
    BY <2>1, OrderFrame DEF LocksInv, vars, transaction, InTransaction
  <2>2. ASSUME NEW d \in Deployers, Upgrade(d)
        PROVE  LocksInv'
    BY <2>2, BeginOrder DEF Upgrade, Latest
  <2>3. ASSUME NEW d \in Deployers, NEW target \in 0..Latest, Downgrade(d, target)
        PROVE  LocksInv'
    BY <2>3, BeginOrder DEF Downgrade
  <2>4. ASSUME NEW d \in Deployers,
               StepRaises(d) \/ BreakDeadlock(d) \/ StampRaises(d) \/ Crash(d)
        PROVE  LocksInv'
    BY <2>4, RollBackOrder DEF StepRaises, BreakDeadlock, StampRaises, Crash
  <2>5. ASSUME NEW d \in Deployers, Serve(d) \/ KeepTrying(d)
        PROVE  LocksInv'
    <3> SUFFICES ASSUME NEW e \in Deployers
                 PROVE  InOrder(e)'
      BY DEF LocksInv
    <3> QED
      BY <2>5, OrderFrame
      DEF LocksInv, Serve, KeepTrying, transaction, MInv, TypeOK, InTransaction
  <2> QED
    BY <2>1, <2>2, <2>3, <2>4, <2>5, StepOrder, StampOrder DEF Next, DeployerStep
<1> QED
  BY <1>1, <1>2, MInvariant, PTL DEF Spec

\* Which table a run is at, and what it holds by then.
LEMMA HeadOf1 ==
  ASSUME NEW x, NEW b, NEW q, NEW h, q # <<>>, At1(x, b, q, h)
  PROVE  Head(q) = x /\ h = b
  BY OneTail DEF At1

LEMMA HeadOf2 ==
  ASSUME NEW x, NEW y, NEW b, NEW q, NEW h, q # <<>>, At2(x, y, b, q, h)
  PROVE  \/ Head(q) = x /\ h = b
         \/ Head(q) = y /\ h = b \cup {x}
  BY HeadOf1, TwoTail DEF At2

LEMMA HeadOf3 ==
  ASSUME NEW x, NEW y, NEW z, NEW b, NEW q, NEW h, q # <<>>, At3(x, y, z, b, q, h)
  PROVE  \/ Head(q) = x /\ h = b
         \/ Head(q) = y /\ h = b \cup {x}
         \/ Head(q) = z /\ h = b \cup {x, y}
<1>1. CASE q = <<x, y, z>> /\ h = b
  BY <1>1, ThreeTail
<1>2. CASE At2(y, z, b \cup {x}, q, h)
  BY <1>2, HeadOf2
<1> QED
  BY <1>1, <1>2 DEF At3

LEMMA HeadOf4 ==
  ASSUME NEW x, NEW y, NEW z, NEW u, NEW b, NEW q, NEW h, q # <<>>,
         At4(x, y, z, u, b, q, h)
  PROVE  \/ Head(q) = x /\ h = b
         \/ Head(q) = y /\ h = b \cup {x}
         \/ Head(q) = z /\ h = b \cup {x, y}
         \/ Head(q) = u /\ h = b \cup {x, y, z}
<1>1. CASE q = <<x, y, z, u>> /\ h = b
  BY <1>1, FourTail
<1>2. CASE At3(y, z, u, b \cup {x}, q, h)
  <2>1. \/ Head(q) = y /\ h = b \cup {x}
        \/ Head(q) = z /\ h = (b \cup {x}) \cup {y}
        \/ Head(q) = u /\ h = (b \cup {x}) \cup {y, z}
    BY <1>2, HeadOf3
  <2> QED
    BY <2>1
<1> QED
  BY <1>1, <1>2 DEF At4

LEMMA HeadOf5 ==
  ASSUME NEW x, NEW y, NEW z, NEW u, NEW v, NEW b, NEW q, NEW h, q # <<>>,
         At5(x, y, z, u, v, b, q, h)
  PROVE  \/ Head(q) = x /\ h = b
         \/ Head(q) = y /\ h = b \cup {x}
         \/ Head(q) = z /\ h = b \cup {x, y}
         \/ Head(q) = u /\ h = b \cup {x, y, z}
         \/ Head(q) = v /\ h = b \cup {x, y, z, u}
<1>1. CASE q = <<x, y, z, u, v>> /\ h = b
  BY <1>1, FiveTail
<1>2. CASE At4(y, z, u, v, b \cup {x}, q, h)
  <2>1. \/ Head(q) = y /\ h = b \cup {x}
        \/ Head(q) = z /\ h = (b \cup {x}) \cup {y}
        \/ Head(q) = u /\ h = (b \cup {x}) \cup {y, z}
        \/ Head(q) = v /\ h = (b \cup {x}) \cup {y, z, u}
    BY <1>2, HeadOf4
  <2> QED
    BY <2>1
<1> QED
  BY <1>1, <1>2 DEF At5

\* An upgrade takes jobs first.
Climbing(x, h) ==
  /\ x \in Tables \cup {"rows"}
  /\ x \in Tables \ {"jobs"} => "jobs" \in h
  /\ h \cap Tables # {} => "jobs" \in h
  /\ "rows" \in h => x = "jobs"

\* A downgrade takes reports before outbox_events, and jobs after them or, when it starts
\* at the first revision, right after job_attempts.
Descending(x, h) ==
  /\ x \in Tables \cup {"key"} /\ "rows" \notin h
  /\ "outbox_events" \in h \/ x = "outbox_events" => "reports" \in h
  /\ ~HasJobs(h) =>
       /\ "job_attempts" \in h => x = "key"
       /\ "reports" \in h => x \in {"outbox_events", "jobs"}
       /\ "outbox_events" \in h => x = "jobs"

LEMMA WayUp ==
  ASSUME NEW s \in 0..3, NEW a \in 0..3, NEW g \in 0..3, NEW q, NEW h, q # <<>>,
         a < g, Locks(s, a, g, q, h)
  PROVE  Climbing(Head(q), h)
<1> DEFINE x == Head(q)
<1>1. CASE a = 0
  <2>1. s = 0 /\ At4("jobs", "outbox_events", "reports", "job_attempts", {}, q, h)
    BY <1>1 DEF Locks, Before
  <2>2. \/ x = "jobs" /\ h = {}
        \/ x = "outbox_events" /\ h = {"jobs"}
        \/ x = "reports" /\ h = {"jobs", "outbox_events"}
        \/ x = "job_attempts" /\ h = {"jobs", "outbox_events", "reports"}
    <3>1. \/ x = "jobs" /\ h = {}
          \/ x = "outbox_events" /\ h = {} \cup {"jobs"}
          \/ x = "reports" /\ h = {} \cup {"jobs", "outbox_events"}
          \/ x = "job_attempts" /\ h = {} \cup {"jobs", "outbox_events", "reports"}
      BY <2>1, HeadOf4
    <3> QED
      BY <3>1
  <2> QED
    BY <2>1, <2>2 DEF Climbing, Most, Tables
<1>2. CASE a = 1
  <2>1. /\ At3("jobs", "outbox_events", "reports", Before(s, a), q, h)
        /\ Before(s, a) = {} \/ Before(s, a) = Tables
    BY <1>2 DEF Locks, Before
  <2>2. \/ x = "jobs" /\ h = Before(s, a)
        \/ x = "outbox_events" /\ h = Before(s, a) \cup {"jobs"}
        \/ x = "reports" /\ h = Before(s, a) \cup {"jobs", "outbox_events"}
    BY <2>1, HeadOf3
  <2> QED
    BY <2>1, <2>2 DEF Climbing, Most, Tables
<1>3. CASE a = 2
  <2>1. /\ At2("rows", "jobs", Before(s, a), q, h)
        /\ Before(s, a) \in {{}, Tables, Most}
    BY <1>3 DEF Locks, Before
  <2>2. \/ x = "rows" /\ h = Before(s, a)
        \/ x = "jobs" /\ h = Before(s, a) \cup {"rows"}
    BY <2>1, HeadOf2
  <2> QED
    BY <2>1, <2>2 DEF Climbing, Most, Tables
<1> QED
  BY <1>1, <1>2, <1>3

LEMMA WayDown ==
  ASSUME NEW s \in 0..3, NEW a \in 0..3, NEW g \in 0..3, NEW q, NEW h, q # <<>>,
         a > g, Locks(s, a, g, q, h)
  PROVE  Descending(Head(q), h)
<1> DEFINE x == Head(q)
<1>1. CASE a = 3
  <2>1. At1("jobs", {}, q, h)
    BY <1>1 DEF Locks, Before
  <2>2. x = "jobs" /\ h = {}
    BY <2>1, HeadOf1
  <2> QED
    BY <2>2 DEF Descending, HasJobs, Tables
<1>2. CASE a = 2
  <2>1. /\ At3("reports", "outbox_events", "jobs", Before(s, a), q, h)
        /\ Before(s, a) = {} \/ Before(s, a) = {"jobs"}
    BY <1>2 DEF Locks, Before
  <2>2. \/ x = "reports" /\ h = Before(s, a)
        \/ x = "outbox_events" /\ h = Before(s, a) \cup {"reports"}
        \/ x = "jobs" /\ h = Before(s, a) \cup {"reports", "outbox_events"}
    BY <2>1, HeadOf3
  <2> QED
    BY <2>1, <2>2 DEF Descending, HasJobs, Tables
<1>3. CASE a = 1
  <2>1. /\ At5("job_attempts", "key", "reports", "outbox_events", "jobs", Before(s, a), q, h)
        /\ Before(s, a) = {} \/ Before(s, a) = Most
    BY <1>3 DEF Locks, Before
  <2>2. \/ x = "job_attempts" /\ h = Before(s, a)
        \/ x = "key" /\ h = Before(s, a) \cup {"job_attempts"}
        \/ x = "reports" /\ h = Before(s, a) \cup {"job_attempts", "key"}
        \/ x = "outbox_events" /\ h = Before(s, a) \cup {"job_attempts", "key", "reports"}
        \/ /\ x = "jobs"
           /\ h = Before(s, a) \cup {"job_attempts", "key", "reports", "outbox_events"}
    BY <2>1, HeadOf5
  <2> QED
    BY <2>1, <2>2 DEF Descending, HasJobs, Most, Tables
<1> QED
  BY <1>1, <1>2, <1>3

\* The ways of the runs that execute statements.
LEMMA RunWay ==
  ASSUME MInv, LocksInv, NEW d \in Deployers, pc[d] = "step"
  PROVE  Climbing(Head(todo[d]), held[d]) \/ Descending(Head(todo[d]), held[d])
<1>1. PlanInv(d) /\ InOrder(d)
  BY DEF MInv, RunInv, InTransaction, LocksInv
<1>2. todo[d] # <<>> /\ Locks(seen[d], at[d], goal[d], todo[d], held[d])
  BY <1>1 DEF PlanInv, InOrder, InTransaction
<1>3. at[d] \in 0..3 /\ goal[d] \in 0..3 /\ seen[d] \in 0..3
  BY DEF MInv, TypeOK, Latest
<1>4. CASE at[d] < goal[d]
  BY <1>2, <1>3, <1>4, WayUp
<1>5. CASE at[d] > goal[d]
  BY <1>2, <1>3, <1>5, WayDown
<1> QED
  BY <1>1, <1>3, <1>4, <1>5 DEF PlanInv

LEMMA RunsGoOn ==
  ASSUME MInv, LocksInv, NEW o \in Deployers, InTransaction(o)
  PROVE  \E d \in Deployers : Goes(d)
<1> SUFFICES ASSUME \A d \in Deployers : ~Goes(d)
             PROVE  FALSE
  OBVIOUS
<1> DEFINE x(d) == Head(todo[d])
           Active(d) == d \in Deployers /\ pc[d] = "step"
           Waits(d, e) == Active(d) /\ Active(e) /\ d # e /\ e \in Blockers(d) /\ d \notin Blockers(e)
<1>1. \A d \in Deployers : held[d] # {} => Active(d)
  BY DEF Goes, MInv, LockInv, InTransaction
<1>2. \A d : Active(d) => \E e : Waits(d, e)
  <2> SUFFICES ASSUME NEW d, Active(d)
               PROVE  \E e : Waits(d, e)
    OBVIOUS
  <2>1. PICK e \in Blockers(d) : d \notin Blockers(e)
    BY DEF Goes, Deadlocked
  <2>2. e \in Deployers /\ e # d /\ held[e] # {}
    BY <2>1 DEF Blockers
  <2> QED
    BY <1>1, <2>1, <2>2
\* Statements and locks.
<1>3. \A d, e : Waits(d, e) =>
        /\ d # e /\ Active(d) /\ Active(e)
        /\ \E b \in held[e] : Conflict(x(d), b)
        /\ \A b \in held[d] : ~Conflict(x(e), b)
  BY DEF Blockers
<1>4. ASSUME NEW d, NEW e, Active(d), Active(e), NEW t \in Tables, t \in held[d], t \in held[e]
      PROVE  d = e
  BY <1>4 DEF MInv, LockInv
<1>5. ASSUME NEW d, NEW e, Active(d), Active(e), HasJobs(held[d]), HasJobs(held[e])
      PROVE  d = e
  BY <1>5 DEF MInv, LockInv
<1>6. \A d : Active(d) => /\ Climbing(x(d), held[d]) \/ Descending(x(d), held[d])
                         /\ held[d] \subseteq Targets
  BY RunWay DEF MInv, TypeOK
<1>7. Active(o)
  BY DEF Goes, InTransaction
<1> HIDE DEF x, Active, Waits
<1>8. ASSUME NEW d, Active(d), "rows" \in held[d]
      PROVE  x(d) = "jobs"
  BY <1>6, <1>8 DEF Climbing, Descending
\* A run that has not the lock of jobs and waits for no other that has, nor for rows, waits
\* for a table.
<1>9. ASSUME NEW d, NEW e, Waits(d, e), ~HasJobs(held[e]), "rows" \notin held[e]
      PROVE  x(d) \in Tables \ {"jobs"} /\ x(d) \in held[e]
  <2>1. PICK b \in held[e] : Conflict(x(d), b)
    BY <1>3, <1>9
  <2>2. b \in Tables \ {"jobs"}
    BY <1>3, <1>6, <1>9, <2>1 DEF HasJobs, Targets
  <2> QED
    BY <2>1, <2>2 DEF Conflict, Tables
\* A run without the lock of jobs that holds a table is a downgrade.
<1>10. ASSUME NEW d, Active(d), ~HasJobs(held[d]), NEW t \in Tables, t \in held[d]
       PROVE  Descending(x(d), held[d])
  BY <1>6, <1>10 DEF Climbing, HasJobs
<1>11. ASSUME NEW d, Active(d), ~HasJobs(held[d]), "outbox_events" \in held[d]
       PROVE  "reports" \in held[d]
  BY <1>10, <1>11 DEF Descending, Tables
\* Whoever holds reports, and not the lock of jobs, does not wait for outbox_events.
<1>12. ASSUME NEW g, NEW k, Waits(g, k), x(g) = "outbox_events", "reports" \in held[g],
              ~HasJobs(held[k])
       PROVE  FALSE
  <2>1. Active(g) /\ Active(k) /\ g # k
    BY <1>3, <1>12
  <2>2. PICK b \in held[k] : Conflict("outbox_events", b)
    BY <1>3, <1>12
  <2>3. "outbox_events" \in held[k]
    BY <2>2 DEF Conflict
  <2> QED
    BY <1>4, <1>11, <1>12, <2>1, <2>3 DEF Tables
\* Whoever has the lock of jobs waits for a downgrade that waits for it, ...
<1>13. ASSUME NEW f, Active(f), HasJobs(held[f])
       PROVE  FALSE
  <2>1. PICK g : Waits(f, g)
    BY <1>2, <1>13
  <2>2. f # g /\ Active(g) /\ ~HasJobs(held[g])
    BY <1>3, <1>5, <1>13, <2>1
  <2>3. x(g) \notin {"jobs", "key"}
    <3>1. \A b \in {"jobs", "key"} : b \in held[f] => ~Conflict(x(g), b)
      BY <1>3, <2>1
    <3> QED
      BY <1>13, <3>1 DEF Conflict, HasJobs
  <2>4. "rows" \notin held[g]
    BY <1>8, <2>2, <2>3
  <2>5. x(f) \in Tables \ {"jobs"} /\ x(f) \in held[g]
    BY <1>9, <2>1, <2>2, <2>4
  <2>6. Descending(x(g), held[g])
    BY <1>10, <2>2, <2>5
  <2>7. "reports" \in held[g] /\ x(g) = "outbox_events"
    BY <2>2, <2>3, <2>5, <2>6 DEF Descending, Tables
  <2>8. PICK k : Waits(g, k)
    BY <1>2, <2>2
  <2>9. "outbox_events" \in held[k] /\ Active(k)
    BY <1>3, <2>7, <2>8 DEF Conflict
  <2>10. "outbox_events" \notin held[f]
    BY <1>3, <2>1, <2>7 DEF Conflict
  <2>11. ~HasJobs(held[k])
    BY <1>5, <1>13, <2>9, <2>10
  <2> QED
    BY <1>12, <2>7, <2>8, <2>11
\* ... and whoever has updated rows waits for another that has.
<1>14. ASSUME NEW d, Active(d), "rows" \in held[d]
       PROVE  FALSE
  <2>1. PICK g : Waits(d, g)
    BY <1>2, <1>14
  <2>2. x(d) = "jobs" /\ Active(g) /\ ~HasJobs(held[g])
    BY <1>3, <1>8, <1>13, <1>14, <2>1
  <2>3. "rows" \in held[g]
    BY <1>9, <2>1, <2>2
  <2>4. x(g) = "jobs"
    BY <1>8, <2>2, <2>3
  <2> QED
    BY <1>3, <1>14, <2>1, <2>4 DEF Conflict
\* So all of them are downgrades, which take their tables in one order.
<1>15. ASSUME NEW d, NEW e, Waits(d, e)
       PROVE  x(d) \in Tables \ {"jobs"} /\ x(d) \in held[e]
  BY <1>3, <1>9, <1>13, <1>14, <1>15
<1>16. ASSUME NEW d, Active(d)
       PROVE  ~HasJobs(held[d]) /\ x(d) \in Tables \ {"jobs"}
  BY <1>2, <1>13, <1>15, <1>16
<1>17. PICK g : Waits(o, g)
  BY <1>2, <1>7
<1>18. Active(g) /\ ~HasJobs(held[g]) /\ x(g) \in Tables \ {"jobs"}
  BY <1>3, <1>16, <1>17
<1>19. Descending(x(g), held[g]) /\ x(o) \in Tables \ {"jobs"} /\ x(o) \in held[g]
  BY <1>10, <1>15, <1>17, <1>18
<1>20. "reports" \in held[g] /\ x(g) = "outbox_events"
  BY <1>18, <1>19 DEF Descending, Tables
<1>21. PICK k : Waits(g, k)
  BY <1>2, <1>18
<1>22. ~HasJobs(held[k])
  BY <1>3, <1>16, <1>21
<1> QED
  BY <1>12, <1>20, <1>21, <1>22

\* While any run is in its transaction one of them has a step: its statement has its
\* locks, or PostgreSQL sees the two that wait for each other.  No longer circle forms, for
\* any number of runs, so BreakDeadlock leaves none out.
THEOREM SomeRunGoesOn ==
  Spec => []((\E d \in Deployers : InTransaction(d)) => \E d \in Deployers : Goes(d))
<1>1. MInv /\ LocksInv => ((\E d \in Deployers : InTransaction(d)) => \E d \in Deployers : Goes(d))
  BY RunsGoOn
<1> QED
  BY <1>1, MInvariant, LocksInvariant, PTL
=============================================================================
