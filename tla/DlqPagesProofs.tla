--------------------------- MODULE DlqPagesProofs ---------------------------
(* Proofs about DlqPages: for every set of jobs, every assignment of        *)
(* creation times (ties included) and every sequence of page sizes.        *)
EXTENDS DlqPages, TLAPS

\* What has been listed is not after the cursor; before the first page nothing is listed.
CursorInv ==
  pc = "walking" =>
    /\ cursor = NoJob => listed = {}
    /\ cursor # NoJob => \A j \in listed : ~Before(cursor, j)

\* The inductive invariant.
WalkInv == TypeOK /\ CursorInv /\ ListedOnce /\ NoneSkipped

\* The sort order of the list is a strict total order: equal creation times are told
\* apart by the id.
LEMMA BeforeOrder ==
  ASSUME NEW i \in Jobs, NEW j \in Jobs, NEW k \in Jobs
  PROVE  /\ Before(i, j) => ~Before(j, i)
         /\ i # j => Before(i, j) \/ Before(j, i)
         /\ Before(i, j) /\ Before(j, k) => Before(i, k)
<1>1. /\ CreatedAt[i] \in Int /\ CreatedAt[j] \in Int /\ CreatedAt[k] \in Int
      /\ i \in Int /\ j \in Int /\ k \in Int
  BY DlqAssumption
<1> QED
  BY <1>1 DEF Before

\* A page lies after the cursor, so that it has nothing that was listed.
LEMMA PageIsNew ==
  ASSUME WalkInv, pc = "walking", NEW page \in SUBSET Matching
  PROVE  listed \cap page = {}
  BY DEF WalkInv, CursorInv, Matching

\* After the last job of a page comes what was after the page.
LEMMA NextCursorInv ==
  ASSUME WalkInv, pc = "walking", NEW page \in SUBSET Matching, NEW c \in NextCursors(page)
  PROVE  \A j \in listed \cup page : ~Before(c, j)
<1>1. c \in Jobs /\ c \in page /\ page \subseteq Jobs /\ listed \subseteq Jobs
  BY DEF NextCursors, Matching, WalkInv, TypeOK
<1>2. ASSUME NEW j \in page
      PROVE  ~Before(c, j)
  <2>1. CASE j = c
    BY <1>1, <2>1, BeforeOrder
  <2>2. CASE j # c
    <3>1. Before(j, c)
      BY <1>2, <2>2 DEF NextCursors
    <3> QED
      BY <1>1, <1>2, <3>1, BeforeOrder
  <2> QED
    BY <2>1, <2>2
<1>3. ASSUME NEW j \in listed
      PROVE  ~Before(c, j)
  <2>1. cursor \in Jobs /\ Before(cursor, c) /\ ~Before(cursor, j)
    BY <1>1, <1>3 DEF WalkInv, TypeOK, CursorInv, Matching
  <2>2. j = cursor \/ Before(j, cursor)
    BY <1>1, <1>3, <2>1, BeforeOrder
  <2>3. j = cursor \/ Before(j, c)
    BY <1>1, <1>3, <2>1, <2>2, BeforeOrder
  <2> QED
    BY <1>1, <1>3, <2>1, <2>3, BeforeOrder
<1> QED
  BY <1>2, <1>3

\* A job that is neither listed nor on this page is after the page's last job, and there
\* is none if the page is short.
LEMMA PageSkipsNone ==
  ASSUME WalkInv, pc = "walking", NEW limit \in 1..MaxLimit, NEW page \in Pages(limit),
         NEW j \in stayed, j \notin listed \cup page
  PROVE  /\ ~(Cardinality(page) < limit)
         /\ \A c \in NextCursors(page) : Before(c, j)
<1>1. j \in Matching \ page
  BY DEF WalkInv, TypeOK, NoneSkipped, Matching
<1>2. Cardinality(page) = limit
  BY <1>1 DEF Pages
<1> QED
  BY <1>1, <1>2 DEF Pages, NextCursors

LEMMA NextPageInv ==
  ASSUME WalkInv, NextPage
  PROVE  WalkInv'
<1>0. PICK limit \in 1..MaxLimit : \E page \in Pages(limit) :
        /\ listed' = listed \cup page
        /\ repeated' = repeated \cup (listed \cap page)
        /\ IF Cardinality(page) < limit
             THEN pc' = "end" /\ UNCHANGED cursor
             ELSE cursor' \in NextCursors(page) /\ UNCHANGED pc
  BY DEF NextPage
<1>1. PICK page \in Pages(limit) :
        /\ listed' = listed \cup page
        /\ repeated' = repeated \cup (listed \cap page)
        /\ IF Cardinality(page) < limit
             THEN pc' = "end" /\ UNCHANGED cursor
             ELSE cursor' \in NextCursors(page) /\ UNCHANGED pc
  BY <1>0
<1>2. pc = "walking" /\ UNCHANGED <<dead, stayed>>
  BY DEF NextPage
<1>3. page \in SUBSET Matching /\ page \subseteq dead
  BY DEF Pages, Matching
<1>4. TypeOK'
  BY <1>1, <1>2, <1>3 DEF WalkInv, TypeOK, NextCursors
<1>5. CursorInv'
  <2>1. CASE Cardinality(page) < limit
    BY <1>1, <2>1 DEF CursorInv
  <2>2. CASE ~(Cardinality(page) < limit)
    <3>1. cursor' \in NextCursors(page) /\ cursor' \in Jobs
      BY <1>1, <1>3, <2>2 DEF NextCursors, WalkInv, TypeOK
    <3>2. \A j \in listed' : ~Before(cursor', j)
      BY <1>1, <1>2, <1>3, <3>1, NextCursorInv
    <3> QED
      BY <3>1, <3>2, DlqAssumption DEF CursorInv, Before
  <2> QED
    BY <2>1, <2>2
<1>6. ListedOnce'
  BY <1>1, <1>2, <1>3, PageIsNew DEF WalkInv, ListedOnce
<1>7. NoneSkipped'
  <2>1. ASSUME NEW j \in stayed', j \notin listed'
        PROVE  pc' = "walking" /\ Before(cursor', j)
    <3>1. j \in stayed /\ j \notin listed \cup page
      BY <1>1, <1>2, <2>1
    <3>2. ~(Cardinality(page) < limit) /\ \A c \in NextCursors(page) : Before(c, j)
      BY <1>2, <3>1, PageSkipsNone
    <3> QED
      BY <1>1, <1>2, <3>2
  <2> QED
    BY <2>1 DEF NoneSkipped, Before
<1> QED
  BY <1>4, <1>5, <1>6, <1>7 DEF WalkInv

LEMMA WalkStep ==
  ASSUME WalkInv, [Next]_vars
  PROVE  WalkInv'
<1>1. ASSUME NEW j \in Jobs, Die(j)
      PROVE  WalkInv'
  BY <1>1 DEF Die, walk, WalkInv, TypeOK, CursorInv, ListedOnce, NoneSkipped, Before
<1>2. ASSUME NEW j \in Jobs, Retry(j)
      PROVE  WalkInv'
  BY <1>2 DEF Retry, WalkInv, TypeOK, CursorInv, ListedOnce, NoneSkipped, Before
<1>3. CASE StartWalk
  BY <1>3 DEF StartWalk, WalkInv, TypeOK, CursorInv, ListedOnce, NoneSkipped
<1>4. CASE UNCHANGED vars
  BY <1>4 DEF vars, walk, WalkInv, TypeOK, CursorInv, ListedOnce, NoneSkipped, Before
<1> QED
  BY <1>1, <1>2, <1>3, <1>4, NextPageInv DEF Next

LEMMA WalkInit == Init => WalkInv
  BY DEF Init, WalkInv, TypeOK, CursorInv, ListedOnce, NoneSkipped

LEMMA WalkInvariant == Spec => []WalkInv
  BY WalkInit, WalkStep, PTL DEF Spec

\* Type correctness; the operator's bookkeeping stays within the DLQ.
THEOREM WalkTyped == Spec => []TypeOK
<1>1. WalkInv => TypeOK
  BY DEF WalkInv
<1> QED
  BY <1>1, WalkInvariant, PTL

\* No walk lists a job twice, whatever leaves and enters the DLQ between its pages.
THEOREM WalkListsOnce == Spec => []ListedOnce
<1>1. WalkInv => ListedOnce
  BY DEF WalkInv
<1> QED
  BY <1>1, WalkInvariant, PTL

\* No walk skips a job that is in the DLQ from its beginning to its end.
THEOREM WalkSkipsNone == Spec => []NoneSkipped
<1>1. WalkInv => NoneSkipped
  BY DEF WalkInv
<1> QED
  BY <1>1, WalkInvariant, PTL
=============================================================================
