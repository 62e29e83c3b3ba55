----------------------------- MODULE IndexPages -----------------------------
(***************************************************************************)
(* ReadIndexPicsTask, and a reader who walks from page to page while       *)
(* pictures come and go; FindSchedPicsTask, which proposes pictures to     *)
(* vote on.                                                                *)
(*                                                                         *)
(* A page is read in one read-only transaction.  Ids are allocated in      *)
(* ranges, by several servers, and the time of creation is taken when an   *)
(* upload begins: ids and times need not come in the same order, and two   *)
(* pictures may have the same time.                                        *)
(***************************************************************************)
EXTENDS KeyRange, FiniteSets

CONSTANTS PicId,
          Order,           \* times of creation, in nanoseconds
          DefaultFindIndexPics,
          Score,           \* UpperScoreBound of the pictures
          Ops,             \* of "walk", "purge" and "vote", what happens
          NoPic

OpsAssumption == Ops \subseteq {"walk", "purge", "vote"}
PicIdAssumption == PicId \subseteq 1..(MaxInt64 - 1)
OrderAssumption == Order \subseteq 0..MaxInt64
DefaultAssumption == DefaultFindIndexPics \in Nat \ {0}
NoPicAssumption == NoPic \notin [order : Order, hidden : BOOLEAN]
ScoreAssumption == Score \in [PicId -> Nat \ {0}]

VARIABLES pics,    \* pics[p]: [order, hidden], or NoPic
          usedIds,
          voted,   \* the pictures that the user has voted on
          walk     \* the reader's way through the pages

vars == <<pics, usedIds, voted, walk>>

Stored == {p \in PicId : pics[p] # NoPic}
Visible == {p \in Stored : ~pics[p].hidden}

\* Hidden pictures have the order -1, and keep their time of creation.
IndexOrder(p) == IF pics[p].hidden THEN -1 ELSE pics[p].order
NonHiddenIndexOrder(p) == pics[p].order
\* The keys of PicsIndexOrder.
Keys == {<<IndexOrder(p), p>> : p \in Stored}

NoWalk == [pc |-> "idle", asc |-> FALSE, at |-> 0, seen |-> <<>>, present |-> {}, cut |-> FALSE]

Init == /\ pics = [p \in PicId |-> NoPic]
        /\ usedIds = {} /\ voted = {}
        /\ walk = NoWalk

-----------------------------------------------------------------------------
\* ReadIndexPicsTask.

\* lookupStartPic: the picture, or the next one by id if it is gone; 0 if none.
lookupStartPic(id, asc) ==
  LET found == {p \in Stored : IF asc THEN p >= id ELSE p <= id} IN
    IF id = 0 \/ found = {} THEN 0
    ELSE CHOOSE p \in found : \A q \in found : IF asc THEN p <= q ELSE p >= q

StartOrder(p) == NonHiddenIndexOrder(p)

\* Broken: the stop is taken for inclusive.
StopIdEx(p) == p
\* "Stop is exclusive, we want inclusive"
StopId(p) == p + 1

\* The rows of the page come from one side of the start picture ...
Bottom == <<0, 0>>
Top == <<MaxInt64, MaxInt64>>
Range1(start, asc) ==
  IF start = 0 THEN [lo |-> Bottom, hi |-> Top]
  ELSE IF asc THEN [lo |-> <<StartOrder(start), start>>, hi |-> Top]
  ELSE [lo |-> Bottom, hi |-> <<StartOrder(start), StopId(start)>>]
\* Broken: the row before the page is looked for from the start picture on.
Range2Again(start, asc) == Range1(start, ~asc)
\* ... and the row before it from the other.
Range2(start, asc) == LET r == Range1(start, asc) IN
  IF asc THEN [lo |-> Bottom, hi |-> r.lo] ELSE [lo |-> r.hi, hi |-> Top]

\* Picture ids; nobody asks for fewer than the default.
Page(id, asc) ==
  LET start == lookupStartPic(id, asc)
      max == getMax(0, DefaultFindIndexPics, MaxInt64)
      r == Range1(start, asc)
      q == Range2(start, asc)
      rows == Scan(Keys, Inc(r.lo), Ex(r.hi), ~asc, max + 1)
      prev == IF start = 0 THEN <<>> ELSE Scan(Keys, Inc(q.lo), Ex(q.hi), asc, 1)
      full == Len(rows) = max + 1
      n == IF full THEN max ELSE Len(rows)
  IN [pics |-> [i \in 1..n |-> rows[i][2]],
      next |-> IF full THEN rows[max + 1][2] ELSE 0,
      prev |-> IF prev = <<>> THEN 0 ELSE prev[1][2]]

BeginWalk(asc) ==
  /\ "walk" \in Ops /\ walk.pc = "idle"
  /\ walk' = [NoWalk EXCEPT !.pc = "walk", !.asc = asc, !.present = Visible]
  /\ UNCHANGED <<pics, usedIds, voted>>

ReadPage ==
  /\ walk.pc = "walk"
  /\ LET page == Page(walk.at, walk.asc)
         read == [i \in 1..Len(page.pics) |-> <<pics[page.pics[i]].order, page.pics[i]>>]
     IN walk' = [walk EXCEPT !.seen = @ \o read, !.at = page.next,
                             !.pc = IF page.next = 0 THEN "done" ELSE "walk"]
  /\ UNCHANGED <<pics, usedIds, voted>>

-----------------------------------------------------------------------------
\* What others do to the pictures: UpsertPicTask, HardDeletePicTask, and the
\* upload of a deleted picture, PurgePicTask, AddPicVoteTask.

Upload(p, o) ==
  /\ p \notin usedIds /\ usedIds' = usedIds \cup {p}
  /\ pics' = [pics EXCEPT ![p] = [order |-> o, hidden |-> FALSE]]
  /\ UNCHANGED <<voted, walk>>

HardDelete(p) ==
  /\ p \in Visible
  /\ pics' = [pics EXCEPT ![p].hidden = TRUE]
  /\ walk' = [walk EXCEPT !.present = @ \ {p}]
  /\ UNCHANGED <<usedIds, voted>>

Undelete(p) ==
  /\ p \in Stored \ Visible
  /\ pics' = [pics EXCEPT ![p].hidden = FALSE]
  /\ UNCHANGED <<usedIds, voted, walk>>

VotesLeft(p) == voted \ {p}

Purge(p) ==
  /\ "purge" \in Ops /\ p \in Stored
  /\ pics' = [pics EXCEPT ![p] = NoPic]
  /\ voted' = VotesLeft(p)
  /\ walk' = [walk EXCEPT !.present = @ \ {p}, !.cut = @ \/ walk.at = p]
  /\ UNCHANGED usedIds

Vote(p) ==
  /\ "vote" \in Ops /\ p \in Visible \ voted
  /\ voted' = voted \cup {p}
  /\ UNCHANGED <<pics, usedIds, walk>>

-----------------------------------------------------------------------------
\* FindSchedPicsTask.

\* The user's votes may take so many of the first pictures away.
SchedLimit == Cardinality(voted) + DefaultFindIndexPics

SchedPics ==
  LET keys == {<<IF pics[p].hidden THEN 0 ELSE Score[p], p>> : p \in Stored}
      rows == Scan(keys, Inc(<<-1, 0>>), Inc(Top), TRUE, SchedLimit)
  IN SelectSeq([i \in 1..Len(rows) |-> rows[i][2]],
               LAMBDA p : p \notin voted /\ ~pics[p].hidden)

-----------------------------------------------------------------------------
Next == \/ \E asc \in BOOLEAN : BeginWalk(asc)
        \/ ReadPage
        \/ \E p \in PicId : \/ HardDelete(p) \/ Undelete(p) \/ Purge(p) \/ Vote(p)
                            \/ \E o \in Order : Upload(p, o)

Spec == Init /\ [][Next]_vars

-----------------------------------------------------------------------------
\* Properties.

TypeOK ==
  /\ pics \in [PicId -> [order : Order, hidden : BOOLEAN] \cup {NoPic}]
  /\ usedIds \subseteq PicId /\ Stored \subseteq usedIds
  /\ voted \subseteq Stored
  /\ walk.pc \in {"idle", "walk", "done"} /\ walk.asc \in BOOLEAN
  /\ walk.at \in PicId \cup {0}
  /\ walk.seen \in Seq(Order \X PicId)
  /\ walk.present \subseteq Visible /\ walk.cut \in BOOLEAN

\* A reader who follows NextId meets no picture twice, and meets them in the
\* order of their times, whatever is uploaded, hidden or brought back between
\* two pages, the next picture included (ReadIndexPicsTask.Run).  Only when the
\* next picture is purged may the reader lose the place.
WalkInOrder ==
  ~walk.cut => \A i, k \in 1..Len(walk.seen) : i < k =>
    IF walk.asc THEN Less(walk.seen[i], walk.seen[k]) ELSE Less(walk.seen[k], walk.seen[i])

\* Such a reader has met, at the end, every picture that was there all the time.
WalkSeesAll ==
  walk.pc = "done" /\ ~walk.cut =>
    walk.present \subseteq {walk.seen[i][2] : i \in 1..Len(walk.seen)}

\* From a next page, PrevId leads back: the page in the other direction that
\* begins there is the one before, backwards, and its own PrevId leads forth.
TurnsBack ==
  LET page == [q \in (PicId \cup {0}) \X BOOLEAN |-> Page(q[1], q[2])] IN
  \A id \in PicId \cup {0}, asc \in BOOLEAN :
    LET p == page[<<id, asc>>]
        back == page[<<page[<<p.next, asc>>].prev, ~asc>>]
    IN p.next # 0 => back.pics = Reverse(p.pics) /\ back.prev = p.next

\* A user who has pictures left to vote on is proposed some, as many as a page
\* has if there are so many (FindSchedPicsTask.Run).
SchedIsFull ==
  LET left == Cardinality(Visible \ voted) IN
    Len(SchedPics) >= IF left < DefaultFindIndexPics THEN left ELSE DefaultFindIndexPics

==============================================================================
