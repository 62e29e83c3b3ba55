--------------------------- MODULE PicVotesProofs ---------------------------
(***************************************************************************)
(* Proofs about PicVotes, for any sets of tasks, pictures, users, ids and  *)
(* times, and every setting of the two configuration values.               *)
(*                                                                         *)
(* A task acts on what it has read earlier.  What makes that right is that *)
(* it commits only when it would read the same again (Serializable): Inv   *)
(* says what each task was allowed by what it has read, and CommitFacts    *)
(* carries that over to the tables at its commit.                          *)
(*                                                                         *)
(* At the end: what uploads say about their picture (PicMerge).            *)
(***************************************************************************)
EXTENDS PicVotes, Sequences, FiniteSetTheorems, TLAPS

Assumptions == UserAssumption /\ IdAssumption /\ BoundAssumption /\ ConfAssumption

\* The rows of S are numbered from 0 on.
Numbered(S) == IsFiniteSet(S) /\ {x.index : x \in S} = 0..(Cardinality(S) - 1)

VotesOf(p, u) == {v \in votes : v.pic = p /\ v.user = u}
CommentVotesOf(p, id) == {v \in cvotes : v.pic = p /\ v.comment = id}
CommentVotesBy(p, id, u) == {v \in CommentVotesOf(p, id) : v.user = u}

\* What the tables owe to the way in which indexes and ids are given.
Tables ==
  /\ IsFiniteSet(votes) /\ IsFiniteSet(cvotes)
  /\ \A p \in Pic : Numbered(VotesOf(p, Anon))
  /\ \A p \in Pic, id \in CommentId : Numbered(CommentVotesBy(p, id, Anon))
  /\ \A u \in User, now \in Time : Numbered(EventsAt(u, now))
  /\ \A c \in comments : c.id \in usedIds
  /\ \A c, d \in comments : c.id = d.id => c = d
  /\ \A v \in cvotes : /\ v.comment \in usedIds
                       /\ \A c \in comments : c.id = v.comment => c.pic = v.pic

\* What a request was allowed for, in what its task has read of the tables.
Granted(r, s) ==
  /\ s.pic.state = "live"
  /\ r.op = "vote" => r.user = Anon \/ s.votes = {}
  /\ r.op = "comment" =>
       /\ r.arg # NoParent => \E c \in s.comments : c.id = r.arg
       /\ \/ SiblingReply \/ r.user = Anon
          \/ \A c \in s.comments : c.parent = r.arg => c.user # r.user
  /\ r.op = "cvote" => /\ \E c \in s.comments : c.id = r.arg
                       /\ r.user = Anon \/ s.cvotes = {}

\* Who is told, and under which index, by what was read.
ToldBy(r, s) ==
  CASE r.op = "vote" -> IF r.dir = "NEUTRAL" THEN {} ELSE {r.user} \cup Source[r.pic]
    [] r.op = "comment" /\ r.arg = NoParent -> {r.user} \cup Source[r.pic]
    [] r.op = "comment" /\ r.arg # NoParent ->
         {r.user} \cup {c.user : c \in {d \in s.comments : d.id = r.arg}}
    [] r.op = "cvote" -> {}
IndexBy(r, s) ==
  [u \in ToldBy(r, s) \ {Anon} |-> NextIndex({e \in s.events : e.user = u})]

PlanInv(t) == Running(t) =>
  /\ job[t].r \in Request
  /\ Granted(job[t].r, job[t].seen)
  /\ job[t].index = IndexBy(job[t].r, job[t].seen)

TypeInv == TypeOK /\ job = [t \in Task |-> job[t]]

Inv == Assumptions /\ TypeInv /\ Tables /\ CountsAgree /\ \A t \in Task : PlanInv(t)

-----------------------------------------------------------------------------
\* Indexes and counts.

\* The index after all of those from 0 on is how many there are, and it is free.
LEMMA NumberedFacts ==
  ASSUME NEW S, Numbered(S)
  PROVE  /\ Cardinality(S) \in Nat
         /\ NextIndex(S) = Cardinality(S)
         /\ \A x : x.index = Cardinality(S) => x \notin S /\ Numbered(S \cup {x})
<1>1. IsFiniteSet(S) /\ Cardinality(S) \in Nat BY FS_CardinalityType DEF Numbered
<1> DEFINE n == Cardinality(S)
<1>2. /\ \A x \in S : x.index \in 0..(n - 1)
      /\ \A i \in 0..(n - 1) : \E x \in S : x.index = i
  BY DEF Numbered
<1>3. NextIndex(S) = n
  <2> DEFINE P(b) == \A x \in S : x.index <= b
             B == {-1} \cup {x.index : x \in S}
  <2>1. n \in Nat BY <1>1
  <2> HIDE DEF n
  <2>2. n - 1 \in B /\ P(n - 1)
    <3>1. CASE n = 0
      <4>1. S = {} BY <1>2, <3>1
      <4> QED BY <3>1, <4>1
    <3>2. CASE n # 0
      <4>1. n - 1 \in 0..(n - 1) BY <2>1, <3>2
      <4> QED BY <1>2, <2>1, <4>1
    <3> QED BY <3>1, <3>2
  <2>3. ASSUME NEW b \in B, P(b) PROVE b = n - 1
    <3>1. CASE n = 0
      <4>1. S = {} BY <1>2, <3>1
      <4> QED BY <3>1, <4>1
    <3>2. CASE n # 0
      <4>1. n - 1 \in 0..(n - 1) BY <2>1, <3>2
      <4>2. b >= n - 1 BY <1>2, <2>3, <4>1
      <4>3. b = -1 \/ b \in 0..(n - 1) BY <1>2
      <4> QED BY <2>1, <3>2, <4>2, <4>3
    <3> QED BY <3>1, <3>2
  <2>4. (CHOOSE b \in B : P(b)) = n - 1 BY <2>2, <2>3
  <2>5. NextIndex(S) = 1 + (CHOOSE b \in B : P(b)) BY DEF NextIndex
  <2>6. 1 + (n - 1) = n BY <2>1
  <2> QED BY <2>4, <2>5, <2>6
<1>4. ASSUME NEW x, x.index = n PROVE x \notin S /\ Numbered(S \cup {x})
  <2>1. x \notin S BY <1>1, <1>2, <1>4
  <2>2. IsFiniteSet(S \cup {x}) /\ Cardinality(S \cup {x}) = n + 1
    BY <1>1, <2>1, FS_AddElement
  <2>3. {y.index : y \in S \cup {x}} = 0..((n + 1) - 1)
    <3>1. {y.index : y \in S \cup {x}} = {y.index : y \in S} \cup {n} BY <1>4
    <3>2. (n + 1) - 1 = n /\ 0..n = 0..(n - 1) \cup {n} BY <1>1
    <3> QED BY <3>1, <3>2 DEF Numbered
  <2> QED BY <2>1, <2>2, <2>3 DEF Numbered
<1> QED BY <1>1, <1>3, <1>4

\* An empty table is numbered.
LEMMA NumberedEmpty == Numbered({})
BY FS_EmptySet DEF Numbered

\* A new vote is counted once.
LEMMA CountAdds ==
  ASSUME NEW S, IsFiniteSet(S), NEW v, v \notin S, NEW d
  PROVE  /\ Count(S, d) \in Nat
         /\ Count(S \cup {v}, d) = Count(S, d) + (IF v.dir = d THEN 1 ELSE 0)
<1> DEFINE D == {w \in S : w.dir = d}
<1>1. IsFiniteSet(D) /\ Cardinality(D) \in Nat BY FS_Subset, FS_CardinalityType
<1>2. Count(S, d) = Cardinality(D) BY DEF Count
<1>3. CASE v.dir = d
  <2>1. {w \in S \cup {v} : w.dir = d} = D \cup {v} /\ v \notin D BY <1>3
  <2>2. Count(S \cup {v}, d) = Cardinality(D \cup {v}) BY <2>1 DEF Count
  <2> QED BY <1>1, <1>2, <1>3, <2>1, <2>2, FS_AddElement
<1>4. CASE v.dir # d
  <2>1. {w \in S \cup {v} : w.dir = d} = D BY <1>4
  <2>2. Count(S \cup {v}, d) = Cardinality(D) BY <2>1 DEF Count
  <2> HIDE DEF D
  <2> QED BY <1>1, <1>2, <1>4, <2>2
<1> QED BY <1>1, <1>2, <1>3, <1>4

-----------------------------------------------------------------------------
\* What tasks know.

\* What is read tells who is told, and under which index, and what is allowed.
LEMMA PlanFacts ==
  ASSUME Inv, NEW r \in Request
  PROVE  /\ Notified(r) = ToldBy(r, Reads(r)) \ {Anon}
         /\ IndexBy(r, Reads(r)) = [u \in Notified(r) |-> NextIndex(EventsAt(u, r.now))]
         /\ Plan(r).index = IndexBy(r, Reads(r))
         /\ Notified(r) \subseteq User
         /\ IndexBy(r, Reads(r)) \in [Notified(r) -> Nat]
         /\ Allowed(r) => Granted(r, Reads(r))
<1>1. /\ r.op \in {"vote", "comment", "cvote"} /\ r.pic \in Pic /\ r.user \in User
      /\ r.arg \in CommentId \cup {NoParent} /\ r.now \in Time /\ Anon \in User
      /\ Source[r.pic] \subseteq User
      /\ \A c \in comments : c.user \in User
  BY DEF Request, Inv, Assumptions, ConfAssumption, UserAssumption, TypeInv, TypeOK,
         PicComment
<1>2. Told(r) = ToldBy(r, Reads(r))
  <2>1. CASE r.op = "vote" BY <2>1 DEF Told, ToldBy
  <2>2. CASE r.op = "comment" /\ r.arg = NoParent BY <2>2 DEF Told, ToldBy
  <2>3. CASE r.op = "comment" /\ r.arg # NoParent
    <3>1. {d \in Reads(r).comments : d.id = r.arg} = Comment(r.pic, r.arg)
      BY <2>3 DEF Reads, Comment
    <3> QED BY <2>3, <3>1 DEF Told, ToldBy
  <2>4. CASE r.op = "cvote" BY <2>4 DEF Told, ToldBy
  <2> QED BY <1>1, <2>1, <2>2, <2>3, <2>4
<1>3. Told(r) \subseteq User
  <2>1. CASE r.op = "vote" BY <1>1, <2>1 DEF Told
  <2>2. CASE r.op = "comment" /\ r.arg = NoParent BY <1>1, <2>2 DEF Told
  <2>3. CASE r.op = "comment" /\ r.arg # NoParent
    BY <1>1, <2>3 DEF Told, Comment, CommentsOf
  <2>4. CASE r.op = "cvote" BY <2>4 DEF Told
  <2> QED BY <1>1, <2>1, <2>2, <2>3, <2>4
<1>4. Notified(r) = ToldBy(r, Reads(r)) \ {Anon} /\ Notified(r) \subseteq User
  BY <1>2, <1>3 DEF Notified
<1>5. ASSUME NEW u \in Notified(r)
      PROVE  /\ {e \in Reads(r).events : e.user = u} = EventsAt(u, r.now)
             /\ nextUserEventIndex(u, r.now) = NextIndex(EventsAt(u, r.now))
             /\ NextIndex(EventsAt(u, r.now)) \in Nat
  <2>1. {e \in Reads(r).events : e.user = u} = EventsAt(u, r.now)
    <3>1. Reads(r).events = UNION {EventsAt(w, r.now) : w \in Notified(r)} BY DEF Reads
    <3> QED BY <3>1 DEF EventsAt
  <2>2. nextUserEventIndex(u, r.now) = NextIndex(EventsAt(u, r.now))
    BY DEF nextUserEventIndex, NextIndex
  <2>3. NextIndex(EventsAt(u, r.now)) \in Nat
    <3>1. Numbered(EventsAt(u, r.now)) BY <1>1, <1>4 DEF Inv, Tables
    <3> QED BY <3>1, NumberedFacts
  <2> QED BY <2>1, <2>2, <2>3
<1>6. IndexBy(r, Reads(r)) = [u \in Notified(r) |-> NextIndex(EventsAt(u, r.now))]
  BY <1>4, <1>5 DEF IndexBy
<1>7. Plan(r).index = IndexBy(r, Reads(r)) BY <1>5, <1>6 DEF Plan
<1>8. ASSUME Allowed(r) PROVE Granted(r, Reads(r))
  <2>1. CASE r.op = "vote"
    <3>1. PicVotable(r) BY <1>8, <2>1 DEF Allowed
    <3> QED BY <2>1, <3>1 DEF PicVotable, Granted, Reads
  <2>2. CASE r.op = "comment"
    <3>1. Commentable(r) BY <1>8, <2>2 DEF Allowed
    <3> QED BY <2>2, <3>1 DEF Commentable, Granted, Reads, Comment
  <2>3. CASE r.op = "cvote"
    <3>1. CommentVotable(r) BY <1>8, <2>3 DEF Allowed
    <3> QED BY <2>3, <3>1 DEF CommentVotable, Granted, Reads, Comment
  <2> QED BY <1>1, <2>1, <2>2, <2>3
<1> QED BY <1>4, <1>5, <1>6, <1>7, <1>8

\* A task that commits may do so by what is in the tables now.
LEMMA CommitFacts ==
  ASSUME Inv, NEW t \in Task, Running(t), Serializable(t), NEW r, r = job[t].r
  PROVE  /\ r \in Request /\ Granted(r, Reads(r)) /\ pics[r.pic].state = "live"
         /\ Notified(r) \subseteq User
         /\ \A u \in Notified(r) : job[t].index[u] = NextIndex(EventsAt(u, r.now))
<1>1. /\ r \in Request /\ Granted(r, Reads(r))
      /\ job[t].index = IndexBy(r, Reads(r))
  BY DEF Inv, PlanInv, Serializable
<1>2. pics[r.pic].state = "live" BY <1>1 DEF Granted, Reads
<1> QED BY <1>1, <1>2, PlanFacts
-----------------------------------------------------------------------------
\* Steps of tasks.

\* A task ends, or is planned by what it may do; others stay as they are.
LEMMA JobsKept ==
  ASSUME Inv, NEW t \in Task, NEW j, job' = [job EXCEPT ![t] = j],
         \/ j = None
         \/ \E r \in Request : Allowed(r) /\ j = Plan(r)
  PROVE  /\ \A u \in Task : PlanInv(u)'
         /\ job' = [u \in Task |-> job'[u]]
         /\ \A u \in Task : Running(u)' =>
              /\ job'[u].r \in Request
              /\ \E S \in SUBSET User : job'[u].index \in [S -> Nat]
<1>1. /\ job = [u \in Task |-> job[u]] /\ \A u \in Task : PlanInv(u)
      /\ \A u \in Task : Running(u) =>
           /\ job[u].r \in Request
           /\ \E S \in SUBSET User : job[u].index \in [S -> Nat]
  BY DEF Inv, TypeInv, TypeOK
<1>2. job'[t] = j /\ job' = [u \in Task |-> job'[u]]
  BY <1>1
<1>3. \A u \in Task : u # t => job'[u] = job[u] BY <1>1
<1>4. ASSUME NEW u \in Task, u # t
      PROVE  /\ PlanInv(u)'
             /\ Running(u)' => /\ job'[u].r \in Request
                               /\ \E S \in SUBSET User : job'[u].index \in [S -> Nat]
  BY <1>1, <1>3, <1>4 DEF PlanInv, Running
<1>5. CASE j = None BY <1>2, <1>4, <1>5 DEF PlanInv, Running
<1>6. ASSUME NEW r \in Request, Allowed(r), j = Plan(r)
      PROVE  /\ \A u \in Task : PlanInv(u)'
             /\ \A u \in Task : Running(u)' =>
                  /\ job'[u].r \in Request
                  /\ \E S \in SUBSET User : job'[u].index \in [S -> Nat]
  <2>1. /\ j.r = r /\ j.seen = Reads(r) BY <1>6 DEF Plan
  <2>2. /\ Granted(r, Reads(r)) /\ j.index = IndexBy(r, Reads(r))
        /\ Notified(r) \in SUBSET User /\ IndexBy(r, Reads(r)) \in [Notified(r) -> Nat]
    BY <1>6, PlanFacts
  <2>3. PlanInv(t)' BY <1>2, <2>1, <2>2 DEF PlanInv
  <2>4. /\ job'[t].r \in Request
        /\ \E S \in SUBSET User : job'[t].index \in [S -> Nat]
    BY <1>2, <2>1, <2>2
  <2> QED BY <1>2, <1>4, <2>3, <2>4
<1> QED BY <1>2, <1>5, <1>6

\* A task begins, or starts again.
LEMMA PlanSteps ==
  ASSUME Inv, NEW t \in Task, (\E r \in Request : Begin(t, r)) \/ Retry(t) PROVE Inv'
<1>1. \E j : /\ job' = [job EXCEPT ![t] = j]
             /\ j = None \/ \E r \in Request : Allowed(r) /\ j = Plan(r)
  <2>1. CASE Retry(t)
    <3>1. job[t].r \in Request BY <2>1 DEF Inv, TypeInv, TypeOK, Retry
    <3> QED BY <2>1, <3>1 DEF Retry
  <2> QED BY <2>1 DEF Begin
<1>2. /\ \A u \in Task : PlanInv(u)'
      /\ job' = [u \in Task |-> job'[u]]
      /\ \A u \in Task : Running(u)' =>
           /\ job'[u].r \in Request
           /\ \E S \in SUBSET User : job'[u].index \in [S -> Nat]
  BY <1>1, JobsKept
<1>3. UNCHANGED <<pics, votes, comments, cvotes, events, usedIds>> BY DEF Begin, Retry
<1>4. TypeInv' BY <1>2, <1>3 DEF Inv, TypeInv, TypeOK
<1>5. Tables'
  BY <1>3 DEF Inv, Tables, VotesOf, CommentVotesBy, CommentVotesOf, EventsAt
<1>6. CountsAgree'
  BY <1>3 DEF Inv, CountsAgree, VotesCounted, VotesOnce, CommentsRooted, RepliesOnce,
              EventsNumbered, EventsAt
<1> QED BY <1>2, <1>4, <1>5, <1>6 DEF Inv

\* Events of a commit: those of each user in one instant are numbered still.
LEMMA EventsKept ==
  ASSUME Inv, NEW t \in Task, Running(t), Serializable(t),
         events' = events \cup NewEvents(t)
  PROVE  /\ \A u \in User, now \in Time : Numbered(EventsAt(u, now)')
         /\ events' \subseteq UserEvent
<1>1. PICK r \in Request : r = job[t].r BY CommitFacts
<1>2. /\ Notified(r) \subseteq User
      /\ \A u \in Notified(r) : job[t].index[u] = NextIndex(EventsAt(u, r.now))
      /\ r.now \in Time /\ r.pic \in Pic
  BY <1>1, CommitFacts DEF Request
<1>3. \A u \in User, now \in Time : Numbered(EventsAt(u, now)) BY DEF Inv, Tables
<1> DEFINE E(u) == [user |-> u, created |-> r.now, index |-> job[t].index[u],
                    pic |-> r.pic, way |-> IF u = r.user THEN "out" ELSE "in"]
<1>4. events' = events \cup {E(u) : u \in Notified(r)} BY <1>1 DEF NewEvents
<1>5. \A u \in Notified(r) :
        /\ E(u) \in UserEvent
        /\ E(u).user = u /\ E(u).created = r.now
        /\ E(u).index = Cardinality(EventsAt(u, r.now))
  <2> SUFFICES ASSUME NEW u \in Notified(r)
               PROVE  /\ job[t].index[u] \in Nat
                      /\ job[t].index[u] = Cardinality(EventsAt(u, r.now))
    BY <1>2 DEF UserEvent
  <2>1. Numbered(EventsAt(u, r.now)) BY <1>2, <1>3
  <2> QED BY <1>2, <2>1, NumberedFacts
<1> HIDE DEF E
<1>6. events' \subseteq UserEvent BY <1>4, <1>5 DEF Inv, TypeInv, TypeOK
<1>7. ASSUME NEW u \in User, NEW now \in Time PROVE Numbered(EventsAt(u, now)')
  <2>1. CASE u \in Notified(r) /\ now = r.now
    <3>1. \A e : e \in EventsAt(u, now)' <=> e \in EventsAt(u, now) \/ e = E(u)
      BY <1>4, <1>5, <2>1 DEF EventsAt
    <3>2. EventsAt(u, now)' = EventsAt(u, now) \cup {E(u)} BY <3>1
    <3> QED BY <1>3, <1>5, <2>1, <3>2, NumberedFacts
  <2>2. CASE ~(u \in Notified(r) /\ now = r.now)
    <3>1. ASSUME NEW w \in Notified(r) PROVE ~(E(w).user = u /\ E(w).created = now)
      BY <1>5, <2>2
    <3>2. EventsAt(u, now)' = EventsAt(u, now) BY <1>4, <3>1 DEF EventsAt
    <3> QED BY <1>3, <3>2
  <2> QED BY <2>1, <2>2
<1> QED BY <1>6, <1>7

\* A vote on a picture is recorded, counted and told.
LEMMA PicVoteSteps == ASSUME Inv, NEW t \in Task, CommitPicVote(t) PROVE Inv'
<1>1. PICK r : r = job[t].r OBVIOUS
<1>2. /\ r \in Request /\ Granted(r, Reads(r)) /\ pics[r.pic].state = "live"
      /\ r.op = "vote" /\ r.pic \in Pic /\ r.user \in User /\ r.dir \in Dir
  <2>1. Running(t) /\ Serializable(t) /\ r.op = "vote"
    BY <1>1 DEF CommitPicVote, Commits
  <2>2. r \in Request /\ Granted(r, Reads(r)) /\ pics[r.pic].state = "live"
    BY <1>1, <2>1, CommitFacts
  <2> QED BY <2>1, <2>2 DEF Request
<1> DEFINE mine == VotesOf(r.pic, r.user)
           i == IF r.user = Anon THEN NextIndex(mine) ELSE 0
           x == [pic |-> r.pic, user |-> r.user, index |-> i, dir |-> r.dir]
<1>3. /\ votes' = votes \cup {x}
      /\ pics' = [pics EXCEPT ![r.pic].up = @ + Up(r.dir), ![r.pic].down = @ + Down(r.dir)]
      /\ events' = events \cup NewEvents(t)
      /\ job' = [job EXCEPT ![t] = None]
      /\ UNCHANGED <<comments, cvotes, usedIds>>
  BY <1>1 DEF CommitPicVote, VotesOf, Finish
<1>4. /\ x \in PicVote /\ x \notin votes
      /\ r.user # Anon => mine = {}
      /\ r.user = Anon => Numbered(mine \cup {x})
  <2>1. CASE r.user = Anon
    <3>1. Numbered(mine) BY <1>2, <2>1 DEF Inv, Tables
    <3>2. i = Cardinality(mine) /\ i \in Nat BY <2>1, <3>1, NumberedFacts
    <3>3. x.index = Cardinality(mine) BY <3>2
    <3>4. x \notin mine /\ Numbered(mine \cup {x}) BY <3>1, <3>3, NumberedFacts
    <3> QED BY <1>2, <2>1, <3>2, <3>4 DEF VotesOf, PicVote
  <2>2. CASE r.user # Anon
    <3>1. mine = {} BY <1>2, <2>2 DEF Granted, Reads, VotesOf
    <3> QED BY <1>2, <2>2, <3>1 DEF VotesOf, PicVote
  <2> QED BY <2>1, <2>2
<1>5. x.pic = r.pic /\ x.user = r.user /\ x.dir = r.dir OBVIOUS
<1> HIDE DEF x, i
<1>6. /\ \A u \in Task : PlanInv(u)'
      /\ job' = [u \in Task |-> job'[u]]
      /\ \A u \in Task : Running(u)' =>
           /\ job'[u].r \in Request
           /\ \E S \in SUBSET User : job'[u].index \in [S -> Nat]
  BY <1>3, JobsKept
<1>7. /\ \A u \in User, now \in Time : Numbered(EventsAt(u, now)')
      /\ events' \subseteq UserEvent
  BY <1>3, EventsKept DEF CommitPicVote, Commits
<1>8. /\ pics \in [Pic -> [state : State, up : Nat, down : Nat, views : 0..MaxViews]]
      /\ votes \subseteq PicVote /\ comments \subseteq PicComment
      /\ cvotes \subseteq PicCommentVote /\ usedIds \subseteq CommentId
      /\ \A p \in Pic : pics[p].state \in {"none", "purged"} =>
           ~\E v \in votes : v.pic = p
  BY DEF Inv, TypeInv, TypeOK
<1>9. /\ pics' \in [Pic -> [state : State, up : Nat, down : Nat, views : 0..MaxViews]]
      /\ pics'[r.pic].state = "live"
      /\ pics'[r.pic].up = pics[r.pic].up + Up(r.dir)
      /\ pics'[r.pic].down = pics[r.pic].down + Down(r.dir)
      /\ \A p \in Pic : p # r.pic => pics'[p] = pics[p]
  <2>1. Up(r.dir) \in Nat /\ Down(r.dir) \in Nat BY DEF Up, Down
  <2> QED BY <1>2, <1>3, <1>8, <2>1
<1>10. TypeInv'
  <2>1. votes' \subseteq PicVote BY <1>3, <1>4, <1>8
  <2>2. \A p \in Pic : pics'[p].state \in {"none", "purged"} =>
           ~\E v \in votes' : v.pic = p
    BY <1>3, <1>5, <1>8, <1>9
  <2> QED BY <1>3, <1>6, <1>7, <1>8, <1>9, <2>1, <2>2 DEF TypeInv, TypeOK
<1>11. Tables'
  <2>1. IsFiniteSet(votes') BY <1>3, FS_AddElement DEF Inv, Tables
  <2>2. ASSUME NEW p \in Pic PROVE Numbered(VotesOf(p, Anon)')
    <3>1. CASE p = r.pic /\ r.user = Anon
      <4>1. VotesOf(p, Anon)' = mine \cup {x} BY <1>3, <1>5, <3>1 DEF VotesOf
      <4> QED BY <1>4, <3>1, <4>1
    <3>2. CASE ~(p = r.pic /\ r.user = Anon)
      <4>1. VotesOf(p, Anon)' = VotesOf(p, Anon) BY <1>3, <1>5, <3>2 DEF VotesOf
      <4> QED BY <4>1 DEF Inv, Tables
    <3> QED BY <3>1, <3>2
  <2>3. \A p \in Pic, id \in CommentId : Numbered(CommentVotesBy(p, id, Anon)')
    BY <1>3 DEF Inv, Tables, CommentVotesBy, CommentVotesOf
  <2>4. /\ IsFiniteSet(cvotes')
        /\ \A c \in comments' : c.id \in usedIds'
        /\ \A c, d \in comments' : c.id = d.id => c = d
        /\ \A v \in cvotes' : /\ v.comment \in usedIds'
                              /\ \A c \in comments' : c.id = v.comment => c.pic = v.pic
    BY <1>3 DEF Inv, Tables
  <2> QED BY <1>7, <2>1, <2>2, <2>3, <2>4 DEF Tables
<1>12. VotesCounted'
  <2>1. ASSUME NEW p \in Pic, NEW S, S = {v \in votes' : v.pic = p}
        PROVE pics'[p].up = Count(S, "UP") /\ pics'[p].down = Count(S, "DOWN")
    <3> DEFINE T == {v \in votes : v.pic = p}
    <3>1. pics[p].up = Count(T, "UP") /\ pics[p].down = Count(T, "DOWN")
      BY DEF Inv, CountsAgree, VotesCounted
    <3>2. IsFiniteSet(T) BY FS_Subset DEF Inv, Tables
    <3>3. CASE p = r.pic
      <4>1. S = T \cup {x} /\ x \notin T BY <1>3, <1>4, <1>5, <2>1, <3>3
      <4> HIDE DEF T
      <4>2. Count(S, "UP") = Count(T, "UP") + (IF x.dir = "UP" THEN 1 ELSE 0)
        BY <3>2, <4>1, CountAdds
      <4>3. Count(S, "DOWN") = Count(T, "DOWN") + (IF x.dir = "DOWN" THEN 1 ELSE 0)
        BY <3>2, <4>1, CountAdds
      <4> QED BY <1>5, <1>9, <3>1, <3>3, <4>2, <4>3 DEF Up, Down
    <3>4. CASE p # r.pic
      <4>1. S = T BY <1>3, <1>5, <2>1, <3>4
      <4> QED BY <1>9, <3>1, <3>4, <4>1
    <3> QED BY <3>3, <3>4
  <2>2. \A c \in comments' : LET S == {v \in cvotes' : v.pic = c.pic /\ v.comment = c.id} IN
          c.up = Count(S, "UP") /\ c.down = Count(S, "DOWN")
    BY <1>3 DEF Inv, CountsAgree, VotesCounted
  <2> QED BY <2>1, <2>2 DEF VotesCounted, Count
<1>13. VotesOnce'
  <2>1. \A v, w \in votes' : v.pic = w.pic /\ v.user = w.user /\ v.user # Anon => v = w
    <3>1. \A v, w \in votes : v.pic = w.pic /\ v.user = w.user /\ v.user # Anon => v = w
      BY DEF Inv, CountsAgree, VotesOnce
    <3>2. \A v \in votes : v.pic = x.pic /\ v.user = x.user => x.user = Anon
      BY <1>4, <1>5 DEF VotesOf
    <3> QED BY <1>3, <3>1, <3>2
  <2> QED BY <1>3, <2>1 DEF Inv, CountsAgree, VotesOnce
<1>14. CommentsRooted'
  <2>1. comments' = comments /\ \A p \in Pic : pics'[p].state = pics[p].state
    BY <1>2, <1>3, <1>9
  <2>2. \A c \in comments : c.pic \in Pic BY <1>8 DEF PicComment
  <2> QED BY <2>1, <2>2 DEF Inv, CountsAgree, CommentsRooted
<1>15. RepliesOnce' BY <1>3 DEF Inv, CountsAgree, RepliesOnce
<1>16. EventsNumbered' BY <1>7 DEF EventsNumbered, Numbered
<1>17. CountsAgree' BY <1>12, <1>13, <1>14, <1>15, <1>16 DEF CountsAgree
<1> QED BY <1>6, <1>10, <1>11, <1>17 DEF Inv

\* A comment is added and told.  Its id is new, so nobody has voted on it.
LEMMA CommentSteps == ASSUME Inv, NEW t \in Task, CommitComment(t) PROVE Inv'
<1>1. PICK r : r = job[t].r OBVIOUS
<1>2. /\ r \in Request /\ Granted(r, Reads(r)) /\ pics[r.pic].state = "live"
      /\ r.op = "comment" /\ r.pic \in Pic /\ r.user \in User
      /\ r.arg \in CommentId \cup {NoParent}
  <2>1. Running(t) /\ Serializable(t) /\ r.op = "comment"
    BY <1>1 DEF CommitComment, Commits
  <2>2. r \in Request /\ Granted(r, Reads(r)) /\ pics[r.pic].state = "live"
    BY <1>1, <2>1, CommitFacts
  <2> QED BY <2>1, <2>2 DEF Request
<1>3. PICK id \in CommentId \ usedIds :
        /\ comments' = comments \cup {[id |-> id, pic |-> r.pic, parent |-> r.arg,
                                       user |-> r.user, up |-> 0, down |-> 0]}
        /\ usedIds' = usedIds \cup {id}
  BY <1>1 DEF CommitComment
<1>4. /\ events' = events \cup NewEvents(t)
      /\ job' = [job EXCEPT ![t] = None]
      /\ UNCHANGED <<pics, votes, cvotes>>
  BY DEF CommitComment, Finish
<1> DEFINE x == [id |-> id, pic |-> r.pic, parent |-> r.arg,
                 user |-> r.user, up |-> 0, down |-> 0]
<1>5. /\ comments' = comments \cup {x} /\ x \in PicComment
      /\ x.id = id /\ x.pic = r.pic /\ x.parent = r.arg /\ x.user = r.user
      /\ x.up = 0 /\ x.down = 0
  <2>1. r.arg \in Nat
    <3>1. IdAssumption BY DEF Inv, Assumptions
    <3>2. CommentId \subseteq Nat /\ NoParent \in Nat BY <3>1 DEF IdAssumption, NoParent
    <3> QED BY <1>2, <3>2
  <2>2. x \in PicComment BY <1>2, <1>3, <2>1 DEF PicComment
  <2> QED BY <1>3, <2>2
<1> HIDE DEF x
<1>6. /\ \A u \in Task : PlanInv(u)'
      /\ job' = [u \in Task |-> job'[u]]
      /\ \A u \in Task : Running(u)' =>
           /\ job'[u].r \in Request
           /\ \E S \in SUBSET User : job'[u].index \in [S -> Nat]
  BY <1>4, JobsKept
<1>7. /\ \A u \in User, now \in Time : Numbered(EventsAt(u, now)')
      /\ events' \subseteq UserEvent
  BY <1>4, EventsKept DEF CommitComment, Commits
<1>8. TypeInv'
  BY <1>3, <1>4, <1>5, <1>6, <1>7 DEF Inv, TypeInv, TypeOK
<1>9. \A c \in comments : c.id # id
  BY <1>3 DEF Inv, Tables
<1>10. \A v \in cvotes : v.comment # id
  BY <1>3 DEF Inv, Tables
<1>11. Tables'
  <2>1. \A p \in Pic : Numbered(VotesOf(p, Anon)')
    BY <1>4 DEF Inv, Tables, VotesOf
  <2>2. \A p \in Pic, i \in CommentId : Numbered(CommentVotesBy(p, i, Anon)')
    BY <1>4 DEF Inv, Tables, CommentVotesBy, CommentVotesOf
  <2>3. /\ \A c \in comments' : c.id \in usedIds'
        /\ \A c, d \in comments' : c.id = d.id => c = d
    BY <1>3, <1>5, <1>9 DEF Inv, Tables
  <2>4. \A v \in cvotes' : /\ v.comment \in usedIds'
                           /\ \A c \in comments' : c.id = v.comment => c.pic = v.pic
    BY <1>3, <1>4, <1>5, <1>10 DEF Inv, Tables
  <2>5. IsFiniteSet(votes') /\ IsFiniteSet(cvotes') BY <1>4 DEF Inv, Tables
  <2> QED BY <1>7, <2>1, <2>2, <2>3, <2>4, <2>5 DEF Tables
<1>12. VotesCounted'
  <2>1. \A p \in Pic : LET S == {v \in votes' : v.pic = p} IN
          pics'[p].up = Count(S, "UP") /\ pics'[p].down = Count(S, "DOWN")
    BY <1>4 DEF Inv, CountsAgree, VotesCounted
  <2>2. ASSUME NEW c \in comments', NEW S, S = {v \in cvotes' : v.pic = c.pic /\ v.comment = c.id}
        PROVE c.up = Count(S, "UP") /\ c.down = Count(S, "DOWN")
    <3>1. CASE c = x
      <4>1. S = {} BY <1>4, <1>5, <1>10, <2>2, <3>1
      <4>2. Cardinality({v \in S : v.dir = "UP"}) = 0 /\ Cardinality({v \in S : v.dir = "DOWN"}) = 0
        <5>1. {v \in S : v.dir = "UP"} = {} /\ {v \in S : v.dir = "DOWN"} = {} BY <4>1
        <5> QED BY <5>1, FS_EmptySet
      <4> QED BY <1>5, <3>1, <4>2 DEF Count
    <3>2. CASE c # x
      BY <1>4, <1>5, <2>2, <3>2 DEF Inv, CountsAgree, VotesCounted
    <3> QED BY <3>1, <3>2
  <2> QED BY <2>1, <2>2 DEF VotesCounted, Count
<1>13. VotesOnce' BY <1>4 DEF Inv, CountsAgree, VotesOnce
<1>14. CommentsRooted'
  <2>1. \A c \in comments : /\ pics[c.pic].state \in {"live", "hard"}
                            /\ c.parent # NoParent =>
                                 \E d \in comments : d.id = c.parent /\ d.pic = c.pic /\ d # c
    BY DEF Inv, CountsAgree, CommentsRooted
  <2>2. r.arg # NoParent => \E d \in comments : d.id = r.arg /\ d.pic = r.pic
    BY <1>2 DEF Granted, Reads, CommentsOf
  <2> QED BY <1>2, <1>4, <1>5, <1>9, <2>1, <2>2 DEF CommentsRooted
<1>15. RepliesOnce'
  <2>1. CASE SiblingReply BY <2>1 DEF RepliesOnce
  <2>2. CASE ~SiblingReply
    <3>1. \A c, d \in comments : c.pic = d.pic /\ c.parent = d.parent /\ c.user = d.user
                                 /\ c.user # Anon => c = d
      BY <2>2 DEF Inv, CountsAgree, RepliesOnce
    <3>2. r.user = Anon \/ \A c \in comments : c.pic = r.pic /\ c.parent = r.arg => c.user # r.user
      BY <1>2, <2>2 DEF Granted, Reads, CommentsOf
    <3> QED BY <1>5, <3>1, <3>2 DEF RepliesOnce
  <2> QED BY <2>1, <2>2
<1>16. EventsNumbered' BY <1>7 DEF EventsNumbered, Numbered
<1>17. CountsAgree' BY <1>12, <1>13, <1>14, <1>15, <1>16 DEF CountsAgree
<1> QED BY <1>6, <1>8, <1>11, <1>17 DEF Inv

\* A vote on a comment is recorded and counted.
LEMMA CommentVoteSteps == ASSUME Inv, NEW t \in Task, CommitCommentVote(t) PROVE Inv'
<1>1. PICK r : r = job[t].r OBVIOUS
<1>2. /\ r \in Request /\ Granted(r, Reads(r))
      /\ r.op = "cvote" /\ r.pic \in Pic /\ r.user \in User /\ r.dir \in Dir
  <2>1. Running(t) /\ Serializable(t) /\ r.op = "cvote"
    BY <1>1 DEF CommitCommentVote, Commits
  <2>2. r \in Request /\ Granted(r, Reads(r))
    BY <1>1, <2>1, CommitFacts
  <2> QED BY <2>1, <2>2 DEF Request
\* The comment that is voted on.
<1>3. PICK k \in comments : k.pic = r.pic /\ k.id = r.arg
  BY <1>2 DEF Granted, Reads, CommentsOf
<1>4. /\ comments \subseteq PicComment /\ cvotes \subseteq PicCommentVote
      /\ k.id \in CommentId /\ k.id \in usedIds
      /\ \A c, d \in comments : c.id = d.id => c = d
      /\ \A v \in cvotes : /\ v.comment \in usedIds
                           /\ \A c \in comments : c.id = v.comment => c.pic = v.pic
  BY <1>3 DEF Inv, TypeInv, TypeOK, Tables, PicComment
<1> DEFINE mine == {v \in cvotes : v.pic = r.pic /\ v.comment = r.arg /\ v.user = r.user}
           i == IF r.user = Anon THEN NextIndex(mine) ELSE 0
           x == [pic |-> r.pic, comment |-> r.arg, user |-> r.user,
                 index |-> i, dir |-> r.dir]
           Voted(c) == [c EXCEPT !.up = @ + Up(r.dir), !.down = @ + Down(r.dir)]
           New(c) == IF c.pic = r.pic /\ c.id = r.arg THEN Voted(c) ELSE c
<1>5. /\ cvotes' = cvotes \cup {x}
      /\ comments' = {New(c) : c \in comments}
      /\ job' = [job EXCEPT ![t] = None]
      /\ UNCHANGED <<pics, votes, events, usedIds>>
  BY <1>1 DEF CommitCommentVote, Finish
<1>6. /\ x \in PicCommentVote /\ x \notin cvotes
      /\ r.user # Anon => mine = {}
      /\ r.user = Anon => Numbered(mine \cup {x})
  <2>1. CASE r.user = Anon
    <3>1. mine = CommentVotesBy(r.pic, r.arg, Anon)
      BY <2>1 DEF CommentVotesBy, CommentVotesOf
    <3>2. Numbered(mine) BY <1>2, <1>3, <1>4, <3>1 DEF Inv, Tables
    <3>3. i = Cardinality(mine) /\ i \in Nat BY <2>1, <3>2, NumberedFacts
    <3>4. x.index = Cardinality(mine) BY <3>3
    <3>5. x \notin mine /\ Numbered(mine \cup {x}) BY <3>2, <3>4, NumberedFacts
    <3> QED BY <1>2, <1>3, <1>4, <2>1, <3>3, <3>5 DEF PicCommentVote
  <2>2. CASE r.user # Anon
    <3>1. mine = {} BY <1>2, <2>2 DEF Granted, Reads
    <3>2. i = 0 BY <2>2
    <3> QED BY <1>2, <1>3, <1>4, <2>2, <3>1, <3>2 DEF PicCommentVote
  <2> QED BY <2>1, <2>2
<1>7. x.pic = r.pic /\ x.comment = r.arg /\ x.user = r.user /\ x.dir = r.dir OBVIOUS
<1> HIDE DEF x, i
<1>8. Up(r.dir) \in Nat /\ Down(r.dir) \in Nat BY DEF Up, Down
<1>9. ASSUME NEW c \in comments
      PROVE  /\ New(c) \in PicComment
             /\ New(c).id = c.id /\ New(c).pic = c.pic /\ New(c).parent = c.parent
             /\ New(c).user = c.user
             /\ c.id = r.arg => New(c).up = c.up + Up(r.dir) /\ New(c).down = c.down + Down(r.dir)
             /\ c.id # r.arg => New(c) = c
             /\ c.id = r.arg => c.pic = r.pic
  <2>1. /\ c \in PicComment /\ c.up \in Nat /\ c.down \in Nat
    BY <1>4 DEF PicComment
  <2>2. c.id = r.arg => c.pic = r.pic BY <1>3, <1>4
  <2>3. CASE c.id = r.arg
    <3>1. New(c) = Voted(c) BY <2>2, <2>3
    <3>2. /\ Voted(c) \in PicComment
          /\ Voted(c).id = c.id /\ Voted(c).pic = c.pic /\ Voted(c).parent = c.parent
          /\ Voted(c).user = c.user
          /\ Voted(c).up = c.up + Up(r.dir) /\ Voted(c).down = c.down + Down(r.dir)
      <4>1. PICK u, d \in Nat : u = c.up + Up(r.dir) /\ d = c.down + Down(r.dir)
        BY <1>8, <2>1
      <4>2. Voted(c) = [[c EXCEPT !.up = u] EXCEPT !.down = d] BY <2>1, <4>1 DEF PicComment
      <4> QED BY <2>1, <4>1, <4>2 DEF PicComment
    <3> QED BY <2>2, <2>3, <3>1, <3>2
  <2>4. CASE c.id # r.arg BY <2>1, <2>4
  <2> QED BY <2>3, <2>4
<1> HIDE DEF New
<1>10. /\ \A u \in Task : PlanInv(u)'
       /\ job' = [u \in Task |-> job'[u]]
       /\ \A u \in Task : Running(u)' =>
            /\ job'[u].r \in Request
            /\ \E S \in SUBSET User : job'[u].index \in [S -> Nat]
  BY <1>5, JobsKept
<1>11. TypeInv'
  <2>1. comments' \subseteq PicComment /\ cvotes' \subseteq PicCommentVote
    BY <1>4, <1>5, <1>6, <1>9
  <2> QED BY <1>5, <1>10, <2>1 DEF Inv, TypeInv, TypeOK
<1>12. Tables'
  <2>1. IsFiniteSet(votes') /\ IsFiniteSet(cvotes')
    BY <1>5, FS_AddElement DEF Inv, Tables
  <2>2. \A p \in Pic : Numbered(VotesOf(p, Anon)')
    BY <1>5 DEF Inv, Tables, VotesOf
  <2>3. ASSUME NEW p \in Pic, NEW id \in CommentId PROVE Numbered(CommentVotesBy(p, id, Anon)')
    <3>1. CASE p = r.pic /\ id = r.arg /\ r.user = Anon
      <4>1. CommentVotesBy(p, id, Anon)' = mine \cup {x}
        BY <1>5, <1>7, <3>1 DEF CommentVotesBy, CommentVotesOf
      <4> QED BY <1>6, <3>1, <4>1
    <3>2. CASE ~(p = r.pic /\ id = r.arg /\ r.user = Anon)
      <4>1. CommentVotesBy(p, id, Anon)' = CommentVotesBy(p, id, Anon)
        BY <1>5, <1>7, <3>2 DEF CommentVotesBy, CommentVotesOf
      <4> QED BY <4>1 DEF Inv, Tables
    <3> QED BY <3>1, <3>2
  <2>4. \A u \in User, now \in Time : Numbered(EventsAt(u, now)')
    BY <1>5 DEF Inv, Tables, EventsAt
  <2>5. /\ \A c \in comments' : c.id \in usedIds'
        /\ \A c, d \in comments' : c.id = d.id => c = d
    <3>1. \A c \in comments : c.id \in usedIds BY DEF Inv, Tables
    <3> QED BY <1>4, <1>5, <1>9, <3>1
  <2>6. \A v \in cvotes' : /\ v.comment \in usedIds'
                           /\ \A c \in comments' : c.id = v.comment => c.pic = v.pic
    <3>1. \A c \in comments : c.id = x.comment => c.pic = x.pic
      BY <1>3, <1>4, <1>7
    <3> QED BY <1>3, <1>4, <1>5, <1>7, <1>9, <3>1
  <2> QED BY <2>1, <2>2, <2>3, <2>4, <2>5, <2>6 DEF Tables
<1>13. VotesCounted'
  <2>1. \A p \in Pic : LET S == {v \in votes' : v.pic = p} IN
          pics'[p].up = Count(S, "UP") /\ pics'[p].down = Count(S, "DOWN")
    BY <1>5 DEF Inv, CountsAgree, VotesCounted
  <2>2. ASSUME NEW c \in comments, NEW d, d = New(c),
               NEW S, S = {v \in cvotes' : v.pic = c.pic /\ v.comment = c.id}
        PROVE  d.up = Count(S, "UP") /\ d.down = Count(S, "DOWN")
    <3> DEFINE T == {v \in cvotes : v.pic = c.pic /\ v.comment = c.id}
    <3>1. c.up = Count(T, "UP") /\ c.down = Count(T, "DOWN")
      BY DEF Inv, CountsAgree, VotesCounted
    <3>2. IsFiniteSet(T) BY FS_Subset DEF Inv, Tables
    <3>3. CASE c.id = r.arg
      <4>1. S = T \cup {x} /\ x \notin T BY <1>5, <1>6, <1>7, <1>9, <2>2, <3>3
      <4>2. d.up = c.up + Up(r.dir) /\ d.down = c.down + Down(r.dir) BY <1>9, <2>2, <3>3
      <4> HIDE DEF T
      <4>3. Count(S, "UP") = Count(T, "UP") + (IF x.dir = "UP" THEN 1 ELSE 0)
        BY <3>2, <4>1, CountAdds
      <4>4. Count(S, "DOWN") = Count(T, "DOWN") + (IF x.dir = "DOWN" THEN 1 ELSE 0)
        BY <3>2, <4>1, CountAdds
      <4> QED BY <1>7, <3>1, <4>2, <4>3, <4>4 DEF Up, Down
    <3>4. CASE c.id # r.arg
      <4>1. S = T /\ d = c BY <1>5, <1>7, <1>9, <2>2, <3>4
      <4> QED BY <3>1, <4>1
    <3> QED BY <3>3, <3>4
  <2>3. ASSUME NEW d \in comments', NEW S, S = {v \in cvotes' : v.pic = d.pic /\ v.comment = d.id}
        PROVE  d.up = Count(S, "UP") /\ d.down = Count(S, "DOWN")
    <3>1. PICK c \in comments : d = New(c) BY <1>5
    <3>2. d.pic = c.pic /\ d.id = c.id BY <1>9, <3>1
    <3>3. S = {v \in cvotes' : v.pic = c.pic /\ v.comment = c.id} BY <2>3, <3>2
    <3> QED BY <2>2, <3>1, <3>3
  <2> QED BY <2>1, <2>3 DEF VotesCounted, Count
<1>14. VotesOnce'
  <2>1. \A v, w \in cvotes : v.comment = w.comment /\ v.user = w.user /\ v.user # Anon => v = w
    BY DEF Inv, CountsAgree, VotesOnce
  <2>2. \A v \in cvotes : v.comment = x.comment /\ v.user = x.user => x.user = Anon
    <3>1. \A v \in cvotes : v.comment = r.arg => v.pic = r.pic BY <1>3, <1>4
    <3> QED BY <1>6, <1>7, <3>1
  <2>3. \A v, w \in cvotes' : v.comment = w.comment /\ v.user = w.user /\ v.user # Anon => v = w
    BY <1>5, <2>1, <2>2
  <2> QED BY <1>5, <2>3 DEF Inv, CountsAgree, VotesOnce
<1>15. CommentsRooted'
  <2>1. \A c \in comments : /\ pics[c.pic].state \in {"live", "hard"}
                            /\ c.parent # NoParent =>
                                 \E d \in comments : d.id = c.parent /\ d.pic = c.pic /\ d # c
    BY DEF Inv, CountsAgree, CommentsRooted
  <2>2. \A c, d \in comments : d # c => New(d) # New(c) BY <1>4, <1>9
  <2>3. ASSUME NEW e \in comments'
        PROVE  /\ pics'[e.pic].state \in {"live", "hard"}
               /\ e.parent # NoParent =>
                    \E f \in comments' : f.id = e.parent /\ f.pic = e.pic /\ f # e
    <3>1. PICK c \in comments : e = New(c) BY <1>5
    <3>2. e.pic = c.pic /\ e.parent = c.parent BY <1>9, <3>1
    <3>3. ASSUME e.parent # NoParent
          PROVE \E f \in comments' : f.id = e.parent /\ f.pic = e.pic /\ f # e
      <4>1. PICK d \in comments : d.id = c.parent /\ d.pic = c.pic /\ d # c
        BY <2>1, <3>2, <3>3
      <4>2. /\ New(d) \in comments' /\ New(d).id = d.id /\ New(d).pic = d.pic
            /\ New(d) # New(c)
        BY <1>5, <1>9, <2>2, <4>1
      <4> QED BY <3>1, <3>2, <4>1, <4>2
    <3> QED BY <1>5, <2>1, <3>2, <3>3
  <2> QED BY <2>3 DEF CommentsRooted
<1>16. RepliesOnce'
  <2>1. CASE SiblingReply BY <2>1 DEF RepliesOnce
  <2>2. CASE ~SiblingReply
    <3>1. \A c, d \in comments : c.pic = d.pic /\ c.parent = d.parent /\ c.user = d.user
                                 /\ c.user # Anon => c = d
      BY <2>2 DEF Inv, CountsAgree, RepliesOnce
    <3> QED BY <1>5, <1>9, <3>1 DEF RepliesOnce
  <2> QED BY <2>1, <2>2
<1>17. EventsNumbered' BY <1>5 DEF Inv, CountsAgree, EventsNumbered, EventsAt
<1>18. CountsAgree' BY <1>13, <1>14, <1>15, <1>16, <1>17 DEF CountsAgree
<1> QED BY <1>10, <1>11, <1>12, <1>18 DEF Inv, Assumptions

-----------------------------------------------------------------------------
\* Steps of pictures.

\* A picture is uploaded, hard deleted or looked at: neither its counters of votes
\* nor the tables change.
LEMMA PicSteps ==
  ASSUME Inv, NEW p \in Pic, Upload(p) \/ HardDelete(p) \/ IncrementViewCount(p) PROVE Inv'
<1>1. UNCHANGED <<votes, comments, cvotes, events, usedIds, job>>
  BY DEF Upload, HardDelete, IncrementViewCount
<1>2. /\ pics \in [Pic -> [state : State, up : Nat, down : Nat, views : 0..MaxViews]]
      /\ MaxViews \in Nat
  BY DEF Inv, TypeInv, TypeOK, Assumptions, BoundAssumption
<1>3. /\ pics' \in [Pic -> [state : State, up : Nat, down : Nat, views : 0..MaxViews]]
      /\ \A q \in Pic :
           /\ pics'[q].up = pics[q].up /\ pics'[q].down = pics[q].down
           /\ pics[q].state \in {"live", "hard"} => pics'[q].state \in {"live", "hard"}
           /\ pics'[q].state \in {"none", "purged"} => pics'[q].state = pics[q].state
  <2>1. CASE Upload(p) BY <1>2, <2>1 DEF Upload, State
  <2>2. CASE HardDelete(p) BY <1>2, <2>2 DEF HardDelete, State
  <2>3. CASE IncrementViewCount(p)
    <3>1. PICK n \in 0..MaxViews : n = pics[p].views + 1
      BY <1>2, <2>3 DEF IncrementViewCount
    <3>2. pics' = [pics EXCEPT ![p].views = n] BY <2>3, <3>1 DEF IncrementViewCount
    <3> QED BY <1>2, <3>1, <3>2
  <2> QED BY <2>1, <2>2, <2>3
<1>4. TypeInv' BY <1>1, <1>3 DEF Inv, TypeInv, TypeOK, Running
<1>5. Tables' BY <1>1 DEF Inv, Tables, VotesOf, CommentVotesBy, CommentVotesOf, EventsAt
<1>6. VotesCounted' BY <1>1, <1>3 DEF Inv, CountsAgree, VotesCounted
<1>7. CommentsRooted'
  <2>1. \A c \in comments : c.pic \in Pic BY DEF Inv, TypeInv, TypeOK, PicComment
  <2> QED BY <1>1, <1>3, <2>1 DEF Inv, CountsAgree, CommentsRooted
<1>8. CountsAgree'
  BY <1>1, <1>6, <1>7 DEF Inv, CountsAgree, VotesOnce, RepliesOnce, EventsNumbered, EventsAt
<1>9. \A t \in Task : PlanInv(t)' BY <1>1 DEF Inv, PlanInv, Running
<1> QED BY <1>4, <1>5, <1>8, <1>9 DEF Inv

\* A picture is purged with its votes and comments.
LEMMA PurgeSteps == ASSUME Inv, NEW p \in Pic, Purge(p) PROVE Inv'
<1>1. /\ UNCHANGED <<cvotes, events, usedIds, job>>
      /\ comments' = {c \in comments : c.pic # p}
      /\ votes' = {v \in votes : v.pic # p}
  BY DEF Purge, PurgedVotes
<1>2. /\ pics \in [Pic -> [state : State, up : Nat, down : Nat, views : 0..MaxViews]]
      /\ MaxViews \in Nat
  BY DEF Inv, TypeInv, TypeOK, Assumptions, BoundAssumption
<1>3. /\ pics' \in [Pic -> [state : State, up : Nat, down : Nat, views : 0..MaxViews]]
      /\ pics'[p].up = 0 /\ pics'[p].down = 0
      /\ \A q \in Pic : q # p => pics'[q] = pics[q]
  BY <1>2 DEF Purge, State
<1>4. TypeInv' BY <1>1, <1>3 DEF Inv, TypeInv, TypeOK, Running
<1>5. Tables'
  <2>1. IsFiniteSet(votes') BY <1>1, FS_Subset DEF Inv, Tables
  <2>2. ASSUME NEW q \in Pic PROVE Numbered(VotesOf(q, Anon)')
    <3>1. CASE q = p
      <4>1. VotesOf(q, Anon)' = {} BY <1>1, <3>1 DEF VotesOf
      <4> QED BY <4>1, NumberedEmpty
    <3>2. CASE q # p
      <4>1. VotesOf(q, Anon)' = VotesOf(q, Anon) BY <1>1, <3>2 DEF VotesOf
      <4> QED BY <4>1 DEF Inv, Tables
    <3> QED BY <3>1, <3>2
  <2>3. /\ \A q \in Pic, id \in CommentId : Numbered(CommentVotesBy(q, id, Anon)')
        /\ \A u \in User, now \in Time : Numbered(EventsAt(u, now)')
        /\ IsFiniteSet(cvotes')
    BY <1>1 DEF Inv, Tables, CommentVotesBy, CommentVotesOf, EventsAt
  <2>4. /\ \A c \in comments' : c.id \in usedIds'
        /\ \A c, d \in comments' : c.id = d.id => c = d
        /\ \A v \in cvotes' : /\ v.comment \in usedIds'
                              /\ \A c \in comments' : c.id = v.comment => c.pic = v.pic
    BY <1>1 DEF Inv, Tables
  <2> QED BY <2>1, <2>2, <2>3, <2>4 DEF Tables
<1>6. VotesCounted'
  <2>1. ASSUME NEW q \in Pic, NEW S, S = {v \in votes' : v.pic = q}
        PROVE  pics'[q].up = Count(S, "UP") /\ pics'[q].down = Count(S, "DOWN")
    <3>1. CASE q = p
      <4>1. {v \in S : v.dir = "UP"} = {} /\ {v \in S : v.dir = "DOWN"} = {}
        BY <1>1, <2>1, <3>1
      <4> QED BY <1>3, <3>1, <4>1, FS_EmptySet DEF Count
    <3>2. CASE q # p
      <4>1. S = {v \in votes : v.pic = q} BY <1>1, <2>1, <3>2
      <4> QED BY <1>3, <3>2, <4>1 DEF Inv, CountsAgree, VotesCounted
    <3> QED BY <3>1, <3>2
  <2>2. \A c \in comments' : LET S == {v \in cvotes' : v.pic = c.pic /\ v.comment = c.id} IN
          c.up = Count(S, "UP") /\ c.down = Count(S, "DOWN")
    BY <1>1 DEF Inv, CountsAgree, VotesCounted
  <2> QED BY <2>1, <2>2 DEF VotesCounted, Count
<1>7. CommentsRooted'
  <2>1. \A c \in comments : c.pic \in Pic BY DEF Inv, TypeInv, TypeOK, PicComment
  <2> QED BY <1>1, <1>3, <2>1 DEF Inv, CountsAgree, CommentsRooted
<1>8. CountsAgree'
  BY <1>1, <1>6, <1>7 DEF Inv, CountsAgree, VotesOnce, RepliesOnce, EventsNumbered, EventsAt
<1>9. \A t \in Task : PlanInv(t)' BY <1>1 DEF Inv, PlanInv, Running
<1> QED BY <1>4, <1>5, <1>8, <1>9 DEF Inv

-----------------------------------------------------------------------------
\* The theorems.

\* At the start there is nothing to count.
LEMMA InvInit == ASSUME Assumptions, Init PROVE Inv
<1>1. /\ pics = [p \in Pic |-> [state |-> "none", up |-> 0, down |-> 0, views |-> 0]]
      /\ votes = {} /\ comments = {} /\ cvotes = {} /\ events = {} /\ usedIds = {}
      /\ job = [t \in Task |-> None]
      /\ MaxViews \in Nat
  BY DEF Init, Assumptions, BoundAssumption
<1>2. TypeInv BY <1>1 DEF TypeInv, TypeOK, Running, State
<1>3. Tables
  <2>1. \A p \in Pic : VotesOf(p, Anon) = {} BY <1>1 DEF VotesOf
  <2>2. \A p \in Pic, id \in CommentId : CommentVotesBy(p, id, Anon) = {}
    BY <1>1 DEF CommentVotesBy, CommentVotesOf
  <2>3. \A u \in User, now \in Time : EventsAt(u, now) = {} BY <1>1 DEF EventsAt
  <2> QED BY <1>1, <2>1, <2>2, <2>3, NumberedEmpty, FS_EmptySet DEF Tables
<1>4. CountsAgree
  <2>1. ASSUME NEW p \in Pic, NEW S, S = {v \in votes : v.pic = p}
        PROVE  pics[p].up = Count(S, "UP") /\ pics[p].down = Count(S, "DOWN")
    <3>1. {v \in S : v.dir = "UP"} = {} /\ {v \in S : v.dir = "DOWN"} = {} BY <1>1, <2>1
    <3> QED BY <1>1, <3>1, FS_EmptySet DEF Count
  <2>2. VotesCounted BY <1>1, <2>1 DEF VotesCounted, Count
  <2>3. EventsNumbered BY <1>3 DEF Tables, Numbered, EventsNumbered
  <2> QED BY <1>1, <2>2, <2>3 DEF CountsAgree, VotesOnce, CommentsRooted, RepliesOnce
<1>5. \A t \in Task : PlanInv(t) BY <1>1 DEF PlanInv, Running
<1> QED BY <1>2, <1>3, <1>4, <1>5 DEF Inv

\* Inv is inductive.
LEMMA InvNext == ASSUME Inv, [Next]_vars PROVE Inv'
<1>1. ASSUME NEW t \in Task, NEW r \in Request, Begin(t, r) PROVE Inv' BY <1>1, PlanSteps
<1>2. ASSUME NEW t \in Task, Retry(t) PROVE Inv' BY <1>2, PlanSteps
<1>3. ASSUME NEW t \in Task, CommitPicVote(t) PROVE Inv' BY <1>3, PicVoteSteps
<1>4. ASSUME NEW t \in Task, CommitComment(t) PROVE Inv' BY <1>4, CommentSteps
<1>5. ASSUME NEW t \in Task, CommitCommentVote(t) PROVE Inv' BY <1>5, CommentVoteSteps
<1>6. ASSUME NEW p \in Pic, Upload(p) \/ HardDelete(p) \/ IncrementViewCount(p) PROVE Inv'
  BY <1>6, PicSteps
<1>7. ASSUME NEW p \in Pic, Purge(p) PROVE Inv' BY <1>7, PurgeSteps
<1>8. CASE UNCHANGED vars
  BY <1>8 DEF vars, Inv, TypeInv, TypeOK, Running, Tables, VotesOf, CommentVotesBy,
              CommentVotesOf, EventsAt, CountsAgree, VotesCounted, VotesOnce,
              CommentsRooted, RepliesOnce, EventsNumbered, PlanInv
<1> QED BY <1>1, <1>2, <1>3, <1>4, <1>5, <1>6, <1>7, <1>8 DEF Next

\* So Inv always holds.
LEMMA Invariant == Assumptions /\ Spec => []Inv
<1>1. Assumptions /\ Init => Inv BY InvInit
<1>2. Inv /\ [Next]_vars => Inv' BY InvNext
<1> QED BY <1>1, <1>2, PTL DEF Spec

\* Rows and what tasks have planned keep their types.
THEOREM TypeCorrect == Assumptions /\ Spec => []TypeOK
<1>1. Inv => TypeOK BY DEF Inv, TypeInv
<1> QED BY <1>1, Invariant, PTL

\* Votes are counted exactly, users vote and reply once, comments are trees and
\* events are numbered without gaps (AddPicVoteTask, AddPicCommentTask,
\* AddPicCommentVoteTask, PurgePicTask), however many tasks run at once.
THEOREM CountsStayRight == Assumptions /\ Spec => []CountsAgree
<1>1. Inv => CountsAgree BY DEF Inv
<1> QED BY <1>1, Invariant, PTL

\* A step that leaves p and what is said of it alone.
PicKept(p) ==
  /\ pics'[p] = pics[p]
  /\ {v \in votes' : v.pic = p} = {v \in votes : v.pic = p}
  /\ {c \in comments' : c.pic = p} = CommentsOf(p)
  /\ {v \in cvotes' : v.pic = p} = {v \in cvotes : v.pic = p}

\* Nothing about a hard deleted picture changes but by a purge: a task that was
\* under way when it went cannot commit (docs/deletion.md).
THEOREM HardDeletedStays == Assumptions /\ Spec => [][HardDeletedKept]_vars
<1>1. ASSUME Inv, [Next]_vars, NEW p \in Pic,
             pics[p].state = "hard", pics'[p].state = "hard"
      PROVE  PicKept(p)
  <2> USE <1>1
  <2>1. pics \in [Pic -> [state : State, up : Nat, down : Nat, views : 0..MaxViews]]
    BY DEF Inv, TypeInv, TypeOK
  <2>2. ASSUME NEW t \in Task, Running(t), Serializable(t), NEW r, r = job[t].r
        PROVE  r.pic # p
    BY <2>2, CommitFacts
  <2>3. ASSUME UNCHANGED <<pics, votes, comments, cvotes>> PROVE PicKept(p)
    BY <2>3 DEF CommentsOf, PicKept
  <2>4. ASSUME NEW t \in Task, CommitPicVote(t) PROVE PicKept(p)
    <3>1. PICK r : r = job[t].r OBVIOUS
    <3>2. r.pic # p BY <2>2, <2>4, <3>1 DEF CommitPicVote, Commits
    <3>3. PICK x : x.pic = r.pic /\ votes' = votes \cup {x} BY <2>4, <3>1 DEF CommitPicVote
    <3>4. pics'[p] = pics[p] BY <2>1, <2>4, <3>1, <3>2 DEF CommitPicVote
    <3>5. UNCHANGED <<comments, cvotes>> BY <2>4 DEF CommitPicVote
    <3> QED BY <3>2, <3>3, <3>4, <3>5 DEF CommentsOf, PicKept
  <2>5. ASSUME NEW t \in Task, CommitComment(t) PROVE PicKept(p)
    <3>1. PICK r : r = job[t].r OBVIOUS
    <3>2. r.pic # p BY <2>2, <2>5, <3>1 DEF CommitComment, Commits
    <3>3. PICK x : x.pic = r.pic /\ comments' = comments \cup {x}
      BY <2>5, <3>1 DEF CommitComment
    <3>4. UNCHANGED <<pics, votes, cvotes>> BY <2>5 DEF CommitComment
    <3> QED BY <3>2, <3>3, <3>4 DEF CommentsOf, PicKept
  <2>6. ASSUME NEW t \in Task, CommitCommentVote(t) PROVE PicKept(p)
    <3>1. PICK r : r = job[t].r OBVIOUS
    <3>2. r.pic # p BY <2>2, <2>6, <3>1 DEF CommitCommentVote, Commits
    <3>3. PICK x : x.pic = r.pic /\ cvotes' = cvotes \cup {x}
      BY <2>6, <3>1 DEF CommitCommentVote
    <3> DEFINE Voted(c) == [c EXCEPT !.up = @ + Up(r.dir), !.down = @ + Down(r.dir)]
    <3>4. comments' = {IF c.pic = r.pic /\ c.id = r.arg THEN Voted(c) ELSE c : c \in comments}
      BY <2>6, <3>1 DEF CommitCommentVote
    <3>5. \A c \in comments : c \in PicComment /\ Voted(c).pic = c.pic
      BY DEF Inv, TypeInv, TypeOK, PicComment
    <3> HIDE DEF Voted
    <3>6. {c \in comments' : c.pic = p} = CommentsOf(p) BY <3>2, <3>4, <3>5 DEF CommentsOf
    <3>7. UNCHANGED <<pics, votes>> BY <2>6 DEF CommitCommentVote
    <3> QED BY <3>2, <3>3, <3>6, <3>7 DEF PicKept
  <2>7. ASSUME NEW q \in Pic, Upload(q) \/ HardDelete(q) \/ IncrementViewCount(q) PROVE PicKept(p)
    <3>1. pics'[p] = pics[p]
      BY <2>1, <2>7 DEF Upload, HardDelete, IncrementViewCount
    <3>2. UNCHANGED <<votes, comments, cvotes>>
      BY <2>7 DEF Upload, HardDelete, IncrementViewCount
    <3> QED BY <3>1, <3>2 DEF CommentsOf, PicKept
  <2>8. ASSUME NEW q \in Pic, Purge(q) PROVE PicKept(p)
    <3>1. q # p BY <2>1, <2>8 DEF Purge
    <3>2. /\ pics'[p] = pics[p] /\ UNCHANGED cvotes
          /\ comments' = {c \in comments : c.pic # q} /\ votes' = {v \in votes : v.pic # q}
      BY <2>1, <2>8, <3>1 DEF Purge, PurgedVotes
    <3> QED BY <3>1, <3>2 DEF CommentsOf, PicKept
  <2>9. ASSUME (\E t \in Task, r \in Request : Begin(t, r)) \/ (\E t \in Task : Retry(t))
               \/ UNCHANGED vars
        PROVE  UNCHANGED <<pics, votes, comments, cvotes>>
    BY <2>9 DEF Begin, Retry, vars
  <2> QED BY <2>3, <2>4, <2>5, <2>6, <2>7, <2>8, <2>9 DEF Next
<1>2. Inv /\ [Next]_vars => [HardDeletedKept]_vars BY <1>1 DEF HardDeletedKept, PicKept
<1> QED BY <1>2, Invariant, PTL DEF Spec

-----------------------------------------------------------------------------
(***************************************************************************)
(* What uploads say about a picture (PicMerge), for any sets of uploads,   *)
(* users, contents and URLs, and any number of pictures.                   *)
(*                                                                         *)
(* The ids of pictures grow and are not used again, an event is made with  *)
(* the source it is about, and a row, its hash and the answers that name   *)
(* it change together.  So whatever is said of an upload's picture stays   *)
(* true, until the picture is purged.                                      *)
(***************************************************************************)
CONSTANTS Client, Anonymous, Content, Url, Web, ExtKey, Name, Inputs, MaxPics, MaxUploads, Bad
VARIABLES mergePics, idents, mergeEvents, up, count

Said == INSTANCE PicMerge WITH pics <- mergePics, events <- mergeEvents

MergeAssumptions == Said!InputAssumption /\ Said!WebAssumption /\ Said!BoundAssumption /\ Said!NoneAssumption

PicRow == [content : Content, del : Said!Deletion, sources : Seq(Said!Source),
           ext : UNION {[S -> 1..MaxUploads] : S \in SUBSET ExtKey}]

\* Sources that no upload may add to twice, and an event for each of their users.
SourceRow(s) ==
  \A m, n \in DOMAIN s : m # n =>
    s[m].url # s[n].url /\ (s[m].user = Anonymous \/ s[m].user # s[n].user)
ToldIn(k, s, all) ==
  /\ \A e \in all : e.pic = k => e.user # Anonymous /\ \E n \in DOMAIN s : s[n].user = e.user
  /\ \A n \in DOMAIN s : s[n].user = Anonymous \/ \E e \in all : e.pic = k /\ e.user = s[n].user
  /\ \A e, f \in all : e.pic = k /\ f.pic = k /\ e.user = f.user => e = f

Table ==
  /\ count \in 0..MaxUploads /\ mergePics \in Seq({Said!NoPic} \cup PicRow) /\ Len(mergePics) <= MaxPics
  /\ \A e \in mergeEvents : e.user \in User /\ e.pic \in DOMAIN mergePics
  /\ \A k \in Said!Pics : LET s == mergePics[k].sources IN
       s # <<>> /\ SourceRow(s) /\ ToldIn(k, s, mergeEvents)

Hashes ==
  /\ idents \in [Content -> 0..Len(mergePics)]
  /\ \A k \in Said!Pics : idents[mergePics[k].content] = k
  /\ \A c \in Content : idents[c] # 0 => mergePics[idents[c]] # Said!NoPic /\ mergePics[idents[c]].content = c

UpRow == [pc : {"idle", "run", "done"}, in : Inputs \cup {None}, off : {0}, res : 0..MaxPics]

UploadOK(q) ==
  /\ q.pc # "idle" => q.in \in Inputs /\ count > 0
  /\ q.pc = "done" /\ q.res # 0 =>
       /\ q.res \in DOMAIN mergePics
       /\ mergePics[q.res] # Said!NoPic => /\ mergePics[q.res].content = Said!Sent(q.in)
                                 /\ q.in.md5 \in {None, Said!Sent(q.in)}
Uploads ==
  /\ up \in [Client -> UpRow]
  /\ \A r \in Client : UploadOK(up[r])

MergeInv == MergeAssumptions /\ Table /\ Hashes /\ Uploads

\* What is no picture has no sources.
LEMMA RowsArePics ==
  ASSUME MergeInv
  PROVE  /\ \A k \in Said!Pics : k \in DOMAIN mergePics /\ mergePics[k] \in PicRow
         /\ \A k \in DOMAIN mergePics : k \in Said!Pics \/ mergePics[k] = Said!NoPic
         /\ \A p \in PicRow : p # Said!NoPic
<1>1. \A p \in PicRow : p # Said!NoPic
  BY DEF MergeInv, MergeAssumptions, Said!NoneAssumption, PicRow, Said!NoPic
<1> QED BY <1>1 DEF Said!Pics, MergeInv, Table

LEMMA PicRows ==
  ASSUME NEW p \in PicRow
  PROVE  /\ p.content \in Content /\ p.del \in Said!Deletion /\ p.sources \in Seq(Said!Source)
         /\ DOMAIN p.ext \subseteq ExtKey /\ \A e \in DOMAIN p.ext : p.ext[e] \in 1..MaxUploads
         /\ p.ext = [e \in DOMAIN p.ext |-> p.ext[e]]
<1>1. PICK S \in SUBSET ExtKey : p.ext \in [S -> 1..MaxUploads] BY DEF PicRow
<1> QED BY <1>1 DEF PicRow

LEMMA FileSources ==
  ASSUME NEW i \in Inputs, Said!InputAssumption, Said!UrlsOK(i)
  PROVE  Said!FileSource(i) \in Said!Source
<1>1. i \in Said!Input BY DEF Said!InputAssumption
<1>2. i.url # Bad /\ i.url \in [url : Url, frag : BOOLEAN] \cup {None}
  BY <1>1 DEF Said!Input, Said!RawUrl, Said!UrlsOK
<1>3. Said!Loc(i) \in Url \cup {None} BY <1>2 DEF Said!Loc
<1>4. Said!Ref(i) \in [url : Url, frag : BOOLEAN] \cup {None}
  BY <1>1 DEF Said!Input, Said!RawUrl, Said!UrlsOK, Said!Ref
<1>5. Said!FileName(i) \in Name \cup {None}
  <2> DEFINE names == Said!Names(i)
             FirstValid(k) == names[k] \in Name /\ \A j \in 1..(k - 1) : names[j] \notin Name
  <2>1. CASE \E k \in DOMAIN names : FirstValid(k)
    <3> DEFINE k0 == CHOOSE k \in DOMAIN names : FirstValid(k)
    <3>1. FirstValid(k0) BY <2>1
    <3>2. Said!FileName(i) = names[k0] BY <2>1 DEF Said!FileName
    <3> QED BY <3>1, <3>2
  <2>2. CASE ~ \E k \in DOMAIN names : FirstValid(k)
    <3>1. Said!FileName(i) = None BY <2>2 DEF Said!FileName
    <3> QED BY <3>1
  <2> QED BY <2>1, <2>2
<1>6. i.user \in User \cup {Anonymous} BY <1>1 DEF Said!Input
<1> QED BY <1>3, <1>4, <1>5, <1>6 DEF Said!FileSource, Said!Source

-----------------------------------------------------------------------------
\* mergePic.

Added(p, i) == IF Said!Known(p.sources, Said!FileSource(i)) THEN p.sources
               ELSE Append(p.sources, Said!FileSource(i))
ToldAfter(id, p, i) == mergeEvents \cup Said!EventsOf(id, i, Said!Known(p.sources, Said!FileSource(i)))
MergedRow(p, i, tag) ==
  [p EXCEPT !.del = Said!Undeleted(@),
            !.sources = Added(p, i),
            !.ext = [e \in i.ext \cup DOMAIN @ |-> IF e \in i.ext THEN tag ELSE @[e]]]

AddedGood(id, p, i) ==
  /\ Added(p, i) \in Seq(Said!Source) /\ Added(p, i) # <<>> /\ SourceRow(Added(p, i))
  /\ ToldIn(id, Added(p, i), ToldAfter(id, p, i))
  /\ \A k, s : k # id /\ ToldIn(k, s, mergeEvents) => ToldIn(k, s, ToldAfter(id, p, i))
  /\ \A e \in ToldAfter(id, p, i) : e \in mergeEvents \/ (e.user \in User /\ e.pic = id)
  /\ Len(p.sources) <= Len(Added(p, i))
  /\ \A n \in DOMAIN p.sources : Added(p, i)[n] = p.sources[n]

\* A source is added only if it has another URL than all others, and another user
\* unless it has none; then this user is told, and was not before.
LEMMA AddedOK ==
  ASSUME MergeInv, NEW id, NEW p \in PicRow, NEW i \in Inputs, Said!UrlsOK(i),
         SourceRow(p.sources), ToldIn(id, p.sources, mergeEvents)
  PROVE  AddedGood(id, p, i)
<1> DEFINE s == p.sources
           pfs == Said!FileSource(i)
<1>1. s \in Seq(Said!Source) /\ pfs \in Said!Source
  BY PicRows, FileSources DEF MergeInv, MergeAssumptions
<1>2. pfs.user = i.user BY DEF Said!FileSource
<1>3. i.user \in User \cup {Anonymous}
  BY DEF MergeInv, MergeAssumptions, Said!InputAssumption, Said!Input
<1>4. CASE Said!Known(s, pfs)
  <2>1. Added(p, i) = s /\ ToldAfter(id, p, i) = mergeEvents
    BY <1>4 DEF Added, ToldAfter, Said!EventsOf
  <2>2. s # <<>> BY <1>4 DEF Said!Known
  <2> QED BY <1>1, <2>1, <2>2 DEF AddedGood
<1>5. CASE ~Said!Known(s, pfs)
  <2>1. PICK a : a = Append(s, pfs) OBVIOUS
  <2>2. /\ Added(p, i) = a /\ a \in Seq(Said!Source) /\ a # <<>> /\ Len(a) = Len(s) + 1
        /\ DOMAIN a = 1..(Len(s) + 1) /\ DOMAIN s = 1..Len(s) /\ Len(s) \in Nat
        /\ a[Len(s) + 1] = pfs /\ \A n \in DOMAIN s : a[n] = s[n]
    BY <1>1, <1>5, <2>1 DEF Added
  <2>3. \A n \in DOMAIN s : s[n].url # pfs.url /\ (s[n].user = Anonymous \/ s[n].user # pfs.user)
    BY <1>5 DEF Said!Known
  <2>4. SourceRow(a)
    <3> SUFFICES ASSUME NEW m \in DOMAIN a, NEW n \in DOMAIN a, m # n
                 PROVE  a[m].url # a[n].url /\ (a[m].user = Anonymous \/ a[m].user # a[n].user)
      BY DEF SourceRow
    <3>1. CASE m \in DOMAIN s /\ n \in DOMAIN s
      <4>1. s[m].url # s[n].url /\ (s[m].user = Anonymous \/ s[m].user # s[n].user)
        BY <3>1 DEF SourceRow
      <4> QED BY <2>2, <3>1, <4>1
    <3>2. CASE m = Len(s) + 1 /\ n \in DOMAIN s
      <4>1. a[m] = pfs /\ a[n] = s[n] BY <2>2, <3>2
      <4> QED BY <2>3, <3>2, <4>1
    <3>3. CASE n = Len(s) + 1 /\ m \in DOMAIN s
      <4>1. a[n] = pfs /\ a[m] = s[m] BY <2>2, <3>3
      <4> QED BY <2>3, <3>3, <4>1
    <3> QED BY <2>2, <3>1, <3>2, <3>3
  <2>5. PICK all : all = ToldAfter(id, p, i) OBVIOUS
  <2>6. CASE i.user = Anonymous
    <3>1. all = mergeEvents BY <2>5, <2>6 DEF ToldAfter, Said!EventsOf
    <3>2. ToldIn(id, a, mergeEvents)
      <4>1. \A n \in DOMAIN a : n \in DOMAIN s \/ a[n].user = Anonymous BY <1>2, <2>2, <2>6
      <4> QED BY <2>2, <4>1 DEF ToldIn
    <3> QED BY <2>2, <2>4, <2>5, <3>1, <3>2 DEF AddedGood
  <2>7. CASE i.user # Anonymous
    <3>1. PICK v : v.user = i.user /\ v.pic = id /\ all = mergeEvents \cup {v}
      <4> DEFINE v == [user |-> i.user, pic |-> id, n |-> Said!Cardinality(mergeEvents)]
      <4>1. v.user = i.user /\ v.pic = id OBVIOUS
      <4>2. all = mergeEvents \cup {v} BY <1>5, <2>5, <2>7 DEF ToldAfter, Said!EventsOf
      <4> HIDE DEF v
      <4> QED BY <4>1, <4>2
    <3>2. \A e \in mergeEvents : e.pic = id => e.user # i.user
      BY <1>2, <2>3, <2>7 DEF ToldIn
    <3>3. ToldIn(id, a, all)
      <4>1. \A e \in all : e.pic = id => e.user # Anonymous /\ \E n \in DOMAIN a : a[n].user = e.user
        <5>1. CASE TRUE
          <6> SUFFICES ASSUME NEW e \in all, e.pic = id
                       PROVE  e.user # Anonymous /\ \E n \in DOMAIN a : a[n].user = e.user
            OBVIOUS
          <6>1. CASE e \in mergeEvents
            <7>1. e.user # Anonymous /\ \E n \in DOMAIN s : s[n].user = e.user
              BY <6>1 DEF ToldIn
            <7> QED BY <2>2, <7>1
          <6>2. CASE e = v
            <7>1. Len(s) + 1 \in DOMAIN a /\ a[Len(s) + 1].user = e.user
              BY <1>2, <2>2, <3>1, <6>2
            <7> QED BY <2>7, <3>1, <6>2, <7>1
          <6> QED BY <3>1, <6>1, <6>2
        <5> QED BY <5>1
      <4>2. \A n \in DOMAIN a : a[n].user = Anonymous \/ \E e \in all : e.pic = id /\ e.user = a[n].user
        <5> SUFFICES ASSUME NEW n \in DOMAIN a, a[n].user # Anonymous
                     PROVE  \E e \in all : e.pic = id /\ e.user = a[n].user
          OBVIOUS
        <5>1. CASE n \in DOMAIN s
          <6>1. \E e \in mergeEvents : e.pic = id /\ e.user = s[n].user
            BY <2>2, <5>1 DEF ToldIn
          <6> QED BY <2>2, <3>1, <5>1, <6>1
        <5>2. CASE n = Len(s) + 1 BY <1>2, <2>2, <3>1, <5>2
        <5> QED BY <2>2, <5>1, <5>2
      <4>3. \A e, f \in all : e.pic = id /\ f.pic = id /\ e.user = f.user => e = f
        <5>1. \A e, f \in mergeEvents : e.pic = id /\ f.pic = id /\ e.user = f.user => e = f
          BY DEF ToldIn
        <5> QED BY <3>1, <3>2, <5>1
      <4> QED BY <4>1, <4>2, <4>3 DEF ToldIn
    <3>4. ASSUME NEW k, NEW t, k # id, ToldIn(k, t, mergeEvents) PROVE ToldIn(k, t, all)
      BY <3>1, <3>4 DEF ToldIn
    <3>5. i.user \in User BY <1>3, <2>7
    <3>6. \A e \in all : e \in mergeEvents \/ (e.user \in User /\ e.pic = id) BY <3>1, <3>5
    <3>7. \A k, t : k # id /\ ToldIn(k, t, mergeEvents) => ToldIn(k, t, all) BY <3>4
    <3> HIDE DEF s, pfs
    <3> QED BY <2>2, <2>4, <2>5, <3>3, <3>6, <3>7 DEF s, AddedGood
  <2> QED BY <2>6, <2>7
<1> QED BY <1>4, <1>5

\* A new picture.
NewPic(c) == [content |-> c, del |-> "live", sources |-> <<>>, ext |-> <<>>]

LEMMA NewPicOK ==
  ASSUME MergeInv, NEW c \in Content
  PROVE  /\ NewPic(c) \in PicRow /\ NewPic(c).content = c /\ SourceRow(NewPic(c).sources)
         /\ ToldIn(Len(mergePics) + 1, NewPic(c).sources, mergeEvents)
<1>1. <<>> \in [{} -> 1..MaxUploads]
  <2>1. DOMAIN <<>> = {} OBVIOUS
  <2>2. <<>> = [e \in {} |-> 1] OBVIOUS
  <2> QED BY <2>2
<1>2. <<>> \in UNION {[S -> 1..MaxUploads] : S \in SUBSET ExtKey} BY <1>1
<1>3. <<>> \in Seq(Said!Source) OBVIOUS
<1>4. NewPic(c) \in PicRow BY <1>2, <1>3 DEF NewPic, PicRow, Said!Deletion
<1>5. \A e \in mergeEvents : e.pic # Len(mergePics) + 1
  <2>1. Len(mergePics) \in Nat /\ DOMAIN mergePics = 1..Len(mergePics)
    BY DEF MergeInv, Table
  <2> QED BY <2>1 DEF MergeInv, Table
<1>6. NewPic(c).sources = <<>> BY DEF NewPic
<1>7. SourceRow(<<>>) BY DEF SourceRow
<1>8. ToldIn(Len(mergePics) + 1, <<>>, mergeEvents) BY <1>5 DEF ToldIn
<1> QED BY <1>4, <1>6, <1>7, <1>8 DEF NewPic

\* The row that mergePic makes.
MergedOK(p, i, q) ==
  /\ q \in PicRow /\ q.content = p.content /\ q.sources = Added(p, i)
  /\ q.del = Said!Undeleted(p.del)
  /\ DOMAIN q.ext = i.ext \cup DOMAIN p.ext
  /\ \A e \in DOMAIN p.ext : e \notin i.ext => q.ext[e] = p.ext[e]
LEMMA MergedRowOK ==
  ASSUME MergeInv, NEW id, NEW p \in PicRow, NEW i \in Inputs, Said!UrlsOK(i), count > 0,
         SourceRow(p.sources), ToldIn(id, p.sources, mergeEvents),
         NEW q, q = MergedRow(p, i, count)
  PROVE  MergedOK(p, i, q)
<1> DEFINE x == [e \in i.ext \cup DOMAIN p.ext |-> IF e \in i.ext THEN count ELSE p.ext[e]]
<1>1. q = [p EXCEPT !.del = Said!Undeleted(@), !.sources = Added(p, i), !.ext = x]
  BY DEF MergedRow
<1>2. p = [content |-> p.content, del |-> p.del, sources |-> p.sources, ext |-> p.ext]
  BY DEF PicRow
<1>3. q = [content |-> p.content, del |-> Said!Undeleted(p.del), sources |-> Added(p, i), ext |-> x]
  <2> HIDE DEF x
  <2> QED BY <1>1, <1>2
<1>4. Said!Undeleted(p.del) \in Said!Deletion BY PicRows DEF Said!Undeleted, Said!Deletion
<1>5. Added(p, i) \in Seq(Said!Source) BY AddedOK DEF AddedGood
<1>6. x \in UNION {[S -> 1..MaxUploads] : S \in SUBSET ExtKey}
  <2>1. i.ext \subseteq ExtKey
    BY DEF MergeInv, MergeAssumptions, Said!InputAssumption, Said!Input
  <2>2. count \in 1..MaxUploads BY DEF MergeInv, Table
  <2>3. x \in [i.ext \cup DOMAIN p.ext -> 1..MaxUploads] BY <2>2, PicRows
  <2>4. i.ext \cup DOMAIN p.ext \in SUBSET ExtKey BY <2>1, PicRows
  <2> HIDE DEF x
  <2> QED BY <2>3, <2>4
<1>7. DOMAIN x = i.ext \cup DOMAIN p.ext /\ \A e \in DOMAIN p.ext : e \notin i.ext => x[e] = p.ext[e]
  OBVIOUS
<1> HIDE DEF x
<1>8. q \in PicRow BY <1>3, <1>4, <1>5, <1>6, PicRows DEF PicRow
<1> QED BY <1>3, <1>7, <1>8 DEF MergedOK

\* The table after it.
LEMMA MergedTable ==
  ASSUME MergeInv, NEW id \in 1..MaxPics, id <= Len(mergePics) + 1, NEW p \in PicRow,
         NEW i \in Inputs, Said!UrlsOK(i), count > 0,
         SourceRow(p.sources), ToldIn(id, p.sources, mergeEvents), Said!mergePic(id, p, i, count)
  PROVE  /\ mergePics' \in Seq({Said!NoPic} \cup PicRow) /\ Len(mergePics') <= MaxPics
         /\ DOMAIN mergePics' = DOMAIN mergePics \cup {id} /\ Len(mergePics') >= Len(mergePics)
         /\ mergePics'[id] = MergedRow(p, i, count) /\ mergePics'[id] \in PicRow
         /\ \A k \in DOMAIN mergePics : k # id => mergePics'[k] = mergePics[k]
         /\ mergeEvents' = ToldAfter(id, p, i)
<1>1. mergeEvents' = ToldAfter(id, p, i) BY DEF Said!mergePic, ToldAfter
<1>2. PICK q : q = MergedRow(p, i, count) OBVIOUS
<1>3. q \in PicRow BY <1>2, MergedRowOK DEF MergedOK
<1>4. /\ mergePics \in Seq({Said!NoPic} \cup PicRow) /\ Len(mergePics) \in Nat /\ DOMAIN mergePics = 1..Len(mergePics)
      /\ Len(mergePics) <= MaxPics /\ MaxPics \in Nat
      /\ \A k \in DOMAIN mergePics : mergePics[k] \in {Said!NoPic} \cup PicRow
  BY DEF MergeInv, MergeAssumptions, Said!BoundAssumption, Table
<1>5. PICK n : n = IF id > Len(mergePics) THEN id ELSE Len(mergePics) OBVIOUS
<1>6. mergePics' = [k \in 1..n |-> IF k # id THEN mergePics[k] ELSE q]
  BY <1>2, <1>5 DEF Said!mergePic, MergedRow, Added
<1>7. n \in Nat /\ n <= MaxPics /\ n >= Len(mergePics) /\ 1..n = DOMAIN mergePics \cup {id}
  <2>1. CASE id > Len(mergePics)
    <3>1. n = Len(mergePics) + 1 /\ id = n BY <1>4, <1>5, <2>1
    <3> QED BY <1>4, <3>1
  <2>2. CASE ~(id > Len(mergePics))
    <3>1. n = Len(mergePics) /\ id \in 1..n BY <1>4, <1>5, <2>2
    <3> QED BY <1>4, <3>1
  <2> QED BY <2>1, <2>2
<1>8. \A k \in 1..n : mergePics'[k] \in {Said!NoPic} \cup PicRow
  <2>1. \A k \in 1..n : k # id => k \in DOMAIN mergePics BY <1>7
  <2>2. \A k \in 1..n : mergePics'[k] = IF k # id THEN mergePics[k] ELSE q BY <1>6
  <2>3. \A k \in DOMAIN mergePics : mergePics[k] \in {Said!NoPic} \cup PicRow BY <1>4
  <2> HIDE DEF PicRow, Said!NoPic
  <2> QED BY <1>3, <2>1, <2>2, <2>3
<1>9. mergePics' \in [1..n -> {Said!NoPic} \cup PicRow] BY <1>6, <1>8
<1>10. mergePics' \in Seq({Said!NoPic} \cup PicRow) /\ Len(mergePics') = n /\ DOMAIN mergePics' = 1..n
  BY <1>7, <1>9
<1> QED BY <1>1, <1>2, <1>3, <1>4, <1>6, <1>7, <1>10

\* An upload that ends keeps what it sent.
Ended(q, id) == [q EXCEPT !.pc = "done", !.res = id]
LEMMA EndedRow ==
  ASSUME NEW q \in UpRow, NEW id \in 0..MaxPics
  PROVE  /\ Ended(q, id) \in UpRow /\ Ended(q, id).in = q.in /\ Ended(q, id).pc = "done"
         /\ Ended(q, id).res = id
BY DEF UpRow, Ended

\* A picture that is in the table, or the next one, is merged with an upload.
LEMMA MergeKeeps ==
  ASSUME MergeInv, NEW r \in Client, Said!Running(r), Said!Valid(r), NEW id \in 1..MaxPics, id <= Len(mergePics) + 1,
         NEW p \in PicRow, p.content = Said!File(r),
         \/ id \in Said!Pics /\ p = mergePics[id] /\ UNCHANGED idents
         \/ /\ id = Len(mergePics) + 1 /\ p = NewPic(Said!File(r)) /\ idents[Said!File(r)] = 0
            /\ Said!insertPicHashes(Said!File(r), id),
         Said!mergePic(id, p, up[r].in, count), Said!Ends(r, id), UNCHANGED count
  PROVE  MergeInv'
<1> DEFINE i == up[r].in
           c == Said!File(r)
<1>1. /\ up[r].off = 0 /\ i \in Inputs /\ count > 0 /\ Said!UrlsOK(i) /\ c \in Content
      /\ i.md5 \in {None, c}
  BY DEF MergeInv, Uploads, UploadOK, UpRow, Said!Running, Said!Valid
<1>2. c = Said!Sent(i) BY <1>1 DEF Said!File, Said!LocalFile, Said!Sent
<1>3. SourceRow(p.sources) /\ ToldIn(id, p.sources, mergeEvents)
  BY <1>1, NewPicOK DEF MergeInv, Table
<1>4. /\ mergePics' \in Seq({Said!NoPic} \cup PicRow) /\ Len(mergePics') <= MaxPics
      /\ DOMAIN mergePics' = DOMAIN mergePics \cup {id} /\ Len(mergePics') >= Len(mergePics)
      /\ mergePics'[id] = MergedRow(p, i, count) /\ mergePics'[id] \in PicRow
      /\ \A k \in DOMAIN mergePics : k # id => mergePics'[k] = mergePics[k]
      /\ mergeEvents' = ToldAfter(id, p, i)
  BY <1>1, <1>3, MergedTable
<1>5. PICK q : q = MergedRow(p, i, count) OBVIOUS
<1>6. q \in PicRow /\ q.content = c /\ q.sources = Added(p, i)
  BY <1>1, <1>3, <1>5, MergedRowOK DEF MergedOK
<1>7. Len(mergePics) \in Nat /\ DOMAIN mergePics = 1..Len(mergePics) BY DEF MergeInv, Table
<1>8. PICK ps, es, is, us : ps = mergePics' /\ es = mergeEvents' /\ is = idents' /\ us = up' OBVIOUS
<1>9. /\ Added(p, i) # <<>> /\ SourceRow(Added(p, i)) /\ ToldIn(id, Added(p, i), es)
      /\ \A k, s : k # id /\ ToldIn(k, s, mergeEvents) => ToldIn(k, s, es)
      /\ \A e \in es : e \in mergeEvents \/ (e.user \in User /\ e.pic = id)
  <2>1. /\ Added(p, i) # <<>> /\ SourceRow(Added(p, i)) /\ ToldIn(id, Added(p, i), ToldAfter(id, p, i))
        /\ \A k, s : k # id /\ ToldIn(k, s, mergeEvents) => ToldIn(k, s, ToldAfter(id, p, i))
        /\ \A e \in ToldAfter(id, p, i) : e \in mergeEvents \/ (e.user \in User /\ e.pic = id)
    <3> HIDE DEF i
    <3>1. AddedGood(id, p, i) BY <1>1, <1>3, AddedOK
    <3> QED BY <3>1 DEF AddedGood
  <2>2. es = ToldAfter(id, p, i) BY <1>4, <1>8
  <2> QED BY <2>1, <2>2
<1>10. /\ \A k \in Said!Pics : k \in DOMAIN mergePics /\ mergePics[k] \in PicRow
       /\ \A k \in DOMAIN mergePics : k \in Said!Pics \/ mergePics[k] = Said!NoPic
       /\ \A x \in PicRow : x # Said!NoPic
  BY RowsArePics
<1>11. Said!Pics' = Said!Pics \cup {id}
  <2>1. Said!Pics' = {k \in DOMAIN ps : ps[k] # Said!NoPic} BY <1>8 DEF Said!Pics
  <2> QED BY <1>4, <1>8, <1>10, <2>1 DEF Said!Pics
<1>12. Table'
  <2>1. \A k \in Said!Pics \cup {id} : ps[k].sources # <<>> /\ SourceRow(ps[k].sources) /\ ToldIn(k, ps[k].sources, es)
    <3>1. ps[id].sources = Added(p, i) BY <1>4, <1>5, <1>6, <1>8
    <3>2. \A k \in Said!Pics : k # id => ps[k] = mergePics[k] BY <1>4, <1>8, <1>10
    <3> QED BY <1>9, <3>1, <3>2 DEF MergeInv, Table
  <2>2. \A e \in es : e.user \in User /\ e.pic \in DOMAIN ps
    BY <1>4, <1>8, <1>9 DEF MergeInv, Table
  <2>3. \A k : \A s : ToldIn(k, s, es)' <=> ToldIn(k, s, es) BY DEF ToldIn
  <2> QED BY <1>4, <1>8, <1>11, <2>1, <2>2, <2>3 DEF MergeInv, Table
<1>13. is \in [Content -> 0..Len(ps)] /\ is[c] = id /\ \A d \in Content : d # c => is[d] = idents[d]
  <2>1. idents \in [Content -> 0..Len(mergePics)] BY DEF MergeInv, Hashes
  <2>2. Len(ps) \in Nat /\ id <= Len(ps) BY <1>4, <1>8
  <2>3. CASE id \in Said!Pics /\ p = mergePics[id] /\ UNCHANGED idents
    <3>1. idents[c] = id BY <2>3 DEF MergeInv, Hashes
    <3> QED BY <1>4, <1>7, <1>8, <2>1, <2>2, <2>3, <3>1
  <2>4. CASE Said!insertPicHashes(c, id)
    <3>1. is = [idents EXCEPT ![c] = id] BY <1>8, <2>4 DEF Said!insertPicHashes
    <3> QED BY <1>1, <1>4, <1>7, <1>8, <2>1, <2>2, <3>1
  <2> QED BY <2>3, <2>4
<1>14. Hashes'
  <2>1. \A k \in Said!Pics : k # id => mergePics[k].content # c
    <3>1. \A k \in Said!Pics : idents[mergePics[k].content] = k BY DEF MergeInv, Hashes
    <3>2. idents[c] \in {0, id} BY <3>1
    <3>3. \A k \in Said!Pics : k # 0 BY <1>7, <1>10
    <3> QED BY <3>1, <3>2, <3>3
  <2>2. \A k \in Said!Pics \cup {id} : is[ps[k].content] = k
    <3>1. ps[id].content = c BY <1>4, <1>5, <1>6, <1>8
    <3>2. \A k \in Said!Pics : k # id => ps[k] = mergePics[k] /\ mergePics[k].content \in Content /\ idents[mergePics[k].content] = k
      BY <1>4, <1>8, <1>10, PicRows DEF MergeInv, Hashes
    <3> QED BY <1>13, <2>1, <3>1, <3>2
  <2>3. \A d \in Content : is[d] # 0 => ps[is[d]] # Said!NoPic /\ ps[is[d]].content = d
    <3> SUFFICES ASSUME NEW d \in Content, is[d] # 0 PROVE ps[is[d]] # Said!NoPic /\ ps[is[d]].content = d
      OBVIOUS
    <3>1. CASE d = c BY <1>4, <1>5, <1>6, <1>8, <1>10, <1>13, <3>1
    <3>2. CASE d # c
      <4>1. PICK k : k = idents[d] OBVIOUS
      <4>2. is[d] = k /\ k # 0 /\ mergePics[k] # Said!NoPic /\ mergePics[k].content = d
        BY <1>13, <3>2, <4>1 DEF MergeInv, Hashes
      <4>3. k \in DOMAIN mergePics BY <1>7, <4>1, <4>2 DEF MergeInv, Hashes
      <4>4. k # id
        <5>1. k \in Said!Pics BY <4>2, <4>3 DEF Said!Pics
        <5>2. id \in Said!Pics => p = mergePics[id] BY <1>7, <1>10
        <5> QED BY <1>7, <3>2, <4>2, <4>3, <5>2
      <4> QED BY <1>4, <1>8, <4>2, <4>3, <4>4
    <3> QED BY <3>1, <3>2
  <2> QED BY <1>8, <1>11, <1>13, <2>2, <2>3 DEF Hashes
<1>15. Uploads'
  <2>1. us = [up EXCEPT ![r].pc = "done", ![r].res = id] BY <1>8 DEF Said!Ends
  <2>2. up \in [Client -> UpRow]
    BY DEF MergeInv, Uploads
  <2>3. /\ us \in [Client -> UpRow]
        /\ us[r].in = i /\ us[r].res = id /\ \A s \in Client : s # r => us[s] = up[s]
    <3> DEFINE q0 == up[r]
    <3>1. q0 \in UpRow BY <2>2
    <3>2. us = [up EXCEPT ![r] = Ended(q0, id)] BY <2>1, <2>2 DEF Ended
    <3>3. id \in 0..MaxPics OBVIOUS
    <3> HIDE DEF q0
    <3> QED BY <2>2, <3>1, <3>2, <3>3, EndedRow DEF q0
  <2>4. \A s \in Client : UploadOK(us[s])'
    <3> SUFFICES ASSUME NEW s \in Client PROVE UploadOK(us[s])'
      OBVIOUS
    <3>1. PICK t : t = us[s] OBVIOUS
    <3>2. t.pc # "idle" => t.in \in Inputs /\ count > 0
      <4>1. CASE s = r BY <1>1, <2>3, <3>1, <4>1
      <4>2. CASE s # r BY <2>3, <3>1, <4>2 DEF MergeInv, Uploads, UploadOK
      <4> QED BY <4>1, <4>2
    <3>3. ASSUME t.pc = "done", t.res # 0
          PROVE  /\ t.res \in DOMAIN ps
                 /\ ps[t.res] # Said!NoPic => ps[t.res].content = Said!Sent(t.in) /\ t.in.md5 \in {None, Said!Sent(t.in)}
      <4>1. CASE s = r BY <1>1, <1>2, <1>4, <1>5, <1>6, <1>8, <2>3, <3>1, <4>1
      <4>2. CASE s # r
        <5>1. /\ t.res \in DOMAIN mergePics
              /\ mergePics[t.res] # Said!NoPic => mergePics[t.res].content = Said!Sent(t.in) /\ t.in.md5 \in {None, Said!Sent(t.in)}
          BY <2>3, <3>1, <3>3, <4>2 DEF MergeInv, Uploads, UploadOK
        <5>2. CASE t.res = id
          <6>1. id \in Said!Pics /\ p = mergePics[id] BY <1>7, <5>1, <5>2
          <6>2. mergePics[id] # Said!NoPic /\ mergePics[id].content = c BY <1>10, <6>1
          <6> QED BY <1>4, <1>5, <1>6, <1>8, <5>1, <5>2, <6>2
        <5>3. CASE t.res # id BY <1>4, <1>8, <5>1, <5>3
        <5> QED BY <5>2, <5>3
      <4> QED BY <4>1, <4>2
    <3>4. UploadOK(t)' BY <1>8, <3>2, <3>3 DEF UploadOK, Said!Sent, Said!Loc
    <3>5. us[s]' = us[s] OBVIOUS
    <3> QED BY <3>1, <3>4
  <2> QED BY <1>8, <2>3, <2>4 DEF Uploads
<1> QED
  BY <1>12, <1>14, <1>15
     DEF MergeInv, MergeAssumptions, Said!InputAssumption, Said!WebAssumption,
                                  Said!BoundAssumption, Said!NoneAssumption

-----------------------------------------------------------------------------
\* The other steps.

\* What concerns an upload only.
LEMMA UploadKeeps ==
  ASSUME MergeInv, NEW r \in Client, UNCHANGED <<mergePics, idents, mergeEvents>>,
         count' \in {count, count + 1}, count' \in 0..MaxUploads,
         NEW q \in UpRow,
         up' = [up EXCEPT ![r] = q],
         q.pc # "idle" => q.in \in Inputs /\ count' > 0,
         q.pc = "done" => q.res = 0
  PROVE  MergeInv'
<1>1. Said!Pics' = Said!Pics BY DEF Said!Pics
<1>2. Table' /\ Hashes'
  <2>1. \A k, s : ToldIn(k, s, mergeEvents)' <=> ToldIn(k, s, mergeEvents) BY DEF ToldIn
  <2>2. \A k \in Said!Pics : ToldIn(k, mergePics[k].sources, mergeEvents)'
    BY <2>1 DEF MergeInv, Table
  <2> QED BY <1>1, <2>2 DEF MergeInv, Table, Hashes
<1>3. Uploads'
  <2>1. PICK us : us = up' OBVIOUS
  <2>2. up \in [Client -> UpRow]
    BY DEF MergeInv, Uploads
  <2>3. us = [up EXCEPT ![r] = q] BY <2>1
  <2>4. us \in [Client -> UpRow]
    BY <2>2, <2>3
  <2>5. ASSUME NEW s \in Client PROVE UploadOK(us[s])'
    <3>1. PICK t : t = us[s] OBVIOUS
    <3>2. CASE s = r
      <4>1. t = q BY <2>2, <2>3, <3>1, <3>2
      <4>2. UploadOK(t)' BY <4>1 DEF UploadOK
      <4> QED BY <3>1, <4>2
    <3>3. CASE s # r
      <4>1. t = up[s] BY <2>2, <2>3, <3>1, <3>3
      <4>2. UploadOK(t) BY <4>1 DEF MergeInv, Uploads
      <4>3. UploadOK(t)'
        <5>1. count > 0 => count' > 0 BY DEF MergeInv, Table
        <5> QED BY <4>2, <5>1 DEF UploadOK, Said!Sent, Said!Loc
      <4> QED BY <3>1, <4>3
    <3> QED BY <3>2, <3>3
  <2> QED BY <2>1, <2>4, <2>5 DEF Uploads
<1> QED
  BY <1>2, <1>3 DEF MergeInv, MergeAssumptions, Said!InputAssumption, Said!WebAssumption,
                          Said!BoundAssumption, Said!NoneAssumption

Resent(q) == [q EXCEPT !.pc = "run", !.off = 0, !.res = 0]
LEMMA ResentRow ==
  ASSUME NEW q \in UpRow, MaxPics \in Nat
  PROVE  Resent(q) \in UpRow /\ Resent(q).in = q.in /\ Resent(q).pc = "run"
<1>1. PICK f : f = [q EXCEPT !.pc = "run", !.off = 0] OBVIOUS
<1>2. f \in UpRow /\ f.in = q.in /\ f.pc = "run" BY <1>1 DEF UpRow
<1>3. Resent(q) = [f EXCEPT !.res = 0] BY <1>1 DEF Resent
<1> QED BY <1>2, <1>3 DEF UpRow

LEMMA SendKeeps == ASSUME MergeInv, NEW r \in Client, NEW i \in Inputs, Said!Send(r, i) PROVE MergeInv'
<1> DEFINE q == [pc |-> "run", in |-> i, off |-> 0, res |-> 0]
<1>1. count' = count + 1 /\ count' \in 0..MaxUploads /\ count' > 0
  BY DEF Said!Send, MergeInv, MergeAssumptions, Said!BoundAssumption, Table
<1>2. q \in UpRow
  BY DEF MergeInv, MergeAssumptions, Said!BoundAssumption, UpRow
<1>3. up' = [up EXCEPT ![r] = q] /\ UNCHANGED <<mergePics, idents, mergeEvents>>
  BY DEF Said!Send
<1>4. q.pc = "run" /\ q.in = i OBVIOUS
<1> HIDE DEF q
<1> QED BY <1>1, <1>2, <1>3, <1>4, UploadKeeps

LEMMA RunningRow ==
  ASSUME MergeInv, NEW r \in Client
  PROVE  /\ up[r] \in UpRow
         /\ up[r].pc # "idle" => up[r].in \in Inputs /\ count > 0
         /\ up = [s \in Client |-> up[s]] /\ count \in 0..MaxUploads /\ MaxPics \in Nat
         /\ MaxUploads \in Nat
BY DEF MergeInv, MergeAssumptions, Said!BoundAssumption, Table, Uploads, UploadOK

LEMMA RejectKeeps == ASSUME MergeInv, NEW r \in Client, Said!Reject(r) PROVE MergeInv'
<1>1. PICK q : q = Ended(up[r], 0) OBVIOUS
<1>2. /\ q \in UpRow
      /\ q.in = up[r].in /\ q.pc = "done" /\ q.res = 0
  <2>1. up[r] \in UpRow /\ 0 \in 0..MaxPics BY RunningRow
  <2> QED BY <1>1, <2>1, EndedRow
<1>3. up' = [up EXCEPT ![r] = q] BY <1>1, RunningRow DEF Said!Reject, Said!Ends, Ended
<1>4. q.in \in Inputs /\ count > 0 /\ UNCHANGED <<mergePics, idents, mergeEvents, count>>
  BY <1>2, RunningRow DEF Said!Reject, Said!Running
<1> QED BY <1>2, <1>3, <1>4, RunningRow, UploadKeeps

LEMMA RetryKeeps == ASSUME MergeInv, NEW r \in Client, Said!Retry(r) PROVE MergeInv'
<1>1. PICK q : q = up[r] OBVIOUS
<1>2. q \in UpRow
  BY <1>1, RunningRow
<1>3. [q EXCEPT !.off = q.off] = q BY <1>2 DEF UpRow
<1>4. up' = [up EXCEPT ![r] = q]
  BY <1>1, <1>3, RunningRow DEF Said!Retry, Said!OffsetAfterwards
<1>5. q.pc = "run" BY <1>1 DEF Said!Retry, Said!Running
<1>6. UNCHANGED <<mergePics, idents, mergeEvents, count>> BY DEF Said!Retry
<1> QED BY <1>1, <1>2, <1>4, <1>5, <1>6, RunningRow, UploadKeeps

LEMMA AnswerKeeps == ASSUME MergeInv, NEW r \in Client, Said!Answer(r) PROVE MergeInv'
<1>1. up[r].pc = "done" /\ UNCHANGED <<mergePics, idents, mergeEvents>> BY DEF Said!Answer
<1>2. CASE up' = [up EXCEPT ![r] = Said!Idle] /\ UNCHANGED count
  <2>1. /\ Said!Idle \in UpRow
        /\ Said!Idle.pc = "idle"
    BY RunningRow DEF Said!Idle, UpRow
  <2> QED BY <1>1, <1>2, <2>1, RunningRow, UploadKeeps
<1>3. CASE /\ count < MaxUploads /\ count' = count + 1
           /\ up' = [up EXCEPT ![r].pc = "run", ![r].off = 0, ![r].res = 0]
  <2>1. PICK q : q = Resent(up[r]) OBVIOUS
  <2>2. /\ q \in UpRow
        /\ q.in = up[r].in /\ q.pc = "run"
    BY <2>1, RunningRow, ResentRow
  <2>3. up' = [up EXCEPT ![r] = q] BY <1>3, <2>1, RunningRow DEF Resent
  <2>4. q.in \in Inputs BY <1>1, <2>2, RunningRow
  <2>5. count' \in {count, count + 1} /\ count' \in 0..MaxUploads /\ count' > 0
    BY <1>3, RunningRow
  <2> QED BY <1>1, <2>2, <2>3, <2>4, <2>5, UploadKeeps
<1> QED BY <1>2, <1>3 DEF Said!Answer

\* A picture is deleted, or its row goes.
LEMMA RowKeeps ==
  ASSUME MergeInv, NEW id \in Said!Pics, NEW row, mergePics' = [mergePics EXCEPT ![id] = row],
         UNCHANGED <<mergeEvents, up, count>>,
         \/ /\ row \in PicRow /\ row.content = mergePics[id].content /\ row.sources = mergePics[id].sources
            /\ UNCHANGED idents
         \/ row = Said!NoPic /\ idents' = [idents EXCEPT ![mergePics[id].content] = 0]
  PROVE  MergeInv'
<1>1. /\ mergePics \in Seq({Said!NoPic} \cup PicRow) /\ Len(mergePics) \in Nat /\ DOMAIN mergePics = 1..Len(mergePics)
      /\ \A k \in DOMAIN mergePics : mergePics[k] \in {Said!NoPic} \cup PicRow
  BY DEF MergeInv, Table
<1>2. /\ \A k \in Said!Pics : k \in DOMAIN mergePics /\ mergePics[k] \in PicRow
      /\ \A k \in DOMAIN mergePics : k \in Said!Pics \/ mergePics[k] = Said!NoPic
      /\ \A p \in PicRow : p # Said!NoPic
  BY RowsArePics
<1>3. PICK ps, is : ps = mergePics' /\ is = idents' OBVIOUS
<1>4. /\ DOMAIN ps = DOMAIN mergePics /\ ps[id] = row /\ \A k \in DOMAIN mergePics : k # id => ps[k] = mergePics[k]
  BY <1>1, <1>2, <1>3
<1>5. ps \in Seq({Said!NoPic} \cup PicRow) /\ Len(ps) = Len(mergePics)
  <2>1. row \in {Said!NoPic} \cup PicRow OBVIOUS
  <2>2. mergePics \in [1..Len(mergePics) -> {Said!NoPic} \cup PicRow] BY <1>1
  <2>3. ps \in [1..Len(mergePics) -> {Said!NoPic} \cup PicRow] BY <1>3, <2>1, <2>2
  <2> QED BY <1>1, <2>3
<1>6. /\ \A k \in Said!Pics' : k \in Said!Pics /\ ps[k] # Said!NoPic /\ ps[k].content = mergePics[k].content
                          /\ ps[k].sources = mergePics[k].sources
      /\ \A k \in Said!Pics : k # id \/ row # Said!NoPic => k \in Said!Pics'
  <2>1. Said!Pics' = {k \in DOMAIN ps : ps[k] # Said!NoPic} BY <1>3 DEF Said!Pics
  <2>2. CASE row = Said!NoPic BY <1>2, <1>4, <2>1, <2>2
  <2>3. CASE row \in PicRow /\ row.content = mergePics[id].content /\ row.sources = mergePics[id].sources
    BY <1>2, <1>4, <2>1, <2>3
  <2> QED BY <2>2, <2>3
<1>7. Table'
  <2>1. \A k, s : ToldIn(k, s, mergeEvents)' <=> ToldIn(k, s, mergeEvents) BY DEF ToldIn
  <2>2. \A k \in Said!Pics' : ps[k].sources # <<>> /\ SourceRow(ps[k].sources) /\ ToldIn(k, ps[k].sources, mergeEvents)'
    BY <1>6, <2>1 DEF MergeInv, Table
  <2> QED BY <1>3, <1>4, <1>5, <2>2 DEF MergeInv, Table
<1>8. Hashes'
  <2>1. idents \in [Content -> 0..Len(mergePics)] /\ \A k \in Said!Pics : idents[mergePics[k].content] = k
    BY DEF MergeInv, Hashes
  <2>2. \A k \in Said!Pics : mergePics[k].content \in Content BY <1>2, PicRows
  <2>3. ASSUME UNCHANGED idents, row \in PicRow, row.content = mergePics[id].content PROVE Hashes'
    <3>1. \A k \in Said!Pics' : is[ps[k].content] = k BY <1>3, <1>6, <2>1, <2>3
    <3>2. \A c \in Content : is[c] # 0 => ps[is[c]] # Said!NoPic /\ ps[is[c]].content = c
      <4> SUFFICES ASSUME NEW c \in Content, is[c] # 0 PROVE ps[is[c]] # Said!NoPic /\ ps[is[c]].content = c
        OBVIOUS
      <4>1. PICK k : k = idents[c] OBVIOUS
      <4>2. is[c] = k /\ k \in DOMAIN mergePics /\ mergePics[k] # Said!NoPic /\ mergePics[k].content = c
        BY <1>1, <1>3, <2>1, <2>3, <4>1 DEF MergeInv, Hashes
      <4> QED BY <1>2, <1>4, <2>3, <4>2
    <3> QED BY <1>3, <1>5, <2>1, <2>3, <3>1, <3>2 DEF Hashes
  <2>4. ASSUME row = Said!NoPic, idents' = [idents EXCEPT ![mergePics[id].content] = 0] PROVE Hashes'
    <3>1. is \in [Content -> 0..Len(mergePics)]
      <4>1. PICK c : c = mergePics[id].content OBVIOUS
      <4>2. is = [idents EXCEPT ![c] = 0] BY <1>3, <2>4, <4>1
      <4>3. 0 \in 0..Len(mergePics) BY <1>1
      <4> QED BY <2>1, <4>2, <4>3
    <3>2. \A c \in Content : is[c] = IF c = mergePics[id].content THEN 0 ELSE idents[c]
      BY <1>3, <2>1, <2>4
    <3>3. \A k \in Said!Pics' : is[ps[k].content] = k
      <4> SUFFICES ASSUME NEW k \in Said!Pics' PROVE is[ps[k].content] = k
        OBVIOUS
      <4>1. k # id BY <1>4, <1>6, <2>4
      <4>2. ps[k].content # mergePics[id].content BY <1>6, <2>1, <4>1
      <4> QED BY <1>6, <2>1, <2>2, <3>2, <4>2
    <3>4. \A c \in Content : is[c] # 0 => ps[is[c]] # Said!NoPic /\ ps[is[c]].content = c
      <4> SUFFICES ASSUME NEW c \in Content, is[c] # 0 PROVE ps[is[c]] # Said!NoPic /\ ps[is[c]].content = c
        OBVIOUS
      <4>1. PICK k : k = idents[c] OBVIOUS
      <4>2. c # mergePics[id].content /\ is[c] = k BY <3>2, <4>1
      <4>3. k \in DOMAIN mergePics /\ mergePics[k] # Said!NoPic /\ mergePics[k].content = c
        BY <1>1, <2>1, <4>1, <4>2 DEF MergeInv, Hashes
      <4> QED BY <1>4, <4>2, <4>3
    <3> QED BY <1>3, <1>5, <3>1, <3>3, <3>4 DEF Hashes
  <2> QED BY <2>3, <2>4
<1>9. Uploads'
  <2>1. ASSUME NEW r \in Client PROVE UploadOK(up[r])'
    <3>1. PICK q : q = up[r] OBVIOUS
    <3>2. UploadOK(q) BY <3>1 DEF MergeInv, Uploads
    <3>3. ASSUME q.pc = "done", q.res # 0
          PROVE  /\ q.res \in DOMAIN ps
                 /\ ps[q.res] # Said!NoPic => ps[q.res].content = Said!Sent(q.in) /\ q.in.md5 \in {None, Said!Sent(q.in)}
      <4>1. q.res \in DOMAIN mergePics BY <3>2, <3>3 DEF UploadOK
      <4>2. ps[q.res] # Said!NoPic => mergePics[q.res] # Said!NoPic /\ ps[q.res].content = mergePics[q.res].content
        BY <1>2, <1>4, <4>1
      <4> QED BY <1>4, <3>2, <3>3, <4>1, <4>2 DEF UploadOK
    <3>4. UploadOK(q)' BY <1>3, <3>2, <3>3 DEF UploadOK, Said!Sent, Said!Loc
    <3>5. q = up'[r] BY <3>1
    <3> QED BY <3>4, <3>5
  <2> QED BY <2>1 DEF MergeInv, Uploads
<1> QED
  BY <1>7, <1>8, <1>9
     DEF MergeInv, MergeAssumptions, Said!InputAssumption, Said!WebAssumption,
                                Said!BoundAssumption, Said!NoneAssumption

\* A row with another deletion.
LEMMA DeletedRow ==
  ASSUME NEW p \in PicRow, NEW d \in Said!Deletion, NEW q, q = [p EXCEPT !.del = d]
  PROVE  /\ q \in PicRow /\ q.content = p.content /\ q.sources = p.sources /\ q.ext = p.ext
         /\ q.del = d
<1> USE DEF PicRow
<1>1. PICK X : X = UNION {[S -> 1..MaxUploads] : S \in SUBSET ExtKey} OBVIOUS
<1> QED BY <1>1

LEMMA SetDelKeeps ==
  ASSUME MergeInv, NEW id \in Said!Pics, NEW d \in Said!Deletion, Said!SetDel(id, d) PROVE MergeInv'
<1>1. PICK q : q = [mergePics[id] EXCEPT !.del = d] OBVIOUS
<1>2. mergePics[id] \in PicRow BY RowsArePics
<1>3. q \in PicRow /\ q.content = mergePics[id].content /\ q.sources = mergePics[id].sources
  BY <1>1, <1>2, DeletedRow
<1>4. mergePics' = [mergePics EXCEPT ![id] = q] BY <1>1 DEF Said!SetDel
<1> QED BY <1>3, <1>4, RowKeeps DEF Said!SetDel

LEMMA CreateKeeps == ASSUME MergeInv, NEW r \in Client, Said!Create(r) PROVE MergeInv'
<1>1. PICK c, id : c = Said!File(r) /\ id = Len(mergePics) + 1 OBVIOUS
<1>2. c \in Content BY <1>1 DEF Said!Create, Said!Valid
<1>3. NewPic(c) \in PicRow /\ NewPic(c).content = c BY <1>2, NewPicOK
<1>4. id \in 1..MaxPics
  BY <1>1 DEF Said!Create, MergeInv, MergeAssumptions, Said!BoundAssumption, Table
<1>5. Said!mergePic(id, NewPic(c), up[r].in, count) BY <1>1 DEF Said!Create, NewPic
<1> QED BY <1>1, <1>3, <1>4, <1>5, MergeKeeps DEF Said!Create, Said!findExistingPic

LEMMA MergesOld ==
  ASSUME MergeInv, NEW r \in Client, Said!Merge(r)
  PROVE  \E id \in Said!Pics :
           /\ id \in 1..MaxPics /\ id <= Len(mergePics) /\ id = idents[Said!File(r)]
           /\ mergePics[id] \in PicRow /\ mergePics[id].content = Said!File(r)
           /\ Said!mergePic(id, mergePics[id], up[r].in, count) /\ Said!Ends(r, id)
           /\ mergePics[id].del # "hard" /\ Said!MayExtend(mergePics[id], up[r].in)
<1>1. PICK id : id = idents[Said!File(r)] OBVIOUS
<1>2. Said!File(r) \in Content /\ id # 0
  BY <1>1 DEF Said!Merge, Said!Valid, Said!findExistingPic
<1>3. id \in 0..Len(mergePics) /\ mergePics[id] # Said!NoPic /\ mergePics[id].content = Said!File(r)
  BY <1>1, <1>2 DEF MergeInv, Hashes
<1>4. Len(mergePics) \in Nat /\ DOMAIN mergePics = 1..Len(mergePics) /\ Len(mergePics) <= MaxPics /\ MaxPics \in Nat
  BY DEF MergeInv, MergeAssumptions, Said!BoundAssumption, Table
<1>5. id \in Said!Pics /\ id \in 1..MaxPics /\ id <= Len(mergePics)
  BY <1>2, <1>3, <1>4 DEF Said!Pics
<1> QED BY <1>1, <1>3, <1>5, RowsArePics DEF Said!Merge, Said!findExistingPic

LEMMA MergeInit == MergeAssumptions /\ Said!Init => MergeInv
<1> SUFFICES ASSUME MergeAssumptions, Said!Init PROVE MergeInv
  OBVIOUS
<1>1. mergePics = <<>> /\ mergeEvents = {} /\ count = 0 /\ Said!Pics = {}
  BY DEF Said!Init, Said!Pics
<1>2. Len(mergePics) = 0 /\ DOMAIN mergePics = {} BY <1>1
<1>3. Table BY <1>1, <1>2 DEF Table, MergeAssumptions, Said!BoundAssumption
<1>4. Hashes BY <1>1, <1>2 DEF Said!Init, Hashes
<1>5. Uploads
  BY DEF Said!Init, Said!Idle, Uploads, UploadOK, UpRow, MergeAssumptions,
      Said!BoundAssumption
<1> QED BY <1>3, <1>4, <1>5 DEF MergeInv

LEMMA MergeNext == MergeInv /\ [Said!Next]_(Said!vars) => MergeInv'
<1> SUFFICES ASSUME MergeInv, [Said!Next]_(Said!vars) PROVE MergeInv'
  OBVIOUS
<1>1. ASSUME NEW r \in Client, NEW i \in Inputs, Said!Send(r, i) PROVE MergeInv'
  BY <1>1, SendKeeps
<1>2. ASSUME NEW r \in Client, Said!Create(r) PROVE MergeInv' BY <1>2, CreateKeeps
<1>3. ASSUME NEW r \in Client, Said!Merge(r) PROVE MergeInv'
  <2>1. PICK id \in Said!Pics :
           /\ id \in 1..MaxPics /\ id <= Len(mergePics)
           /\ mergePics[id] \in PicRow /\ mergePics[id].content = Said!File(r)
           /\ Said!mergePic(id, mergePics[id], up[r].in, count) /\ Said!Ends(r, id)
    BY <1>3, MergesOld
  <2>2. id <= Len(mergePics) + 1 BY <2>1 DEF MergeInv, Table
  <2> QED BY <1>3, <2>1, <2>2, MergeKeeps DEF Said!Merge
<1>4. ASSUME NEW r \in Client, Said!Reject(r) \/ Said!Retry(r) \/ Said!Answer(r) PROVE MergeInv'
  BY <1>4, RejectKeeps, RetryKeeps, AnswerKeeps
<1>5. ASSUME NEW id \in Said!Pics, NEW b \in BOOLEAN, Said!SoftDelete(id, b) PROVE MergeInv'
  <2>1. \E d \in Said!Deletion : Said!SetDel(id, d)
    BY <1>5 DEF Said!SoftDelete, Said!Deletion
  <2> QED BY <2>1, SetDelKeeps
<1>6. ASSUME NEW id \in Said!Pics, Said!HardDelete(id) PROVE MergeInv'
  <2>1. \E d \in Said!Deletion : Said!SetDel(id, d)
    BY <1>6 DEF Said!HardDelete, Said!Deletion
  <2> QED BY <2>1, SetDelKeeps
<1>7. ASSUME NEW id \in Said!Pics, Said!Purge(id) PROVE MergeInv'
  BY <1>7, RowKeeps DEF Said!Purge
<1>8. ASSUME UNCHANGED Said!vars PROVE MergeInv'
  <2>1. Said!Pics' = Said!Pics BY <1>8 DEF Said!Pics, Said!vars
  <2>2. \A k, s : ToldIn(k, s, mergeEvents)' <=> ToldIn(k, s, mergeEvents)
    BY <1>8 DEF ToldIn, Said!vars
  <2>3. Table'
    <3>1. PICK ps : ps = mergePics OBVIOUS
    <3>2. \A k \in Said!Pics : ps[k].sources # <<>> /\ SourceRow(ps[k].sources) /\ ToldIn(k, ps[k].sources, mergeEvents)'
      BY <2>2, <3>1 DEF MergeInv, Table
    <3> QED BY <1>8, <2>1, <3>1, <3>2 DEF MergeInv, Table, Said!vars
  <2>4. ASSUME NEW r \in Client PROVE UploadOK(up[r])'
    <3>1. PICK q : q = up[r] OBVIOUS
    <3>2. UploadOK(q) BY <3>1 DEF MergeInv, Uploads
    <3>3. UploadOK(q)' BY <1>8, <3>2 DEF UploadOK, Said!Sent, Said!Loc, Said!vars
    <3> QED BY <1>8, <3>1, <3>3 DEF Said!vars
  <2> QED
    BY <1>8, <2>1, <2>3, <2>4 DEF MergeInv, Hashes, Uploads, Said!vars, MergeAssumptions,
          Said!InputAssumption, Said!WebAssumption, Said!BoundAssumption, Said!NoneAssumption
<1> QED BY <1>1, <1>2, <1>3, <1>4, <1>5, <1>6, <1>7, <1>8 DEF Said!Next

LEMMA MergeInductive == MergeAssumptions /\ Said!Spec => []MergeInv
BY MergeInit, MergeNext, PTL DEF Said!Spec

-----------------------------------------------------------------------------
\* Rows, hashes, events and uploads stay well formed.
THEOREM MergeTypes == MergeAssumptions /\ Said!Spec => []Said!TypeOK
<1>1. MergeInv => Said!TypeOK
  <2> SUFFICES ASSUME MergeInv PROVE Said!TypeOK
    OBVIOUS
  <2>1. ASSUME NEW k \in Said!Pics
        PROVE  /\ mergePics[k].content \in Content /\ mergePics[k].del \in Said!Deletion
               /\ mergePics[k].sources \in Seq(Said!Source)
               /\ DOMAIN mergePics[k].ext \subseteq ExtKey /\ Said!Range(mergePics[k].ext) \subseteq 1..MaxUploads
    <3>1. mergePics[k] \in PicRow BY RowsArePics
    <3> QED BY <3>1, PicRows DEF Said!Range
  <2>2. \A r \in Client : /\ up[r].pc \in {"idle", "run", "done"} /\ up[r].in \in Inputs \cup {None}
                          /\ up[r].off \in {0, 1} /\ up[r].res \in 0..MaxPics
    BY DEF MergeInv, Uploads, UpRow
  <2> QED BY <2>1, <2>2 DEF Said!TypeOK, MergeInv, Table, Hashes
<1> QED BY <1>1, MergeInductive, PTL

\* However uploads of a file follow one another or are sent twice: no two sources of a
\* picture have the same user or the same URL, and each user of a source has one event
\* for the picture (mergePic).
THEOREM SourcesStayRight == MergeAssumptions /\ Said!Spec => [](Said!SourcesDiffer /\ Said!EventsMatchSources)
<1>1. MergeInv => Said!SourcesDiffer BY DEF MergeInv, Table, SourceRow, Said!SourcesDiffer
<1>2. MergeInv => Said!EventsMatchSources
  <2> SUFFICES ASSUME MergeInv, NEW k \in Said!Pics
               PROVE  LET s == mergePics[k].sources
                          es == {e \in mergeEvents : e.pic = k}
                      IN  /\ {e.user : e \in es} = {s[n].user : n \in DOMAIN s} \ {Anonymous}
                          /\ \A e, f \in es : e.user = f.user => e = f
    BY DEF Said!EventsMatchSources
  <2>1. PICK s : s = mergePics[k].sources OBVIOUS
  <2>2. ToldIn(k, s, mergeEvents) BY <2>1 DEF MergeInv, Table
  <2>3. {e.user : e \in {e \in mergeEvents : e.pic = k}} = {s[n].user : n \in DOMAIN s} \ {Anonymous}
    BY <2>2 DEF ToldIn
  <2>4. \A e, f \in {e \in mergeEvents : e.pic = k} : e.user = f.user => e = f
    BY <2>2 DEF ToldIn
  <2> QED BY <2>1, <2>3, <2>4
<1> QED BY <1>1, <1>2, MergeInductive, PTL

\* All uploads of a file meet in one picture, and an upload's answer is the picture of
\* what it sent, or its URL serves, whatever was retried in between (findExistingPic,
\* insertPicHashes, prepareLocalFile).
THEOREM UploadsMeet == MergeAssumptions /\ Said!Spec => [](Said!OnePicPerContent /\ Said!UploadIsItsFile)
<1>1. MergeInv => Said!OnePicPerContent BY DEF MergeInv, Hashes, Said!OnePicPerContent
<1>2. MergeInv => Said!UploadIsItsFile
  BY DEF MergeInv, Uploads, UploadOK, Said!UploadIsItsFile
<1> QED BY <1>1, <1>2, MergeInductive, PTL

LEMMA PrefixFacts ==
  ASSUME NEW S, NEW s \in Seq(S), NEW t \in Seq(S), Len(s) <= Len(t),
         \A n \in DOMAIN s : t[n] = s[n]
  PROVE  Said!IsPrefix(s, t)
BY DEF Said!IsPrefix

\* What a step does to a row that stays.
RowStep(k) ==
  LET p == mergePics[k]
      q == mergePics'[k]
  IN  /\ p.sources \in Seq(Said!Source) /\ q.sources \in Seq(Said!Source)
      /\ Len(p.sources) <= Len(q.sources)
      /\ \A n \in DOMAIN p.sources : q.sources[n] = p.sources[n]
      /\ \A e \in DOMAIN p.ext : e \in DOMAIN q.ext /\ q.ext[e] = p.ext[e]
      /\ p.del = "hard" => q = p
      /\ p.del = "soft" => q.del # "live"

LEMMA RowSteps ==
  ASSUME MergeInv, [Said!Next]_(Said!vars), NEW k \in Said!Pics, mergePics'[k] # Said!NoPic
  PROVE  k \in DOMAIN mergePics' /\ RowStep(k)
<1>1. k \in DOMAIN mergePics /\ mergePics[k] \in PicRow BY RowsArePics
<1>2. mergePics[k].sources \in Seq(Said!Source) BY <1>1, PicRows
<1>3. CASE mergePics' = mergePics
  <2>1. mergePics'[k] = mergePics[k] BY <1>3
  <2>2. Len(mergePics[k].sources) \in Nat BY <1>2
  <2> QED BY <1>1, <1>2, <1>3, <2>1, <2>2 DEF RowStep
<1>4. ASSUME k \in DOMAIN mergePics', mergePics'[k] = mergePics[k] PROVE k \in DOMAIN mergePics' /\ RowStep(k)
  <2>1. Len(mergePics[k].sources) \in Nat BY <1>2
  <2> QED BY <1>2, <1>4, <2>1 DEF RowStep
<1>5. ASSUME NEW r \in Client, Said!Create(r) PROVE k \in DOMAIN mergePics' /\ RowStep(k)
  <2>1. PICK c, id : c = Said!File(r) /\ id = Len(mergePics) + 1 OBVIOUS
  <2>2. c \in Content /\ Said!UrlsOK(up[r].in) BY <1>5, <2>1 DEF Said!Create, Said!Valid
  <2>3. NewPic(c) \in PicRow /\ SourceRow(NewPic(c).sources) /\ ToldIn(id, NewPic(c).sources, mergeEvents)
    BY <2>1, <2>2, NewPicOK
  <2>4. id \in 1..MaxPics
    BY <1>5, <2>1 DEF Said!Create, MergeInv, MergeAssumptions, Said!BoundAssumption, Table
  <2>5. Said!mergePic(id, NewPic(c), up[r].in, count) BY <1>5, <2>1 DEF Said!Create, NewPic
  <2>6. up[r].in \in Inputs /\ count > 0 BY <1>5, RunningRow DEF Said!Create, Said!Running
  <2>7. k \in DOMAIN mergePics' /\ (k # id => mergePics'[k] = mergePics[k])
    <3>1. PICK p, i : p = NewPic(c) /\ i = up[r].in OBVIOUS
    <3>2. id <= Len(mergePics) + 1 BY <2>1 DEF MergeInv, Table
    <3>3. /\ DOMAIN mergePics' = DOMAIN mergePics \cup {id}
          /\ \A j \in DOMAIN mergePics : j # id => mergePics'[j] = mergePics[j]
      BY <2>2, <2>3, <2>4, <2>5, <2>6, <3>1, <3>2, MergedTable
    <3> QED BY <1>1, <3>3
  <2>8. k # id BY <1>1, <2>1 DEF MergeInv, Table
  <2> QED BY <1>4, <2>7, <2>8
<1>6. ASSUME NEW r \in Client, Said!Merge(r) PROVE k \in DOMAIN mergePics' /\ RowStep(k)
  <2>1. PICK id \in Said!Pics :
           /\ id \in 1..MaxPics /\ id <= Len(mergePics)
           /\ mergePics[id] \in PicRow /\ mergePics[id].content = Said!File(r)
           /\ Said!mergePic(id, mergePics[id], up[r].in, count)
           /\ mergePics[id].del # "hard" /\ Said!MayExtend(mergePics[id], up[r].in)
    BY <1>6, MergesOld
  <2>2. PICK p, i : p = mergePics[id] /\ i = up[r].in OBVIOUS
  <2>3. i \in Inputs /\ count > 0 /\ Said!UrlsOK(i)
    BY <1>6, <2>2, RunningRow DEF Said!Merge, Said!Running, Said!Valid
  <2>4. SourceRow(p.sources) /\ ToldIn(id, p.sources, mergeEvents)
    BY <2>1, <2>2 DEF MergeInv, Table
  <2>5. id <= Len(mergePics) + 1 BY <2>1 DEF MergeInv, Table
  <2>6. /\ DOMAIN mergePics' = DOMAIN mergePics \cup {id} /\ mergePics'[id] = MergedRow(p, i, count)
        /\ \A j \in DOMAIN mergePics : j # id => mergePics'[j] = mergePics[j]
    BY <2>1, <2>2, <2>3, <2>4, <2>5, MergedTable
  <2>7. CASE k # id BY <1>1, <1>4, <2>6, <2>7
  <2>8. CASE k = id
    <3>1. PICK q : q = MergedRow(p, i, count) OBVIOUS
    <3>2. /\ q.sources = Added(p, i) /\ q.del = Said!Undeleted(p.del)
          /\ DOMAIN q.ext = i.ext \cup DOMAIN p.ext
          /\ \A e \in DOMAIN p.ext : e \notin i.ext => q.ext[e] = p.ext[e]
      <4>1. p \in PicRow BY <2>1, <2>2
      <4>2. MergedOK(p, i, q) BY <2>3, <2>4, <3>1, <4>1, MergedRowOK
      <4> QED BY <4>2 DEF MergedOK
    <3>3. /\ Added(p, i) \in Seq(Said!Source) /\ Len(p.sources) <= Len(Added(p, i))
          /\ \A n \in DOMAIN p.sources : Added(p, i)[n] = p.sources[n]
      <4>1. p \in PicRow BY <2>1, <2>2
      <4>2. AddedGood(id, p, i) BY <2>3, <2>4, <4>1, AddedOK
      <4> QED BY <4>2 DEF AddedGood
    <3>4. i.ext \cap DOMAIN p.ext = {} BY <2>1, <2>2 DEF Said!MayExtend
    <3>5. p.del # "hard" /\ (p.del = "soft" => q.del # "live")
      BY <2>1, <2>2, <3>2 DEF Said!Undeleted
    <3>6. mergePics'[k] = q /\ p = mergePics[k] BY <2>2, <2>6, <2>8, <3>1
    <3> QED BY <1>1, <1>2, <2>6, <3>2, <3>3, <3>4, <3>5, <3>6 DEF RowStep
  <2> QED BY <2>7, <2>8
<1>7. ASSUME NEW id \in Said!Pics, NEW d \in Said!Deletion, d # "live", Said!SetDel(id, d), mergePics[id].del # "hard"
      PROVE  k \in DOMAIN mergePics' /\ RowStep(k)
  <2>1. CASE k # id BY <1>1, <1>4, <1>7, <2>1 DEF Said!SetDel
  <2>2. CASE k = id
    <3>1. PICK p, q : p = mergePics[k] /\ q = [p EXCEPT !.del = d] OBVIOUS
    <3>2. q.sources = p.sources /\ q.ext = p.ext /\ q.del = d BY <1>1, <3>1, DeletedRow
    <3>3. mergePics'[k] = q /\ k \in DOMAIN mergePics'
      BY <1>1, <1>7, <2>2, <3>1 DEF Said!SetDel
    <3>4. Len(p.sources) \in Nat BY <1>2, <3>1
    <3> QED BY <1>2, <1>7, <2>2, <3>1, <3>2, <3>3, <3>4 DEF RowStep
  <2> QED BY <2>1, <2>2
<1>8. ASSUME NEW id \in Said!Pics, Said!Purge(id) PROVE k \in DOMAIN mergePics' /\ RowStep(k)
  <2>1. k # id BY <1>1, <1>8 DEF Said!Purge
  <2> QED BY <1>1, <1>4, <1>8, <2>1 DEF Said!Purge
<1>9. ASSUME NEW id \in Said!Pics, NEW b \in BOOLEAN, Said!SoftDelete(id, b) PROVE k \in DOMAIN mergePics' /\ RowStep(k)
  <2>1. \E d \in Said!Deletion : d # "live" /\ Said!SetDel(id, d)
    BY <1>9 DEF Said!SoftDelete, Said!Deletion
  <2>2. mergePics[id].del # "hard" BY <1>9 DEF Said!SoftDelete
  <2> QED BY <1>7, <2>1, <2>2
<1>10. ASSUME NEW id \in Said!Pics, Said!HardDelete(id) PROVE k \in DOMAIN mergePics' /\ RowStep(k)
  <2>1. \E d \in Said!Deletion : d # "live" /\ Said!SetDel(id, d)
    BY <1>10 DEF Said!HardDelete, Said!Deletion
  <2>2. mergePics[id].del # "hard" BY <1>10 DEF Said!HardDelete
  <2> QED BY <1>7, <2>1, <2>2
<1>11. ASSUME NEW r \in Client, (\E i \in Inputs : Said!Send(r, i)) \/ Said!Reject(r) \/ Said!Retry(r) \/ Said!Answer(r)
       PROVE  mergePics' = mergePics
  BY <1>11 DEF Said!Send, Said!Reject, Said!Retry, Said!Answer
<1> QED BY <1>3, <1>5, <1>6, <1>8, <1>9, <1>10, <1>11 DEF Said!Next, Said!vars

\* No step replaces a source or the value of an extension, brings back a picture that is
\* deleted for good, or makes one live whose deletion is not temporary, but by a purge
\* (mergePic, SoftDeletePicTask, HardDeletePicTask).
THEOREM SaidStays == MergeAssumptions /\ Said!Spec => [][Said!NothingReplaced /\ Said!DeletionStays]_(Said!vars)
<1>1. ASSUME MergeInv, [Said!Next]_(Said!vars) PROVE Said!NothingReplaced /\ Said!DeletionStays
  <2>1. ASSUME NEW k \in Said!Pics, mergePics'[k] # Said!NoPic
        PROVE  /\ Said!IsPrefix(mergePics[k].sources, mergePics'[k].sources)
               /\ \A e \in DOMAIN mergePics[k].ext :
                    e \in DOMAIN mergePics'[k].ext /\ mergePics'[k].ext[e] = mergePics[k].ext[e]
               /\ mergePics[k].del = "hard" => mergePics'[k] = mergePics[k]
               /\ mergePics[k].del = "soft" => mergePics'[k].del # "live"
    <3>1. RowStep(k) BY <1>1, <2>1, RowSteps
    <3> QED BY <3>1, PrefixFacts DEF RowStep
  <2> QED BY <2>1 DEF Said!NothingReplaced, Said!DeletionStays
<1>2. MergeInv /\ [Said!Next]_(Said!vars) => [Said!NothingReplaced /\ Said!DeletionStays]_(Said!vars) BY <1>1
<1> QED BY <1>2, MergeInductive, PTL DEF Said!Spec

\* An upload fails only for what the client sent or for the picture that is there,
\* never for having been tried before (prepareLocalFile, TaskRunner).
THEOREM RetriesAreFresh == MergeAssumptions /\ Said!Spec => [][Said!RetriesChangeNothing]_(Said!vars)
<1>1. ASSUME MergeInv, [Said!Next]_(Said!vars) PROVE Said!RetriesChangeNothing
  <2> SUFFICES ASSUME NEW r \in Client, up[r].pc = "run", up'[r].pc = "done", up'[r].res = 0
               PROVE  LET i == up[r].in IN
                      \/ ~Said!UrlsOK(i) \/ i.name = Bad \/ i.md5 \notin {None, Said!Sent(i)}
                      \/ Said!Sent(i) \notin Content
                      \/ LET id == idents[Said!Sent(i)] IN
                         id # 0 /\ (mergePics[id].del = "hard" \/ i.ext \cap DOMAIN mergePics[id].ext # {})
    BY DEF Said!RetriesChangeNothing
  <2>1. up[r].off = 0 /\ up[r] \in UpRow /\ up = [s \in Client |-> up[s]] /\ MaxPics \in Nat
    BY <1>1, RunningRow DEF UpRow
  <2>2. Said!File(r) = Said!Sent(up[r].in) BY <2>1 DEF Said!File, Said!LocalFile, Said!Sent
  <2>3. CASE Said!Reject(r)
    BY <2>2, <2>3 DEF Said!Reject, Said!Valid, Said!findExistingPic, Said!MayExtend
  <2>4. ASSUME NEW s \in Client, NEW res, Said!Ends(s, res), res # 0 PROVE FALSE
    <3>1. up' = [up EXCEPT ![s] = Ended(up[s], res)] BY <2>1, <2>4 DEF Said!Ends, Ended
    <3>2. CASE s # r BY <2>1, <3>1, <3>2
    <3>3. CASE s = r
      <4>1. up'[r] = Ended(up[r], res) BY <2>1, <3>1, <3>3
      <4>2. Ended(up[r], res).res = res BY <2>1 DEF Ended, UpRow
      <4> QED BY <2>4, <4>1, <4>2
    <3> QED BY <3>2, <3>3
  <2>5. ASSUME NEW s \in Client, s # r, NEW q, up' = [up EXCEPT ![s] = q] PROVE FALSE
    BY <2>1, <2>5
  <2>6. ASSUME NEW s \in Client, Said!Create(s) PROVE FALSE
    <3>1. Len(mergePics) + 1 # 0 BY <1>1 DEF MergeInv, Table
    <3> QED BY <2>4, <2>6, <3>1 DEF Said!Create
  <2>7. ASSUME NEW s \in Client, Said!Merge(s) PROVE FALSE BY <2>4, <2>7 DEF Said!Merge
  <2>8. ASSUME NEW s \in Client, s # r, Said!Reject(s) PROVE FALSE
    <3>1. up' = [up EXCEPT ![s] = Ended(up[s], 0)]
      BY <2>1, <2>8 DEF Said!Reject, Said!Ends, Ended
    <3> QED BY <2>5, <2>8, <3>1
  <2>9. ASSUME NEW s \in Client, Said!Retry(s) PROVE FALSE
    <3>1. up' = [up EXCEPT ![s] = [up[s] EXCEPT !.off = up[s].off]]
      BY <2>1, <2>9 DEF Said!Retry, Said!OffsetAfterwards
    <3>2. CASE s # r BY <2>5, <3>1, <3>2
    <3>3. CASE s = r
      <4>1. up'[r].pc = up[r].pc BY <2>1, <3>1, <3>3 DEF UpRow
      <4> QED BY <4>1
    <3> QED BY <3>2, <3>3
  <2>10. ASSUME NEW s \in Client, (\E i \in Inputs : Said!Send(s, i)) \/ Said!Answer(s) PROVE FALSE
    <3>1. s # r BY <2>10 DEF Said!Send, Said!Answer
    <3>2. \E q : up' = [up EXCEPT ![s] = q]
      <4>1. CASE up' = [up EXCEPT ![s].pc = "run", ![s].off = 0, ![s].res = 0]
        <5>1. up' = [up EXCEPT ![s] = Resent(up[s])] BY <2>1, <4>1 DEF Resent
        <5> QED BY <5>1
      <4> QED BY <2>10, <4>1 DEF Said!Send, Said!Answer
    <3> QED BY <2>5, <3>1, <3>2
  <2>11. ASSUME UNCHANGED up PROVE FALSE BY <2>11
  <2> QED BY <1>1, <2>3, <2>6, <2>7, <2>8, <2>9, <2>10, <2>11
          DEF Said!Next, Said!vars, Said!SoftDelete, Said!HardDelete, Said!Purge,
              Said!SetDel
<1>2. MergeInv /\ [Said!Next]_(Said!vars) => [Said!RetriesChangeNothing]_(Said!vars) BY <1>1
<1> QED BY <1>2, MergeInductive, PTL DEF Said!Spec
=============================================================================
