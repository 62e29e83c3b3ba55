------------------------------ MODULE PicVotes ------------------------------
(***************************************************************************)
(* Votes, comments, votes on comments and the user events they cause:      *)
(* AddPicVoteTask, AddPicCommentTask, AddPicCommentVoteTask,               *)
(* IncrementViewCountTask, and what PurgePicTask removes of them.          *)
(*                                                                         *)
(* A task reads in one step and writes in another, its commit.  Jobs are   *)
(* serializable: when a row that a task has read, or the absence of one,   *)
(* is no longer what it was, its job fails and TaskRunner runs the task    *)
(* again.  A locked row makes others wait for it instead, which matters    *)
(* here only for the rows of user events.                                  *)
(***************************************************************************)
EXTENDS Integers, FiniteSets

CONSTANTS Task, Pic, User,
          Anon,        \* schema.AnonymousUserId
          Source,      \* Source[p]: the users in Pic.Source
          CommentId,   \* ids of comments (bound)
          Time,        \* what the clock may show
          SelfReply,   \* Configuration: EnablePicCommentSelfReply
          SiblingReply,\* Configuration: EnablePicCommentSiblingReply
          Ops,         \* the operations users ask for
          MaxIndex,    \* bound on the index of votes of the anonymous user
          MaxViews,    \* bound on the view count
          None

NoParent == 0 \* NoCommentParentId

\* Modules that instantiate this one assume these.
UserAssumption == Anon \in User /\ Source \in [Pic -> SUBSET User]
IdAssumption == CommentId \subseteq Nat \ {NoParent}
BoundAssumption == MaxIndex \in Nat /\ MaxViews \in Nat
ConfAssumption == /\ SelfReply \in BOOLEAN /\ SiblingReply \in BOOLEAN
                  /\ Ops \subseteq {"vote", "comment", "cvote"}

VARIABLES pics,     \* pics[p]: state and counters of a picture
          votes,    \* the PicVotes table
          comments, \* the PicComments table
          cvotes,   \* the PicCommentVotes table
          events,   \* the UserEvents table
          usedIds,  \* ids of comments that were given
          job

vars == <<pics, votes, comments, cvotes, events, usedIds, job>>

Dir == {"UP", "DOWN", "NEUTRAL"}
State == {"none", "live", "hard", "purged"}

PicVote == [pic : Pic, user : User, index : Nat, dir : Dir]
PicComment == [id : CommentId, pic : Pic, parent : Nat, user : User, up : Nat, down : Nat]
PicCommentVote == [pic : Pic, comment : CommentId, user : User, index : Nat, dir : Dir]
UserEvent == [user : User, created : Time, index : Nat, pic : Pic, way : {"out", "in"}]

\* What a user asks for; arg is the parent of a comment or the comment voted on.
Request == [op : Ops, pic : Pic, user : User, arg : CommentId \cup {NoParent},
            dir : Dir, now : Time]

Init == /\ pics = [p \in Pic |-> [state |-> "none", up |-> 0, down |-> 0, views |-> 0]]
        /\ votes = {} /\ comments = {} /\ cvotes = {} /\ events = {}
        /\ usedIds = {}
        /\ job = [t \in Task |-> None]

Running(t) == job[t] # None
CommentsOf(p) == {c \in comments : c.pic = p}
Comment(p, id) == {c \in CommentsOf(p) : c.id = id}

-----------------------------------------------------------------------------
\* Who is told: the user who acts, the author of the parent comment or else
\* the uploaders, each once and never the anonymous user.

Told(r) ==
  CASE r.op = "vote" -> IF r.dir = "NEUTRAL" THEN {} ELSE {r.user} \cup Source[r.pic]
    [] r.op = "comment" /\ r.arg = NoParent -> {r.user} \cup Source[r.pic]
    [] r.op = "comment" /\ r.arg # NoParent ->
         {r.user} \cup {c.user : c \in Comment(r.pic, r.arg)}
    [] r.op = "cvote" -> {}
Notified(r) == Told(r) \ {Anon}

EventsAt(u, now) == {e \in events : e.user = u /\ e.created = now}

nextUserEventIndex(u, now) ==
  1 + (CHOOSE b \in {-1} \cup {e.index : e \in EventsAt(u, now)} :
         \A e \in EventsAt(u, now) : e.index <= b)

\* The rows of these events are locked until the job ends, if there are any.
\* Other tasks wait for rows; there is nothing to wait for in an empty range.
EventsFree(t, u, now) ==
  \A o \in Task \ {t} :
    Running(o) /\ job[o].r.now = now /\ u \in Notified(job[o].r) => EventsAt(u, now) = {}

-----------------------------------------------------------------------------
\* What a task reads.

Reads(r) ==
  [pic      |-> pics[r.pic],
   votes    |-> {v \in votes : r.op = "vote" /\ v.pic = r.pic /\ v.user = r.user},
   comments |-> {c \in CommentsOf(r.pic) : \/ r.op # "vote" /\ c.id = r.arg
                                           \/ r.op = "comment" /\ ~SiblingReply},
   cvotes   |-> {v \in cvotes : r.op = "cvote" /\ v.pic = r.pic
                                /\ v.comment = r.arg /\ v.user = r.user},
   events   |-> UNION {EventsAt(u, r.now) : u \in Notified(r)}]

\* Broken: what was read may have changed.
SerializableNot(t) == TRUE
Serializable(t) == Reads(job[t].r) = job[t].seen

CommentVotable(r) ==
  /\ pics[r.pic].state = "live"
  /\ Comment(r.pic, r.arg) # {}
  /\ r.user = Anon \/ ~\E v \in cvotes : v.comment = r.arg /\ v.user = r.user

PicVotable(r) ==
  /\ pics[r.pic].state = "live"
  /\ r.user = Anon \/ ~\E v \in votes : v.pic = r.pic /\ v.user = r.user

Commentable(r) ==
  /\ pics[r.pic].state = "live"
  /\ r.arg # NoParent =>
       \E c \in Comment(r.pic, r.arg) : SelfReply \/ r.user = Anon \/ c.user # r.user
  /\ \/ SiblingReply \/ r.user = Anon
     \/ \A c \in CommentsOf(r.pic) : c.parent = r.arg => c.user # r.user

Allowed(r) == CASE r.op = "vote" -> PicVotable(r)
                [] r.op = "comment" -> Commentable(r)
                [] r.op = "cvote" -> CommentVotable(r)

\* index[u] is the index of the event u will get.
Plan(r) == [r |-> r, seen |-> Reads(r),
            index |-> [u \in Notified(r) |-> nextUserEventIndex(u, r.now)]]

Begin(t, r) ==
  /\ ~Running(t) /\ Allowed(r)
  /\ r.op = "comment" => r.dir = "NEUTRAL"
  /\ r.op = "vote" => r.arg = NoParent
  /\ \A u \in Notified(r) : EventsFree(t, u, r.now)
  /\ job' = [job EXCEPT ![t] = Plan(r)]
  /\ UNCHANGED <<pics, votes, comments, cvotes, events, usedIds>>

\* The job could not be serialized: the task starts again, or is now refused.
Retry(t) ==
  /\ Running(t) /\ ~Serializable(t)
  /\ \A u \in Notified(job[t].r) : EventsFree(t, u, job[t].r.now)
  /\ job' = [job EXCEPT ![t] = IF Allowed(job[t].r) THEN Plan(job[t].r) ELSE None]
  /\ UNCHANGED <<pics, votes, comments, cvotes, events, usedIds>>

-----------------------------------------------------------------------------
\* What a task writes.

\* Anonymous users may vote again and again; their votes differ by an index.
NextIndex(S) == 1 + (CHOOSE b \in {-1} \cup {v.index : v \in S} : \A v \in S : v.index <= b)

Up(d) == IF d = "UP" THEN 1 ELSE 0
Down(d) == IF d = "DOWN" THEN 1 ELSE 0

NewEvents(t) ==
  LET r == job[t].r IN
    {[user |-> u, created |-> r.now, index |-> job[t].index[u], pic |-> r.pic,
      way |-> IF u = r.user THEN "out" ELSE "in"] : u \in Notified(r)}

Commits(t, op) == Running(t) /\ job[t].r.op = op /\ Serializable(t)
Finish(t) == job' = [job EXCEPT ![t] = None]

CommitPicVote(t) ==
  LET r == job[t].r
      mine == {v \in votes : v.pic = r.pic /\ v.user = r.user}
      i == IF r.user = Anon THEN NextIndex(mine) ELSE 0
  IN /\ Commits(t, "vote") /\ i <= MaxIndex
     /\ votes' = votes \cup {[pic |-> r.pic, user |-> r.user, index |-> i, dir |-> r.dir]}
     /\ pics' = [pics EXCEPT ![r.pic].up = @ + Up(r.dir), ![r.pic].down = @ + Down(r.dir)]
     /\ events' = events \cup NewEvents(t)
     /\ Finish(t)
     /\ UNCHANGED <<comments, cvotes, usedIds>>

CommitComment(t) ==
  LET r == job[t].r IN
    /\ Commits(t, "comment")
    /\ \E id \in CommentId \ usedIds :
         /\ comments' = comments \cup {[id |-> id, pic |-> r.pic, parent |-> r.arg,
                                        user |-> r.user, up |-> 0, down |-> 0]}
         /\ usedIds' = usedIds \cup {id}
    /\ events' = events \cup NewEvents(t)
    /\ Finish(t)
    /\ UNCHANGED <<pics, votes, cvotes>>

CommitCommentVote(t) ==
  LET r == job[t].r
      mine == {v \in cvotes : v.pic = r.pic /\ v.comment = r.arg /\ v.user = r.user}
      i == IF r.user = Anon THEN NextIndex(mine) ELSE 0
  IN /\ Commits(t, "cvote") /\ i <= MaxIndex
     /\ cvotes' = cvotes \cup {[pic |-> r.pic, comment |-> r.arg, user |-> r.user,
                                index |-> i, dir |-> r.dir]}
     /\ comments' = {IF c.pic = r.pic /\ c.id = r.arg
                     THEN [c EXCEPT !.up = @ + Up(r.dir), !.down = @ + Down(r.dir)]
                     ELSE c : c \in comments}
     /\ Finish(t)
     /\ UNCHANGED <<pics, votes, events, usedIds>>

-----------------------------------------------------------------------------
\* Tasks that are one step here.

Upload(p) == /\ pics[p].state = "none"
             /\ pics' = [pics EXCEPT ![p].state = "live"]
             /\ UNCHANGED <<votes, comments, cvotes, events, usedIds, job>>

HardDelete(p) == /\ pics[p].state = "live"
                 /\ pics' = [pics EXCEPT ![p].state = "hard"]
                 /\ UNCHANGED <<votes, comments, cvotes, events, usedIds, job>>

IncrementViewCount(p) ==
  /\ pics[p].state = "live" /\ pics[p].views < MaxViews
  /\ pics' = [pics EXCEPT ![p].views = @ + 1]
  /\ UNCHANGED <<votes, comments, cvotes, events, usedIds, job>>

PurgedVotes(p) == {v \in votes : v.pic # p}

\* Comments and votes go; votes on comments and user events stay.
Purge(p) ==
  /\ pics[p].state \in {"live", "hard"}
  /\ pics' = [pics EXCEPT ![p] = [state |-> "purged", up |-> 0, down |-> 0, views |-> 0]]
  /\ comments' = {c \in comments : c.pic # p}
  /\ votes' = PurgedVotes(p)
  /\ UNCHANGED <<cvotes, events, usedIds, job>>

-----------------------------------------------------------------------------
Next == \/ \E t \in Task, r \in Request : Begin(t, r)
        \/ \E t \in Task : \/ Retry(t) \/ CommitPicVote(t) \/ CommitComment(t)
                           \/ CommitCommentVote(t)
        \/ \E p \in Pic : \/ Upload(p) \/ HardDelete(p) \/ Purge(p)
                          \/ IncrementViewCount(p)

Spec == Init /\ [][Next]_vars

-----------------------------------------------------------------------------
\* Properties.

TypeOK ==
  /\ pics \in [Pic -> [state : State, up : Nat, down : Nat, views : 0..MaxViews]]
  /\ votes \subseteq PicVote /\ comments \subseteq PicComment
  /\ cvotes \subseteq PicCommentVote /\ events \subseteq UserEvent
  /\ usedIds \subseteq CommentId
  /\ \A t \in Task : Running(t) =>
       job[t].r \in Request /\ \E S \in SUBSET User : job[t].index \in [S -> Nat]
  /\ \A p \in Pic : pics[p].state \in {"none", "purged"} =>
       ~\E v \in votes : v.pic = p

Count(S, d) == Cardinality({v \in S : v.dir = d})

\* VoteUp and VoteDown of a picture and of a comment are the numbers of such
\* votes there are, whatever votes come in at once.
VotesCounted ==
  /\ \A p \in Pic : LET S == {v \in votes : v.pic = p} IN
       pics[p].up = Count(S, "UP") /\ pics[p].down = Count(S, "DOWN")
  /\ \A c \in comments : LET S == {v \in cvotes : v.pic = c.pic /\ v.comment = c.id} IN
       c.up = Count(S, "UP") /\ c.down = Count(S, "DOWN")

\* A user who is not anonymous votes once on a picture and once on a comment.
VotesOnce ==
  /\ \A v, w \in votes : v.pic = w.pic /\ v.user = w.user /\ v.user # Anon => v = w
  /\ \A v, w \in cvotes : v.comment = w.comment /\ v.user = w.user /\ v.user # Anon => v = w

\* The parent of a comment is an earlier comment on the same picture: the
\* comments of a picture are trees.
CommentsRooted ==
  \A c \in comments : /\ pics[c.pic].state \in {"live", "hard"}
                      /\ c.parent # NoParent =>
                           \E d \in comments : d.id = c.parent /\ d.pic = c.pic /\ d # c

\* With sibling replies disabled, a user replies to a comment once.  Nothing is
\* locked for that: it rests on the isolation of the jobs.
RepliesOnce ==
  SiblingReply \/ \A c, d \in comments :
    c.pic = d.pic /\ c.parent = d.parent /\ c.user = d.user /\ c.user # Anon => c = d

\* The events of a user in one instant have the indexes 0, 1, 2 ...
EventsNumbered ==
  \A u \in User, now \in Time :
    {e.index : e \in EventsAt(u, now)} = 0..(Cardinality(EventsAt(u, now)) - 1)

\* Votes, comments, replies and events agree, whatever is under way at once.
CountsAgree ==
  VotesCounted /\ VotesOnce /\ CommentsRooted /\ RepliesOnce /\ EventsNumbered

\* docs/deletion.md: votes, comments and other metadata of a hard deleted
\* picture are preserved as they are, whatever was under way when it went.
\* (An action, as the next-state relation of the property.)
HardDeletedKept ==
  \A p \in Pic : pics[p].state = "hard" /\ pics'[p].state = "hard" =>
    /\ pics'[p] = pics[p]
    /\ {v \in votes' : v.pic = p} = {v \in votes : v.pic = p}
    /\ {c \in comments' : c.pic = p} = CommentsOf(p)
    /\ {v \in cvotes' : v.pic = p} = {v \in cvotes : v.pic = p}
==============================================================================
