------------------------------- MODULE Access -------------------------------
(***************************************************************************)
(* Read requests against capabilities that an administrator grants and     *)
(* takes away: LookupUser, LookupPicVote, FindPicCommentVotes, LookupPic,  *)
(* FindSchedPics, FindUserEvents and their filters.                        *)
(***************************************************************************)
EXTENDS Filters

CONSTANT User

UserAssumption == User \subseteq Nat \ {AnonymousUserId}

VARIABLES su,    \* the subject user's id, AnonymousUserId if there is none
          cs     \* the capabilities of requests

vars == <<su, cs>>

userCredOf == [subjectUserId |-> su, cs |-> cs]

Init == su \in User \cup {AnonymousUserId} /\ cs = {}

\* UpdateUserTask, or a new configuration, for anonymous requests.
Grant(c) == c \notin cs /\ cs' = cs \cup {c} /\ UNCHANGED su
Revoke(c) == c \in cs /\ cs' = cs \ {c} /\ UNCHANGED su

Next == \E c \in Capability : Grant(c) \/ Revoke(c)
Spec == Init /\ [][Next]_vars

-----------------------------------------------------------------------------
\* The requests.  An object user id of 0 means oneself.

validateCapability(want) == want \subseteq cs

deriveObjectUserId(id) == IF id # AnonymousUserId THEN id ELSE su
lookupObjectUser(id) == {u \in User : u = deriveObjectUserId(id)}

Parts(ou, publicOnly) ==
  IF "USER_READ_ALL" \in cs \/ (su = ou /\ "USER_READ_SELF" \in cs) THEN {"public", "private"}
  ELSE IF publicOnly /\ "USER_READ_PUBLIC" \in cs THEN {"public"}
  ELSE {}
\* What is returned of the user; nothing if the request is refused.
LookupUser(id, publicOnly) == UNION {Parts(ou, publicOnly) : ou \in lookupObjectUser(id)}

Needed(ou) == IF su = ou THEN "USER_READ_SELF" ELSE "USER_READ_ALL"

\* The vote of a user on a picture, as a list of at most one.
LookupPicVote(id, vote) ==
  IF \E ou \in lookupObjectUser(id) : validateCapability({Needed(ou)})
  THEN <<FilterInternal(userCredOf, "vote", vote)>> ELSE <<>>

FindPicCommentVotes(votes) == FilterVotes(userCredOf, "commentVote", votes)

FindSchedPics(id) ==
  \E ou \in lookupObjectUser(id) : validateCapability({"PIC_INDEX", Needed(ou)})

\* CheckReadPicExtCap is an input of the task, too.
LookupPic(checkPicExt, checkCommentExt, checkTagExt) ==
  validateCapability({"PIC_INDEX"}
    \cup (IF checkCommentExt THEN {ExtCap["comment"]} ELSE {})
    \cup (IF checkTagExt THEN {ExtCap["tag"]} ELSE {}))

-----------------------------------------------------------------------------
\* Properties.

\* Everything that the requester is shown, or allowed, as a set of facts.
ShownUsers ==
  UNION {{<<"user", u, part>> : part \in LookupUser(u, TRUE)} : u \in User}
ShownVotes ==
  {<<"vote", u>> : u \in {u \in User : LookupPicVote(u, [author |-> u, ext |-> TRUE]) # <<>>}}
  \cup {<<"commentVote", u>> :
        u \in {u \in User : FindPicCommentVotes({[author |-> u, ext |-> TRUE]}) # {}}}
ShownRows ==
  LET filtered(k, u) == FilterInternal(userCredOf, k, [author |-> u, ext |-> TRUE])
  IN {<<"author", x[1], x[2]>> : x \in {y \in Kind \X User : filtered(y[1], y[2]).author = y[2]}}
     \cup {<<"ext", x[1], x[2]>> : x \in {y \in Kind \X User : filtered(y[1], y[2]).ext}}
Allowed ==
  LET Asked == User \cup {AnonymousUserId} IN
  {<<"whole user", u>> : u \in {u \in Asked : LookupUser(u, FALSE) # {}}}
  \cup {<<"sched", u>> : u \in {u \in Asked : FindSchedPics(u)}}
  \cup {<<"pic", b>> : b \in {b \in BOOLEAN \X BOOLEAN \X BOOLEAN : LookupPic(b[1], b[2], b[3])}}
  \cup {<<"event", x>> : x \in {y \in Event \X User : ShowsEvent(userCredOf, y[1], y[2])}}
Shown == ShownUsers \cup ShownVotes \cup ShownRows \cup Allowed

\* A capability more never shows less, and never gets a request refused
\* (CapSet, the tasks and their filters).
GrantShowsMore == cs \subseteq cs' => Shown \subseteq Shown'

\* The list of a user's events tells exactly what the rows themselves tell:
\* filterUserEvents shows an event if and only if the filter of the row it
\* is about names its author.
EventsAgree ==
  \A u \in User, e \in DOMAIN EventKind :
    ShowsEvent(userCredOf, e, u) <=> NamesAuthor(userCredOf, EventKind[e], u)

\* A vote that LookupPicVote returns has its author: the check of the request
\* is as strict as the filter of the answer.
VotesAreNamed ==
  \A u \in User :
    \A v \in {LookupPicVote(u, [author |-> u, ext |-> FALSE])} : v # <<>> => v[1].author = u

\* User.Capability: USER_READ_SELF "includes everything from USER_READ_PUBLIC"
\* and implies the capabilities for pictures, tags, comments and votes, for
\* what the user made.
SelfSeesOwn ==
  su # AnonymousUserId /\ "USER_READ_SELF" \in cs =>
    /\ LookupUser(AnonymousUserId, TRUE) = {"public", "private"}
    /\ \A k \in Kind : FilterInternal(userCredOf, k, [author |-> su, ext |-> FALSE]).author = su
    /\ \A e \in Event : ShowsEvent(userCredOf, e, su)

==============================================================================
