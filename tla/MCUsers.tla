------------------------------- MODULE MCUsers -------------------------------
(***************************************************************************)
(* Instances for TLC of what users do, about themselves and to pictures,   *)
(* one component at a time: the form of UserEdit, with two users, each in  *)
(* a tab; Sessions; FrontAuth; PicTags; PicVotes; and PicMerge.  They do   *)
(* not share state, so all but the first share the variables v1 to v9      *)
(* instead, in turns: part says whose they are.                            *)
(***************************************************************************)
EXTENDS UserEdit, TLC

CONSTANTS u1, u2, t1, t2, r1, r2, s1, s2, i1, p1, p2, n1, n2, c1, c2, e1, Anon, Bad, None

MCUserOf == t1 :> u1 @@ t2 :> u2
MCCaps   == {UPDATE, "USER_READ_ALL"}
MCStartCaps == {MCCaps, {"USER_READ_ALL"}}

VARIABLES part, v1, v2, v3, v4, v5, v6, v7, v8, v9

(***************************************************************************)
(* Sessions: a user's tokens, on two servers, where the clock of s2 is     *)
(* three ticks and a bit behind; a user whose capabilities somebody takes  *)
(* or gives back; and a user who was last seen long ago, in each request.  *)
(***************************************************************************)
NoChange == [set |-> {}, clear |-> {}]
Flips == {[set |-> {}, clear |-> {"USER_READ_SELF"}], [set |-> {"PIC_READ"}, clear |-> {}]}

Tokens == INSTANCE Sessions WITH
  users <- v1, clock <- v2, tokens <- v3, req <- v4, view <- v5,
  User <- {u1}, Ident <- {i1}, Request <- {r1, r2}, Server <- {s1, s2},
  Lag <- s1 :> 0 @@ s2 :> 7, Tick <- 2, Threshold <- 3, maxUserTokens <- 2,
  CapOf <- {"USER_READ_SELF"}, AnonCap <- {"USER_CREATE"}, Changes <- {NoChange},
  MaxClock <- 10, NoUser <- Nobody

Updates == INSTANCE Sessions WITH
  users <- v1, clock <- v2, tokens <- v3, req <- v4, view <- v5,
  User <- {u1}, Ident <- {i1}, Request <- {r1, r2}, Server <- {s1},
  Lag <- s1 :> 0, Tick <- 2, Threshold <- 3, maxUserTokens <- 1,
  CapOf <- {"USER_READ_SELF", "USER_UPDATE_CAPABILITY"}, AnonCap <- {"USER_CREATE"},
  Changes <- Flips, MaxClock <- 14, NoUser <- Nobody

Pairs == INSTANCE Sessions WITH
  users <- v1, clock <- v2, tokens <- v3, req <- v4, view <- v5,
  User <- {u1, u2}, Ident <- {i1}, Request <- {r1, r2}, Server <- {s1},
  Lag <- s1 :> 0, Tick <- 2, Threshold <- 1, maxUserTokens <- 1,
  CapOf <- {"USER_READ_SELF"}, AnonCap <- {"USER_CREATE"}, Changes <- {NoChange},
  MaxClock <- 10, NoUser <- Nobody

(***************************************************************************)
(* FrontAuth: two tabs of a browser, a user who may read pictures and one  *)
(* who may not; answers that get lost and cookies that expire, or forms    *)
(* only, with more logins, of users who may be new.                        *)
(***************************************************************************)
Browser == INSTANCE FrontAuth WITH
  clock <- v1, jar <- v2, page <- v3, req <- v4, live <- v5, nextId <- v6, made <- v7,
  gone <- v8, stale <- v9, Tab <- {t1, t2}, User <- {u1, u2}, Reader <- {u1},
  Kinds <- {"page", "login", "refresh", "logout"}, Lossy <- TRUE,
  HourStep <- 3000, MaxClock <- 6000, MaxXsrf <- 2, MaxTokenId <- 1

Forms == INSTANCE FrontAuth WITH
  clock <- v1, jar <- v2, page <- v3, req <- v4, live <- v5, nextId <- v6, made <- v7,
  gone <- v8, stale <- v9, Tab <- {t1, t2}, User <- {u1, u2}, Reader <- {u1},
  Kinds <- {"page", "login", "create", "logout"}, Lossy <- FALSE,
  HourStep <- 3000, MaxClock <- 0, MaxXsrf <- 3, MaxTokenId <- 2

(***************************************************************************)
(* One tag, that may come back twice, of two pictures, and changes of the  *)
(* PicTags.                                                                *)
(***************************************************************************)
Tags == INSTANCE PicTags WITH
  pics <- v1, tags <- v2, picTags <- v3, usedIds <- v4, lock <- v5, job <- v6,
  Task <- {t1, t2}, Pic <- {p1, p2}, Name <- {n1}, TagId <- 1..3,
  MaxVersion <- [p \in {p1, p2} |-> [g \in 1..3 |-> 2]],
  Requests <- [kind : {"add"}, pic : {p1, p2}, names : {{n1}}]
                \cup [kind : {"purge"}, pic : {p1, p2}, names : {{}}],
  taskMaxRetries <- 2, NoTag <- None

(***************************************************************************)
(* Pictures that u1 uploaded, and so did somebody anonymous.  Votes on one *)
(* picture; comments of which each user has one, with the same parent;     *)
(* trees of comments on two pictures; and votes on a comment.              *)
(***************************************************************************)
Sources(S) == [p \in S |-> {Anon, u1}]

Votes == INSTANCE PicVotes WITH
  pics <- v1, votes <- v2, comments <- v3, cvotes <- v4, events <- v5, usedIds <- v6, job <- v7,
  Task <- {t1, t2}, Pic <- {p1}, User <- {Anon, u1, u2}, Source <- Sources({p1}),
  CommentId <- {1}, Time <- {1}, SelfReply <- TRUE, SiblingReply <- TRUE,
  Ops <- {"vote"}, MaxIndex <- 1, MaxViews <- 0
Siblings == INSTANCE PicVotes WITH
  pics <- v1, votes <- v2, comments <- v3, cvotes <- v4, events <- v5, usedIds <- v6, job <- v7,
  Task <- {t1, t2}, Pic <- {p1}, User <- {Anon, u1, u2}, Source <- Sources({p1}),
  CommentId <- {1, 2}, Time <- {1}, SelfReply <- FALSE, SiblingReply <- FALSE,
  Ops <- {"comment"}, MaxIndex <- 1, MaxViews <- 1
Trees == INSTANCE PicVotes WITH
  pics <- v1, votes <- v2, comments <- v3, cvotes <- v4, events <- v5, usedIds <- v6, job <- v7,
  Task <- {t1, t2}, Pic <- {p1, p2}, User <- {Anon, u1}, Source <- Sources({p1, p2}),
  CommentId <- {1, 2}, Time <- {1}, SelfReply <- TRUE, SiblingReply <- TRUE,
  Ops <- {"comment"}, MaxIndex <- 1, MaxViews <- 0
CVotes == INSTANCE PicVotes WITH
  pics <- v1, votes <- v2, comments <- v3, cvotes <- v4, events <- v5, usedIds <- v6, job <- v7,
  Task <- {t1, t2}, Pic <- {p1}, User <- {Anon, u1}, Source <- Sources({p1}),
  CommentId <- {1}, Time <- {1}, SelfReply <- TRUE, SiblingReply <- TRUE,
  Ops <- {"comment", "cvote"}, MaxIndex <- 1, MaxViews <- 0

(***************************************************************************)
(* Two uploads at a time: of one file, by two users and by nobody, as data *)
(* or from two URLs that serve it and another file, some with extensions;  *)
(* or with everything a request can say, by one user.                      *)
(***************************************************************************)
Urls == {[name |-> Bad, at |-> 1], [name |-> n2, at |-> 2]}
TheWeb == [u \in Urls |-> IF u.at = 1 THEN c1 ELSE c2]

Of(user, url, file, ext) ==
  [user |-> user, url |-> url, ref |-> None, file |-> file, name |-> None,
   disp |-> None, md5 |-> None, ext |-> ext]
MergeInputs ==
  {Of(u, None, c1, {}) : u \in {u1, u2, Anon}}
    \cup {Of(u, [url |-> l, frag |-> FALSE], c1, {}) : u \in {u1, Anon}, l \in Urls}
    \cup {Of(u2, None, c1, {e1})}
FieldInputs ==
  {i \in [user : {u1}, url : {None, Bad} \cup [url : Urls, frag : {TRUE}],
          ref : {None, Bad},
          file : {None, c1}, name : {None, Bad}, disp : {None, n1},
          md5 : {None, c1}, ext : {{}}] :
     i.disp # None => i.file = None}

Merges == INSTANCE PicMerge WITH
  pics <- v1, idents <- v2, events <- v3, up <- v4, count <- v5,
  Client <- {r1, r2}, User <- {u1, u2}, Anonymous <- Anon, Content <- {c1, c2}, Url <- Urls,
  Web <- TheWeb, ExtKey <- {e1}, Name <- {n1, n2}, Inputs <- MergeInputs,
  MaxPics <- 2, MaxUploads <- 4
Fields == INSTANCE PicMerge WITH
  pics <- v1, idents <- v2, events <- v3, up <- v4, count <- v5,
  Client <- {r1, r2}, User <- {u1, u2}, Anonymous <- Anon, Content <- {c1, c2}, Url <- Urls,
  Web <- TheWeb, ExtKey <- {e1}, Name <- {n1, n2}, Inputs <- FieldInputs,
  MaxPics <- 2, MaxUploads <- 2

ASSUME /\ Tokens!CapAssumption /\ Tokens!ClockAssumption /\ Tokens!TokenAssumption
       /\ Updates!CapAssumption /\ Updates!ClockAssumption /\ Updates!TokenAssumption
       /\ Pairs!CapAssumption /\ Pairs!ClockAssumption /\ Pairs!NoneAssumption
       /\ Tokens!NoneAssumption /\ Tokens!NoUserAssumption
       /\ Browser!KindAssumption /\ Browser!BoundAssumption
       /\ Forms!KindAssumption /\ Forms!BoundAssumption /\ Browser!NoneAssumption
       /\ Tags!BoundAssumption /\ Tags!RequestAssumption /\ Tags!PicAssumption /\ Tags!NoTagAssumption
       /\ Tags!NoneAssumption
       /\ Votes!UserAssumption /\ Votes!IdAssumption /\ Votes!BoundAssumption
       /\ Votes!ConfAssumption /\ CVotes!UserAssumption /\ CVotes!ConfAssumption
       /\ Siblings!UserAssumption /\ Siblings!IdAssumption /\ Siblings!ConfAssumption
       /\ Trees!UserAssumption /\ Trees!ConfAssumption
       /\ Merges!InputAssumption /\ Merges!WebAssumption /\ Merges!BoundAssumption
       /\ Fields!InputAssumption /\ Merges!NoneAssumption

-----------------------------------------------------------------------------
\* What a component with five, six, ... variables leaves alone.
After5 == <<v6, v7, v8, v9>>
After6 == <<v7, v8, v9>>
After7 == <<v8, v9>>
Clear8 == v8 = None /\ v9 = None
Clear7 == v7 = None /\ Clear8
Clear6 == v6 = None /\ Clear7
Clear1 == v1 = None /\ v2 = None /\ v3 = None /\ v4 = None /\ v5 = None /\ Clear6

\* The form rests while another component runs.
Resting == users = [u \in User |-> [caps |-> MCCaps, version |-> 0]]

MCInit ==
  /\ Init
  /\ \/ part = "edit" /\ Clear1
     \/ part = "tokens" /\ Tokens!Init /\ Clear6 /\ Resting
     \/ part = "updates" /\ Updates!Init /\ Clear6 /\ Resting
     \/ part = "pairs" /\ Pairs!Init /\ Clear6 /\ Resting
     \/ part = "browser" /\ Browser!Init /\ Resting
     \/ part = "forms" /\ Forms!Init /\ Resting
     \/ part = "tags" /\ Tags!Init /\ Clear7 /\ Resting
     \/ part = "votes" /\ Votes!Init /\ Clear8 /\ Resting
     \/ part = "siblings" /\ Siblings!Init /\ Clear8 /\ Resting
     \/ part = "trees" /\ Trees!Init /\ Clear8 /\ Resting
     \/ part = "cvotes" /\ CVotes!Init /\ Clear8 /\ Resting
     \/ part = "merges" /\ Merges!Init /\ Clear6 /\ Resting
     \/ part = "fields" /\ Fields!Init /\ Clear6 /\ Resting

AccountsNext ==
  \/ part = "tokens" /\ Tokens!Next /\ UNCHANGED After5
  \/ part = "updates" /\ Updates!Next /\ UNCHANGED After5
  \/ part = "pairs" /\ Pairs!Next /\ UNCHANGED After5
  \/ part = "browser" /\ Browser!Next
  \/ part = "forms" /\ Forms!Next

PicturesNext ==
  \/ part = "tags" /\ Tags!Next /\ UNCHANGED After6
  \/ part = "votes" /\ Votes!Next /\ UNCHANGED After7
  \/ part = "siblings" /\ Siblings!Next /\ UNCHANGED After7
  \/ part = "trees" /\ Trees!Next /\ UNCHANGED After7
  \/ part = "cvotes" /\ CVotes!Next /\ UNCHANGED After7
  \/ part = "merges" /\ Merges!Next /\ UNCHANGED After5
  \/ part = "fields" /\ Fields!Next /\ UNCHANGED After5

MCNext ==
  /\ \/ part = "edit" /\ Next /\ UNCHANGED <<v1, v2, v3, v4, v5, After5>>
     \/ (AccountsNext \/ PicturesNext) /\ UNCHANGED <<users, subject, form, answer>>
  /\ UNCHANGED part

MCSpec == MCInit /\ [][MCNext]_<<part, users, subject, form, answer,
                                 v1, v2, v3, v4, v5, v6, v7, v8, v9>>

-----------------------------------------------------------------------------
\* Properties.

\* A token is one of its user's when it is handed out, whatever the clocks of
\* the servers say; one that was evicted or deleted never works again, no other
\* gets its id, and no request is served for it (AuthUserTask, UnauthUserTask,
\* authedJob).
TokensLiveOnce ==
  [][part = "tokens" => Tokens!TokensLiveOnce]_<<part, v1, v3, v4>>

\* Nobody's capabilities are changed on the strength of a stale look at them
\* (UpdateUserTask), where users have one token and change only themselves.
NoLostUpdate == [][part = "updates" => Updates!UpdatesWhatWasSeen]_<<part, v1, v4, v5>>

\* Two users never have the same ident, though CreateUserTask looks for it
\* without a lock, and two tokens of a user never the same id.
IdsDiffer == /\ part = "pairs" => Pairs!IdsDiffer
             /\ part = "tokens" => Tokens!TypeOK /\ Tokens!IdsDiffer

\* authedJobInternal, of an upgraded job that finds the time just written: "I
\* don't think this is technically possible".
UpgradeFindsItStale == part = "pairs" => Pairs!UpgradeFindsItStale

\* What the cookies say of the browser is true of the session: a browser that
\* the pages treat as logged in can refresh its login, and a user who may read
\* pictures can load them, though answers are lost and cookies expire; logins
\* and logouts in two tabs at once leave no auth cookie of a dead token; and a
\* form that was on a page before its reader logged in, or out, in another tab
\* does not work afterwards, while the forms of a page just loaded do (fe/server).
CookiesAgree ==
  /\ part = "browser" => Browser!TypeOK /\ Browser!CookiesAgree
  /\ part = "forms" => Forms!CookiesAgree

\* Tags are counted right, also when one goes and comes back under another id,
\* votes are counted right and given once, replies are given once and have their
\* parent on the same picture, and the events of a user in one instant are
\* numbered without a gap, though the tasks read before they write (PurgePicTask,
\* AddPicVoteTask, AddPicCommentTask, AddPicCommentVoteTask).
CountsAgree ==
  /\ part = "tags" => Tags!TagsAgree
  /\ part = "votes" => Votes!TypeOK /\ Votes!CountsAgree
  /\ part = "siblings" => Siblings!CountsAgree
  /\ part = "trees" => Trees!TypeOK /\ Trees!CountsAgree
  /\ part = "cvotes" => CVotes!TypeOK /\ CVotes!CountsAgree

\* However uploads of a file follow one another, are retried or sent twice, they
\* meet in one picture, whose sources have each user and URL once and told each
\* user once; and a request's answer is the picture of the file it is about
\* (UpsertPicTask, mergePic).
UploadsAgree ==
  /\ part = "merges" => /\ Merges!TypeOK /\ Merges!SourcesDiffer
                        /\ Merges!EventsMatchSources /\ Merges!OnePicPerContent
  /\ part = "fields" => Fields!UploadIsItsFile

\* No step, of a task that began before or after, changes what was said about a
\* hard deleted picture, replaces what an earlier upload said, or undoes a lasting
\* deletion; and an upload does not fail for being a retry.
SaidIsKept ==
  [][/\ part = "cvotes" => CVotes!HardDeletedKept
     /\ part = "merges" => /\ Merges!NothingReplaced /\ Merges!DeletionStays
                           /\ Merges!RetriesChangeNothing]_<<part, v1, v2, v3, v4, v5>>
=============================================================================
