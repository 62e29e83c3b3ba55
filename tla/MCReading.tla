----------------------------- MODULE MCReading -----------------------------
(***************************************************************************)
(* Instances for TLC of what requests read, and of what it is made of, one *)
(* component at a time.  None of them shares state with another, so they   *)
(* share the variables v1 to v8 instead, in turns: part says whose they    *)
(* are.  Only PicFiles keeps its own, with the main file and a thumbnail  *)
(* of a picture, and the empty file of another.                            *)
(***************************************************************************)
EXTENDS PicFiles, TLC

CONSTANTS None, c1

VARIABLES part, v1, v2, v3, v4, v5, v6, v7, v8

Main  == [pic |-> 1, index |-> 0, mime |-> "JPEG"]
Thumb == [pic |-> 1, index |-> 1, mime |-> "JPEG"]
Other == [pic |-> 2, index |-> 0, mime |-> "PNG"]
MCFiles == {Main, Thumb, Other}
MCSize == Main :> 5 @@ Thumb :> 2 @@ Other :> 0

(***************************************************************************)
(* Two users, and every set of capabilities.                               *)
(***************************************************************************)
Checks == INSTANCE Access WITH su <- v1, cs <- v2, User <- {1, 2}

(***************************************************************************)
(* Two bits, a negative capability and three that do not fit the word.     *)
(***************************************************************************)
Sets == INSTANCE CapSets WITH left <- v1, right <- v2, leftRef <- v3, rightRef <- v4,
                              Bits <- 2, Cap <- -1..4

(***************************************************************************)
(* Four comments that anybody may see, or two by a user who cannot be      *)
(* looked up.                                                              *)
(***************************************************************************)
CommentReader == [subjectUserId |-> 1, cs |-> {"USER_READ_PUBLIC", "USER_READ_PIC_COMMENT"}]
Trees == INSTANCE CommentTree WITH
  comments <- v1, pc <- v2, pcs <- v3, rest <- v4, children <- v5, orphans <- v6, puis <- v7,
  CommentId <- 1..4, Author <- {0}, Subject <- CommentReader
Authors == INSTANCE CommentTree WITH
  comments <- v1, pc <- v2, pcs <- v3, rest <- v4, children <- v5, orphans <- v6, puis <- v7,
  CommentId <- 1..2, Author <- {0, 2}, Subject <- CommentReader

(***************************************************************************)
(* Events at three times, read by one who may read the votes of others and *)
(* nothing else: a reader's way through pages of one event, while more are *)
(* added, or every page of those that are there.                           *)
(***************************************************************************)
VoteReader == [subjectUserId |-> 2, cs |-> {"USER_READ_PUBLIC", "USER_READ_PIC_VOTE"}]
EventWalks == INSTANCE EventPages WITH
  events <- v1, walk <- v2, Time <- 1..3, Index <- {0, 1}, Evt <- {"outVote", "inVote"},
  Owner <- 1, Subject <- VoteReader, NoKey <- None, Walks <- TRUE,
  DefaultFindUserEvents <- 1, MaxFindUserEvents <- 4
Events == INSTANCE EventPages WITH
  events <- v1, walk <- v2, Time <- 1..3, Index <- {0, 1}, Evt <- {"outVote", "inVote"},
  Owner <- 1, Subject <- VoteReader, NoKey <- None, Walks <- FALSE,
  DefaultFindUserEvents <- 1, MaxFindUserEvents <- 4

(***************************************************************************)
(* Four pictures at two times, on pages of one; five, on pages of two; and *)
(* four of which a user votes on two at a time.                            *)
(***************************************************************************)
Scores(n) == [p \in 1..n |-> 1 + (p % 2)]
PicWalks == INSTANCE IndexPages WITH
  pics <- v1, usedIds <- v2, voted <- v3, walk <- v4, PicId <- 1..4, Order <- {1, 2},
  Score <- Scores(4), NoPic <- None, Ops <- {"walk", "purge"}, DefaultFindIndexPics <- 1
Pages == INSTANCE IndexPages WITH
  pics <- v1, usedIds <- v2, voted <- v3, walk <- v4, PicId <- 1..5, Order <- {1, 2},
  Score <- Scores(5), NoPic <- None, Ops <- {"purge"}, DefaultFindIndexPics <- 2
Sched == INSTANCE IndexPages WITH
  pics <- v1, usedIds <- v2, voted <- v3, walk <- v4, PicId <- 1..4, Order <- {1},
  Score <- Scores(4), NoPic <- None, Ops <- {"purge", "vote"}, DefaultFindIndexPics <- 2

(***************************************************************************)
(* Two statements and a cleanup of one task, with the frames they share.   *)
(***************************************************************************)
Stacks == {<<"exec", "insert", "Run", "runTask">>, <<"query", "insert", "Run", "runTask">>,
           <<"revert", "Run", "runTask">>}
Failures == INSTANCE Status WITH
  pc <- v1, stscap <- v2, stss <- v3, tries <- v4, happened <- v5, own <- v6, cleanups <- v7,
  answer <- v8, Raw <- {"deadlock", "disk", "canceled", "deadline"}, Retryable <- {"deadlock"},
  Stack <- Stacks, MaxTries <- 2, MaxWraps <- 1, MaxCleanups <- 1

(***************************************************************************)
(* Two messages in any table; and every query of two of the tables.  The   *)
(* key of CustomData, six columns, only takes longer than that of          *)
(* PicCommentVotes, four: it is left out.                                  *)
(***************************************************************************)
Tabs == {"Pics", "Tags", "PicTags", "PicIdents", "PicComments", "PicVotes",
         "PicCommentVotes", "Users", "UserEvents"}
Rows == INSTANCE Tables WITH
  rows <- v1, Tab <- Tabs, Val <- {0, 1}, MaxRows <- 2, Limits <- {0, 1}
Queries == INSTANCE Tables WITH
  rows <- v1, Tab <- {"PicVotes", "PicIdents"}, Val <- {0, 1}, MaxRows <- 2, Limits <- {0, 1}

(***************************************************************************)
(* Every text of up to four code points, of two to seven bytes.            *)
(***************************************************************************)
Texts == INSTANCE Text WITH
  s <- v1, MaxLen <- 4, minBytes <- 2, maxBytes <- 7,
  Char <- {"a", "E", "acute", "eAcute", "EAcute", "KK", "x", "space", "newline",
           "Zl", "Cc", "slash", "byte"}

(***************************************************************************)
(* Every pair of numbers, and up to four bytes that somebody typed, with   *)
(* eight symbols instead of 32, and words of seven bits, so that the       *)
(* largest numbers begin with the last symbol but one, as with the first   *)
(* of the code's three that are unused.                                    *)
(***************************************************************************)
Ids == INSTANCE Varint WITH
  ints <- v1, buf <- v2, varbits <- 3, wordBits <- 7, MaxInts <- 2, MaxTyped <- 4

ASSUME /\ Checks!UserAssumption /\ Sets!CapAssumption
       /\ Trees!CommentIdAssumption /\ Trees!AuthorAssumption
       /\ Authors!CommentIdAssumption /\ Authors!AuthorAssumption
       /\ EventWalks!KeyAssumption /\ EventWalks!EvtAssumption /\ EventWalks!MaxAssumption
       /\ PicWalks!PicIdAssumption /\ PicWalks!ScoreAssumption /\ PicWalks!OpsAssumption
       /\ PicWalks!OrderAssumption /\ PicWalks!DefaultAssumption /\ PicWalks!NoPicAssumption
       /\ Pages!PicIdAssumption /\ Pages!ScoreAssumption /\ Sched!OpsAssumption
       /\ Failures!RawAssumption /\ Failures!StackAssumption /\ Failures!BoundAssumption
       /\ Rows!TabAssumption /\ Rows!ValAssumption /\ Rows!MaxRowsAssumption
       /\ Texts!CharAssumption /\ Texts!BoundAssumption
       /\ Ids!WidthAssumption

-----------------------------------------------------------------------------
\* What a component with one, two, ... variables leaves alone.
After1 == <<v2, v3, v4, v5, v6, v7, v8>>
After2 == <<v3, v4, v5, v6, v7, v8>>
After4 == <<v5, v6, v7, v8>>
After5 == <<v6, v7, v8>>
After7 == <<v8>>

Clear8 == v8 = None
Clear6 == v6 = None /\ v7 = None /\ Clear8
Clear5 == v5 = None /\ Clear6
Clear3 == v3 = None /\ v4 = None /\ Clear5
Clear2 == v2 = None /\ Clear3
Clear1 == v1 = None /\ Clear2

MCInit ==
  /\ Init
  /\ \/ part = "stream" /\ Clear1
     \/ /\ anon
        /\ \/ part = "checks" /\ Checks!Init /\ Clear3
           \/ part = "sets" /\ Sets!Init /\ Clear5
           \/ part = "trees" /\ Trees!Init /\ Clear8
           \/ part = "authors" /\ Authors!Init /\ Clear8
           \/ part = "eventWalks" /\ EventWalks!Init /\ Clear3
           \/ part = "events" /\ Events!Init /\ Clear3
           \/ part = "picWalks" /\ PicWalks!Init /\ Clear5
           \/ part = "pages" /\ Pages!Init /\ Clear5
           \/ part = "sched" /\ Sched!Init /\ Clear5
           \/ part = "failures" /\ Failures!Init
           \/ part = "rows" /\ Rows!Init /\ Clear2
           \/ part = "queries" /\ Queries!Init /\ Clear2
           \/ part = "texts" /\ Texts!Init /\ Clear2
           \/ part = "ids" /\ Ids!Init /\ Clear3

ReadingNext ==
  \/ part = "checks" /\ Checks!Next /\ UNCHANGED After2
  \/ part = "sets" /\ Sets!Next /\ UNCHANGED After4
  \/ part = "trees" /\ Trees!Next /\ UNCHANGED After7
  \/ part = "authors" /\ Authors!Next /\ UNCHANGED After7
  \/ part = "eventWalks" /\ EventWalks!Next /\ UNCHANGED After2
  \/ part = "events" /\ Events!Next /\ UNCHANGED After2
  \/ part = "picWalks" /\ PicWalks!Next /\ UNCHANGED After4
  \/ part = "pages" /\ Pages!Next /\ UNCHANGED After4
  \/ part = "sched" /\ Sched!Next /\ UNCHANGED After4
  \/ part = "failures" /\ Failures!Next
  \/ part = "rows" /\ Rows!Next /\ UNCHANGED After1
  \/ part = "queries" /\ Queries!Next /\ UNCHANGED After1
  \/ part = "texts" /\ Texts!Next /\ UNCHANGED After1
  \/ part = "ids" /\ Ids!Next /\ UNCHANGED After2

MCNext ==
  /\ \/ part = "stream" /\ Next /\ UNCHANGED <<v1, After1>>
     \/ ReadingNext /\ UNCHANGED vars
  /\ UNCHANGED part

MCSpec == MCInit /\ [][MCNext]_<<part, vars, v1, After1>>

-----------------------------------------------------------------------------
\* Properties.

\* The checks of requests and the filters of answers agree: an event is shown
\* if and only if the row it is about names its author, a vote that a request
\* may look up has its author, and USER_READ_SELF shows a user all that is theirs
\* (the tasks' validate functions, filter.go); and the words and the spill list of a CapSet stand for the set
\* that was built, and are parted as sets (CapIntersect).
ChecksAgree ==
  /\ part = "checks" => /\ Checks!EventsAgree /\ Checks!VotesAreNamed
                        /\ Checks!SelfSeesOwn
  /\ part = "sets" => Sets!AddIsUnion /\ Sets!IntersectParts

\* LookupPicTask leaves no comment without its parent, and the page has every
\* comment below its parent once, whatever the order of the ids.
TreeIsWhole ==
  /\ part = "trees" => Trees!NoOrphansLeft /\ Trees!TreeIsWhole
  /\ part = "authors" => Authors!TreeIsWhole

\* viewerHandler.static of an author who cannot be looked up: "discard the error,
\* since it's probably not fatal".
LookupNotFatal == part = "authors" => Authors!LookupNotFatal

\* A reader who follows the links to the next page, of pictures or of events,
\* meets what is there once, in order, and at the end everything that was there
\* all the time, whatever is added, hidden or shown again between two pages.
WalksSeeAll ==
  /\ part = "picWalks" => PicWalks!WalkInOrder /\ PicWalks!WalkSeesAll
  /\ part = "eventWalks" => EventWalks!WalkSeesShown

\* The link back from a page leads to the one before, in either direction, a
\* page of events is the first of those that are shown, however many rows are
\* hidden between them, and FindSchedPicsTask proposes a full page as long as
\* there are enough pictures the user has not voted on.
PagesAreRight ==
  /\ part = "pages" => Pages!TurnsBack
  /\ part = "events" => Events!PageIsFirst /\ Events!TurnsBack
  /\ part = "sched" => Sched!SchedIsFull

\* A capability more never shows less; a link leads to its file while that is
\* there; and a shared cache may keep an answer only if anonymous requests could
\* have had it at that moment (filter.go, handleReadPicFile).
ReadersKeepUp ==
  [][/\ part = "checks" => Checks!GrantShowsMore
     /\ LinksWork /\ CachedForAll]_<<part, vars, v1, v2>>

\* Why a request fails is the failure of the task, in its first try, and not of
\* a cleanup or another try; of those the text tells, each once, with stacks
\* that can be put together again.
FailureIsTold ==
  part = "failures" => /\ Failures!OwnFailureDecides /\ Failures!AnswersFirstFailure
                       /\ Failures!TellsAll /\ Failures!StacksAreWhole

\* Rows are found by the keys that their messages have now, which differ, and a
\* query returns the messages between its bounds, in order.
RowsAreFound ==
  /\ part = "rows" => Rows!TypeOK /\ Rows!ColumnsFresh /\ Rows!KeysUnique
  /\ part = "queries" => Queries!ScanIsInterval

\* A text that is accepted stays as it is when it is sent again, and the forms
\* of a text that differ in case and composition only have one key.
TextsSettle == part = "texts" => Texts!NormalizedOnce /\ Texts!SameKey /\ Texts!BadTextIsInvalid

\* Encoded numbers sort as the numbers do, are read back as they were, alone and
\* in the ids of files and events, and no bytes stand for the number of others.
IdsReadBack ==
  part = "ids" => /\ Ids!ReadsBack /\ Ids!EncodeOrdered /\ Ids!DecodesCanonical
                  /\ Ids!NamesDiffer /\ Ids!PathsDiffer
=============================================================================
