------------------------------ MODULE PicMerge ------------------------------
(***************************************************************************)
(* What an upload says about its picture: UpsertPicTask from its inputs to *)
(* the picture it makes or merges with, with the sources, extensions and   *)
(* events of mergePic.  Files, thumbnails and what deletion does to them   *)
(* are in PicStore.                                                        *)
(*                                                                         *)
(* A run of the task is one serializable transaction, so one step.  It may *)
(* fail at its end, and TaskRunner runs it again with the same reader; the *)
(* client may also lose the answer and send the same upload again.         *)
(*                                                                         *)
(* External: the contents that an URL serves, ImageMagick.                 *)
(***************************************************************************)
EXTENDS Integers, Sequences, SequencesExt, FiniteSetsExt

CONSTANTS Client,     \* each with one upload at a time
          User,       \* users that may create pictures
          Anonymous,  \* the user id of requests without a user
          Content,    \* contents of files that are images
          Url,        \* URLs without fragment, [name |-> ...]
          Web,        \* Web[u]: the content that u serves, or None
          ExtKey,     \* keys of extensions
          Name,       \* valid file names
          Inputs,     \* what clients send, see Input
          MaxPics, MaxUploads, \* bounds
          Bad, None

\* A reader that is not at its start has the rest of the file, no image.
Rest == "rest"

\* A raw URL of a request may have a fragment; Bad is one that
\* validateAndNormalizeURL refuses, or a name that is not a base name.
RawUrl == [url : Url, frag : BOOLEAN] \cup {Bad, None}
RawName == Name \cup {Bad, None}
Input == [user : User \cup {Anonymous}, url : RawUrl, ref : RawUrl,
          file : Content \cup {None},   \* the data sent, if any
          name : RawName,
          disp : RawName,               \* Content-Disposition of the answer
          md5 : Content \cup {None},
          ext : SUBSET ExtKey]

InputAssumption == Inputs \subseteq Input
WebAssumption == Web \in [Url -> Content \cup {None}]
BoundAssumption == MaxPics \in Nat /\ MaxUploads \in Nat
NoneAssumption == None \notin Content

VARIABLES pics,   \* the Pics table, by id from 1 on, or NoPic when purged
          idents, \* PicIdents: idents[c], the id of the picture of c, or 0
          events, \* UserEvents of type UpsertPic: a set of [user, pic, n]
          up,     \* what each upload is doing
          count   \* uploads so far

vars == <<pics, idents, events, up, count>>

NoPic == [content |-> None]
Deletion == {"live", "soft", "softTemp", "hard", "hardTemp"}
Source == [url : Url \cup {None}, ref : [url : Url, frag : BOOLEAN] \cup {None},
           user : User \cup {Anonymous}, name : Name \cup {None}]

Idle == [pc |-> "idle", in |-> None, off |-> 0, res |-> 0]

Init ==
  /\ pics = <<>> /\ idents = [c \in Content |-> 0]
  /\ events = {} /\ count = 0
  /\ up = [r \in Client |-> Idle]

---------------------------------------------------------------------------
\* checkUrls: the fragment of the file's URL goes, that of the referrer stays,
\* and a referrer without a file URL is not looked at.
UrlsOK(i) == i.url # Bad /\ (i.url # None => i.ref # Bad)
Loc(i) == IF i.url = None THEN None ELSE i.url.url
Ref(i) == IF i.url = None \/ i.ref = None THEN None ELSE i.ref

\* The first valid one of the request's name, which must be valid if there is
\* one, the name the web server gives and the last part of the URL.
Names(i) ==
  <<i.name>> \o (IF i.file = None /\ Loc(i) # None
                 THEN <<i.disp, Loc(i).name>> ELSE <<>>)
FileName(i) ==
  LET names == Names(i)
      FirstValid(k) == names[k] \in Name /\ \A j \in 1..(k - 1) : names[j] \notin Name
  IN  IF \E k \in DOMAIN names : FirstValid(k)
      THEN names[CHOOSE k \in DOMAIN names : FirstValid(k)] ELSE None

\* prepareLocalFile copies from where the reader is to its end, and seeks
\* back; prepareRemoteFile downloads.
LocalFile(r) == IF up[r].off = 0 THEN up[r].in.file ELSE Rest
File(r) == IF up[r].in.file # None THEN LocalFile(r)
           ELSE IF Loc(up[r].in) = None THEN None ELSE Web[Loc(up[r].in)]
\* Broken: a retry reads on from where the last try ended.
OffsetAtEnd(r) == IF up[r].in.file # None THEN 1 ELSE 0
OffsetAfterwards(r) == up[r].off

FileSource(i) == [url |-> Loc(i), ref |-> Ref(i), user |-> i.user,
                  name |-> FileName(i)]

\* The checks before the database is asked for the picture.
Valid(r) ==
  LET i == up[r].in IN
  /\ UrlsOK(i) /\ i.name # Bad
  /\ File(r) \in Content
  /\ i.md5 \in {None, File(r)}

---------------------------------------------------------------------------
\* mergePic.

Undeleted(d) == IF d \in {"softTemp", "hardTemp"} THEN "live" ELSE d

Known(sources, pfs) ==
  \E k \in DOMAIN sources : \/ sources[k].url = pfs.url
                            \/ /\ sources[k].user # Anonymous
                               /\ sources[k].user = pfs.user

\* Broken: every upload has an event.
EventsOfAll(id, i, known) ==
  IF i.user = Anonymous THEN {}
  ELSE {[user |-> i.user, pic |-> id, n |-> Cardinality(events)]}
\* The event of a new source; none for the anonymous user.
EventsOf(id, i, known) ==
  IF known \/ i.user = Anonymous THEN {}
  ELSE {[user |-> i.user, pic |-> id, n |-> Cardinality(events)]}

MayExtend(p, i) == i.ext \cap DOMAIN p.ext = {}

\* An extension's value is what the upload said; the upload is its value here.
mergePic(id, p, i, tag) ==
  LET pfs == FileSource(i)
      known == Known(p.sources, pfs)
  IN  /\ pics' = [k \in 1..(IF id > Len(pics) THEN id ELSE Len(pics)) |->
                    IF k # id THEN pics[k]
                    ELSE [p EXCEPT !.del = Undeleted(@),
                                   !.sources = IF known THEN @
                                               ELSE Append(@, pfs),
                                   !.ext = [e \in i.ext \cup DOMAIN @ |->
                                              IF e \in i.ext THEN tag ELSE @[e]]]]
      /\ events' = events \cup EventsOf(id, i, known)

---------------------------------------------------------------------------
Ends(r, res) == up' = [up EXCEPT ![r].pc = "done", ![r].res = res]

Send(r, i) ==
  /\ up[r].pc = "idle" /\ count < MaxUploads
  /\ count' = count + 1
  /\ up' = [up EXCEPT ![r] = [pc |-> "run", in |-> i, off |-> 0, res |-> 0]]
  /\ UNCHANGED <<pics, idents, events>>

Running(r) == up[r].pc = "run"

\* The picture with this SHA512_256 hash, or 0.
findExistingPic(c) == idents[c]
insertPicHashes(c, id) == idents' = [idents EXCEPT ![c] = id]

\* No picture has the content: a new one.
Create(r) ==
  LET i == up[r].in  c == File(r)  id == Len(pics) + 1 IN
  /\ Running(r) /\ Valid(r) /\ findExistingPic(c) = 0 /\ id <= MaxPics
  /\ insertPicHashes(c, id)
  /\ mergePic(id, [content |-> c, del |-> "live", sources |-> <<>>,
                   ext |-> <<>>], i, count)
  /\ Ends(r, id)
  /\ UNCHANGED count

\* A picture has it: it is merged, or undeleted.
Merge(r) ==
  LET i == up[r].in  id == findExistingPic(File(r)) IN
  /\ Running(r) /\ Valid(r) /\ id # 0
  /\ pics[id].del # "hard" /\ MayExtend(pics[id], i)
  /\ mergePic(id, pics[id], i, count)
  /\ Ends(r, id)
  /\ UNCHANGED <<idents, count>>

\* An invalid request, a picture deleted for good or a duplicate extension.
Reject(r) ==
  /\ Running(r)
  /\ \/ ~Valid(r)
     \/ LET id == findExistingPic(File(r)) IN
        /\ Valid(r) /\ id # 0
        /\ pics[id].del = "hard" \/ ~MayExtend(pics[id], up[r].in)
  /\ Ends(r, 0)
  /\ UNCHANGED <<pics, idents, events, count>>

\* The database gives up on the transaction; the task is run again.
Retry(r) ==
  /\ Running(r)
  /\ up' = [up EXCEPT ![r].off = OffsetAfterwards(r)]
  /\ UNCHANGED <<pics, idents, events, count>>

\* The answer comes, or is lost and the client sends the upload again.
Answer(r) ==
  /\ up[r].pc = "done"
  /\ \/ up' = [up EXCEPT ![r] = Idle] /\ UNCHANGED count
     \/ /\ count < MaxUploads
        /\ count' = count + 1
        /\ up' = [up EXCEPT ![r].pc = "run", ![r].off = 0, ![r].res = 0]
  /\ UNCHANGED <<pics, idents, events>>

---------------------------------------------------------------------------
\* What SoftDeletePicTask, HardDeletePicTask and PurgePicTask do to the row and
\* its idents.

Pics == {k \in DOMAIN pics : pics[k] # NoPic}
SetDel(id, d) == /\ pics' = [pics EXCEPT ![id].del = d]
                 /\ UNCHANGED <<idents, events, up, count>>

SoftDelete(id, temporary) ==
  /\ pics[id].del \in {"live", "soft", "softTemp"}
  /\ SetDel(id, IF temporary THEN "softTemp" ELSE "soft")
HardDelete(id) ==
  /\ pics[id].del \in {"live", "soft", "softTemp"}
  /\ SetDel(id, IF pics[id].del = "softTemp" THEN "hardTemp" ELSE "hard")
Purge(id) ==
  /\ idents' = [idents EXCEPT ![pics[id].content] = 0]
  /\ pics' = [pics EXCEPT ![id] = NoPic]
  /\ UNCHANGED <<events, up, count>>

Next ==
  \/ \E r \in Client : \/ \E i \in Inputs : Send(r, i)
                       \/ Create(r) \/ Merge(r) \/ Reject(r) \/ Retry(r)
                       \/ Answer(r)
  \/ \E id \in Pics : \/ \E b \in BOOLEAN : SoftDelete(id, b)
                      \/ HardDelete(id) \/ Purge(id)

Spec == Init /\ [][Next]_vars

---------------------------------------------------------------------------
\* The types of the variables.
TypeOK ==
  /\ count \in 0..MaxUploads /\ Len(pics) <= MaxPics
  /\ idents \in [Content -> 0..Len(pics)]
  /\ \A k \in Pics : LET p == pics[k] IN
       /\ p.content \in Content /\ p.del \in Deletion
       /\ p.sources \in Seq(Source)
       /\ DOMAIN p.ext \subseteq ExtKey /\ Range(p.ext) \subseteq 1..MaxUploads
  /\ \A e \in events : e.user \in User /\ e.pic \in DOMAIN pics
  /\ \A r \in Client : /\ up[r].pc \in {"idle", "run", "done"}
                       /\ up[r].in \in Inputs \cup {None}
                       /\ up[r].off \in {0, 1} /\ up[r].res \in 0..MaxPics

\* "At most one (non-anonymous) user can be in a source" (mergePic): however
\* uploads of the same file follow one another, no two sources of a picture
\* have the same user or the same URL.  AddPicVote and AddPicComment send an
\* event to the user of each source, and rely on it.
SourcesDiffer ==
  \A k \in Pics : LET s == pics[k].sources IN
    /\ s # <<>>
    /\ \A m, n \in DOMAIN s : m # n =>
         /\ s[m].url # s[n].url
         /\ s[m].user = Anonymous \/ s[m].user # s[n].user

\* "Also, only give notification if they added something new": the users with
\* an event for a picture are those of its sources, with one event each,
\* whatever is retried or sent twice.
EventsMatchSources ==
  \A k \in Pics : LET s == pics[k].sources
                      es == {e \in events : e.pic = k}
                  IN  /\ {e.user : e \in es} =
                         {s[n].user : n \in DOMAIN s} \ {Anonymous}
                      /\ \A e, f \in es : e.user = f.user => e = f

\* Every picture has an ident with its content, and it is no other picture's:
\* two uploads of a file meet in one picture (findExistingPic,
\* insertPicHashes), even when the first was retried from the middle of it.
OnePicPerContent ==
  /\ \A k \in Pics : idents[pics[k].content] = k
  /\ \A c \in Content : idents[c] # 0 => pics[idents[c]].content = c

\* What follows is about steps.

\* A picture's sources are only ever added to, and a value of an extension is
\* never replaced (mergePic: "duplicate key in extension map").
NothingReplaced ==
  \A k \in Pics \cap DOMAIN pics' : pics'[k] # NoPic =>
    /\ IsPrefix(pics[k].sources, pics'[k].sources)
    /\ \A e \in DOMAIN pics[k].ext :
         e \in DOMAIN pics'[k].ext /\ pics'[k].ext[e] = pics[k].ext[e]

\* A picture deleted for good comes back only by a purge, and a soft deletion
\* that is not temporary outlasts uploads of the same file (mergePic: "it stays
\* deleted, unless it was temporary").
DeletionStays ==
  \A k \in Pics : pics'[k] # NoPic =>
    /\ pics[k].del = "hard" => pics'[k] = pics[k]
    /\ pics[k].del = "soft" => pics'[k].del # "live"

\* An upload ends with the picture of the file it sent, or that its URL
\* serves, and with none if the client's md5 is another's.
Sent(i) == IF i.file # None THEN i.file
           ELSE IF Loc(i) = None THEN None ELSE Web[Loc(i)]
UploadIsItsFile ==
  \A r \in Client : LET i == up[r].in IN
    up[r].pc = "done" /\ up[r].res # 0 /\ pics[up[r].res] # NoPic =>
      /\ pics[up[r].res].content = Sent(i)
      /\ i.md5 \in {None, Sent(i)}

\* Only what the client sent, or the picture that is there, makes an upload
\* fail: the file of an attempt that the database gave up is read again from
\* its start (prepareLocalFile seeks back; "destroy outputs incase this is a
\* retry").
RetriesChangeNothing ==
  \A r \in Client : LET i == up[r].in IN
    up[r].pc = "run" /\ up'[r].pc = "done" /\ up'[r].res = 0 =>
      \/ ~UrlsOK(i) \/ i.name = Bad \/ i.md5 \notin {None, Sent(i)}
      \/ Sent(i) \notin Content
      \/ LET id == idents[Sent(i)] IN
         id # 0 /\ (pics[id].del = "hard" \/ i.ext \cap DOMAIN pics[id].ext # {})
=============================================================================
