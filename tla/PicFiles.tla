------------------------------ MODULE PicFiles ------------------------------
(***************************************************************************)
(* A picture on its way to a browser.  The front end's pixHandler asks for *)
(* the file's size (LookupPicFile), and then reads it through a stream     *)
(* (ReadPicFile), piece by piece, as net/http.ServeContent wants it.       *)
(* Meanwhile files are removed by purges, and put back by uploads of the   *)
(* same content; the configuration changes; and streams break.             *)
(*                                                                         *)
(* Sizes and offsets are counted in blocks.                                *)
(***************************************************************************)
EXTENDS Integers, Sequences, SequencesExt, FiniteSetsExt

CONSTANTS Client,   \* requests of browsers in flight
          Files,    \* pictures' files, as in their rows: [pic, index, mime]
          FileSize, \* blocks of each
          Piece,    \* the most that one answer carries, 1 MiB
          Buffer,   \* the most that ServeContent reads at once, 32 KiB
          MaxBreaks, \* bound on the number of broken streams
          NoFile

\* Formats, which have the same names in the API and in the schema, and the
\* extensions that both the front end and the back end have for them.
Ext == [JPEG |-> ".jpg", GIF |-> ".gif", PNG |-> ".png", WEBM |-> ".webm",
        MP4 |-> ".mp4"]
Format == DOMAIN Ext
FormatOf(ext) == CHOOSE m \in Format : Ext[m] = ext

\* The main file of a picture has the index 0.
ASSUME FilesAssumption ==
         /\ Files \subseteq [pic : Nat \ {0}, index : Nat, mime : Format]
         /\ FileSize \in [Files -> Nat] /\ NoFile \notin Files
ASSUME BoundAssumption == {Piece, Buffer} \subseteq Nat \ {0} /\ MaxBreaks \in Nat

VARIABLES disk,    \* the files that are there
          anon,    \* do anonymous requests have PIC_READ?
          get,     \* requests, as pixHandler sees them
          fd,      \* the file that the stream of a request has open
          breaks

vars == <<disk, anon, get, fd, breaks>>

PC == {"idle", "lookup", "open", "read", "done", "failed", "short"}

\* A file is its blocks, from 0 on.
Blocks(f, from, to) == [i \in 1..(to - from) |-> <<f, from + i - 1>>]

NoGet == [pc |-> "idle", url |-> NoFile, token |-> FALSE, offset |-> 0, to |-> 0,
          from |-> 0, size |-> 0, body |-> <<>>, public |-> FALSE]

Init == /\ disk = Files
        /\ anon \in BOOLEAN
        /\ get = [c \in Client |-> NoGet]
        /\ fd = [c \in Client |-> NoFile]
        /\ breaks = 0

Set(c, r) == get' = [get EXCEPT ![c] = r]
Goto(c, pc) == get' = [get EXCEPT ![c].pc = pc]

\* apiPicFile: the encoded picture id, followed by the encoded index, ...
Id(f) == <<f.pic, f.index>>
\* ... of which apiPic, for the main file, takes the last character off.
Url(f) == [id |-> IF f.index = 0 THEN Front(Id(f)) ELSE Id(f), ext |-> Ext[f.mime]]

\* The path that a request names: PicFilePath, or PicFileDerivedPath if anything
\* follows the picture id.
Path(id, format) == [name |-> IF Len(id) > 1 THEN <<id[1], id[2]>> ELSE <<id[1]>>,
                     ext |-> Ext[format]]

\* The path at which an upload stores a file.
Stored(f) == [name |-> IF f.index = 0 THEN <<f.pic>> ELSE <<f.pic, f.index>>,
              ext |-> Ext[f.mime]]

\* The file at the path that a request names, if it is there.
Found(url) ==
  LET at == {f \in disk : Stored(f) = Path(url.id, FormatOf(url.ext))}
  IN IF at = {} THEN NoFile ELSE CHOOSE f \in at : TRUE

\* A browser asks for a file of a page, from one block to another, with a pix
\* token or without.
Ask(c, f, from, to, token) ==
  /\ get[c].pc = "idle" /\ fd[c] = NoFile
  /\ Set(c, [NoGet EXCEPT !.pc = "lookup", !.url = Url(f), !.from = from,
                          !.offset = from, !.to = to, !.token = token])
  /\ UNCHANGED <<disk, anon, fd, breaks>>

\* authReadPicRequest.
MayRead(c) == get[c].token \/ anon

\* Broken: whoever may read may share.
PublicRead(c) == MayRead(c)
\* readPicHeaders: may caches that are shared keep the answer?
Public(c) == anon

\* pixurFile.Seek, from the end: so ServeContent learns the size.
Seek(offset, size) == offset + size

\* handleLookupPicFile, and ServeContent up to the first read: a range is cut
\* to the file, and one that begins behind it is refused.
Lookup(c) ==
  /\ get[c].pc = "lookup"
  /\ LET f == Found(get[c].url) IN
     IF MayRead(c) /\ f # NoFile /\ get[c].from =< FileSize[f]
     THEN LET size == Seek(0, FileSize[f]) IN
          Set(c, [get[c] EXCEPT !.pc = "open", !.size = size,
                                !.to = Min({@, size}), !.public = Public(c)])
     ELSE Goto(c, "failed")
  /\ UNCHANGED <<disk, anon, fd, breaks>>

\* handleReadPicFile begins.
Open(c) ==
  /\ get[c].pc = "open"
  /\ Goto(c, IF MayRead(c) THEN "read" ELSE "failed")
  /\ UNCHANGED <<disk, anon, fd, breaks>>

\* A limit of none, or beyond the piece, is the piece.
Limit(limit) == IF limit > Piece \/ limit = 0 THEN Piece ELSE limit

\* Broken: whatever does not fill the reader's buffer is the last.
ReadAtBuffer(f, offset, n) ==
  LET to == Max({offset, Min({offset + n, FileSize[f]})})
  IN [data |-> Blocks(f, offset, to), eof |-> to - offset < Buffer]
\* os.File.ReadAt, of a file that may have been removed since it was opened.
ReadAt(f, offset, n) ==
  LET to == Max({offset, Min({offset + n, FileSize[f]})})
  IN [data |-> Blocks(f, offset, to), eof |-> to - offset < n]

Offset(g, n) == g.offset + n

\* pixurFile.Read, and the answer of handleReadPicFile, whose file is open since
\* the first request of the stream.  ServeContent goes on until it has all.
Read(c) ==
  /\ get[c].pc = "read" /\ get[c].offset < get[c].to
  /\ LET g == get[c]
         f == IF fd[c] = NoFile THEN Found(g.url) ELSE fd[c]
         wanted == Min({Buffer, g.to - g.offset})
         resp == ReadAt(f, g.offset, Limit(wanted))
         n == Min({wanted, Len(resp.data)})
         body == g.body \o SubSeq(resp.data, 1, n)
     IN IF f = NoFile
        THEN Goto(c, "failed") /\ UNCHANGED fd
        ELSE /\ fd' = [fd EXCEPT ![c] = f]
             /\ Set(c, [g EXCEPT !.offset = Offset(g, n), !.body = body,
                          !.pc = IF resp.eof /\ Len(body) < g.to - g.from
                                 THEN "short" ELSE "read"])
  /\ UNCHANGED <<disk, anon, breaks>>

Finish(c) ==
  /\ get[c].pc = "read" /\ Len(get[c].body) = get[c].to - get[c].from
  /\ Goto(c, "done")
  /\ UNCHANGED <<disk, anon, fd, breaks>>

\* The stream breaks, or the browser goes away.
Break(c) ==
  /\ get[c].pc = "read" /\ breaks < MaxBreaks
  /\ breaks' = breaks + 1
  /\ Goto(c, "failed")
  /\ UNCHANGED <<disk, anon, fd>>

Closes(c) == get[c].pc \in {"done", "failed", "short"}

\* pixHandler returns: CloseSend, and handleReadPicFile returns too.
Close(c) ==
  /\ Closes(c)
  /\ Set(c, NoGet)
  /\ fd' = [fd EXCEPT ![c] = NoFile]
  /\ UNCHANGED <<disk, anon, breaks>>

\* A purge removes a file; an upload of the same content puts it back.
Purge(f) == /\ f \in disk /\ disk' = disk \ {f}
             /\ UNCHANGED <<anon, get, fd, breaks>>
Upload(f) == /\ f \notin disk /\ disk' = disk \cup {f}
              /\ UNCHANGED <<anon, get, fd, breaks>>
Configure == anon' = ~anon /\ UNCHANGED <<disk, get, fd, breaks>>

Serve(c) == Lookup(c) \/ Open(c) \/ Read(c) \/ Finish(c) \/ Close(c)

\* A range begins and ends up to one block behind the end of the file.
Next == \/ \E c \in Client, f \in Files, token \in BOOLEAN :
             \E from \in 0..(FileSize[f] + 1) :
               \E to \in from..(FileSize[f] + 1) : Ask(c, f, from, to, token)
        \/ \E c \in Client : Serve(c) \/ Break(c)
        \/ \E f \in Files : Purge(f) \/ Upload(f)
        \/ Configure

Spec == Init /\ [][Next]_vars

\* The front end and the back end run, and browsers take what they are sent:
\* nothing makes them wait but each other.
FairSpec == Spec /\ \A c \in Client : WF_vars(Serve(c))

-----------------------------------------------------------------------------
\* Properties.

Get == [pc : PC, url : [id : Seq(Nat), ext : {Ext[m] : m \in Format}] \cup {NoFile}, token : BOOLEAN,
        offset : Nat, from : Nat, to : Nat, size : Nat, public : BOOLEAN,
        body : Seq(Files \X Nat)]
TypeOK == /\ disk \subseteq Files /\ anon \in BOOLEAN
          /\ get \in [Client -> Get]
          /\ fd \in [Client -> Files \cup {NoFile}]
          /\ breaks \in 0..MaxBreaks

\* What a browser has is the beginning of the range that it asked for, of the
\* file that the link on the page was made for, though the file may have been
\* removed, or put back, between any two of the pieces; and all of it at the end.
\* The end of the file never comes before the length that was promised in the
\* headers: a file that was looked up and opened is as long as it was.
BodyIsRange ==
  \A c \in Client, f \in Files :
    get[c].url = Url(f) =>
      LET g == get[c]
          all == Blocks(f, g.from, Max({g.from, Min({g.to, FileSize[f]})}))
      IN IsPrefix(g.body, all) /\ (g.pc = "done" => g.body = all) /\ g.pc # "short"

\* A link on a page leads to its file for as long as that is there: a request
\* that may read, for blocks of the file, is not refused.
LinksWork ==
  \A c \in Client, f \in disk :
    get[c].pc = "lookup" /\ get[c].url = Url(f) /\ MayRead(c) /\ get[c].from =< FileSize[f]
      => get'[c].pc # "failed"

\* A shared cache may keep an answer only if anonymous requests could have had
\* it at that moment.
CachedForAll == \A c \in Client : get'[c].public /\ ~get[c].public => anon

=============================================================================
