------------------------------- MODULE PicStore -------------------------------
(***************************************************************************)
(* The life of a picture in be/tasks: UpsertPicTask, SoftDeletePicTask,    *)
(* HardDeletePicTask and PurgePicTask.  A picture is a row of the Pics     *)
(* table with its PicIdents, and files below PixPath.  The database is     *)
(* transactional and the file system is not; tasks move files while their  *)
(* transaction is open (Upsert) or after it committed (HardDelete, Purge). *)
(*                                                                         *)
(* Transactions are serializable, and a row a transaction has written or   *)
(* read with LockWrite is its own until it ends.  What a task does in its  *)
(* transaction before touching a file is therefore one step.  A commit     *)
(* that reports an error may or may not have been applied.  When the       *)
(* context of a request is cancelled, database/sql rolls its transaction   *)
(* back at once, and the task learns of it only when it commits.           *)
(***************************************************************************)
EXTENDS Integers

CONSTANTS Task,         \* goroutines that run tasks
          Server,       \* server processes
          Host,         \* Host[t]: the server t runs in
          Content,      \* pictures users upload, told apart by their SHA512_256
          Video,        \* the ones that are videos
          PicId,        \* ids the allocator may give (bound)
          MaxIndex,     \* bound on the index of a thumbnail or derived file
          Temporaries,  \* values of SoftDeletePicTask.Temporary in use
          Faults,       \* kinds of failure that happen, from FaultKinds
          NoFile, NoPic, None

FaultKinds == {"crash", "cancel", "commit", "remove", "rename", "convert"}

ASSUME HostAssumption == Host \in [Task -> Server]
ASSUME ContentAssumption ==
         Content # {} /\ Video \subseteq Content /\ NoFile \notin Content
ASSUME PicIdAssumption == PicId # {}
ASSUME IndexAssumption == MaxIndex \in Nat \ {0}
ASSUME FlagAssumption == Temporaries \subseteq BOOLEAN /\ Faults \subseteq FaultKinds
ASSUME NoneAssumption == None \notin Task

VARIABLES pics,    \* committed rows
          usedIds, \* ids of the rows that were ever committed
          lock,    \* lock[p]: the task whose transaction has row p, or None
          fs,      \* the files below PixPath by path, without temporary files
          temp,    \* temp[t]: the temporary files t has and must dispose of
          job,     \* what each task is doing
          doomed   \* doomed[t]: files t has yet to remove after its commit

vars == <<pics, usedIds, lock, fs, temp, job, doomed>>

-----------------------------------------------------------------------------
\* Files.  A main file has no index in its name (-1 here); every other has.

Mime(c) == IF c \in Video THEN "video" ELSE "image"
Index == 0..MaxIndex
Path == [pic : PicId, index : -1..MaxIndex, mime : {"image", "video"}]

PicFilePath(p, c) == [pic |-> p, index |-> -1, mime |-> Mime(c)]
ThumbPath(p, i)   == [pic |-> p, index |-> i, mime |-> "image"]
DerivedPath(p, i) == [pic |-> p, index |-> i, mime |-> "video"]

TempKind == {"main", "derived", "thumb"}

\* Rows.  del is DeletionStatus: absent, with MarkedDeletedTs, or with
\* ActualDeletedTs too; temporary is its Temporary flag.
Row == [content : Content, del : {"none", "soft", "hard"}, temporary : BOOLEAN,
        thumbs : SUBSET Index, derived : SUBSET Index]

ASSUME NoPicAssumption == NoPic \notin Row

HardDeleted(r) == r.del = "hard"

\* The files a row refers to.
ThumbPaths(p, r) == {ThumbPath(p, i) : i \in r.thumbs}
MainAndThumbs(p, r) == {PicFilePath(p, r.content)} \cup ThumbPaths(p, r)
Referenced(p, r) == MainAndThumbs(p, r) \cup {DerivedPath(p, i) : i \in r.derived}

Free(S) == {i \in Index : i \notin S}
\* The lowest index no thumbnail or derived file has.
nextPicFileIndex(S) == CHOOSE i \in Free(S) : \A j \in Free(S) : i <= j

-----------------------------------------------------------------------------
\* Tasks.

PC == {"idle", "find", "prepare", "renameMain", "renameThumb",
       "renameDerived", "commit", "cleanup", "remove"}

\* The flags of UpsertPicTask.Run, destroyTempFile to destroyNewDerived, in
\* the order their deferred functions run.
Destroy == <<"newDerived", "newThumb", "newMain", "thumb", "derived", "main">>

\* pic and row are the row an upsert is going to commit, open says whether its
\* transaction still is, new whether it inserts the row, destroy which of the
\* flags are set.
NoRow == [content |-> CHOOSE c \in Content : TRUE, del |-> "none",
          temporary |-> FALSE, thumbs |-> {}, derived |-> {}]
Idle == [pc |-> "idle", content |-> CHOOSE c \in Content : TRUE,
         pic |-> CHOOSE p \in PicId : TRUE, row |-> NoRow,
         open |-> FALSE, new |-> FALSE, destroy |-> {}]

Init == /\ pics = [p \in PicId |-> NoPic]
        /\ usedIds = {}
        /\ lock = [p \in PicId |-> None]
        /\ fs = [f \in Path |-> NoFile]
        /\ temp = [t \in Task |-> {}]
        /\ job = [t \in Task |-> Idle]
        /\ doomed = [t \in Task |-> {}]

Stored == {p \in PicId : pics[p] # NoPic}
Unlocked(p) == lock[p] = None
Fault(k) == k \in Faults

Release(t) == lock' = [p \in PicId |-> IF lock[p] = t THEN None ELSE lock[p]]
In(t, l) == job[t].pc = l /\ job[t].open
Finish(t) == job' = [job EXCEPT ![t] = Idle]
Goto(t, l) == job' = [job EXCEPT ![t].pc = l]

-----------------------------------------------------------------------------
\* UpsertPicTask.

\* prepareLocalFile or prepareRemoteFile: the picture is in a temporary file.
Upload(t, c) ==
  /\ job[t].pc = "idle"
  /\ job' = [job EXCEPT ![t].pc = "find", ![t].content = c, ![t].open = TRUE,
                        ![t].destroy = {"main"}]
  /\ temp' = [temp EXCEPT ![t] = {"main"}]
  /\ UNCHANGED <<pics, usedIds, lock, fs, doomed>>

Matches(c) == {p \in Stored : pics[p].content = c}

\* Broken: any deletion is lifted.
MergedAlways(r) == [r EXCEPT !.del = "none", !.temporary = FALSE]

\* mergePic: re-uploading lifts a temporary deletion and leaves any other.
Merged(r) == IF r.temporary THEN [r EXCEPT !.del = "none", !.temporary = FALSE]
                            ELSE r

\* "can't upload deleted pic", or any other error before a file is moved.
Reject(t) ==
  /\ In(t, "find")
  /\ \E p \in Matches(job[t].content) :
       Unlocked(p) /\ HardDeleted(pics[p]) /\ ~pics[p].temporary
  /\ Goto(t, "cleanup")
  /\ UNCHANGED <<pics, usedIds, lock, fs, temp, doomed>>

\* The picture is there: its row is merged and committed, no file is moved.
MergeExisting(t) ==
  /\ In(t, "find")
  /\ \E p \in Matches(job[t].content) :
       /\ Unlocked(p) /\ ~HardDeleted(pics[p])
       /\ pics' = [pics EXCEPT ![p] = Merged(@)]
  /\ job' = [job EXCEPT ![t].pc = "cleanup", ![t].open = FALSE]
  /\ UNCHANGED <<usedIds, lock, fs, temp, doomed>>

\* Ids that no committed row has had and no open transaction was given.
FreshIds == {p \in PicId \ usedIds :
  ~ \E t \in Task : job[t].open /\ job[t].new /\ job[t].pic = p}

\* The bounds leave no id for a new row, or less than two indexes for a row
\* that is undeleted.
OutOfIndexes(r) == \A i, j \in Free(r.derived) : i = j
OutOfBounds(t) == \/ Matches(job[t].content) = {} /\ FreshIds = {}
                  \/ \E p \in Matches(job[t].content) :
                       HardDeleted(pics[p]) /\ OutOfIndexes(pics[p])

\* Nobody has it: a new row, under a new id.
StartNew(t) ==
  /\ In(t, "find")
  /\ Matches(job[t].content) = {}
  /\ \E p \in FreshIds :
       job' = [job EXCEPT ![t].pc = "prepare", ![t].pic = p, ![t].new = TRUE,
                          ![t].row = [NoRow EXCEPT !.content = job[t].content]]
  /\ UNCHANGED <<pics, usedIds, lock, fs, temp, doomed>>

\* It was hard deleted, but temporarily: it will be undeleted.
StartUndelete(t) ==
  /\ In(t, "find")
  /\ \E p \in Matches(job[t].content) :
       /\ Unlocked(p) /\ HardDeleted(pics[p]) /\ pics[p].temporary
       /\ ~OutOfIndexes(pics[p])
       /\ lock' = [lock EXCEPT ![p] = t]
       /\ job' = [job EXCEPT ![t].pc = "prepare", ![t].pic = p, ![t].row = pics[p]]
  /\ UNCHANGED <<pics, usedIds, fs, temp, doomed>>

\* The derived video and the thumbnail are made in temporary files and entered
\* in the row, and the row is merged.
WithDerived(r) ==
  IF r.content \in Video
    THEN [r EXCEPT !.derived = @ \cup {nextPicFileIndex(r.thumbs \cup @)}]
    ELSE r
\* Broken: the indexes of the derived files are not looked at.
WithThumbAlone(r) == [r EXCEPT !.thumbs = @ \cup {nextPicFileIndex(@)}]
WithThumb(r) == [r EXCEPT !.thumbs = @ \cup {nextPicFileIndex(@ \cup r.derived)}]

Made(c) == {"thumb"} \cup IF c \in Video THEN {"derived"} ELSE {}

\* Broken: nothing is deferred for the files made here.
PrepareUndeferred(t) ==
  /\ In(t, "prepare")
  /\ job' = [job EXCEPT ![t].pc = "renameMain",
                        ![t].row = Merged(WithThumb(WithDerived(@)))]
  /\ temp' = [temp EXCEPT ![t] = @ \cup Made(job[t].content)]
  /\ UNCHANGED <<pics, usedIds, lock, fs, doomed>>

Prepare(t) ==
  /\ In(t, "prepare")
  /\ job' = [job EXCEPT ![t].pc = "renameMain",
                        ![t].row = Merged(WithThumb(WithDerived(@))),
                        ![t].destroy = @ \cup Made(job[t].content)]
  /\ temp' = [temp EXCEPT ![t] = @ \cup Made(job[t].content)]
  /\ UNCHANGED <<pics, usedIds, lock, fs, doomed>>

\* Some step before the renames fails: the transaction is gone, there is no id
\* left, or the picture can't be converted.
MustFail(t) == \/ ~job[t].open
               \/ job[t].pc = "find" /\ OutOfBounds(t)
PrepareFails(t) ==
  /\ job[t].pc \in {"find", "prepare"}
  /\ Fault("convert") \/ MustFail(t)
  /\ Goto(t, "cleanup")
  /\ UNCHANGED <<pics, usedIds, lock, fs, temp, doomed>>

\* Moves temporary file k to path f.  Its flag is dropped before the rename and
\* the flag of the new file is set after it.
Rename(t, k, f, flag, next) ==
  /\ fs' = [fs EXCEPT ![f] = job[t].content]
  /\ temp' = [temp EXCEPT ![t] = @ \ {k}]
  /\ job' = [job EXCEPT ![t].pc = next,
                        ![t].destroy = (@ \ {k}) \cup {flag}]
  /\ UNCHANGED <<pics, usedIds, lock, doomed>>

NewMainPath(t) == PicFilePath(job[t].pic, job[t].content)
NewThumbPath(t) == ThumbPath(job[t].pic, CHOOSE i \in job[t].row.thumbs : TRUE)
\* The derived file that was appended last has the highest index.
NewDerivedPath(t) ==
  DerivedPath(job[t].pic, CHOOSE i \in job[t].row.derived :
                            \A j \in job[t].row.derived : j <= i)

RenameMain(t) ==
  /\ job[t].pc = "renameMain"
  /\ Rename(t, "main", NewMainPath(t), "newMain", "renameThumb")

RenameThumb(t) ==
  /\ job[t].pc = "renameThumb"
  /\ Rename(t, "thumb", NewThumbPath(t), "newThumb",
            IF job[t].content \in Video THEN "renameDerived" ELSE "commit")

RenameDerived(t) ==
  /\ job[t].pc = "renameDerived"
  /\ Rename(t, "derived", NewDerivedPath(t), "newDerived", "commit")

Renaming == [renameMain |-> "main", renameThumb |-> "thumb", renameDerived |-> "derived"]

\* A rename fails: its temporary file is removed on the spot, and the flags
\* that are set say what else the deferred functions remove.
RenameFails(t) ==
  /\ Fault("rename") /\ job[t].pc \in DOMAIN Renaming
  /\ LET k == Renaming[job[t].pc] IN
     /\ temp' = [temp EXCEPT ![t] = @ \ {k}]
     /\ job' = [job EXCEPT ![t].pc = "cleanup", ![t].destroy = @ \ {k}]
  /\ UNCHANGED <<pics, usedIds, lock, fs, doomed>>

\* Broken: PicIdents read before are not protected.
CanCommitBlind(t) == job[t].open
\* A transaction that inserts found no PicIdent of the content; by then another
\* may have committed one.
CanCommit(t) == job[t].open /\ (job[t].new => Matches(job[t].content) = {})

\* The three destroyNew flags are dropped before the commit: whatever comes of
\* it, the files stay.
CommitUpsert(t) ==
  /\ job[t].pc = "commit" /\ CanCommit(t)
  /\ pics' = [pics EXCEPT ![job[t].pic] = job[t].row]
  /\ usedIds' = usedIds \cup {job[t].pic}
  /\ Release(t) /\ Finish(t)
  /\ UNCHANGED <<fs, temp, doomed>>

\* Broken: a commit that reports an error has the new files removed.
CommitUpsertFailsCleans(t) ==
  /\ job[t].pc = "commit" /\ (Fault("commit") \/ ~CanCommit(t))
  /\ pics' \in {pics} \cup
       IF CanCommit(t) THEN {[pics EXCEPT ![job[t].pic] = job[t].row]} ELSE {}
  /\ usedIds' = usedIds \cup {p \in PicId : pics'[p] # NoPic}
  /\ job' = [job EXCEPT ![t].pc = "cleanup", ![t].open = FALSE]
  /\ Release(t)
  /\ UNCHANGED <<fs, temp, doomed>>

CommitUpsertFails(t) ==
  /\ job[t].pc = "commit" /\ (Fault("commit") \/ ~CanCommit(t))
  /\ Release(t) /\ Finish(t)
  /\ UNCHANGED <<pics, usedIds, fs, temp, doomed>>

NewPath(t, flag) == CASE flag = "newMain"    -> NewMainPath(t)
                      [] flag = "newThumb"   -> NewThumbPath(t)
                      [] flag = "newDerived" -> NewDerivedPath(t)

\* The deferred functions run, last one first; each removes its file if its
\* flag is still set, and tries only once.
CleanupFile(t) ==
  /\ job[t].pc = "cleanup"
  /\ \E n \in DOMAIN Destroy : LET flag == Destroy[n] IN
     /\ flag \in job[t].destroy
     /\ \A m \in 1..(n - 1) : Destroy[m] \notin job[t].destroy
     /\ job' = [job EXCEPT ![t].destroy = @ \ {flag}]
     /\ IF flag \in TempKind
          THEN /\ temp' = [temp EXCEPT ![t] = @ \ {flag}]
               /\ UNCHANGED fs
          ELSE /\ \/ fs' = [fs EXCEPT ![NewPath(t, flag)] = NoFile]
                  \/ Fault("remove") /\ UNCHANGED fs
               /\ UNCHANGED temp
  /\ UNCHANGED <<pics, usedIds, lock, doomed>>

\* Broken: there is no deferred revert.
RevertForgotten(t) ==
  /\ job[t].pc = "cleanup" /\ job[t].destroy = {}
  /\ Finish(t)
  /\ UNCHANGED <<pics, usedIds, lock, fs, temp, doomed>>

\* The last deferred function is revert: the transaction is rolled back.
Revert(t) ==
  /\ job[t].pc = "cleanup" /\ job[t].destroy = {}
  /\ Release(t) /\ Finish(t)
  /\ UNCHANGED <<pics, usedIds, fs, temp, doomed>>

\* The request is cancelled: its transaction is gone, the task goes on.
Cancel(t) ==
  /\ Fault("cancel") /\ job[t].open
  /\ job' = [job EXCEPT ![t].open = FALSE]
  /\ Release(t)
  /\ UNCHANGED <<pics, usedIds, fs, temp, doomed>>

-----------------------------------------------------------------------------
\* SoftDeletePicTask, HardDeletePicTask and PurgePicTask, up to their commit.
\* One that fails changes nothing.

Deletable(t, p) == job[t].pc = "idle" /\ p \in Stored /\ Unlocked(p)

SoftDelete(t, p, temporary) ==
  /\ Deletable(t, p) /\ ~HardDeleted(pics[p])
  /\ pics' = [pics EXCEPT ![p].del = "soft", ![p].temporary = temporary]
  /\ UNCHANGED <<usedIds, lock, fs, temp, job, doomed>>

\* After the commit the files are removed; if the commit reports an error,
\* though it was applied, they are not.
RemoveLater(t, files) ==
  \/ Goto(t, "remove") /\ doomed' = [doomed EXCEPT ![t] = files]
  \/ Fault("commit") /\ UNCHANGED <<job, doomed>>

HardDelete(t, p) ==
  /\ Deletable(t, p) /\ ~HardDeleted(pics[p])
  /\ pics' = [pics EXCEPT ![p].del = "hard", ![p].thumbs = {}]
  /\ RemoveLater(t, MainAndThumbs(p, pics[p]))
  /\ UNCHANGED <<usedIds, lock, fs, temp>>

Purge(t, p) ==
  /\ Deletable(t, p)
  /\ pics' = [pics EXCEPT ![p] = NoPic]
  /\ RemoveLater(t, MainAndThumbs(p, pics[p]))
  /\ UNCHANGED <<usedIds, lock, fs, temp>>

\* The file first, then the thumbnails; a file that can't be removed, or is
\* not there, is reported and left.
RemoveFile(t) ==
  /\ job[t].pc = "remove"
  /\ \E f \in doomed[t] :
       /\ f.index = -1 \/ \A g \in doomed[t] : g.index # -1
       /\ doomed' = [doomed EXCEPT ![t] = @ \ {f}]
       /\ \/ fs' = [fs EXCEPT ![f] = NoFile]
          \/ Fault("remove") /\ UNCHANGED fs
  /\ UNCHANGED <<pics, usedIds, lock, temp, job>>

RemoveDone(t) ==
  /\ job[t].pc = "remove" /\ doomed[t] = {}
  /\ Finish(t)
  /\ UNCHANGED <<pics, usedIds, lock, fs, temp, doomed>>

\* A server process stops, with every task in it.
Crash(s) ==
  LET T == {t \in Task : Host[t] = s} IN
  /\ Fault("crash")
  /\ lock' = [p \in PicId |-> IF lock[p] \in T THEN None ELSE lock[p]]
  /\ job' = [t \in Task |-> IF t \in T THEN Idle ELSE job[t]]
  /\ doomed' = [t \in Task |-> IF t \in T THEN {} ELSE doomed[t]]
  /\ temp' = [t \in Task |-> IF t \in T THEN {} ELSE temp[t]]
  /\ UNCHANGED <<pics, usedIds, fs>>

\* What a task that has started does next, if nothing goes wrong.
Step(t) == \/ Reject(t) \/ MergeExisting(t) \/ StartNew(t) \/ StartUndelete(t)
           \/ Prepare(t)
           \/ PrepareFails(t) /\ MustFail(t)
           \/ RenameMain(t) \/ RenameThumb(t) \/ RenameDerived(t)
           \/ CommitUpsert(t) \/ CommitUpsertFails(t)
           \/ CleanupFile(t) \/ Revert(t) \/ RemoveFile(t) \/ RemoveDone(t)

Next == \/ \E t \in Task :
             \/ \E c \in Content : Upload(t, c)
             \/ Step(t) \/ PrepareFails(t) \/ RenameFails(t) \/ Cancel(t)
             \/ \E p \in PicId :
                  \/ \E temporary \in Temporaries : SoftDelete(t, p, temporary)
                  \/ HardDelete(t, p) \/ Purge(t, p)
        \/ \E s \in Server : Crash(s)

Spec == Init /\ [][Next]_vars

\* Goroutines are scheduled, and the rows they wait for become free.
FairSpec == Spec /\ \A t \in Task : SF_vars(Step(t))

-----------------------------------------------------------------------------
\* Properties.

Flags == {Destroy[n] : n \in DOMAIN Destroy}
Job == [pc : PC, content : Content, pic : PicId, row : Row,
        open : BOOLEAN, new : BOOLEAN, destroy : SUBSET Flags]

TypeOK ==
  /\ pics \in [PicId -> Row \cup {NoPic}]
  /\ usedIds \subseteq PicId
  /\ lock \in [PicId -> Task \cup {None}]
  /\ fs \in [Path -> Content \cup {NoFile}]
  /\ temp \in [Task -> SUBSET TempKind]
  /\ job \in [Task -> Job]
  /\ doomed \in [Task -> SUBSET Path]

\* "Keep the files, even if commit fails. [...] deleting the files would be
\* corruption": all files of a picture that is not hard deleted are there, and
\* hold that picture.
LivePicsHaveFiles ==
  \A p \in Stored : ~HardDeleted(pics[p]) =>
    \A f \in Referenced(p, pics[p]) : fs[f] = pics[p].content

\* findExistingPic takes the first PicIdent of a hash, whose index is not
\* unique: no two pictures ever have the same hash, whoever uploads at once.
OnePicPerContent ==
  \A p, q \in Stored : pics[p].content = pics[q].content => p = q

\* nextPicFileIndex never finds an index used twice, so it does not panic, and
\* the thumbnail and the derived file of a picture never share a name.
IndexesDiffer ==
  /\ \A p \in Stored : pics[p].thumbs \cap pics[p].derived = {}
  /\ \A t \in Task : job[t].row.thumbs \cap job[t].row.derived = {}

\* Whichever step UpsertPicTask.Run fails at, when it returns it has renamed or
\* tried to remove every temporary file that it made.
TempFilesGo == \A t \in Task : job[t].pc \in {"idle", "remove"} => temp[t] = {}

\* t works on the files of p.
AtWorkOn(t, p) ==
  \/ job[t].pc \notin {"idle", "find", "remove"} /\ job[t].pic = p
  \/ \E f \in doomed[t] : f.pic = p

\* "After purging an image, the site will act as if it had never been uploaded"
\* (docs/deletion.md): when nobody is at work on a picture that was purged or
\* hard deleted, none of its files is left.
NothingLeftBehind ==
  \A p \in usedIds :
    \/ p \in Stored /\ ~HardDeleted(pics[p])
    \/ \E t \in Task : AtWorkOn(t, p)
    \/ \A f \in Path : f.pic = p => fs[f] = NoFile

\* The state of a picture, as users see it.
StateOf(r) == CASE r.del = "none" -> "live"
                [] r.del = "soft" -> IF r.temporary THEN "softTemporary" ELSE "soft"
                [] r.del = "hard" -> IF r.temporary THEN "hardTemporary" ELSE "hard"
State == [c \in Content |->
            IF Matches(c) = {} THEN "absent"
                               ELSE StateOf(pics[CHOOSE p \in Matches(c) : TRUE])]

Life == INSTANCE PicLifecycle WITH state <- State

\* Tasks that upload, delete and purge at once, and fail half-way, take a
\* picture only along the steps that PicLifecycle allows.
LifecycleKept == Life!Spec

\* Every run of a task ends.
TasksEnd == \A t \in Task : job[t].pc # "idle" ~> job[t].pc = "idle"
==============================================================================
