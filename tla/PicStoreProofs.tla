---------------------------- MODULE PicStoreProofs ----------------------------
(***************************************************************************)
(* Proofs about PicStore, for any number of servers, goroutines, pictures  *)
(* and ids.                                                                *)
(***************************************************************************)
EXTENDS PicStore, WellFoundedInduction, TLAPS

\* The picture and the row an upsert is working on are settled.
Working == {"prepare", "renameMain", "renameThumb", "renameDerived", "commit"}
Prepared == Working \ {"prepare"}

\* Rows have had their ids; a hard deleted row refers to no thumbnail.
RowsInv == \A p \in Stored : /\ p \in usedIds
                             /\ HardDeleted(pics[p]) => pics[p].thumbs = {}

\* A row that is being prepared has room for two more files, and its deletion
\* is temporary, if it has one.
PrepareInv == \A t \in Task : job[t].pc = "prepare" =>
  /\ job[t].row.thumbs = {} /\ ~OutOfIndexes(job[t].row)
  /\ HardDeleted(job[t].row) => job[t].row.temporary

\* The row an upsert prepared is for the picture that was uploaded.
SettledInv == \A t \in Task :
  /\ job[t].pc \in Working => job[t].row.content = job[t].content
  /\ job[t].pc \in Prepared => ~HardDeleted(job[t].row)

\* Nothing is inserted before findExistingPic has looked.
FindInv == \A t \in Task : job[t].pc \in {"idle", "find"} => ~job[t].new

\* The id of a row that will be inserted is no other's.
NewInv == \A t \in Task : job[t].open /\ job[t].new =>
  /\ job[t].pic \notin usedIds
  /\ \A u \in Task : job[u].open /\ job[u].new /\ job[u].pic = job[t].pic => u = t

\* A row that will be undeleted is there, hard deleted, and nobody else's.
OwnInv == \A t \in Task : job[t].pc \in Working /\ job[t].open /\ ~job[t].new =>
  /\ lock[job[t].pic] = t
  /\ job[t].pic \in Stored
  /\ HardDeleted(pics[job[t].pic])
  /\ pics[job[t].pic].content = job[t].content

RowInv == /\ TypeOK /\ RowsInv /\ PrepareInv /\ SettledInv /\ FindInv /\ NewInv /\ OwnInv
          /\ OnePicPerContent /\ IndexesDiffer

-----------------------------------------------------------------------------
\* Where no deletion is temporary and no request is cancelled.
NoUndelete == Temporaries \subseteq {FALSE} /\ ~Fault("cancel")

NewFlags == {"newMain", "newThumb", "newDerived"}

\* Every upsert that has moved a file, or will, inserts its row.
InsertInv ==
  /\ \A p \in Stored : ~pics[p].temporary
  /\ \A t \in Task : job[t].pc \in Working \/ job[t].destroy \cap NewFlags # {}
                      => job[t].open /\ job[t].new

\* Its row refers to the files it made and to no other.
MadeInv == \A t \in Task :
  /\ job[t].pc = "prepare" => job[t].row.derived = {}
  /\ job[t].pc \in Working => ~job[t].row.temporary
  /\ job[t].pc = "renameDerived" => job[t].content \in Video
  /\ job[t].pc \in Prepared =>
       /\ job[t].row.thumbs = {NewThumbPath(t).index}
       /\ job[t].row.derived = IF job[t].content \in Video
                                 THEN {NewDerivedPath(t).index} ELSE {}

\* The files it has moved are there.
MovedInv == \A t \in Task :
  /\ job[t].pc \in {"renameThumb", "renameDerived", "commit"} =>
       fs[NewMainPath(t)] = job[t].content
  /\ job[t].pc \in {"renameDerived", "commit"} =>
       fs[NewThumbPath(t)] = job[t].content
  /\ job[t].pc = "commit" /\ job[t].content \in Video =>
       fs[NewDerivedPath(t)] = job[t].content

\* Only files of pictures that are gone are waiting to be removed.
DoomedInv == \A t \in Task : \A f \in doomed[t] :
  /\ f.pic \in usedIds
  /\ f.pic \in Stored => HardDeleted(pics[f.pic])

FileInv == RowInv /\ InsertInv /\ MadeInv /\ MovedInv /\ DoomedInv /\ LivePicsHaveFiles

-----------------------------------------------------------------------------
\* Indexes.

LessThan == {ss \in Nat \X Nat : ss[1] < ss[2]}

\* Every set of natural numbers that is not empty has a least element.
LEMMA Least == ASSUME NEW S \in SUBSET Nat, S # {}
               PROVE  \E i \in S : \A j \in S : i <= j
<1>1. IsWellFoundedOn(LessThan, Nat)
  BY NatLessThanWellFounded, Zenon DEF OpToRel, LessThan
<1>2. PICK i \in S : \A j \in S : <<j, i>> \notin LessThan
  BY <1>1, WFMin, Zenon
<1>3. ASSUME NEW j \in S PROVE i <= j
  <2>1. <<j, i>> \notin LessThan BY <1>2
  <2>2. i \in Nat /\ j \in Nat OBVIOUS
  <2> QED BY <2>1, <2>2 DEF LessThan
<1> QED BY <1>3

\* nextPicFileIndex finds an index that is in use neither as a thumbnail's nor
\* as a derived file's, whenever there is one.
LEMMA FreeIndex == ASSUME NEW S, Free(S) # {}
                   PROVE  nextPicFileIndex(S) \in Index \ S
<1>1. Free(S) \in SUBSET Nat BY DEF Free, Index
<1>2. \E i \in Free(S) : \A j \in Free(S) : i <= j BY <1>1, Least
<1>3. nextPicFileIndex(S) \in Free(S) BY <1>2, Zenon DEF nextPicFileIndex
<1> QED BY <1>3 DEF Free

\* The row that Prepare makes has both files, under indexes of their own.
LEMMA PreparedRow ==
  ASSUME NEW r \in Row, r.thumbs = {}, ~OutOfIndexes(r)
  PROVE  LET d == WithDerived(r)
             m == Merged(WithThumb(d)) IN
         /\ m \in Row
         /\ m.content = r.content
         /\ m.thumbs \cap m.derived = {}
         /\ \E i \in Index : m.thumbs = {i}
         /\ \/ r.content \notin Video /\ m.derived = r.derived
            \/ r.content \in Video /\ \E i \in Index : m.derived = r.derived \cup {i}
         /\ m.del = IF r.temporary THEN "none" ELSE r.del
         /\ ~m.temporary
<1> DEFINE d == WithDerived(r)
           w == WithThumb(d)
<1>1. PICK i, j \in Free(r.derived) : i # j BY DEF OutOfIndexes
<1>2. /\ d \in Row /\ d.content = r.content /\ d.thumbs = {}
      /\ d.del = r.del /\ d.temporary = r.temporary
      /\ \/ r.content \notin Video /\ d.derived = r.derived
         \/ r.content \in Video /\ \E k \in Index : d.derived = r.derived \cup {k}
  <2>1. r.thumbs \cup r.derived = r.derived OBVIOUS
  <2>2. nextPicFileIndex(r.derived) \in Index BY <1>1, FreeIndex
  <2> QED BY <2>1, <2>2 DEF WithDerived, Row
<1>3. Free(d.derived) # {} BY <1>1, <1>2 DEF Free
<1>4. nextPicFileIndex(d.derived) \in Index \ d.derived BY <1>3, FreeIndex
<1>5. d.thumbs \cup d.derived = d.derived BY <1>2
<1>6. /\ w \in Row /\ w.content = r.content /\ w.derived = d.derived
      /\ w.thumbs = {nextPicFileIndex(d.derived)}
      /\ w.del = r.del /\ w.temporary = r.temporary
  BY <1>2, <1>4, <1>5 DEF WithThumb, Row
<1>7. /\ Merged(w) \in Row /\ Merged(w).content = w.content
      /\ Merged(w).thumbs = w.thumbs /\ Merged(w).derived = w.derived
      /\ Merged(w).del = IF r.temporary THEN "none" ELSE r.del
      /\ ~Merged(w).temporary
  BY <1>6 DEF Merged, Row
<1> QED BY <1>2, <1>4, <1>6, <1>7

-----------------------------------------------------------------------------
\* Types.

\* The flags of UpsertPicTask.Run.
LEMMA FlagSet ==
  Flags = {"newDerived", "newThumb", "newMain", "thumb", "derived", "main"}
BY DEF Flags, Destroy

\* A task that has not started is well-formed.
LEMMA IdleJob == Idle \in Job /\ NoRow \in Row
<1>1. NoRow \in Row BY ContentAssumption DEF NoRow, Row
<1>2. Idle.pic \in PicId BY PicIdAssumption DEF Idle
<1>3. (CHOOSE c \in Content : TRUE) \in Content BY ContentAssumption
<1> QED BY <1>1, <1>2, <1>3 DEF Idle, Job, PC

\* Types hold at first.
LEMMA InitTypeOK == Init => TypeOK
BY IdleJob DEF Init, TypeOK

\* What the steps do to the record of a task.
LEMMA JobRow ==
  ASSUME NEW j \in Job, NEW p \in PicId, NEW r \in Row
  PROVE  /\ [j EXCEPT !.pc = "prepare", !.pic = p, !.new = TRUE, !.row = r] \in Job
         /\ [j EXCEPT !.pc = "prepare", !.pic = p, !.row = r] \in Job
BY DEF Job, PC

LEMMA JobPrepared ==
  ASSUME NEW j \in Job, NEW r \in Row, NEW d \in SUBSET Flags
  PROVE  [j EXCEPT !.pc = "renameMain", !.row = r, !.destroy = d] \in Job
BY DEF Job, PC

LEMMA JobMoves ==
  ASSUME NEW j \in Job, NEW l \in PC, NEW d \in SUBSET Flags
  PROVE  [j EXCEPT !.pc = l, !.destroy = d] \in Job
BY DEF Job

LEMMA JobCloses == ASSUME NEW j \in Job
                   PROVE  [j EXCEPT !.pc = "cleanup", !.open = FALSE] \in Job
BY DEF Job, PC

\* Every step of Next keeps the types.
LEMMA TypeStep == ASSUME TypeOK, PrepareInv, [Next]_vars PROVE TypeOK'
<1>0. \A t \in Task : job[t] \in Job
  BY DEF TypeOK
<1> USE DEF TypeOK
<1>1. ASSUME NEW t \in Task, NEW c \in Content, Upload(t, c) PROVE TypeOK'
  <2> DEFINE j == [job[t] EXCEPT !.pc = "find", !.content = c, !.open = TRUE,
                                 !.destroy = {"main"}]
  <2>1. j \in Job
    <3>1. job[t] \in Job /\ {"main"} \in SUBSET Flags BY FlagSet
    <3> HIDE DEF TypeOK
    <3> QED BY <3>1 DEF Job, PC
  <2>2. job' = [job EXCEPT ![t] = j] BY <1>1 DEF Upload
  <2>3. job' \in [Task -> Job] BY <2>1, <2>2
  <2> QED BY <1>1, <2>3 DEF Upload, TempKind
<1>2. ASSUME NEW t \in Task, NEW l \in PC, Goto(t, l) PROVE job' \in [Task -> Job]
  BY SMTT(60), <1>2 DEF Goto, Job
<1>3. ASSUME NEW t \in Task, Finish(t) PROVE job' \in [Task -> Job]
  BY <1>3, IdleJob DEF Finish
<1>4. ASSUME NEW t \in Task, Release(t) PROVE lock' \in [PicId -> Task \cup {None}]
  BY <1>4 DEF Release
<1>5. \A r \in Row : Merged(r) \in Row
  BY DEF Merged, Row
<1>6. ASSUME NEW t \in Task, Reject(t) PROVE TypeOK'
  BY <1>2, <1>6 DEF Reject, PC
<1>7. ASSUME NEW t \in Task, MergeExisting(t) PROVE TypeOK'
  <2>1. PICK p \in PicId : /\ pics[p] \in Row
                           /\ pics' = [pics EXCEPT ![p] = Merged(pics[p])]
    BY <1>7 DEF MergeExisting, Matches, Stored
  <2>2. pics' \in [PicId -> Row \cup {NoPic}] BY <1>5, <2>1
  <2> DEFINE j == [job[t] EXCEPT !.pc = "cleanup", !.open = FALSE]
  <2>3. j \in Job BY <1>0, JobCloses
  <2>4. job' = [job EXCEPT ![t] = j] BY <1>7 DEF MergeExisting
  <2>5. job' \in [Task -> Job] BY <2>3, <2>4
  <2> QED BY <1>7, <2>2, <2>5 DEF MergeExisting
<1>8. ASSUME NEW t \in Task, StartNew(t) PROVE TypeOK'
  <2> DEFINE r == [NoRow EXCEPT !.content = job[t].content]
  <2>1. r \in Row
    <3>1. job[t].content \in Content BY DEF Job
    <3> QED BY <3>1, IdleJob DEF Row
  <2>2. PICK p \in PicId :
          job' = [job EXCEPT ![t].pc = "prepare", ![t].pic = p, ![t].new = TRUE,
                             ![t].row = r]
    BY <1>8 DEF StartNew, FreshIds
  <2> HIDE DEF r
  <2> DEFINE j == [job[t] EXCEPT !.pc = "prepare", !.pic = p, !.new = TRUE, !.row = r]
  <2>3. j \in Job
    <3> HIDE DEF TypeOK
    <3> QED BY <1>0, <2>1, JobRow
  <2>4. job' = [job EXCEPT ![t] = j] BY <2>2
  <2>5. job' \in [Task -> Job] BY <2>3, <2>4
  <2> QED BY <1>8, <2>5 DEF StartNew
<1>9. ASSUME NEW t \in Task, StartUndelete(t) PROVE TypeOK'
  <2>1. PICK p \in PicId :
          /\ pics[p] \in Row
          /\ lock' = [lock EXCEPT ![p] = t]
          /\ job' = [job EXCEPT ![t].pc = "prepare", ![t].pic = p, ![t].row = pics[p]]
    BY <1>9 DEF StartUndelete, Matches, Stored
  <2> DEFINE j == [job[t] EXCEPT !.pc = "prepare", !.pic = p, !.row = pics[p]]
  <2>2. j \in Job
    <3> HIDE DEF TypeOK
    <3> QED BY <1>0, <2>1, JobRow
  <2>3. job' = [job EXCEPT ![t] = j] BY <2>1
  <2>4. job' \in [Task -> Job] BY <2>2, <2>3
  <2> QED BY <1>9, <2>1, <2>4 DEF StartUndelete
<1>10. ASSUME NEW t \in Task, Prepare(t) PROVE TypeOK'
  <2> DEFINE m == Merged(WithThumb(WithDerived(job[t].row)))
  <2>1. m \in Row BY <1>10, PreparedRow DEF Prepare, In, PrepareInv, Job
  <2>2. Made(job[t].content) \subseteq TempKind BY DEF Made, TempKind
  <2>3. TempKind \subseteq Flags BY FlagSet DEF TempKind
  <2>4. job' = [job EXCEPT ![t].pc = "renameMain", ![t].row = m,
                           ![t].destroy = @ \cup Made(job[t].content)]
    BY <1>10 DEF Prepare
  <2> HIDE DEF m
  <2> DEFINE j == [job[t] EXCEPT !.pc = "renameMain", !.row = m,
                                 !.destroy = @ \cup Made(job[t].content)]
  <2>5. j \in Job
    <3>1. job[t].destroy \cup Made(job[t].content) \in SUBSET Flags
      BY <2>2, <2>3 DEF Job
    <3> HIDE DEF TypeOK
    <3> QED BY <1>0, <2>1, <3>1, JobPrepared
  <2>6. job' = [job EXCEPT ![t] = j] BY <2>4
  <2>7. job' \in [Task -> Job] BY <2>5, <2>6
  <2> QED BY <1>10, <2>2, <2>7 DEF Prepare
<1>11. ASSUME NEW t \in Task, PrepareFails(t) PROVE TypeOK'
  BY <1>2, <1>11 DEF PrepareFails, PC
<1>12. ASSUME NEW t \in Task, NEW k, NEW f, NEW flag \in Flags, NEW next \in PC,
              Rename(t, k, f, flag, next)
       PROVE  TypeOK'
  <2>1. job[t].content \in Content BY DEF Job
  <2> DEFINE d == (job[t].destroy \ {k}) \cup {flag}
             j == [job[t] EXCEPT !.pc = next, !.destroy = d]
  <2>2. job' \in [Task -> Job]
    <3>1. d \in SUBSET Flags BY DEF Job
    <3>2. j \in Job
      <4> HIDE DEF TypeOK, d
      <4> QED BY <1>0, <3>1, JobMoves
    <3>3. job' = [job EXCEPT ![t] = j] BY <1>12 DEF Rename
    <3> HIDE DEF j
    <3> QED BY <3>2, <3>3
  <2> QED BY <1>12, <2>1, <2>2 DEF Rename
<1>13. ASSUME NEW t \in Task, RenameMain(t) \/ RenameThumb(t) \/ RenameDerived(t)
       PROVE  TypeOK'
  BY <1>12, <1>13, FlagSet DEF RenameMain, RenameThumb, RenameDerived, PC
<1>14. ASSUME NEW t \in Task, RenameFails(t) PROVE TypeOK'
  <2>1. PICK k : /\ temp' = [temp EXCEPT ![t] = @ \ {k}]
                 /\ job' = [job EXCEPT ![t].pc = "cleanup", ![t].destroy = @ \ {k}]
    BY <1>14 DEF RenameFails
  <2> DEFINE j == [job[t] EXCEPT !.pc = "cleanup", !.destroy = @ \ {k}]
  <2>2. job' \in [Task -> Job]
    <3>1. job[t] \in Job BY DEF TypeOK
    <3>2. job[t].destroy \ {k} \in SUBSET Flags BY <3>1 DEF Job
    <3>3. "cleanup" \in PC BY DEF PC
    <3>4. j \in Job BY <3>1, <3>2, <3>3 DEF Job
    <3>5. job' = [job EXCEPT ![t] = j] BY <2>1
    <3> HIDE DEF j
    <3> QED BY <3>4, <3>5 DEF TypeOK
  <2> QED BY <1>14, <2>1, <2>2 DEF RenameFails
<1>15. ASSUME NEW t \in Task, CommitUpsert(t) PROVE TypeOK'
  <2>1. job[t].row \in Row /\ job[t].pic \in PicId BY DEF Job
  <2> QED BY <1>3, <1>4, <1>15, <2>1 DEF CommitUpsert
<1>16. ASSUME NEW t \in Task, CommitUpsertFails(t) PROVE TypeOK'
  BY <1>3, <1>4, <1>16 DEF CommitUpsertFails
<1>17. ASSUME NEW t \in Task, CleanupFile(t) PROVE TypeOK'
  <2>1. PICK flag : job' = [job EXCEPT ![t].destroy = @ \ {flag}]
    BY <1>17 DEF CleanupFile
  <2>2. job' \in [Task -> Job] BY <2>1 DEF Job
  <2>3. fs' \in [Path -> Content \cup {NoFile}] BY <1>17 DEF CleanupFile
  <2>4. temp' \in [Task -> SUBSET TempKind] BY <1>17 DEF CleanupFile
  <2> QED BY <1>17, <2>2, <2>3, <2>4 DEF CleanupFile
<1>18. ASSUME NEW t \in Task, Revert(t) PROVE TypeOK'
  BY <1>3, <1>4, <1>18 DEF Revert
<1>19. ASSUME NEW t \in Task, Cancel(t) PROVE TypeOK'
  <2>1. job' \in [Task -> Job] BY <1>19 DEF Cancel, Job
  <2> QED BY <1>4, <1>19, <2>1 DEF Cancel
<1>20. ASSUME NEW t \in Task, NEW p \in PicId, NEW temporary \in Temporaries,
              SoftDelete(t, p, temporary)
       PROVE  TypeOK'
  <2>1. pics[p] \in Row BY <1>20 DEF SoftDelete, Deletable, Stored
  <2>2. [pics[p] EXCEPT !.del = "soft", !.temporary = temporary] \in Row
    BY <2>1, FlagAssumption DEF Row
  <2>3. pics' = [pics EXCEPT ![p] =
                   [pics[p] EXCEPT !.del = "soft", !.temporary = temporary]]
    BY <1>20 DEF SoftDelete
  <2> QED BY <1>20, <2>2, <2>3 DEF SoftDelete
<1>21. ASSUME NEW t \in Task, NEW p \in PicId, NEW files \in SUBSET Path,
              RemoveLater(t, files)
       PROVE  job' \in [Task -> Job] /\ doomed' \in [Task -> SUBSET Path]
  BY <1>2, <1>21 DEF RemoveLater, PC
<1>22. ASSUME NEW p \in PicId, NEW r \in Row PROVE MainAndThumbs(p, r) \in SUBSET Path
  <2>1. PicFilePath(p, r.content) \in Path
    BY IndexAssumption DEF PicFilePath, Path, Mime
  <2>2. \A i \in r.thumbs : ThumbPath(p, i) \in Path
    BY DEF ThumbPath, Path, Row, Index
  <2> QED BY <2>1, <2>2 DEF MainAndThumbs, ThumbPaths
<1>23. ASSUME NEW t \in Task, NEW p \in PicId, HardDelete(t, p) PROVE TypeOK'
  <2>1. pics[p] \in Row BY <1>23 DEF HardDelete, Deletable, Stored
  <2>2. [pics[p] EXCEPT !.del = "hard", !.thumbs = {}] \in Row BY <2>1 DEF Row
  <2>3. pics' = [pics EXCEPT ![p] = [pics[p] EXCEPT !.del = "hard", !.thumbs = {}]]
    BY <1>23 DEF HardDelete
  <2>4. pics' \in [PicId -> Row \cup {NoPic}] BY <2>2, <2>3
  <2> QED BY <1>21, <1>22, <1>23, <2>1, <2>4 DEF HardDelete
<1>24. ASSUME NEW t \in Task, NEW p \in PicId, Purge(t, p) PROVE TypeOK'
  <2>1. pics[p] \in Row BY <1>24 DEF Purge, Deletable, Stored
  <2>2. pics' \in [PicId -> Row \cup {NoPic}] BY <1>24 DEF Purge
  <2> QED BY <1>21, <1>22, <1>24, <2>1, <2>2 DEF Purge
<1>25. ASSUME NEW t \in Task, RemoveFile(t) PROVE TypeOK'
  BY <1>25 DEF RemoveFile
<1>26. ASSUME NEW t \in Task, RemoveDone(t) PROVE TypeOK'
  BY <1>3, <1>26 DEF RemoveDone
<1>27. ASSUME NEW s \in Server, Crash(s) PROVE TypeOK'
  BY <1>27, IdleJob DEF Crash
<1>28. CASE UNCHANGED vars
  BY <1>28 DEF vars
<1> HIDE DEF TypeOK
<1> QED BY <1>1, <1>6, <1>7, <1>8, <1>9, <1>10, <1>11, <1>13, <1>14, <1>15, <1>16,
           <1>17, <1>18, <1>19, <1>20, <1>23, <1>24, <1>25, <1>26, <1>27, <1>28
        DEF Next, Step

-----------------------------------------------------------------------------
\* Rows.  Most steps leave the transactions of upserts as they are, or end
\* them, and change no row that one of them has locked.

Quiet(u) ==
  /\ job'[u].row.thumbs \cap job'[u].row.derived = {}
  /\ job'[u].pc \in {"idle", "find"} => ~job'[u].new
  /\ job'[u].open /\ job'[u].new =>
       job[u].open /\ job[u].new /\ job'[u].pic = job[u].pic
  /\ job'[u].pc \in Working =>
       /\ job[u].pc \in Working
       /\ job'[u].pc = "prepare" <=> job[u].pc = "prepare"
       /\ job'[u].row = job[u].row /\ job'[u].content = job[u].content
       /\ job'[u].pic = job[u].pic /\ job'[u].new = job[u].new
       /\ job'[u].open => /\ job[u].open
                          /\ \A p \in PicId : lock[p] = u => lock'[p] = u

RowKept(p) ==
  \/ pics'[p] = pics[p]
  \/ /\ p \in Stored /\ Unlocked(p)
     /\ \/ pics'[p] = NoPic
        \/ /\ pics'[p].content = pics[p].content
           /\ pics'[p].thumbs \subseteq pics[p].thumbs
           /\ pics'[p].derived = pics[p].derived
           /\ HardDeleted(pics'[p]) => pics'[p].thumbs = {}

\* A step that is quiet and keeps the rows keeps the invariant.
LEMMA QuietStep ==
  ASSUME RowInv, TypeOK', usedIds' = usedIds,
         \A u \in Task : Quiet(u), \A p \in PicId : RowKept(p)
  PROVE  RowInv'
<1>1. \A p \in Stored' : /\ p \in Stored
                         /\ pics'[p].content = pics[p].content
                         /\ pics'[p].thumbs \subseteq pics[p].thumbs
                         /\ pics'[p].derived = pics[p].derived
                         /\ HardDeleted(pics'[p]) => pics'[p].thumbs = {}
  BY DEF RowKept, Stored, RowInv, RowsInv
<1>2. RowsInv' BY <1>1 DEF RowInv, RowsInv
<1>3. OnePicPerContent' BY <1>1 DEF RowInv, OnePicPerContent
<1>4. IndexesDiffer'
  <2>1. \A p \in Stored' : pics'[p].thumbs \cap pics'[p].derived = {}
    BY <1>1 DEF RowInv, IndexesDiffer
  <2>2. \A u \in Task : job'[u].row.thumbs \cap job'[u].row.derived = {}
    BY DEF Quiet
  <2> QED BY <2>1, <2>2 DEF IndexesDiffer
<1>5. PrepareInv'
  <2> SUFFICES ASSUME NEW u \in Task, job'[u].pc = "prepare"
               PROVE  /\ job'[u].row.thumbs = {} /\ ~OutOfIndexes(job'[u].row)
                      /\ HardDeleted(job'[u].row) => job'[u].row.temporary
    BY DEF PrepareInv, OutOfIndexes, Free, HardDeleted
  <2>1. job[u].pc = "prepare" /\ job'[u].row = job[u].row
    BY DEF Quiet, Working
  <2> QED BY <2>1 DEF RowInv, PrepareInv
<1>6. SettledInv' BY DEF RowInv, SettledInv, Quiet, Prepared
<1>7. NewInv' BY DEF RowInv, NewInv, Quiet
<1>8. OwnInv'
  <2> SUFFICES ASSUME NEW u \in Task,
                      job'[u].pc \in Working, job'[u].open, ~job'[u].new
               PROVE  /\ lock'[job'[u].pic] = u
                      /\ job'[u].pic \in Stored'
                      /\ HardDeleted(pics'[job'[u].pic])
                      /\ pics'[job'[u].pic].content = job'[u].content
    BY DEF OwnInv
  <2> DEFINE p == job[u].pic
  <2>1. /\ job[u].pc \in Working /\ job[u].open /\ ~job[u].new
        /\ job'[u].pic = p /\ job'[u].content = job[u].content
        /\ p \in PicId /\ lock[p] = u => lock'[p] = u
    BY DEF Quiet, RowInv, TypeOK, Job
  <2>2. /\ lock[p] = u /\ p \in Stored
        /\ HardDeleted(pics[p]) /\ pics[p].content = job[u].content
    BY <2>1 DEF RowInv, OwnInv
  <2>3. ~Unlocked(p) BY <2>2, NoneAssumption DEF Unlocked
  <2>4. p \in PicId BY <2>2 DEF Stored
  <2>5. pics'[p] = pics[p] BY <2>3, <2>4 DEF RowKept
  <2> QED BY <2>1, <2>2, <2>5 DEF Stored
<1>9. FindInv' BY DEF FindInv, Quiet
<1> QED BY <1>2, <1>3, <1>4, <1>5, <1>6, <1>7, <1>8, <1>9 DEF RowInv

\* A task does not disturb another by changing its own job.
LEMMA OthersQuiet ==
  ASSUME RowInv, NEW t \in Task, NEW u \in Task, u # t, job'[u] = job[u],
         \A p \in PicId : lock[p] = u => lock'[p] = u
  PROVE  Quiet(u)
BY DEF Quiet, RowInv, IndexesDiffer, FindInv

\* A quiet step of one task, which may end its transaction.
LEMMA OneJob ==
  ASSUME RowInv, TypeOK', NEW t \in Task, usedIds' = usedIds,
         \A u \in Task : u # t => job'[u] = job[u],
         lock' = lock \/ Release(t),
         Quiet(t), \A p \in PicId : RowKept(p)
  PROVE  RowInv'
<1>1. ASSUME NEW u \in Task, u # t, NEW p \in PicId, lock[p] = u
      PROVE  lock'[p] = u
  BY <1>1 DEF Release
<1>2. \A u \in Task : Quiet(u) BY <1>1, OthersQuiet
<1> QED BY <1>2, QuietStep

\* The steps of Next that are quiet.
LEMMA QuietActions ==
  ASSUME RowInv, TypeOK', NEW t \in Task,
         \/ \E c \in Content : Upload(t, c)
         \/ Reject(t) \/ MergeExisting(t) \/ PrepareFails(t)
         \/ RenameMain(t) \/ RenameThumb(t) \/ RenameDerived(t) \/ RenameFails(t)
         \/ CommitUpsertFails(t) \/ CleanupFile(t) \/ Revert(t) \/ Cancel(t)
         \/ \E p \in PicId :
              \/ \E temporary \in Temporaries : SoftDelete(t, p, temporary)
              \/ HardDelete(t, p) \/ Purge(t, p)
         \/ RemoveFile(t) \/ RemoveDone(t)
  PROVE  RowInv'
<1> DEFINE Rest == \A u \in Task : u # t => job'[u] = job[u]
<1>1. job \in [Task -> Job] /\ job[t] \in Job BY DEF RowInv, TypeOK
<1>2. job[t].row.thumbs \cap job[t].row.derived = {} BY DEF RowInv, IndexesDiffer
<1>3. job[t].pc \in {"idle", "find"} => ~job[t].new BY DEF RowInv, FindInv
<1>4. Idle.row.thumbs = {} /\ Idle.pc = "idle" /\ ~Idle.open /\ ~Idle.new
  BY DEF Idle, NoRow
<1>5. pics' = pics => \A p \in PicId : RowKept(p) BY DEF RowKept
<1>6. job' = job /\ lock' = lock => Quiet(t) /\ Rest BY <1>2, <1>3 DEF Quiet
<1>7. ASSUME Finish(t) PROVE Quiet(t) /\ Rest
  <2>1. job'[t] = Idle /\ Rest BY <1>1, <1>7 DEF Finish
  <2> QED BY <2>1, <1>4 DEF Quiet, Working
<1>8. ASSUME NEW l \in {"cleanup", "remove"}, Goto(t, l) PROVE Quiet(t) /\ Rest
  <2>1. job'[t] = [job[t] EXCEPT !.pc = l] /\ Rest BY <1>1, <1>8 DEF Goto
  <2>2. l \notin Working /\ l \notin {"idle", "find"} BY DEF Working
  <2> QED BY <1>1, <1>2, <2>1, <2>2 DEF Quiet, Job
<1>9. ASSUME NEW D, job' = [job EXCEPT ![t].pc = "cleanup", ![t].destroy = D]
      PROVE Quiet(t) /\ Rest
  <2>1. job'[t] = [job[t] EXCEPT !.pc = "cleanup", !.destroy = D] /\ Rest
    BY <1>1, <1>9
  <2> QED BY <1>1, <1>2, <2>1 DEF Quiet, Job, Working
<1>10. ASSUME NEW c \in Content, Upload(t, c) PROVE RowInv'
  <2>1. job'[t] = [job[t] EXCEPT !.pc = "find", !.content = c, !.open = TRUE,
                                 !.destroy = {"main"}] /\ Rest
    BY <1>1, <1>10 DEF Upload
  <2>2. job[t].pc = "idle" BY <1>10 DEF Upload
  <2>3. job'[t].row = job[t].row /\ job'[t].pc = "find" /\ job'[t].new = job[t].new
    BY <1>1, <2>1 DEF Job
  <2>4. Quiet(t) BY <1>2, <1>3, <2>2, <2>3 DEF Quiet, Working
  <2> QED BY <1>5, <1>10, <2>1, <2>4, OneJob DEF Upload
<1>11. CASE Reject(t)
  BY <1>5, <1>8, <1>11, OneJob DEF Reject
<1>12. CASE MergeExisting(t)
  <2>1. job'[t] = [job[t] EXCEPT !.pc = "cleanup", !.open = FALSE] /\ Rest
    BY <1>1, <1>12 DEF MergeExisting
  <2>2. Quiet(t) BY <1>1, <1>2, <2>1 DEF Quiet, Job, Working
  <2>3. PICK p \in Stored : /\ Unlocked(p) /\ ~HardDeleted(pics[p])
                            /\ pics' = [pics EXCEPT ![p] = Merged(pics[p])]
    BY <1>12 DEF MergeExisting, Matches
  <2>4. pics \in [PicId -> Row \cup {NoPic}] /\ pics[p] \in Row
    BY DEF RowInv, TypeOK, Stored
  <2>5. /\ Merged(pics[p]).content = pics[p].content
        /\ Merged(pics[p]).thumbs = pics[p].thumbs
        /\ Merged(pics[p]).derived = pics[p].derived
        /\ ~HardDeleted(Merged(pics[p]))
    BY <2>3, <2>4 DEF Merged, Row, HardDeleted
  <2>6. \A q \in PicId : RowKept(q) BY <2>3, <2>4, <2>5 DEF RowKept, Stored
  <2> QED BY <1>12, <2>1, <2>2, <2>6, OneJob DEF MergeExisting
<1>13. CASE PrepareFails(t)
  BY <1>5, <1>8, <1>13, OneJob DEF PrepareFails
<1>14. ASSUME NEW k, NEW f, NEW flag, NEW next \in Prepared \ {"renameMain"},
              job[t].pc \in Prepared, Rename(t, k, f, flag, next)
       PROVE  RowInv'
  <2>1. job'[t] = [job[t] EXCEPT !.pc = next,
                                 !.destroy = (@ \ {k}) \cup {flag}] /\ Rest
    BY <1>1, <1>14 DEF Rename
  <2>2. /\ next \in Working /\ next \notin {"prepare", "idle", "find"}
        /\ job[t].pc \in Working \ {"prepare"}
    BY <1>14 DEF Prepared, Working
  <2>3. /\ job'[t].pc = next /\ job'[t].row = job[t].row
        /\ job'[t].content = job[t].content /\ job'[t].pic = job[t].pic
        /\ job'[t].open = job[t].open /\ job'[t].new = job[t].new
    BY <1>1, <2>1 DEF Job
  <2>4. lock' = lock BY <1>14 DEF Rename
  <2>5. Quiet(t) BY <1>2, <1>14, <2>2, <2>3, <2>4 DEF Quiet
  <2> QED BY <1>5, <1>14, <2>1, <2>5, OneJob DEF Rename
<1>15. CASE RenameMain(t) \/ RenameThumb(t) \/ RenameDerived(t)
  BY <1>14, <1>15 DEF RenameMain, RenameThumb, RenameDerived, Working, Prepared
<1>16. CASE RenameFails(t)
  <2>1. \E D : job' = [job EXCEPT ![t].pc = "cleanup", ![t].destroy = D]
    BY <1>16 DEF RenameFails
  <2> QED BY <1>5, <1>9, <1>16, <2>1, OneJob DEF RenameFails
<1>17. CASE CommitUpsertFails(t)
  BY <1>5, <1>7, <1>17, OneJob DEF CommitUpsertFails
<1>18. CASE CleanupFile(t)
  <2>1. PICK D : job' = [job EXCEPT ![t].destroy = D] BY <1>18 DEF CleanupFile
  <2>2. job'[t] = [job[t] EXCEPT !.destroy = D] /\ Rest BY <1>1, <2>1
  <2>3. job[t].pc = "cleanup" BY <1>18 DEF CleanupFile
  <2>4. Quiet(t) BY <1>1, <1>2, <2>2, <2>3 DEF Quiet, Job, Working
  <2> QED BY <1>5, <1>18, <2>2, <2>4, OneJob DEF CleanupFile
<1>19. CASE Revert(t)
  BY <1>5, <1>7, <1>19, OneJob DEF Revert
<1>20. CASE Cancel(t)
  <2>1. job'[t] = [job[t] EXCEPT !.open = FALSE] /\ Rest BY <1>1, <1>20 DEF Cancel
  <2>2. Quiet(t) BY <1>1, <1>2, <1>3, <2>1 DEF Quiet, Job
  <2> QED BY <1>5, <1>20, <2>1, <2>2, OneJob DEF Cancel
<1>21. ASSUME NEW p \in PicId, NEW temporary \in Temporaries,
              SoftDelete(t, p, temporary)
       PROVE  RowInv'
  <2>1. pics \in [PicId -> Row \cup {NoPic}] /\ pics[p] \in Row
    BY <1>21 DEF RowInv, TypeOK, SoftDelete, Deletable, Stored
  <2>2. RowKept(p)
    <3>1. pics'[p] = [pics[p] EXCEPT !.del = "soft", !.temporary = temporary]
      BY <1>21, <2>1 DEF SoftDelete
    <3>2. p \in Stored /\ Unlocked(p) BY <1>21 DEF SoftDelete, Deletable
    <3> QED BY <2>1, <3>1, <3>2 DEF RowKept, Row, HardDeleted
  <2>3. \A q \in PicId : q # p => pics'[q] = pics[q]
    BY <1>21, <2>1 DEF SoftDelete
  <2>4. \A q \in PicId : RowKept(q) BY <2>2, <2>3 DEF RowKept
  <2> QED BY <1>6, <1>21, <2>4, OneJob DEF SoftDelete
<1>22. ASSUME NEW files, RemoveLater(t, files), lock' = lock PROVE Quiet(t) /\ Rest
  BY <1>6, <1>8, <1>22 DEF RemoveLater
<1>23. ASSUME NEW p \in PicId, HardDelete(t, p) PROVE RowInv'
  <2>1. pics \in [PicId -> Row \cup {NoPic}] /\ pics[p] \in Row
    BY <1>23 DEF RowInv, TypeOK, HardDelete, Deletable, Stored
  <2>2. RowKept(p)
    <3>1. pics'[p] = [pics[p] EXCEPT !.del = "hard", !.thumbs = {}]
      BY <1>23, <2>1 DEF HardDelete
    <3>2. p \in Stored /\ Unlocked(p) BY <1>23 DEF HardDelete, Deletable
    <3> QED BY <2>1, <3>1, <3>2 DEF RowKept, Row, HardDeleted
  <2>3. \A q \in PicId : q # p => pics'[q] = pics[q]
    BY <1>23, <2>1 DEF HardDelete
  <2>4. \A q \in PicId : RowKept(q) BY <2>2, <2>3 DEF RowKept
  <2> QED BY <1>22, <1>23, <2>4, OneJob DEF HardDelete
<1>24. ASSUME NEW p \in PicId, Purge(t, p) PROVE RowInv'
  <2>1. pics \in [PicId -> Row \cup {NoPic}] BY DEF RowInv, TypeOK
  <2>2. \A q \in PicId : RowKept(q) BY <1>24, <2>1 DEF Purge, Deletable, RowKept
  <2> QED BY <1>22, <1>24, <2>2, OneJob DEF Purge
<1>25. CASE RemoveFile(t)
  BY <1>5, <1>6, <1>25, OneJob DEF RemoveFile
<1>26. CASE RemoveDone(t)
  BY <1>5, <1>7, <1>26, OneJob DEF RemoveDone
<1> QED BY <1>10, <1>11, <1>12, <1>13, <1>15, <1>16, <1>17, <1>18, <1>19, <1>20,
           <1>21, <1>23, <1>24, <1>25, <1>26

\* A server that stops ends the transactions of its tasks.
LEMMA CrashRows == ASSUME RowInv, TypeOK', NEW s \in Server, Crash(s) PROVE RowInv'
<1>1. ASSUME NEW u \in Task, Host[u] = s PROVE Quiet(u)
  <2>1. job'[u] = Idle BY <1>1 DEF Crash
  <2> QED BY <2>1 DEF Quiet, Idle, NoRow, Working
<1>2. ASSUME NEW u \in Task, Host[u] # s PROVE Quiet(u)
  <2>1. job'[u] = job[u] BY <1>2 DEF Crash
  <2>2. \A p \in PicId : lock[p] = u => lock'[p] = u BY <1>2 DEF Crash
  <2> QED BY <2>1, <2>2 DEF Quiet, RowInv, IndexesDiffer, FindInv
<1>3. \A p \in PicId : RowKept(p) BY DEF Crash, RowKept
<1>4. usedIds' = usedIds BY DEF Crash
<1> QED BY <1>1, <1>2, <1>3, <1>4, QuietStep

\* The steps of an upsert that are not quiet: it takes an id, or a row that it
\* will undelete, it prepares its row, and it commits it.
LEMMA StartNewRows == ASSUME RowInv, TypeOK', NEW t \in Task, StartNew(t) PROVE RowInv'
<1> DEFINE r == [NoRow EXCEPT !.content = job[t].content]
<1>1. PICK p \in FreshIds :
        job' = [job EXCEPT ![t].pc = "prepare", ![t].pic = p, ![t].new = TRUE, ![t].row = r]
  BY DEF StartNew
<1>2. job \in [Task -> Job] /\ job[t] \in Job /\ NoRow \in Row
  BY IdleJob DEF RowInv, TypeOK
<1>3. /\ r.content = job[t].content /\ r.thumbs = {} /\ r.derived = {}
      /\ ~HardDeleted(r)
  BY DEF NoRow, HardDeleted
<1> HIDE DEF r
<1>4. /\ job'[t].pc = "prepare" /\ job'[t].pic = p /\ job'[t].new /\ job'[t].row = r
      /\ job'[t].content = job[t].content /\ job'[t].open = job[t].open
      /\ \A u \in Task : u # t => job'[u] = job[u]
  <2>1. job'[t] = [job[t] EXCEPT !.pc = "prepare", !.pic = p, !.new = TRUE, !.row = r]
    BY <1>1, <1>2
  <2>2. \A u \in Task : u # t => job'[u] = job[u] BY <1>1, <1>2
  <2> QED BY <1>2, <2>1, <2>2 DEF Job
<1>5. UNCHANGED <<pics, usedIds, lock>> BY DEF StartNew
<1>6. RowsInv' /\ OnePicPerContent'
  BY <1>5 DEF RowInv, RowsInv, OnePicPerContent, Stored
<1>7. IndexesDiffer' BY <1>3, <1>4, <1>5 DEF RowInv, IndexesDiffer, Stored
<1>8. PrepareInv'
  <2>1. 0 \in Free(r.derived) /\ 1 \in Free(r.derived)
    BY <1>3, IndexAssumption DEF Free, Index
  <2>2. ~OutOfIndexes(r) BY <2>1 DEF OutOfIndexes
  <2> QED BY <1>3, <1>4, <2>2 DEF RowInv, PrepareInv
<1>9. SettledInv'
  BY <1>3, <1>4 DEF RowInv, SettledInv, Prepared
<1>10. FindInv' BY <1>4 DEF RowInv, FindInv
<1>11. NewInv'
  <2>1. p \notin usedIds BY DEF FreshIds
  <2>2. \A u \in Task : job[u].open /\ job[u].new => job[u].pic # p BY DEF FreshIds
  <2> SUFFICES ASSUME NEW u \in Task, NEW v \in Task, job'[u].open, job'[u].new
               PROVE  /\ job'[u].pic \notin usedIds
                      /\ (job'[v].open /\ job'[v].new /\ job'[v].pic = job'[u].pic) => v = u
    BY <1>5 DEF NewInv
  <2> QED BY <1>4, <2>1, <2>2 DEF RowInv, NewInv
<1>12. OwnInv' BY <1>4, <1>5 DEF RowInv, OwnInv, Stored
<1> QED BY <1>6, <1>7, <1>8, <1>9, <1>10, <1>11, <1>12 DEF RowInv

\* An upsert takes the row that it will undelete.
LEMMA StartUndeleteRows ==
  ASSUME RowInv, TypeOK', NEW t \in Task, StartUndelete(t) PROVE RowInv'
<1>1. PICK p \in Stored :
        /\ pics[p].content = job[t].content
        /\ Unlocked(p) /\ HardDeleted(pics[p]) /\ pics[p].temporary
        /\ ~OutOfIndexes(pics[p])
        /\ lock' = [lock EXCEPT ![p] = t]
        /\ job' = [job EXCEPT ![t].pc = "prepare", ![t].pic = p, ![t].row = pics[p]]
  BY DEF StartUndelete, Matches
<1>2. /\ job \in [Task -> Job] /\ job[t] \in Job
      /\ lock \in [PicId -> Task \cup {None}] /\ p \in PicId
  BY DEF RowInv, TypeOK, Stored
<1>3. /\ job'[t].pc = "prepare" /\ job'[t].pic = p /\ job'[t].row = pics[p]
      /\ job'[t].content = job[t].content /\ job'[t].open = job[t].open
      /\ job'[t].new = job[t].new
      /\ \A u \in Task : u # t => job'[u] = job[u]
  <2>1. job'[t] = [job[t] EXCEPT !.pc = "prepare", !.pic = p, !.row = pics[p]]
    BY <1>1, <1>2
  <2>2. \A u \in Task : u # t => job'[u] = job[u] BY <1>1, <1>2
  <2> QED BY <1>2, <2>1, <2>2 DEF Job
<1>4. UNCHANGED <<pics, usedIds>> BY DEF StartUndelete
<1>5. RowsInv' /\ OnePicPerContent'
  BY <1>4 DEF RowInv, RowsInv, OnePicPerContent, Stored
<1>6. IndexesDiffer' BY <1>1, <1>3, <1>4 DEF RowInv, IndexesDiffer, Stored
<1>7. PrepareInv' BY <1>1, <1>3 DEF RowInv, RowsInv, PrepareInv
<1>8. SettledInv' BY <1>1, <1>3 DEF RowInv, SettledInv, Prepared
<1>9. ~job[t].new BY DEF RowInv, FindInv, StartUndelete, In
<1>10. FindInv' BY <1>3, <1>9 DEF RowInv, FindInv
<1>11. NewInv' BY <1>3, <1>4, <1>9 DEF RowInv, NewInv
<1>12. OwnInv'
  <2> SUFFICES ASSUME NEW u \in Task,
                      job'[u].pc \in Working, job'[u].open, ~job'[u].new
               PROVE  /\ lock'[job'[u].pic] = u
                      /\ job'[u].pic \in Stored
                      /\ HardDeleted(pics[job'[u].pic])
                      /\ pics[job'[u].pic].content = job'[u].content
    BY <1>4 DEF OwnInv, Stored, HardDeleted
  <2>1. CASE u = t BY <1>1, <1>2, <1>3, <2>1
  <2>2. CASE u # t
    <3>1. /\ lock[job[u].pic] = u /\ job[u].pic \in Stored
          /\ HardDeleted(pics[job[u].pic])
          /\ pics[job[u].pic].content = job[u].content
      BY <1>3, <2>2 DEF RowInv, OwnInv
    <3>2. job[u].pic # p BY <1>1, <3>1, NoneAssumption DEF Unlocked
    <3> QED BY <1>1, <1>2, <1>3, <2>2, <3>1, <3>2
  <2> QED BY <2>1, <2>2
<1> QED BY <1>5, <1>6, <1>7, <1>8, <1>10, <1>11, <1>12 DEF RowInv

\* An upsert enters its files in its row.
LEMMA PrepareRows == ASSUME RowInv, TypeOK', NEW t \in Task, Prepare(t) PROVE RowInv'
<1> DEFINE m == Merged(WithThumb(WithDerived(job[t].row)))
<1>1. job \in [Task -> Job] /\ job[t] \in Job /\ job[t].row \in Row
  BY DEF RowInv, TypeOK, Job
<1>2. job[t].pc = "prepare" BY DEF Prepare, In
<1>3. /\ m.content = job[t].row.content
      /\ m.thumbs \cap m.derived = {}
      /\ ~HardDeleted(m)
  <2>1. /\ job[t].row.thumbs = {} /\ ~OutOfIndexes(job[t].row)
        /\ HardDeleted(job[t].row) => job[t].row.temporary
    BY <1>2 DEF RowInv, PrepareInv
  <2> QED BY <1>1, <2>1, PreparedRow DEF HardDeleted
<1>4. \E D : job' = [job EXCEPT ![t].pc = "renameMain", ![t].row = m, ![t].destroy = D]
  BY DEF Prepare
<1> HIDE DEF m
<1>5. /\ job'[t].pc = "renameMain" /\ job'[t].row = m /\ job'[t].pic = job[t].pic
      /\ job'[t].content = job[t].content /\ job'[t].open = job[t].open
      /\ job'[t].new = job[t].new
      /\ \A u \in Task : u # t => job'[u] = job[u]
  <2>1. PICK D : job' = [job EXCEPT ![t].pc = "renameMain", ![t].row = m, ![t].destroy = D]
    BY <1>4
  <2>2. job'[t] = [job[t] EXCEPT !.pc = "renameMain", !.row = m, !.destroy = D]
    BY <1>1, <2>1
  <2>3. \A u \in Task : u # t => job'[u] = job[u] BY <1>1, <2>1
  <2> QED BY <1>1, <2>2, <2>3 DEF Job
<1>6. UNCHANGED <<pics, usedIds, lock>> BY DEF Prepare
<1>7. RowsInv' /\ OnePicPerContent'
  BY <1>6 DEF RowInv, RowsInv, OnePicPerContent, Stored
<1>8. IndexesDiffer' BY <1>3, <1>5, <1>6 DEF RowInv, IndexesDiffer, Stored
<1>9. PrepareInv' BY <1>5 DEF RowInv, PrepareInv
<1>10. SettledInv' BY <1>2, <1>3, <1>5 DEF RowInv, SettledInv, Working
<1>11. FindInv' BY <1>5 DEF RowInv, FindInv
<1>12. NewInv' BY <1>5, <1>6 DEF RowInv, NewInv
<1>13. OwnInv' BY <1>2, <1>5, <1>6 DEF RowInv, OwnInv, Stored, Working
<1> QED BY <1>7, <1>8, <1>9, <1>10, <1>11, <1>12, <1>13 DEF RowInv

\* The commit of an upsert: the new row is the only one of its picture.
LEMMA CommitRows == ASSUME RowInv, TypeOK', NEW t \in Task, CommitUpsert(t) PROVE RowInv'
<1> DEFINE p == job[t].pic
           r == job[t].row
<1>1. /\ job \in [Task -> Job] /\ p \in PicId /\ r \in Row
      /\ pics \in [PicId -> Row \cup {NoPic}]
      /\ lock \in [PicId -> Task \cup {None}]
  BY DEF RowInv, TypeOK, Job
<1>2. /\ job[t].pc = "commit" /\ job[t].open
      /\ job[t].new => Matches(job[t].content) = {}
  BY DEF CommitUpsert, CanCommit
<1>3. pics'[p] = r /\ \A q \in PicId : q # p => pics'[q] = pics[q]
  BY <1>1 DEF CommitUpsert
<1>4. job'[t] = Idle /\ \A u \in Task : u # t => job'[u] = job[u]
  BY <1>1 DEF CommitUpsert, Finish
<1>5. usedIds' = usedIds \cup {p} BY DEF CommitUpsert
<1>6. \A q \in PicId : lock'[q] = IF lock[q] = t THEN None ELSE lock[q]
  BY DEF CommitUpsert, Release
<1>7. r # NoPic BY <1>1, NoPicAssumption
<1>8. Stored' = Stored \cup {p} BY <1>1, <1>3, <1>7 DEF Stored
<1>9. r.content = job[t].content /\ ~HardDeleted(r)
  BY <1>2 DEF RowInv, SettledInv, Working, Prepared
<1>10. /\ Idle.row.thumbs = {} /\ Idle.pc = "idle" /\ ~Idle.open /\ ~Idle.new
  BY DEF Idle, NoRow
<1>11. IF job[t].new
         THEN p \notin usedIds /\ p \notin Stored
         ELSE lock[p] = t /\ p \in Stored /\ pics[p].content = job[t].content
  BY <1>2 DEF RowInv, NewInv, OwnInv, RowsInv, Working
<1>12. RowsInv' BY <1>3, <1>5, <1>8, <1>9 DEF RowInv, RowsInv, Stored
<1>13. OnePicPerContent'
  <2>1. ASSUME NEW q \in Stored, q # p PROVE pics[q].content # r.content
    <3>1. CASE job[t].new BY <1>2, <1>9, <2>1, <3>1 DEF Matches
    <3>2. CASE ~job[t].new BY <1>9, <1>11, <2>1, <3>2 DEF RowInv, OnePicPerContent
    <3> QED BY <3>1, <3>2
  <2> SUFFICES ASSUME NEW q \in Stored', NEW z \in Stored',
                      pics'[q].content = pics'[z].content
               PROVE  q = z
    BY DEF OnePicPerContent
  <2>2. CASE q = p \/ z = p BY <1>3, <1>8, <2>1, <2>2 DEF Stored
  <2>3. CASE q # p /\ z # p
    BY <1>3, <1>8, <2>3 DEF RowInv, OnePicPerContent, Stored
  <2> QED BY <2>2, <2>3
<1>14. IndexesDiffer'
  <2>1. r.thumbs \cap r.derived = {} BY DEF RowInv, IndexesDiffer
  <2>2. \A q \in Stored' : pics'[q].thumbs \cap pics'[q].derived = {}
    BY <1>3, <1>8, <2>1 DEF RowInv, IndexesDiffer, Stored
  <2>3. \A u \in Task : job'[u].row.thumbs \cap job'[u].row.derived = {}
    BY <1>4, <1>10 DEF RowInv, IndexesDiffer
  <2> QED BY <2>2, <2>3 DEF IndexesDiffer
<1>15. PrepareInv' BY <1>4, <1>10 DEF RowInv, PrepareInv
<1>16. SettledInv' BY <1>4, <1>10 DEF RowInv, SettledInv, Working, Prepared
<1>17. FindInv' BY <1>4, <1>10 DEF RowInv, FindInv
<1>18. ASSUME NEW u \in Task, u # t, job[u].open, job[u].new PROVE job[u].pic # p
  BY <1>2, <1>11, <1>18 DEF RowInv, NewInv, RowsInv
<1>19. NewInv' BY <1>4, <1>5, <1>10, <1>18 DEF RowInv, NewInv
<1>20. OwnInv'
  <2> SUFFICES ASSUME NEW u \in Task,
                      job'[u].pc \in Working, job'[u].open, ~job'[u].new
               PROVE  /\ lock'[job'[u].pic] = u
                      /\ job'[u].pic \in Stored'
                      /\ HardDeleted(pics'[job'[u].pic])
                      /\ pics'[job'[u].pic].content = job'[u].content
    BY DEF OwnInv
  <2>1. u # t /\ job'[u] = job[u] BY <1>4, <1>10
  <2>2. /\ lock[job[u].pic] = u /\ job[u].pic \in Stored
        /\ HardDeleted(pics[job[u].pic])
        /\ pics[job[u].pic].content = job[u].content
    BY <2>1 DEF RowInv, OwnInv
  <2>3. job[u].pic # p BY <1>11, <2>1, <2>2 DEF RowInv, RowsInv
  <2>4. job[u].pic \in PicId BY <2>2 DEF Stored
  <2> QED BY <1>3, <1>6, <1>8, <2>1, <2>2, <2>3, <2>4
<1> QED BY <1>12, <1>13, <1>14, <1>15, <1>16, <1>17, <1>19, <1>20 DEF RowInv

\* The invariant of the rows holds at first.
LEMMA InitRows == Init => RowInv
<1> SUFFICES ASSUME Init PROVE RowInv OBVIOUS
<1>1. TypeOK BY InitTypeOK
<1>2. Stored = {} BY DEF Init, Stored
<1>3. \A t \in Task : /\ job[t].pc = "idle" /\ ~job[t].open /\ ~job[t].new
                      /\ job[t].row.thumbs = {}
  BY DEF Init, Idle, NoRow
<1> QED BY <1>1, <1>2, <1>3
        DEF RowInv, RowsInv, PrepareInv, SettledInv, FindInv, NewInv, OwnInv, Working,
            Prepared, OnePicPerContent, IndexesDiffer

\* A step that changes nothing keeps it.
LEMMA StutterRows == ASSUME RowInv, UNCHANGED vars PROVE RowInv'
<1>1. TypeOK' BY TypeStep DEF RowInv
<1>2. \A u \in Task : Quiet(u) BY DEF vars, Quiet, RowInv, IndexesDiffer, FindInv
<1>3. \A p \in PicId : RowKept(p) BY DEF vars, RowKept
<1> QED BY <1>1, <1>2, <1>3, QuietStep DEF vars

\* Every step keeps it.
LEMMA NextRows == ASSUME RowInv, [Next]_vars PROVE RowInv'
<1>1. TypeOK' BY TypeStep DEF RowInv
<1>2. CASE UNCHANGED vars BY <1>2, StutterRows
<1>3. ASSUME NEW s \in Server, Crash(s) PROVE RowInv' BY <1>1, <1>3, CrashRows
<1>4. ASSUME NEW t \in Task,
             \/ \E c \in Content : Upload(t, c)
             \/ Step(t) \/ PrepareFails(t) \/ RenameFails(t) \/ Cancel(t)
             \/ \E p \in PicId :
                  \/ \E temporary \in Temporaries : SoftDelete(t, p, temporary)
                  \/ HardDelete(t, p) \/ Purge(t, p)
      PROVE  RowInv'
  <2>1. CASE StartNew(t) BY <1>1, <2>1, StartNewRows
  <2>2. CASE StartUndelete(t) BY <1>1, <2>2, StartUndeleteRows
  <2>3. CASE Prepare(t) BY <1>1, <2>3, PrepareRows
  <2>4. CASE CommitUpsert(t) BY <1>1, <2>4, CommitRows
  <2> QED BY <1>1, <1>4, <2>1, <2>2, <2>3, <2>4, QuietActions DEF Step
<1> QED BY <1>2, <1>3, <1>4 DEF Next

\* RowInv is inductive, whatever fails and whatever deletions are in use.
THEOREM RowInvariance == Spec => []RowInv
BY InitRows, NextRows, PTL DEF Spec

\* The variables keep their types; in particular nextPicFileIndex always finds
\* an index for the files an upsert makes.
THEOREM TypeCorrect == Spec => []TypeOK
<1>1. RowInv => TypeOK BY DEF RowInv
<1> QED BY <1>1, RowInvariance, PTL

\* However many uploads of a picture race, and whichever of them are cancelled
\* or crash, findExistingPic has at most one row to find.
THEOREM OneRow == Spec => []OnePicPerContent
<1>1. RowInv => OnePicPerContent BY DEF RowInv
<1> QED BY <1>1, RowInvariance, PTL

\* The panic of nextPicFileIndex is unreachable, also after a picture was deleted
\* and undeleted any number of times.
THEOREM NoIndexTwice == Spec => []IndexesDiffer
<1>1. RowInv => IndexesDiffer BY DEF RowInv
<1> QED BY <1>1, RowInvariance, PTL

-----------------------------------------------------------------------------
\* Temporary files.  What an upsert still has of them, as far as it has come.

TempInvOf(t) ==
  /\ temp[t] \subseteq job[t].destroy
  /\ job[t].pc \in {"idle", "commit", "remove"} => temp[t] = {}
  /\ job[t].pc \in {"find", "prepare"} => temp[t] \subseteq {"main"}
  /\ job[t].pc = "renameMain" => temp[t] \subseteq {"main"} \cup Made(job[t].content)
  /\ job[t].pc = "renameThumb" => temp[t] \subseteq Made(job[t].content)
  /\ job[t].pc = "renameDerived" => temp[t] \subseteq {"derived"}

TempInv == TypeOK /\ \A t \in Task : TempInvOf(t)

\* The steps of a task.
LEMMA TempActions ==
  ASSUME TempInv, NEW t \in Task,
         \/ \E c \in Content : Upload(t, c)
         \/ Step(t) \/ PrepareFails(t) \/ RenameFails(t) \/ Cancel(t)
         \/ \E p \in PicId :
              \/ \E temporary \in Temporaries : SoftDelete(t, p, temporary)
              \/ HardDelete(t, p) \/ Purge(t, p)
  PROVE  /\ TempInvOf(t)'
         /\ \A u \in Task : u # t => job'[u] = job[u] /\ temp'[u] = temp[u]
<1> DEFINE Rest == \A u \in Task : u # t => job'[u] = job[u] /\ temp'[u] = temp[u]
<1>1. /\ job \in [Task -> Job] /\ job[t] \in Job /\ TempInvOf(t)
      /\ temp \in [Task -> SUBSET TempKind] /\ temp[t] \subseteq TempKind
  BY DEF TempInv, TypeOK
<1>2. /\ \A c : {"thumb"} \subseteq Made(c)
      /\ \A c \in Video : Made(c) = {"thumb", "derived"}
      /\ \A c : c \notin Video => Made(c) = {"thumb"}
  BY DEF Made
<1>3. ASSUME Finish(t), temp' = temp, temp[t] = {} PROVE TempInvOf(t)' /\ Rest
  <2>1. job'[t] = Idle /\ \A u \in Task : u # t => job'[u] = job[u]
    BY <1>1, <1>3 DEF Finish
  <2> QED BY <1>3, <2>1 DEF TempInvOf, Idle
<1>4. ASSUME NEW l \in {"cleanup", "remove"}, Goto(t, l), temp' = temp,
             l = "remove" => temp[t] = {}
      PROVE  TempInvOf(t)' /\ Rest
  <2>1. job'[t] = [job[t] EXCEPT !.pc = l] /\ \A u \in Task : u # t => job'[u] = job[u]
    BY <1>1, <1>4 DEF Goto
  <2>2. job'[t].pc = l /\ job'[t].destroy = job[t].destroy BY <1>1, <2>1 DEF Job
  <2> QED BY <1>1, <1>4, <2>1, <2>2 DEF TempInvOf
<1>5. ASSUME NEW k, NEW l, NEW D, job[t].destroy \ {k} \subseteq D,
             job' = [job EXCEPT ![t].pc = l, ![t].destroy = D],
             temp' = [temp EXCEPT ![t] = @ \ {k}]
      PROVE  /\ Rest
             /\ job'[t].pc = l /\ job'[t].content = job[t].content
             /\ temp'[t] = temp[t] \ {k}
             /\ temp'[t] \subseteq job'[t].destroy
  <2>1. /\ job'[t] = [job[t] EXCEPT !.pc = l, !.destroy = D]
        /\ \A u \in Task : u # t => job'[u] = job[u]
    BY <1>1, <1>5
  <2>2. job'[t].pc = l /\ job'[t].content = job[t].content /\ job'[t].destroy = D
    BY <1>1, <2>1 DEF Job
  <2>3. temp'[t] = temp[t] \ {k} /\ \A u \in Task : u # t => temp'[u] = temp[u]
    BY <1>1, <1>5
  <2> QED BY <1>1, <1>5, <2>1, <2>2, <2>3 DEF TempInvOf
<1>6. ASSUME NEW c \in Content, Upload(t, c) PROVE TempInvOf(t)' /\ Rest
  <2>1. /\ job'[t] = [job[t] EXCEPT !.pc = "find", !.content = c, !.open = TRUE,
                                    !.destroy = {"main"}]
        /\ temp'[t] = {"main"} /\ Rest
    BY <1>1, <1>6 DEF Upload
  <2>2. job'[t].pc = "find" /\ job'[t].destroy = {"main"} BY <1>1, <2>1 DEF Job
  <2> QED BY <2>1, <2>2 DEF TempInvOf
<1>7. CASE Reject(t) BY <1>4, <1>7 DEF Reject
<1>8. CASE MergeExisting(t)
  <2>1. /\ job'[t] = [job[t] EXCEPT !.pc = "cleanup", !.open = FALSE]
        /\ temp' = temp /\ Rest
    BY <1>1, <1>8 DEF MergeExisting
  <2>2. job'[t].pc = "cleanup" /\ job'[t].destroy = job[t].destroy
    BY <1>1, <2>1 DEF Job
  <2> QED BY <1>1, <2>1, <2>2 DEF TempInvOf
<1>9. CASE StartNew(t)
  <2>1. PICK p, r : job' = [job EXCEPT ![t].pc = "prepare", ![t].pic = p,
                                       ![t].new = TRUE, ![t].row = r]
    BY <1>9 DEF StartNew
  <2>2. /\ job'[t] = [job[t] EXCEPT !.pc = "prepare", !.pic = p, !.new = TRUE, !.row = r]
        /\ \A u \in Task : u # t => job'[u] = job[u]
    BY <1>1, <2>1
  <2>3. job'[t].pc = "prepare" /\ job'[t].destroy = job[t].destroy
    BY <1>1, <2>2 DEF Job
  <2> QED BY <1>1, <1>9, <2>2, <2>3 DEF TempInvOf, StartNew, In
<1>10. CASE StartUndelete(t)
  <2>1. PICK p, r : job' = [job EXCEPT ![t].pc = "prepare", ![t].pic = p, ![t].row = r]
    BY <1>10 DEF StartUndelete
  <2>2. /\ job'[t] = [job[t] EXCEPT !.pc = "prepare", !.pic = p, !.row = r]
        /\ \A u \in Task : u # t => job'[u] = job[u]
    BY <1>1, <2>1
  <2>3. job'[t].pc = "prepare" /\ job'[t].destroy = job[t].destroy
    BY <1>1, <2>2 DEF Job
  <2> QED BY <1>1, <1>10, <2>2, <2>3 DEF TempInvOf, StartUndelete, In
<1>11. CASE Prepare(t)
  <2> DEFINE M == Made(job[t].content)
  <2>1. PICK r : job' = [job EXCEPT ![t].pc = "renameMain", ![t].row = r,
                                    ![t].destroy = @ \cup M]
    BY <1>11 DEF Prepare
  <2>2. temp'[t] = temp[t] \cup M /\ \A u \in Task : u # t => temp'[u] = temp[u]
    BY <1>1, <1>11 DEF Prepare
  <2> HIDE DEF M
  <2>3. /\ job'[t] = [job[t] EXCEPT !.pc = "renameMain", !.row = r, !.destroy = @ \cup M]
        /\ \A u \in Task : u # t => job'[u] = job[u]
    BY <1>1, <2>1
  <2>4. /\ job'[t].pc = "renameMain" /\ job'[t].content = job[t].content
        /\ job'[t].destroy = job[t].destroy \cup M
    BY <1>1, <2>3 DEF Job
  <2>5. Made(job'[t].content) = M BY <2>4 DEF M
  <2> QED BY <1>1, <1>11, <2>2, <2>3, <2>4, <2>5 DEF TempInvOf, Prepare, In
<1>12. CASE PrepareFails(t) BY <1>4, <1>12 DEF PrepareFails
<1>13. CASE RenameMain(t)
  <2>1. PICK D : /\ job[t].destroy \ {"main"} \subseteq D
                 /\ job' = [job EXCEPT ![t].pc = "renameThumb", ![t].destroy = D]
                 /\ temp' = [temp EXCEPT ![t] = @ \ {"main"}]
                 /\ job[t].pc = "renameMain"
    BY <1>13 DEF RenameMain, Rename
  <2>2. temp[t] \ {"main"} \subseteq Made(job[t].content) BY <1>1, <2>1 DEF TempInvOf
  <2>3. /\ Rest
        /\ job'[t].pc = "renameThumb" /\ job'[t].content = job[t].content
        /\ temp'[t] = temp[t] \ {"main"}
        /\ temp'[t] \subseteq job'[t].destroy
    BY <1>5, <2>1
  <2>4. Made(job'[t].content) = Made(job[t].content) BY <2>3
  <2> QED BY <2>2, <2>3, <2>4 DEF TempInvOf
<1>14. CASE RenameThumb(t)
  <2> DEFINE l == IF job[t].content \in Video THEN "renameDerived" ELSE "commit"
  <2>0. job[t].pc = "renameThumb" /\ Rename(t, "thumb", NewThumbPath(t), "newThumb", l)
    BY <1>14 DEF RenameThumb
  <2> HIDE DEF l
  <2>1. PICK D : /\ job[t].destroy \ {"thumb"} \subseteq D
                 /\ job' = [job EXCEPT ![t].pc = l, ![t].destroy = D]
                 /\ temp' = [temp EXCEPT ![t] = @ \ {"thumb"}]
                 /\ job[t].pc = "renameThumb"
    BY <2>0 DEF Rename
  <2>2. /\ l = "renameDerived" => temp[t] \ {"thumb"} \subseteq {"derived"}
        /\ l = "commit" => temp[t] \ {"thumb"} = {}
        /\ l \in {"renameDerived", "commit"}
    BY <1>1, <1>2, <2>1 DEF TempInvOf, l
  <2> QED BY <1>5, <2>1, <2>2 DEF TempInvOf
<1>15. CASE RenameDerived(t)
  <2>1. PICK D : /\ job[t].destroy \ {"derived"} \subseteq D
                 /\ job' = [job EXCEPT ![t].pc = "commit", ![t].destroy = D]
                 /\ temp' = [temp EXCEPT ![t] = @ \ {"derived"}]
                 /\ job[t].pc = "renameDerived"
    BY <1>15 DEF RenameDerived, Rename
  <2>2. temp[t] \ {"derived"} = {} BY <1>1, <2>1 DEF TempInvOf
  <2>3. /\ Rest /\ job'[t].pc = "commit" /\ temp'[t] = temp[t] \ {"derived"}
        /\ temp'[t] \subseteq job'[t].destroy
    BY <1>5, <2>1
  <2> HIDE DEF Rest
  <2>4. TempInvOf(t)' BY <2>2, <2>3 DEF TempInvOf
  <2> QED BY <2>3, <2>4 DEF Rest
<1>16. CASE RenameFails(t)
  <2>1. PICK k, D : /\ job[t].destroy \ {k} \subseteq D
                    /\ job' = [job EXCEPT ![t].pc = "cleanup", ![t].destroy = D]
                    /\ temp' = [temp EXCEPT ![t] = @ \ {k}]
    BY <1>16 DEF RenameFails
  <2>2. Rest /\ job'[t].pc = "cleanup" /\ temp'[t] \subseteq job'[t].destroy
    BY <1>5, <2>1
  <2> HIDE DEF Rest
  <2>3. TempInvOf(t)' BY <2>2 DEF TempInvOf
  <2> QED BY <2>2, <2>3 DEF Rest
<1>17. CASE CommitUpsert(t) BY <1>1, <1>3, <1>17 DEF CommitUpsert, TempInvOf
<1>18. CASE CommitUpsertFails(t) BY <1>1, <1>3, <1>18 DEF CommitUpsertFails, TempInvOf
<1>19. CASE CleanupFile(t)
  <2>1. PICK flag : /\ job' = [job EXCEPT ![t].destroy = @ \ {flag}]
                    /\ IF flag \in TempKind THEN temp' = [temp EXCEPT ![t] = @ \ {flag}]
                                            ELSE temp' = temp
    BY <1>19 DEF CleanupFile
  <2>2. /\ job'[t] = [job[t] EXCEPT !.destroy = @ \ {flag}]
        /\ \A u \in Task : u # t => job'[u] = job[u]
    BY <1>1, <2>1
  <2>3. job'[t].pc = job[t].pc /\ job'[t].destroy = job[t].destroy \ {flag}
    BY <1>1, <2>2 DEF Job
  <2>4. temp'[t] = temp[t] \ {flag} /\ \A u \in Task : u # t => temp'[u] = temp[u]
    BY <1>1, <2>1
  <2>5. job[t].pc = "cleanup" BY <1>19 DEF CleanupFile
  <2> QED BY <1>1, <2>2, <2>3, <2>4, <2>5 DEF TempInvOf
<1>20. CASE Revert(t) BY <1>1, <1>3, <1>20 DEF Revert, TempInvOf
<1>21. CASE Cancel(t)
  <2>1. /\ job'[t] = [job[t] EXCEPT !.open = FALSE] /\ temp' = temp
        /\ \A u \in Task : u # t => job'[u] = job[u]
    BY <1>1, <1>21 DEF Cancel
  <2>2. /\ job'[t].pc = job[t].pc /\ job'[t].destroy = job[t].destroy
        /\ job'[t].content = job[t].content
    BY <1>1, <2>1 DEF Job
  <2> QED BY <1>1, <2>1, <2>2 DEF TempInvOf
<1>22. ASSUME job' = job, temp' = temp PROVE TempInvOf(t)' /\ Rest
  BY <1>1, <1>22 DEF TempInvOf
<1>23. ASSUME NEW p \in PicId, NEW temporary \in Temporaries, SoftDelete(t, p, temporary)
       PROVE  TempInvOf(t)' /\ Rest
  BY <1>22, <1>23 DEF SoftDelete
<1>24. ASSUME NEW p \in PicId, HardDelete(t, p) \/ Purge(t, p)
       PROVE  TempInvOf(t)' /\ Rest
  <2>1. temp' = temp /\ temp[t] = {}
    BY <1>1, <1>24 DEF HardDelete, Purge, Deletable, TempInvOf
  <2>2. Goto(t, "remove") \/ job' = job BY <1>24 DEF HardDelete, Purge, RemoveLater
  <2> QED BY <1>4, <1>22, <2>1, <2>2
<1>25. CASE RemoveFile(t) BY <1>22, <1>25 DEF RemoveFile
<1>26. CASE RemoveDone(t) BY <1>1, <1>3, <1>26 DEF RemoveDone, TempInvOf
<1> QED BY <1>6, <1>7, <1>8, <1>9, <1>10, <1>11, <1>12, <1>13, <1>14, <1>15, <1>16,
           <1>17, <1>18, <1>19, <1>20, <1>21, <1>23, <1>24, <1>25, <1>26 DEF Step

\* Every step keeps what is known of the temporary files.
LEMMA NextTemp == ASSUME TempInv, PrepareInv, [Next]_vars PROVE TempInv'
<1>1. TypeOK' BY TypeStep DEF TempInv
<1>2. ASSUME NEW u \in Task, job'[u] = job[u], temp'[u] = temp[u] PROVE TempInvOf(u)'
  BY <1>2 DEF TempInv, TempInvOf
<1>3. CASE UNCHANGED vars BY <1>1, <1>2, <1>3 DEF vars, TempInv
<1>4. ASSUME NEW s \in Server, Crash(s) PROVE TempInv'
  <2>1. ASSUME NEW u \in Task, Host[u] = s PROVE TempInvOf(u)'
    <3>1. job'[u] = Idle /\ temp'[u] = {} BY <1>4, <2>1 DEF Crash
    <3> QED BY <3>1 DEF TempInvOf, Idle
  <2>2. ASSUME NEW u \in Task, Host[u] # s PROVE TempInvOf(u)'
    <3>1. job'[u] = job[u] /\ temp'[u] = temp[u] BY <1>4, <2>2 DEF Crash
    <3> QED BY <1>2, <3>1
  <2> QED BY <1>1, <2>1, <2>2 DEF TempInv
<1>5. ASSUME NEW t \in Task,
             \/ \E c \in Content : Upload(t, c)
             \/ Step(t) \/ PrepareFails(t) \/ RenameFails(t) \/ Cancel(t)
             \/ \E p \in PicId :
                  \/ \E temporary \in Temporaries : SoftDelete(t, p, temporary)
                  \/ HardDelete(t, p) \/ Purge(t, p)
      PROVE  TempInv'
  <2>1. /\ TempInvOf(t)'
        /\ \A u \in Task : u # t => job'[u] = job[u] /\ temp'[u] = temp[u]
    BY <1>5, TempActions
  <2> QED BY <1>1, <1>2, <2>1 DEF TempInv
<1> QED BY <1>3, <1>4, <1>5 DEF Next

\* However an upsert ends - also when it is cancelled, when a conversion, a
\* rename or the commit fails, or when the picture was there already - it has
\* renamed or tried to remove each temporary file it made.
THEOREM TempFiles == Spec => []TempFilesGo
<1>1. Init => TempInv
  <2> SUFFICES ASSUME Init PROVE TempInv OBVIOUS
  <2>1. \A t \in Task : job[t].pc = "idle" /\ temp[t] = {} BY DEF Init, Idle
  <2> QED BY <2>1, InitTypeOK DEF TempInv, TempInvOf
<1>2. RowInv => PrepareInv BY DEF RowInv
<1>3. TempInv => TempFilesGo BY DEF TempInv, TempInvOf, TempFilesGo
<1> QED BY <1>1, <1>2, <1>3, NextTemp, RowInvariance, PTL DEF Spec

-----------------------------------------------------------------------------
\* The refinement of PicLifecycle.  Of the rows that upserts are working on, what
\* it needs to know is how they are deleted: the row that will be undeleted is
\* deleted temporarily, and what is committed is not deleted.

LifeInvOf(t) ==
  /\ job[t].pc = "prepare" => job[t].row.del = "none" \/ job[t].row.temporary
  /\ job[t].pc \in Prepared => job[t].row.del = "none" /\ ~job[t].row.temporary
  /\ job[t].pc \in Working /\ job[t].open /\ ~job[t].new => pics[job[t].pic].temporary

\* Only what is deleted is deleted temporarily.
FlagFits(r) == r.temporary => r.del # "none"

LifeInv == /\ RowInv /\ \A t \in Task : LifeInvOf(t)
           /\ \A p \in Stored : FlagFits(pics[p])

\* A task that does nothing about its row, while others leave alone the row that
\* it has locked.
LifeQuiet(u) ==
  job'[u].pc \in Working =>
    /\ job[u].pc \in Working
    /\ job'[u].pc \in Prepared <=> job[u].pc \in Prepared
    /\ job'[u].pc = "prepare" <=> job[u].pc = "prepare"
    /\ job'[u].row = job[u].row /\ job'[u].pic = job[u].pic /\ job'[u].new = job[u].new
    /\ job'[u].open => job[u].open

LifeKept(p) == \/ pics'[p] = pics[p]
               \/ Unlocked(p) /\ (p \in Stored' => p \in Stored /\ FlagFits(pics'[p]))

\* Then all that is known of it stays known.
LEMMA LifeFrame ==
  ASSUME LifeInv, NEW u \in Task, LifeQuiet(u), \A p \in PicId : LifeKept(p)
  PROVE  LifeInvOf(u)'
<1>1. job[u] \in Job /\ LifeInvOf(u) BY DEF LifeInv, RowInv, TypeOK
<1>2. ASSUME job'[u].pc \in Working, job'[u].open, ~job'[u].new
      PROVE  pics'[job'[u].pic].temporary
  <2>1. /\ job[u].pc \in Working /\ job[u].open /\ ~job[u].new
        /\ job'[u].pic = job[u].pic
    BY <1>2 DEF LifeQuiet
  <2>2. lock[job[u].pic] = u /\ job[u].pic \in PicId
    BY <1>1, <2>1 DEF LifeInv, RowInv, OwnInv, Job
  <2>3. ~Unlocked(job[u].pic) BY <2>2, NoneAssumption DEF Unlocked
  <2>4. pics'[job[u].pic] = pics[job[u].pic] BY <2>2, <2>3 DEF LifeKept
  <2> QED BY <1>1, <2>1, <2>4 DEF LifeInvOf
<1>3. job'[u].pc = "prepare" => job'[u].row.del = "none" \/ job'[u].row.temporary
  BY <1>1 DEF LifeQuiet, LifeInvOf, Working
<1>4. job'[u].pc \in Prepared => job'[u].row.del = "none" /\ ~job'[u].row.temporary
  BY <1>1 DEF LifeQuiet, LifeInvOf, Prepared
<1> QED BY <1>2, <1>3, <1>4 DEF LifeInvOf

\* So does what is known of the committed rows.
LEMMA FlagsFrame ==
  ASSUME LifeInv, \A p \in PicId : LifeKept(p) PROVE \A p \in Stored' : FlagFits(pics'[p])
BY DEF LifeInv, LifeKept, Stored

\* The steps of Next that leave the row of the upsert as it is.
LEMMA LifeActions ==
  ASSUME LifeInv, NEW t \in Task,
         \/ \E c \in Content : Upload(t, c)
         \/ Reject(t) \/ MergeExisting(t) \/ PrepareFails(t)
         \/ RenameMain(t) \/ RenameThumb(t) \/ RenameDerived(t) \/ RenameFails(t)
         \/ CommitUpsertFails(t) \/ CleanupFile(t) \/ Revert(t) \/ Cancel(t)
         \/ \E p \in PicId :
              \/ \E temporary \in Temporaries : SoftDelete(t, p, temporary)
              \/ HardDelete(t, p) \/ Purge(t, p)
         \/ RemoveFile(t) \/ RemoveDone(t)
  PROVE  /\ LifeQuiet(t) /\ \A p \in PicId : LifeKept(p)
         /\ \A u \in Task : u # t => job'[u] = job[u]
<1> DEFINE Rest == \A u \in Task : u # t => job'[u] = job[u]
           Kept == \A p \in PicId : LifeKept(p)
<1>1. /\ job \in [Task -> Job] /\ job[t] \in Job
      /\ pics \in [PicId -> Row \cup {NoPic}]
  BY DEF LifeInv, RowInv, TypeOK
<1>2. /\ Working = {"prepare", "renameMain", "renameThumb", "renameDerived", "commit"}
      /\ Prepared = {"renameMain", "renameThumb", "renameDerived", "commit"}
  BY DEF Working, Prepared
<1>3. pics' = pics => Kept BY DEF LifeKept
<1>4. job' = job => LifeQuiet(t) /\ Rest BY DEF LifeQuiet
<1>5. ASSUME Finish(t) PROVE LifeQuiet(t) /\ Rest
  <2>1. job'[t] = Idle /\ Rest BY <1>1, <1>5 DEF Finish
  <2> QED BY <1>2, <2>1 DEF LifeQuiet, Idle
<1>6. ASSUME NEW l, Goto(t, l), l \notin Working PROVE LifeQuiet(t) /\ Rest
  <2>1. job'[t] = [job[t] EXCEPT !.pc = l] /\ Rest BY <1>1, <1>6 DEF Goto
  <2>2. job'[t].pc = l BY <1>1, <2>1 DEF Job
  <2> QED BY <1>6, <2>1, <2>2 DEF LifeQuiet
<1>7. ASSUME NEW l, NEW D, job' = [job EXCEPT ![t].pc = l, ![t].destroy = D],
             l \in Working => l \in Prepared /\ job[t].pc \in Prepared
      PROVE  LifeQuiet(t) /\ Rest
  <2>1. job'[t] = [job[t] EXCEPT !.pc = l, !.destroy = D] /\ Rest BY <1>1, <1>7
  <2>2. /\ job'[t].pc = l /\ job'[t].row = job[t].row /\ job'[t].pic = job[t].pic
        /\ job'[t].new = job[t].new /\ job'[t].open = job[t].open
    BY <1>1, <2>1 DEF Job
  <2> QED BY <1>2, <1>7, <2>1, <2>2 DEF LifeQuiet
<1>8. ASSUME NEW p \in Stored, NEW r, Unlocked(p), r = NoPic \/ FlagFits(r),
             pics' = [pics EXCEPT ![p] = r]
      PROVE  Kept
  BY <1>1, <1>8 DEF LifeKept, Stored
<1>9. ASSUME NEW c \in Content, Upload(t, c) PROVE LifeQuiet(t) /\ Rest /\ Kept
  <2>1. job'[t] = [job[t] EXCEPT !.pc = "find", !.content = c, !.open = TRUE,
                                 !.destroy = {"main"}] /\ Rest
    BY <1>1, <1>9 DEF Upload
  <2>2. job'[t].pc = "find" BY <1>1, <2>1 DEF Job
  <2>3. LifeQuiet(t) BY <1>2, <2>2 DEF LifeQuiet
  <2> QED BY <1>3, <1>9, <2>1, <2>3 DEF Upload
<1>10. CASE Reject(t) BY <1>2, <1>3, <1>6, <1>10 DEF Reject
<1>11. CASE MergeExisting(t)
  <2>1. job'[t] = [job[t] EXCEPT !.pc = "cleanup", !.open = FALSE] /\ Rest
    BY <1>1, <1>11 DEF MergeExisting
  <2>2. job'[t].pc = "cleanup" BY <1>1, <2>1 DEF Job
  <2>3. PICK p \in Stored : /\ Unlocked(p)
                            /\ pics' = [pics EXCEPT ![p] = Merged(pics[p])]
    BY <1>11 DEF MergeExisting, Matches
  <2>4. FlagFits(Merged(pics[p]))
    <3>1. pics[p] \in Row /\ FlagFits(pics[p]) BY <1>1 DEF LifeInv, Stored
    <3> QED BY <3>1 DEF Merged, FlagFits, Row
  <2>6. Kept BY <1>8, <2>3, <2>4
  <2>5. LifeQuiet(t) BY <1>2, <2>2 DEF LifeQuiet
  <2> QED BY <2>1, <2>5, <2>6
<1>12. CASE PrepareFails(t) BY <1>2, <1>3, <1>6, <1>12 DEF PrepareFails
<1>13. ASSUME NEW k, NEW f, NEW flag, NEW l, Rename(t, k, f, flag, l),
              l \in Prepared, job[t].pc \in Prepared
       PROVE  LifeQuiet(t) /\ Rest /\ Kept
  <2>1. \E D : job' = [job EXCEPT ![t].pc = l, ![t].destroy = D] BY <1>13 DEF Rename
  <2> QED BY <1>3, <1>7, <1>13, <2>1 DEF Rename
<1>14. CASE RenameMain(t) \/ RenameThumb(t) \/ RenameDerived(t)
  BY <1>2, <1>13, <1>14 DEF RenameMain, RenameThumb, RenameDerived
<1>15. CASE RenameFails(t)
  <2>1. \E D : job' = [job EXCEPT ![t].pc = "cleanup", ![t].destroy = D]
    BY <1>15 DEF RenameFails
  <2>2. pics' = pics BY <1>15 DEF RenameFails
  <2>3. "cleanup" \notin Working BY <1>2
  <2>4. LifeQuiet(t) /\ Rest BY <1>7, <2>1, <2>3
  <2> QED BY <1>3, <2>2, <2>4
<1>16. CASE CommitUpsertFails(t) BY <1>3, <1>5, <1>16 DEF CommitUpsertFails
<1>17. CASE CleanupFile(t)
  <2>1. PICK D : job' = [job EXCEPT ![t].destroy = D] BY <1>17 DEF CleanupFile
  <2>2. job'[t] = [job[t] EXCEPT !.destroy = D] /\ Rest BY <1>1, <2>1
  <2>3. job'[t].pc = "cleanup" BY <1>1, <1>17, <2>2 DEF CleanupFile, Job
  <2>4. LifeQuiet(t) BY <1>2, <2>3 DEF LifeQuiet
  <2> QED BY <1>3, <1>17, <2>2, <2>4 DEF CleanupFile
<1>18. CASE Revert(t) BY <1>3, <1>5, <1>18 DEF Revert
<1>19. CASE Cancel(t)
  <2>1. job'[t] = [job[t] EXCEPT !.open = FALSE] /\ Rest BY <1>1, <1>19 DEF Cancel
  <2>2. /\ job'[t].pc = job[t].pc /\ job'[t].row = job[t].row /\ ~job'[t].open
        /\ job'[t].pic = job[t].pic /\ job'[t].new = job[t].new
    BY <1>1, <2>1 DEF Job
  <2>3. LifeQuiet(t) BY <2>2 DEF LifeQuiet
  <2> QED BY <1>3, <1>19, <2>1, <2>3 DEF Cancel
<1>20. ASSUME NEW p \in PicId, NEW temporary \in Temporaries, SoftDelete(t, p, temporary)
       PROVE  LifeQuiet(t) /\ Rest /\ Kept
  <2> DEFINE r == [pics[p] EXCEPT !.del = "soft", !.temporary = temporary]
  <2>1. /\ p \in Stored /\ pics[p] \in Row /\ Unlocked(p) /\ job' = job
        /\ pics' = [pics EXCEPT ![p] = r]
    BY <1>1, <1>20 DEF SoftDelete, Deletable, Stored
  <2>2. FlagFits(r) BY <2>1 DEF FlagFits, Row
  <2> HIDE DEF r
  <2> QED BY <1>4, <1>8, <2>1, <2>2
<1>21. ASSUME NEW p \in PicId, HardDelete(t, p) \/ Purge(t, p)
       PROVE  LifeQuiet(t) /\ Rest /\ Kept
  <2>1. Goto(t, "remove") \/ job' = job BY <1>21 DEF HardDelete, Purge, RemoveLater
  <2>2. Kept
    <3> DEFINE r == [pics[p] EXCEPT !.del = "hard", !.thumbs = {}]
    <3>1. p \in Stored /\ pics[p] \in Row /\ Unlocked(p)
      BY <1>1, <1>21 DEF HardDelete, Purge, Deletable, Stored
    <3>2. FlagFits(r) BY <3>1 DEF FlagFits, Row
    <3>3. pics' = [pics EXCEPT ![p] = r] \/ pics' = [pics EXCEPT ![p] = NoPic]
      BY <1>21 DEF HardDelete, Purge
    <3> HIDE DEF r
    <3> QED BY <1>8, <3>1, <3>2, <3>3
  <2> QED BY <1>2, <1>4, <1>6, <2>1, <2>2
<1>22. CASE RemoveFile(t) BY <1>3, <1>4, <1>22 DEF RemoveFile
<1>23. CASE RemoveDone(t) BY <1>3, <1>5, <1>23 DEF RemoveDone
<1> QED BY <1>9, <1>10, <1>11, <1>12, <1>14, <1>15, <1>16, <1>17, <1>18, <1>19,
           <1>20, <1>21, <1>22, <1>23

\* The other steps: an upsert inserts a row, undeletes one, and prepares it.
LEMMA StartLife ==
  ASSUME LifeInv, NEW t \in Task, StartNew(t) \/ StartUndelete(t) \/ Prepare(t)
  PROVE  /\ LifeInvOf(t)' /\ pics' = pics
         /\ \A u \in Task : u # t => job'[u] = job[u]
<1>1. /\ job \in [Task -> Job] /\ job[t] \in Job /\ job[t].row \in Row /\ LifeInvOf(t)
  BY DEF LifeInv, RowInv, TypeOK, Job
<1>2. "prepare" \in Working /\ "prepare" \notin Prepared /\ "renameMain" \in Prepared
  BY DEF Working, Prepared
<1>3. CASE StartNew(t)
  <2> DEFINE r == [NoRow EXCEPT !.content = job[t].content]
  <2>1. r.del = "none" BY DEF NoRow
  <2> HIDE DEF r
  <2>2. PICK p : job' = [job EXCEPT ![t].pc = "prepare", ![t].pic = p, ![t].new = TRUE,
                                    ![t].row = r]
    BY <1>3 DEF StartNew, r
  <2>3. /\ job'[t] = [job[t] EXCEPT !.pc = "prepare", !.pic = p, !.new = TRUE, !.row = r]
        /\ \A u \in Task : u # t => job'[u] = job[u]
    BY <1>1, <2>2
  <2>4. job'[t].pc = "prepare" /\ job'[t].row = r /\ job'[t].new
    BY <1>1, <2>3 DEF Job
  <2>5. LifeInvOf(t)' BY <1>2, <2>1, <2>4 DEF LifeInvOf
  <2> QED BY <1>3, <2>3, <2>5 DEF StartNew
<1>4. CASE StartUndelete(t)
  <2>1. PICK p : /\ pics[p].temporary
                 /\ job' = [job EXCEPT ![t].pc = "prepare", ![t].pic = p,
                                       ![t].row = pics[p]]
    BY <1>4 DEF StartUndelete
  <2>2. /\ job'[t] = [job[t] EXCEPT !.pc = "prepare", !.pic = p, !.row = pics[p]]
        /\ \A u \in Task : u # t => job'[u] = job[u]
    BY <1>1, <2>1
  <2>3. job'[t].pc = "prepare" /\ job'[t].row = pics[p] /\ job'[t].pic = p
    BY <1>1, <2>2 DEF Job
  <2>4. pics' = pics BY <1>4 DEF StartUndelete
  <2>5. LifeInvOf(t)' BY <1>2, <2>1, <2>3, <2>4 DEF LifeInvOf
  <2> QED BY <2>2, <2>4, <2>5
<1>5. CASE Prepare(t)
  <2> DEFINE m == Merged(WithThumb(WithDerived(job[t].row)))
  <2>1. job[t].pc = "prepare" BY <1>5 DEF Prepare, In
  <2>2. m.del = "none" /\ ~m.temporary
    <3>1. job[t].row.thumbs = {} /\ ~OutOfIndexes(job[t].row)
      BY <2>1 DEF LifeInv, RowInv, PrepareInv
    <3>2. /\ m.del = IF job[t].row.temporary THEN "none" ELSE job[t].row.del
          /\ ~m.temporary
      BY <1>1, <3>1, PreparedRow
    <3> QED BY <1>1, <2>1, <3>2 DEF LifeInvOf
  <2> HIDE DEF m
  <2>3. PICK D : job' = [job EXCEPT ![t].pc = "renameMain", ![t].row = m, ![t].destroy = D]
    BY <1>5 DEF Prepare, m
  <2>4. /\ job'[t] = [job[t] EXCEPT !.pc = "renameMain", !.row = m, !.destroy = D]
        /\ \A u \in Task : u # t => job'[u] = job[u]
    BY <1>1, <2>3
  <2>5. /\ job'[t].pc = "renameMain" /\ job'[t].row = m /\ job'[t].pic = job[t].pic
        /\ job'[t].new = job[t].new /\ job'[t].open = job[t].open
    BY <1>1, <2>4 DEF Job
  <2>6. pics' = pics BY <1>5 DEF Prepare
  <2>7. LifeInvOf(t)' BY <1>1, <1>2, <2>1, <2>2, <2>5, <2>6 DEF LifeInvOf
  <2> QED BY <2>4, <2>6, <2>7
<1> QED BY <1>3, <1>4, <1>5

\* Every step keeps what is known of the rows that upserts are working on.
LEMMA NextLife == ASSUME LifeInv, [Next]_vars PROVE LifeInv'
<1>1. RowInv' BY NextRows DEF LifeInv
<1>2. ASSUME \A p \in PicId : LifeKept(p), NEW u \in Task, job'[u] = job[u]
      PROVE  LifeInvOf(u)'
  <2>1. LifeQuiet(u) BY <1>2 DEF LifeQuiet
  <2> QED BY <1>2, <2>1, LifeFrame
<1>3. CASE UNCHANGED vars
  <2>1. \A p \in PicId : LifeKept(p) BY <1>3 DEF vars, LifeKept
  <2>2. job' = job BY <1>3 DEF vars
  <2> QED BY <1>1, <1>2, <2>1, <2>2, FlagsFrame DEF LifeInv
<1>4. ASSUME NEW s \in Server, Crash(s) PROVE LifeInv'
  <2>1. \A p \in PicId : LifeKept(p) BY <1>4 DEF Crash, LifeKept
  <2>2. ASSUME NEW u \in Task, Host[u] = s PROVE LifeInvOf(u)'
    <3>1. job'[u] = Idle BY <1>4, <2>2 DEF Crash
    <3> QED BY <3>1 DEF LifeInvOf, Idle, Working, Prepared
  <2>3. ASSUME NEW u \in Task, Host[u] # s PROVE LifeInvOf(u)'
    <3>1. job'[u] = job[u] BY <1>4, <2>3 DEF Crash
    <3> QED BY <1>2, <2>1, <3>1
  <2> QED BY <1>1, <2>1, <2>2, <2>3, FlagsFrame DEF LifeInv
<1>5. ASSUME NEW t \in Task, StartNew(t) \/ StartUndelete(t) \/ Prepare(t)
      PROVE  LifeInv'
  <2>1. /\ LifeInvOf(t)' /\ \A p \in PicId : LifeKept(p)
        /\ \A u \in Task : u # t => job'[u] = job[u]
    BY <1>5, StartLife DEF LifeKept
  <2> QED BY <1>1, <1>2, <2>1, FlagsFrame DEF LifeInv
<1>6. ASSUME NEW t \in Task, CommitUpsert(t) PROVE LifeInv'
  <2> DEFINE p == job[t].pic
  <2>1. /\ job \in [Task -> Job] /\ p \in PicId
        /\ pics \in [PicId -> Row \cup {NoPic}]
    BY DEF LifeInv, RowInv, TypeOK, Job
  <2>2. job'[t] = Idle /\ \A u \in Task : u # t => job'[u] = job[u]
    BY <1>6, <2>1 DEF CommitUpsert, Finish
  <2>3. LifeInvOf(t)' BY <2>2 DEF LifeInvOf, Idle, Working, Prepared
  <2>4. \A q \in PicId : q # p => pics'[q] = pics[q] BY <1>6, <2>1 DEF CommitUpsert
  <2>5. ASSUME NEW u \in Task, u # t PROVE LifeInvOf(u)'
    <3>1. job'[u] = job[u] /\ job[u].pic \in PicId /\ LifeInvOf(u)
      BY <2>1, <2>2, <2>5 DEF LifeInv, Job
    <3>2. ASSUME job[u].pc \in Working, job[u].open, ~job[u].new PROVE job[u].pic # p
      <4>1. lock[job[u].pic] = u /\ job[u].pic \in Stored
        BY <3>2 DEF LifeInv, RowInv, OwnInv
      <4>2. job[t].pc \in Working /\ job[t].open
        BY <1>6 DEF CommitUpsert, CanCommit, Working
      <4>3. CASE job[t].new
        BY <4>1, <4>2, <4>3 DEF LifeInv, RowInv, NewInv, RowsInv
      <4>4. CASE ~job[t].new
        BY <2>5, <4>1, <4>2, <4>4 DEF LifeInv, RowInv, OwnInv
      <4> QED BY <4>3, <4>4
    <3>3. job[u].pc \in Working /\ job[u].open /\ ~job[u].new =>
            pics'[job[u].pic] = pics[job[u].pic]
      BY <2>4, <3>1, <3>2
    <3> QED BY <3>1, <3>3 DEF LifeInvOf
  <2>6. FlagFits(job[t].row)
    BY <1>6 DEF CommitUpsert, LifeInv, LifeInvOf, Prepared, Working, FlagFits
  <2>7. pics'[p] = job[t].row BY <1>6, <2>1 DEF CommitUpsert
  <2>8. \A q \in Stored' : FlagFits(pics'[q]) BY <2>4, <2>6, <2>7 DEF LifeInv, Stored
  <2> QED BY <1>1, <2>3, <2>5, <2>8 DEF LifeInv
<1>7. ASSUME NEW t \in Task,
             \/ \E c \in Content : Upload(t, c)
             \/ Reject(t) \/ MergeExisting(t) \/ PrepareFails(t)
             \/ RenameMain(t) \/ RenameThumb(t) \/ RenameDerived(t) \/ RenameFails(t)
             \/ CommitUpsertFails(t) \/ CleanupFile(t) \/ Revert(t) \/ Cancel(t)
             \/ \E p \in PicId :
                  \/ \E temporary \in Temporaries : SoftDelete(t, p, temporary)
                  \/ HardDelete(t, p) \/ Purge(t, p)
             \/ RemoveFile(t) \/ RemoveDone(t)
      PROVE  LifeInv'
  <2>1. /\ LifeQuiet(t) /\ \A p \in PicId : LifeKept(p)
        /\ \A u \in Task : u # t => job'[u] = job[u]
    BY <1>7, LifeActions
  <2>2. LifeInvOf(t)' BY <2>1, LifeFrame
  <2> QED BY <1>1, <1>2, <2>1, <2>2, FlagsFrame DEF LifeInv
<1> QED BY <1>3, <1>4, <1>5, <1>6, <1>7 DEF Next, Step

-----------------------------------------------------------------------------
\* The phase of the picture whose row is p.
Phase(p) == IF p \in Stored THEN StateOf(pics[p]) ELSE "absent"

\* A step that changes the row p alone changes the phase of the picture c alone,
\* the only one it ever is the row of, from that of the row before to that of the
\* row after.
LEMMA OneRowChanges ==
  ASSUME TypeOK, OnePicPerContent, OnePicPerContent', NEW p \in PicId, NEW c \in Content,
         \A q \in PicId : q # p => pics'[q] = pics[q],
         p \in Stored => pics[p].content = c,
         p \in Stored' => pics'[p].content = c,
         p \notin Stored => Matches(c) = {}
  PROVE  State[c] = Phase(p) /\ State' = [State EXCEPT ![c] = Phase(p)']
<1>1. State[c] = Phase(p)
  <2>1. CASE p \in Stored
    <3>1. Matches(c) = {p} BY <2>1 DEF Matches, OnePicPerContent
    <3>2. (CHOOSE q \in {p} : TRUE) = p OBVIOUS
    <3> QED BY <2>1, <3>1, <3>2 DEF State, Phase
  <2>2. CASE p \notin Stored BY <2>2 DEF State, Phase
  <2> QED BY <2>1, <2>2
<1>2. ASSUME NEW q \in Stored', q # p PROVE q \in Stored /\ pics'[q] = pics[q]
  BY <1>2 DEF Stored
<1>3. ASSUME NEW d \in Content, d # c PROVE State'[d] = State[d]
  <2>1. \A q : q \in Matches(d)' <=> q \in Matches(d) /\ q # p
    BY <1>2, <1>3 DEF Matches, Stored
  <2>2. p \notin Matches(d) BY <1>3 DEF Matches
  <2>3. Matches(d)' = Matches(d) BY <2>1, <2>2
  <2>4. CASE Matches(d) = {} BY <2>3, <2>4 DEF State
  <2>5. CASE Matches(d) # {}
    <3> DEFINE q == CHOOSE q \in Matches(d) : TRUE
    <3>1. q \in Matches(d) BY <2>5
    <3>2. q = (CHOOSE z \in Matches(d)' : TRUE) BY <2>3
    <3>3. pics'[q] = pics[q] BY <2>2, <3>1 DEF Matches, Stored
    <3> HIDE DEF q
    <3>4. State[d] = StateOf(pics[q]) BY <2>5 DEF State, q
    <3>5. State'[d] = StateOf(pics'[q]) BY <2>3, <2>5, <3>2 DEF State
    <3> QED BY <3>3, <3>4, <3>5
  <2> QED BY <2>4, <2>5
<1>4. State'[c] = Phase(p)'
  <2>1. CASE p \in Stored'
    <3>1. Matches(c)' = {p} BY <2>1 DEF Matches, OnePicPerContent
    <3>2. (CHOOSE q \in {p} : TRUE) = p OBVIOUS
    <3> QED BY <2>1, <3>1, <3>2 DEF State, Phase
  <2>2. CASE p \notin Stored'
    <3>1. ASSUME NEW q \in Matches(c)' PROVE FALSE
      <4>1. q \in Stored' /\ pics'[q].content = c /\ q # p
        BY <2>2, <3>1 DEF Matches
      <4>2. q \in Stored /\ pics[q].content = c BY <1>2, <4>1
      <4>3. q \in Matches(c) BY <4>2 DEF Matches
      <4> QED BY <4>1, <4>2, <4>3 DEF OnePicPerContent
    <3>2. Matches(c)' = {} BY <3>1
    <3> QED BY <2>2, <3>2 DEF State, Phase
  <2> QED BY <2>1, <2>2
<1>5. State \in [Content -> {State[d] : d \in Content}] BY DEF State
<1>6. State' = [d \in Content |-> State'[d]] BY DEF State
<1> QED BY <1>1, <1>3, <1>4, <1>5, <1>6

\* The steps that change a row are steps of PicLifecycle, or do not show.
LEMMA RowStepRefines ==
  ASSUME LifeInv, OnePicPerContent', NEW t \in Task,
         \/ MergeExisting(t) \/ CommitUpsert(t)
         \/ \E p \in PicId :
              \/ \E temporary \in Temporaries : SoftDelete(t, p, temporary)
              \/ HardDelete(t, p) \/ Purge(t, p)
  PROVE  [Life!Next]_State
<1>1. /\ TypeOK /\ OnePicPerContent /\ pics \in [PicId -> Row \cup {NoPic}]
      /\ job[t] \in Job /\ job[t].content \in Content
      /\ job[t].pic \in PicId /\ job[t].row \in Row /\ LifeInvOf(t)
  BY DEF LifeInv, RowInv, TypeOK, Job
<1>2. ASSUME NEW p \in Stored, NEW r, r = NoPic \/ (r \in Row /\ r.content = pics[p].content),
             pics' = [pics EXCEPT ![p] = r]
      PROVE  /\ pics[p] \in Row /\ pics[p].content \in Content /\ FlagFits(pics[p])
             /\ State[pics[p].content] = StateOf(pics[p])
             /\ r = NoPic => State' = [State EXCEPT ![pics[p].content] = "absent"]
             /\ r \in Row => State' = [State EXCEPT ![pics[p].content] = StateOf(r)]
  <2>1. p \in PicId /\ pics[p] \in Row /\ pics[p].content \in Content
    BY <1>1 DEF Stored, Row
  <2>2. pics'[p] = r /\ \A q \in PicId : q # p => pics'[q] = pics[q]
    BY <1>1, <1>2, <2>1
  <2>3. p \in Stored' <=> r # NoPic BY <2>1, <2>2 DEF Stored
  <2>4. /\ State[pics[p].content] = Phase(p)
        /\ State' = [State EXCEPT ![pics[p].content] = Phase(p)']
    BY <1>1, <1>2, <2>1, <2>2, <2>3, OneRowChanges
  <2>5. Phase(p)' = IF r # NoPic THEN StateOf(r) ELSE "absent"
    BY <2>2, <2>3 DEF Phase
  <2>6. r \in Row => r # NoPic BY NoPicAssumption
  <2> QED BY <2>1, <2>4, <2>5, <2>6 DEF Phase, LifeInv
<1>3. ASSUME NEW c \in Content, State' = [State EXCEPT ![c] = State[c]] PROVE State' = State
  BY <1>3 DEF State
<1>4. CASE MergeExisting(t)
  <2>1. PICK p \in Stored : /\ ~HardDeleted(pics[p])
                            /\ pics' = [pics EXCEPT ![p] = Merged(pics[p])]
    BY <1>4 DEF MergeExisting, Matches
  <2> DEFINE c == pics[p].content
             r == Merged(pics[p])
  <2>2. r \in Row /\ r.content = c
    BY <1>1 DEF Merged, Row, Stored
  <2>3. /\ pics[p] \in Row /\ c \in Content /\ FlagFits(pics[p])
        /\ State[c] = StateOf(pics[p]) /\ State' = [State EXCEPT ![c] = StateOf(r)]
    BY <1>2, <2>1, <2>2
  <2>4. CASE pics[p].temporary
    <3>1. pics[p].del = "soft" BY <2>1, <2>3, <2>4 DEF FlagFits, HardDeleted, Row
    <3>2. StateOf(pics[p]) = "softTemporary" BY <2>4, <3>1 DEF StateOf
    <3>3. StateOf(r) = "live" BY <2>3, <2>4 DEF Merged, StateOf, Row
    <3> HIDE DEF c, r
    <3> QED BY <2>3, <3>2, <3>3 DEF Life!Next, Life!Upload, Life!Become
  <2>5. CASE ~pics[p].temporary
    <3>1. r = pics[p] BY <2>5 DEF Merged
    <3> HIDE DEF c, r
    <3> QED BY <1>3, <2>3, <3>1
  <2> QED BY <2>4, <2>5
<1>5. CASE CommitUpsert(t)
  <2> DEFINE r == job[t].row
             c == job[t].content
  <2>0. PICK p \in PicId : p = job[t].pic BY <1>1
  <2>1. job[t].pc = "commit" /\ job[t].open /\ (job[t].new => Matches(c) = {})
    BY <1>5 DEF CommitUpsert, CanCommit
  <2>2. job[t].pc \in Working /\ job[t].pc \in Prepared BY <2>1 DEF Working, Prepared
  <2>3. r.content = c /\ r.del = "none" BY <1>1, <2>2 DEF LifeInv, LifeInvOf, RowInv, SettledInv
  <2>4. pics'[p] = r /\ \A q \in PicId : q # p => pics'[q] = pics[q]
    BY <1>1, <1>5, <2>0 DEF CommitUpsert
  <2>5. p \in Stored' BY <1>1, <2>4, NoPicAssumption DEF Stored
  <2>6. IF job[t].new THEN p \notin Stored
          ELSE /\ p \in Stored /\ pics[p].content = c
               /\ HardDeleted(pics[p]) /\ pics[p].temporary
    BY <1>1, <2>0, <2>1, <2>2 DEF LifeInv, LifeInvOf, RowInv, NewInv, RowsInv, OwnInv
  <2>7. c \in Content /\ (p \in Stored => pics[p].content = c)
        /\ (p \notin Stored => Matches(c) = {})
    BY <1>1, <2>1, <2>6
  <2>8. StateOf(r) = "live" BY <2>3 DEF StateOf
  <2>9. Phase(p) \in {"absent", "hardTemporary"}
    BY <2>6 DEF Phase, StateOf, HardDeleted
  <2> HIDE DEF c, r
  <2>10. State[c] = Phase(p) /\ State' = [State EXCEPT ![c] = Phase(p)']
    BY <1>1, <2>3, <2>4, <2>7, OneRowChanges
  <2>11. Phase(p)' = "live" BY <2>4, <2>5, <2>8 DEF Phase
  <2> QED BY <2>7, <2>9, <2>10, <2>11 DEF Life!Next, Life!Upload, Life!Become
<1>6. ASSUME NEW p \in PicId, NEW temporary \in Temporaries, SoftDelete(t, p, temporary)
      PROVE  [Life!Next]_State
  <2> DEFINE c == pics[p].content
             r == [pics[p] EXCEPT !.del = "soft", !.temporary = temporary]
  <2>1. p \in Stored /\ ~HardDeleted(pics[p]) /\ pics' = [pics EXCEPT ![p] = r]
    BY <1>6 DEF SoftDelete, Deletable
  <2>2. pics[p] \in Row /\ temporary \in BOOLEAN
    BY <1>1, <2>1, FlagAssumption DEF Stored
  <2>3. r \in Row /\ r.content = c /\ r.del = "soft" BY <2>2 DEF Row
  <2> HIDE DEF r
  <2>4. /\ c \in Content /\ State[c] = StateOf(pics[p])
        /\ State' = [State EXCEPT ![c] = StateOf(r)]
    BY <1>2, <2>1, <2>3
  <2>5. StateOf(pics[p]) \in {"live", "soft", "softTemporary"}
    BY <2>1, <2>2 DEF StateOf, HardDeleted, Row
  <2>6. StateOf(r) \in {"soft", "softTemporary"} BY <2>3 DEF StateOf
  <2> HIDE DEF c
  <2> QED BY <2>4, <2>5, <2>6 DEF Life!Next, Life!SoftDelete, Life!Become
<1>7. ASSUME NEW p \in PicId, HardDelete(t, p) PROVE [Life!Next]_State
  <2> DEFINE c == pics[p].content
             r == [pics[p] EXCEPT !.del = "hard", !.thumbs = {}]
  <2>1. p \in Stored /\ ~HardDeleted(pics[p]) /\ pics' = [pics EXCEPT ![p] = r]
    BY <1>7 DEF HardDelete, Deletable
  <2>2. pics[p] \in Row BY <1>1, <2>1 DEF Stored
  <2>3. r \in Row /\ r.content = c /\ r.del = "hard" /\ r.temporary = pics[p].temporary
    BY <2>2 DEF Row
  <2> HIDE DEF r
  <2>4. /\ c \in Content /\ State[c] = StateOf(pics[p]) /\ FlagFits(pics[p])
        /\ State' = [State EXCEPT ![c] = StateOf(r)]
    BY <1>2, <2>1, <2>3
  <2>5. IF pics[p].temporary
          THEN StateOf(pics[p]) = "softTemporary" /\ StateOf(r) = "hardTemporary"
          ELSE StateOf(pics[p]) \in {"live", "soft"} /\ StateOf(r) = "hard"
    <3>1. pics[p].del \in {"none", "soft"} /\ pics[p].temporary \in BOOLEAN
      BY <2>1, <2>2 DEF HardDeleted, Row
    <3> QED BY <2>3, <2>4, <3>1 DEF StateOf, FlagFits
  <2> HIDE DEF c
  <2> QED BY <2>4, <2>5 DEF Life!Next, Life!HardDelete, Life!Become
<1>8. ASSUME NEW p \in PicId, Purge(t, p) PROVE [Life!Next]_State
  <2> DEFINE c == pics[p].content
  <2>1. p \in Stored /\ pics' = [pics EXCEPT ![p] = NoPic]
    BY <1>8 DEF Purge, Deletable
  <2>2. pics[p] \in Row BY <1>1, <2>1 DEF Stored
  <2>3. /\ c \in Content /\ State[c] = StateOf(pics[p])
        /\ State' = [State EXCEPT ![c] = "absent"]
    BY <1>2, <2>1
  <2>4. StateOf(pics[p]) \in Life!Phases \ {"absent"}
    BY <2>2 DEF StateOf, Row, Life!Phases
  <2> HIDE DEF c
  <2> QED BY <2>3, <2>4 DEF Life!Next, Life!Purge, Life!Become
<1> QED BY <1>4, <1>5, <1>6, <1>7, <1>8

\* Every step is a step of PicLifecycle, or does not show.
LEMMA StepRefines ==
  ASSUME LifeInv, OnePicPerContent', [Next]_vars PROVE [Life!Next]_State
<1>1. ASSUME pics' = pics PROVE State' = State
  <2>1. ASSUME NEW c \in Content PROVE State'[c] = State[c]
    <3>1. Matches(c)' = Matches(c) BY <1>1 DEF Matches, Stored
    <3> DEFINE q == CHOOSE q \in Matches(c) : TRUE
    <3>2. q = (CHOOSE z \in Matches(c)' : TRUE) BY <3>1
    <3>3. pics'[q] = pics[q] BY <1>1
    <3> HIDE DEF q
    <3>4. State[c] = IF Matches(c) = {} THEN "absent" ELSE StateOf(pics[q])
      BY DEF State, q
    <3>5. State'[c] = IF Matches(c) = {} THEN "absent" ELSE StateOf(pics'[q])
      BY <3>1, <3>2 DEF State
    <3> QED BY <3>3, <3>4, <3>5
  <2> QED BY <2>1 DEF State
<1>2. CASE UNCHANGED vars BY <1>1, <1>2 DEF vars
<1>3. ASSUME NEW s \in Server, Crash(s) PROVE [Life!Next]_State
  BY <1>1, <1>3 DEF Crash
<1>4. ASSUME NEW t \in Task,
             \/ \E c \in Content : Upload(t, c)
             \/ Reject(t) \/ StartNew(t) \/ StartUndelete(t) \/ Prepare(t)
             \/ PrepareFails(t) \/ RenameMain(t) \/ RenameThumb(t) \/ RenameDerived(t)
             \/ RenameFails(t) \/ CommitUpsertFails(t) \/ CleanupFile(t) \/ Revert(t)
             \/ Cancel(t) \/ RemoveFile(t) \/ RemoveDone(t)
      PROVE  [Life!Next]_State
  <2>1. pics' = pics
    BY <1>4 DEF Upload, Reject, StartNew, StartUndelete, Prepare, PrepareFails,
                RenameMain, RenameThumb, RenameDerived, Rename, RenameFails,
                CommitUpsertFails, CleanupFile, Revert, Cancel, RemoveFile, RemoveDone
  <2> QED BY <1>1, <2>1
<1> QED BY <1>2, <1>3, <1>4, RowStepRefines DEF Next, Step

\* Whatever uploads, deletions and purges run at once, on whatever servers, and
\* whatever fails half-way: a picture goes from phase to phase only along the steps
\* of PicLifecycle.  In particular a permanent deletion is never lifted.
THEOREM KeepsLifecycle == Spec => LifecycleKept
<1>1. Init => LifeInv
  <2> SUFFICES ASSUME Init PROVE LifeInv OBVIOUS
  <2>1. Stored = {} BY DEF Init, Stored
  <2>2. \A t \in Task : job[t].pc = "idle" BY DEF Init, Idle
  <2> QED BY <2>1, <2>2, InitRows DEF LifeInv, LifeInvOf, Working, Prepared
<1>2. Init => Life!Init
  <2> SUFFICES ASSUME Init PROVE Life!Init OBVIOUS
  <2>1. \A c \in Content : Matches(c) = {} BY DEF Init, Matches, Stored
  <2> QED BY <2>1 DEF State, Life!Init
<1>3. RowInv => OnePicPerContent BY DEF RowInv
<1> QED BY <1>1, <1>2, <1>3, NextLife, StepRefines, RowInvariance, PTL
        DEF Spec, LifecycleKept, Life!Spec

-----------------------------------------------------------------------------
\* Files, where no deletion is temporary and no request is cancelled.

\* What the names of the files of an upsert say.
LEMMA NewPaths ==
  ASSUME NEW t \in Task
  PROVE  /\ NewMainPath(t).pic = job[t].pic
         /\ NewThumbPath(t).pic = job[t].pic
         /\ NewDerivedPath(t).pic = job[t].pic
         /\ NewMainPath(t).index = -1
         /\ NewThumbPath(t).mime = "image"
         /\ NewDerivedPath(t).mime = "video"
         /\ NewThumbPath(t) = ThumbPath(job[t].pic, NewThumbPath(t).index)
         /\ NewDerivedPath(t) = DerivedPath(job[t].pic, NewDerivedPath(t).index)
BY DEF NewMainPath, NewThumbPath, NewDerivedPath, PicFilePath, ThumbPath, DerivedPath

\* They stay while the picture and its row do.
LEMMA SamePaths ==
  ASSUME NEW t \in Task, /\ job'[t].pic = job[t].pic
                         /\ job'[t].content = job[t].content
                         /\ job'[t].row = job[t].row
  PROVE  /\ NewMainPath(t)' = NewMainPath(t)
         /\ NewThumbPath(t)' = NewThumbPath(t)
         /\ NewDerivedPath(t)' = NewDerivedPath(t)
BY DEF NewMainPath, NewThumbPath, NewDerivedPath

\* The paths of a prepared upsert are three different ones.
LEMMA PreparedPaths ==
  ASSUME TypeOK, MadeInv, NEW t \in Task, job[t].pc \in Prepared
  PROVE  /\ NewMainPath(t) \in Path /\ NewThumbPath(t) \in Path
         /\ NewMainPath(t) # NewThumbPath(t)
         /\ job[t].content \in Video =>
              /\ NewDerivedPath(t) \in Path
              /\ NewDerivedPath(t) # NewMainPath(t)
              /\ NewDerivedPath(t) # NewThumbPath(t)
<1>1. job[t].pic \in PicId /\ job[t].row \in Row /\ job[t].content \in Content
  BY DEF TypeOK, Job
<1>2. NewThumbPath(t).index \in Index BY <1>1 DEF MadeInv, Row
<1>3. job[t].content \in Video => NewDerivedPath(t).index \in Index
  BY <1>1 DEF MadeInv, Row
<1>4. NewMainPath(t) \in Path
  BY <1>1, IndexAssumption DEF NewMainPath, PicFilePath, Path, Mime
<1>5. \A i \in Index : ThumbPath(job[t].pic, i) \in Path /\ DerivedPath(job[t].pic, i) \in Path
  BY <1>1 DEF ThumbPath, DerivedPath, Path, Index
<1>6. \A i \in Index : i # -1 BY DEF Index
<1> QED BY <1>2, <1>3, <1>4, <1>5, <1>6, NewPaths

\* Most steps take an upsert no further than its cleanup, change a row only to
\* delete it, and touch only files nobody will need.

FileQuiet(u) ==
  /\ job'[u].pc \in Working => job'[u] = job[u]
  /\ job'[u].pc \in Working \/ job'[u].destroy \cap NewFlags # {} =>
       job'[u].open /\ job'[u].new
  /\ \A f \in doomed'[u] : \/ f \in doomed[u]
                           \/ /\ f.pic \in usedIds
                              /\ f.pic \in Stored' => HardDeleted(pics'[f.pic])

RowDeleted(p) ==
  \/ pics'[p] = pics[p]
  \/ pics'[p] = NoPic
  \/ /\ p \in Stored /\ ~pics'[p].temporary
     /\ \/ HardDeleted(pics'[p])
        \/ /\ ~HardDeleted(pics[p])
           /\ pics'[p].content = pics[p].content
           /\ pics'[p].thumbs = pics[p].thumbs
           /\ pics'[p].derived = pics[p].derived

FileFree(f) ==
  \/ fs'[f] = fs[f]
  \/ \E t \in Task : f \in doomed[t]
  \/ \E t \in Task : /\ job[t].open /\ job[t].new /\ f.pic = job[t].pic
                     /\ job'[t].pc \notin Working

\* Such a step keeps the invariant of the files.
LEMMA FileStep ==
  ASSUME FileInv, RowInv', usedIds' = usedIds,
         \A u \in Task : FileQuiet(u),
         \A p \in PicId : RowDeleted(p),
         \A f \in Path : FileFree(f)
  PROVE  FileInv'
<1>1. \A p \in Stored' : p \in PicId /\ p \in Stored
  BY DEF RowDeleted, Stored
<1>2. InsertInv' BY <1>1 DEF FileInv, InsertInv, FileQuiet, RowDeleted, Stored
<1>3. \A u \in Task : job'[u].pc \in Working => job'[u] = job[u] BY DEF FileQuiet
<1>4. \A u \in Task : job'[u].pc \in Working =>
        /\ NewMainPath(u)' = NewMainPath(u)
        /\ NewThumbPath(u)' = NewThumbPath(u)
        /\ NewDerivedPath(u)' = NewDerivedPath(u)
  BY <1>3, SamePaths
<1>5. MadeInv' BY <1>3, <1>4 DEF FileInv, MadeInv, Working, Prepared
<1>6. ASSUME NEW u \in Task, job'[u].pc \in Working, NEW f \in Path, f.pic = job[u].pic
      PROVE  fs'[f] = fs[f]
  <2>1. job[u].open /\ job[u].new BY <1>3, <1>6 DEF FileInv, InsertInv
  <2>2. job[u].pic \notin usedIds BY <2>1 DEF FileInv, RowInv, NewInv
  <2>3. \A t \in Task : f \notin doomed[t] BY <1>6, <2>2 DEF FileInv, DoomedInv
  <2>4. ASSUME NEW t \in Task, job[t].open, job[t].new, f.pic = job[t].pic PROVE t = u
    BY <1>6, <2>1, <2>4 DEF FileInv, RowInv, NewInv
  <2> QED BY <1>6, <2>3, <2>4 DEF FileFree
<1>7. MovedInv'
  <2> SUFFICES ASSUME NEW u \in Task, job'[u].pc \in Prepared
               PROVE  /\ job'[u].pc \in {"renameThumb", "renameDerived", "commit"} =>
                           fs'[NewMainPath(u)'] = job'[u].content
                      /\ job'[u].pc \in {"renameDerived", "commit"} =>
                           fs'[NewThumbPath(u)'] = job'[u].content
                      /\ job'[u].pc = "commit" /\ job'[u].content \in Video =>
                           fs'[NewDerivedPath(u)'] = job'[u].content
    BY DEF MovedInv, Prepared, Working
  <2>1. job'[u].pc \in Working /\ job'[u] = job[u] BY <1>3 DEF Prepared
  <2>2. /\ NewMainPath(u) \in Path /\ NewThumbPath(u) \in Path
        /\ job[u].content \in Video => NewDerivedPath(u) \in Path
    BY <2>1, PreparedPaths DEF FileInv, RowInv
  <2>3. /\ fs'[NewMainPath(u)] = fs[NewMainPath(u)]
        /\ fs'[NewThumbPath(u)] = fs[NewThumbPath(u)]
        /\ job[u].content \in Video => fs'[NewDerivedPath(u)] = fs[NewDerivedPath(u)]
    BY <1>6, <2>1, <2>2, NewPaths
  <2> QED BY <1>4, <2>1, <2>3 DEF FileInv, MovedInv
<1>8. DoomedInv'
  <2> SUFFICES ASSUME NEW u \in Task, NEW f \in doomed'[u]
               PROVE  /\ f.pic \in usedIds
                      /\ f.pic \in Stored' => HardDeleted(pics'[f.pic])
    BY DEF DoomedInv
  <2>1. CASE f \in doomed[u]
    BY <1>1, <2>1 DEF FileInv, DoomedInv, RowDeleted, Stored
  <2> QED BY <2>1 DEF FileQuiet
<1>9. LivePicsHaveFiles'
  <2> SUFFICES ASSUME NEW p \in Stored', ~HardDeleted(pics'[p]),
                      NEW f \in Referenced(p, pics'[p])
               PROVE  fs'[f] = pics'[p].content
    BY DEF LivePicsHaveFiles, Referenced, MainAndThumbs, ThumbPaths, HardDeleted
  <2>1. /\ p \in Stored /\ ~HardDeleted(pics[p])
        /\ pics'[p].content = pics[p].content /\ pics'[p].thumbs = pics[p].thumbs
        /\ pics'[p].derived = pics[p].derived
    BY <1>1 DEF RowDeleted, Stored
  <2>2. f \in Referenced(p, pics[p])
    BY <2>1 DEF Referenced, MainAndThumbs, ThumbPaths
  <2>3. fs[f] = pics[p].content BY <2>1, <2>2 DEF FileInv, LivePicsHaveFiles
  <2>4. f.pic = p
    BY DEF Referenced, MainAndThumbs, ThumbPaths, PicFilePath, ThumbPath, DerivedPath
  <2>5. pics[p] \in Row /\ p \in PicId
    BY <2>1 DEF FileInv, RowInv, TypeOK, Stored
  <2>6. f \in Path
    BY <2>2, <2>5, IndexAssumption
       DEF Referenced, MainAndThumbs, ThumbPaths, PicFilePath, ThumbPath, DerivedPath,
           Path, Row, Index, Mime
  <2>7. p \in usedIds BY <2>1 DEF FileInv, RowInv, RowsInv
  <2>8. \A t \in Task : f \notin doomed[t] BY <2>1, <2>4 DEF FileInv, DoomedInv
  <2>9. \A t \in Task : job[t].open /\ job[t].new => f.pic # job[t].pic
    BY <2>4, <2>7 DEF FileInv, RowInv, NewInv
  <2> QED BY <2>1, <2>3, <2>6, <2>8, <2>9 DEF FileFree
<1> QED BY <1>2, <1>5, <1>7, <1>8, <1>9 DEF FileInv

\* The steps of Next that FileStep is about.
LEMMA FileActions ==
  ASSUME NoUndelete, FileInv, RowInv', NEW t \in Task,
         \/ \E c \in Content : Upload(t, c)
         \/ Reject(t) \/ MergeExisting(t) \/ PrepareFails(t) \/ RenameFails(t)
         \/ CommitUpsertFails(t) \/ CleanupFile(t) \/ Revert(t)
         \/ \E p \in PicId :
              \/ \E temporary \in Temporaries : SoftDelete(t, p, temporary)
              \/ HardDelete(t, p) \/ Purge(t, p)
         \/ RemoveFile(t) \/ RemoveDone(t)
  PROVE  FileInv'
<1> DEFINE NoRowChanges == \A p \in PicId : RowDeleted(p)
           NoFileChanges == \A f \in Path : FileFree(f)
           Rest == \A u \in Task : u # t => job'[u] = job[u]
           Fit(u) == job'[u].pc \in Working \/ job'[u].destroy \cap NewFlags # {} =>
                       job'[u].open /\ job'[u].new
<1>1. job \in [Task -> Job] /\ job[t] \in Job /\ doomed \in [Task -> SUBSET Path]
  BY DEF FileInv, RowInv, TypeOK
<1>2. \A u \in Task : job[u].pc \in Working \/ job[u].destroy \cap NewFlags # {} =>
                        job[u].open /\ job[u].new
  BY DEF FileInv, InsertInv
<1>3. job[t].pc \in {"idle", "find"} => ~job[t].new
  BY DEF FileInv, RowInv, FindInv
<1>4. pics' = pics => NoRowChanges BY DEF RowDeleted
<1>5. fs' = fs => NoFileChanges BY DEF FileFree
<1>6. ASSUME Rest, doomed' = doomed, Fit(t), job'[t].pc \notin Working \/ job'[t] = job[t]
      PROVE  \A u \in Task : FileQuiet(u)
  BY <1>2, <1>6 DEF FileQuiet
<1>7. job' = job => Rest /\ Fit(t) BY <1>2
<1>8. ASSUME Finish(t) PROVE Rest /\ Fit(t) /\ job'[t].pc \notin Working
  <2>1. job'[t] = Idle /\ Rest BY <1>1, <1>8 DEF Finish
  <2>2. Idle.pc \notin Working /\ Idle.destroy = {} BY DEF Idle, Working
  <2> QED BY <2>1, <2>2
<1>9. ASSUME NEW l \in {"cleanup", "remove"}, Goto(t, l)
      PROVE  Rest /\ Fit(t) /\ job'[t].pc \notin Working
  <2>1. job'[t] = [job[t] EXCEPT !.pc = l] /\ Rest BY <1>1, <1>9 DEF Goto
  <2>2. l \notin Working BY DEF Working
  <2> QED BY <1>1, <1>2, <2>1, <2>2 DEF Job
<1>10. ASSUME NEW c \in Content, Upload(t, c) PROVE FileInv'
  <2>1. job'[t] = [job[t] EXCEPT !.pc = "find", !.content = c, !.open = TRUE,
                                 !.destroy = {"main"}] /\ Rest
    BY <1>1, <1>10 DEF Upload
  <2>2. job'[t].pc = "find" /\ job'[t].destroy = {"main"} BY <1>1, <2>1 DEF Job
  <2>3. Fit(t) /\ job'[t].pc \notin Working BY <2>2 DEF Working, NewFlags
  <2> QED BY <1>4, <1>5, <1>6, <1>10, <2>1, <2>3, FileStep DEF Upload
<1>11. CASE Reject(t)
  BY <1>4, <1>5, <1>6, <1>9, <1>11, FileStep DEF Reject
<1>12. CASE MergeExisting(t)
  <2>1. job'[t] = [job[t] EXCEPT !.pc = "cleanup", !.open = FALSE] /\ Rest
    BY <1>1, <1>12 DEF MergeExisting
  <2>2. job[t].pc = "find" BY <1>12 DEF MergeExisting, In
  <2>3. job[t].destroy \cap NewFlags = {} BY <1>2, <1>3, <2>2
  <2>4. Fit(t) /\ job'[t].pc \notin Working
    BY <1>1, <2>1, <2>3 DEF Job, Working
  <2>5. PICK p \in Stored : /\ ~HardDeleted(pics[p])
                            /\ pics' = [pics EXCEPT ![p] = Merged(pics[p])]
    BY <1>12 DEF MergeExisting, Matches
  <2>6. pics \in [PicId -> Row \cup {NoPic}] /\ pics[p] \in Row
    BY DEF FileInv, RowInv, TypeOK, Stored
  <2>7. Merged(pics[p]) = pics[p] BY DEF FileInv, InsertInv, Merged
  <2>8. NoRowChanges BY <2>5, <2>6, <2>7 DEF RowDeleted
  <2> QED BY <1>5, <1>6, <1>12, <2>1, <2>4, <2>8, FileStep DEF MergeExisting
<1>13. CASE PrepareFails(t)
  BY <1>4, <1>5, <1>6, <1>9, <1>13, FileStep DEF PrepareFails
<1>14. CASE RenameFails(t)
  <2>1. PICK k : job' = [job EXCEPT ![t].pc = "cleanup", ![t].destroy = @ \ {k}]
    BY <1>14 DEF RenameFails
  <2>2. job'[t] = [job[t] EXCEPT !.pc = "cleanup", !.destroy = @ \ {k}] /\ Rest
    BY <1>1, <2>1
  <2>3. Fit(t) /\ job'[t].pc \notin Working BY <1>1, <1>2, <2>2 DEF Job, Working
  <2> QED BY <1>4, <1>5, <1>6, <1>14, <2>2, <2>3, FileStep DEF RenameFails
<1>15. CASE CommitUpsertFails(t)
  BY <1>4, <1>5, <1>6, <1>8, <1>15, FileStep DEF CommitUpsertFails
<1>16. CASE CleanupFile(t)
  <2>1. PICK flag \in Flags :
          /\ flag \in job[t].destroy
          /\ job' = [job EXCEPT ![t].destroy = @ \ {flag}]
          /\ \/ fs' = fs
             \/ flag \notin TempKind /\ fs' = [fs EXCEPT ![NewPath(t, flag)] = NoFile]
    BY <1>16 DEF CleanupFile, Flags
  <2>2. job'[t] = [job[t] EXCEPT !.destroy = @ \ {flag}] /\ Rest BY <1>1, <2>1
  <2>3. job[t].pc = "cleanup" BY <1>16 DEF CleanupFile
  <2>4. Fit(t) /\ job'[t].pc \notin Working
    BY <1>1, <1>2, <2>2, <2>3 DEF Job, Working
  <2>5. NoFileChanges
    <3>1. CASE fs' = fs BY <1>5, <3>1
    <3>2. CASE flag \notin TempKind /\ fs' = [fs EXCEPT ![NewPath(t, flag)] = NoFile]
      <4>1. flag \in NewFlags BY <3>2, FlagSet DEF TempKind, NewFlags
      <4>2. NewPath(t, flag).pic = job[t].pic
        BY <4>1, NewPaths DEF NewPath, NewFlags
      <4>3. job[t].open /\ job[t].new BY <1>2, <2>1, <4>1
      <4>4. \A f \in Path : f # NewPath(t, flag) => fs'[f] = fs[f]
        BY <3>2 DEF FileInv, RowInv, TypeOK
      <4> HIDE DEF Fit
      <4> QED BY <2>4, <4>2, <4>3, <4>4 DEF FileFree
    <3> QED BY <2>1, <3>1, <3>2
  <2> QED BY <1>4, <1>6, <1>16, <2>2, <2>4, <2>5, FileStep DEF CleanupFile
<1>17. CASE Revert(t)
  BY <1>4, <1>5, <1>6, <1>8, <1>17, FileStep DEF Revert
<1>18. ASSUME NEW p \in PicId, NEW temporary \in Temporaries,
              SoftDelete(t, p, temporary)
       PROVE  FileInv'
  <2>1. pics \in [PicId -> Row \cup {NoPic}] /\ pics[p] \in Row /\ p \in Stored
    BY <1>18 DEF FileInv, RowInv, TypeOK, SoftDelete, Deletable, Stored
  <2>2. temporary = FALSE BY DEF NoUndelete
  <2>3. pics'[p] = [pics[p] EXCEPT !.del = "soft", !.temporary = temporary]
    BY <1>18, <2>1 DEF SoftDelete
  <2>4. ~HardDeleted(pics[p]) BY <1>18 DEF SoftDelete
  <2>5. RowDeleted(p) BY <2>1, <2>2, <2>3, <2>4 DEF RowDeleted, Row
  <2>6. \A q \in PicId : q # p => pics'[q] = pics[q] BY <1>18, <2>1 DEF SoftDelete
  <2>7. NoRowChanges BY <2>5, <2>6 DEF RowDeleted
  <2> QED BY <1>5, <1>6, <1>7, <1>18, <2>7, FileStep DEF SoftDelete
<1>19. ASSUME NEW p \in Stored, RemoveLater(t, MainAndThumbs(p, pics[p])),
              pics'[p] = NoPic \/ HardDeleted(pics'[p])
       PROVE  \A u \in Task : FileQuiet(u)
  <2>1. Rest /\ Fit(t) /\ (job'[t].pc \notin Working \/ job'[t] = job[t])
    BY <1>7, <1>9, <1>19 DEF RemoveLater
  <2>2. \A f \in MainAndThumbs(p, pics[p]) : f.pic = p
    BY DEF MainAndThumbs, ThumbPaths, PicFilePath, ThumbPath
  <2>3. p \in usedIds BY DEF FileInv, RowInv, RowsInv
  <2>4. \A u \in Task : doomed'[u] = doomed[u] \/ doomed'[u] = MainAndThumbs(p, pics[p])
    BY <1>1, <1>19 DEF RemoveLater
  <2>5. p \in Stored' => HardDeleted(pics'[p]) BY <1>19 DEF Stored
  <2> QED BY <1>2, <2>1, <2>2, <2>3, <2>4, <2>5 DEF FileQuiet
<1>20. ASSUME NEW p \in PicId, HardDelete(t, p) PROVE FileInv'
  <2>1. pics \in [PicId -> Row \cup {NoPic}] /\ pics[p] \in Row /\ p \in Stored
    BY <1>20 DEF FileInv, RowInv, TypeOK, HardDelete, Deletable, Stored
  <2>2. pics'[p] = [pics[p] EXCEPT !.del = "hard", !.thumbs = {}]
    BY <1>20, <2>1 DEF HardDelete
  <2>3. HardDeleted(pics'[p]) /\ ~pics'[p].temporary
    BY <2>1, <2>2 DEF HardDeleted, Row, FileInv, InsertInv
  <2>4. \A q \in PicId : q # p => pics'[q] = pics[q] BY <1>20, <2>1 DEF HardDelete
  <2>5. NoRowChanges BY <2>1, <2>3, <2>4 DEF RowDeleted
  <2> QED BY <1>5, <1>19, <1>20, <2>1, <2>3, <2>5, FileStep DEF HardDelete
<1>21. ASSUME NEW p \in PicId, Purge(t, p) PROVE FileInv'
  <2>1. pics \in [PicId -> Row \cup {NoPic}] /\ p \in Stored
    BY <1>21 DEF FileInv, RowInv, TypeOK, Purge, Deletable
  <2>2. pics'[p] = NoPic BY <1>21, <2>1 DEF Purge
  <2>3. NoRowChanges BY <1>21, <2>1 DEF Purge, RowDeleted
  <2> QED BY <1>5, <1>19, <1>21, <2>1, <2>2, <2>3, FileStep DEF Purge
<1>22. CASE RemoveFile(t)
  <2>1. PICK f \in doomed[t] :
          /\ doomed' = [doomed EXCEPT ![t] = @ \ {f}]
          /\ fs' = [fs EXCEPT ![f] = NoFile] \/ fs' = fs
    BY <1>22 DEF RemoveFile
  <2>2. \A u \in Task : doomed'[u] \subseteq doomed[u] BY <1>1, <2>1
  <2>3. job' = job BY <1>22 DEF RemoveFile
  <2>4. \A u \in Task : FileQuiet(u) BY <1>2, <2>2, <2>3 DEF FileQuiet
  <2>5. \A g \in Path : g # f => fs'[g] = fs[g]
    BY <2>1 DEF FileInv, RowInv, TypeOK
  <2>6. NoFileChanges BY <2>5 DEF FileFree
  <2> QED BY <1>4, <1>22, <2>4, <2>6, FileStep DEF RemoveFile
<1>23. CASE RemoveDone(t)
  BY <1>4, <1>5, <1>6, <1>8, <1>23, FileStep DEF RemoveDone
<1> QED BY <1>10, <1>11, <1>12, <1>13, <1>14, <1>15, <1>16, <1>17, <1>18, <1>20,
           <1>21, <1>22, <1>23

\* The remaining steps of an upsert that inserts its row.
LEMMA StartNewFiles ==
  ASSUME FileInv, RowInv', NEW t \in Task, StartNew(t) PROVE FileInv'
<1> DEFINE r == [NoRow EXCEPT !.content = job[t].content]
<1>1. PICK p \in FreshIds :
        job' = [job EXCEPT ![t].pc = "prepare", ![t].pic = p, ![t].new = TRUE, ![t].row = r]
  BY DEF StartNew
<1>2. job \in [Task -> Job] /\ job[t] \in Job BY DEF FileInv, RowInv, TypeOK
<1>3. r.derived = {} /\ ~r.temporary BY DEF NoRow
<1> HIDE DEF r
<1>4. /\ job'[t].pc = "prepare" /\ job'[t].new /\ job'[t].row = r
      /\ job'[t].open = job[t].open
      /\ \A u \in Task : u # t => job'[u] = job[u]
  <2>1. job'[t] = [job[t] EXCEPT !.pc = "prepare", !.pic = p, !.new = TRUE, !.row = r]
    BY <1>1, <1>2
  <2>2. \A u \in Task : u # t => job'[u] = job[u] BY <1>1, <1>2
  <2> QED BY <1>2, <2>1, <2>2 DEF Job
<1>5. UNCHANGED <<pics, usedIds, fs, doomed>> BY DEF StartNew
<1>6. job[t].open BY DEF StartNew, In
<1>7. InsertInv' BY <1>4, <1>5, <1>6 DEF FileInv, InsertInv, Stored
<1>8. \A u \in Task : u # t => /\ NewMainPath(u)' = NewMainPath(u)
                               /\ NewThumbPath(u)' = NewThumbPath(u)
                               /\ NewDerivedPath(u)' = NewDerivedPath(u)
  BY <1>4, SamePaths
<1>9. MadeInv'
  BY <1>3, <1>4, <1>8 DEF FileInv, MadeInv, Prepared
<1>10. MovedInv' BY <1>4, <1>5, <1>8 DEF FileInv, MovedInv
<1>11. DoomedInv' BY <1>5 DEF FileInv, DoomedInv, Stored, HardDeleted
<1>12. LivePicsHaveFiles'
  BY <1>5 DEF FileInv, LivePicsHaveFiles, Stored, HardDeleted, Referenced,
              MainAndThumbs, ThumbPaths
<1> QED BY <1>7, <1>9, <1>10, <1>11, <1>12 DEF FileInv

\* The upsert enters its files in its row.
LEMMA PrepareFiles ==
  ASSUME FileInv, RowInv', NEW t \in Task, Prepare(t) PROVE FileInv'
<1> DEFINE r == job[t].row
           m == Merged(WithThumb(WithDerived(r)))
<1>1. job \in [Task -> Job] /\ job[t] \in Job /\ r \in Row
  BY DEF FileInv, RowInv, TypeOK, Job
<1>2. job[t].pc = "prepare" BY DEF Prepare, In
<1>3. r.thumbs = {} /\ ~OutOfIndexes(r) BY <1>2 DEF FileInv, RowInv, PrepareInv
<1>4. r.derived = {} /\ r.content = job[t].content
  BY <1>2 DEF FileInv, MadeInv, RowInv, SettledInv, Working
<1>5. PICK i \in Index, j \in Index :
        /\ m.thumbs = {i}
        /\ m.derived = IF job[t].content \in Video THEN {j} ELSE {}
        /\ ~m.temporary
  <2>1. /\ \E i \in Index : m.thumbs = {i}
        /\ \/ r.content \notin Video /\ m.derived = r.derived
           \/ r.content \in Video /\ \E i \in Index : m.derived = r.derived \cup {i}
        /\ ~m.temporary
    BY <1>1, <1>3, PreparedRow
  <2> HIDE DEF m
  <2>2. \/ job[t].content \notin Video /\ m.derived = {}
        \/ job[t].content \in Video /\ \E i \in Index : m.derived = {i}
    BY <1>4, <2>1
  <2> QED BY <2>1, <2>2
<1>6. job' = [job EXCEPT ![t].pc = "renameMain", ![t].row = m,
                         ![t].destroy = @ \cup Made(job[t].content)]
  BY DEF Prepare
<1> HIDE DEF m
<1>7. /\ job'[t].pc = "renameMain" /\ job'[t].row = m
      /\ job'[t].content = job[t].content /\ job'[t].open = job[t].open
      /\ job'[t].new = job[t].new
      /\ \A u \in Task : u # t => job'[u] = job[u]
  <2>1. job'[t] = [job[t] EXCEPT !.pc = "renameMain", !.row = m,
                                 !.destroy = @ \cup Made(job[t].content)]
    BY <1>1, <1>6
  <2>2. \A u \in Task : u # t => job'[u] = job[u] BY <1>1, <1>6
  <2> QED BY <1>1, <2>1, <2>2 DEF Job
<1>8. UNCHANGED <<pics, usedIds, fs, doomed>> BY DEF Prepare
<1>9. job[t].open /\ job[t].new BY <1>2 DEF FileInv, InsertInv, Working
<1>10. InsertInv' BY <1>7, <1>8, <1>9 DEF FileInv, InsertInv, Stored
<1>11. \A u \in Task : u # t => /\ NewMainPath(u)' = NewMainPath(u)
                                /\ NewThumbPath(u)' = NewThumbPath(u)
                                /\ NewDerivedPath(u)' = NewDerivedPath(u)
  BY <1>7, SamePaths
<1>12. /\ NewThumbPath(t)'.index = i
       /\ job[t].content \in Video => NewDerivedPath(t)'.index = j
  <2>1. (CHOOSE x \in {i} : TRUE) = i OBVIOUS
  <2>2. (CHOOSE x \in {j} : \A y \in {j} : y <= x) = j BY DEF Index
  <2>3. NewThumbPath(t)'.index = i
    BY <1>5, <1>7, <2>1 DEF NewThumbPath, ThumbPath
  <2>4. ASSUME job[t].content \in Video PROVE NewDerivedPath(t)'.index = j
    BY <1>5, <1>7, <2>2, <2>4 DEF NewDerivedPath, DerivedPath
  <2> QED BY <2>3, <2>4
<1>13. MadeInv'
  <2> DEFINE Made1(u) == /\ job[u].pc = "prepare" => job[u].row.derived = {}
                         /\ job[u].pc \in Working => ~job[u].row.temporary
                         /\ job[u].pc = "renameDerived" => job[u].content \in Video
             Made2(u) == job[u].pc \in Prepared =>
                           /\ job[u].row.thumbs = {NewThumbPath(u).index}
                           /\ job[u].row.derived = IF job[u].content \in Video
                                                     THEN {NewDerivedPath(u).index} ELSE {}
  <2>1. Made1(t)' BY <1>5, <1>7
  <2>2. Made2(t)' BY <1>5, <1>7, <1>12
  <2>3. ASSUME NEW u \in Task, u # t PROVE Made1(u)' /\ Made2(u)'
    BY <1>7, <1>11, <2>3 DEF FileInv, MadeInv
  <2> HIDE DEF Made1, Made2
  <2>4. \A u \in Task : Made1(u)' /\ Made2(u)' BY <2>1, <2>2, <2>3
  <2> QED BY <2>4 DEF MadeInv, Made1, Made2
<1>14. MovedInv' BY <1>7, <1>8, <1>11 DEF FileInv, MovedInv
<1>15. DoomedInv' BY <1>8 DEF FileInv, DoomedInv, Stored, HardDeleted
<1>16. LivePicsHaveFiles'
  BY <1>8 DEF FileInv, LivePicsHaveFiles, Stored, HardDeleted, Referenced,
              MainAndThumbs, ThumbPaths
<1> QED BY <1>10, <1>13, <1>14, <1>15, <1>16 DEF FileInv

SamePath(u) == /\ NewMainPath(u)' = NewMainPath(u)
               /\ NewThumbPath(u)' = NewThumbPath(u)
               /\ NewDerivedPath(u)' = NewDerivedPath(u)

\* What holds after t renamed a file to f.
Renamed(t, f, next) ==
  /\ InsertInv' /\ MadeInv' /\ DoomedInv' /\ LivePicsHaveFiles'
  /\ \A u \in Task : SamePath(u)
  /\ \A u \in Task : u # t =>
       /\ job'[u] = job[u]
       /\ \A g \in Path : g.pic = job[u].pic /\ job[u].pc \in Prepared => fs'[g] = fs[g]
  /\ job'[t].pc = next /\ job'[t].content = job[t].content
  /\ fs'[f] = job[t].content
  /\ \A g \in Path : g # f => fs'[g] = fs[g]

\* A rename gives its own upsert one more file, and touches no other's.
LEMMA RenameStep ==
  ASSUME FileInv, NEW t \in Task, NEW k, NEW f \in Path, NEW flag \in NewFlags,
         NEW next \in Prepared, job[t].pc \in Prepared, f.pic = job[t].pic,
         next = "renameDerived" => job[t].content \in Video,
         Rename(t, k, f, flag, next)
  PROVE  Renamed(t, f, next)
<1>1. /\ job \in [Task -> Job] /\ job[t] \in Job
      /\ fs \in [Path -> Content \cup {NoFile}]
  BY DEF FileInv, RowInv, TypeOK
<1>2. /\ job'[t].pc = next /\ job'[t].row = job[t].row /\ job'[t].pic = job[t].pic
      /\ job'[t].content = job[t].content /\ job'[t].open = job[t].open
      /\ job'[t].new = job[t].new
      /\ \A u \in Task : u # t => job'[u] = job[u]
  <2>1. job'[t] = [job[t] EXCEPT !.pc = next, !.destroy = (@ \ {k}) \cup {flag}]
    BY <1>1 DEF Rename
  <2>2. \A u \in Task : u # t => job'[u] = job[u] BY <1>1 DEF Rename
  <2> QED BY <1>1, <2>1, <2>2 DEF Job
<1>3. fs'[f] = job[t].content /\ \A g \in Path : g # f => fs'[g] = fs[g]
  BY <1>1 DEF Rename
<1>4. UNCHANGED <<pics, usedIds, doomed>> BY DEF Rename
<1>5. job[t].open /\ job[t].new BY DEF FileInv, InsertInv, Prepared
<1>6. job[t].pic \notin usedIds BY <1>5 DEF FileInv, RowInv, NewInv
<1>7. \A u \in Task : /\ NewMainPath(u)' = NewMainPath(u)
                      /\ NewThumbPath(u)' = NewThumbPath(u)
                      /\ NewDerivedPath(u)' = NewDerivedPath(u)
  BY <1>2, SamePaths
<1>8. InsertInv' BY <1>2, <1>4, <1>5 DEF FileInv, InsertInv, Stored
<1>9. MadeInv'
  <2>1. next \in Working /\ next # "prepare" /\ job[t].pc \in Working
    BY DEF Prepared
  <2>2. ASSUME NEW u \in Task
        PROVE  /\ job'[u].row = job[u].row /\ job'[u].content = job[u].content
               /\ job'[u].pc = "prepare" => job[u].pc = "prepare"
               /\ job'[u].pc \in Working => job[u].pc \in Working
               /\ job'[u].pc \in Prepared => job[u].pc \in Prepared
               /\ job'[u].pc = "renameDerived" => job[u].content \in Video
    BY <1>2, <2>1 DEF FileInv, MadeInv
  <2> QED BY SMTT(60), <1>7, <2>2 DEF FileInv, MadeInv
<1>10. DoomedInv' BY <1>4 DEF FileInv, DoomedInv, Stored, HardDeleted
<1>11. LivePicsHaveFiles'
  <2> SUFFICES ASSUME NEW p \in Stored, ~HardDeleted(pics[p]),
                      NEW g \in Referenced(p, pics[p])
               PROVE  fs'[g] = pics[p].content
    BY <1>4 DEF LivePicsHaveFiles, Referenced, MainAndThumbs, ThumbPaths, HardDeleted,
                Stored
  <2>1. fs[g] = pics[p].content BY DEF FileInv, LivePicsHaveFiles
  <2>2. g.pic = p
    BY DEF Referenced, MainAndThumbs, ThumbPaths, PicFilePath, ThumbPath, DerivedPath
  <2>3. g # f BY <1>6, <2>2 DEF FileInv, RowInv, RowsInv
  <2>4. pics[p] \in Row /\ p \in PicId BY DEF FileInv, RowInv, TypeOK, Stored
  <2>5. g \in Path
    BY <2>4, IndexAssumption
       DEF Referenced, MainAndThumbs, ThumbPaths, PicFilePath, ThumbPath, DerivedPath,
           Path, Row, Index, Mime
  <2> QED BY <1>3, <2>1, <2>3, <2>5
<1>12. ASSUME NEW u \in Task, u # t, NEW g \in Path, g.pic = job[u].pic,
              job[u].pc \in Prepared
       PROVE  fs'[g] = fs[g]
  <2>1. job[u].open /\ job[u].new BY <1>12 DEF FileInv, InsertInv, Prepared
  <2>2. job[u].pic # job[t].pic BY <1>5, <1>12, <2>1 DEF FileInv, RowInv, NewInv
  <2> QED BY <1>3, <1>12, <2>2
<1> QED BY <1>2, <1>3, <1>7, <1>8, <1>9, <1>10, <1>11, <1>12 DEF Renamed, SamePath

\* Each of its renames.
LEMMA RenameFiles ==
  ASSUME FileInv, RowInv', NEW t \in Task,
         RenameMain(t) \/ RenameThumb(t) \/ RenameDerived(t)
  PROVE  FileInv'
<1> DEFINE Moved(u) ==
             /\ job[u].pc \in {"renameThumb", "renameDerived", "commit"} =>
                  fs[NewMainPath(u)] = job[u].content
             /\ job[u].pc \in {"renameDerived", "commit"} =>
                  fs[NewThumbPath(u)] = job[u].content
             /\ job[u].pc = "commit" /\ job[u].content \in Video =>
                  fs[NewDerivedPath(u)] = job[u].content
<1>1. \A u \in Task : Moved(u) BY DEF FileInv, MovedInv
<1>2. ASSUME NEW f, NEW next, Renamed(t, f, next), NEW u \in Task, u # t
      PROVE  Moved(u)'
  <2>1. job'[u] = job[u] /\ SamePath(u) BY <1>2 DEF Renamed
  <2>2. CASE job[u].pc \in Prepared
    <3>1. /\ NewMainPath(u) \in Path /\ NewThumbPath(u) \in Path
          /\ job[u].content \in Video => NewDerivedPath(u) \in Path
      BY <2>2, PreparedPaths DEF FileInv, RowInv
    <3>2. /\ fs'[NewMainPath(u)] = fs[NewMainPath(u)]
          /\ fs'[NewThumbPath(u)] = fs[NewThumbPath(u)]
          /\ job[u].content \in Video => fs'[NewDerivedPath(u)] = fs[NewDerivedPath(u)]
      BY <1>2, <2>2, <3>1, NewPaths DEF Renamed
    <3> QED BY <1>1, <2>1, <3>2 DEF SamePath
  <2>3. CASE job[u].pc \notin Prepared BY <2>1, <2>3 DEF Prepared, Working
  <2> QED BY <2>2, <2>3
<1>3. ASSUME NEW f, NEW next, Renamed(t, f, next), Moved(t)' PROVE FileInv'
  <2>1. \A u \in Task : Moved(u)' BY <1>2, <1>3
  <2>2. MovedInv' BY <2>1 DEF MovedInv
  <2> QED BY <1>3, <2>2 DEF FileInv, Renamed
<1>4. job[t].pc \in Prepared
  BY DEF RenameMain, RenameThumb, RenameDerived, Prepared, Working
<1>5. /\ NewMainPath(t) \in Path /\ NewThumbPath(t) \in Path
      /\ NewMainPath(t) # NewThumbPath(t)
      /\ job[t].content \in Video => /\ NewDerivedPath(t) \in Path
                                     /\ NewDerivedPath(t) # NewMainPath(t)
                                     /\ NewDerivedPath(t) # NewThumbPath(t)
  BY <1>4, PreparedPaths DEF FileInv, RowInv
<1>6. /\ NewFlags = {"newMain", "newThumb", "newDerived"}
      /\ Prepared = {"renameMain", "renameThumb", "renameDerived", "commit"}
  BY DEF NewFlags, Prepared, Working
<1>7. CASE RenameMain(t)
  <2>1. Rename(t, "main", NewMainPath(t), "newMain", "renameThumb")
    BY <1>7 DEF RenameMain
  <2>2. Renamed(t, NewMainPath(t), "renameThumb")
    <3>1. NewMainPath(t).pic = job[t].pic BY NewPaths
    <3>2. "newMain" \in NewFlags /\ "renameThumb" \in Prepared BY <1>6
    <3> QED BY <1>4, <1>5, <2>1, <3>1, <3>2, RenameStep
  <2>3. Moved(t)' BY <2>2 DEF Renamed, SamePath
  <2> QED BY <1>3, <2>2, <2>3
<1>8. CASE RenameThumb(t)
  <2> DEFINE next == IF job[t].content \in Video THEN "renameDerived" ELSE "commit"
  <2>1. Rename(t, "thumb", NewThumbPath(t), "newThumb", next) BY <1>8 DEF RenameThumb
  <2>2. next \in Prepared /\ (next = "renameDerived" => job[t].content \in Video)
    BY <1>6
  <2>3. next = "commit" => job[t].content \notin Video OBVIOUS
  <2> HIDE DEF next
  <2>4. Renamed(t, NewThumbPath(t), next)
    <3>1. NewThumbPath(t).pic = job[t].pic BY NewPaths
    <3>2. "newThumb" \in NewFlags BY <1>6
    <3> QED BY <1>4, <1>5, <2>1, <2>2, <3>1, <3>2, RenameStep
  <2>5. job[t].pc = "renameThumb" BY <1>8 DEF RenameThumb
  <2>6. fs'[NewMainPath(t)] = job[t].content BY <1>1, <1>5, <2>4, <2>5 DEF Renamed
  <2>7. Moved(t)' BY <2>3, <2>4, <2>6 DEF Renamed, SamePath
  <2> QED BY <1>3, <2>4, <2>7
<1>9. CASE RenameDerived(t)
  <2>1. Rename(t, "derived", NewDerivedPath(t), "newDerived", "commit")
    BY <1>9 DEF RenameDerived
  <2>2. job[t].pc = "renameDerived" /\ job[t].content \in Video
    BY <1>9 DEF RenameDerived, FileInv, MadeInv
  <2>3. Renamed(t, NewDerivedPath(t), "commit")
    <3>1. NewDerivedPath(t).pic = job[t].pic BY NewPaths
    <3>2. "newDerived" \in NewFlags /\ "commit" \in Prepared BY <1>6
    <3> QED BY <1>4, <1>5, <2>1, <2>2, <3>1, <3>2, RenameStep
  <2>4. fs'[NewMainPath(t)] = job[t].content /\ fs'[NewThumbPath(t)] = job[t].content
    BY <1>1, <1>5, <2>2, <2>3 DEF Renamed
  <2>5. Moved(t)' BY <2>3, <2>4 DEF Renamed, SamePath
  <2> QED BY <1>3, <2>3, <2>5
<1> QED BY <1>7, <1>8, <1>9

\* The commit of an upsert: all files its row refers to are there.
LEMMA CommitFiles ==
  ASSUME FileInv, RowInv', NEW t \in Task, CommitUpsert(t) PROVE FileInv'
<1> DEFINE p == job[t].pic
           r == job[t].row
<1>1. /\ job \in [Task -> Job] /\ p \in PicId /\ r \in Row
      /\ pics \in [PicId -> Row \cup {NoPic}]
  BY DEF FileInv, RowInv, TypeOK, Job
<1>2. job[t].pc = "commit" BY DEF CommitUpsert
<1>3. job[t].open /\ job[t].new BY <1>2 DEF FileInv, InsertInv, Working
<1>4. p \notin usedIds BY <1>3 DEF FileInv, RowInv, NewInv
<1>5. pics'[p] = r /\ \A q \in PicId : q # p => pics'[q] = pics[q]
  BY <1>1 DEF CommitUpsert
<1>6. job'[t] = Idle /\ \A u \in Task : u # t => job'[u] = job[u]
  BY <1>1 DEF CommitUpsert, Finish
<1>7. usedIds' = usedIds \cup {p} /\ UNCHANGED <<fs, doomed>> BY DEF CommitUpsert
<1>8. Stored' = Stored \cup {p} BY <1>1, <1>5, NoPicAssumption DEF Stored
<1>9. Idle.pc = "idle" /\ Idle.destroy = {} BY DEF Idle
<1>10. ~r.temporary /\ ~HardDeleted(r) /\ r.content = job[t].content
  BY <1>2 DEF FileInv, MadeInv, RowInv, SettledInv, Working, Prepared
<1>11. InsertInv'
  BY <1>5, <1>6, <1>8, <1>9, <1>10 DEF FileInv, InsertInv, Stored, Working
<1>12. \A u \in Task : u # t => SamePath(u) BY <1>6, SamePaths DEF SamePath
<1>13. MadeInv'
  BY <1>6, <1>9, <1>12 DEF FileInv, MadeInv, SamePath, Working, Prepared
<1>14. MovedInv' BY <1>6, <1>7, <1>9, <1>12 DEF FileInv, MovedInv, SamePath
<1>15. DoomedInv'
  <2> SUFFICES ASSUME NEW u \in Task, NEW f \in doomed[u]
               PROVE  /\ f.pic \in usedIds'
                      /\ f.pic \in Stored' => HardDeleted(pics'[f.pic])
    BY <1>7 DEF DoomedInv, HardDeleted
  <2>1. f.pic \in usedIds /\ (f.pic \in Stored => HardDeleted(pics[f.pic]))
    BY DEF FileInv, DoomedInv
  <2>2. f.pic # p BY <1>4, <2>1
  <2> QED BY <1>5, <1>7, <1>8, <2>1, <2>2 DEF Stored
<1>16. ASSUME NEW f \in Referenced(p, r) PROVE fs[f] = job[t].content
  <2>1. /\ r.thumbs = {NewThumbPath(t).index}
        /\ r.derived = IF job[t].content \in Video THEN {NewDerivedPath(t).index} ELSE {}
    BY <1>2 DEF FileInv, MadeInv, Prepared, Working
  <2>2. /\ fs[NewMainPath(t)] = job[t].content
        /\ fs[NewThumbPath(t)] = job[t].content
        /\ job[t].content \in Video => fs[NewDerivedPath(t)] = job[t].content
    BY <1>2 DEF FileInv, MovedInv
  <2>3. PicFilePath(p, r.content) = NewMainPath(t) BY <1>10 DEF NewMainPath
  <2>4. ThumbPath(p, NewThumbPath(t).index) = NewThumbPath(t)
    BY NewPaths
  <2>5. DerivedPath(p, NewDerivedPath(t).index) = NewDerivedPath(t)
    BY NewPaths
  <2>6. \/ f = PicFilePath(p, r.content)
        \/ \E i \in r.thumbs : f = ThumbPath(p, i)
        \/ \E i \in r.derived : f = DerivedPath(p, i)
    BY <1>16 DEF Referenced, MainAndThumbs, ThumbPaths
  <2>7. CASE \E i \in r.derived : f = DerivedPath(p, i)
    BY <2>1, <2>2, <2>5, <2>7
  <2> QED BY <2>1, <2>2, <2>3, <2>4, <2>6, <2>7
<1>17. LivePicsHaveFiles'
  <2> SUFFICES ASSUME NEW q \in Stored', ~HardDeleted(pics'[q]),
                      NEW f \in Referenced(q, pics'[q])
               PROVE  fs[f] = pics'[q].content
    BY <1>7 DEF LivePicsHaveFiles, Referenced, MainAndThumbs, ThumbPaths, HardDeleted
  <2>1. CASE q = p BY <1>5, <1>10, <1>16, <2>1
  <2>2. CASE q # p
    <3>1. q \in Stored /\ pics'[q] = pics[q] BY <1>5, <1>8, <2>2 DEF Stored
    <3> QED BY <3>1 DEF FileInv, LivePicsHaveFiles
  <2> QED BY <2>1, <2>2
<1> QED BY <1>11, <1>13, <1>14, <1>15, <1>17 DEF FileInv

\* A server that stops leaves files behind, and takes none away.
LEMMA CrashFiles ==
  ASSUME FileInv, RowInv', NEW s \in Server, Crash(s) PROVE FileInv'
<1>1. ASSUME NEW u \in Task PROVE FileQuiet(u)
  <2>1. job[u].pc \in Working \/ job[u].destroy \cap NewFlags # {} =>
          job[u].open /\ job[u].new
    BY DEF FileInv, InsertInv
  <2>2. job'[u] = Idle \/ job'[u] = job[u] BY DEF Crash
  <2>3. doomed'[u] \subseteq doomed[u] BY DEF Crash
  <2>4. Idle.pc \notin Working /\ Idle.destroy = {} BY DEF Idle, Working
  <2> QED BY <2>1, <2>2, <2>3, <2>4 DEF FileQuiet
<1>2. \A p \in PicId : RowDeleted(p) BY DEF Crash, RowDeleted
<1>3. \A f \in Path : FileFree(f) BY DEF Crash, FileFree
<1>4. usedIds' = usedIds BY DEF Crash
<1> QED BY <1>1, <1>2, <1>3, <1>4, FileStep

\* A step that changes nothing.
LEMMA StutterFiles == ASSUME FileInv, RowInv', UNCHANGED vars PROVE FileInv'
<1>1. \A u \in Task : FileQuiet(u) BY DEF vars, FileQuiet, FileInv, InsertInv
<1>2. \A p \in PicId : RowDeleted(p) BY DEF vars, RowDeleted
<1>3. \A f \in Path : FileFree(f) BY DEF vars, FileFree
<1> QED BY <1>1, <1>2, <1>3, FileStep DEF vars

\* The invariant of the files holds at first.
LEMMA InitFiles == Init => FileInv
<1> SUFFICES ASSUME Init PROVE FileInv OBVIOUS
<1>1. RowInv BY InitRows
<1>2. Stored = {} BY DEF Init, Stored
<1>3. \A t \in Task : job[t].pc = "idle" /\ job[t].destroy = {} /\ doomed[t] = {}
  BY DEF Init, Idle
<1>4. InsertInv BY <1>2, <1>3 DEF InsertInv, Working
<1>5. MadeInv BY <1>3 DEF MadeInv, Working, Prepared
<1>6. MovedInv BY <1>3 DEF MovedInv
<1>7. DoomedInv BY <1>3 DEF DoomedInv
<1>8. LivePicsHaveFiles BY <1>2 DEF LivePicsHaveFiles
<1> QED BY <1>1, <1>4, <1>5, <1>6, <1>7, <1>8 DEF FileInv

\* Every step keeps it, where no deletion is temporary and no request is cancelled.
LEMMA NextFiles == ASSUME NoUndelete, FileInv, [Next]_vars PROVE FileInv'
<1>1. RowInv' BY NextRows DEF FileInv
<1>2. CASE UNCHANGED vars BY <1>1, <1>2, StutterFiles
<1>3. ASSUME NEW s \in Server, Crash(s) PROVE FileInv' BY <1>1, <1>3, CrashFiles
<1>4. ASSUME NEW t \in Task,
             \/ \E c \in Content : Upload(t, c)
             \/ Step(t) \/ PrepareFails(t) \/ RenameFails(t) \/ Cancel(t)
             \/ \E p \in PicId :
                  \/ \E temporary \in Temporaries : SoftDelete(t, p, temporary)
                  \/ HardDelete(t, p) \/ Purge(t, p)
      PROVE  FileInv'
  <2>1. CASE StartNew(t) BY <1>1, <2>1, StartNewFiles
  <2>2. CASE Prepare(t) BY <1>1, <2>2, PrepareFiles
  <2>3. CASE RenameMain(t) \/ RenameThumb(t) \/ RenameDerived(t)
    BY <1>1, <2>3, RenameFiles
  <2>4. CASE CommitUpsert(t) BY <1>1, <2>4, CommitFiles
  <2>5. ~Cancel(t) BY DEF NoUndelete, Cancel
  <2>6. ~StartUndelete(t) BY DEF StartUndelete, Matches, FileInv, InsertInv
  <2> QED BY <1>1, <1>4, <2>1, <2>2, <2>3, <2>4, <2>5, <2>6, FileActions DEF Step
<1> QED BY <1>2, <1>3, <1>4 DEF Next

\* FileInv is inductive, where no deletion is temporary and no request is
\* cancelled.
THEOREM FileInvariance == ASSUME NoUndelete PROVE Spec => []FileInv
<1>1. FileInv /\ [Next]_vars => FileInv' BY NextFiles
<1> QED BY <1>1, InitFiles, PTL DEF Spec

\* Where no deletion is temporary and no request is cancelled, crashes, failed
\* renames, failed removals and commits that report an error never cost a
\* picture one of its files, nor give it another's.
THEOREM LiveFiles == ASSUME NoUndelete PROVE Spec => []LivePicsHaveFiles
<1>1. FileInv => LivePicsHaveFiles BY DEF FileInv
<1> QED BY <1>1, FileInvariance, PTL
==============================================================================
