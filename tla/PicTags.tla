------------------------------- MODULE PicTags -------------------------------
(***************************************************************************)
(* Tags of pictures: AddPicTagsTask, UpdatePicTagTask and what             *)
(* PurgePicTask does to tags.  A tag has a name of its own and the number  *)
(* of pictures it is attached to; PicTags says to which.                   *)
(*                                                                         *)
(* A task locks the rows it changes one by one, in the order in which its  *)
(* query or its caller names them, and keeps them until its job ends.  Its *)
(* writes take effect at the commit.  A task waits for a row that another  *)
(* has; of tasks that wait for each other the database stops one, and      *)
(* TaskRunner runs it again, taskMaxRetries times in all.  An insert waits *)
(* for an open job that inserts the same name, and fails once it is there. *)
(***************************************************************************)
EXTENDS Integers, FiniteSets

CONSTANTS Task, Pic, Name,
          TagId,          \* ids of tags (bound)
          MaxVersion,     \* MaxVersion[p][g]: bound on the changes of a PicTag
          taskMaxRetries,
          Requests,       \* what tasks are asked to do
          NoTag, None

Kind == {"add", "purge"}
ASSUME RequestAssumption ==
         Requests \subseteq [kind : Kind, pic : Pic, names : SUBSET Name]

ASSUME BoundAssumption == /\ MaxVersion \in [Pic -> [TagId -> Nat \ {0}]]
                          /\ taskMaxRetries \in Nat \ {0}
ASSUME PicAssumption == IsFiniteSet(Pic) /\ Pic # {}
ASSUME NoneAssumption == None \notin Task \cup TagId

VARIABLES pics,    \* the state of each picture: none, live, hard deleted, purged
          tags,    \* the Tags table
          picTags, \* picTags[p][g]: the version of this PicTag, 0 if there is none
          usedIds, \* ids of tags that were ever given
          lock,    \* the task that has each row, or None
          job      \* what each task is doing

vars == <<pics, tags, picTags, usedIds, lock, job>>

Tag == [name : Name, count : Nat \ {0}]
ASSUME NoTagAssumption == NoTag \notin Tag

Row == [k : {"pic"}, id : Pic] \cup [k : {"tag"}, id : TagId] \cup [k : {"name"}, id : Name]
PicRow(p)  == [k |-> "pic", id |-> p]
TagRow(g)  == [k |-> "tag", id |-> g]
NameRow(n) == [k |-> "name", id |-> n] \* the entry of n in the unique key of Tags

Stored == {g \in TagId : tags[g] # NoTag}
Named(n) == {g \in Stored : tags[g].name = n}
Attached(p) == {g \in TagId : picTags[p][g] # 0}
PicsOf(g) == {p \in Pic : picTags[p][g] # 0}

\* read[g] is the tag as the task read it, fresh[n] the id of a new tag; want
\* is the row the task is about to lock.
NoRead  == [g \in TagId |-> NoTag]
NoFresh == [n \in Name |-> None]
Idle == [pc |-> "idle", kind |-> "add", pic |-> CHOOSE p \in Pic : TRUE, names |-> {},
         want |-> None, tags |-> {}, todo |-> {}, unknown |-> {},
         read |-> NoRead, fresh |-> NoFresh, try |-> 0]

Init == /\ pics = [p \in Pic |-> "none"]
        /\ tags = [g \in TagId |-> NoTag]
        /\ picTags = [p \in Pic |-> [g \in TagId |-> 0]]
        /\ usedIds = {}
        /\ lock = [r \in Row |-> None]
        /\ job = [t \in Task |-> Idle]

Free(t, r) == lock[r] \in {None, t}
Take(t, r) == lock' = [lock EXCEPT ![r] = t]
Release(t) == lock' = [r \in Row |-> IF lock[r] = t THEN None ELSE lock[r]]
End(t) == job' = [job EXCEPT ![t] = Idle] /\ Release(t)

-----------------------------------------------------------------------------
\* Pictures come by UpsertPicTask and are hard deleted by HardDeletePicTask,
\* which lock them.

UpsertPic(p) == /\ pics[p] = "none"
                /\ pics' = [pics EXCEPT ![p] = "live"]
                /\ UNCHANGED <<tags, picTags, usedIds, lock, job>>

HardDelete(p) == /\ pics[p] = "live" /\ lock[PicRow(p)] = None
                 /\ pics' = [pics EXCEPT ![p] = "hard"]
                 /\ UNCHANGED <<tags, picTags, usedIds, lock, job>>

\* AddPicTagsTask or PurgePicTask.  cleanTagNames refuses names that are equal
\* once they are normalized: what remains is a set.
Start(t, q) ==
  /\ job[t].pc = "idle"
  /\ q.names = {} <=> q.kind = "purge"
  /\ job' = [job EXCEPT ![t] = [Idle EXCEPT !.pc = "pic", !.kind = q.kind, !.pic = q.pic,
                                            !.names = q.names, !.try = 1]]
  /\ UNCHANGED <<pics, tags, picTags, usedIds, lock>>

MayAdd(p) == pics[p] = "live"

Gone(p) == pics[p] \in {"none", "purged"}

NotFound(t) ==
  LET p == job[t].pic IN
    /\ job[t].pc = "pic" /\ Free(t, PicRow(p))
    /\ Gone(p) \/ (job[t].kind = "add" /\ ~MayAdd(p))
    /\ End(t)
    /\ UNCHANGED <<pics, tags, picTags, usedIds>>

\* The picture is locked, and then its PicTags.
LockPic(t) ==
  LET p == job[t].pic IN
    /\ job[t].pc = "pic" /\ Free(t, PicRow(p))
    /\ ~Gone(p) /\ (job[t].kind = "add" => MayAdd(p))
    /\ Take(t, PicRow(p))
    /\ job' = [job EXCEPT ![t].pc = "attached", ![t].tags = Attached(p),
                          ![t].todo = Attached(p)]
    /\ UNCHANGED <<pics, tags, picTags, usedIds>>

\* The next of the attached tags is sought, in any order ...
WantTag(t) ==
  /\ job[t].pc = "attached" /\ job[t].want = None
  /\ \E g \in job[t].todo : job' = [job EXCEPT ![t].want = TagRow(g)]
  /\ UNCHANGED <<pics, tags, picTags, usedIds, lock>>

\* ... and locked.
LockTag(t) ==
  LET g == job[t].want.id IN
    /\ job[t].pc = "attached" /\ job[t].want # None /\ Free(t, job[t].want)
    /\ Take(t, job[t].want)
    /\ job' = [job EXCEPT ![t].want = None, ![t].todo = @ \ {g}, ![t].read[g] = tags[g]]
    /\ UNCHANGED <<pics, tags, picTags, usedIds>>

\* Broken: a name that any tag has is taken for attached.
UnattachedKnown(t) == {n \in job[t].names : Named(n) = {}}
\* findUnattachedTagNames: a name is attached if a tag of the picture has it.
Unattached(t) == {n \in job[t].names : \A g \in job[t].tags : job[t].read[g].name # n}

HaveTags(t) ==
  /\ job[t].pc = "attached" /\ job[t].want = None /\ job[t].todo = {}
  /\ job' = [job EXCEPT ![t].pc = IF job[t].kind = "add" THEN "names" ELSE "commit",
                        ![t].todo = Unattached(t)]
  /\ UNCHANGED <<pics, tags, picTags, usedIds, lock>>

-----------------------------------------------------------------------------
\* findExistingTagsByName.

\* A name that no tag has is remembered,
NameUnknown(t) ==
  /\ job[t].pc = "names" /\ job[t].want = None
  /\ \E n \in job[t].todo :
       /\ Named(n) = {}
       /\ job' = [job EXCEPT ![t].todo = @ \ {n}, ![t].unknown = @ \cup {n}]
  /\ UNCHANGED <<pics, tags, picTags, usedIds, lock>>

\* any other leads to its tag,
WantNamed(t) ==
  /\ job[t].pc = "names" /\ job[t].want = None
  /\ \E n \in job[t].todo : \E g \in Named(n) : job' = [job EXCEPT ![t].want = TagRow(g)]
  /\ UNCHANGED <<pics, tags, picTags, usedIds, lock>>

\* which is locked, unless it was purged while the task waited for it.
LockNamed(t) ==
  LET g == job[t].want.id IN
    /\ job[t].pc = "names" /\ job[t].want # None /\ Free(t, job[t].want)
    /\ IF g \in Stored
       THEN /\ Take(t, job[t].want)
            /\ job' = [job EXCEPT ![t].want = None, ![t].todo = @ \ {tags[g].name},
                                  ![t].read[g] = tags[g]]
       ELSE job' = [job EXCEPT ![t].want = None] /\ UNCHANGED lock
    /\ UNCHANGED <<pics, tags, picTags, usedIds>>

HaveNames(t) ==
  /\ job[t].pc = "names" /\ job[t].want = None /\ job[t].todo = {}
  /\ job' = [job EXCEPT ![t].pc = "insert"]
  /\ UNCHANGED <<pics, tags, picTags, usedIds, lock>>

-----------------------------------------------------------------------------
\* createNewTags.

WantName(t) ==
  /\ job[t].pc = "insert" /\ job[t].want = None
  /\ \E n \in job[t].unknown : job' = [job EXCEPT ![t].want = NameRow(n)]
  /\ UNCHANGED <<pics, tags, picTags, usedIds, lock>>

NameFree(n) == Named(n) = {}

InsertTag(t) ==
  LET n == job[t].want.id IN
    /\ job[t].pc = "insert" /\ job[t].want # None /\ Free(t, job[t].want)
    /\ NameFree(n)
    /\ \E g \in TagId \ usedIds :
         /\ usedIds' = usedIds \cup {g}
         /\ job' = [job EXCEPT ![t].want = None, ![t].unknown = @ \ {n}, ![t].fresh[n] = g]
    /\ Take(t, job[t].want)
    /\ UNCHANGED <<pics, tags, picTags>>

\* AllocId fails, here because the bound on ids is met.
OutOfIds(t) ==
  /\ job[t].pc = "insert" /\ job[t].want # None /\ Free(t, job[t].want)
  /\ NameFree(job[t].want.id) /\ usedIds = TagId
  /\ End(t)
  /\ UNCHANGED <<pics, tags, picTags, usedIds>>

HaveInserted(t) ==
  /\ job[t].pc = "insert" /\ job[t].want = None /\ job[t].unknown = {}
  /\ job' = [job EXCEPT ![t].pc = "commit"]
  /\ UNCHANGED <<pics, tags, picTags, usedIds, lock>>

-----------------------------------------------------------------------------
\* The job is stopped with an error that can be retried, or that cannot.
\* Broken: a task is run again as often as it takes.
TriesLeftAlways(t) == TRUE
TriesLeft(t) == job[t].try < taskMaxRetries

Again(t) ==
  /\ job' = [job EXCEPT ![t] =
               IF TriesLeft(t) THEN [Idle EXCEPT !.pc = "pic", !.kind = job[t].kind,
                                       !.pic = job[t].pic, !.names = job[t].names,
                                       !.try = IF job[t].try < taskMaxRetries
                                               THEN job[t].try + 1 ELSE job[t].try]
               ELSE Idle]
  /\ Release(t)
  /\ UNCHANGED <<pics, tags, picTags, usedIds>>

\* The name was inserted by a task that committed: the key refuses it.
Duplicate(t) ==
  /\ job[t].pc = "insert" /\ job[t].want # None /\ Free(t, job[t].want)
  /\ ~NameFree(job[t].want.id)
  /\ Again(t)

Wanted(t) == IF job[t].pc = "pic" THEN PicRow(job[t].pic) ELSE job[t].want
WaitsFor(t) == {u \in Task \ {t} : Wanted(t) # None /\ lock[Wanted(t)] = u}

\* t is one of several tasks each of which waits for another of them.
InDeadlock(t) == \E S \in SUBSET Task : t \in S /\ \A u \in S : WaitsFor(u) \cap S # {}

Deadlock(t) == InDeadlock(t) /\ Again(t)

-----------------------------------------------------------------------------
\* updateExistingTags, createNewTags, createPicTags and the commit.
Created(t) == {job[t].fresh[n] : n \in Name} \ {None}
Found(t) == {g \in TagId : job[t].read[g] # NoTag} \ job[t].tags

\* Broken: tags that were attached already are counted once more.
CountedAgain(t) == {g \in TagId : job[t].read[g] # NoTag}
Counted(t) == Found(t)

CommitAdd(t) ==
  LET p == job[t].pic IN
    /\ job[t].pc = "commit" /\ job[t].kind = "add"
    /\ tags' = [g \in TagId |->
         IF g \in Counted(t)
         THEN [name |-> job[t].read[g].name, count |-> job[t].read[g].count + 1]
         ELSE IF g \in Created(t)
         THEN [name |-> CHOOSE n \in Name : job[t].fresh[n] = g, count |-> 1]
         ELSE tags[g]]
    /\ picTags' = [picTags EXCEPT ![p] =
         [g \in TagId |-> IF g \in Found(t) \cup Created(t) THEN 1 ELSE @[g]]]
    /\ End(t)
    /\ UNCHANGED <<pics, usedIds>>

\* A tag goes with the last picture it is attached to.
Detached(g) == IF g.count > 1 THEN [g EXCEPT !.count = g.count - 1] ELSE NoTag

CommitPurge(t) ==
  LET p == job[t].pic IN
    /\ job[t].pc = "commit" /\ job[t].kind = "purge"
    /\ pics' = [pics EXCEPT ![p] = "purged"]
    /\ tags' = [g \in TagId |-> IF g \in job[t].tags THEN Detached(job[t].read[g]) ELSE tags[g]]
    /\ picTags' = [picTags EXCEPT ![p] = [g \in TagId |-> 0]]
    /\ End(t)
    /\ UNCHANGED usedIds

\* UpdatePicTagTask locks one row and waits for no other, so it is one step.
\* It looks whether picture and tag exist and compares versions, no more.
UpdatePicTag(p, g) ==
  /\ ~Gone(p) /\ g \in Attached(p) /\ g \in Stored /\ lock[PicRow(p)] = None
  /\ picTags[p][g] < MaxVersion[p][g]
  /\ picTags' = [picTags EXCEPT ![p][g] = @ + 1]
  /\ UNCHANGED <<pics, tags, usedIds, lock, job>>

-----------------------------------------------------------------------------
Step(t) == \/ NotFound(t) \/ LockPic(t) \/ WantTag(t) \/ LockTag(t) \/ HaveTags(t)
           \/ NameUnknown(t) \/ WantNamed(t) \/ LockNamed(t) \/ HaveNames(t)
           \/ WantName(t) \/ InsertTag(t) \/ OutOfIds(t) \/ HaveInserted(t)
           \/ Duplicate(t) \/ Deadlock(t)
           \/ CommitAdd(t) \/ CommitPurge(t)

Next == \/ \E t \in Task : Step(t)
        \/ \E t \in Task, q \in Requests : Start(t, q)
        \/ \E p \in Pic : UpsertPic(p) \/ HardDelete(p)
        \/ \E p \in Pic, g \in TagId : UpdatePicTag(p, g)

Spec == Init /\ [][Next]_vars

\* Every query returns, and a row that is freed again and again is got at last.
Fairness == \A t \in Task : SF_vars(Step(t))
FairSpec == Spec /\ Fairness

-----------------------------------------------------------------------------
\* Properties.

TypeOK ==
  /\ pics \in [Pic -> {"none", "live", "hard", "purged"}]
  /\ tags \in [TagId -> Tag \cup {NoTag}]
  /\ \A p \in Pic, g \in TagId : picTags[p][g] \in 0..MaxVersion[p][g]
  /\ usedIds \subseteq TagId
  /\ lock \in [Row -> Task \cup {None}]
  /\ job \in [Task ->
       [pc : {"idle", "pic", "attached", "names", "insert", "commit"}, kind : Kind,
        pic : Pic, names : SUBSET Name, want : Row \cup {None}, tags : SUBSET TagId,
        todo : (SUBSET TagId) \cup (SUBSET Name), unknown : SUBSET Name,
        read : [TagId -> Tag \cup {NoTag}], fresh : [Name -> TagId \cup {None}],
        try : 0..taskMaxRetries]]

\* The usage count of a tag is the number of pictures it is attached to, and
\* no tag stays without one: additions and purges that overlap in any way
\* count each other in (updateExistingTags, PurgePicTask.Run).
CountsMatch ==
  \A g \in TagId : /\ tags[g] = NoTag => PicsOf(g) = {}
                   /\ tags[g] # NoTag => /\ PicsOf(g) # {}
                                         /\ tags[g].count = Cardinality(PicsOf(g))

\* Two tags never have the same name, though names are looked up before they
\* are inserted (findExistingTagsByName, createNewTags).
NamesDiffer == \A g, h \in Stored : g # h => tags[g].name # tags[h].name

\* A purged picture has no tags, not even from a task that began before.
PurgedHaveNone == \A p \in Pic : Gone(p) => Attached(p) = {}

\* The usage counts, the names and the pictures agree, whatever overlaps.
TagsAgree == CountsMatch /\ NamesDiffer /\ PurgedHaveNone

\* buildTagIdList: every name that was asked for is attached at the end.
AllAttached ==
  [][\A t \in Task : job[t].pc = "commit" /\ job[t].kind = "add" /\ job'[t].pc = "idle" =>
       \A n \in job[t].names :
         \E g \in TagId : picTags'[job[t].pic][g] # 0 /\ tags'[g].name = n]_vars

\* Tasks that lock tags in different orders end for all that: the database
\* stops one of them, and TaskRunner does not begin again for ever.
TasksEnd == \A t \in Task : job[t].pc # "idle" ~> job[t].pc = "idle"
==============================================================================
