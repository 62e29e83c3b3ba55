--------------------------- MODULE PicTagsProofs ---------------------------
(***************************************************************************)
(* Proofs about PicTags, for any sets of tasks, pictures, names and ids.   *)
(*                                                                         *)
(* What keeps the counts right is that a task reads a tag only with its    *)
(* lock, and writes at its commit what it has read: Inv says of each task  *)
(* which rows it has, and that what it has read of them is still so.       *)
(***************************************************************************)
EXTENDS PicTags, FiniteSetTheorems, TLAPS

\* Rows.  The tags a task has read are its own until it ends, and are still as it
\* read them.
ReadInv(t) == \A g \in TagId : job[t].read[g] # NoTag =>
  lock[TagRow(g)] = t /\ tags[g] = job[t].read[g]

\* A name that it is going to insert is its own as well, and no tag has it.  The id
\* of the new tag is no other's.
FreshInv(t) == \A n \in Name : job[t].fresh[n] # None =>
  /\ lock[NameRow(n)] = t /\ Named(n) = {}
  /\ job[t].fresh[n] \in usedIds \ Stored
  /\ \A u \in Task, m \in Name : job[u].fresh[m] = job[t].fresh[n] => u = t /\ m = n

\* The picture it has locked is there, and is attached to the tags it found.
Holding == {"attached", "names", "insert", "commit"}
PicInv(t) == job[t].pc \in Holding =>
  /\ lock[PicRow(job[t].pic)] = t
  /\ ~Gone(job[t].pic)
  /\ job[t].tags = Attached(job[t].pic)

\* All of these it has read, in the end.
KnownInv(t) ==
  /\ job[t].pc = "attached" =>
       /\ job[t].todo \subseteq job[t].tags
       /\ \A g \in job[t].tags \ job[t].todo : job[t].read[g] # NoTag
  /\ job[t].pc \in Holding \ {"attached"} => \A g \in job[t].tags : job[t].read[g] # NoTag

\* What it is about to lock.
WantInv(t) ==
  /\ job[t].pc \in {"idle", "pic", "commit"} => job[t].want = None
  /\ job[t].pc = "attached" => \/ job[t].want = None
                               \/ \E g \in job[t].todo : job[t].want = TagRow(g)
  /\ job[t].pc = "names" => /\ job[t].todo \subseteq Name
                            /\ \/ job[t].want = None
                               \/ \E g \in TagId : job[t].want = TagRow(g)
  /\ job[t].pc = "insert" => \/ job[t].want = None
                             \/ \E n \in job[t].unknown : job[t].want = NameRow(n)

\* It loses none of the names it was asked for.
HasTag(t, n) == \/ job[t].fresh[n] # None
                \/ \E g \in TagId : job[t].read[g] # NoTag /\ job[t].read[g].name = n
NamesInv(t) ==
  /\ job[t].pc \in {"names", "insert", "commit"} /\ job[t].kind = "add" =>
       \A n \in job[t].names : \/ job[t].pc = "names" /\ n \in job[t].todo
                               \/ n \in job[t].unknown
                               \/ HasTag(t, n)
  /\ job[t].pc = "commit" /\ job[t].kind = "add" => job[t].unknown = {}

\* A task that has not begun has nothing.
BareInv(t) == job[t].pc \in {"idle", "pic"} =>
  job[t].read = NoRead /\ job[t].fresh = NoFresh

InvOf(t) == /\ ReadInv(t) /\ FreshInv(t) /\ PicInv(t) /\ KnownInv(t) /\ WantInv(t)
            /\ NamesInv(t) /\ BareInv(t)

TypeInv == TypeOK /\ picTags \in [Pic -> [TagId -> Nat]]

Inv == TypeInv /\ TagsAgree /\ Stored \subseteq usedIds /\ \A t \in Task : InvOf(t)

-----------------------------------------------------------------------------
\* Rows of pictures, of tags and of names are told apart, and so are their ids.
LEMMA RowFacts ==
  /\ \A p \in Pic : PicRow(p) \in Row
  /\ \A g \in TagId : TagRow(g) \in Row /\ TagRow(g).id = g
  /\ \A n \in Name : NameRow(n) \in Row /\ NameRow(n).id = n
  /\ \A g, h \in TagId : TagRow(g) = TagRow(h) => g = h
  /\ \A n, m \in Name : NameRow(n) = NameRow(m) => n = m
<1>1. \A p \in Pic : PicRow(p) \in Row BY DEF PicRow, Row
<1>2. \A g \in TagId : TagRow(g) \in Row BY DEF TagRow, Row
<1>3. \A n \in Name : NameRow(n) \in Row BY DEF NameRow, Row
<1>4. \A g \in TagId : TagRow(g).id = g BY DEF TagRow
<1>5. \A n \in Name : NameRow(n).id = n BY DEF NameRow
<1>6. \A g, h \in TagId : TagRow(g) = TagRow(h) => g = h BY <1>4
<1>7. \A n, m \in Name : NameRow(n) = NameRow(m) => n = m BY <1>5
<1> QED BY <1>1, <1>2, <1>3, <1>4, <1>5, <1>6, <1>7

-----------------------------------------------------------------------------
\* Types.

Job == [pc : {"idle", "pic", "attached", "names", "insert", "commit"}, kind : Kind,
        pic : Pic, names : SUBSET Name, want : Row \cup {None}, tags : SUBSET TagId,
        todo : (SUBSET TagId) \cup (SUBSET Name), unknown : SUBSET Name,
        read : [TagId -> Tag \cup {NoTag}], fresh : [Name -> TagId \cup {None}],
        try : 0..taskMaxRetries]

\* A task that was asked to do something.
Begun(k, p, N, y) ==
  [Idle EXCEPT !.pc = "pic", !.kind = k, !.pic = p, !.names = N, !.try = y]

\* A task that has not started is well-formed, and one that has begun.
LEMMA IdleJob ==
  /\ Idle \in Job
  /\ \A k \in Kind, p \in Pic, N \in SUBSET Name, y \in 0..taskMaxRetries :
       /\ Begun(k, p, N, y) \in Job
       /\ Begun(k, p, N, y).pc = "pic" /\ Begun(k, p, N, y).want = None
       /\ Begun(k, p, N, y).read = NoRead /\ Begun(k, p, N, y).fresh = NoFresh
<1>1. NoRead \in [TagId -> Tag \cup {NoTag}] /\ NoFresh \in [Name -> TagId \cup {None}]
  BY DEF NoRead, NoFresh
<1>2. (CHOOSE p \in Pic : TRUE) \in Pic BY PicAssumption
<1>3. /\ Idle \in Job
      /\ Idle.want = None /\ Idle.read = NoRead /\ Idle.fresh = NoFresh
  BY <1>1, <1>2, BoundAssumption DEF Idle, Job, Kind
<1>4. ASSUME NEW k \in Kind, NEW p \in Pic, NEW N \in SUBSET Name,
             NEW y \in 0..taskMaxRetries
      PROVE  /\ Begun(k, p, N, y) \in Job
             /\ Begun(k, p, N, y).pc = "pic" /\ Begun(k, p, N, y).want = None
             /\ Begun(k, p, N, y).read = NoRead /\ Begun(k, p, N, y).fresh = NoFresh
  BY <1>3 DEF Begun, Job
<1> QED BY <1>3, <1>4

\* What the steps do to the record of a task.
LEMMA JobPic ==
  ASSUME NEW j \in Job, NEW S \in SUBSET TagId
  PROVE  [j EXCEPT !.pc = "attached", !.tags = S, !.todo = S] \in Job
BY DEF Job

LEMMA JobWant == ASSUME NEW j \in Job, NEW w \in Row PROVE [j EXCEPT !.want = w] \in Job
BY DEF Job

LEMMA JobRead ==
  ASSUME NEW j \in Job, NEW T \in (SUBSET TagId) \cup (SUBSET Name), NEW g \in TagId,
         NEW r \in Tag \cup {NoTag}
  PROVE  [j EXCEPT !.want = None, !.todo = T, !.read[g] = r] \in Job
<1>1. [j.read EXCEPT ![g] = r] \in [TagId -> Tag \cup {NoTag}] BY DEF Job
<1> QED BY <1>1 DEF Job

LEMMA JobMoves ==
  ASSUME NEW j \in Job, NEW l \in {"names", "commit"},
         NEW T \in (SUBSET TagId) \cup (SUBSET Name)
  PROVE  [j EXCEPT !.pc = l, !.todo = T] \in Job
BY DEF Job

LEMMA JobUnknown ==
  ASSUME NEW j \in Job, NEW T \in SUBSET Name, NEW U \in SUBSET Name
  PROVE  [j EXCEPT !.todo = T, !.unknown = U] \in Job
BY DEF Job

LEMMA JobFresh ==
  ASSUME NEW j \in Job, NEW U \in SUBSET Name, NEW n \in Name, NEW g \in TagId
  PROVE  [j EXCEPT !.want = None, !.unknown = U, !.fresh[n] = g] \in Job
<1>1. [j.fresh EXCEPT ![n] = g] \in [Name -> TagId \cup {None}] BY DEF Job
<1> QED BY <1>1 DEF Job

\* A task changes its own record, well-formed as it was, and locks no row.
LEMMA JobTyped ==
  ASSUME TypeInv, NEW t \in Task, NEW j \in Job, job' = [job EXCEPT ![t] = j]
  PROVE  /\ job' \in [Task -> Job] /\ job'[t] = j
         /\ \A u \in Task : u # t => job'[u] = job[u]
BY DEF TypeInv, TypeOK, Job

\* What a task does with locks.  Those of others it leaves alone.
Leaves(t) == \A u \in Task, r \in Row : u # t /\ lock[r] = u => lock'[r] = u
Keeps(t) == \A r \in Row : lock[r] = t => lock'[r] = t

LEMMA LockFacts ==
  ASSUME TypeInv, NEW t \in Task
  PROVE  /\ lock' = lock => Leaves(t) /\ Keeps(t) /\ lock' \in [Row -> Task \cup {None}]
         /\ Release(t) => Leaves(t) /\ lock' \in [Row -> Task \cup {None}]
         /\ \A r \in Row : Take(t, r) /\ Free(t, r) =>
              /\ Leaves(t) /\ Keeps(t) /\ lock'[r] = t
              /\ lock' \in [Row -> Task \cup {None}]
<1>1. lock \in [Row -> Task \cup {None}] BY DEF TypeInv, TypeOK
<1>2. Release(t) => Leaves(t) /\ lock' \in [Row -> Task \cup {None}]
  BY <1>1 DEF Release, Leaves
<1>3. ASSUME NEW r \in Row, Take(t, r), Free(t, r)
      PROVE  /\ Leaves(t) /\ Keeps(t) /\ lock'[r] = t
             /\ lock' \in [Row -> Task \cup {None}]
  BY <1>1, <1>3, NoneAssumption DEF Take, Free, Leaves, Keeps
<1> QED BY <1>1, <1>2, <1>3 DEF Leaves, Keeps

\* The types are kept by a step that keeps those of tasks, locks and ids and
\* changes nothing else.
LEMMA TypesKept ==
  ASSUME TypeInv, UNCHANGED <<pics, tags, picTags>>, usedIds' \subseteq TagId,
         job' \in [Task -> Job], lock' \in [Row -> Task \cup {None}]
  PROVE  TypeInv'
BY DEF TypeInv, TypeOK, Job

-----------------------------------------------------------------------------
\* Steps that change neither pictures nor tags.

\* They leave other tasks what they know.
LEMMA QuietStep ==
  ASSUME Inv, TypeInv', NEW t \in Task, InvOf(t)',
         UNCHANGED <<pics, tags, picTags>>, usedIds \subseteq usedIds', Leaves(t),
         \A u \in Task : u # t => job'[u] = job[u],
         \A n \in Name : \/ job'[t].fresh[n] = None
                         \/ job'[t].fresh[n] = job[t].fresh[n]
                         \/ job'[t].fresh[n] \notin usedIds
  PROVE  Inv'
<1>1. TagsAgree' /\ Stored' = Stored
  BY DEF Inv, TagsAgree, CountsMatch, NamesDiffer, PurgedHaveNone, Stored, PicsOf,
         Attached, Gone
<1>2. \A n : Named(n)' = Named(n) BY <1>1 DEF Named
<1>3. ASSUME NEW u \in Task, u # t PROVE InvOf(u)'
  <2>1. InvOf(u) /\ job'[u] = job[u] /\ job[u] \in Job
    BY <1>3 DEF Inv, TypeInv, TypeOK, Job
  <2>2. \A r \in Row : lock[r] = u => lock'[r] = u BY <1>3 DEF Leaves
  <2>3. ReadInv(u)' BY <2>1, <2>2, RowFacts DEF InvOf, ReadInv
  <2>4. FreshInv(u)'
    <3> SUFFICES ASSUME NEW n \in Name, job[u].fresh[n] # None
                 PROVE  /\ lock'[NameRow(n)] = u /\ Named(n)' = {}
                        /\ job[u].fresh[n] \in usedIds' \ Stored'
                        /\ \A v \in Task, m \in Name :
                             job'[v].fresh[m] = job[u].fresh[n] => v = u /\ m = n
      BY <2>1 DEF FreshInv
    <3>1. /\ lock[NameRow(n)] = u /\ Named(n) = {}
          /\ job[u].fresh[n] \in usedIds \ Stored
          /\ \A v \in Task, m \in Name :
               job[v].fresh[m] = job[u].fresh[n] => v = u /\ m = n
      BY <2>1 DEF InvOf, FreshInv
    <3>2. ASSUME NEW v \in Task, NEW m \in Name, job'[v].fresh[m] = job[u].fresh[n]
          PROVE  job[v].fresh[m] = job[u].fresh[n]
      BY <3>1, <3>2
    <3> QED BY <1>1, <1>2, <2>2, <3>1, <3>2, RowFacts
  <2>5. PicInv(u)'
    <3>1. \A p \in Pic : Attached(p)' = Attached(p) /\ Gone(p)' = Gone(p)
      BY DEF Attached, Gone
    <3>2. job[u].pic \in Pic BY <2>1 DEF Job
    <3> QED BY <2>1, <2>2, <3>1, <3>2, RowFacts DEF InvOf, PicInv
  <2>6. KnownInv(u)' BY <2>1 DEF InvOf, KnownInv
  <2>7. WantInv(u)' BY <2>1 DEF InvOf, WantInv
  <2>8. NamesInv(u)' BY <2>1 DEF InvOf, NamesInv, HasTag
  <2>9. BareInv(u)' BY <2>1 DEF InvOf, BareInv
  <2> QED BY <2>3, <2>4, <2>5, <2>6, <2>7, <2>8, <2>9 DEF InvOf
<1> QED BY <1>1, <1>3 DEF Inv

\* A task keeps what it knows of tags, names and its picture while it gives up no
\* lock and reads no tag.
LEMMA OwnKept ==
  ASSUME Inv, NEW t \in Task, UNCHANGED <<pics, tags, picTags, usedIds>>, Keeps(t),
         \A u \in Task : u # t => job'[u] = job[u],
         job'[t].read = job[t].read, job'[t].fresh = job[t].fresh
  PROVE  /\ ReadInv(t)' /\ FreshInv(t)'
         /\ \A p \in Pic : Attached(p)' = Attached(p) /\ Gone(p)' = Gone(p)
         /\ \A r \in Row : lock[r] = t => lock'[r] = t
         /\ \A n : HasTag(t, n)' <=> HasTag(t, n)
<1>1. InvOf(t) BY DEF Inv
<1>2. Stored' = Stored BY DEF Stored
<1>3. \A n : Named(n)' = Named(n) BY <1>2 DEF Named
<1>4. ReadInv(t)' BY <1>1, RowFacts DEF InvOf, ReadInv, Keeps
<1>5. FreshInv(t)'
  <2>1. \A u \in Task : job'[u].fresh = job[u].fresh OBVIOUS
  <2> QED BY <1>1, <1>2, <1>3, <2>1, RowFacts DEF InvOf, FreshInv, Keeps
<1> QED BY <1>4, <1>5 DEF Attached, Gone, Keeps, HasTag

\* A task that starts, or starts again, or ends, has nothing and knows nothing.
LEMMA OwnBare ==
  ASSUME NEW t \in Task, job'[t].pc \in {"idle", "pic"}, job'[t].want = None,
         job'[t].read = NoRead, job'[t].fresh = NoFresh
  PROVE  InvOf(t)' /\ \A n \in Name : job'[t].fresh[n] = None
<1>1. \A g \in TagId : job'[t].read[g] = NoTag BY DEF NoRead
<1>2. \A n \in Name : job'[t].fresh[n] = None BY DEF NoFresh
<1>3. ReadInv(t)' BY <1>1 DEF ReadInv
<1>4. FreshInv(t)' BY <1>2 DEF FreshInv
<1> QED BY <1>2, <1>3, <1>4
        DEF InvOf, PicInv, KnownInv, WantInv, NamesInv, BareInv, Holding

\* A task begins, or ends without a commit, or is run again.
LEMMA BareSteps ==
  ASSUME Inv, NEW t \in Task,
         \/ \E q \in Requests : Start(t, q)
         \/ NotFound(t) \/ OutOfIds(t) \/ Duplicate(t) \/ Deadlock(t)
  PROVE  Inv'
<1>1. /\ TypeInv /\ job \in [Task -> Job] /\ job[t] \in Job
      /\ lock \in [Row -> Task \cup {None}] /\ usedIds \subseteq TagId
  BY DEF Inv, TypeInv, TypeOK, Job
<1>2. ASSUME NEW j \in Job, j.pc \in {"idle", "pic"}, j.want = None, j.read = NoRead,
             j.fresh = NoFresh, job' = [job EXCEPT ![t] = j],
             lock' = lock \/ Release(t), UNCHANGED <<pics, tags, picTags, usedIds>>
      PROVE  Inv'
  <2>1. /\ job' \in [Task -> Job] /\ job'[t] = j
        /\ \A u \in Task : u # t => job'[u] = job[u]
    BY <1>1, <1>2, JobTyped
  <2>2. Leaves(t) /\ lock' \in [Row -> Task \cup {None}] BY <1>1, <1>2, LockFacts
  <2>3. TypeInv' BY <1>1, <1>2, <2>1, <2>2, TypesKept
  <2>4. InvOf(t)' /\ \A n \in Name : job'[t].fresh[n] = None BY <1>2, <2>1, OwnBare
  <2> QED BY <1>2, <2>1, <2>2, <2>3, <2>4, QuietStep
<1>3. /\ Idle.pc = "idle" /\ Idle.want = None /\ Idle.read = NoRead
      /\ Idle.fresh = NoFresh
  BY DEF Idle
<1>5. ASSUME NEW q \in Requests, Start(t, q) PROVE Inv'
  <2>1. q.kind \in Kind /\ q.pic \in Pic /\ q.names \in SUBSET Name
    BY RequestAssumption
  <2>2. 1 \in 0..taskMaxRetries BY BoundAssumption
  <2> DEFINE j == Begun(q.kind, q.pic, q.names, 1)
  <2>3. j \in Job /\ j.pc = "pic" /\ j.want = None /\ j.read = NoRead /\ j.fresh = NoFresh
    BY <2>1, <2>2, IdleJob
  <2>4. job' = [job EXCEPT ![t] = j] /\ UNCHANGED <<pics, tags, picTags, usedIds, lock>>
    BY <1>5 DEF Start, Begun
  <2> HIDE DEF j
  <2> QED BY <1>2, <2>3, <2>4
<1>6. ASSUME End(t), UNCHANGED <<pics, tags, picTags, usedIds>> PROVE Inv'
  BY <1>2, <1>3, <1>6, IdleJob DEF End
<1>7. ASSUME Again(t) PROVE Inv'
  <2>1. PICK y \in 0..taskMaxRetries :
          y = IF job[t].try < taskMaxRetries THEN job[t].try + 1 ELSE job[t].try
    BY <1>1, BoundAssumption DEF Job
  <2> DEFINE j == Begun(job[t].kind, job[t].pic, job[t].names, y)
  <2>2. job[t].kind \in Kind /\ job[t].pic \in Pic /\ job[t].names \in SUBSET Name
    BY <1>1 DEF Job
  <2>3. j \in Job /\ j.pc = "pic" /\ j.want = None /\ j.read = NoRead /\ j.fresh = NoFresh
    BY <2>2, IdleJob
  <2>4. job' = [job EXCEPT ![t] = j] \/ job' = [job EXCEPT ![t] = Idle]
    BY <1>7, <2>1 DEF Again, Begun
  <2>5. Release(t) /\ UNCHANGED <<pics, tags, picTags, usedIds>> BY <1>7 DEF Again
  <2> HIDE DEF j
  <2>6. CASE job' = [job EXCEPT ![t] = j] BY <1>2, <2>3, <2>5, <2>6
  <2>7. CASE job' = [job EXCEPT ![t] = Idle] BY <1>2, <1>3, <2>5, <2>7, IdleJob
  <2> QED BY <2>4, <2>6, <2>7
<1>8. CASE NotFound(t) BY <1>6, <1>8 DEF NotFound
<1>9. CASE OutOfIds(t) BY <1>6, <1>9 DEF OutOfIds
<1>10. CASE Duplicate(t) BY <1>7, <1>10 DEF Duplicate
<1>11. CASE Deadlock(t) BY <1>7, <1>11 DEF Deadlock
<1> QED BY <1>5, <1>8, <1>9, <1>10, <1>11

\* A step of a task that reads no tag and inserts no name.
LEMMA OwnStep ==
  ASSUME Inv, NEW t \in Task, NEW j \in Job, job' = [job EXCEPT ![t] = j],
         UNCHANGED <<pics, tags, picTags, usedIds>>,
         Leaves(t), Keeps(t), lock' \in [Row -> Task \cup {None}],
         j.read = job[t].read, j.fresh = job[t].fresh,
         PicInv(t)', KnownInv(t)', WantInv(t)', NamesInv(t)', BareInv(t)'
  PROVE  Inv'
<1>1. TypeInv /\ usedIds \subseteq TagId BY DEF Inv, TypeInv, TypeOK
<1>2. /\ job' \in [Task -> Job] /\ job'[t] = j
      /\ \A u \in Task : u # t => job'[u] = job[u]
  BY <1>1, JobTyped
<1>3. TypeInv' BY <1>1, <1>2, TypesKept
<1>4. ReadInv(t)' /\ FreshInv(t)' BY <1>2, OwnKept
<1>5. InvOf(t)' BY <1>4 DEF InvOf
<1> QED BY <1>2, <1>3, <1>5, QuietStep

\* A task locks its picture, and finds its tags.
LEMMA LockPicStep == ASSUME Inv, NEW t \in Task, LockPic(t) PROVE Inv'
<1>1. /\ TypeInv /\ job \in [Task -> Job] /\ job[t] \in Job /\ InvOf(t)
  BY DEF Inv, TypeInv, TypeOK, Job
<1>2. PICK p \in Pic : p = job[t].pic BY <1>1 DEF Job
<1> DEFINE S == Attached(p)
           j == [job[t] EXCEPT !.pc = "attached", !.tags = S, !.todo = S]
<1>3. /\ job[t].pc = "pic" /\ Free(t, PicRow(p)) /\ ~Gone(p) /\ Take(t, PicRow(p))
      /\ UNCHANGED <<pics, tags, picTags, usedIds>>
      /\ job' = [job EXCEPT ![t] = j]
  BY <1>2 DEF LockPic
<1>4. S \in SUBSET TagId /\ Attached(p)' = S /\ Gone(p)' = Gone(p)
  BY <1>3 DEF Attached, Gone
<1>5. /\ j \in Job
      /\ j.pc = "attached" /\ j.tags = S /\ j.todo = S /\ j.pic = p
      /\ j.want = job[t].want /\ j.read = job[t].read /\ j.fresh = job[t].fresh
  BY <1>1, <1>2, <1>4, JobPic DEF Job
<1>6. /\ Leaves(t) /\ Keeps(t) /\ lock'[PicRow(p)] = t
      /\ lock' \in [Row -> Task \cup {None}]
  BY <1>1, <1>3, LockFacts, RowFacts
<1>7. job'[t] = j BY <1>1, <1>3, <1>5, JobTyped
<1> HIDE DEF S, j
<1>8. PicInv(t)' BY <1>3, <1>4, <1>5, <1>6, <1>7 DEF PicInv
<1>9. KnownInv(t)' BY <1>5, <1>7 DEF KnownInv
<1>10. WantInv(t)' BY <1>1, <1>3, <1>5, <1>7 DEF InvOf, WantInv
<1>11. NamesInv(t)' /\ BareInv(t)' BY <1>5, <1>7 DEF NamesInv, BareInv
<1> QED BY <1>3, <1>5, <1>6, <1>8, <1>9, <1>10, <1>11, OwnStep

\* A task looks for the next row to lock.
LEMMA WantSteps ==
  ASSUME Inv, NEW t \in Task, WantTag(t) \/ WantNamed(t) \/ WantName(t) PROVE Inv'
<1>1. /\ TypeInv /\ job \in [Task -> Job] /\ job[t] \in Job /\ InvOf(t)
      /\ job[t].todo \in (SUBSET TagId) \cup (SUBSET Name) /\ job[t].unknown \in SUBSET Name
  BY DEF Inv, TypeInv, TypeOK, Job
<1>2. /\ UNCHANGED <<pics, tags, picTags, usedIds, lock>>
      /\ \E w \in Row :
           /\ \/ job[t].pc = "attached" /\ \E g \in job[t].todo : w = TagRow(g)
              \/ job[t].pc = "names" /\ \E g \in TagId : w = TagRow(g)
              \/ job[t].pc = "insert" /\ \E n \in job[t].unknown : w = NameRow(n)
           /\ job' = [job EXCEPT ![t].want = w]
  <2>1. CASE WantTag(t)
    <3>1. job[t].pc = "attached" BY <2>1 DEF WantTag
    <3>2. job[t].todo \subseteq TagId
      BY <1>1, <3>1 DEF InvOf, KnownInv, Job
    <3>3. PICK g \in job[t].todo : job' = [job EXCEPT ![t].want = TagRow(g)]
      BY <2>1 DEF WantTag
    <3>4. TagRow(g) \in Row BY <3>2, RowFacts
    <3> QED BY <2>1, <3>1, <3>3, <3>4 DEF WantTag
  <2>2. CASE WantNamed(t)
    <3>1. PICK g \in TagId : job' = [job EXCEPT ![t].want = TagRow(g)]
      BY <2>2 DEF WantNamed, Named, Stored
    <3>2. TagRow(g) \in Row BY RowFacts
    <3> QED BY <2>2, <3>1, <3>2 DEF WantNamed
  <2>3. CASE WantName(t)
    <3>1. PICK n \in job[t].unknown : job' = [job EXCEPT ![t].want = NameRow(n)]
      BY <2>3 DEF WantName
    <3>2. NameRow(n) \in Row BY <1>1, RowFacts
    <3> QED BY <2>3, <3>1, <3>2 DEF WantName
  <2> QED BY <2>1, <2>2, <2>3
<1>3. PICK w \in Row :
        /\ \/ job[t].pc = "attached" /\ \E g \in job[t].todo : w = TagRow(g)
           \/ job[t].pc = "names" /\ \E g \in TagId : w = TagRow(g)
           \/ job[t].pc = "insert" /\ \E n \in job[t].unknown : w = NameRow(n)
        /\ job' = [job EXCEPT ![t].want = w]
  BY <1>2
<1> DEFINE j == [job[t] EXCEPT !.want = w]
<1>4. j \in Job /\ job' = [job EXCEPT ![t] = j] BY <1>1, <1>3, JobWant
<1>5. /\ j.pc = job[t].pc /\ j.pic = job[t].pic /\ j.tags = job[t].tags
      /\ j.todo = job[t].todo /\ j.unknown = job[t].unknown /\ j.kind = job[t].kind
      /\ j.names = job[t].names /\ j.want = w
      /\ j.read = job[t].read /\ j.fresh = job[t].fresh
  BY <1>1 DEF Job
<1>6. Leaves(t) /\ Keeps(t) /\ lock' \in [Row -> Task \cup {None}]
  BY <1>1, <1>2, LockFacts
<1>7. job'[t] = j /\ \A u \in Task : u # t => job'[u] = job[u]
  BY <1>1, <1>4, JobTyped
<1> HIDE DEF j
<1>8. /\ \A p \in Pic : Attached(p)' = Attached(p) /\ Gone(p)' = Gone(p)
      /\ \A n : HasTag(t, n)' <=> HasTag(t, n)
  BY <1>2, <1>5, <1>6, <1>7, OwnKept
<1>9. job[t].pic \in Pic BY <1>1 DEF Job
<1>10. PicInv(t)' BY <1>1, <1>2, <1>5, <1>7, <1>8, <1>9 DEF InvOf, PicInv
<1>11. KnownInv(t)' BY <1>1, <1>5, <1>7 DEF InvOf, KnownInv
<1>12. WantInv(t)' BY <1>1, <1>3, <1>5, <1>7 DEF InvOf, WantInv
<1>13. NamesInv(t)' BY <1>1, <1>5, <1>7, <1>8 DEF InvOf, NamesInv
<1>14. BareInv(t)' BY <1>1, <1>5, <1>7 DEF InvOf, BareInv
<1> QED BY <1>2, <1>4, <1>5, <1>6, <1>10, <1>11, <1>12, <1>13, <1>14, OwnStep

\* The record of a task that goes on to the next stage: it has read the tags of its
\* picture, or found all names that tags have, or inserted all others.
Staged(t, j) ==
  /\ j.pic = job[t].pic /\ j.tags = job[t].tags /\ j.unknown = job[t].unknown
  /\ j.kind = job[t].kind /\ j.names = job[t].names /\ j.want = None
  /\ j.read = job[t].read /\ j.fresh = job[t].fresh
  /\ \/ /\ job[t].pc = "attached" /\ job[t].todo = {} /\ j.todo = Unattached(t)
        /\ j.pc = IF j.kind = "add" THEN "names" ELSE "commit"
     \/ job[t].pc = "names" /\ job[t].todo = {} /\ j.pc = "insert"
     \/ job[t].pc = "insert" /\ job[t].unknown = {} /\ j.pc = "commit"

\* A task goes on to the next stage.
LEMMA StageSteps ==
  ASSUME Inv, NEW t \in Task, HaveTags(t) \/ HaveNames(t) \/ HaveInserted(t) PROVE Inv'
<1>1. /\ TypeInv /\ job \in [Task -> Job] /\ job[t] \in Job /\ InvOf(t)
      /\ job[t].kind \in {"add", "purge"} /\ job[t].names \in SUBSET Name
  BY DEF Inv, TypeInv, TypeOK, Job, Kind
<1>2. PICK j \in Job : job' = [job EXCEPT ![t] = j] /\ Staged(t, j)
  <2>1. CASE HaveTags(t)
    <3> DEFINE l == IF job[t].kind = "add" THEN "names" ELSE "commit"
               T == Unattached(t)
               j == [job[t] EXCEPT !.pc = l, !.todo = T]
    <3>1. l \in {"names", "commit"} /\ T \in SUBSET Name
      BY <1>1 DEF Unattached
    <3>2. /\ job' = [job EXCEPT ![t] = j]
          /\ job[t].pc = "attached" /\ job[t].want = None /\ job[t].todo = {}
      BY <2>1 DEF HaveTags
    <3>3. l = IF job[t].kind = "add" THEN "names" ELSE "commit" OBVIOUS
    <3>4. T = Unattached(t) OBVIOUS
    <3> HIDE DEF l, T
    <3>5. j \in Job BY <1>1, <3>1, JobMoves
    <3>6. /\ j.pc = l /\ j.todo = T /\ j.want = job[t].want
          /\ j.pic = job[t].pic /\ j.tags = job[t].tags /\ j.unknown = job[t].unknown
          /\ j.kind = job[t].kind /\ j.names = job[t].names
          /\ j.read = job[t].read /\ j.fresh = job[t].fresh
      BY <1>1 DEF Job
    <3> HIDE DEF j
    <3>7. Staged(t, j) BY <3>2, <3>3, <3>4, <3>6 DEF Staged
    <3> QED BY <3>2, <3>5, <3>7
  <2>2. ASSUME NEW l \in {"insert", "commit"}, job' = [job EXCEPT ![t].pc = l],
               job[t].want = None,
               \/ job[t].pc = "names" /\ job[t].todo = {} /\ l = "insert"
               \/ job[t].pc = "insert" /\ job[t].unknown = {} /\ l = "commit"
        PROVE  \E j \in Job : job' = [job EXCEPT ![t] = j] /\ Staged(t, j)
    <3> DEFINE j == [job[t] EXCEPT !.pc = l]
    <3>1. job' = [job EXCEPT ![t] = j] BY <2>2
    <3>2. j \in Job BY <1>1, <2>2 DEF Job
    <3>3. /\ j.pc = l /\ j.todo = job[t].todo /\ j.want = job[t].want
          /\ j.pic = job[t].pic /\ j.tags = job[t].tags /\ j.unknown = job[t].unknown
          /\ j.kind = job[t].kind /\ j.names = job[t].names
          /\ j.read = job[t].read /\ j.fresh = job[t].fresh
      BY <1>1, <2>2 DEF Job
    <3> HIDE DEF j
    <3>4. Staged(t, j) BY <2>2, <3>3 DEF Staged
    <3> QED BY <3>1, <3>2, <3>4
  <2> QED BY <2>1, <2>2 DEF HaveNames, HaveInserted
<1>3. UNCHANGED <<pics, tags, picTags, usedIds, lock>>
  BY DEF HaveTags, HaveNames, HaveInserted
<1>4. Leaves(t) /\ Keeps(t) /\ lock' \in [Row -> Task \cup {None}]
  BY <1>1, <1>3, LockFacts
<1>5. job'[t] = j /\ \A u \in Task : u # t => job'[u] = job[u]
  BY <1>1, <1>2, JobTyped
<1>6. /\ \A p \in Pic : Attached(p)' = Attached(p) /\ Gone(p)' = Gone(p)
      /\ \A n : HasTag(t, n)' <=> HasTag(t, n)
  BY <1>2, <1>3, <1>4, <1>5, OwnKept DEF Staged
<1>7. PicInv(t)'
  <2>1. job[t].pic \in Pic BY <1>1 DEF Job
  <2>2. job[t].pc \in Holding BY <1>2 DEF Holding, Staged
  <2> QED BY <1>1, <1>2, <1>3, <1>5, <1>6, <2>1, <2>2 DEF InvOf, PicInv, Staged
<1>8. KnownInv(t)' BY <1>1, <1>2, <1>5 DEF InvOf, KnownInv, Holding, Staged
<1>9. WantInv(t)' BY <1>1, <1>2, <1>5 DEF InvOf, WantInv, Unattached, Staged
<1>10. NamesInv(t)'
  <2>1. CASE job[t].pc = "attached"
    <3>1. SUFFICES ASSUME j.kind = "add", NEW n \in job[t].names, n \notin j.todo
                   PROVE  HasTag(t, n)
      BY <1>2, <1>5, <1>6, <2>1 DEF NamesInv, Staged
    <3>2. PICK g \in job[t].tags : job[t].read[g].name = n
      BY <1>2, <2>1, <3>1 DEF Unattached, Staged
    <3>3. g \in TagId /\ job[t].read[g] # NoTag
      BY <1>1, <1>2, <2>1 DEF InvOf, KnownInv, Job, Staged
    <3> QED BY <3>2, <3>3 DEF HasTag
  <2>2. CASE job[t].pc # "attached"
    BY <1>1, <1>2, <1>5, <1>6, <2>2 DEF InvOf, NamesInv, Staged
  <2> QED BY <2>1, <2>2
<1>11. BareInv(t)' BY <1>2, <1>5 DEF BareInv, Staged
<1> QED BY <1>2, <1>3, <1>4, <1>7, <1>8, <1>9, <1>10, <1>11, OwnStep DEF Staged
\* A name that no tag has is remembered, and a tag that was purged meanwhile is no
\* longer waited for.
LEMMA SeekSteps ==
  ASSUME Inv, NEW t \in Task, NEW j \in Job, job' = [job EXCEPT ![t] = j],
         UNCHANGED <<pics, tags, picTags, usedIds, lock>>,
         job[t].pc = "names", j.pc = "names", j.want = None,
         j.pic = job[t].pic, j.tags = job[t].tags, j.kind = job[t].kind,
         j.names = job[t].names, j.read = job[t].read, j.fresh = job[t].fresh,
         j.todo \subseteq Name, job[t].todo \cup job[t].unknown = j.todo \cup j.unknown
  PROVE  Inv'
<1>1. /\ TypeInv /\ job \in [Task -> Job] /\ job[t] \in Job /\ InvOf(t)
      /\ job[t].pic \in Pic
  BY DEF Inv, TypeInv, TypeOK, Job
<1>2. Leaves(t) /\ Keeps(t) /\ lock' \in [Row -> Task \cup {None}] BY <1>1, LockFacts
<1>3. job'[t] = j /\ \A u \in Task : u # t => job'[u] = job[u] BY <1>1, JobTyped
<1>4. /\ \A p \in Pic : Attached(p)' = Attached(p) /\ Gone(p)' = Gone(p)
      /\ \A n : HasTag(t, n)' <=> HasTag(t, n)
  BY <1>2, <1>3, OwnKept
<1>5. PicInv(t)' BY <1>1, <1>3, <1>4 DEF InvOf, PicInv
<1>6. KnownInv(t)' BY <1>1, <1>3 DEF InvOf, KnownInv, Holding
<1>7. WantInv(t)' BY <1>3 DEF WantInv
<1>8. NamesInv(t)' BY <1>1, <1>3, <1>4 DEF InvOf, NamesInv
<1>9. BareInv(t)' BY <1>3 DEF BareInv
<1> QED BY <1>2, <1>5, <1>6, <1>7, <1>8, <1>9, OwnStep

\* A task takes a tag that is stored, and reads it: one of its picture's, or one
\* that has a name it seeks.
LEMMA ReadStep ==
  ASSUME Inv, NEW t \in Task, NEW j \in Job, job' = [job EXCEPT ![t] = j],
         UNCHANGED <<pics, tags, picTags, usedIds>>,
         NEW g \in Stored, Free(t, TagRow(g)), Take(t, TagRow(g)),
         j.want = None, j.pc = job[t].pc, j.pic = job[t].pic, j.tags = job[t].tags,
         j.kind = job[t].kind, j.names = job[t].names, j.unknown = job[t].unknown,
         j.fresh = job[t].fresh, j.read = [job[t].read EXCEPT ![g] = tags[g]],
         \/ job[t].pc = "attached" /\ j.todo = job[t].todo \ {g}
         \/ job[t].pc = "names" /\ j.todo = job[t].todo \ {tags[g].name}
  PROVE  Inv'
<1>1. /\ TypeInv /\ job \in [Task -> Job] /\ job[t] \in Job /\ InvOf(t)
      /\ job[t].pic \in Pic /\ usedIds \subseteq TagId /\ job[t].tags \subseteq TagId
      /\ g \in TagId /\ tags[g] # NoTag /\ job[t].read \in [TagId -> Tag \cup {NoTag}]
  BY DEF Inv, TypeInv, TypeOK, Job, Stored
<1>2. /\ Leaves(t) /\ Keeps(t) /\ lock'[TagRow(g)] = t
      /\ lock' \in [Row -> Task \cup {None}]
  BY <1>1, LockFacts, RowFacts
<1>3. /\ job' \in [Task -> Job] /\ job'[t] = j
      /\ \A u \in Task : u # t => job'[u] = job[u]
  BY <1>1, JobTyped
<1>4. TypeInv' BY <1>1, <1>2, <1>3, TypesKept
<1>5. /\ j.read[g] = tags[g]
      /\ \A h \in TagId : h # g => j.read[h] = job[t].read[h]
  BY <1>1
<1>6. \A r \in Row : lock[r] = t => lock'[r] = t BY <1>2 DEF Keeps
<1>7. ReadInv(t)' BY <1>1, <1>2, <1>3, <1>5, <1>6, RowFacts DEF InvOf, ReadInv
<1>8. FreshInv(t)'
  <2>1. Stored' = Stored BY DEF Stored
  <2>2. \A n : Named(n)' = Named(n) BY <2>1 DEF Named
  <2>3. \A u \in Task : job'[u].fresh = job[u].fresh BY <1>3
  <2> QED BY <1>1, <1>6, <2>1, <2>2, <2>3, RowFacts DEF InvOf, FreshInv
<1>9. PicInv(t)'
  <2>1. \A p \in Pic : Attached(p)' = Attached(p) /\ Gone(p)' = Gone(p)
    BY DEF Attached, Gone
  <2> QED BY <1>1, <1>3, <1>6, <2>1, RowFacts DEF InvOf, PicInv
<1>10. \A h \in TagId : job[t].read[h] # NoTag => j.read[h] # NoTag BY <1>1, <1>5
<1>11. KnownInv(t)'
  BY <1>1, <1>3, <1>5, <1>10 DEF InvOf, KnownInv, Holding
<1>12. WantInv(t)' BY <1>1, <1>3 DEF InvOf, WantInv
<1>13. NamesInv(t)'
  <2>1. ASSUME NEW n, HasTag(t, n) PROVE HasTag(t, n)'
    <3>1. CASE job[t].fresh[n] # None BY <1>3, <3>1 DEF HasTag
    <3>2. ASSUME NEW h \in TagId, job[t].read[h] # NoTag, job[t].read[h].name = n
          PROVE  HasTag(t, n)'
      <4>1. j.read[h] = job[t].read[h]
        <5>1. CASE h = g BY <1>1, <1>5, <3>2, <5>1 DEF InvOf, ReadInv
        <5>2. CASE h # g BY <1>5, <5>2
        <5> QED BY <5>1, <5>2
      <4> QED BY <1>3, <3>2, <4>1 DEF HasTag
    <3> QED BY <2>1, <3>1, <3>2 DEF HasTag
  <2>2. HasTag(t, tags[g].name)' BY <1>1, <1>3, <1>5 DEF HasTag
  <2> QED BY <1>1, <1>3, <2>1, <2>2 DEF InvOf, NamesInv
<1>14. BareInv(t)' BY <1>3 DEF BareInv
<1>15. InvOf(t)' BY <1>7, <1>8, <1>9, <1>11, <1>12, <1>13, <1>14 DEF InvOf
<1> QED BY <1>2, <1>3, <1>4, <1>15, QuietStep

\* A task locks a tag of its picture: it is there, since it counts the picture.
LEMMA LockTagStep == ASSUME Inv, NEW t \in Task, LockTag(t) PROVE Inv'
<1>1. /\ TypeInv /\ job \in [Task -> Job] /\ job[t] \in Job /\ InvOf(t)
      /\ job[t].pic \in Pic /\ job[t].pc = "attached" /\ job[t].want # None
  BY DEF Inv, TypeInv, TypeOK, Job, LockTag
<1>2. PICK g \in job[t].todo : job[t].want = TagRow(g) BY <1>1 DEF InvOf, WantInv
<1>3. g \in TagId /\ job[t].todo \subseteq TagId /\ picTags[job[t].pic][g] # 0
  BY <1>1 DEF InvOf, KnownInv, PicInv, Holding, Attached
<1>4. g \in Stored /\ tags[g] \in Tag \cup {NoTag}
  <2>1. PicsOf(g) # {} BY <1>1, <1>3 DEF PicsOf
  <2> QED BY <1>1, <1>3, <2>1 DEF Inv, TagsAgree, CountsMatch, Stored, TypeInv, TypeOK
<1> DEFINE T == job[t].todo \ {g}
           j == [job[t] EXCEPT !.want = None, !.todo = T, !.read[g] = tags[g]]
<1>5. T \in (SUBSET TagId) \cup (SUBSET Name) BY <1>3
<1>6. T = job[t].todo \ {g} OBVIOUS
<1>7. TagRow(g).id = g BY <1>3, RowFacts
<1>8. /\ job' = [job EXCEPT ![t] = j] /\ UNCHANGED <<pics, tags, picTags, usedIds>>
      /\ Free(t, TagRow(g)) /\ Take(t, TagRow(g))
  BY <1>2, <1>7 DEF LockTag
<1> HIDE DEF T
<1>9. j \in Job BY <1>1, <1>3, <1>4, <1>5, JobRead
<1>10. /\ j.want = None /\ j.pc = job[t].pc /\ j.pic = job[t].pic /\ j.tags = job[t].tags
       /\ j.kind = job[t].kind /\ j.names = job[t].names /\ j.unknown = job[t].unknown
       /\ j.fresh = job[t].fresh /\ j.read = [job[t].read EXCEPT ![g] = tags[g]]
       /\ j.todo = T
  BY <1>1 DEF Job
<1> HIDE DEF j
<1> QED BY <1>1, <1>4, <1>6, <1>8, <1>9, <1>10, ReadStep
\* No tag has a name that a task seeks.
LEMMA NameUnknownStep == ASSUME Inv, NEW t \in Task, NameUnknown(t) PROVE Inv'
<1>1. /\ TypeInv /\ job \in [Task -> Job] /\ job[t] \in Job /\ InvOf(t)
      /\ job[t].pc = "names" /\ job[t].want = None
      /\ UNCHANGED <<pics, tags, picTags, usedIds, lock>>
  BY DEF Inv, TypeInv, TypeOK, Job, NameUnknown
<1>2. job[t].todo \in SUBSET Name /\ job[t].unknown \in SUBSET Name
  BY <1>1 DEF InvOf, WantInv, Job
<1>3. PICK n \in job[t].todo :
        job' = [job EXCEPT ![t].todo = @ \ {n}, ![t].unknown = @ \cup {n}]
  BY DEF NameUnknown
<1> DEFINE T == job[t].todo \ {n}
           U == job[t].unknown \cup {n}
           j == [job[t] EXCEPT !.todo = T, !.unknown = U]
<1>4. /\ T \in SUBSET Name /\ U \in SUBSET Name
      /\ job[t].todo \cup job[t].unknown = T \cup U
  BY <1>2
<1>5. job' = [job EXCEPT ![t] = j] BY <1>1, <1>3
<1> HIDE DEF T, U
<1>6. j \in Job BY <1>1, <1>4, JobUnknown
<1>7. /\ j.want = job[t].want /\ j.pc = job[t].pc /\ j.pic = job[t].pic
      /\ j.tags = job[t].tags /\ j.kind = job[t].kind /\ j.names = job[t].names
      /\ j.fresh = job[t].fresh /\ j.read = job[t].read /\ j.todo = T /\ j.unknown = U
  BY <1>1 DEF Job
<1> HIDE DEF j
<1> QED BY <1>1, <1>4, <1>5, <1>6, <1>7, SeekSteps

\* A task locks the tag that has a name it seeks, unless it was purged meanwhile.
LEMMA LockNamedStep == ASSUME Inv, NEW t \in Task, LockNamed(t) PROVE Inv'
<1>1. /\ TypeInv /\ job \in [Task -> Job] /\ job[t] \in Job /\ InvOf(t)
      /\ job[t].pic \in Pic /\ job[t].pc = "names" /\ job[t].want # None
      /\ UNCHANGED <<pics, tags, picTags, usedIds>>
  BY DEF Inv, TypeInv, TypeOK, Job, LockNamed
<1>2. job[t].todo \in SUBSET Name BY <1>1 DEF InvOf, WantInv
<1>3. PICK g \in TagId : job[t].want = TagRow(g) BY <1>1 DEF InvOf, WantInv
<1>4. TagRow(g).id = g BY RowFacts
<1>5. CASE g \in Stored
  <2>1. tags[g] \in Tag \cup {NoTag} BY <1>1 DEF TypeInv, TypeOK
  <2> DEFINE T == job[t].todo \ {tags[g].name}
             j == [job[t] EXCEPT !.want = None, !.todo = T, !.read[g] = tags[g]]
  <2>2. T \in (SUBSET TagId) \cup (SUBSET Name) BY <1>2
  <2>3. T = job[t].todo \ {tags[g].name} OBVIOUS
  <2>4. /\ job' = [job EXCEPT ![t] = j]
        /\ Free(t, TagRow(g)) /\ Take(t, TagRow(g))
    BY <1>3, <1>4, <1>5 DEF LockNamed
  <2> HIDE DEF T
  <2>5. j \in Job BY <1>1, <2>1, <2>2, JobRead
  <2>6. /\ j.want = None /\ j.pc = job[t].pc /\ j.pic = job[t].pic
        /\ j.tags = job[t].tags /\ j.kind = job[t].kind /\ j.names = job[t].names
        /\ j.unknown = job[t].unknown /\ j.fresh = job[t].fresh
        /\ j.read = [job[t].read EXCEPT ![g] = tags[g]] /\ j.todo = T
    BY <1>1 DEF Job
  <2> HIDE DEF j
  <2> QED BY <1>1, <1>5, <2>3, <2>4, <2>5, <2>6, ReadStep
<1>6. CASE g \notin Stored
  <2> DEFINE j == [job[t] EXCEPT !.want = None]
  <2>1. job' = [job EXCEPT ![t] = j] /\ UNCHANGED lock
    BY <1>1, <1>3, <1>4, <1>6 DEF LockNamed
  <2>2. /\ j \in Job
        /\ j.want = None /\ j.pc = job[t].pc /\ j.pic = job[t].pic
        /\ j.tags = job[t].tags /\ j.kind = job[t].kind /\ j.names = job[t].names
        /\ j.fresh = job[t].fresh /\ j.read = job[t].read /\ j.todo = job[t].todo
        /\ j.unknown = job[t].unknown
    BY <1>1 DEF Job
  <2> HIDE DEF j
  <2> QED BY <1>1, <1>2, <2>1, <2>2, SeekSteps
<1> QED BY <1>5, <1>6

\* A task inserts a name that no tag has, under an id that was never given.
LEMMA InsertTagStep == ASSUME Inv, NEW t \in Task, InsertTag(t) PROVE Inv'
<1>1. /\ TypeInv /\ job \in [Task -> Job] /\ job[t] \in Job /\ InvOf(t)
      /\ job[t].pic \in Pic /\ job[t].unknown \in SUBSET Name
      /\ usedIds \subseteq TagId /\ job[t].fresh \in [Name -> TagId \cup {None}]
      /\ job[t].pc = "insert" /\ job[t].want # None
      /\ UNCHANGED <<pics, tags, picTags>>
  BY DEF Inv, TypeInv, TypeOK, Job, InsertTag
<1>2. PICK n \in job[t].unknown : job[t].want = NameRow(n) BY <1>1 DEF InvOf, WantInv
<1>3. n \in Name /\ NameRow(n).id = n /\ NameRow(n) \in Row BY <1>1, <1>2, RowFacts
<1>4. PICK g \in TagId \ usedIds :
        /\ usedIds' = usedIds \cup {g}
        /\ job' = [job EXCEPT ![t].want = None, ![t].unknown = @ \ {n}, ![t].fresh[n] = g]
  BY <1>2, <1>3 DEF InsertTag
<1>5. Free(t, NameRow(n)) /\ Take(t, NameRow(n)) /\ Named(n) = {}
  BY <1>2, <1>3 DEF InsertTag, NameFree
<1> DEFINE U == job[t].unknown \ {n}
           j == [job[t] EXCEPT !.want = None, !.unknown = U, !.fresh[n] = g]
<1>6. U \in SUBSET Name /\ U = job[t].unknown \ {n} BY <1>1
<1>7. job' = [job EXCEPT ![t] = j] BY <1>1, <1>4
<1> HIDE DEF U
<1>8. j \in Job BY <1>1, <1>3, <1>6, JobFresh
<1>9. /\ j.want = None /\ j.pc = job[t].pc /\ j.pic = job[t].pic
      /\ j.tags = job[t].tags /\ j.kind = job[t].kind /\ j.names = job[t].names
      /\ j.fresh = [job[t].fresh EXCEPT ![n] = g] /\ j.read = job[t].read
      /\ j.todo = job[t].todo /\ j.unknown = U
  BY <1>1 DEF Job
<1> HIDE DEF j
<1>10. /\ job' \in [Task -> Job] /\ job'[t] = j
       /\ \A u \in Task : u # t => job'[u] = job[u]
  BY <1>1, <1>7, <1>8, JobTyped
<1>11. /\ Leaves(t) /\ Keeps(t) /\ lock'[NameRow(n)] = t
       /\ lock' \in [Row -> Task \cup {None}]
  BY <1>1, <1>3, <1>5, LockFacts
<1>12. \A r \in Row : lock[r] = t => lock'[r] = t BY <1>11 DEF Keeps
<1>13. TypeInv' BY <1>1, <1>4, <1>10, <1>11, TypesKept
<1>14. /\ j.fresh[n] = g
       /\ \A m \in Name : m # n => j.fresh[m] = job[t].fresh[m]
  BY <1>1, <1>3, <1>9
<1>15. ReadInv(t)' BY <1>1, <1>9, <1>10, <1>12, RowFacts DEF InvOf, ReadInv
<1>16. FreshInv(t)'
  <2>1. Stored' = Stored /\ Stored \subseteq usedIds BY <1>1 DEF Stored, Inv
  <2>2. \A m : Named(m)' = Named(m) BY <1>1, <2>1 DEF Named
  <2>3. \A u \in Task, m \in Name : job[u].fresh[m] # None => job[u].fresh[m] \in usedIds
    BY DEF Inv, InvOf, FreshInv
  <2>4. g # None BY NoneAssumption
  <2>5. \A u \in Task, m \in Name :
          job'[u].fresh[m] = IF u = t /\ m = n THEN g ELSE job[u].fresh[m]
    BY <1>9, <1>10, <1>14
  <2>6. ASSUME NEW m \in Name, job'[t].fresh[m] # None
        PROVE  /\ lock'[NameRow(m)] = t /\ Named(m)' = {}
               /\ job'[t].fresh[m] \in usedIds' \ Stored'
               /\ \A u \in Task, k \in Name :
                    job'[u].fresh[k] = job'[t].fresh[m] => u = t /\ k = m
    <3>1. CASE m = n
      <4>1. job'[t].fresh[m] = g BY <2>5, <3>1
      <4>2. /\ lock'[NameRow(m)] = t /\ Named(m)' = {} /\ g \in usedIds' \ Stored'
        BY <1>4, <1>5, <1>11, <2>1, <2>2, <3>1
      <4>3. \A u \in Task, k \in Name : job'[u].fresh[k] = g => u = t /\ k = m
        BY <1>4, <2>3, <2>4, <2>5, <3>1
      <4> QED BY <4>1, <4>2, <4>3
    <3>2. CASE m # n
      <4>1. /\ job'[t].fresh[m] = job[t].fresh[m] /\ job[t].fresh[m] # None
            /\ job[t].fresh[m] \in usedIds
        BY <2>3, <2>5, <2>6, <3>2
      <4>2. /\ lock[NameRow(m)] = t /\ Named(m) = {}
            /\ job[t].fresh[m] \in usedIds \ Stored
            /\ \A u \in Task, k \in Name : job[u].fresh[k] = job[t].fresh[m] => u = t /\ k = m
        BY <1>1, <4>1 DEF InvOf, FreshInv
      <4>3. /\ lock'[NameRow(m)] = t /\ Named(m)' = {}
            /\ job'[t].fresh[m] \in usedIds' \ Stored'
        BY <1>4, <1>12, <2>1, <2>2, <4>1, <4>2, RowFacts
      <4>4. ASSUME NEW u \in Task, NEW k \in Name, job'[u].fresh[k] = job'[t].fresh[m]
            PROVE  u = t /\ k = m
        <5>1. job[u].fresh[k] = job[t].fresh[m] BY <1>4, <2>5, <4>1, <4>4
        <5> QED BY <4>2, <5>1
      <4> QED BY <4>3, <4>4
    <3> QED BY <3>1, <3>2
  <2> QED BY <2>6 DEF FreshInv
<1>17. PicInv(t)'
  <2>1. \A p \in Pic : Attached(p)' = Attached(p) /\ Gone(p)' = Gone(p)
    BY <1>1 DEF Attached, Gone
  <2> QED BY <1>1, <1>9, <1>10, <1>12, <2>1, RowFacts DEF InvOf, PicInv
<1>18. KnownInv(t)' BY <1>1, <1>9, <1>10 DEF InvOf, KnownInv
<1>19. WantInv(t)' BY <1>1, <1>9, <1>10 DEF WantInv
<1>20. NamesInv(t)'
  <2>1. g # None BY NoneAssumption
  <2>2. \A m \in Name : m = n \/ HasTag(t, m) => HasTag(t, m)'
    BY <1>9, <1>10, <1>14, <2>1 DEF HasTag
  <2>3. job[t].names \subseteq Name BY <1>1 DEF Job
  <2> QED BY <1>1, <1>6, <1>9, <1>10, <2>2, <2>3 DEF InvOf, NamesInv
<1>21. BareInv(t)' BY <1>1, <1>9, <1>10 DEF BareInv
<1>22. InvOf(t)' BY <1>15, <1>16, <1>17, <1>18, <1>19, <1>20, <1>21 DEF InvOf
<1>23. \A m \in Name : \/ job'[t].fresh[m] = job[t].fresh[m]
                       \/ job'[t].fresh[m] \notin usedIds
  BY <1>4, <1>10, <1>14
<1> QED BY <1>1, <1>4, <1>10, <1>11, <1>13, <1>22, <1>23, QuietStep
-----------------------------------------------------------------------------
\* Steps that change pictures and tags.

\* A task that commits changes tags that it holds and adds those that it created, of
\* names that it holds; so it leaves others what they know.
LEMMA CommitStep ==
  ASSUME Inv, NEW t \in Task, End(t), UNCHANGED usedIds, TypeInv', TagsAgree',
         Stored' \subseteq Stored \cup Created(t),
         \A g \in Stored : lock[TagRow(g)] # t => tags'[g] = tags[g],
         \A n \in Name : Named(n) = {} /\ lock[NameRow(n)] # t => Named(n)' = {},
         \A p \in Pic : lock[PicRow(p)] # t =>
           Attached(p)' = Attached(p) /\ (Gone(p)' <=> Gone(p))
  PROVE  Inv'
<1>1. /\ TypeInv /\ job \in [Task -> Job] /\ InvOf(t) /\ Stored \subseteq usedIds
      /\ lock \in [Row -> Task \cup {None}]
  BY DEF Inv, TypeInv, TypeOK, Job
<1>2. /\ job'[t] = Idle /\ \A u \in Task : u # t => job'[u] = job[u]
  BY <1>1, IdleJob, JobTyped DEF End
<1>3. Leaves(t) BY <1>1, LockFacts DEF End
<1>4. InvOf(t)' /\ \A n \in Name : job'[t].fresh[n] = None
  BY <1>2, OwnBare DEF Idle
<1>5. Stored' \subseteq usedIds'
  <2>1. Created(t) \subseteq usedIds BY <1>1 DEF Created, InvOf, FreshInv
  <2> QED BY <1>1, <2>1
<1>6. ASSUME NEW u \in Task, u # t PROVE InvOf(u)'
  <2>1. InvOf(u) /\ job'[u] = job[u] /\ job[u] \in Job
    BY <1>1, <1>2, <1>6 DEF Inv
  <2>2. \A r \in Row : lock[r] = u => lock'[r] = u /\ lock[r] # t BY <1>3, <1>6 DEF Leaves
  <2>3. ReadInv(u)'
    <3> SUFFICES ASSUME NEW g \in TagId, job[u].read[g] # NoTag
                 PROVE  lock'[TagRow(g)] = u /\ tags'[g] = job[u].read[g]
      BY <2>1 DEF ReadInv
    <3>1. lock[TagRow(g)] = u /\ tags[g] = job[u].read[g] BY <2>1 DEF InvOf, ReadInv
    <3>2. g \in Stored BY <3>1 DEF Stored
    <3> QED BY <2>2, <3>1, <3>2, RowFacts
  <2>4. FreshInv(u)'
    <3> SUFFICES ASSUME NEW n \in Name, job[u].fresh[n] # None
                 PROVE  /\ lock'[NameRow(n)] = u /\ Named(n)' = {}
                        /\ job[u].fresh[n] \in usedIds' \ Stored'
                        /\ \A v \in Task, m \in Name :
                             job'[v].fresh[m] = job[u].fresh[n] => v = u /\ m = n
      BY <2>1 DEF FreshInv
    <3>1. /\ lock[NameRow(n)] = u /\ Named(n) = {}
          /\ job[u].fresh[n] \in usedIds \ Stored
          /\ \A v \in Task, m \in Name :
               job[v].fresh[m] = job[u].fresh[n] => v = u /\ m = n
      BY <2>1 DEF InvOf, FreshInv
    <3>2. lock'[NameRow(n)] = u /\ Named(n)' = {} BY <2>2, <3>1, RowFacts
    <3>3. job[u].fresh[n] \notin Created(t) BY <1>6, <3>1 DEF Created
    <3>4. ASSUME NEW v \in Task, NEW m \in Name, job'[v].fresh[m] = job[u].fresh[n]
          PROVE  v = u /\ m = n
      <4>1. v # t BY <1>4, <3>4
      <4> QED BY <1>2, <3>1, <3>4, <4>1
    <3> QED BY <3>1, <3>2, <3>3, <3>4
  <2>5. PicInv(u)'
    <3>1. job[u].pic \in Pic BY <2>1 DEF Job
    <3> QED BY <2>1, <2>2, <3>1, RowFacts DEF InvOf, PicInv
  <2>6. KnownInv(u)' BY <2>1 DEF InvOf, KnownInv
  <2>7. WantInv(u)' BY <2>1 DEF InvOf, WantInv
  <2>8. NamesInv(u)' BY <2>1 DEF InvOf, NamesInv, HasTag
  <2>9. BareInv(u)' BY <2>1 DEF InvOf, BareInv
  <2> QED BY <2>3, <2>4, <2>5, <2>6, <2>7, <2>8, <2>9 DEF InvOf
<1> QED BY <1>4, <1>5, <1>6 DEF Inv

\* What a task that commits knows of the tags it found and of those it created.
LEMMA Known ==
  ASSUME Inv, NEW t \in Task, job[t].pc = "commit"
  PROVE  /\ job[t].pic \in Pic /\ ~Gone(job[t].pic) /\ lock[PicRow(job[t].pic)] = t
         /\ job[t].tags = Attached(job[t].pic)
         /\ \A g \in Attached(job[t].pic) : job[t].read[g] # NoTag
         /\ \A g \in TagId : job[t].read[g] # NoTag =>
              /\ g \in Stored /\ tags[g] = job[t].read[g] /\ tags[g] \in Tag
              /\ lock[TagRow(g)] = t
         /\ \A g \in Created(t) :
              /\ g \in TagId \ Stored /\ g \in usedIds
              /\ \E n \in Name : /\ job[t].fresh[n] = g
                                 /\ Named(n) = {} /\ lock[NameRow(n)] = t
                                 /\ \A m \in Name : job[t].fresh[m] = g => m = n
<1>1. /\ InvOf(t) /\ job[t].pic \in Pic /\ tags \in [TagId -> Tag \cup {NoTag}]
      /\ usedIds \subseteq TagId
  BY DEF Inv, TypeInv, TypeOK
<1>2. /\ ~Gone(job[t].pic) /\ lock[PicRow(job[t].pic)] = t
      /\ job[t].tags = Attached(job[t].pic)
  BY <1>1 DEF InvOf, PicInv, Holding
<1>3. \A g \in Attached(job[t].pic) : job[t].read[g] # NoTag
  BY <1>1, <1>2 DEF InvOf, KnownInv, Holding
<1>4. ASSUME NEW g \in TagId, job[t].read[g] # NoTag
      PROVE  /\ g \in Stored /\ tags[g] = job[t].read[g] /\ tags[g] \in Tag
             /\ lock[TagRow(g)] = t
  BY <1>1, <1>4 DEF InvOf, ReadInv, Stored
<1>5. ASSUME NEW g \in Created(t)
      PROVE  /\ g \in TagId \ Stored /\ g \in usedIds
             /\ \E n \in Name : /\ job[t].fresh[n] = g
                                /\ Named(n) = {} /\ lock[NameRow(n)] = t
                                /\ \A m \in Name : job[t].fresh[m] = g => m = n
  <2>1. PICK n \in Name : job[t].fresh[n] = g /\ g # None BY <1>5 DEF Created
  <2> QED BY <1>1, <2>1 DEF InvOf, FreshInv
<1> QED BY <1>1, <1>2, <1>3, <1>4, <1>5
\* What a task that commits p does to the tags that it found, and to those that it
\* created: they have one picture more, or just this one.
GotOne(t, p, g) ==
  /\ g \in Stored /\ lock[TagRow(g)] = t /\ p \notin PicsOf(g)
  /\ PicsOf(g)' = PicsOf(g) \cup {p}
  /\ tags'[g] \in Tag /\ tags'[g].name = tags[g].name
  /\ tags'[g].count = tags[g].count + 1
IsNew(t, p, g) ==
  /\ g \notin Stored /\ PicsOf(g)' = {p}
  /\ tags'[g] \in Tag /\ tags'[g].count = 1
  /\ job[t].fresh[tags'[g].name] = g
  /\ Named(tags'[g].name) = {} /\ lock[NameRow(tags'[g].name)] = t

\* CommitAdd does this, and leaves other tags and pictures alone.
LEMMA AddedTags ==
  ASSUME Inv, NEW t \in Task, CommitAdd(t), NEW p \in Pic, p = job[t].pic
  PROVE  /\ \A g \in TagId : g \in Found(t) => GotOne(t, p, g)
         /\ \A g \in TagId : g \in Created(t) =>
              /\ IsNew(t, p, g)
              /\ \A n \in Name : job[t].fresh[n] = g => n = tags'[g].name
         /\ \A g \in TagId : g \notin Found(t) \cup Created(t) =>
              PicsOf(g)' = PicsOf(g) /\ tags'[g] = tags[g]
         /\ \A q \in Pic : q # p => picTags'[q] = picTags[q]
         /\ \A g \in TagId :
              picTags'[p][g] = IF g \in Found(t) \cup Created(t) THEN 1 ELSE picTags[p][g]
<1>1. /\ TypeInv /\ job[t].pc = "commit" /\ picTags \in [Pic -> [TagId -> Nat]]
      /\ tags \in [TagId -> Tag \cup {NoTag}]
      /\ \A g \in TagId : tags[g] = NoTag => PicsOf(g) = {}
  BY DEF Inv, TypeInv, TypeOK, CommitAdd, TagsAgree, CountsMatch
<1>2. /\ tags' = [g \in TagId |->
           IF g \in Found(t)
           THEN [name |-> job[t].read[g].name, count |-> job[t].read[g].count + 1]
           ELSE IF g \in Created(t)
           THEN [name |-> CHOOSE n \in Name : job[t].fresh[n] = g, count |-> 1]
           ELSE tags[g]]
      /\ picTags' = [picTags EXCEPT ![p] =
           [g \in TagId |-> IF g \in Found(t) \cup Created(t) THEN 1 ELSE @[g]]]
  BY DEF CommitAdd, Counted
<1>3. /\ \A q \in Pic : q # p => picTags'[q] = picTags[q]
      /\ \A g \in TagId :
           picTags'[p][g] = IF g \in Found(t) \cup Created(t) THEN 1 ELSE picTags[p][g]
  BY <1>1, <1>2
<1>4. \A g \in TagId :
        PicsOf(g)' = IF g \in Found(t) \cup Created(t) THEN PicsOf(g) \cup {p} ELSE PicsOf(g)
  BY <1>3 DEF PicsOf
<1>5. ASSUME NEW g \in TagId, g \in Found(t) PROVE g \in Stored /\ GotOne(t, p, g)
  <2>1. job[t].read[g] # NoTag /\ g \notin Attached(p)
    BY <1>1, <1>5, Known DEF Found
  <2>2. /\ g \in Stored /\ tags[g] = job[t].read[g] /\ tags[g] \in Tag
        /\ lock[TagRow(g)] = t
    BY <1>1, <2>1, Known
  <2>3. p \notin PicsOf(g) BY <2>1 DEF Attached, PicsOf
  <2>4. tags'[g] = [name |-> tags[g].name, count |-> tags[g].count + 1]
    BY <1>2, <1>5, <2>2
  <2>5. tags[g].name \in Name /\ tags[g].count + 1 \in Nat \ {0} BY <2>2 DEF Tag
  <2>6. tags'[g] \in Tag BY <2>4, <2>5 DEF Tag
  <2> QED BY <1>4, <1>5, <2>2, <2>3, <2>4, <2>6 DEF GotOne
<1>6. ASSUME NEW g \in TagId, g \in Created(t)
      PROVE  /\ IsNew(t, p, g)
             /\ \A n \in Name : job[t].fresh[n] = g => n = tags'[g].name
  <2>1. PICK n \in Name : /\ job[t].fresh[n] = g
                          /\ Named(n) = {} /\ lock[NameRow(n)] = t
                          /\ \A m \in Name : job[t].fresh[m] = g => m = n
    BY <1>1, <1>6, Known
  <2>2. g \notin Stored BY <1>1, <1>6, Known
  <2>3. g \notin Found(t) BY <1>5, <2>2
  <2>4. PicsOf(g) = {} BY <1>1, <2>2 DEF Stored
  <2>5. (CHOOSE m \in Name : job[t].fresh[m] = g) = n BY <2>1
  <2>6. tags'[g] = [name |-> n, count |-> 1] BY <1>2, <1>6, <2>3, <2>5
  <2>7. tags'[g] \in Tag /\ tags'[g].name = n /\ tags'[g].count = 1 BY <2>6 DEF Tag
  <2> QED BY <1>4, <1>6, <2>1, <2>2, <2>3, <2>4, <2>7 DEF IsNew
<1>7. \A g \in TagId : g \notin Found(t) \cup Created(t) =>
        PicsOf(g)' = PicsOf(g) /\ tags'[g] = tags[g]
  BY <1>2, <1>4
<1> QED BY <1>3, <1>5, <1>6, <1>7

\* A task commits the tags it was asked to add.
LEMMA CommitAddStep == ASSUME Inv, NEW t \in Task, CommitAdd(t) PROVE Inv'
<1>1. /\ TypeInv /\ job \in [Task -> Job] /\ job[t].pic \in Pic
      /\ tags \in [TagId -> Tag \cup {NoTag}]
      /\ job[t].pc = "commit" /\ End(t) /\ UNCHANGED <<pics, usedIds>>
      /\ DOMAIN tags' = TagId /\ TagsAgree
  BY DEF Inv, TypeInv, TypeOK, Job, CommitAdd
<1>2. PICK p \in Pic : p = job[t].pic BY <1>1
<1>3. /\ \A g \in TagId : g \in Found(t) => GotOne(t, p, g)
      /\ \A g \in TagId : g \in Created(t) =>
           /\ IsNew(t, p, g)
           /\ \A n \in Name : job[t].fresh[n] = g => n = tags'[g].name
      /\ \A g \in TagId : g \notin Found(t) \cup Created(t) =>
           PicsOf(g)' = PicsOf(g) /\ tags'[g] = tags[g]
  BY <1>2, AddedTags
<1>4. /\ \A q \in Pic : q # p => picTags'[q] = picTags[q]
      /\ \A g \in TagId :
           picTags'[p][g] = IF g \in Found(t) \cup Created(t) THEN 1 ELSE picTags[p][g]
  BY <1>2, AddedTags
<1>5. lock[PicRow(p)] = t /\ ~Gone(p) BY <1>1, <1>2, Known
<1>6. TypeInv'
  <2>1. tags' \in [TagId -> Tag \cup {NoTag}]
    <3>1. tags' = [g \in TagId |-> tags'[g]] BY DEF CommitAdd
    <3>2. \A g \in TagId : tags'[g] \in Tag \cup {NoTag} BY <1>1, <1>3 DEF GotOne, IsNew
    <3> QED BY <3>1, <3>2
  <2>2. picTags' \in [Pic -> [TagId -> Nat]] BY <1>1 DEF CommitAdd, TypeInv
  <2>3. \A q \in Pic, g \in TagId : picTags'[q][g] \in 0..MaxVersion[q][g]
    BY <1>1, <1>4, BoundAssumption DEF TypeInv, TypeOK
  <2>4. lock' \in [Row -> Task \cup {None}] BY <1>1, LockFacts DEF End
  <2>5. job' \in [Task -> Job] BY <1>1, IdleJob DEF End
  <2> QED BY <1>1, <2>1, <2>2, <2>3, <2>4, <2>5 DEF TypeInv, TypeOK, Job
<1>7. /\ Stored' \subseteq Stored \cup Created(t)
      /\ \A g \in TagId : tags[g] # NoTag => tags'[g] # NoTag
  BY <1>3, NoTagAssumption DEF Stored, GotOne, IsNew
<1>8. CountsMatch'
  <2> SUFFICES ASSUME NEW g \in TagId
               PROVE  /\ tags'[g] = NoTag => PicsOf(g)' = {}
                      /\ tags'[g] # NoTag => /\ PicsOf(g)' # {}
                                             /\ tags'[g].count = Cardinality(PicsOf(g)')
    BY DEF CountsMatch
  <2>1. /\ tags[g] = NoTag => PicsOf(g) = {}
        /\ tags[g] # NoTag => /\ PicsOf(g) # {}
                              /\ tags[g].count = Cardinality(PicsOf(g))
    BY <1>1 DEF TagsAgree, CountsMatch
  <2>2. CASE g \in Found(t)
    <3>1. Cardinality(PicsOf(g) \cup {p}) = Cardinality(PicsOf(g)) + 1
      <4>1. IsFiniteSet(PicsOf(g)) BY PicAssumption, FS_Subset DEF PicsOf
      <4> QED BY <1>3, <2>2, <4>1, FS_AddElement DEF GotOne
    <3> QED BY <1>3, <2>1, <2>2, <3>1, NoTagAssumption DEF Stored, GotOne
  <2>3. CASE g \in Created(t)
    <3>1. IsNew(t, p, g) BY <1>3, <2>3
    <3>2. Cardinality({p}) = 1 BY FS_Singleton
    <3> QED BY <3>1, <3>2, NoTagAssumption DEF IsNew
  <2>4. CASE g \notin Found(t) \cup Created(t) BY <1>3, <2>1, <2>4 DEF IsNew
  <2> QED BY <2>2, <2>3, <2>4
<1>9. \A g \in Stored' : \/ g \in Stored /\ tags'[g].name = tags[g].name
                         \/ g \in Created(t)
  BY <1>3, <1>7 DEF Stored, GotOne
<1>10. NamesDiffer'
  <2> SUFFICES ASSUME NEW g \in Stored', NEW h \in Stored', g # h,
                      tags'[g].name = tags'[h].name
               PROVE  FALSE
    BY DEF NamesDiffer
  <2>1. g \in TagId /\ h \in TagId BY DEF Stored
  <2>2. CASE g \in Stored /\ h \in Stored
    <3>1. g \notin Created(t) /\ h \notin Created(t) BY <1>3, <2>1, <2>2 DEF IsNew
    <3> QED BY <1>1, <1>9, <2>2, <3>1 DEF TagsAgree, NamesDiffer
  <2>3. CASE g \in Created(t) /\ h \in Created(t)
    BY <1>3, <2>1, <2>3 DEF IsNew
  <2>4. CASE g \in Created(t) /\ h \in Stored
    <3>1. h \notin Created(t) BY <1>3, <2>1, <2>4 DEF IsNew
    <3>2. h \in Named(tags'[g].name) BY <1>9, <2>4, <3>1 DEF Named
    <3> QED BY <1>3, <2>1, <2>4, <3>2 DEF IsNew
  <2>5. CASE h \in Created(t) /\ g \in Stored
    <3>1. g \notin Created(t) BY <1>3, <2>1, <2>5 DEF IsNew
    <3>2. g \in Named(tags'[h].name) BY <1>9, <2>5, <3>1 DEF Named
    <3> QED BY <1>3, <2>1, <2>5, <3>2 DEF IsNew
  <2> QED BY <1>9, <2>2, <2>3, <2>4, <2>5
<1>11. \A q \in Pic : q # p => Attached(q)' = Attached(q) BY <1>4 DEF Attached
<1>12. PurgedHaveNone'
  <2>1. \A q \in Pic : Gone(q)' <=> Gone(q) BY <1>1 DEF Gone
  <2> QED BY <1>1, <1>5, <1>11, <2>1 DEF TagsAgree, PurgedHaveNone
<1>13. \A g \in Stored : lock[TagRow(g)] # t => tags'[g] = tags[g]
  BY <1>3 DEF Stored, GotOne, IsNew
<1>14. ASSUME NEW n \in Name, Named(n) = {}, lock[NameRow(n)] # t PROVE Named(n)' = {}
  <2> SUFFICES ASSUME NEW g \in Stored', tags'[g].name = n PROVE FALSE BY DEF Named
  <2>1. g \in TagId BY DEF Stored
  <2>2. g \notin Created(t) BY <1>3, <1>14, <2>1 DEF IsNew
  <2>3. g \in Named(n) BY <1>9, <2>2 DEF Named
  <2> QED BY <1>14, <2>3
<1>15. \A q \in Pic : lock[PicRow(q)] # t =>
         Attached(q)' = Attached(q) /\ (Gone(q)' <=> Gone(q))
  BY <1>1, <1>5, <1>11 DEF Gone
<1>16. TagsAgree' BY <1>8, <1>10, <1>12 DEF TagsAgree
<1> QED BY <1>1, <1>6, <1>7, <1>13, <1>14, <1>15, <1>16, CommitStep
\* A picture is purged: each of its tags has one picture less, and is gone if this
\* was the last.
LEMMA CommitPurgeStep == ASSUME Inv, NEW t \in Task, CommitPurge(t) PROVE Inv'
<1>1. /\ TypeInv /\ job \in [Task -> Job] /\ job[t].pic \in Pic
      /\ tags \in [TagId -> Tag \cup {NoTag}] /\ picTags \in [Pic -> [TagId -> Nat]]
      /\ pics \in [Pic -> {"none", "live", "hard", "purged"}]
      /\ job[t].pc = "commit" /\ End(t) /\ UNCHANGED usedIds /\ TagsAgree
  BY DEF Inv, TypeInv, TypeOK, Job, CommitPurge
<1>2. PICK p \in Pic : p = job[t].pic BY <1>1
<1>3. /\ lock[PicRow(p)] = t /\ ~Gone(p) /\ job[t].tags = Attached(p)
      /\ \A g \in Attached(p) : job[t].read[g] # NoTag
      /\ \A g \in TagId : job[t].read[g] # NoTag =>
           /\ g \in Stored /\ tags[g] = job[t].read[g] /\ tags[g] \in Tag
           /\ lock[TagRow(g)] = t
  BY <1>1, <1>2, Known
<1>4. \A g \in Attached(p) : /\ g \in TagId /\ g \in Stored /\ tags[g] = job[t].read[g]
                             /\ tags[g] \in Tag /\ lock[TagRow(g)] = t
  BY <1>3 DEF Attached
<1>5. /\ pics' = [pics EXCEPT ![p] = "purged"]
      /\ picTags' = [picTags EXCEPT ![p] = [g \in TagId |-> 0]]
      /\ tags' = [g \in TagId |-> IF g \in Attached(p) THEN Detached(tags[g]) ELSE tags[g]]
  BY <1>2, <1>3, <1>4 DEF CommitPurge
<1>6. \A g \in TagId : tags'[g] = IF g \in Attached(p) THEN Detached(tags[g]) ELSE tags[g]
  BY <1>5
<1>7. ASSUME NEW g \in Attached(p)
      PROVE  IF tags[g].count > 1
             THEN /\ tags'[g] \in Tag /\ tags'[g].name = tags[g].name
                  /\ tags'[g].count = tags[g].count - 1
             ELSE tags'[g] = NoTag
  <2>1. /\ tags'[g] = Detached(tags[g]) /\ tags[g].name \in Name
        /\ tags[g].count \in Nat \ {0}
    BY <1>4, <1>6 DEF Tag
  <2>2. CASE tags[g].count > 1
    <3>1. tags[g].count - 1 \in Nat \ {0} BY <2>1, <2>2
    <3> QED BY <1>4, <2>1, <2>2, <3>1 DEF Detached, Tag
  <2> QED BY <2>1, <2>2 DEF Detached
<1>8. /\ \A q \in Pic : q # p => picTags'[q] = picTags[q]
      /\ \A g \in TagId : picTags'[p][g] = 0
  BY <1>1, <1>5
<1>9. TypeInv'
  <2>1. tags' \in [TagId -> Tag \cup {NoTag}]
    <3>1. \A g \in TagId : tags'[g] \in Tag \cup {NoTag} BY <1>1, <1>6, <1>7
    <3>2. tags' = [g \in TagId |-> tags'[g]] BY <1>5
    <3> QED BY <3>1, <3>2
  <2>2. picTags' \in [Pic -> [TagId -> Nat]]
    <3>1. [g \in TagId |-> 0] \in [TagId -> Nat] OBVIOUS
    <3> QED BY <1>1, <1>5, <3>1
  <2>3. \A q \in Pic, g \in TagId : picTags'[q][g] \in 0..MaxVersion[q][g]
    BY <1>1, <1>8, BoundAssumption DEF TypeInv, TypeOK
  <2>4. lock' \in [Row -> Task \cup {None}] BY <1>1, LockFacts DEF End
  <2>5. job' \in [Task -> Job] BY <1>1, IdleJob DEF End
  <2>6. pics' \in [Pic -> {"none", "live", "hard", "purged"}] BY <1>1, <1>5
  <2> QED BY <1>1, <2>1, <2>2, <2>3, <2>4, <2>5, <2>6 DEF TypeInv, TypeOK, Job
<1>10. \A g \in TagId : PicsOf(g)' = PicsOf(g) \ {p} BY <1>8 DEF PicsOf
<1>11. CountsMatch'
  <2> SUFFICES ASSUME NEW g \in TagId
               PROVE  /\ tags'[g] = NoTag => PicsOf(g)' = {}
                      /\ tags'[g] # NoTag => /\ PicsOf(g)' # {}
                                             /\ tags'[g].count = Cardinality(PicsOf(g)')
    BY DEF CountsMatch
  <2>1. /\ tags[g] = NoTag => PicsOf(g) = {}
        /\ tags[g] # NoTag => /\ PicsOf(g) # {}
                              /\ tags[g].count = Cardinality(PicsOf(g))
    BY <1>1 DEF TagsAgree, CountsMatch
  <2>2. CASE g \in Attached(p)
    <3>1. tags[g] \in Tag /\ tags[g] # NoTag /\ tags[g].count \in Nat \ {0}
      BY <1>4, <2>2, NoTagAssumption DEF Tag
    <3>2. p \in PicsOf(g) BY <2>2 DEF Attached, PicsOf
    <3>3. IsFiniteSet(PicsOf(g)) BY PicAssumption, FS_Subset DEF PicsOf
    <3>4. Cardinality(PicsOf(g) \ {p}) = tags[g].count - 1 /\ IsFiniteSet(PicsOf(g) \ {p})
      BY <2>1, <3>1, <3>2, <3>3, FS_RemoveElement
    <3>5. CASE tags[g].count > 1
      <4>1. tags'[g] # NoTag /\ tags'[g].count = tags[g].count - 1
        BY <1>7, <2>2, <3>5, NoTagAssumption
      <4>2. PicsOf(g) \ {p} # {} BY <3>1, <3>4, <3>5, FS_EmptySet
      <4> QED BY <1>10, <3>4, <4>1, <4>2
    <3>6. CASE ~(tags[g].count > 1)
      <4>1. tags'[g] = NoTag BY <1>7, <2>2, <3>6
      <4>2. Cardinality(PicsOf(g) \ {p}) = 0 BY <3>1, <3>4, <3>6
      <4>3. PicsOf(g) \ {p} = {} BY <3>4, <4>2, FS_EmptySet
      <4> QED BY <1>10, <4>1, <4>3
    <3> QED BY <3>5, <3>6
  <2>3. CASE g \notin Attached(p)
    <3>1. PicsOf(g) \ {p} = PicsOf(g) BY <2>3 DEF Attached, PicsOf
    <3> QED BY <1>6, <1>10, <2>1, <2>3, <3>1
  <2> QED BY <2>2, <2>3
<1>12. \A g \in Stored' : g \in Stored /\ tags'[g].name = tags[g].name
  BY <1>4, <1>6, <1>7 DEF Stored
<1>13. NamesDiffer' BY <1>1, <1>12 DEF TagsAgree, NamesDiffer
<1>14. \A q \in Pic : q # p => Attached(q)' = Attached(q) /\ (Gone(q)' <=> Gone(q))
  BY <1>1, <1>5, <1>8 DEF Attached, Gone
<1>15. PurgedHaveNone'
  <2>1. Attached(p)' = {} BY <1>8 DEF Attached
  <2> QED BY <1>1, <1>14, <2>1 DEF TagsAgree, PurgedHaveNone
<1>16. \A g \in Stored : lock[TagRow(g)] # t => tags'[g] = tags[g]
  BY <1>4, <1>6 DEF Stored
<1>17. \A n \in Name : Named(n) = {} => Named(n)' = {} BY <1>12 DEF Named
<1>18. \A q \in Pic : lock[PicRow(q)] # t =>
         Attached(q)' = Attached(q) /\ (Gone(q)' <=> Gone(q))
  BY <1>3, <1>14
<1>19. TagsAgree' /\ Stored' \subseteq Stored \cup Created(t)
  BY <1>11, <1>12, <1>13, <1>15 DEF TagsAgree
<1> QED BY <1>1, <1>9, <1>16, <1>17, <1>18, <1>19, CommitStep

\* Tags and tasks know nothing of the version of a PicTag, nor of how a picture is
\* there.
LEMMA OtherTables ==
  ASSUME Inv, TypeInv', UNCHANGED <<tags, usedIds, lock, job>>,
         \A p \in Pic : Gone(p)' => Gone(p),
         \A p \in Pic, g \in TagId : picTags'[p][g] # 0 <=> picTags[p][g] # 0
  PROVE  Inv'
<1>1. /\ \A p \in Pic : Attached(p)' = Attached(p)
      /\ \A g \in TagId : PicsOf(g)' = PicsOf(g)
      /\ Stored' = Stored /\ \A n : Named(n)' = Named(n)
  BY DEF Attached, PicsOf, Stored, Named
<1>2. TagsAgree'
  BY <1>1 DEF Inv, TagsAgree, CountsMatch, NamesDiffer, PurgedHaveNone
<1>3. ASSUME NEW t \in Task PROVE InvOf(t)'
  <2>1. InvOf(t) BY DEF Inv
  <2>2. ReadInv(t)' BY <2>1 DEF InvOf, ReadInv
  <2>3. FreshInv(t)' BY <1>1, <2>1 DEF InvOf, FreshInv
  <2>4. PicInv(t)'
    <3>1. job[t].pic \in Pic BY DEF Inv, TypeInv, TypeOK
    <3> QED BY <1>1, <2>1, <3>1 DEF InvOf, PicInv
  <2>5. KnownInv(t)' /\ WantInv(t)' /\ BareInv(t)'
    BY <2>1 DEF InvOf, KnownInv, WantInv, BareInv
  <2>6. NamesInv(t)' BY <2>1 DEF InvOf, NamesInv, HasTag
  <2> QED BY <2>2, <2>3, <2>4, <2>5, <2>6 DEF InvOf
<1> QED BY <1>1, <1>2, <1>3 DEF Inv

\* Pictures come and are hard deleted, and PicTags are changed: none of these brings
\* or takes a tag, nor a picture that some task has locked.
LEMMA OtherSteps ==
  ASSUME Inv, \/ \E p \in Pic : UpsertPic(p) \/ HardDelete(p)
              \/ \E p \in Pic, g \in TagId : UpdatePicTag(p, g)
  PROVE  Inv'
<1>1. /\ UNCHANGED <<tags, usedIds, lock, job>>
      /\ TypeInv' /\ \A p \in Pic : Gone(p)' => Gone(p)
      /\ \A p \in Pic, g \in TagId : picTags'[p][g] # 0 <=> picTags[p][g] # 0
  <2>1. /\ pics \in [Pic -> {"none", "live", "hard", "purged"}]
        /\ picTags \in [Pic -> [TagId -> Nat]]
        /\ \A q \in Pic, h \in TagId : picTags[q][h] \in 0..MaxVersion[q][h]
        /\ TypeInv /\ TypeOK
    BY DEF Inv, TypeInv, TypeOK
  <2>2. ASSUME NEW p \in Pic, UpsertPic(p) \/ HardDelete(p)
        PROVE  /\ UNCHANGED <<tags, picTags, usedIds, lock, job>>
               /\ pics' \in [Pic -> {"none", "live", "hard", "purged"}]
               /\ \A q \in Pic : Gone(q)' => Gone(q)
    BY <2>1, <2>2 DEF UpsertPic, HardDelete, Gone
  <2>3. ASSUME NEW p \in Pic, UpsertPic(p) \/ HardDelete(p)
        PROVE  /\ UNCHANGED <<tags, usedIds, lock, job>>
               /\ TypeInv' /\ \A q \in Pic : Gone(q)' => Gone(q)
               /\ \A q \in Pic, h \in TagId : picTags'[q][h] # 0 <=> picTags[q][h] # 0
    <3>1. TypeInv' BY <2>1, <2>2, <2>3 DEF TypeInv, TypeOK
    <3> QED BY <2>2, <2>3, <3>1
  <2>4. ASSUME NEW p \in Pic, NEW g \in TagId, UpdatePicTag(p, g)
        PROVE  /\ UNCHANGED <<tags, usedIds, lock, job>>
               /\ TypeInv' /\ \A q \in Pic : Gone(q)' => Gone(q)
               /\ \A q \in Pic, h \in TagId : picTags'[q][h] # 0 <=> picTags[q][h] # 0
    <3>1. /\ UNCHANGED <<pics, tags, usedIds, lock, job>>
          /\ picTags' = [picTags EXCEPT ![p][g] = @ + 1]
          /\ picTags[p][g] # 0 /\ picTags[p][g] < MaxVersion[p][g]
      BY <2>4 DEF UpdatePicTag, Attached
    <3>2. /\ picTags' \in [Pic -> [TagId -> Nat]]
          /\ \A q \in Pic, h \in TagId :
               picTags'[q][h] = IF q = p /\ h = g THEN picTags[p][g] + 1 ELSE picTags[q][h]
      BY <2>1, <3>1
    <3>3. MaxVersion[p][g] \in Nat BY BoundAssumption
    <3>4. \A q \in Pic, h \in TagId : picTags'[q][h] \in 0..MaxVersion[q][h]
      BY <2>1, <3>1, <3>2, <3>3
    <3>5. TypeInv' BY <2>1, <3>1, <3>2, <3>4 DEF TypeInv, TypeOK
    <3>6. \A q \in Pic, h \in TagId : picTags'[q][h] # 0 <=> picTags[q][h] # 0
      BY <2>1, <3>1, <3>2
    <3> QED BY <3>1, <3>5, <3>6 DEF Gone
  <2> QED BY <2>3, <2>4
<1> QED BY <1>1, OtherTables
-----------------------------------------------------------------------------
\* Before the first task there is nothing to know.
LEMMA StartTags == Init => Inv
<1> SUFFICES ASSUME Init PROVE Inv OBVIOUS
<1>1. /\ \A g \in TagId : tags[g] = NoTag
      /\ \A p \in Pic, g \in TagId : picTags[p][g] = 0
      /\ \A t \in Task : job[t] = Idle
      /\ usedIds = {}
  BY DEF Init
<1>2. TypeInv
  <2>1. /\ pics \in [Pic -> {"none", "live", "hard", "purged"}]
        /\ tags \in [TagId -> Tag \cup {NoTag}]
        /\ picTags \in [Pic -> [TagId -> Nat]]
        /\ usedIds \subseteq TagId /\ lock \in [Row -> Task \cup {None}]
    BY DEF Init
  <2>2. \A p \in Pic, g \in TagId : picTags[p][g] \in 0..MaxVersion[p][g]
    BY <1>1, BoundAssumption
  <2>3. job \in [Task -> Job] BY IdleJob DEF Init
  <2> QED BY <2>1, <2>2, <2>3 DEF TypeInv, TypeOK, Job
<1>3. Stored = {} /\ \A g \in TagId : PicsOf(g) = {} BY <1>1 DEF Stored, PicsOf
<1>4. \A p \in Pic : Attached(p) = {} BY <1>1 DEF Attached
<1>5. TagsAgree
  BY <1>1, <1>3, <1>4 DEF TagsAgree, CountsMatch, NamesDiffer, PurgedHaveNone
<1>6. ASSUME NEW t \in Task PROVE InvOf(t)
  <2>1. /\ job[t].pc = "idle" /\ job[t].want = None /\ job[t].read = NoRead
        /\ job[t].fresh = NoFresh
    <3>1. /\ Idle.pc = "idle" /\ Idle.want = None /\ Idle.read = NoRead
          /\ Idle.fresh = NoFresh
      BY DEF Idle
    <3> QED BY <1>1, <3>1
  <2>2. ReadInv(t) BY <2>1 DEF ReadInv, NoRead
  <2>3. FreshInv(t) BY <2>1 DEF FreshInv, NoFresh
  <2> QED BY <2>1, <2>2, <2>3
          DEF InvOf, PicInv, KnownInv, WantInv, NamesInv, BareInv, Holding
<1> QED BY <1>2, <1>3, <1>5, <1>6 DEF Inv

\* Every step keeps what is known.
LEMMA NextTags == Inv /\ [Next]_vars => Inv'
<1> SUFFICES ASSUME Inv, [Next]_vars PROVE Inv' OBVIOUS
<1>1. ASSUME NEW t \in Task, Step(t) PROVE Inv'
  <2>1. CASE NotFound(t) \/ OutOfIds(t) \/ Duplicate(t) \/ Deadlock(t)
    BY <2>1, BareSteps
  <2>2. CASE LockPic(t) BY <2>2, LockPicStep
  <2>3. CASE WantTag(t) \/ WantNamed(t) \/ WantName(t) BY <2>3, WantSteps
  <2>4. CASE HaveTags(t) \/ HaveNames(t) \/ HaveInserted(t) BY <2>4, StageSteps
  <2>5. CASE LockTag(t) BY <2>5, LockTagStep
  <2>6. CASE NameUnknown(t) BY <2>6, NameUnknownStep
  <2>7. CASE LockNamed(t) BY <2>7, LockNamedStep
  <2>8. CASE InsertTag(t) BY <2>8, InsertTagStep
  <2>9. CASE CommitAdd(t) BY <2>9, CommitAddStep
  <2>10. CASE CommitPurge(t) BY <2>10, CommitPurgeStep
  <2> QED BY <1>1, <2>1, <2>2, <2>3, <2>4, <2>5, <2>6, <2>7, <2>8, <2>9, <2>10 DEF Step
<1>2. ASSUME NEW t \in Task, NEW q \in Requests, Start(t, q) PROVE Inv'
  BY <1>2, BareSteps
<1>3. CASE UNCHANGED vars
  <2>1. UNCHANGED <<pics, tags, picTags, usedIds, lock, job>> BY <1>3 DEF vars
  <2>2. TypeInv' BY <2>1 DEF Inv, TypeInv, TypeOK
  <2> QED BY <2>1, <2>2, OtherTables DEF Gone
<1> QED BY <1>1, <1>2, <1>3, OtherSteps DEF Next

\* What is known is always known.
LEMMA AlwaysKnown == Spec => []Inv
<1>1. Init => Inv BY StartTags
<1>2. Inv /\ [Next]_vars => Inv' BY NextTags
<1> QED BY <1>1, <1>2, PTL DEF Spec

\* The tables and the tasks are well-formed.
THEOREM TypeCorrect == Spec => []TypeOK
<1>1. Inv => TypeOK BY DEF Inv, TypeInv
<1> QED BY <1>1, AlwaysKnown, PTL

\* The count of a tag is the number of its pictures, names differ and purged pictures
\* have no tags, however many additions and purges overlap (updateExistingTags,
\* createNewTags, PurgePicTask.Run).
THEOREM TagsStayRight == Spec => []TagsAgree
<1>1. Inv => TagsAgree BY DEF Inv
<1> QED BY <1>1, AlwaysKnown, PTL

\* What a task has read is locked by it, and is so still: no update is lost
\* (findAttachedPicTags, findExistingTagsByName).
THEOREM ReadsStayRight == Spec => [](\A t \in Task : ReadInv(t))
<1>1. Inv => \A t \in Task : ReadInv(t) BY DEF Inv, InvOf
<1> QED BY <1>1, AlwaysKnown, PTL

\* The one step that ends a task which is about to commit tags is its commit.
LEMMA OnlyCommit ==
  ASSUME Inv, [Next]_vars, NEW t \in Task, job[t].pc = "commit", job[t].kind = "add",
         job'[t].pc = "idle"
  PROVE  CommitAdd(t)
<1>1. job \in [Task -> Job] /\ job[t].want = None
  BY DEF Inv, TypeInv, TypeOK, Job, InvOf, WantInv
<1>2. ~UNCHANGED job OBVIOUS
<1>3. ASSUME NEW u \in Task, Step(u) PROVE u = t
  <2>1. \E j : job' = [job EXCEPT ![u] = j]
    <3>1. CASE Duplicate(u) \/ Deadlock(u)
      BY <3>1 DEF Duplicate, Deadlock, Again
    <3>2. CASE NotFound(u) \/ OutOfIds(u) \/ CommitAdd(u) \/ CommitPurge(u)
      BY <3>2 DEF NotFound, OutOfIds, CommitAdd, CommitPurge, End
    <3>3. CASE LockPic(u) \/ LockTag(u) \/ LockNamed(u) \/ InsertTag(u)
      BY <1>1, <3>3 DEF LockPic, LockTag, LockNamed, InsertTag
    <3>4. CASE WantTag(u) \/ WantNamed(u) \/ WantName(u) \/ NameUnknown(u)
      BY <1>1, <3>4 DEF WantTag, WantNamed, WantName, NameUnknown
    <3>5. CASE HaveTags(u) \/ HaveNames(u) \/ HaveInserted(u)
      BY <1>1, <3>5 DEF HaveTags, HaveNames, HaveInserted
    <3> QED BY <1>3, <3>1, <3>2, <3>3, <3>4, <3>5 DEF Step
  <2> QED BY <1>1, <2>1
<1>4. ~Deadlock(t)
  <2>1. WaitsFor(t) = {} BY <1>1 DEF WaitsFor, Wanted
  <2> QED BY <2>1 DEF Deadlock, InDeadlock
<1>5. ASSUME NEW u \in Task, NEW q \in Requests, Start(u, q) PROVE FALSE
  <2>1. u # t BY <1>5 DEF Start
  <2> QED BY <1>1, <1>5, <2>1 DEF Start
<1>6. PICK u \in Task : Step(u)
  BY <1>2, <1>5 DEF Next, UpsertPic, HardDelete, UpdatePicTag, vars
<1>7. Step(t) BY <1>3, <1>6
<1> QED BY <1>4, <1>7
        DEF Step, NotFound, LockPic, WantTag, LockTag, HaveTags, NameUnknown, WantNamed,
            LockNamed, HaveNames, WantName, InsertTag, OutOfIds, HaveInserted, Duplicate,
            CommitPurge

\* When it has ended, every name it was asked for is attached to its picture
\* (buildTagIdList).
THEOREM NamesAreAttached == Spec => AllAttached
<1>1. ASSUME Inv, [Next]_vars, NEW t \in Task, job[t].pc = "commit",
             job[t].kind = "add", job'[t].pc = "idle", NEW n \in job[t].names
      PROVE  \E g \in TagId : picTags'[job[t].pic][g] # 0 /\ tags'[g].name = n
  <2>1. CommitAdd(t) /\ InvOf(t) /\ job[t].pic \in Pic /\ n \in Name
    BY <1>1, OnlyCommit DEF Inv, TypeInv, TypeOK
  <2>2. PICK p \in Pic : p = job[t].pic BY <2>1
  <2>3. /\ \A g \in TagId : g \in Found(t) => GotOne(t, p, g)
        /\ \A g \in TagId : g \in Created(t) =>
             /\ IsNew(t, p, g)
             /\ \A m \in Name : job[t].fresh[m] = g => m = tags'[g].name
        /\ \A g \in TagId : g \notin Found(t) \cup Created(t) =>
             PicsOf(g)' = PicsOf(g) /\ tags'[g] = tags[g]
        /\ \A g \in TagId :
             picTags'[p][g] = IF g \in Found(t) \cup Created(t) THEN 1 ELSE picTags[p][g]
    BY <1>1, <2>1, <2>2, AddedTags
  <2>4. HasTag(t, n) BY <1>1, <2>1 DEF InvOf, NamesInv
  <2>5. CASE job[t].fresh[n] # None
    <3>1. job[t].fresh[n] \in Created(t) BY <2>1, <2>5 DEF Created
    <3>2. job[t].fresh[n] \in TagId BY <1>1, <3>1, Known
    <3> QED BY <2>1, <2>2, <2>3, <3>1, <3>2
  <2>6. ASSUME NEW g \in TagId, job[t].read[g] # NoTag, job[t].read[g].name = n
        PROVE  picTags'[p][g] # 0 /\ tags'[g].name = n
    <3>1. g \in Stored /\ tags[g] = job[t].read[g] BY <1>1, <2>6, Known
    <3>2. CASE g \in Found(t) BY <2>3, <2>6, <3>1, <3>2 DEF GotOne
    <3>3. CASE g \notin Found(t)
      <4>1. g \in Attached(p) BY <1>1, <2>2, <2>6, <3>3, Known DEF Found
      <4>2. g \notin Created(t) BY <2>3, <3>1 DEF IsNew
      <4> QED BY <2>3, <2>6, <3>1, <3>3, <4>1, <4>2 DEF Attached
    <3> QED BY <3>2, <3>3
  <2> QED BY <2>2, <2>4, <2>5, <2>6 DEF HasTag
<1>2. Inv /\ [Next]_vars =>
        [\A t \in Task : job[t].pc = "commit" /\ job[t].kind = "add" /\ job'[t].pc = "idle" =>
           \A n \in job[t].names :
             \E g \in TagId : picTags'[job[t].pic][g] # 0 /\ tags'[g].name = n]_vars
  BY <1>1
<1> QED BY <1>2, AlwaysKnown, PTL DEF Spec, AllAttached
=============================================================================
