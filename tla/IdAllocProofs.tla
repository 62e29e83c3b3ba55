---------------------------- MODULE IdAllocProofs ----------------------------
(***************************************************************************)
(* Proofs about IdAlloc, for every set of servers and goroutines and every *)
(* choice of the watermarks.                                               *)
(***************************************************************************)
EXTENDS IdAlloc, SequenceTheorems, TLAPS

-----------------------------------------------------------------------------
(***************************************************************************)
(* The inductive invariant.  The ids below seq are used, cached by one     *)
(* server, given to one open job, or lost; the ids from seq up to newSeq   *)
(* belong to the transaction that has the sequence row.                    *)
(***************************************************************************)
RowInv == /\ seq <= newSeq
          /\ rowLock = None => newSeq = seq

\* alloc.lock is held exactly across reserveIds and its commit.
LockInv == \A t \in Thread : pc[t] \in {"reserve", "commit"} <=> lock[Host[t]] = t

RowHolderInv == \A t \in Thread :
  rowLock = t => pc[t] \in {"commit", "revert", "job", "alloc", "reserveOne"}

RefillInv == \A t \in Thread :
  /\ pc[t] = "reserve" => total[Host[t]] < LowWater
  /\ pc[t] = "commit" => /\ rowLock = t
                         /\ Grab(t) >= 1
                         /\ newSeq = seq + Grab(t)

\* Ids are given to open jobs only ...
HeldOpen == \A t \in Thread :
  pc[t] \notin {"job", "alloc", "reserveOne"} => held[t] = {}

\* ... and are either reserved for good or by the job's own transaction, ...
HeldReserved == \A t \in Thread : \A id \in held[t] :
  id < seq \/ (rowLock = t /\ id < newSeq)

\* ... and nobody else used them or has them.
HeldFree == \A t \in Thread :
  /\ held[t] \cap used = {}
  /\ \A u \in Thread \ {t} : held[t] \cap held[u] = {}

UsedInv == \A id \in used : id < seq

RangesInv == \A s \in Server : \A i \in 1..Len(idrs[s]) :
  idrs[s][i].next + idrs[s][i].available <= seq

IInv == /\ TypeOK /\ RowInv /\ LockInv /\ RowHolderInv /\ RefillInv
        /\ HeldOpen /\ HeldReserved /\ HeldFree /\ UsedInv /\ RangesInv /\ CacheAscends
        /\ CachedIdsAreFree /\ WithinHighWater

-----------------------------------------------------------------------------
(***************************************************************************)
(* Lists of ranges.                                                        *)
(***************************************************************************)
LEMMA RangeType ==
  ASSUME NEW q \in Seq(IdRange), NEW i \in 1..Len(q)
  PROVE  q[i] \in IdRange /\ q[i].next \in 1..MaxId /\ q[i].available \in Nat
<1>1. q[i] \in IdRange
  BY ElementOfSeq
<1> QED
  BY <1>1 DEF IdRange

\* What allocIdJob leaves behind when it takes an id from range i.
LEMMA PoppedShape ==
  ASSUME NEW q \in Seq(IdRange), NEW i \in 1..Len(q), q[i].available > 0,
         q[i].next < MaxId
  PROVE  /\ Popped(q, i) \in Seq(IdRange)
         /\ Len(Popped(q, i)) = Len(q) - i + 1
         /\ Popped(q, i)[1] = [next |-> q[i].next + 1,
                               available |-> q[i].available - 1]
         /\ \A k \in 2..Len(Popped(q, i)) : Popped(q, i)[k] = q[k + i - 1]
<1> DEFINE r == [next |-> q[i].next + 1, available |-> q[i].available - 1]
           p == SubSeq(q, i, Len(q))
<1>1. q[i] \in IdRange
  OBVIOUS
<1>2. r \in IdRange
  BY SMTT(60), <1>1, BoundAssumption DEF IdRange
<1>3. /\ p \in Seq(IdRange) /\ Len(p) = Len(q) - i + 1
      /\ \A k \in 1..Len(p) : p[k] = q[k + i - 1]
  OBVIOUS
<1>4. /\ [p EXCEPT ![1] = r] \in Seq(IdRange)
      /\ Len([p EXCEPT ![1] = r]) = Len(p)
      /\ [p EXCEPT ![1] = r][1] = r
      /\ \A k \in 2..Len(p) : [p EXCEPT ![1] = r][k] = p[k]
  <2> HIDE DEF p, r
  <2>1. 1 \in 1..Len(p)
    BY <1>3
  <2> QED
    BY <1>2, <1>3, <2>1, ExceptSeq
<1> QED
  BY <1>3, <1>4 DEF Popped

\* An id behind the end of a range is above the start of the range.
LEMMA LessThrough ==
  ASSUME NEW a \in Int, NEW n \in Int, NEW b \in Int, NEW c \in Int,
         n > 0, a + n <= b, b <= c
  PROVE  a < c
OBVIOUS

\* Taking an id removes that id from the cache, and no other comes back.
LEMMA PoppedIds ==
  ASSUME NEW q \in Seq(IdRange), NEW i \in 1..Len(q), q[i].available > 0,
         q[i].next < MaxId, Ascending(q)
  PROVE  /\ Ids(Popped(q, i)) \subseteq Ids(q) \ {q[i].next}
         /\ q[i].next \in Ids(q)
         /\ Ascending(Popped(q, i))
         /\ \A k \in 1..Len(Popped(q, i)) : \E j \in 1..Len(q) :
              Popped(q, i)[k].next + Popped(q, i)[k].available
                = q[j].next + q[j].available
<1> DEFINE p == Popped(q, i)
<1>1. /\ p \in Seq(IdRange)
      /\ Len(p) = Len(q) - i + 1
      /\ p[1] = [next |-> q[i].next + 1, available |-> q[i].available - 1]
      /\ \A k \in 2..Len(p) : p[k] = q[k + i - 1]
  BY PoppedShape
<1>2. \A j \in 1..Len(q) : q[j].next \in 1..MaxId /\ q[j].available \in Nat
  BY RangeType
<1>3. q[i].next \in Ids(q)
  BY <1>2, BoundAssumption DEF Ids
<1>4. ASSUME NEW id \in Ids(p)
      PROVE  id \in Ids(q) /\ id # q[i].next
  <2>1. PICK k \in 1..Len(p) : p[k].next <= id /\ id < p[k].next + p[k].available
    BY DEF Ids
  <2> id \in 1..MaxId
    BY DEF Ids
  <2>2. CASE k = 1
    <3>1. q[i].next < id /\ id < q[i].next + q[i].available
      BY SMTT(60), <1>1, <1>2, <2>1, <2>2, BoundAssumption
    <3> QED
      BY <1>2, <3>1, BoundAssumption DEF Ids
  <2>3. CASE k # 1
    <3>1. k + i - 1 \in 1..Len(q) /\ i < k + i - 1 /\ p[k] = q[k + i - 1]
      <4> HIDE DEF p
      <4>1. k \in 2..Len(p)
        BY <1>1, <2>3
      <4> QED
        BY <1>1, <4>1
    <3>2. q[i].next + q[i].available <= q[k + i - 1].next
      BY <3>1 DEF Ascending
    <3>3. q[i].next < id
      <4>1. q[k + i - 1].next <= id
        BY <2>1, <3>1
      <4>2. /\ q[k + i - 1].next \in Int
            /\ q[i].next \in Int /\ q[i].available \in Int /\ id \in Int
        BY SMTT(60), <1>2, <3>1, BoundAssumption
      <4>3. q[i].available > 0
        OBVIOUS
      <4> HIDE DEF p
      <4> QED
        BY <3>2, <4>1, <4>2, <4>3, LessThrough
    <3> QED
      BY SMTT(60), <2>1, <3>1, <3>3 DEF Ids
  <2> QED
    BY <2>2, <2>3
<1>5. ASSUME NEW k \in 1..Len(p), NEW l \in 1..Len(p), k < l
      PROVE  p[k].next + p[k].available <= p[l].next
  <2>1. /\ k + i - 1 \in 1..Len(q) /\ l + i - 1 \in 1..Len(q)
        /\ k + i - 1 < l + i - 1 /\ p[l] = q[l + i - 1]
    <3>1. l \in 2..Len(p)
      BY <1>1, <1>5
    <3>2. p[l] = q[l + i - 1]
      BY <1>1, <3>1
    <3> HIDE DEF p
    <3> QED
      BY <1>1, <1>5, <3>2
  <2>2. q[k + i - 1].next + q[k + i - 1].available <= q[l + i - 1].next
    BY <2>1 DEF Ascending
  <2>3. CASE k = 1
    <3>1. p[1].next + p[1].available = q[i].next + q[i].available
      <4>1. q[i].next \in Int /\ q[i].available \in Int
        BY <1>2, BoundAssumption
      <4>2. p[1].next = q[i].next + 1 /\ p[1].available = q[i].available - 1
        BY <1>1
      <4> HIDE DEF p
      <4> QED
        BY <4>1, <4>2
    <3>2. k + i - 1 = i
      BY <2>3
    <3> HIDE DEF p
    <3> QED
      BY <2>1, <2>2, <2>3, <3>1, <3>2
  <2>4. CASE k # 1
    <3>1. k \in 2..Len(p)
      BY <1>1, <2>4
    <3>2. p[k] = q[k + i - 1]
      BY <1>1, <3>1
    <3> QED
      BY <2>1, <2>2, <3>2
  <2> QED
    BY <2>3, <2>4
<1>6. ASSUME NEW k \in 1..Len(p)
      PROVE  \E j \in 1..Len(q) :
               p[k].next + p[k].available = q[j].next + q[j].available
  <2>1. CASE k = 1
    <3>1. p[1].next + p[1].available = q[i].next + q[i].available
      BY SMTT(60), <1>1, <1>2
    <3> QED
      BY <2>1, <3>1
  <2>2. CASE k # 1
    <3>1. k \in 2..Len(p) /\ k + i - 1 \in 1..Len(q)
      BY <1>1, <2>2
    <3> QED
      BY <1>1, <3>1
  <2> QED
    BY <2>1, <2>2
<1> QED
  BY <1>3, <1>4, <1>5, <1>6 DEF Ascending

\* A refill adds the ids of the new range, behind all the others.
LEMMA AppendedIds ==
  ASSUME NEW q \in Seq(IdRange), NEW r \in IdRange, Ascending(q),
         \A i \in 1..Len(q) : q[i].next + q[i].available <= r.next
  PROVE  /\ Append(q, r) \in Seq(IdRange)
         /\ Ids(Append(q, r)) \subseteq
              Ids(q) \cup {id \in 1..MaxId : r.next <= id /\ id < r.next + r.available}
         /\ Ascending(Append(q, r))
<1> DEFINE p == Append(q, r)
<1>1. /\ p \in Seq(IdRange) /\ Len(p) = Len(q) + 1 /\ p[Len(q) + 1] = r
      /\ \A k \in 1..Len(q) : p[k] = q[k]
  OBVIOUS
<1>2. ASSUME NEW id \in Ids(p), id \notin Ids(q)
      PROVE  r.next <= id /\ id < r.next + r.available
  <2>1. PICK k \in 1..Len(p) : p[k].next <= id /\ id < p[k].next + p[k].available
    BY DEF Ids
  <2>2. k \notin 1..Len(q)
    BY <1>1, <1>2, <2>1 DEF Ids
  <2> QED
    BY <1>1, <2>1, <2>2
<1>3. ASSUME NEW k \in 1..Len(p), NEW l \in 1..Len(p), k < l
      PROVE  p[k].next + p[k].available <= p[l].next
  <2>1. k \in 1..Len(q) /\ p[k] = q[k]
    BY <1>1, <1>3
  <2>2. CASE l = Len(q) + 1
    BY <1>1, <2>1, <2>2
  <2>3. CASE l # Len(q) + 1
    BY <1>1, <1>3, <2>1, <2>3 DEF Ascending
  <2> QED
    BY <2>2, <2>3
<1> QED
  BY <1>1, <1>2, <1>3 DEF Ascending, Ids

\* Whatever is cached has been reserved for good.
LEMMA CachedBelow ==
  ASSUME TypeOK, RangesInv, NEW s \in Server, NEW id \in Ids(idrs[s])
  PROVE  id \in 1..MaxId /\ id < seq
<1>1. PICK i \in 1..Len(idrs[s]) :
        id < idrs[s][i].next + idrs[s][i].available
  BY DEF Ids
<1>2. /\ idrs[s][i].next + idrs[s][i].available <= seq
      /\ idrs[s][i].next \in Nat /\ idrs[s][i].available \in Nat
  BY RangeType, BoundAssumption DEF RangesInv, TypeOK
<1>3. id \in 1..MaxId
  BY DEF Ids
<1> QED
  BY <1>1, <1>2, <1>3, BoundAssumption DEF TypeOK

-----------------------------------------------------------------------------
(***************************************************************************)
(* Every step keeps the invariant: one lemma per action, or per group of   *)
(* actions that change the same variables.                                 *)
(***************************************************************************)

\* Steps that change pc only.
LEMMA QuietStep ==
  ASSUME IInv, NEW t \in Thread, NewJob(t) \/ CheckCache(t) \/ BeginJob(t) \/
       BeginFails(t) \/ AllocId(t) \/ AllocMiss(t)
  PROVE  IInv'
<1> USE HostAssumption, WatermarkAssumption, BoundAssumption, NoneAssumption
     DEF IInv
<1>11. TypeOK'
  BY DEF TypeOK, PC, NewJob, CheckCache, BeginJob, BeginFails, AllocId,
       AllocMiss, Goto, row, cache
<1>12. RowInv'
  BY DEF RowInv, TypeOK, NewJob, CheckCache, BeginJob, BeginFails, AllocId,
       AllocMiss, Goto, row, cache
<1>13. LockInv'
  BY DEF LockInv, TypeOK, NewJob, CheckCache, BeginJob, BeginFails, AllocId,
       AllocMiss, Goto, row, cache
<1>14. RowHolderInv'
  BY DEF RowHolderInv, TypeOK, NewJob, CheckCache, BeginJob, BeginFails,
       AllocId, AllocMiss, Goto, row, cache
<1>15. RefillInv'
  BY DEF RefillInv, LockInv, TypeOK, Grab, NewJob, CheckCache, BeginJob,
       BeginFails, AllocId, AllocMiss, Goto, row, cache
<1>16. HeldOpen'
  BY DEF HeldOpen, TypeOK, NewJob, CheckCache, BeginJob, BeginFails, AllocId,
       AllocMiss, Goto, row, cache
<1>17. HeldReserved'
  BY DEF HeldReserved, RowInv, TypeOK, NewJob, CheckCache, BeginJob,
       BeginFails, AllocId, AllocMiss, Goto, row, cache
<1>18. HeldFree'
  BY DEF HeldFree, TypeOK, NewJob, CheckCache, BeginJob, BeginFails, AllocId,
       AllocMiss, Goto, row, cache
<1>19. UsedInv'
  BY DEF UsedInv, NewJob, CheckCache, BeginJob, BeginFails, AllocId,
       AllocMiss, Goto, row
<1>20. RangesInv'
  BY DEF RangesInv, NewJob, CheckCache, BeginJob, BeginFails, AllocId,
       AllocMiss, Goto, row, cache
<1>21. CacheAscends'
  BY DEF CacheAscends, NewJob, CheckCache, BeginJob, BeginFails, AllocId,
       AllocMiss, Goto, row, cache
<1>22. CachedIdsAreFree'
  BY DEF CachedIdsAreFree, NewJob, CheckCache, BeginJob, BeginFails, AllocId,
       AllocMiss, Goto, row, cache
<1>23. WithinHighWater'
  BY DEF WithinHighWater, NewJob, CheckCache, BeginJob, BeginFails, AllocId,
       AllocMiss, Goto, row, cache
<1> QED
  BY <1>11, <1>12, <1>13, <1>14, <1>15, <1>16, <1>17, <1>18, <1>19, <1>20,
       <1>21, <1>22, <1>23

\* The second look at the cache, which takes alloc.lock when a refill is due.
LEMMA RecheckStep ==
  ASSUME IInv, NEW t \in Thread, Recheck(t)
  PROVE  IInv'
<1> USE HostAssumption, WatermarkAssumption, BoundAssumption, NoneAssumption
     DEF IInv
<1>11. TypeOK'
  BY DEF TypeOK, PC, Recheck, Unlocked, Goto, row, cache
<1>12. RowInv'
  BY DEF RowInv, TypeOK, Recheck, Unlocked, Goto, row, cache
<1>13. LockInv'
  BY DEF LockInv, TypeOK, Recheck, Unlocked, Goto, row, cache
<1>14. RowHolderInv'
  BY DEF RowHolderInv, TypeOK, Recheck, Unlocked, Goto, row, cache
<1>15. RefillInv'
  BY DEF RefillInv, LockInv, TypeOK, Grab, Recheck, Unlocked, Goto, row, cache
<1>16. HeldOpen'
  BY DEF HeldOpen, TypeOK, Recheck, Unlocked, Goto, row, cache
<1>17. HeldReserved'
  BY DEF HeldReserved, RowInv, TypeOK, Recheck, Unlocked, Goto, row, cache
<1>18. HeldFree'
  BY DEF HeldFree, TypeOK, Recheck, Unlocked, Goto, row, cache
<1>19. UsedInv'
  BY DEF UsedInv, RowInv, TypeOK, Recheck, Unlocked, Goto, row, cache
<1>20. RangesInv'
  BY DEF RangesInv, Recheck, Unlocked, Goto, row, cache
<1>21. CacheAscends'
  BY DEF CacheAscends, Recheck, Unlocked, Goto, row, cache
<1>22. CachedIdsAreFree'
  BY DEF CachedIdsAreFree, Recheck, Unlocked, Goto, row, cache
<1>23. WithinHighWater'
  BY DEF WithinHighWater, Recheck, Unlocked, Goto, row, cache
<1> QED
  BY <1>11, <1>12, <1>13, <1>14, <1>15, <1>16, <1>17, <1>18, <1>19, <1>20,
       <1>21, <1>22, <1>23

\* The UPDATE of a refill: its range is nobody else's from here on.
LEMMA ReserveStep ==
  ASSUME IInv, NEW t \in Thread, Reserve(t)
  PROVE  IInv'
<1> USE HostAssumption, WatermarkAssumption, BoundAssumption, NoneAssumption
     DEF IInv
<1>1. /\ Host[t] \in Server /\ seq \in 1..MaxId
      /\ Grab(t) \in 1..MaxId /\ seq + Grab(t) \in 1..MaxId
  <2>1. Host[t] \in Server /\ total[Host[t]] \in Nat /\ seq \in 1..MaxId
    BY DEF TypeOK
  <2>2. Grab(t) \in Int
    BY <2>1 DEF Grab
  <2>3. Grab(t) >= 1 /\ Grab(t) <= MaxId - seq
    BY DEF Reserve, CanGrab
  <2> QED
    BY <2>1, <2>2, <2>3
<1>11. TypeOK'
  BY <1>1 DEF TypeOK, PC, Reserve, Goto, cache
<1>12. RowInv'
  BY <1>1 DEF RowInv, Reserve
<1>13. LockInv'
  BY DEF LockInv, TypeOK, Reserve, RowFree, Goto, cache
<1>14. RowHolderInv'
  BY DEF RowHolderInv, TypeOK, Reserve, RowFree, Goto, cache
<1>15. RefillInv'
  <2> SUFFICES ASSUME NEW u \in Thread, pc'[u] \in {"reserve", "commit"}
               PROVE  /\ pc'[u] = "reserve" => total'[Host[u]] < LowWater
                      /\ pc'[u] = "commit" =>
                           /\ rowLock' = u /\ Grab(u)' >= 1
                           /\ newSeq' = seq' + Grab(u)'
    BY DEF RefillInv
  <2>1. /\ rowLock' = t /\ newSeq' = seq + Grab(t) /\ seq' = seq
        /\ total' = total /\ pc' = [pc EXCEPT ![t] = "commit"]
        /\ rowLock \in {None, t} /\ pc[t] = "reserve"
    BY DEF Reserve, RowFree, Goto, cache
  <2>2. Grab(u)' = Grab(u)
    BY <2>1 DEF Grab
  <2>3. CASE u = t
    BY <1>1, <2>1, <2>2, <2>3 DEF TypeOK
  <2>4. CASE u # t
    BY <2>1, <2>4 DEF RefillInv, TypeOK
  <2> QED
    BY <2>3, <2>4
<1>16. HeldOpen'
  BY DEF HeldOpen, TypeOK, Reserve, RowFree, Goto, cache
<1>17. HeldReserved'
  BY DEF HeldReserved, RowInv, TypeOK, HeldOpen, RowHolderInv, Reserve,
       RowFree, Goto, cache
<1>18. HeldFree'
  BY DEF HeldFree, TypeOK, Reserve, RowFree, Goto, cache
<1>19. UsedInv'
  BY DEF UsedInv, RowInv, TypeOK, Reserve, RowFree, Goto, cache
<1>20. RangesInv'
  BY DEF RangesInv, Reserve, RowFree, Goto, cache
<1>21. CacheAscends'
  BY DEF CacheAscends, Reserve, RowFree, Goto, cache
<1>22. CachedIdsAreFree'
  BY DEF CachedIdsAreFree, Reserve, RowFree, Goto, cache
<1>23. WithinHighWater'
  BY DEF WithinHighWater, Reserve, RowFree, Goto, cache
<1> QED
  BY <1>11, <1>12, <1>13, <1>14, <1>15, <1>16, <1>17, <1>18, <1>19, <1>20,
       <1>21, <1>22, <1>23

\* A refill commits, and its range joins the cache behind the older ones.
LEMMA CommitRefillStep ==
  ASSUME IInv, NEW t \in Thread, CommitRefill(t)
  PROVE  IInv'
<1> USE HostAssumption, WatermarkAssumption, BoundAssumption, NoneAssumption
     DEF IInv
<1> DEFINE s == Host[t]
           r == [next |-> seq, available |-> Grab(t)]
<1>1. /\ s \in Server /\ pc[t] = "commit" /\ rowLock = t /\ held[t] = {}
      /\ Grab(t) \in Int /\ Grab(t) >= 1 /\ newSeq = seq + Grab(t)
      /\ seq \in 1..MaxId /\ newSeq \in 1..MaxId
  <2>1. Host[t] \in Server /\ total[Host[t]] \in Nat /\ pc[t] = "commit"
    BY DEF TypeOK, CommitRefill
  <2>2. Grab(t) \in Int
    BY <2>1 DEF Grab
  <2> QED
    BY <2>1, <2>2 DEF TypeOK, RefillInv, HeldOpen
<1>2. /\ seq' = newSeq /\ newSeq' = newSeq /\ rowLock' = None
      /\ idrs' = [idrs EXCEPT ![s] = Append(@, r)]
      /\ total' = [total EXCEPT ![s] = @ + Grab(t)]
      /\ lock' = [lock EXCEPT ![s] = None]
      /\ pc' = [pc EXCEPT ![t] = "begin"]
      /\ held' = held /\ used' = used
  BY DEF CommitRefill, SetRow, Goto
<1>3. idrs[s] \in Seq(IdRange) /\ r \in IdRange
  <2>1. Grab(t) \in Nat
    BY <1>1
  <2> QED
    BY <1>1, <2>1 DEF TypeOK, IdRange
<1>4. \A i \in 1..Len(idrs[s]) : idrs[s][i].next + idrs[s][i].available <= r.next
  BY <1>1 DEF RangesInv
<1>5. /\ Append(idrs[s], r) \in Seq(IdRange)
      /\ Ids(Append(idrs[s], r)) \subseteq
           Ids(idrs[s]) \cup {id \in 1..MaxId : r.next <= id /\ id < r.next + r.available}
      /\ Ascending(Append(idrs[s], r))
  BY <1>1, <1>3, <1>4, AppendedIds DEF CacheAscends
<1>6. idrs'[s] = Append(idrs[s], r) /\ \A z \in Server \ {s} : idrs'[z] = idrs[z]
  BY <1>1, <1>2 DEF TypeOK
<1> HIDE DEF r
<1>7. ASSUME NEW z \in Server, NEW id \in Ids(idrs'[z])
      PROVE  id \in Ids(idrs[z]) \/ (z = s /\ id >= seq)
  BY <1>1, <1>5, <1>6 DEF r
<1>8. ASSUME NEW z \in Server, NEW id \in Ids(idrs[z]) PROVE id < seq
  BY CachedBelow
<1>11. TypeOK'
  <2>1. total[s] + Grab(t) \in Nat
    BY <1>1 DEF TypeOK
  <2> QED
    BY <1>1, <1>2, <1>5, <2>1 DEF TypeOK, PC
<1>12. RowInv'
  BY <1>1, <1>2 DEF RowInv
<1>13. LockInv'
  BY <1>1, <1>2 DEF LockInv, TypeOK
<1>14. RowHolderInv'
  BY <1>2 DEF RowHolderInv, TypeOK
<1>15. RefillInv'
  <2> SUFFICES ASSUME NEW u \in Thread, pc'[u] \in {"reserve", "commit"}
               PROVE  pc'[u] = "reserve" /\ total'[Host[u]] < LowWater
    BY DEF RefillInv
  <2>1. u # t /\ pc[u] = pc'[u]
    BY <1>2 DEF TypeOK
  <2>2. pc[u] = "reserve"
    BY <1>1, <2>1 DEF RefillInv
  <2>3. Host[u] # s
    BY <1>1, <2>1, <2>2 DEF LockInv
  <2> QED
    BY <1>1, <1>2, <2>1, <2>2, <2>3 DEF RefillInv, TypeOK
<1>16. HeldOpen'
  BY <1>1, <1>2 DEF HeldOpen, TypeOK
<1>17. HeldReserved'
  BY <1>1, <1>2 DEF HeldReserved, TypeOK
<1>18. HeldFree'
  BY <1>2 DEF HeldFree
<1>19. UsedInv'
  BY <1>1, <1>2 DEF UsedInv, TypeOK
<1>20. RangesInv'
  <2> SUFFICES ASSUME NEW z \in Server, NEW i \in 1..Len(idrs'[z])
               PROVE  idrs'[z][i].next + idrs'[z][i].available <= newSeq
    BY <1>2 DEF RangesInv
  <2>1. CASE z # s \/ i \in 1..Len(idrs[s])
    <3>1. i \in 1..Len(idrs[z]) /\ idrs'[z][i] = idrs[z][i]
      BY SMTT(60), <1>3, <1>6, <2>1
    <3>2. idrs[z][i].next \in 1..MaxId /\ idrs[z][i].available \in Nat
      BY <3>1, RangeType DEF TypeOK
    <3> QED
      BY SMTT(60), <1>1, <3>1, <3>2 DEF RangesInv
  <2>2. CASE z = s /\ i = Len(idrs[s]) + 1
    BY <1>1, <1>3, <1>6, <2>2 DEF r
  <2> QED
    BY <1>3, <1>6, <2>1, <2>2
<1>21. CacheAscends'
  BY <1>5, <1>6 DEF CacheAscends
<1>22. CachedIdsAreFree'
  <2>1. ASSUME NEW z \in Server, NEW w \in Server \ {z},
               NEW id \in Ids(idrs'[z]), id \in Ids(idrs'[w])
        PROVE  FALSE
    <3>1. id \in Ids(idrs[z]) \/ (z = s /\ id >= seq)
      BY <1>7
    <3>2. id \in Ids(idrs[w]) \/ (w = s /\ id >= seq)
      BY <1>7, <2>1
    <3>3. id \in 1..MaxId
      BY DEF Ids
    <3> QED
      BY <1>1, <1>8, <3>1, <3>2, <3>3 DEF CachedIdsAreFree
  <2>2. ASSUME NEW z \in Server, NEW u \in Thread,
               NEW id \in Ids(idrs'[z]), id \in held[u]
        PROVE  FALSE
    <3>1. id \in Ids(idrs[z]) \/ id >= seq
      BY <1>7
    <3>2. id \in 1..MaxId /\ id < seq
      BY <1>1, <2>2 DEF HeldReserved, TypeOK
    <3> QED
      BY <1>1, <2>2, <3>1, <3>2 DEF CachedIdsAreFree
  <2>3. ASSUME NEW z \in Server, NEW id \in Ids(idrs'[z]), id \in used
        PROVE  FALSE
    <3>1. id \in Ids(idrs[z]) \/ id >= seq
      BY <1>7
    <3>2. id \in 1..MaxId /\ id < seq
      BY <2>3 DEF UsedInv, TypeOK
    <3> QED
      BY <1>1, <2>3, <3>1, <3>2 DEF CachedIdsAreFree
  <2> QED
    BY <1>2, <2>1, <2>2, <2>3 DEF CachedIdsAreFree
<1>23. WithinHighWater'
  <2>1. total[s] + Grab(t) = HighWater
    BY <1>1 DEF Grab, TypeOK
  <2> QED
    BY <1>1, <1>2, <2>1 DEF WithinHighWater, TypeOK
<1> QED
  BY <1>11, <1>12, <1>13, <1>14, <1>15, <1>16, <1>17, <1>18, <1>19, <1>20,
       <1>21, <1>22, <1>23

\* A refill fails before its UPDATE and gives alloc.lock up.
LEMMA ReserveFailsStep ==
  ASSUME IInv, NEW t \in Thread, ReserveFails(t)
  PROVE  IInv'
<1> USE HostAssumption, WatermarkAssumption, BoundAssumption, NoneAssumption
     DEF IInv
<1>11. TypeOK'
  BY DEF TypeOK, PC, ReserveFails, RowFree, Goto, cache
<1>12. RowInv'
  BY DEF RowInv, TypeOK, RowHolderInv, ReserveFails, RowFree, Goto, cache
<1>13. LockInv'
  BY DEF LockInv, TypeOK, ReserveFails, RowFree, Goto, cache
<1>14. RowHolderInv'
  BY DEF RowHolderInv, TypeOK, ReserveFails, RowFree, Goto, cache
<1>15. RefillInv'
  BY DEF RefillInv, LockInv, TypeOK, Grab, ReserveFails, RowFree, Goto, cache
<1>16. HeldOpen'
  BY DEF HeldOpen, TypeOK, ReserveFails, RowFree, Goto, cache
<1>17. HeldReserved'
  BY DEF HeldReserved, RowInv, TypeOK, HeldOpen, RowHolderInv, ReserveFails,
       RowFree, Goto, cache
<1>18. HeldFree'
  BY DEF HeldFree, TypeOK, ReserveFails, RowFree, Goto, cache
<1>19. UsedInv'
  BY DEF UsedInv, RowInv, TypeOK, ReserveFails, RowFree, Goto, cache
<1>20. RangesInv'
  BY DEF RangesInv, ReserveFails, RowFree, Goto, cache
<1>21. CacheAscends'
  BY DEF CacheAscends, ReserveFails, RowFree, Goto, cache
<1>22. CachedIdsAreFree'
  BY DEF CachedIdsAreFree, ReserveFails, RowFree, Goto, cache
<1>23. WithinHighWater'
  BY DEF WithinHighWater, ReserveFails, RowFree, Goto, cache
<1> QED
  BY <1>11, <1>12, <1>13, <1>14, <1>15, <1>16, <1>17, <1>18, <1>19, <1>20,
       <1>21, <1>22, <1>23

\* A refill whose commit reports an error loses its range at worst.
LEMMA CommitRefillFailsStep ==
  ASSUME IInv, NEW t \in Thread, CommitRefillFails(t)
  PROVE  IInv'
<1> USE HostAssumption, WatermarkAssumption, BoundAssumption, NoneAssumption
     DEF IInv
<1>1. /\ rowLock = t /\ held[t] = {}
      /\ lock[Host[t]] = t /\ Host[t] \in Server
      /\ seq <= newSeq /\ seq \in 1..MaxId /\ newSeq \in 1..MaxId
  BY DEF TypeOK, RefillInv, LockInv, RowInv, HeldOpen, CommitRefillFails
<1>2. /\ seq' \in {seq, newSeq} /\ newSeq' = seq' /\ rowLock' = None
      /\ lock' = [lock EXCEPT ![Host[t]] = None]
      /\ pc' = [pc EXCEPT ![t] = "revert"]
      /\ UNCHANGED <<idrs, total, held, used>>
  BY DEF CommitRefillFails, SetRow, Goto, cache
<1>11. TypeOK'
  BY <1>1, <1>2 DEF TypeOK, PC
<1>12. RowInv'
  BY <1>1, <1>2 DEF RowInv
<1>13. LockInv'
  BY <1>1, <1>2 DEF LockInv, TypeOK
<1>14. RowHolderInv'
  BY <1>2 DEF RowHolderInv, TypeOK
<1>15. RefillInv'
  BY <1>1, <1>2 DEF RefillInv, TypeOK
<1>16. HeldOpen'
  BY <1>1, <1>2 DEF HeldOpen, TypeOK
<1>17. HeldReserved'
  <2> SUFFICES ASSUME NEW u \in Thread, NEW id \in held[u]
               PROVE  id < seq'
    BY <1>2 DEF HeldReserved
  <2>1. u # t /\ id < seq /\ id \in 1..MaxId
    BY <1>1 DEF HeldReserved, TypeOK
  <2> QED
    BY <1>1, <1>2, <2>1
<1>18. HeldFree'
  BY <1>2 DEF HeldFree
<1>19. UsedInv'
  BY <1>1, <1>2 DEF UsedInv, TypeOK
<1>20. RangesInv'
  <2> SUFFICES ASSUME NEW z \in Server, NEW i \in 1..Len(idrs[z])
               PROVE  idrs[z][i].next + idrs[z][i].available <= seq'
    BY <1>2 DEF RangesInv
  <2>1. idrs[z][i].next \in 1..MaxId /\ idrs[z][i].available \in Nat
    BY RangeType DEF TypeOK
  <2> QED
    BY SMTT(60), <1>1, <1>2, <2>1 DEF RangesInv
<1>21. CacheAscends'
  BY <1>2 DEF CacheAscends
<1>22. CachedIdsAreFree'
  BY <1>2 DEF CachedIdsAreFree
<1>23. WithinHighWater'
  BY <1>2 DEF WithinHighWater
<1> QED
  BY <1>11, <1>12, <1>13, <1>14, <1>15, <1>16, <1>17, <1>18, <1>19, <1>20,
       <1>21, <1>22, <1>23

\* The rollback of a refill that failed.
LEMMA RevertStep ==
  ASSUME IInv, NEW t \in Thread, Revert(t)
  PROVE  IInv'
<1> USE HostAssumption, WatermarkAssumption, BoundAssumption, NoneAssumption
     DEF IInv
<1>11. TypeOK'
  BY DEF TypeOK, PC, Revert, Rollback, SetRow, Goto, row, cache
<1>12. RowInv'
  BY DEF RowInv, TypeOK, RowHolderInv, Revert, Rollback, SetRow, Goto, row,
       cache
<1>13. LockInv'
  BY DEF LockInv, TypeOK, Revert, Rollback, SetRow, Goto, row, cache
<1>14. RowHolderInv'
  BY DEF RowHolderInv, TypeOK, RowInv, Revert, Rollback, SetRow, Goto, row,
       cache
<1>15. RefillInv'
  BY DEF RefillInv, LockInv, TypeOK, Grab, Revert, Rollback, SetRow, Goto,
       row, cache
<1>16. HeldOpen'
  BY DEF HeldOpen, TypeOK, Revert, Rollback, SetRow, Goto, row, cache
<1>17. HeldReserved'
  <2>1. pc[t] = "revert" /\ held[t] = {} /\ held' = held
    BY DEF Revert, HeldOpen
  <2>2. /\ seq' = seq
        /\ \A u \in Thread \ {t} :
             rowLock = u => rowLock' = rowLock /\ newSeq' = newSeq
    BY DEF Revert, Rollback, SetRow, row
  <2> QED
    BY <2>1, <2>2 DEF HeldReserved
<1>18. HeldFree'
  BY DEF HeldFree, TypeOK, Revert, Rollback, SetRow, Goto, row, cache
<1>19. UsedInv'
  BY DEF UsedInv, RowInv, TypeOK, Revert, Rollback, SetRow, Goto, row, cache
<1>20. RangesInv'
  BY DEF RangesInv, Revert, Rollback, SetRow, Goto, row, cache
<1>21. CacheAscends'
  BY DEF CacheAscends, Revert, Rollback, SetRow, Goto, row, cache
<1>22. CachedIdsAreFree'
  BY DEF CachedIdsAreFree, Revert, Rollback, SetRow, Goto, row, cache
<1>23. WithinHighWater'
  BY DEF WithinHighWater, Revert, Rollback, SetRow, Goto, row, cache
<1> QED
  BY <1>11, <1>12, <1>13, <1>14, <1>15, <1>16, <1>17, <1>18, <1>19, <1>20,
       <1>21, <1>22, <1>23

\* A refill that waited for the row too long.
LEMMA ReserveTimesOutStep ==
  ASSUME IInv, NEW t \in Thread, ReserveTimesOut(t)
  PROVE  IInv'
<1> USE HostAssumption, WatermarkAssumption, BoundAssumption, NoneAssumption
     DEF IInv
<1>11. TypeOK'
  BY DEF TypeOK, PC, ReserveTimesOut, Goto, row, cache
<1>12. RowInv'
  BY DEF RowInv, TypeOK, ReserveTimesOut, Goto, row, cache
<1>13. LockInv'
  BY DEF LockInv, TypeOK, ReserveTimesOut, Goto, row, cache
<1>14. RowHolderInv'
  BY DEF RowHolderInv, TypeOK, ReserveTimesOut, Goto, row, cache
<1>15. RefillInv'
  BY DEF RefillInv, LockInv, TypeOK, Grab, ReserveTimesOut, Goto, row, cache
<1>16. HeldOpen'
  BY DEF HeldOpen, TypeOK, ReserveTimesOut, Goto, row, cache
<1>17. HeldReserved'
  BY DEF HeldReserved, RowInv, TypeOK, ReserveTimesOut, Goto, row, cache
<1>18. HeldFree'
  BY DEF HeldFree, TypeOK, ReserveTimesOut, Goto, row, cache
<1>19. UsedInv'
  BY DEF UsedInv, RowInv, TypeOK, ReserveTimesOut, Goto, row, cache
<1>20. RangesInv'
  BY DEF RangesInv, ReserveTimesOut, Goto, row, cache
<1>21. CacheAscends'
  BY DEF CacheAscends, ReserveTimesOut, Goto, row, cache
<1>22. CachedIdsAreFree'
  BY DEF CachedIdsAreFree, ReserveTimesOut, Goto, row, cache
<1>23. WithinHighWater'
  BY DEF WithinHighWater, ReserveTimesOut, Goto, row, cache
<1> QED
  BY <1>11, <1>12, <1>13, <1>14, <1>15, <1>16, <1>17, <1>18, <1>19, <1>20,
       <1>21, <1>22, <1>23

\* An id moves from the cache to the job that asked for it.
LEMMA AllocCachedStep ==
  ASSUME IInv, NEW t \in Thread, AllocCached(t)
  PROVE  IInv'
<1> USE HostAssumption, WatermarkAssumption, BoundAssumption, NoneAssumption
     DEF IInv
<1> DEFINE s == Host[t]
<1>1. PICK i \in 1..Len(idrs[s]) :
        /\ First(idrs[s], i)
        /\ held' = [held EXCEPT ![t] = @ \cup {idrs[s][i].next}]
        /\ idrs' = [idrs EXCEPT ![s] = Popped(idrs[s], i)]
  BY DEF AllocCached
<1> DEFINE x == idrs[s][i].next
<1>2. /\ s \in Server /\ pc[t] = "alloc" /\ lock[s] = None
      /\ total[s] \in Nat /\ total[s] > 0
      /\ total' = [total EXCEPT ![s] = @ - 1]
      /\ pc' = [pc EXCEPT ![t] = "job"]
      /\ UNCHANGED <<seq, rowLock, newSeq, lock, used>>
  BY DEF AllocCached, Unlocked, Goto, row, TypeOK
<1>3. /\ idrs[s] \in Seq(IdRange) /\ idrs[s][i].available > 0
      /\ seq \in 1..MaxId /\ x \in 1..MaxId /\ x < seq
  <2>1. idrs[s] \in Seq(IdRange) /\ seq \in 1..MaxId
    BY <1>2 DEF TypeOK
  <2>2. x \in 1..MaxId /\ idrs[s][i].available \in Nat
    BY <2>1, RangeType
  <2>3. idrs[s][i].available > 0 /\ x + idrs[s][i].available <= seq
    BY <1>1, <1>2 DEF First, RangesInv
  <2> QED
    BY <2>1, <2>2, <2>3
<1>4. /\ Popped(idrs[s], i) \in Seq(IdRange)
      /\ Ids(Popped(idrs[s], i)) \subseteq Ids(idrs[s]) \ {x}
      /\ x \in Ids(idrs[s])
      /\ Ascending(Popped(idrs[s], i))
      /\ \A k \in 1..Len(Popped(idrs[s], i)) : \E j \in 1..Len(idrs[s]) :
           Popped(idrs[s], i)[k].next + Popped(idrs[s], i)[k].available
             = idrs[s][j].next + idrs[s][j].available
  <2>1. Ascending(idrs[s]) /\ x < MaxId
    BY <1>2, <1>3 DEF CacheAscends
  <2>2. Popped(idrs[s], i) \in Seq(IdRange)
    BY <1>3, <2>1, PoppedShape
  <2> QED
    BY <1>3, <2>1, <2>2, PoppedIds
<1>5. /\ idrs'[s] = Popped(idrs[s], i)
      /\ \A z \in Server \ {s} : idrs'[z] = idrs[z]
      /\ held'[t] = held[t] \cup {x}
      /\ \A u \in Thread \ {t} : held'[u] = held[u]
  BY <1>1, <1>2 DEF TypeOK
<1> HIDE DEF x
<1>6. /\ \A z \in Server : Ids(idrs'[z]) \subseteq Ids(idrs[z])
      /\ \A z \in Server : x \notin Ids(idrs'[z])
  <2>1. ASSUME NEW z \in Server
        PROVE  Ids(idrs'[z]) \subseteq Ids(idrs[z]) /\ x \notin Ids(idrs'[z])
    <3>1. CASE z = s
      BY <1>4, <1>5, <3>1
    <3>2. CASE z # s
      BY <1>2, <1>4, <1>5, <3>2 DEF CachedIdsAreFree
    <3> QED
      BY <3>1, <3>2
  <2> QED
    BY <2>1
<1>7. x \notin used /\ \A u \in Thread : x \notin held[u]
  BY <1>2, <1>4 DEF CachedIdsAreFree
<1>11. TypeOK'
  BY SMTT(60), <1>1, <1>2, <1>3, <1>4 DEF TypeOK, PC, x
<1>12. RowInv'
  BY <1>2 DEF RowInv
<1>13. LockInv'
  BY <1>2 DEF LockInv, TypeOK
<1>14. RowHolderInv'
  BY <1>2 DEF RowHolderInv, TypeOK
<1>15. RefillInv'
  <2> SUFFICES ASSUME NEW u \in Thread, pc'[u] \in {"reserve", "commit"}
               PROVE  /\ pc[u] = pc'[u] /\ Host[u] # s
                      /\ total'[Host[u]] = total[Host[u]]
    BY <1>2 DEF RefillInv, Grab
  <2>1. pc[u] = pc'[u]
    BY <1>2 DEF TypeOK
  <2>2. Host[u] # s
    BY <1>2, <2>1 DEF LockInv
  <2> QED
    BY <1>2, <2>1, <2>2 DEF TypeOK
<1>16. HeldOpen'
  BY <1>2, <1>5 DEF HeldOpen, TypeOK
<1>17. HeldReserved'
  BY <1>2, <1>3, <1>5 DEF HeldReserved
<1>18. HeldFree'
  BY <1>2, <1>5, <1>7 DEF HeldFree
<1>19. UsedInv'
  BY <1>2 DEF UsedInv
<1>20. RangesInv'
  <2> SUFFICES ASSUME NEW z \in Server, NEW k \in 1..Len(idrs'[z])
               PROVE  idrs'[z][k].next + idrs'[z][k].available <= seq
    BY <1>2 DEF RangesInv
  <2>1. CASE z = s
    BY SMTT(60), <1>2, <1>4, <1>5, <2>1 DEF RangesInv
  <2>2. CASE z # s
    BY <1>5, <2>2 DEF RangesInv
  <2> QED
    BY <2>1, <2>2
<1>21. CacheAscends'
  BY <1>4, <1>5 DEF CacheAscends
<1>22. CachedIdsAreFree'
  <2> SUFFICES ASSUME NEW z \in Server
               PROVE  /\ \A w \in Server \ {z} : Ids(idrs'[z]) \cap Ids(idrs'[w]) = {}
                      /\ \A u \in Thread : Ids(idrs'[z]) \cap held'[u] = {}
                      /\ Ids(idrs'[z]) \cap used' = {}
    BY DEF CachedIdsAreFree
  <2>1. \A w \in Server \ {z} : Ids(idrs'[z]) \cap Ids(idrs'[w]) = {}
    BY <1>6 DEF CachedIdsAreFree
  <2>2. \A u \in Thread : Ids(idrs'[z]) \cap held'[u] = {}
    BY <1>5, <1>6 DEF CachedIdsAreFree
  <2>3. Ids(idrs'[z]) \cap used' = {}
    BY <1>2, <1>6 DEF CachedIdsAreFree
  <2> QED
    BY <2>1, <2>2, <2>3
<1>23. WithinHighWater'
  BY <1>2 DEF WithinHighWater, TypeOK
<1> QED
  BY <1>11, <1>12, <1>13, <1>14, <1>15, <1>16, <1>17, <1>18, <1>19, <1>20,
       <1>21, <1>22, <1>23

\* A job takes an id from the sequence row in its own transaction.
LEMMA ReserveOneStep ==
  ASSUME IInv, NEW t \in Thread, ReserveOne(t)
  PROVE  IInv'
<1> USE HostAssumption, WatermarkAssumption, BoundAssumption, NoneAssumption
     DEF IInv
<1> DEFINE x == SeqSeenBy(t)
<1>1. /\ x = newSeq /\ x \in 1..MaxId /\ x + 1 \in 1..MaxId /\ seq <= x
      /\ seq \in 1..MaxId
  BY DEF ReserveOne, SeqSeenBy, RowFree, RowInv, TypeOK
<1>2. /\ pc[t] = "reserveOne" /\ rowLock \in {None, t}
      /\ held' = [held EXCEPT ![t] = @ \cup {x}]
      /\ newSeq' = x + 1 /\ rowLock' = t
      /\ pc' = [pc EXCEPT ![t] = "job"]
      /\ UNCHANGED <<seq, idrs, total, lock, used>>
  BY DEF ReserveOne, RowFree, Goto, cache
<1>3. held'[t] = held[t] \cup {x} /\ \A u \in Thread \ {t} : held'[u] = held[u]
  BY <1>2 DEF TypeOK
<1>4. /\ x \notin used
      /\ \A s \in Server : x \notin Ids(idrs[s])
      /\ \A u \in Thread \ {t} : x \notin held[u]
  <2>1. x \notin used
    BY <1>1 DEF UsedInv
  <2>2. \A s \in Server : x \notin Ids(idrs[s])
    BY <1>1, CachedBelow
  <2>3. \A u \in Thread \ {t} : x \notin held[u]
    BY <1>1, <1>2 DEF HeldReserved
  <2> QED
    BY <2>1, <2>2, <2>3
<1> HIDE DEF x
<1>11. TypeOK'
  BY <1>1, <1>2 DEF TypeOK, PC
<1>12. RowInv'
  BY <1>1, <1>2 DEF RowInv
<1>13. LockInv'
  BY <1>2 DEF LockInv, TypeOK
<1>14. RowHolderInv'
  BY <1>2 DEF RowHolderInv, TypeOK
<1>15. RefillInv'
  <2>1. \A u \in Thread : pc[u] = "commit" => u = t
    BY <1>2, NoneAssumption DEF RefillInv
  <2> QED
    BY <1>2, <2>1 DEF RefillInv, Grab, TypeOK
<1>16. HeldOpen'
  BY <1>2, <1>3 DEF HeldOpen, TypeOK
<1>17. HeldReserved'
  BY <1>1, <1>2, <1>3 DEF HeldReserved, TypeOK
<1>18. HeldFree'
  BY <1>2, <1>3, <1>4 DEF HeldFree
<1>19. UsedInv'
  BY <1>2 DEF UsedInv
<1>20. RangesInv'
  BY <1>2 DEF RangesInv
<1>21. CacheAscends'
  BY <1>2 DEF CacheAscends
<1>22. CachedIdsAreFree'
  BY <1>2, <1>3, <1>4 DEF CachedIdsAreFree
<1>23. WithinHighWater'
  BY <1>2 DEF WithinHighWater
<1> QED
  BY <1>11, <1>12, <1>13, <1>14, <1>15, <1>16, <1>17, <1>18, <1>19, <1>20,
       <1>21, <1>22, <1>23

\* The ids of a job become used, and the sequence value it wrote is committed.
LEMMA CommitJobStep ==
  ASSUME IInv, NEW t \in Thread, CommitJob(t)
  PROVE  IInv'
<1> USE HostAssumption, WatermarkAssumption, BoundAssumption, NoneAssumption
     DEF IInv
<1>1. /\ pc[t] = "job" /\ used' = used \cup held[t]
      /\ held' = [held EXCEPT ![t] = {}]
      /\ pc' = [pc EXCEPT ![t] = "idle"]
      /\ UNCHANGED <<idrs, total, lock>>
  BY DEF CommitJob, Goto, cache
<1>2. \/ rowLock = t /\ seq' = newSeq /\ newSeq' = newSeq /\ rowLock' = None
      \/ rowLock # t /\ UNCHANGED <<seq, rowLock, newSeq>>
  BY DEF CommitJob, SetRow, row
<1>3. seq \in 1..MaxId /\ newSeq \in 1..MaxId /\ seq <= newSeq
  BY DEF RowInv, TypeOK
<1>11. TypeOK'
  BY <1>1, <1>2, <1>3 DEF TypeOK, PC
<1>12. RowInv'
  BY <1>2, <1>3 DEF RowInv
<1>13. LockInv'
  BY <1>1 DEF LockInv, TypeOK
<1>14. RowHolderInv'
  BY <1>1, <1>2 DEF RowHolderInv, TypeOK
<1>15. RefillInv'
  BY <1>1, <1>2 DEF RefillInv, TypeOK, Grab
<1>16. HeldOpen'
  BY <1>1 DEF HeldOpen, TypeOK
<1>17. HeldReserved'
  BY <1>1, <1>2, <1>3 DEF HeldReserved, TypeOK
<1>18. HeldFree'
  BY <1>1 DEF HeldFree, TypeOK
<1>19. UsedInv'
  BY <1>1, <1>2, <1>3 DEF UsedInv, HeldReserved, TypeOK
<1>20. RangesInv'
  <2> SUFFICES ASSUME NEW z \in Server, NEW i \in 1..Len(idrs[z])
               PROVE  idrs[z][i].next + idrs[z][i].available <= seq'
    BY <1>1 DEF RangesInv
  <2>1. idrs[z][i].next \in 1..MaxId /\ idrs[z][i].available \in Nat
    BY RangeType DEF TypeOK
  <2> QED
    BY SMTT(60), <1>1, <1>2, <1>3, <2>1 DEF RangesInv
<1>21. CacheAscends'
  BY <1>1 DEF CacheAscends
<1>22. CachedIdsAreFree'
  BY <1>1 DEF CachedIdsAreFree, TypeOK
<1>23. WithinHighWater'
  BY <1>1 DEF WithinHighWater
<1> QED
  BY <1>11, <1>12, <1>13, <1>14, <1>15, <1>16, <1>17, <1>18, <1>19, <1>20,
       <1>21, <1>22, <1>23

\* A job ends without using its ids.
LEMMA AbortJobStep ==
  ASSUME IInv, NEW t \in Thread, AbortJob(t)
  PROVE  IInv'
<1> USE HostAssumption, WatermarkAssumption, BoundAssumption, NoneAssumption
     DEF IInv
<1>11. TypeOK'
  BY DEF TypeOK, PC, AbortJob, Rollback, SetRow, Goto, row, cache
<1>12. RowInv'
  BY DEF RowInv, TypeOK, AbortJob, Rollback, SetRow, Goto, row, cache
<1>13. LockInv'
  BY DEF LockInv, TypeOK, AbortJob, Rollback, SetRow, Goto, row, cache
<1>14. RowHolderInv'
  BY DEF RowHolderInv, TypeOK, AbortJob, Rollback, SetRow, Goto, row, cache
<1>15. RefillInv'
  BY DEF RefillInv, LockInv, TypeOK, Grab, AbortJob, Rollback, SetRow, Goto,
       row, cache
<1>16. HeldOpen'
  BY DEF HeldOpen, TypeOK, AbortJob, Rollback, SetRow, Goto, row, cache
<1>17. HeldReserved'
  BY DEF HeldReserved, RowInv, TypeOK, AbortJob, Rollback, SetRow, Goto, row,
       cache
<1>18. HeldFree'
  BY DEF HeldFree, TypeOK, AbortJob, Rollback, SetRow, Goto, row, cache
<1>19. UsedInv'
  BY DEF UsedInv, RowInv, TypeOK, AbortJob, Rollback, SetRow, Goto, row, cache
<1>20. RangesInv'
  BY DEF RangesInv, AbortJob, Rollback, SetRow, Goto, row, cache
<1>21. CacheAscends'
  BY DEF CacheAscends, AbortJob, Rollback, SetRow, Goto, row, cache
<1>22. CachedIdsAreFree'
  BY DEF CachedIdsAreFree, AbortJob, Rollback, SetRow, Goto, row, cache
<1>23. WithinHighWater'
  BY DEF WithinHighWater, AbortJob, Rollback, SetRow, Goto, row, cache
<1> QED
  BY <1>11, <1>12, <1>13, <1>14, <1>15, <1>16, <1>17, <1>18, <1>19, <1>20,
       <1>21, <1>22, <1>23

\* A server stops: its caches and its transactions are gone.
LEMMA CrashStep ==
  ASSUME IInv, NEW s \in Server, Crash(s)
  PROVE  IInv'
<1> USE HostAssumption, WatermarkAssumption, BoundAssumption, NoneAssumption
     DEF IInv
<1>1. /\ idrs' = [idrs EXCEPT ![s] = <<>>]
      /\ total' = [total EXCEPT ![s] = 0]
      /\ lock' = [lock EXCEPT ![s] = None]
      /\ pc' = [t \in Thread |-> IF Host[t] = s THEN "idle" ELSE pc[t]]
      /\ held' = [t \in Thread |-> IF Host[t] = s THEN {} ELSE held[t]]
      /\ used' = used
  BY DEF Crash
<1>2. \/ /\ rowLock \in Thread /\ Host[rowLock] = s
         /\ seq' = seq /\ newSeq' = seq /\ rowLock' = None
      \/ /\ \A t \in Thread : rowLock = t => Host[t] # s
         /\ UNCHANGED <<seq, rowLock, newSeq>>
  BY DEF Crash, SetRow, row
<1>3. idrs'[s] = <<>> /\ Ids(<<>>) = {} /\ \A z \in Server \ {s} : idrs'[z] = idrs[z]
  BY <1>1 DEF TypeOK, Ids
<1>11. TypeOK'
  BY <1>1, <1>2 DEF TypeOK, PC
<1>12. RowInv'
  BY <1>2 DEF RowInv, TypeOK
<1>13. LockInv'
  BY <1>1 DEF LockInv, TypeOK
<1>14. RowHolderInv'
  BY <1>1, <1>2 DEF RowHolderInv, TypeOK
<1>15. RefillInv'
  BY <1>1, <1>2 DEF RefillInv, TypeOK, Grab
<1>16. HeldOpen'
  BY <1>1 DEF HeldOpen, TypeOK
<1>17. HeldReserved'
  BY <1>1, <1>2 DEF HeldReserved, TypeOK
<1>18. HeldFree'
  BY <1>1 DEF HeldFree, TypeOK
<1>19. UsedInv'
  BY <1>1, <1>2 DEF UsedInv, TypeOK
<1>20. RangesInv'
  BY <1>2, <1>3 DEF RangesInv
<1>21. CacheAscends'
  BY <1>3 DEF CacheAscends, Ascending
<1>22. CachedIdsAreFree'
  BY <1>1, <1>3 DEF CachedIdsAreFree
<1>23. WithinHighWater'
  BY <1>1 DEF WithinHighWater, TypeOK
<1> QED
  BY <1>11, <1>12, <1>13, <1>14, <1>15, <1>16, <1>17, <1>18, <1>19, <1>20,
       <1>21, <1>22, <1>23

\* The invariant holds at first.
LEMMA InitInv == Init => IInv
<1> SUFFICES ASSUME Init PROVE IInv
  OBVIOUS
<1> USE HostAssumption, WatermarkAssumption, BoundAssumption, NoneAssumption DEF Init
<1>1. \A s \in Server : idrs[s] = <<>> /\ Ids(<<>>) = {}
  BY DEF Ids
<1>2. TypeOK
  BY DEF TypeOK, PC
<1>3. RowInv /\ LockInv /\ RowHolderInv /\ RefillInv
  BY DEF RowInv, LockInv, RowHolderInv, RefillInv
<1>4. HeldOpen /\ HeldReserved /\ HeldFree /\ UsedInv
  BY DEF HeldOpen, HeldReserved, HeldFree, UsedInv
<1>5. RangesInv /\ CacheAscends /\ CachedIdsAreFree /\ WithinHighWater
  BY <1>1 DEF RangesInv, CacheAscends, Ascending, CachedIdsAreFree, WithinHighWater
<1> QED
  BY <1>2, <1>3, <1>4, <1>5 DEF IInv

\* A step that changes nothing keeps the invariant.
LEMMA StutterInv == IInv /\ UNCHANGED vars => IInv'
<1> SUFFICES ASSUME IInv, UNCHANGED vars PROVE IInv'
  OBVIOUS
<1> USE DEF vars, IInv
<1>1. TypeOK'
  BY DEF TypeOK
<1>2. (RowInv /\ LockInv /\ RowHolderInv /\ RefillInv)'
  BY DEF RowInv, LockInv, RowHolderInv, RefillInv, Grab
<1>3. (HeldOpen /\ HeldReserved /\ HeldFree /\ UsedInv)'
  BY DEF HeldOpen, HeldReserved, HeldFree, UsedInv
<1>4. (RangesInv /\ CacheAscends /\ CachedIdsAreFree /\ WithinHighWater)'
  BY DEF RangesInv, CacheAscends, CachedIdsAreFree, WithinHighWater
<1> QED
  BY <1>1, <1>2, <1>3, <1>4

\* Every step keeps the invariant.
LEMMA NextInv == IInv /\ [Next]_vars => IInv'
<1> SUFFICES ASSUME IInv, [Next]_vars PROVE IInv'
  OBVIOUS
<1>1. ASSUME NEW t \in Thread, NewJob(t) \/ AllocId(t) \/ BeginFails(t)
      PROVE  IInv'
  BY <1>1, QuietStep
<1>2. ASSUME NEW t \in Thread, Progress(t)
      PROVE  IInv'
  <2>1. CASE CheckCache(t) \/ BeginJob(t) \/ AllocMiss(t)
    BY <2>1, QuietStep
  <2>2. CASE Recheck(t)
    BY <2>2, RecheckStep
  <2>3. CASE Reserve(t)
    BY <2>3, ReserveStep
  <2>4. CASE CommitRefill(t)
    BY <2>4, CommitRefillStep
  <2>5. CASE ReserveFails(t)
    BY <2>5, ReserveFailsStep
  <2>6. CASE Revert(t)
    BY <2>6, RevertStep
  <2>7. CASE ReserveTimesOut(t)
    BY <2>7, ReserveTimesOutStep
  <2>8. CASE AllocCached(t)
    BY <2>8, AllocCachedStep
  <2>9. CASE ReserveOne(t)
    BY <2>9, ReserveOneStep
  <2>10. CASE CommitJob(t)
    BY <2>10, CommitJobStep
  <2>11. CASE AbortJob(t)
    BY <2>11, AbortJobStep
  <2> QED
    BY <1>2, <2>1, <2>2, <2>3, <2>4, <2>5, <2>6, <2>7, <2>8, <2>9, <2>10, <2>11
       DEF Progress
<1>3. ASSUME NEW t \in Thread, ReserveFails(t)
      PROVE  IInv'
  BY <1>3, ReserveFailsStep
<1>4. ASSUME NEW t \in Thread, CommitRefillFails(t)
      PROVE  IInv'
  BY <1>4, CommitRefillFailsStep
<1>5. ASSUME NEW s \in Server, Crash(s)
      PROVE  IInv'
  BY <1>5, CrashStep
<1>6. CASE UNCHANGED vars
  BY <1>6, StutterInv
<1> QED
  BY <1>1, <1>2, <1>3, <1>4, <1>5, <1>6 DEF Next

\* IInv is inductive: what idalloc.go keeps of the cache, the sequence row and the
\* ids of open jobs holds in every reachable state.
THEOREM Invariance == Spec => []IInv
<1> QED
  BY InitInv, NextInv, PTL DEF Spec

-----------------------------------------------------------------------------
(***************************************************************************)
(* What follows from it.                                                   *)
(***************************************************************************)

\* Every variable of the allocator keeps its type; in particular the sequence
\* of reserveIds never passes math.MaxInt64.
THEOREM TypeCorrect == Spec => []TypeOK
<1> QED
  BY Invariance, PTL DEF IInv

\* No IdAlloc caches an id that another server has cached, that an open job was
\* given, or that a committed job used: across refills, in-transaction
\* reservations, failed and ambiguous commits, and crashes.
THEOREM CachedIdsFree == Spec => []CachedIdsAreFree
<1> QED
  BY Invariance, PTL DEF IInv

\* preallocateIds never asks reserveIds for less than one id.
THEOREM GrabPositive == Spec => []GrabIsPositive
<1>1. IInv => GrabIsPositive
  <2> SUFFICES ASSUME IInv, NEW t \in Thread, pc[t] = "reserve"
               PROVE  Grab(t) >= 1
    BY DEF GrabIsPositive
  <2>1. total[Host[t]] \in Nat /\ total[Host[t]] < LowWater
    BY HostAssumption DEF IInv, TypeOK, RefillInv
  <2> QED
    BY <2>1, WatermarkAssumption DEF Grab
<1> QED
  BY <1>1, Invariance, PTL

\* Concurrent refills of one IdAlloc never fill it past its high watermark.
THEOREM HighWaterBound == Spec => []WithinHighWater
<1> QED
  BY Invariance, PTL DEF IInv

\* The ranges of an IdAlloc ascend, so the ids taken from its cache do.
THEOREM CacheOrder == Spec => []CacheAscends
<1> QED
  BY Invariance, PTL DEF IInv

-----------------------------------------------------------------------------
(***************************************************************************)
(* The allocator implements UniqueIds.                                     *)
(***************************************************************************)
LEMMA InitRefines == Init => Unique!Init
  BY DEF Init, Unique!Init

\* Every step of the allocator is a step of UniqueIds, or changes nothing of it.
LEMMA StepRefines == IInv /\ [Next]_vars => [Unique!Next]_Unique!vars
<1> SUFFICES ASSUME IInv, [Next]_vars PROVE Unique!Next \/ UNCHANGED <<held, used>>
  BY DEF Unique!vars
<1> USE HostAssumption, BoundAssumption, NoneAssumption DEF IInv
<1>1. ASSUME NEW t \in Thread, AllocCached(t)
      PROVE  Unique!Give(t)
  <2> DEFINE s == Host[t]
  <2>1. PICK i \in 1..Len(idrs[s]) :
          /\ First(idrs[s], i)
          /\ held' = [held EXCEPT ![t] = @ \cup {idrs[s][i].next}]
    BY <1>1 DEF AllocCached
  <2> DEFINE x == idrs[s][i].next
  <2>2. s \in Server /\ idrs[s] \in Seq(IdRange)
    BY DEF TypeOK
  <2>3. /\ x \in 1..MaxId /\ idrs[s][i].available \in Nat
        /\ idrs[s][i].available > 0
    BY <2>1, <2>2, RangeType DEF First
  <2>4. x \in Ids(idrs[s])
    BY SMTT(60), <2>3 DEF Ids
  <2>5. x \notin used /\ x \notin held[t]
    BY <2>2, <2>4 DEF CachedIdsAreFree
  <2> QED
    BY <1>1, <2>1, <2>3, <2>5 DEF AllocCached, Unique!Give
<1>2. ASSUME NEW t \in Thread, ReserveOne(t)
      PROVE  Unique!Give(t)
  <2> DEFINE x == SeqSeenBy(t)
  <2>1. /\ x = newSeq /\ x \in 1..MaxId /\ seq <= x /\ seq \in 1..MaxId
        /\ rowLock \in {None, t}
    BY <1>2 DEF ReserveOne, SeqSeenBy, RowFree, RowInv, TypeOK
  <2>2. x \notin used
    BY <2>1 DEF UsedInv
  <2>3. x \notin held[t]
    BY <2>1 DEF HeldReserved
  <2> QED
    BY <1>2, <2>1, <2>2, <2>3 DEF ReserveOne, Unique!Give
<1>3. ASSUME NEW t \in Thread, CommitJob(t)
      PROVE  Unique!Use(t)
  BY <1>3 DEF CommitJob, HeldFree, Unique!Use
<1>4. ASSUME NEW t \in Thread, AbortJob(t)
      PROVE  Unique!Forget({t})
  BY <1>4 DEF AbortJob, Unique!Forget, TypeOK
<1>5. ASSUME NEW s \in Server, Crash(s)
      PROVE  Unique!Forget({t \in Thread : Host[t] = s})
  BY <1>5 DEF Crash, Unique!Forget
<1>6. ASSUME NEW t \in Thread,
             \/ NewJob(t) \/ AllocId(t) \/ BeginFails(t) \/ CheckCache(t)
             \/ Recheck(t) \/ Reserve(t) \/ CommitRefill(t) \/ ReserveFails(t)
             \/ CommitRefillFails(t) \/ Revert(t) \/ ReserveTimesOut(t)
             \/ BeginJob(t) \/ AllocMiss(t)
      PROVE  UNCHANGED <<held, used>>
  BY <1>6 DEF NewJob, AllocId, BeginFails, CheckCache, Recheck, Reserve,
     CommitRefill, ReserveFails, CommitRefillFails, Revert, ReserveTimesOut,
     BeginJob, AllocMiss
<1>7. CASE UNCHANGED vars
  BY <1>7 DEF vars
<1>8. CASE \E t \in Thread : AllocCached(t) \/ ReserveOne(t) \/ CommitJob(t)
  BY <1>1, <1>2, <1>3, <1>8 DEF Unique!Next
<1>9. CASE \E t \in Thread : AbortJob(t)
  <2>1. PICK t \in Thread : AbortJob(t)
    BY <1>9
  <2>2. {t} \in SUBSET Thread
    OBVIOUS
  <2> QED
    BY <1>4, <2>1, <2>2 DEF Unique!Next
<1>10. CASE \E s \in Server : Crash(s)
  <2>1. PICK s \in Server : Crash(s)
    BY <1>10
  <2>2. {t \in Thread : Host[t] = s} \in SUBSET Thread
    OBVIOUS
  <2> QED
    BY <1>5, <2>1, <2>2 DEF Unique!Next
<1> QED
  BY <1>6, <1>7, <1>8, <1>9, <1>10 DEF Next, Progress

\* An id is given to a job only if nobody used it, and no two jobs commit the
\* same id: IdAlloc keeps the promise stated in UniqueIds.
THEOREM Refinement == Spec => IdsUsedOnce
<1> QED
  BY InitRefines, StepRefines, Invariance, PTL DEF Spec, IdsUsedOnce, Unique!Spec
==============================================================================
