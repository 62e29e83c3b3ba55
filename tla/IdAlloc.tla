------------------------------- MODULE IdAlloc -------------------------------
(***************************************************************************)
(* be/schema/db/idalloc.go: how jobs get fresh row ids.  One row of the    *)
(* sequence table is shared by every server; each server process caches    *)
(* ranges of reserved ids in an IdAlloc guarded by a mutex.  Opening a     *)
(* job (newJob in the generated table code) first refills the cache in a   *)
(* transaction of its own; a running job takes ids from the cache, or,     *)
(* when the cache is empty, from the sequence row inside its own           *)
(* transaction.                                                            *)
(*                                                                         *)
(* A transaction that has written the sequence row holds it until it       *)
(* commits or rolls back: SELECT ... FOR UPDATE takes the row lock on      *)
(* mysql and postgres, and the UPDATE does on every adapter.               *)
(***************************************************************************)
EXTENDS Integers, Sequences, FiniteSets

CONSTANTS Thread,           \* goroutines that run jobs
          Server,           \* server processes, each with one IdAlloc
          Host,             \* Host[t]: the server goroutine t runs in
          LowWater,         \* watermarks: refill below LowWater ...
          HighWater,        \* ... up to HighWater
          MaxId,            \* math.MaxInt64
          MaxAllocs,        \* bound: ids one job asks for
          LockWaitTimeout,  \* does the database give up waiting for a row?
          None              \* nobody

ASSUME HostAssumption == Host \in [Thread -> Server]
ASSUME WatermarkAssumption ==
         LowWater \in Int /\ HighWater \in Int /\ LowWater <= HighWater
ASSUME BoundAssumption == MaxId \in Nat \ {0} /\ MaxAllocs \in Nat
ASSUME NoneAssumption == None \notin Thread

VARIABLES seq,      \* the committed value of the sequence row
          rowLock,  \* the thread whose transaction has the row, or None
          newSeq,   \* the value that transaction has written to it
          idrs,     \* idrs[s]: the ranges server s has cached
          total,    \* total[s]: how many ids these ranges hold
          lock,     \* lock[s]: the thread inside alloc.lock, or None
          pc,       \* where each thread is
          held,     \* held[t]: ids given to the open job of t
          used      \* ids of committed jobs

vars == <<seq, rowLock, newSeq, idrs, total, lock, pc, held, used>>
row  == <<seq, rowLock, newSeq>>
cache == <<idrs, total>>

PC == {"idle", "check", "refill", "reserve", "commit", "revert",
       "begin", "job", "alloc", "reserveOne"}

IdRange == [next : 1..MaxId, available : Nat]

Init == /\ seq = 1 /\ rowLock = None /\ newSeq = 1
        /\ idrs = [s \in Server |-> <<>>]
        /\ total = [s \in Server |-> 0]
        /\ lock = [s \in Server |-> None]
        /\ pc = [t \in Thread |-> "idle"]
        /\ held = [t \in Thread |-> {}]
        /\ used = {}

Goto(t, l) == pc' = [pc EXCEPT ![t] = l]
Unlocked(t) == lock[Host[t]] = None
\* Broken: nobody waits for the row.
RowFreeUnlocked(t) == TRUE
RowFree(t) == rowLock \in {None, t}
SetRow(s) == seq' = s /\ newSeq' = s /\ rowLock' = None
\* Ends t's transaction without effect, whether or not it has the row.
Rollback(t) == IF rowLock = t THEN SetRow(seq) ELSE UNCHANGED row

-----------------------------------------------------------------------------
\* newJob: preallocateIds, in a transaction of its own, then Begin.

NewJob(t) == /\ pc[t] = "idle"
             /\ Goto(t, "check")
             /\ UNCHANGED <<row, cache, lock, held, used>>

\* The first look at the cache; alloc.lock is dropped again.
CheckCache(t) ==
  /\ pc[t] = "check" /\ Unlocked(t)
  /\ Goto(t, IF total[Host[t]] >= LowWater THEN "begin" ELSE "refill")
  /\ UNCHANGED <<row, cache, lock, held, used>>

\* The transaction has begun and alloc.lock is taken a second time: somebody
\* else may have refilled the cache since, and then there is nothing to do.
Recheck(t) ==
  /\ pc[t] = "refill" /\ Unlocked(t)
  /\ IF total[Host[t]] >= LowWater
       THEN Goto(t, "begin") /\ UNCHANGED lock
       ELSE Goto(t, "reserve") /\ lock' = [lock EXCEPT ![Host[t]] = t]
  /\ UNCHANGED <<row, cache, held, used>>

Grab(t) == HighWater - total[Host[t]]
\* Broken: the sequence may overflow.
CanGrabUnchecked(t) == Grab(t) >= 1
CanGrab(t) == Grab(t) >= 1 /\ Grab(t) <= MaxId - seq

\* reserveIds: lock and bump the sequence row, still holding alloc.lock.
Reserve(t) ==
  /\ pc[t] = "reserve" /\ RowFree(t) /\ CanGrab(t)
  /\ rowLock' = t /\ newSeq' = seq + Grab(t)
  /\ Goto(t, "commit")
  /\ UNCHANGED <<seq, cache, lock, held, used>>

CommitRefill(t) ==
  /\ pc[t] = "commit"
  /\ LET s == Host[t] IN
     /\ idrs' = [idrs EXCEPT ![s] =
                   Append(@, [next |-> seq, available |-> Grab(t)])]
     /\ total' = [total EXCEPT ![s] = @ + Grab(t)]
     /\ lock' = [lock EXCEPT ![s] = None]
  /\ SetRow(newSeq)
  /\ Goto(t, "begin")
  /\ UNCHANGED <<held, used>>

\* Reserving fails: the sequence would overflow, or the database reports an
\* error.  alloc.lock is released before the transaction is rolled back.
ReserveFails(t) ==
  /\ pc[t] = "reserve" /\ RowFree(t)
  /\ lock' = [lock EXCEPT ![Host[t]] = None]
  /\ rowLock' = t
  /\ Goto(t, "revert")
  /\ UNCHANGED <<seq, newSeq, cache, held, used>>

\* Broken: the range is cached though nobody knows whether it is reserved.
CommitRefillFailsKept(t) ==
  /\ pc[t] = "commit"
  /\ LET s == Host[t] IN
     /\ idrs' = [idrs EXCEPT ![s] =
                   Append(@, [next |-> seq, available |-> Grab(t)])]
     /\ total' = [total EXCEPT ![s] = @ + Grab(t)]
     /\ lock' = [lock EXCEPT ![s] = None]
  /\ \E s \in {seq, newSeq} : SetRow(s)
  /\ Goto(t, "revert")
  /\ UNCHANGED <<held, used>>

\* Broken: the error return forgets alloc.lock.
CommitRefillFailsLocked(t) ==
  /\ pc[t] = "commit"
  /\ \E s \in {seq, newSeq} : SetRow(s)
  /\ Goto(t, "revert")
  /\ UNCHANGED <<cache, lock, held, used>>

\* Commit reports an error, and the transaction may have been applied or not.
CommitRefillFails(t) ==
  /\ pc[t] = "commit"
  /\ lock' = [lock EXCEPT ![Host[t]] = None]
  /\ \E s \in {seq, newSeq} : SetRow(s)
  /\ Goto(t, "revert")
  /\ UNCHANGED <<cache, held, used>>

Revert(t) == /\ pc[t] = "revert"
             /\ Rollback(t)
             /\ Goto(t, "idle")
             /\ UNCHANGED <<cache, lock, held, used>>

\* Waiting for the row in a refill ends with the database's lock timeout.
ReserveTimesOut(t) ==
  /\ LockWaitTimeout
  /\ pc[t] = "reserve" /\ ~RowFree(t)
  /\ lock' = [lock EXCEPT ![Host[t]] = None]
  /\ Goto(t, "revert")
  /\ UNCHANGED <<row, cache, held, used>>

BeginJob(t) == /\ pc[t] = "begin"
               /\ Goto(t, "job")
               /\ UNCHANGED <<row, cache, lock, held, used>>

\* Begin fails, for the refill or for the job.
BeginFails(t) == /\ pc[t] \in {"refill", "begin"}
                 /\ Goto(t, "idle")
                 /\ UNCHANGED <<row, cache, lock, held, used>>

-----------------------------------------------------------------------------
\* Job.AllocId, Commit and Rollback.

AllocId(t) == /\ pc[t] = "job" /\ Cardinality(held[t]) < MaxAllocs
              /\ Goto(t, "alloc")
              /\ UNCHANGED <<row, cache, lock, held, used>>

\* The first range that has ids left; the exhausted ones before it go.
First(q, i) == /\ q[i].available > 0
               /\ \A j \in 1..(i - 1) : q[j].available <= 0

Popped(q, i) ==
  [SubSeq(q, i, Len(q)) EXCEPT
     ![1] = [next |-> q[i].next + 1, available |-> q[i].available - 1]]

AllocCached(t) ==
  LET s == Host[t] IN
  /\ pc[t] = "alloc" /\ Unlocked(t)
  /\ total[s] > 0
  /\ \E i \in 1..Len(idrs[s]) :
       /\ First(idrs[s], i)
       /\ held' = [held EXCEPT ![t] = @ \cup {idrs[s][i].next}]
       /\ idrs' = [idrs EXCEPT ![s] = Popped(idrs[s], i)]
  /\ total' = [total EXCEPT ![s] = @ - 1]
  /\ Goto(t, "job")
  /\ UNCHANGED <<row, lock, used>>

AllocMiss(t) == /\ pc[t] = "alloc" /\ Unlocked(t)
                /\ total[Host[t]] <= 0
                /\ Goto(t, "reserveOne")
                /\ UNCHANGED <<row, cache, lock, held, used>>

SeqSeenBy(t) == IF rowLock = t THEN newSeq ELSE seq

\* reserveIds for one id in the job's transaction, outside alloc.lock.  The
\* job may yet roll back, so the cache is not told.
ReserveOne(t) ==
  /\ pc[t] = "reserveOne" /\ RowFree(t)
  /\ 1 <= MaxId - SeqSeenBy(t)
  /\ held' = [held EXCEPT ![t] = @ \cup {SeqSeenBy(t)}]
  /\ newSeq' = SeqSeenBy(t) + 1
  /\ rowLock' = t
  /\ Goto(t, "job")
  /\ UNCHANGED <<seq, cache, lock, used>>

\* The ids become part of committed rows, and with them the sequence value.
\* A commit that is applied and still reports an error does the same.
CommitJob(t) ==
  /\ pc[t] = "job"
  /\ used' = used \cup held[t]
  /\ held' = [held EXCEPT ![t] = {}]
  /\ IF rowLock = t THEN SetRow(newSeq) ELSE UNCHANGED row
  /\ Goto(t, "idle")
  /\ UNCHANGED <<cache, lock>>

\* The task gives up, a statement of it fails, or its commit is not applied.
AbortJob(t) ==
  /\ \/ pc[t] = "job"
     \/ pc[t] = "reserveOne" /\ (RowFree(t) \/ LockWaitTimeout)
  /\ Rollback(t)
  /\ held' = [held EXCEPT ![t] = {}]
  /\ Goto(t, "idle")
  /\ UNCHANGED <<cache, lock, used>>

\* The server process stops: its cache is gone and the database rolls its
\* transactions back.
Crash(s) ==
  LET T == {t \in Thread : Host[t] = s} IN
  /\ idrs' = [idrs EXCEPT ![s] = <<>>]
  /\ total' = [total EXCEPT ![s] = 0]
  /\ lock' = [lock EXCEPT ![s] = None]
  /\ pc' = [t \in Thread |-> IF t \in T THEN "idle" ELSE pc[t]]
  /\ held' = [t \in Thread |-> IF t \in T THEN {} ELSE held[t]]
  /\ IF rowLock \in T THEN SetRow(seq) ELSE UNCHANGED row
  /\ UNCHANGED used

\* What the code goes on to do by itself once a job is being opened or has
\* asked for an id, and the end of a job.
Progress(t) == \/ CheckCache(t) \/ Recheck(t) \/ Reserve(t) \/ CommitRefill(t)
               \/ ReserveFails(t) /\ ~CanGrab(t)
               \/ Revert(t) \/ ReserveTimesOut(t) \/ BeginJob(t)
               \/ AllocCached(t) \/ AllocMiss(t) \/ ReserveOne(t)
               \/ CommitJob(t) \/ AbortJob(t)

Next == \/ \E t \in Thread :
             \/ NewJob(t) \/ Progress(t) \/ AllocId(t)
             \/ ReserveFails(t) \/ CommitRefillFails(t) \/ BeginFails(t)
        \/ \E s \in Server : Crash(s)

Spec == Init /\ [][Next]_vars

(***************************************************************************)
(* sync.Mutex hands the lock to a waiter that has starved for long, and    *)
(* databases queue the waiters of a row, so a thread that can take a lock  *)
(* again and again does take it: strong fairness.                          *)
(***************************************************************************)
FairSpec == Spec /\ \A t \in Thread : SF_vars(Progress(t))

-----------------------------------------------------------------------------
\* Properties.

\* The ids in a list of ranges.
Ids(q) == {id \in 1..MaxId : \E i \in 1..Len(q) :
             q[i].next <= id /\ id < q[i].next + q[i].available}

\* Every id of a range is below the ranges behind it.
Ascending(q) == \A i, j \in 1..Len(q) :
  i < j => q[i].next + q[i].available <= q[j].next

TypeOK == /\ seq \in 1..MaxId /\ newSeq \in 1..MaxId
          /\ rowLock \in Thread \cup {None}
          /\ idrs \in [Server -> Seq(IdRange)]
          /\ total \in [Server -> Nat]
          /\ lock \in [Server -> Thread \cup {None}]
          /\ pc \in [Thread -> PC]
          /\ held \in [Thread -> SUBSET (1..MaxId)]
          /\ used \subseteq 1..MaxId

\* The comment of preallocateIds, "hiwat >= lowat > available": whoever is
\* about to reserve a range still finds the cache low, though alloc.lock was
\* released since the first look, so reserveIds is never asked for 0 ids.
GrabIsPositive == \A t \in Thread : pc[t] = "reserve" => Grab(t) >= 1

\* However many jobs open at once, a server never caches more than the high
\* watermark: the refills of PreallocateIds do not add up.
WithinHighWater == \A s \in Server : total[s] > 0 => total[s] <= HighWater

\* The ranges of IdAlloc.idrs ascend, and so do the ids allocIdJob takes from
\* them, however the refills of PreallocateIds interleave.
CacheAscends == \A s \in Server : Ascending(idrs[s])

\* An id that a server has cached belongs to its IdAlloc alone: no other server
\* has it, no open job was given it, and no committed job used it.
CachedIdsAreFree == \A s \in Server :
  /\ \A z \in Server \ {s} : Ids(idrs[s]) \cap Ids(idrs[z]) = {}
  /\ \A t \in Thread : Ids(idrs[s]) \cap held[t] = {}
  /\ Ids(idrs[s]) \cap used = {}

Unique == INSTANCE UniqueIds WITH Id <- 1..MaxId

\* The allocator keeps the promise of UniqueIds: AllocIdJob never gives a job
\* an id that was used, and no two jobs commit the same id.
IdsUsedOnce == Unique!Spec

\* Opening a job and Job.AllocId both come to an end, with or without success.
CallsReturn == \A t \in Thread :
  pc[t] \in {"check", "alloc"} ~> pc[t] \in {"idle", "job"}

==============================================================================
