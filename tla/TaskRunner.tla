----------------------------- MODULE TaskRunner -----------------------------
(***************************************************************************)
(* be/tasks/task_runner.go, and what a task does to the database while it  *)
(* runs: newJob, which may first refill the cache of ids in a transaction  *)
(* of its own, statements that lock rows, ids taken under alloc.lock, the  *)
(* commit, and the deferred rollback.                                      *)
(*                                                                         *)
(* Transactions need connections, of which database/sql opens at most      *)
(* MaxConns.  When the context of a request is done, database/sql rolls    *)
(* its open transaction back by itself, at any moment.  Time is left out:  *)
(* a task that sleeps wakes at some time, and the deadline of its context  *)
(* may or may not leave room for the next back-off.  The sequence row is   *)
(* the subject of IdAlloc.                                                 *)
(***************************************************************************)
EXTENDS Integers, FiniteSets

CONSTANTS Task,
          Row,             \* rows that tasks lock
          MaxConns,        \* SetMaxOpenConns
          taskMaxRetries,
          HighWater,       \* ids cached by a refill
          None             \* nobody, nothing

ASSUME BoundAssumption == /\ MaxConns \in Nat \ {0}
                          /\ taskMaxRetries \in Nat \ {0}
                          /\ HighWater \in Nat \ {0}
ASSUME NoneAssumption == None \notin Task /\ None \notin Row

VARIABLES pc,
          currentTry, \* taskRetryAdapter.currentTry
          conn,       \* the tasks that have a transaction, and so a connection
          lock,       \* the task inside alloc.lock
          total,      \* ids in the cache
          rows,       \* rows[r]: the task whose transaction has locked r
          want,       \* want[t]: the row that t waits for
          ctx,        \* ctx[t]: "live", or "done": cancelled or past its deadline
          err,        \* err[t]: how the current try failed
          effect,     \* effect[t]: "none", "made" or "doubt"
          answer      \* answer[t]: "none" yet, "ok" or "failed"

vars == <<pc, currentTry, conn, lock, total, rows, want, ctx, err, effect, answer>>
db == <<conn, rows, want>>
cache == <<lock, total>>
outcome == <<err, effect, answer>>

PC == {"next", "check", "refill", "refillLock", "reserve", "begin", "body",
       "revert", "decide", "sleep", "done"}
\* What an error unwraps to: one that RetryableErr knows (a deadlock, a failed
\* serialization, a duplicate key), a commit whose fate is unknown, any other.
Err == {"nil", "retryable", "doubtful", "other"}

Init == /\ pc = [t \in Task |-> "next"]
        /\ currentTry = [t \in Task |-> 0]
        /\ conn = {} /\ lock = None /\ total = 0
        /\ rows = [r \in Row |-> None]
        /\ want = [t \in Task |-> None]
        /\ ctx = [t \in Task |-> "live"]
        /\ err = [t \in Task |-> "nil"]
        /\ effect = [t \in Task |-> "none"]
        /\ answer = [t \in Task |-> "none"]

Goto(t, l) == pc' = [pc EXCEPT ![t] = l]
Fails(t, e) == err' = [err EXCEPT ![t] = e] /\ UNCHANGED <<effect, answer>>
Answer(t, a) == answer' = [answer EXCEPT ![t] = a] /\ UNCHANGED <<err, effect>>

\* The pool has a connection for another transaction.
ConnFree == Cardinality(conn) < MaxConns
\* t's transaction is over, however it ended.
End(t) == /\ conn' = conn \ {t}
          /\ rows' = [r \in Row |-> IF rows[r] = t THEN None ELSE rows[r]]
          /\ want' = [want EXCEPT ![t] = None]

-----------------------------------------------------------------------------
\* runTask: the loop over tries, and the look at the context.

NoTriesLeft(t) == currentTry[t] >= taskMaxRetries

\* Broken: a try is not counted.
TriedUncounted(t) == currentTry[t]
Tried(t) == currentTry[t] + 1

NextTry(t) ==
  /\ pc[t] = "next"
  /\ IF NoTriesLeft(t)
     THEN Goto(t, "done") /\ Answer(t, "failed") /\ UNCHANGED currentTry
     ELSE /\ currentTry' = [currentTry EXCEPT ![t] = Tried(t)]
          /\ IF ctx[t] = "done" THEN Goto(t, "done") /\ Answer(t, "failed")
             ELSE Goto(t, "check") /\ err' = [err EXCEPT ![t] = "nil"]
                  /\ UNCHANGED <<effect, answer>>
  /\ UNCHANGED <<db, cache, ctx>>

-----------------------------------------------------------------------------
\* newJob: preallocateIds, then Begin.

CheckCache(t) ==
  /\ pc[t] = "check" /\ lock = None
  /\ Goto(t, IF total > 0 THEN "begin" ELSE "refill")
  /\ UNCHANGED <<currentTry, db, cache, ctx, outcome>>

\* A transaction begins when the pool has a connection and the context is live.
Open(t, from, to) ==
  /\ pc[t] = from /\ ConnFree /\ ctx[t] = "live"
  /\ conn' = conn \cup {t}
  /\ Goto(t, to)
  /\ UNCHANGED <<currentTry, rows, want, cache, ctx, outcome>>

Refill(t) == Open(t, "refill", "refillLock")
Begin(t) == Open(t, "begin", "body")

BeginFails(t) ==
  /\ pc[t] \in {"refill", "begin"} /\ ctx[t] = "done"
  /\ Goto(t, "decide") /\ Fails(t, "other")
  /\ UNCHANGED <<currentTry, db, cache, ctx>>

\* The second look at the cache, inside alloc.lock: if another task has
\* refilled it, this transaction is rolled back.
RefillLock(t) ==
  /\ pc[t] = "refillLock" /\ lock = None
  /\ IF total > 0
     THEN End(t) /\ Goto(t, "begin") /\ UNCHANGED lock
     ELSE lock' = t /\ Goto(t, "reserve") /\ UNCHANGED db
  /\ UNCHANGED <<currentTry, total, ctx, outcome>>

Reserve(t) ==
  /\ pc[t] = "reserve" /\ t \in conn
  /\ total' = total + HighWater /\ lock' = None
  /\ End(t) /\ Goto(t, "begin")
  /\ UNCHANGED <<currentTry, ctx, outcome>>

\* Any error, the doubtful one too: newJob fails, and the ids stay unused.
ReserveFails(t) ==
  /\ pc[t] = "reserve"
  /\ \E e \in IF t \in conn THEN {"retryable", "other"} ELSE {"other"} : Fails(t, e)
  /\ lock' = None
  /\ End(t) /\ Goto(t, "decide")
  /\ UNCHANGED <<currentTry, total, ctx>>

-----------------------------------------------------------------------------
\* The task's own work.

Want(t, r) == /\ pc[t] = "body" /\ t \in conn /\ want[t] = None /\ rows[r] # t
              /\ want' = [want EXCEPT ![t] = r]
              /\ UNCHANGED <<pc, currentTry, conn, rows, cache, ctx, outcome>>

Lock(t) == /\ pc[t] = "body" /\ t \in conn /\ want[t] # None
           /\ rows[want[t]] = None
           /\ rows' = [rows EXCEPT ![want[t]] = t]
           /\ want' = [want EXCEPT ![t] = None]
           /\ UNCHANGED <<pc, currentTry, conn, cache, ctx, outcome>>

\* With an empty cache the id comes from the sequence row, in t's transaction.
AllocId(t) == /\ pc[t] = "body" /\ want[t] = None /\ lock = None
              /\ total > 0 /\ total' = total - 1
              /\ UNCHANGED <<pc, currentTry, db, lock, ctx, outcome>>

\* A statement reports an error, or the task refuses the request.
BodyFails(t) ==
  /\ pc[t] = "body"
  /\ \E e \in IF t \in conn THEN {"retryable", "other"} ELSE {"other"} : Fails(t, e)
  /\ Goto(t, "revert")
  /\ UNCHANGED <<currentTry, db, cache, ctx>>

InDeadlock(t) == \E S \in SUBSET Task :
  t \in S /\ \A s \in S : want[s] # None /\ rows[want[s]] \in S

\* The database picks a victim.
Deadlock(t) ==
  /\ pc[t] = "body" /\ t \in conn /\ InDeadlock(t)
  /\ End(t)
  /\ Goto(t, "revert") /\ Fails(t, "retryable")
  /\ UNCHANGED <<currentTry, cache, ctx>>

Commit(t) ==
  /\ pc[t] = "body" /\ t \in conn /\ want[t] = None
  /\ effect' = [effect EXCEPT ![t] = "made"]
  /\ answer' = [answer EXCEPT ![t] = "ok"]
  /\ End(t) /\ Goto(t, "done")
  /\ UNCHANGED <<currentTry, cache, ctx, err>>

\* The commit was applied, but the connection broke before the answer came.
CommitDoubtful(t) ==
  /\ pc[t] = "body" /\ t \in conn /\ want[t] = None
  /\ effect' = [effect EXCEPT ![t] = "doubt"]
  /\ err' = [err EXCEPT ![t] = "doubtful"]
  /\ End(t) /\ Goto(t, "revert")
  /\ UNCHANGED <<currentTry, cache, ctx, answer>>

\* The commit was not applied: it could not be serialized, or the transaction
\* was rolled back before.
CommitFails(t) ==
  /\ pc[t] = "body" /\ want[t] = None
  /\ \E e \in IF t \in conn THEN {"retryable", "doubtful"} ELSE {"other"} : Fails(t, e)
  /\ End(t) /\ Goto(t, "revert")
  /\ UNCHANGED <<currentTry, cache, ctx>>

\* Broken: a job whose task is to run again is not rolled back.
RevertLazy(t) ==
  /\ pc[t] = "revert"
  /\ IF err[t] = "retryable" THEN UNCHANGED db ELSE End(t)
  /\ Goto(t, "decide")
  /\ UNCHANGED <<currentTry, cache, ctx, outcome>>
\* The deferred rollback; its error, if any, is attached to the first one.
Revert(t) ==
  /\ pc[t] = "revert"
  /\ End(t) /\ Goto(t, "decide")
  /\ UNCHANGED <<currentTry, cache, ctx, outcome>>

-----------------------------------------------------------------------------
\* runTaskOnce, after task.Run.

\* Broken: a broken connection is worth another try.
CanRetryDoubtful(e) == e \in {"retryable", "doubtful"}
CanRetry(e) == e = "retryable"

Sleep(t) == /\ pc[t] = "decide" /\ CanRetry(err[t])
            /\ Goto(t, "sleep")
            /\ UNCHANGED <<currentTry, db, cache, ctx, outcome>>

\* An error that cannot be retried, or no time left before the deadline.
GiveUp(t) == /\ pc[t] = "decide"
             /\ Goto(t, "done") /\ Answer(t, "failed")
             /\ UNCHANGED <<currentTry, db, cache, ctx>>

\* The back-off comes after the last try too.
WakeUp(t) == /\ pc[t] = "sleep"
             /\ Goto(t, "next")
             /\ UNCHANGED <<currentTry, db, cache, ctx, outcome>>

DoneWhileAsleep(t) == /\ pc[t] = "sleep" /\ ctx[t] = "done"
                      /\ Goto(t, "done") /\ Answer(t, "failed")
                      /\ UNCHANGED <<currentTry, db, cache, ctx>>

-----------------------------------------------------------------------------
\* The context, from outside.

CtxDone(t) == /\ ctx[t] = "live" /\ pc[t] # "done"
              /\ ctx' = [ctx EXCEPT ![t] = "done"]
              /\ UNCHANGED <<pc, currentTry, db, cache, outcome>>

\* database/sql watches the context of a transaction.
TxCancelled(t) == /\ ctx[t] = "done" /\ t \in conn
                  /\ End(t)
                  /\ UNCHANGED <<pc, currentTry, cache, ctx, outcome>>

Over == /\ \A t \in Task : pc[t] = "done"
        /\ UNCHANGED vars

-----------------------------------------------------------------------------
Work(t) == \/ NextTry(t) \/ CheckCache(t) \/ Refill(t) \/ BeginFails(t)
           \/ RefillLock(t) \/ Reserve(t) \/ ReserveFails(t) \/ Begin(t)
           \/ Lock(t) \/ BodyFails(t) \/ Commit(t) \/ CommitDoubtful(t)
           \/ CommitFails(t) \/ Deadlock(t) \/ Revert(t)
           \/ Sleep(t) \/ GiveUp(t) \/ WakeUp(t) \/ DoneWhileAsleep(t)

Next == \/ \E t \in Task : \/ Work(t) \/ AllocId(t) \/ CtxDone(t) \/ TxCancelled(t)
                           \/ \E r \in Row : Want(t, r)
        \/ Over

Spec == Init /\ [][Next]_vars

\* What may not take forever: waiting for alloc.lock and for a connection, which
\* the runtime hands out in turn; statements and commits that wait for nobody;
\* the database's search for deadlocks; the sleep.  A request is not obliged
\* to be cancelled, nor a statement to fail.
Waits(t) == CheckCache(t) \/ Refill(t) \/ RefillLock(t) \/ Begin(t) \/ Lock(t)
GoesOn(t) == \/ NextTry(t) \/ BeginFails(t) \/ Deadlock(t) \/ Reserve(t) \/ ReserveFails(t)
             \/ Commit(t) \/ CommitFails(t) \/ Revert(t)
             \/ Sleep(t) \/ GiveUp(t) \/ WakeUp(t)
Fairness == \A t \in Task : SF_vars(Waits(t)) /\ WF_vars(GoesOn(t))

FairSpec == Spec /\ Fairness

-----------------------------------------------------------------------------
\* Properties.

TypeOK ==
  /\ pc \in [Task -> PC]
  /\ currentTry \in [Task -> 0..taskMaxRetries]
  /\ conn \subseteq Task /\ lock \in Task \cup {None} /\ total \in Nat
  /\ rows \in [Row -> Task \cup {None}]
  /\ want \in [Task -> Row \cup {None}]
  /\ ctx \in [Task -> {"live", "done"}]
  /\ err \in [Task -> Err]
  /\ effect \in [Task -> {"none", "made", "doubt"}]
  /\ answer \in [Task -> {"none", "ok", "failed"}]

\* However many requests come in, there are never more connections than the
\* pool allows, and a task that sleeps between two tries, waits for its turn or
\* has its answer keeps no connection, no row and no lock from the others.
IdleHoldsNothing ==
  /\ Cardinality(conn) <= MaxConns
  /\ \A t \in Task : pc[t] \in {"next", "check", "refill", "begin", "decide", "sleep", "done"} =>
       /\ t \notin conn /\ lock # t
       /\ \A r \in Row : rows[r] # t

\* db.Commiter and TaskRunner: see TaskPromise.  A task whose commit was left
\* in doubt is not run again, so its changes are never made twice.
Promise == INSTANCE TaskPromise
RunsOnce == Promise!Spec

\* Every request is answered, even with fewer connections than requests.
TasksEnd == \A t \in Task : <>(pc[t] = "done")
==============================================================================
