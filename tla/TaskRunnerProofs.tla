--------------------------- MODULE TaskRunnerProofs ---------------------------
(***************************************************************************)
(* Proofs about TaskRunner, for any number of tasks, rows, connections and *)
(* tries.                                                                  *)
(***************************************************************************)
EXTENDS TaskRunner, FiniteSetTheorems, TLAPS

\* Where a task may have a transaction.
Holding == {"refillLock", "reserve", "body", "revert"}

\* Connections are counted; rows belong to transactions; alloc.lock belongs to
\* the task that refills.
HoldInv ==
  /\ IsFiniteSet(conn) /\ Cardinality(conn) <= MaxConns
  /\ \A t \in conn : pc[t] \in Holding
  /\ \A r \in Row : rows[r] # None => rows[r] \in conn
  /\ \A t \in Task : lock = t <=> pc[t] = "reserve"

\* A task has its answer when it is over.  Until then its changes are not made,
\* unless a commit was left in doubt, and then it is on its way to the answer.
EffectInv == \A t \in Task :
  /\ answer[t] = "none" <=> pc[t] # "done"
  /\ effect[t] # "none" /\ pc[t] # "done" =>
       pc[t] \in {"revert", "decide"} /\ err[t] = "doubtful"

IInv == TypeOK /\ HoldInv /\ EffectInv

-----------------------------------------------------------------------------
(* What the steps have in common.                                          *)

\* Ending a transaction keeps the types of what it touches.
LEMMA EndType ==
  ASSUME TypeOK, NEW t \in Task, End(t)
  PROVE  /\ conn' \subseteq Task
         /\ rows' \in [Row -> Task \cup {None}]
         /\ want' \in [Task -> Row \cup {None}]
BY DEF TypeOK, End

\* Ending a transaction never adds a connection, and frees its rows.
LEMMA EndHolds ==
  ASSUME TypeOK, HoldInv, NEW t \in Task, End(t)
  PROVE  /\ IsFiniteSet(conn') /\ Cardinality(conn') <= MaxConns
         /\ conn' = conn \ {t}
         /\ \A r \in Row : rows'[r] # None => rows'[r] \in conn'
<1>1. conn' = conn \ {t} /\ IsFiniteSet(conn)
  BY DEF End, HoldInv
<1>2. IsFiniteSet(conn') /\ Cardinality(conn') <= Cardinality(conn)
  BY <1>1, FS_RemoveElement, FS_CardinalityType, FS_Subset
<1>3. Cardinality(conn) \in Nat /\ Cardinality(conn') \in Nat
  BY <1>1, <1>2, FS_CardinalityType
<1>4. Cardinality(conn') <= MaxConns
  BY <1>2, <1>3, BoundAssumption DEF HoldInv
<1>5. \A r \in Row : rows'[r] # None => rows'[r] \in conn'
  BY <1>1 DEF End, HoldInv, TypeOK
<1> QED BY <1>1, <1>2, <1>4, <1>5

-----------------------------------------------------------------------------
(* Types.                                                                  *)

LEMMA StepKeepsTypes ==
  ASSUME TypeOK, [Next]_vars
  PROVE  TypeOK'
<1> USE BoundAssumption, NoneAssumption
<1>1. CASE UNCHANGED vars
  BY <1>1 DEF vars, TypeOK, db, cache, outcome
<1>2. CASE Over
  BY <1>2 DEF Over, vars, TypeOK, db, cache, outcome
<1>3. ASSUME NEW t \in Task, NextTry(t) PROVE TypeOK'
  <2>1. currentTry' \in [Task -> 0..taskMaxRetries]
    <3>1. currentTry[t] \in 0..taskMaxRetries
      BY DEF TypeOK
    <3>2. CASE NoTriesLeft(t)
      BY <1>3, <3>2 DEF NextTry, TypeOK
    <3>3. CASE ~NoTriesLeft(t)
      <4>1. currentTry[t] + 1 \in 0..taskMaxRetries
        BY <3>1, <3>3 DEF NoTriesLeft
      <4>2. currentTry' = [currentTry EXCEPT ![t] = currentTry[t] + 1]
        BY <1>3, <3>3 DEF NextTry, Tried
      <4> QED BY <4>1, <4>2 DEF TypeOK
    <3> QED BY <3>2, <3>3
  <2>2. pc' \in [Task -> PC] /\ err' \in [Task -> Err] /\ answer' \in [Task -> {"none", "ok", "failed"}]
    BY <1>3 DEF NextTry, Goto, Answer, TypeOK, PC, Err
  <2>3. UNCHANGED <<conn, rows, want, lock, total, ctx, effect>>
    BY <1>3 DEF NextTry, Goto, Answer, db, cache
  <2> QED BY <2>1, <2>2, <2>3 DEF TypeOK
<1>4. ASSUME NEW t \in Task, CheckCache(t) PROVE TypeOK'
  BY <1>4 DEF CheckCache, Goto, TypeOK, db, cache, outcome, PC
<1>5. ASSUME NEW t \in Task, Refill(t) \/ Begin(t) PROVE TypeOK'
  BY <1>5 DEF Refill, Begin, Open, Goto, TypeOK, cache, outcome, PC
<1>6. ASSUME NEW t \in Task, BeginFails(t) PROVE TypeOK'
  BY <1>6 DEF BeginFails, Goto, Fails, TypeOK, db, cache, PC, Err
<1>7. ASSUME NEW t \in Task, RefillLock(t) PROVE TypeOK'
  BY <1>7, EndType DEF RefillLock, Goto, TypeOK, db, outcome, PC
<1>8. ASSUME NEW t \in Task, Reserve(t) PROVE TypeOK'
  BY <1>8, EndType DEF Reserve, Goto, TypeOK, outcome, PC
<1>9. ASSUME NEW t \in Task, ReserveFails(t) PROVE TypeOK'
  BY <1>9, EndType DEF ReserveFails, Goto, Fails, TypeOK, PC, Err
<1>10. ASSUME NEW t \in Task, NEW r \in Row, Want(t, r) PROVE TypeOK'
  BY <1>10 DEF Want, TypeOK, cache, outcome
<1>11. ASSUME NEW t \in Task, Lock(t) PROVE TypeOK'
  BY <1>11 DEF Lock, TypeOK, cache, outcome
<1>12. ASSUME NEW t \in Task, AllocId(t) PROVE TypeOK'
  BY <1>12 DEF AllocId, TypeOK, db, outcome
<1>13. ASSUME NEW t \in Task, BodyFails(t) PROVE TypeOK'
  BY <1>13 DEF BodyFails, Goto, Fails, TypeOK, db, cache, PC, Err
<1>14. ASSUME NEW t \in Task, Deadlock(t) PROVE TypeOK'
  BY <1>14, EndType DEF Deadlock, Goto, Fails, TypeOK, cache, PC, Err
<1>15. ASSUME NEW t \in Task, Commit(t) PROVE TypeOK'
  BY <1>15, EndType DEF Commit, Goto, TypeOK, cache, PC
<1>16. ASSUME NEW t \in Task, CommitDoubtful(t) PROVE TypeOK'
  BY <1>16, EndType DEF CommitDoubtful, Goto, TypeOK, cache, PC, Err
<1>17. ASSUME NEW t \in Task, CommitFails(t) PROVE TypeOK'
  BY <1>17, EndType DEF CommitFails, Goto, Fails, TypeOK, cache, PC, Err
<1>18. ASSUME NEW t \in Task, Revert(t) PROVE TypeOK'
  BY <1>18, EndType DEF Revert, Goto, TypeOK, cache, outcome, PC
<1>19. ASSUME NEW t \in Task, Sleep(t) \/ WakeUp(t) PROVE TypeOK'
  BY <1>19 DEF Sleep, WakeUp, Goto, TypeOK, db, cache, outcome, PC
<1>20. ASSUME NEW t \in Task, GiveUp(t) \/ DoneWhileAsleep(t) PROVE TypeOK'
  BY <1>20 DEF GiveUp, DoneWhileAsleep, Goto, Answer, TypeOK, db, cache, PC
<1>21. ASSUME NEW t \in Task, CtxDone(t) PROVE TypeOK'
  BY <1>21 DEF CtxDone, TypeOK, db, cache, outcome
<1>22. ASSUME NEW t \in Task, TxCancelled(t) PROVE TypeOK'
  BY <1>22, EndType DEF TxCancelled, TypeOK, cache, outcome
<1> QED
  BY <1>1, <1>2, <1>3, <1>4, <1>5, <1>6, <1>7, <1>8, <1>9, <1>10, <1>11, <1>12, <1>13,
     <1>14, <1>15, <1>16, <1>17, <1>18, <1>19, <1>20, <1>21, <1>22 DEF Next, Work

-----------------------------------------------------------------------------
(* What a task holds.                                                      *)

LEMMA StepKeepsHolds ==
  ASSUME TypeOK, HoldInv, [Next]_vars
  PROVE  HoldInv'
<1> USE BoundAssumption, NoneAssumption
<1>1. CASE UNCHANGED vars
  BY <1>1 DEF vars, HoldInv, db, cache, outcome
<1>2. CASE Over
  BY <1>2 DEF Over, vars, HoldInv, db, cache, outcome
<1>3. ASSUME NEW t \in Task, NextTry(t) PROVE HoldInv'
  BY <1>3 DEF NextTry, Goto, Answer, TypeOK, HoldInv, Holding, db, cache
<1>4. ASSUME NEW t \in Task, CheckCache(t) PROVE HoldInv'
  BY <1>4 DEF CheckCache, Goto, TypeOK, HoldInv, Holding, db, cache
<1>5. ASSUME NEW t \in Task, Refill(t) \/ Begin(t) PROVE HoldInv'
  <2>1. IsFiniteSet(conn) /\ Cardinality(conn) \in Nat /\ Cardinality(conn) < MaxConns
    BY <1>5, FS_CardinalityType DEF HoldInv, Refill, Begin, Open, ConnFree
  <2>2. conn' = conn \cup {t}
    BY <1>5 DEF Refill, Begin, Open
  <2>3. IsFiniteSet(conn') /\ Cardinality(conn') <= MaxConns
    BY <2>1, <2>2, FS_AddElement
  <2> QED BY <1>5, <2>2, <2>3 DEF Refill, Begin, Open, Goto, TypeOK, HoldInv, Holding, cache
<1>6. ASSUME NEW t \in Task, BeginFails(t) PROVE HoldInv'
  BY <1>6 DEF BeginFails, Goto, TypeOK, HoldInv, Holding, db, cache
<1>7. ASSUME NEW t \in Task, RefillLock(t) PROVE HoldInv'
  <2>1. CASE total > 0
    BY <1>7, <2>1, EndHolds DEF RefillLock, Goto, TypeOK, HoldInv, Holding
  <2>2. CASE ~(total > 0)
    BY <1>7, <2>2 DEF RefillLock, Goto, TypeOK, HoldInv, Holding, db
  <2> QED BY <2>1, <2>2
<1>8. ASSUME NEW t \in Task, Reserve(t) \/ ReserveFails(t) PROVE HoldInv'
  <2>1. End(t) /\ lock' = None /\ pc[t] = "reserve"
    BY <1>8 DEF Reserve, ReserveFails
  <2>2. pc' = [pc EXCEPT ![t] = "begin"] \/ pc' = [pc EXCEPT ![t] = "decide"]
    BY <1>8 DEF Reserve, ReserveFails, Goto
  <2> QED BY <2>1, <2>2, EndHolds DEF TypeOK, HoldInv, Holding
<1>9. ASSUME NEW t \in Task, NEW r \in Row, Want(t, r) PROVE HoldInv'
  BY <1>9 DEF Want, HoldInv, cache
<1>10. ASSUME NEW t \in Task, Lock(t) PROVE HoldInv'
  BY <1>10 DEF Lock, TypeOK, HoldInv, cache
<1>11. ASSUME NEW t \in Task, AllocId(t) PROVE HoldInv'
  BY <1>11 DEF AllocId, HoldInv, db
<1>12. ASSUME NEW t \in Task, BodyFails(t) PROVE HoldInv'
  BY <1>12 DEF BodyFails, Goto, TypeOK, HoldInv, Holding, db, cache
<1>13. ASSUME NEW t \in Task,
              Deadlock(t) \/ Commit(t) \/ CommitDoubtful(t) \/ CommitFails(t) \/ Revert(t)
       PROVE  HoldInv'
  <2>1. End(t) /\ lock' = lock /\ pc[t] \in {"body", "revert"}
    BY <1>13 DEF Deadlock, Commit, CommitDoubtful, CommitFails, Revert, cache
  <2>2. \E l \in {"revert", "done", "decide"} : pc' = [pc EXCEPT ![t] = l]
    BY <1>13 DEF Deadlock, Commit, CommitDoubtful, CommitFails, Revert, Goto
  <2> QED BY <2>1, <2>2, EndHolds DEF TypeOK, HoldInv, Holding
<1>14. ASSUME NEW t \in Task, Sleep(t) \/ WakeUp(t) \/ GiveUp(t) \/ DoneWhileAsleep(t)
       PROVE  HoldInv'
  BY <1>14 DEF Sleep, WakeUp, GiveUp, DoneWhileAsleep, Goto, TypeOK, HoldInv, Holding, db, cache
<1>15. ASSUME NEW t \in Task, CtxDone(t) PROVE HoldInv'
  BY <1>15 DEF CtxDone, HoldInv, db, cache
<1>16. ASSUME NEW t \in Task, TxCancelled(t) PROVE HoldInv'
  BY <1>16, EndHolds DEF TxCancelled, HoldInv, cache
<1> QED
  BY <1>1, <1>2, <1>3, <1>4, <1>5, <1>6, <1>7, <1>8, <1>9, <1>10, <1>11, <1>12, <1>13,
     <1>14, <1>15, <1>16 DEF Next, Work

-----------------------------------------------------------------------------
(* What a task has done.                                                   *)

LEMMA StepKeepsEffects ==
  ASSUME TypeOK, EffectInv, [Next]_vars
  PROVE  EffectInv'
<1>1. CASE UNCHANGED vars \/ Over
  BY <1>1 DEF Over, vars, EffectInv, outcome
<1>2. ASSUME NEW t \in Task, NextTry(t) PROVE EffectInv'
  BY <1>2 DEF NextTry, Goto, Answer, TypeOK, EffectInv
<1>3. ASSUME NEW t \in Task,
             CheckCache(t) \/ Refill(t) \/ Begin(t) \/ RefillLock(t) \/ Reserve(t)
      PROVE  EffectInv'
  BY <1>3 DEF CheckCache, Refill, Begin, Open, RefillLock, Reserve, Goto, TypeOK, EffectInv, outcome
<1>4. ASSUME NEW t \in Task,
             BeginFails(t) \/ ReserveFails(t) \/ BodyFails(t) \/ Deadlock(t) \/ CommitFails(t)
      PROVE  EffectInv'
  BY <1>4 DEF BeginFails, ReserveFails, BodyFails, Deadlock, CommitFails, Fails, Goto, TypeOK, EffectInv
<1>5. ASSUME NEW t \in Task, Commit(t) \/ CommitDoubtful(t) PROVE EffectInv'
  BY <1>5 DEF Commit, CommitDoubtful, Goto, TypeOK, EffectInv
<1>6. ASSUME NEW t \in Task, Revert(t) PROVE EffectInv'
  BY <1>6 DEF Revert, Goto, TypeOK, EffectInv, outcome
<1>7. ASSUME NEW t \in Task, Sleep(t) \/ WakeUp(t) PROVE EffectInv'
  BY <1>7 DEF Sleep, CanRetry, WakeUp, Goto, TypeOK, EffectInv, outcome
<1>8. ASSUME NEW t \in Task, GiveUp(t) \/ DoneWhileAsleep(t) PROVE EffectInv'
  BY <1>8 DEF GiveUp, DoneWhileAsleep, Goto, Answer, TypeOK, EffectInv
<1>9. ASSUME NEW t \in Task,
             Lock(t) \/ AllocId(t) \/ CtxDone(t) \/ TxCancelled(t) \/ \E r \in Row : Want(t, r)
      PROVE  EffectInv'
  BY <1>9 DEF Want, Lock, AllocId, CtxDone, TxCancelled, EffectInv, outcome
<1> QED
  BY <1>1, <1>2, <1>3, <1>4, <1>5, <1>6, <1>7, <1>8, <1>9 DEF Next, Work

-----------------------------------------------------------------------------
LEMMA InitEstablishes == Init => IInv
<1> SUFFICES ASSUME Init PROVE IInv
  OBVIOUS
<1>1. TypeOK
  BY BoundAssumption DEF Init, TypeOK, PC, Err
<1>2. IsFiniteSet(conn) /\ Cardinality(conn) <= MaxConns
  BY FS_EmptySet, BoundAssumption DEF Init
<1>3. HoldInv
  BY <1>2, NoneAssumption DEF Init, HoldInv
<1>4. EffectInv
  BY DEF Init, EffectInv
<1> QED BY <1>1, <1>3, <1>4 DEF IInv

LEMMA Inductive == Spec => []IInv
<1>1. IInv /\ [Next]_vars => IInv'
  BY StepKeepsTypes, StepKeepsHolds, StepKeepsEffects DEF IInv
<1> QED BY <1>1, InitEstablishes, PTL DEF Spec

\* The state of the runner and of the database stays well formed.
THEOREM TypeCorrect == Spec => []TypeOK
<1>1. IInv => TypeOK
  BY DEF IInv
<1> QED BY <1>1, Inductive, PTL

\* A task that is not inside its job, before it, between two tries or with its
\* answer, keeps no connection, row or lock from the others, and the pool is
\* never overdrawn, whatever fails and whenever a context is done.
THEOREM HoldsNothing == Spec => []IdleHoldsNothing
<1>1. IInv => IdleHoldsNothing
  BY NoneAssumption DEF IInv, TypeOK, HoldInv, Holding, IdleHoldsNothing
<1> QED BY <1>1, Inductive, PTL

\* TaskRunner.Run keeps what TaskPromise says: however many tries and failures,
\* the changes of a task are made once at most, and always when it says so.
THEOREM Refines == Spec => RunsOnce
<1>1. Init => Promise!Init
  BY DEF Init, Promise!Init
<1>2. ASSUME IInv, [Next]_vars
      PROVE  [Promise!Next]_<<effect, answer>>
  <2>1. CASE UNCHANGED vars \/ Over
    BY <2>1 DEF Over, vars, outcome
  <2>2. ASSUME NEW t \in Task, NextTry(t) PROVE [Promise!Next]_<<effect, answer>>
    BY <1>2, <2>2 DEF NextTry, Answer, IInv, EffectInv, Promise!Next, Promise!Fail
  <2>3. ASSUME NEW t \in Task,
               \/ CheckCache(t) \/ Refill(t) \/ Begin(t) \/ RefillLock(t) \/ Reserve(t)
               \/ Revert(t) \/ Sleep(t) \/ WakeUp(t) \/ Lock(t) \/ AllocId(t)
               \/ CtxDone(t) \/ TxCancelled(t) \/ \E r \in Row : Want(t, r)
        PROVE  UNCHANGED <<effect, answer>>
    BY <2>3 DEF CheckCache, Refill, Begin, Open, RefillLock, Reserve, Revert, Sleep, WakeUp,
                Lock, AllocId, CtxDone, TxCancelled, Want, outcome
  <2>4. ASSUME NEW t \in Task,
               BeginFails(t) \/ ReserveFails(t) \/ BodyFails(t) \/ Deadlock(t) \/ CommitFails(t)
        PROVE  UNCHANGED <<effect, answer>>
    BY <2>4 DEF BeginFails, ReserveFails, BodyFails, Deadlock, CommitFails, Fails
  <2>5. ASSUME NEW t \in Task, Commit(t) PROVE Promise!Succeed(t)
    BY <1>2, <2>5 DEF Commit, IInv, TypeOK, EffectInv, Promise!Succeed
  <2>6. ASSUME NEW t \in Task, CommitDoubtful(t) PROVE Promise!Doubt(t)
    BY <1>2, <2>6 DEF CommitDoubtful, IInv, TypeOK, EffectInv, Promise!Doubt
  <2>7. ASSUME NEW t \in Task, GiveUp(t) \/ DoneWhileAsleep(t) PROVE Promise!Fail(t)
    BY <1>2, <2>7 DEF GiveUp, DoneWhileAsleep, Answer, IInv, EffectInv, Promise!Fail
  <2> QED
    BY <1>2, <2>1, <2>2, <2>3, <2>4, <2>5, <2>6, <2>7 DEF Next, Work, Promise!Next
<1> QED BY <1>1, <1>2, Inductive, PTL DEF Spec, RunsOnce, Promise!Spec
===============================================================================
