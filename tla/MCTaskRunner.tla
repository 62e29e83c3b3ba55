---------------------------- MODULE MCTaskRunner ----------------------------
(***************************************************************************)
(* Instances of TaskRunner for TLC: a pool with a connection for each of   *)
(* the tasks, which can then wait for each other's rows, and one with      *)
(* fewer connections than tasks.                                           *)
(***************************************************************************)
EXTENDS TaskRunner

CONSTANTS r1, r2, t1, t2

VARIABLE pool \* which of the two

Narrow == INSTANCE TaskRunner WITH MaxConns <- 1, taskMaxRetries <- 2

MCInit == Init /\ pool \in {"wide", "narrow"}

Wide(action) == pool = "wide" /\ action
Small(action) == pool = "narrow" /\ action

MCNext == (Wide(Next) \/ Small(Narrow!Next)) /\ UNCHANGED pool

MCSpec ==
  /\ MCInit /\ [][MCNext]_<<vars, pool>>
  /\ \A t \in Task :
       /\ SF_vars(Wide(Waits(t))) /\ SF_vars(Small(Narrow!Waits(t)))
       /\ WF_vars(Wide(GoesOn(t))) /\ WF_vars(Small(Narrow!GoesOn(t)))
=============================================================================
