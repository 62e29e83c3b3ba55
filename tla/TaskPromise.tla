----------------------------- MODULE TaskPromise -----------------------------
(***************************************************************************)
(* What TaskRunner.Run promises for a task: however often it runs the      *)
(* task, the changes are made at most once, and a nil answer means that    *)
(* they are made.  After an error they are made only if a commit was left  *)
(* in doubt, as db.Commiter says of Commit: "If an error is returned, the  *)
(* transaction may have been successful, or it may have failed."           *)
(***************************************************************************)
CONSTANT Task

VARIABLES effect, \* effect[t]: "none", "made", or "doubt": made, and not reported
          answer  \* answer[t]: "none" yet, "ok" or "failed"

Init == /\ effect = [t \in Task |-> "none"]
        /\ answer = [t \in Task |-> "none"]

Succeed(t) == /\ answer[t] = "none" /\ effect[t] = "none"
              /\ effect' = [effect EXCEPT ![t] = "made"]
              /\ answer' = [answer EXCEPT ![t] = "ok"]

Doubt(t) == /\ answer[t] = "none" /\ effect[t] = "none"
            /\ effect' = [effect EXCEPT ![t] = "doubt"]
            /\ UNCHANGED answer

Fail(t) == /\ answer[t] = "none"
           /\ answer' = [answer EXCEPT ![t] = "failed"]
           /\ UNCHANGED effect

Next == \E t \in Task : Succeed(t) \/ Doubt(t) \/ Fail(t)

Spec == Init /\ [][Next]_<<effect, answer>>
==============================================================================
