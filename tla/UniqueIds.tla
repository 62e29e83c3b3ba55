------------------------------ MODULE UniqueIds ------------------------------
(***************************************************************************)
(* What the id allocator of be/schema/db promises to the jobs that call    *)
(* it: an id that a committed job used is never handed out again, and no   *)
(* two jobs ever commit the same id.  Nothing is said of ids that are      *)
(* lost, nor of the order ids come in.                                     *)
(***************************************************************************)

CONSTANTS Thread,   \* goroutines that run jobs
          Id        \* the ids there are

VARIABLES held,     \* held[t]: the ids the open job of t was given
          used      \* the ids committed jobs have used

vars == <<held, used>>

Init == /\ held = [t \in Thread |-> {}]
        /\ used = {}

\* A job is given an id nobody has used and it does not have yet.
Give(t) == /\ \E id \in Id \ (used \cup held[t]) :
                held' = [held EXCEPT ![t] = @ \cup {id}]
           /\ UNCHANGED used

\* A job commits what it was given; none of it was used before.
Use(t) == /\ held[t] \cap used = {}
          /\ used' = used \cup held[t]
          /\ held' = [held EXCEPT ![t] = {}]

\* Jobs end without using their ids, several at once when a server stops.
Forget(T) == /\ held' = [t \in Thread |-> IF t \in T THEN {} ELSE held[t]]
             /\ UNCHANGED used

Next == \/ \E t \in Thread : Give(t) \/ Use(t)
        \/ \E T \in SUBSET Thread : Forget(T)

Spec == Init /\ [][Next]_vars
==============================================================================
