---------------------------- MODULE PicLifecycle ----------------------------
(***************************************************************************)
(* What users may see happen to a picture: the phases of docs/deletion.md  *)
(* as the tasks of be/tasks implement them.  A deletion can be temporary;  *)
(* then uploading the picture again brings it back.                        *)
(***************************************************************************)

CONSTANT Content   \* the pictures there are

VARIABLE state     \* state[c]: the phase of picture c

Phases == {"absent", "live", "soft", "softTemporary", "hard", "hardTemporary"}

Init == state = [c \in Content |-> "absent"]

Become(c, from, to) == /\ state[c] \in from
                       /\ state' = [state EXCEPT ![c] = to]

\* A first upload, or one that lifts a temporary deletion.
Upload(c) == Become(c, {"absent", "softTemporary", "hardTemporary"}, "live")

\* Marking can be repeated, and may make a deletion temporary or permanent.
SoftDelete(c) == \E to \in {"soft", "softTemporary"} :
                   Become(c, {"live", "soft", "softTemporary"}, to)

\* Deleting keeps the deletion as temporary as it was marked.
HardDelete(c) == \/ Become(c, {"live", "soft"}, "hard")
                 \/ Become(c, {"softTemporary"}, "hardTemporary")

Purge(c) == Become(c, Phases \ {"absent"}, "absent")

Next == \E c \in Content : \/ Upload(c) \/ SoftDelete(c)
                           \/ HardDelete(c) \/ Purge(c)

Spec == Init /\ [][Next]_state
==============================================================================
