----------------------------- MODULE MCPicTags -----------------------------
(***************************************************************************)
(* Instances of PicTags for TLC: two tags of two pictures, and one PicTag  *)
(* that is changed; and only tasks that need both tags, which must end.    *)
(* Tags that come back, and changes of all PicTags, are in MCUsers.        *)
(***************************************************************************)
EXTENDS PicTags
CONSTANTS t1, t2, p1, p2, n1, n2
VARIABLE part \* which of the two

OneIsEdited == [p \in Pic |-> [g \in TagId |-> IF p = p1 /\ g = 1 THEN 2 ELSE 1]]
AnyRequest == [kind : Kind, pic : Pic, names : SUBSET Name]
Both == INSTANCE PicTags WITH
  Requests <- [kind : {"add"}, pic : Pic, names : {Name}]
                \cup [kind : {"purge"}, pic : Pic, names : {{}}],
  MaxVersion <- [p \in Pic |-> [g \in TagId |-> 1]]
ASSUME Both!BoundAssumption /\ Both!RequestAssumption

MCInit == Init /\ part \in {"any", "both"}
OnBoth(action) == part = "both" /\ action
MCNext == /\ \/ part = "any" /\ Next
             \/ OnBoth(Both!Next)
          /\ UNCHANGED part

\* The fairness of PicTags, where tasks must end.
MCSpec == /\ MCInit /\ [][MCNext]_<<vars, part>>
          /\ \A t \in Task : SF_vars(OnBoth(Both!Step(t)))

\* Tasks that lock tags in different orders end for all that: the database
\* stops one of them, and TaskRunner does not begin again for ever.
TagTasksEnd == part = "both" => TasksEnd
=============================================================================
