---------------------------- MODULE CommentTree ----------------------------
(***************************************************************************)
(* The comments of a picture on their way to the page: LookupPicTask makes *)
(* a tree of the rows, the back end sends it as a list, and the front end  *)
(* makes a tree of that again, with the names of the authors it asked for. *)
(***************************************************************************)
EXTENDS Filters, FiniteSets, SequencesExt

CONSTANTS CommentId,
          Author,      \* user ids, AnonymousUserId among them if it may comment
          Subject      \* the subject user's userCred

CommentIdAssumption == CommentId \subseteq Nat \ {0}
AuthorAssumption == Author \subseteq Nat

VARIABLES comments,  \* comments[c]: [parent, author]
          pc, pcs,   \* the rows read, and how far they got
          rest,      \* rows, or list entries, that are still to be taken
          children,  \* children[c], where c has a node in the tree
          orphans,   \* nodes by the parent they wait for
          puis       \* authors that were looked up

vars == <<comments, pc, pcs, rest, children, orphans, puis>>

Root == 0
Nothing == <<>>      \* a map without entries, or an empty list

Init == /\ comments = Nothing /\ pcs = Nothing
        /\ pc = "idle" /\ rest = <<>>
        /\ children = Nothing /\ orphans = Nothing /\ puis = {}

\* m with m[k] = v
With(m, k, v) == [j \in DOMAIN m \cup {k} |-> IF j = k THEN v ELSE m[j]]
At(m, k) == IF k \in DOMAIN m THEN m[k] ELSE <<>>
Without(m, k) == [j \in DOMAIN m \ {k} |-> m[j]]

\* AddPicCommentTask.  Servers have ranges of ids: a reply may have a smaller
\* id than its parent.
AddComment(c, p, a) ==
  /\ c \notin DOMAIN comments /\ p \in DOMAIN comments \cup {Root}
  /\ comments' = With(comments, c, [parent |-> p, author |-> a])
  /\ UNCHANGED <<pc, pcs, rest, children, orphans, puis>>

\* LookupPicTask.Run: rows in the order of their keys, filtered.
LookupPic ==
  /\ pc = "idle" /\ pc' = "tree"
  /\ pcs' = [c \in DOMAIN comments |-> [comments[c] EXCEPT !.author =
               FilterInternal(Subject, "comment", [author |-> @, ext |-> FALSE]).author]]
  /\ rest' = SetToSortSeq(DOMAIN comments, <)
  /\ children' = With(Nothing, Root, <<>>) /\ orphans' = Nothing
  /\ UNCHANGED <<comments, puis>>

Waiting(c) == Without(orphans, c)

\* One round of buildCommentTree.
TreeNode ==
  /\ pc = "tree" /\ rest # <<>>
  /\ LET c == Head(rest)
         p == pcs[c].parent
         trees == With(children, c, At(orphans, c))
         left == Waiting(c)
     IN IF p \in DOMAIN trees
        THEN /\ children' = With(trees, p, Append(trees[p], c))
             /\ orphans' = left
        ELSE /\ children' = trees
             /\ orphans' = With(left, p, Append(At(left, p), c))
  /\ rest' = Tail(rest)
  /\ UNCHANGED <<comments, pc, pcs, puis>>

\* Broken: a comment comes before its replies.
RECURSIVE FlattenDown(_)
FlattenDown(c) == <<c>> \o FlattenSeq([i \in 1..Len(children[c]) |-> FlattenDown(children[c][i])])
\* flattenPicCommentTree: a comment comes after its replies.
RECURSIVE Flatten(_)
Flatten(c) == FlattenSeq([i \in 1..Len(children[c]) |-> Flatten(children[c][i])]) \o <<c>>

\* "Always trim the fakeroot"
List == SelectSeq(Flatten(Root), LAMBDA c : c # Root)

\* The end of buildCommentTree, and the answer to the front end.
EndTree ==
  /\ pc = "tree" /\ rest = <<>>
  /\ IF orphans # Nothing THEN pc' = "panic" /\ UNCHANGED rest
     ELSE pc' = "users" /\ rest' = List
  /\ UNCHANGED <<comments, pcs, children, orphans, puis>>

Named == {pcs[c].author : c \in DOMAIN pcs} \ {AnonymousUserId}

\* viewerHandler.static asks for the authors, if the user may know them; one
\* failure is enough for it to have none.
LookupUsers(fails) ==
  /\ pc = "users" /\ pc' = "page"
  /\ puis' = IF ~fails /\ {"USER_READ_PUBLIC", "USER_READ_ALL"} \cap Subject.cs # {}
             THEN Named ELSE {}
  /\ children' = Nothing /\ orphans' = Nothing
  /\ UNCHANGED <<comments, pcs, rest>>

\* One entry of the list: its replies are those that came before it.  orphans
\* is the map of replies by parent.  An author who was not found is nil.
PageNode ==
  /\ pc = "page" /\ rest # <<>>
  /\ LET c == Head(rest)
         p == pcs[c].parent
     IN IF pcs[c].author \notin puis \cup {AnonymousUserId}
        THEN pc' = "panic" /\ UNCHANGED <<children, orphans>>
        ELSE /\ children' = With(children, c, At(orphans, c))
             /\ orphans' = With(orphans, p, Append(At(orphans, p), c))
             /\ UNCHANGED pc
  /\ rest' = Tail(rest)
  /\ UNCHANGED <<comments, pcs, puis>>

\* The page is shown, and the next one may begin.
Render ==
  /\ pc = "page" /\ rest = <<>> /\ pc' = "shown"
  /\ children' = With(children, Root, At(orphans, Root))
  /\ UNCHANGED <<comments, pcs, rest, orphans, puis>>

Next == \/ \E c \in CommentId, p \in CommentId \cup {Root}, a \in Author : AddComment(c, p, a)
        \/ LookupPic \/ TreeNode \/ EndTree
        \/ \E fails \in BOOLEAN : LookupUsers(fails)
        \/ PageNode \/ Render

Spec == Init /\ [][Next]_vars

-----------------------------------------------------------------------------
\* Properties.

\* The comments of a picture are a tree at every moment, so that LookupPicTask
\* never meets a comment without a parent ("unparented comments").
NoOrphansLeft == pc = "tree" /\ rest = <<>> => orphans = Nothing

\* The tree of the back end, and the page, have every comment that was read
\* below its parent, once, whatever the order of the ids: the front end relies
\* on the order of the list, in which replies come first.
TreeIsWhole ==
  (pc = "tree" /\ rest = <<>>) \/ pc = "shown" =>
    \A c \in DOMAIN pcs \cup {Root} :
      /\ c \in DOMAIN children
      /\ IsInjective(children[c])
      /\ {children[c][i] : i \in 1..Len(children[c])} = {d \in DOMAIN pcs : pcs[d].parent = c}

\* viewerHandler.static of an author who cannot be looked up: "discard the error,
\* since it's probably not fatal".
LookupNotFatal == pc # "panic"
==============================================================================
