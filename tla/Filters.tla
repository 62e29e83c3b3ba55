------------------------------ MODULE Filters ------------------------------
(***************************************************************************)
(* What a requester is shown of rows that belong to users.  A requester is *)
(* a userCred: an id, 0 if nobody is logged in, and a set of capabilities, *)
(* the user's or those of the configuration for anonymous requests.        *)
(***************************************************************************)
EXTENDS Integers, Sequences

AnonymousUserId == 0

Kind == {"pic", "tag", "comment", "vote", "commentVote"}

\* The capability to read who made a row of a kind ...
ReadCap == [pic |-> "USER_READ_PICS", tag |-> "USER_READ_PIC_TAG",
            comment |-> "USER_READ_PIC_COMMENT",
            vote |-> "USER_READ_PIC_VOTE", commentVote |-> "USER_READ_PIC_VOTE"]
\* ... and its extension data.
ExtCap == [pic |-> "PIC_EXTENSION_READ", tag |-> "PIC_TAG_EXTENSION_READ",
           comment |-> "PIC_COMMENT_EXTENSION_READ",
           vote |-> "PIC_VOTE_EXTENSION_READ", commentVote |-> "PIC_VOTE_EXTENSION_READ"]

Capability == {"USER_READ_ALL", "USER_READ_SELF", "USER_READ_PUBLIC", "PIC_INDEX"}
              \cup {ReadCap[k] : k \in Kind} \cup {ExtCap[k] : k \in Kind}

NamesAuthor(uc, kind, author) ==
  \/ "USER_READ_ALL" \in uc.cs
  \/ {"USER_READ_PUBLIC", ReadCap[kind]} \subseteq uc.cs
  \/ uc.subjectUserId = author /\ "USER_READ_SELF" \in uc.cs

\* A row is [author, ext]; a picture has a row for each of its sources.
FilterInternal(uc, kind, row) ==
  [author |-> IF NamesAuthor(uc, kind, row.author) THEN row.author ELSE AnonymousUserId,
   ext |-> row.ext /\ ExtCap[kind] \in uc.cs]

\* Votes whose author is not named are left out; in which order the others come
\* makes no difference here.
FilterVotes(uc, kind, rows) ==
  {FilterInternal(uc, kind, r) : r \in {r \in rows : NamesAuthor(uc, kind, r.author)}}

\* Which kind of row an event in its author's list tells of.
EventKind == [outVote |-> "vote", outComment |-> "comment", upsert |-> "pic"]
Event == DOMAIN EventKind \cup {"inVote", "inComment"}

\* Broken: who may read public information may read of comments.
ShowsEventPublic(uc, evt, owner) ==
  \/ "USER_READ_ALL" \in uc.cs
  \/ uc.subjectUserId = owner /\ "USER_READ_SELF" \in uc.cs
  \/ evt = "outComment" /\ "USER_READ_PUBLIC" \in uc.cs
  \/ evt \in DOMAIN EventKind /\ {"USER_READ_PUBLIC", ReadCap[EventKind[evt]]} \subseteq uc.cs
ShowsEvent(uc, evt, owner) ==
  \/ "USER_READ_ALL" \in uc.cs
  \/ uc.subjectUserId = owner /\ "USER_READ_SELF" \in uc.cs
  \/ evt \in DOMAIN EventKind /\ {"USER_READ_PUBLIC", ReadCap[EventKind[evt]]} \subseteq uc.cs
==============================================================================
