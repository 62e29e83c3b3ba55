----------------------------- MODULE MCPicStore -----------------------------
(***************************************************************************)
(* Instances of PicStore for TLC.                                          *)
(***************************************************************************)
EXTENDS PicStore, TLC

CONSTANTS t1, t2, s1, s2, c1, c2

\* Two servers with a goroutine each, or one server with both.
Apart    == t1 :> s1 @@ t2 :> s2
Together == t1 :> s1 @@ t2 :> s1
==============================================================================
