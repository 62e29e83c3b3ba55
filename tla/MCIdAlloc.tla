------------------------------ MODULE MCIdAlloc ------------------------------
(***************************************************************************)
(* Instances of IdAlloc for TLC.                                           *)
(***************************************************************************)
EXTENDS IdAlloc, TLC

CONSTANTS t1, t2, t3, s1, s2

\* Two goroutines in one server, and for HostsApart a third in another.
HostsTogether == t1 :> s1 @@ t2 :> s1
HostsApart    == HostsTogether @@ t3 :> s2
==============================================================================
