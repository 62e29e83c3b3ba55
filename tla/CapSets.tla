------------------------------ MODULE CapSets ------------------------------
(***************************************************************************)
(* schema.CapSet: the capabilities below Bits are bits of a word, the      *)
(* others, and negative ones, a sorted list.  left and right are two sets  *)
(* that are filled one capability at a time, leftRef and rightRef what     *)
(* they stand for.                                                         *)
(***************************************************************************)
EXTENDS Integers, Sequences, FiniteSets, SequencesExt

CONSTANTS Bits,   \* 64 in the code
          Cap     \* capabilities: proto3 lets any int32 through

CapAssumption == Bits \in Nat /\ Cap \subseteq Int

VARIABLES left, right, leftRef, rightRef
vars == <<left, right, leftRef, rightRef>>

Bit(c) == c >= 0 /\ c < Bits

NoCaps == [c |-> {}, extra |-> <<>>]

Has(cs, c) == IF Bit(c) THEN c \in cs.c ELSE \E i \in 1..Len(cs.extra) : cs.extra[i] = c

\* sort.Search: the first place whose capability is not smaller, or the end.
Place(s, c) == CHOOSE i \in 1..(Len(s) + 1) :
  /\ i <= Len(s) => s[i] >= c
  /\ \A k \in 1..(i - 1) : s[k] < c

Add(cs, c) ==
  IF Bit(c) THEN [cs EXCEPT !.c = @ \cup {c}]
  ELSE LET i == Place(cs.extra, c) IN
       IF i <= Len(cs.extra) /\ cs.extra[i] = c THEN cs
       ELSE [cs EXCEPT !.extra = SubSeq(@, 1, i - 1) \o <<c>> \o SubSeq(@, i, Len(@))]

Size(cs) == Cardinality(cs.c) + Len(cs.extra)
Slice(cs) == SetToSortSeq(cs.c, <) \o cs.extra

Tail1(s) == s

\* CapIntersect on the lists: both are walked in step, from li and ri on.
RECURSIVE Merge(_, _, _)
Merge(l, r, out) ==
  IF l = <<>> \/ r = <<>>
  THEN [out EXCEPT !.leftonly = @ \o Tail1(l), !.rightonly = @ \o Tail1(r)]
  ELSE IF Head(l) = Head(r) THEN Merge(Tail(l), Tail(r), [out EXCEPT !.both = Append(@, Head(l))])
  ELSE IF Head(l) < Head(r) THEN Merge(Tail(l), r, [out EXCEPT !.leftonly = Append(@, Head(l))])
  ELSE Merge(l, Tail(r), [out EXCEPT !.rightonly = Append(@, Head(r))])

CapIntersect(l, r) ==
  LET m == Merge(l.extra, r.extra, [both |-> <<>>, leftonly |-> <<>>, rightonly |-> <<>>])
      both == l.c \cap r.c
  IN [both |-> [c |-> both, extra |-> m.both],
      leftonly |-> [c |-> l.c \ both, extra |-> m.leftonly],
      rightonly |-> [c |-> r.c \ both, extra |-> m.rightonly]]

VerifyCapSubset(have, want) == Size(CapIntersect(have, want).rightonly) = 0

Init == left = NoCaps /\ right = NoCaps /\ leftRef = {} /\ rightRef = {}

AddLeft(c) == left' = Add(left, c) /\ leftRef' = leftRef \cup {c} /\ UNCHANGED <<right, rightRef>>
AddRight(c) == right' = Add(right, c) /\ rightRef' = rightRef \cup {c} /\ UNCHANGED <<left, leftRef>>

Next == \E c \in Cap : AddLeft(c) \/ AddRight(c)
Spec == Init /\ [][Next]_vars

-----------------------------------------------------------------------------
\* Whether cs is the one form of the set s.
StandsFor(cs, s) ==
  /\ \A c \in Cap : Has(cs, c) <=> c \in s
  /\ Size(cs) = Cardinality(s)
  /\ {Slice(cs)[i] : i \in 1..Len(Slice(cs))} = s

\* However capabilities are added, a CapSet is the set of them, each counted
\* and listed once (CapSet.Add, Has, Size, Slice).
AddIsUnion == StandsFor(left, leftRef)

\* CapIntersect parts the two sets, so that a request is refused if and only if
\* a capability it needs is missing (VerifyCapSubset).
IntersectParts ==
  LET x == CapIntersect(left, right) IN
  /\ StandsFor(x.both, leftRef \cap rightRef)
  /\ StandsFor(x.leftonly, leftRef \ rightRef)
  /\ StandsFor(x.rightonly, rightRef \ leftRef)
  /\ VerifyCapSubset(left, right) <=> rightRef \subseteq leftRef
==============================================================================
