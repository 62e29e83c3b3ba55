------------------------------ MODULE KeyRange ------------------------------
(***************************************************************************)
(* What Job.FindPics and its like return for db.Opts with a start and a    *)
(* stop, over keys of two numbers: ScanIsInterval of Tables is the reason  *)
(* that this is all there is to say.                                       *)
(***************************************************************************)
EXTENDS Integers, Sequences, SequencesExt, FiniteSets

MaxInt64 == 2147483647 \* stands for math.MaxInt64: TLC's largest number

Less(a, b) == a[1] < b[1] \/ (a[1] = b[1] /\ a[2] < b[2])

Inc(key) == [key |-> key, inc |-> TRUE]
Ex(key) == [key |-> key, inc |-> FALSE]

After(start, a) == Less(start.key, a) \/ (start.inc /\ a = start.key)
Until(stop, a) == Less(a, stop.key) \/ (stop.inc /\ a = stop.key)

Before(a, b, reverse) == IF reverse THEN Less(b, a) ELSE Less(a, b)

\* The first rows, in order: a row's place is the number of rows up to it.
Scan(keys, start, stop, reverse, limit) ==
  LET found == {a \in keys : After(start, a) /\ Until(stop, a)}
      upTo(a) == {b \in found : b = a \/ Before(b, a, reverse)}
      n == Cardinality(found)
  IN [i \in 1..(IF n < limit THEN n ELSE limit) |->
        CHOOSE a \in found : Cardinality(upTo(a)) = i]

\* getMaxConf: a page is of at most max rows, and one more is asked for.
getMax(requested, default, max) ==
  IF requested = 0 THEN default ELSE IF requested < max THEN requested ELSE max
==============================================================================
