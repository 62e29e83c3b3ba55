------------------------------- MODULE Tables -------------------------------
(***************************************************************************)
(* The generated Job of tables.tab.go, which stores one protobuf message   *)
(* in each row, next to columns that are computed from it, and the queries *)
(* that db.go builds for it.                                               *)
(*                                                                         *)
(* A message is a record of the fields that its columns are computed from. *)
(* A statement is one step: Sessions, PicTags, PicVotes and TaskRunner are *)
(* about what happens between them.                                        *)
(***************************************************************************)
EXTENDS Integers, FiniteSets, Sequences, SequencesExt

CONSTANTS Tab,     \* names of tables
          Val,     \* values of fields
          MaxRows, \* rows in all of them
          Limits,  \* Opts.Limit
          None

ValAssumption == 0 \in Val /\ Val \subseteq Nat
MaxRowsAssumption == MaxRows \in Nat

VARIABLE rows \* rows[t]: records of a message and of its columns

-----------------------------------------------------------------------------
\* The keys of the tables: "primary", and others that are unique or not.

Table(primary, unique, index) == [primary |-> primary, unique |-> unique, index |-> index]

Pics == Table(<<"id">>, {}, {<<"index_order", "id">>, <<"score_order", "id">>,
                             <<"sched_order", "id">>})
Tags == Table(<<"id">>, {<<"name">>}, {})
PicTags == Table(<<"pic_id", "tag_id">>, {}, {})
PicIdents == Table(<<"pic_id", "type", "value">>, {}, {<<"type", "value">>})
PicComments == Table(<<"pic_id", "comment_id">>, {<<"comment_id">>}, {})
PicVotes == Table(<<"pic_id", "user_id", "index">>, {<<"user_id", "pic_id", "index">>}, {})
PicCommentVotes == Table(<<"pic_id", "comment_id", "user_id", "index">>, {}, {})
Users == Table(<<"id">>, {<<"ident">>}, {})
UserEvents == Table(<<"user_id", "created_ts", "index">>, {}, {})
CustomData == Table(<<"key_type", "key1", "key2", "key3", "key4", "key5">>, {}, {})

Schema == [Pics |-> Pics, Tags |-> Tags, PicTags |-> PicTags, PicIdents |-> PicIdents,
           PicComments |-> PicComments, PicVotes |-> PicVotes,
           PicCommentVotes |-> PicCommentVotes, Users |-> Users,
           UserEvents |-> UserEvents, CustomData |-> CustomData]

TabAssumption == Tab \subseteq DOMAIN Schema

Unique(t) == {Schema[t].primary} \cup Schema[t].unique
Keys(t) == Unique(t) \cup Schema[t].index
Cols(t) == UNION {ToSet(k) : k \in Keys(t)}

-----------------------------------------------------------------------------
\* Messages and their columns.

Message(t) == [Cols(t) \cup IF t = "Pics" THEN {"hidden"} ELSE {} -> Val]

\* Broken: hidden pictures keep their order, below the others.
PicColMirrored(m, c) == IF m.hidden = 0 \/ c = "id" THEN m[c] ELSE -1 - m[c]
\* A hard deleted picture leaves the index, and has no score.
PicCol(m, c) == CASE m.hidden = 0 \/ c = "id" -> m[c]
                  [] m.hidden # 0 /\ c = "index_order" -> -1
                  [] OTHER -> 0
Col(t, m, c) == IF t = "Pics" THEN PicCol(m, c) ELSE m[c]
Row(t, m) == [data |-> m, col |-> [c \in Cols(t) |-> Col(t, m, c)]]
Values(c) == IF c = "index_order" THEN Val \cup {-1} ELSE Val

\* The values of row r for a key.
At(r, key) == [i \in 1..Len(key) |-> r.col[key[i]]]

Init == rows = [t \in Tab |-> {}]

Size == Cardinality(UNION {{t} \X rows[t] : t \in Tab})

-----------------------------------------------------------------------------
\* Statements.  One that the database refuses changes nothing.

\* The primary and the unique keys of CREATE TABLE.
Accepted(t, R) == \A r, s \in R : r # s => \A k \in Unique(t) : At(r, k) # At(s, k)

Insert(t, m) ==
  LET R == rows[t] \cup {Row(t, m)} IN
    /\ Size < MaxRows
    /\ Row(t, m) \notin rows[t] /\ Accepted(t, R)
    /\ rows' = [rows EXCEPT ![t] = R]

\* KeyFor: the primary key of a message.
KeyFor(t, m) == LET key == Schema[t].primary IN [i \in 1..Len(key) |-> Col(t, m, key[i])]
Matching(t, vals) == {r \in rows[t] : \A i \in 1..Len(vals) : r.col[Schema[t].primary[i]] = vals[i]}

\* Every column is set, not only the data.
Set(t, r, m) == Row(t, m)

Update(t, m) ==
  LET old == Matching(t, KeyFor(t, m))
      R == (rows[t] \ old) \cup {Set(t, r, m) : r \in old} IN
    /\ Accepted(t, R)
    /\ rows' = [rows EXCEPT ![t] = R]

\* A key for a deletion has a value for each column.
Complete(t, vals) == Len(vals) = Len(Schema[t].primary) /\ Len(vals) # 0

Delete(t, vals) == /\ Complete(t, vals)
                   /\ rows' = [rows EXCEPT ![t] = @ \ Matching(t, vals)]

-----------------------------------------------------------------------------
\* Queries.

\* What Vals returns: values for the first columns of the key.
Vals(key) == UNION {{v \in [1..n -> UNION {Values(key[i]) : i \in 1..n}] :
                       \A i \in 1..n : v[i] \in Values(key[i])} : n \in 0..Len(key)}
Bounds(key) == [vals : Vals(key), inc : BOOLEAN]

\* Opts that buildScan takes; it refuses a prefix together with a bound.
Opts(t) == UNION {[key : {k}, prefix : Vals(k), start : {None}, stop : {None},
                   reverse : BOOLEAN, limit : Limits]
                  \cup [key : {k}, prefix : {None}, start : Bounds(k) \cup {None},
                        stop : Bounds(k) \cup {None}, reverse : BOOLEAN, limit : Limits]
                  : k \in Keys(t)}

Compare(op, x, y) == CASE op = ">" -> x > y [] op = ">=" -> x >= y
                       [] op = "<" -> x < y [] op = "<=" -> x <= y

\* One disjunct for each column at which the row may leave the bound.
buildRange(key, vals, midop, lastop, r) ==
  \E i \in 1..Len(vals) :
    /\ \A k \in 1..(i - 1) : r.col[key[k]] = vals[k]
    /\ Compare(IF i = Len(vals) THEN lastop ELSE midop, r.col[key[i]], vals[i])

Starts(o, r) == o.start = None \/ o.start.vals = <<>>
                \/ buildRange(o.key, o.start.vals, ">", IF o.start.inc THEN ">=" ELSE ">", r)
Stops(o, r) == o.stop = None \/ o.stop.vals = <<>>
               \/ buildRange(o.key, o.stop.vals, "<", IF o.stop.inc THEN "<=" ELSE "<", r)
HasPrefix(o, r) == o.prefix = None \/ \A i \in 1..Len(o.prefix) : r.col[o.key[i]] = o.prefix[i]
Where(o, r) == HasPrefix(o, r) /\ Starts(o, r) /\ Stops(o, r)

\* ORDER BY: what is left of the key after a prefix, all of it with a bound,
\* nothing without either.
SortCols(o) ==
  IF o.prefix # None THEN SubSeq(o.key, Len(o.prefix) + 1, Len(o.key))
  ELSE IF o.start = None /\ o.stop = None THEN <<>> ELSE o.key

\* r comes before s.
Before(o, r, s) ==
  LET cols == SortCols(o) IN
    \E i \in 1..Len(cols) :
      /\ \A k \in 1..(i - 1) : r.col[cols[k]] = s.col[cols[k]]
      /\ IF o.reverse THEN r.col[cols[i]] > s.col[cols[i]]
                      ELSE r.col[cols[i]] < s.col[cols[i]]

Limited(o, n) == IF o.limit > 0 /\ o.limit < n THEN o.limit ELSE n

\* What a query may return: rows that are equal in the ORDER BY come as they like.
Results(t, o) ==
  LET R == {r \in rows[t] : Where(o, r)} IN
    {s \in UNION {SetToSeqs(S) : S \in SUBSET R} :
       /\ Len(s) = Limited(o, Cardinality(R))
       /\ \A i \in 1..Len(s) : /\ \A k \in 1..(i - 1) : ~Before(o, s[i], s[k])
                               /\ \A r \in R \ ToSet(s) : ~Before(o, r, s[i])}

-----------------------------------------------------------------------------
Next == \E t \in Tab :
          \/ \E m \in Message(t) : Insert(t, m) \/ Update(t, m)
          \/ \E vals \in Vals(Schema[t].primary) : Delete(t, vals)

Spec == Init /\ [][Next]_rows

-----------------------------------------------------------------------------
\* Properties.

TypeOK == /\ \A t \in Tab : \A r \in rows[t] :
               /\ r.data \in Message(t)
               /\ DOMAIN r.col = Cols(t) /\ \A c \in Cols(t) : r.col[c] \in Values(c)
          /\ Size <= MaxRows

\* A message is found by the keys it has now: whatever was stored or changed,
\* the columns are those of the message (UpdatePicRow and its like).
ColumnsFresh == \A t \in Tab : \A r \in rows[t] : r = Row(t, r.data)

\* Two messages of a table differ in each of its unique keys.
KeysUnique ==
  \A t \in Tab : \A r, s \in rows[t] : r # s =>
    \A k \in Unique(t) : \E i \in 1..Len(k) : Col(t, r.data, k[i]) # Col(t, s.data, k[i])

\* No statement changes or removes more than one message (localUpdate, localDelete).
OneRow == [][/\ Cardinality(UNION {rows[t] \ rows'[t] : t \in Tab}) <= 1
             /\ Cardinality(UNION {rows'[t] \ rows[t] : t \in Tab}) <= 1]_rows

\* A key as a number: its values are digits, of which an unset one is 0 or the
\* highest.
Base == 2 + CHOOSE v \in Val : \A w \in Val : v >= w
Number(digits) == FoldLeft(LAMBDA n, d : n * Base + d, 0, digits)
Key(t, key, m) == Number([i \in 1..Len(key) |-> Col(t, m, key[i]) + 1])
Least(key, vals) == Number([i \in 1..Len(key) |-> IF i <= Len(vals) THEN vals[i] + 1 ELSE 0])
Greatest(key, vals) ==
  Number([i \in 1..Len(key) |-> IF i <= Len(vals) THEN vals[i] + 1 ELSE Base - 1])

\* The messages that a query asks for: those whose keys, as numbers, lie between
\* two numbers.
Asked(t, o, m) ==
  LET n == Key(t, o.key, m) IN
    /\ o.prefix # None => n \in Least(o.key, o.prefix)..Greatest(o.key, o.prefix)
    /\ o.start # None /\ o.start.vals # <<>> =>
         IF o.start.inc THEN n >= Least(o.key, o.start.vals) ELSE n > Greatest(o.key, o.start.vals)
    /\ o.stop # None /\ o.stop.vals # <<>> =>
         IF o.stop.inc THEN n <= Greatest(o.key, o.stop.vals) ELSE n < Least(o.key, o.stop.vals)

\* The order of two keys as a query with a prefix or a bound gives it.
InOrder(t, o, m, n) ==
  \/ o.prefix = None /\ o.start = None /\ o.stop = None
  \/ IF o.reverse THEN Key(t, o.key, m) >= Key(t, o.key, n)
                  ELSE Key(t, o.key, m) <= Key(t, o.key, n)

\* buildScan: a query returns messages that it asks for, in the order of their
\* keys, and leaves out none, or none before the last one if its limit is met.
ScanIsInterval ==
  \A t \in Tab : \A o \in Opts(t) : \A s \in Results(t, o) :
    /\ \A i \in 1..Len(s) : /\ Asked(t, o, s[i].data)
                            /\ i > 1 => InOrder(t, o, s[i - 1].data, s[i].data)
    /\ \A r \in rows[t] \ ToSet(s) : Asked(t, o, r.data) =>
         /\ o.limit > 0 /\ Len(s) = o.limit
         /\ InOrder(t, o, s[Len(s)].data, r.data)
==============================================================================
