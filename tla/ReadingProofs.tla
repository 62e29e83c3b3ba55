---------------------------- MODULE ReadingProofs ----------------------------
(***************************************************************************)
(* Proofs about what requests read: a picture's file, piece by piece       *)
(* (PicFiles); the pages of pictures, and the reader who walks through     *)
(* them (IndexPages, as Index); what a lookup shows to whom (Access, as    *)
(* Rights); and the rows that all of it comes from (Tables, as Store).     *)
(*                                                                         *)
(* PicFiles: whatever happens to the file on disk, an open stream goes on  *)
(* with the file it has opened (StreamInv), and each of its answers is the *)
(* block after the last one.                                               *)
(*                                                                         *)
(* IndexPages: a scan is described by ranks, the number of rows that come  *)
(* up to one (RanksAre, ScanFacts), so a page is what is shown from its    *)
(* start up to a rank (PageFacts), and the next page begins at the rank    *)
(* after it (PageIsFirst).  WalkInv follows the reader: what was there all *)
(* the time is seen, or still to come.  Going back, ranks are counted from *)
(* the other side (RanksTurn).                                             *)
(*                                                                         *)
(* Tables: an update or a deletion names the primary key, by which there   *)
(* is one row at most (MatchesOne), so it comes to taking one row out and  *)
(* putting one in (OneForOne), whose columns are those of its message.     *)
(***************************************************************************)
EXTENDS PicFiles, SequenceTheorems, FiniteSetTheorems, TLAPS

LEMMA MinOfTwo == ASSUME NEW a \in Int, NEW b \in Int PROVE Min({a, b}) = IF a <= b THEN a ELSE b
<1> DEFINE m == IF a <= b THEN a ELSE b
<1>1. m \in {a, b} /\ \A y \in {a, b} : m =< y OBVIOUS
<1>2. \A x \in {a, b} : (\A y \in {a, b} : x =< y) => x = m OBVIOUS
<1> QED BY <1>1, <1>2 DEF Min

LEMMA MaxOfTwo == ASSUME NEW a \in Int, NEW b \in Int PROVE Max({a, b}) = IF a >= b THEN a ELSE b
<1> DEFINE m == IF a >= b THEN a ELSE b
<1>1. m \in {a, b} /\ \A y \in {a, b} : m >= y OBVIOUS
<1>2. \A x \in {a, b} : (\A y \in {a, b} : x >= y) => x = m OBVIOUS
<1> QED BY <1>1, <1>2 DEF Max

\* Blocks one after another.
LEMMA BlocksAre ==
  ASSUME NEW f \in Files
  PROVE  \A a, b \in Nat : a <= b =>
           /\ Blocks(f, a, b) \in Seq(Files \X Nat) /\ Len(Blocks(f, a, b)) = b - a
           /\ \A i \in 1..(b - a) : Blocks(f, a, b)[i] = <<f, a + i - 1>>
<1> SUFFICES ASSUME NEW a \in Nat, NEW b \in Nat, a <= b
             PROVE  /\ Blocks(f, a, b) \in Seq(Files \X Nat) /\ Len(Blocks(f, a, b)) = b - a
                    /\ \A i \in 1..(b - a) : Blocks(f, a, b)[i] = <<f, a + i - 1>>
  OBVIOUS
<1>1. \A i \in 1..(b - a) : <<f, a + i - 1>> \in Files \X Nat OBVIOUS
<1>2. b - a \in Nat OBVIOUS
<1> QED BY <1>1, <1>2 DEF Blocks

LEMMA BlocksFacts ==
  ASSUME NEW f \in Files, NEW from \in Nat, NEW at \in Nat, NEW to \in Nat, from <= at, at <= to
  PROVE  /\ Blocks(f, from, from) = <<>>
         /\ Blocks(f, from, at) \o Blocks(f, at, to) = Blocks(f, from, to)
         /\ IsPrefix(Blocks(f, from, at), Blocks(f, from, to))
<1> DEFINE a == Blocks(f, from, at)
           b == Blocks(f, at, to)
           c == Blocks(f, from, to)
           n == at - from
           m == to - from
<1>1. /\ a \in Seq(Files \X Nat) /\ Len(a) = n /\ \A i \in 1..n : a[i] = <<f, from + i - 1>>
      /\ b \in Seq(Files \X Nat) /\ Len(b) = m - n
      /\ \A i \in 1..(m - n) : b[i] = <<f, at + i - 1>>
      /\ c \in Seq(Files \X Nat) /\ Len(c) = m /\ \A i \in 1..m : c[i] = <<f, from + i - 1>>
  <2>1. from <= to /\ to - at = m - n OBVIOUS
  <2>2. /\ a \in Seq(Files \X Nat) /\ Len(a) = n /\ \A i \in 1..n : a[i] = <<f, from + i - 1>>
    BY BlocksAre
  <2>3. /\ b \in Seq(Files \X Nat) /\ Len(b) = to - at
        /\ \A i \in 1..(to - at) : b[i] = <<f, at + i - 1>>
    BY BlocksAre
  <2>4. /\ c \in Seq(Files \X Nat) /\ Len(c) = m /\ \A i \in 1..m : c[i] = <<f, from + i - 1>>
    BY <2>1, BlocksAre
  <2> QED BY <2>1, <2>2, <2>3, <2>4
<1>2. Blocks(f, from, from) \in Seq(Files \X Nat) /\ Len(Blocks(f, from, from)) = 0
  BY BlocksAre
<1>3. Blocks(f, from, from) = <<>>
  BY <1>2, EmptySeq
<1>4. n \in Nat /\ m \in Nat /\ n <= m /\ at = from + n OBVIOUS
<1> HIDE DEF a, b, c, n, m
<1>5. /\ a \o b \in Seq(Files \X Nat) /\ Len(a \o b) = m
      /\ \A i \in 1..m : (a \o b)[i] = IF i <= n THEN a[i] ELSE b[i - n]
  <2>1. n + (m - n) = m BY <1>4
  <2>2. /\ a \o b \in Seq(Files \X Nat) /\ Len(a \o b) = Len(a) + Len(b)
        /\ \A i \in 1..Len(a) + Len(b) :
             (a \o b)[i] = IF i <= Len(a) THEN a[i] ELSE b[i - Len(a)]
    BY <1>1, ConcatProperties
  <2> QED BY <1>1, <2>1, <2>2
<1>6. \A i \in 1..m : (a \o b)[i] = c[i]
  <2> TAKE i \in 1..m
  <2>1. CASE i <= n
    <3>1. i \in 1..n BY <1>4, <2>1
    <3>2. (a \o b)[i] = a[i] BY <1>5, <2>1
    <3>3. a[i] = <<f, from + i - 1>> BY <1>1, <3>1
    <3>4. c[i] = <<f, from + i - 1>> BY <1>1
    <3> QED BY <3>2, <3>3, <3>4
  <2>2. CASE ~(i <= n)
    <3>1. i - n \in 1..(m - n) /\ at + (i - n) - 1 = from + i - 1 BY <1>4, <2>2
    <3>2. b[i - n] = <<f, from + i - 1>> BY <1>1, <3>1
    <3> QED BY <1>1, <1>5, <2>2, <3>2
  <2> QED BY <2>1, <2>2
<1>7. a \o b = c
  BY <1>1, <1>5, <1>6, SeqEqual
<1>8. IsPrefix(a, c)
  <2>1. \A i \in 1..n : a[i] = c[i] /\ a[i] \in Files \X Nat
    <3> TAKE i \in 1..n
    <3>1. i \in 1..m /\ from + i - 1 \in Nat BY <1>4
    <3>2. a[i] = <<f, from + i - 1>> BY <1>1
    <3>3. c[i] = <<f, from + i - 1>> BY <1>1, <3>1
    <3> QED BY <3>1, <3>2, <3>3
  <2>2. /\ SubSeq(a, 1, n) \in Seq(Files \X Nat) /\ Len(SubSeq(a, 1, n)) = n
        /\ SubSeq(c, 1, n) \in Seq(Files \X Nat) /\ Len(SubSeq(c, 1, n)) = n
        /\ \A i \in 1..n : SubSeq(a, 1, n)[i] = SubSeq(c, 1, n)[i]
    BY <1>4, <2>1, SubSeqProperties
  <2>3. SubSeq(a, 1, n) = SubSeq(c, 1, n)
    BY <2>2, SeqEqual
  <2> QED BY <1>1, <1>4, <2>3 DEF IsPrefix
<1> QED BY <1>3, <1>7, <1>8 DEF a, b, c

\* The path that a link leads to is that of its file, and of no other.
LEMMA UrlFacts ==
  ASSUME NEW f \in Files
  PROVE  /\ Url(f) \in [id : Seq(Nat), ext : {Ext[m] : m \in Format}]
         /\ Path(Url(f).id, FormatOf(Url(f).ext)) = Stored(f)
         /\ \A g \in Files : Stored(g) = Stored(f) => g = f
         /\ \A g \in Files : Url(g) = Url(f) => g = f
<1>1. \A g \in Files : /\ g.pic \in Nat /\ g.index \in Nat /\ g.mime \in Format
                       /\ g = [pic |-> g.pic, index |-> g.index, mime |-> g.mime]
  BY FilesAssumption
<1>2. \A m, n \in Format : Ext[m] = Ext[n] => m = n
  BY DEF Format, Ext
<1>3. \A m \in Format : FormatOf(Ext[m]) = m
  BY <1>2 DEF FormatOf
<1>4. \A a, b \in Nat : Front(<<a, b>>) = <<a>>
  <2> TAKE a, b \in Nat
  <2>1. Front(<<a, b>>) = SubSeq(<<a, b>>, 1, 1) BY DEF Front
  <2>2. /\ SubSeq(<<a, b>>, 1, 1) \in Seq(Nat) /\ Len(SubSeq(<<a, b>>, 1, 1)) = 1
        /\ SubSeq(<<a, b>>, 1, 1)[1] = a
    OBVIOUS
  <2>3. <<a>> \in Seq(Nat) /\ Len(<<a>>) = 1 /\ <<a>>[1] = a
    OBVIOUS
  <2>4. SubSeq(<<a, b>>, 1, 1) = <<a>>
    <3> DEFINE s == SubSeq(<<a, b>>, 1, 1)
               t == <<a>>
    <3>1. /\ s \in Seq(Nat) /\ t \in Seq(Nat) /\ Len(s) = Len(t)
          /\ \A i \in 1..Len(s) : s[i] = t[i]
      BY <2>2, <2>3
    <3> HIDE DEF s, t
    <3>2. s = t BY <3>1, SeqEqual
    <3> QED BY <3>2 DEF s, t
  <2> QED BY <2>1, <2>4
<1>5. \A g \in Files : /\ Url(g).id = (IF g.index = 0 THEN <<g.pic>> ELSE <<g.pic, g.index>>)
                       /\ Url(g).ext = Ext[g.mime]
                       /\ Url(g).id \in Seq(Nat)
  <2> TAKE g \in Files
  <2>1. Front(Id(g)) = <<g.pic>> /\ <<g.pic>> \in Seq(Nat) /\ Id(g) \in Seq(Nat)
    BY <1>1, <1>4 DEF Id
  <2> QED BY <2>1 DEF Url, Id
<1>6. \A g \in Files : Path(Url(g).id, FormatOf(Url(g).ext)) = Stored(g)
  <2> TAKE g \in Files
  <2>1. FormatOf(Url(g).ext) = g.mime BY <1>1, <1>3, <1>5
  <2>2. (IF Len(Url(g).id) > 1 THEN <<Url(g).id[1], Url(g).id[2]>> ELSE <<Url(g).id[1]>>)
          = (IF g.index = 0 THEN <<g.pic>> ELSE <<g.pic, g.index>>)
    BY <1>1, <1>5
  <2> QED BY <2>1, <2>2 DEF Path, Stored
<1>7. \A g \in Files : Stored(g) = Stored(f) => g = f
  <2> SUFFICES ASSUME NEW g \in Files, Stored(g) = Stored(f) PROVE g = f OBVIOUS
  <2>1. Ext[g.mime] = Ext[f.mime] BY DEF Stored
  <2>2. g.mime = f.mime BY <1>1, <1>2, <2>1
  <2>3. (IF g.index = 0 THEN <<g.pic>> ELSE <<g.pic, g.index>>)
          = (IF f.index = 0 THEN <<f.pic>> ELSE <<f.pic, f.index>>)
    BY DEF Stored
  <2>4. \A a, b, c : <<a>> # <<b, c>>
    OBVIOUS
  <2>5. g.pic = f.pic /\ g.index = f.index
    BY <2>3, <2>4
  <2> QED BY <1>1, <2>2, <2>5
<1> QED BY <1>1, <1>5, <1>6, <1>7 DEF Url

-----------------------------------------------------------------------------
\* What a request has of its file.
StreamOf(c, f) ==
  LET g == get[c] IN
  /\ g.url = Url(f) /\ fd[c] \in {NoFile, f}
  /\ g.from <= g.offset /\ g.from <= g.to
  /\ g.body = Blocks(f, g.from, g.offset)
  /\ g.offset = g.from \/ (g.offset <= g.to /\ g.to <= FileSize[f])
  /\ g.pc \in {"open", "read", "done"} => g.offset <= g.to /\ g.to <= FileSize[f]
  /\ g.pc = "done" => g.offset = g.to
  /\ g.pc = "lookup" => g.offset = g.from
  /\ g.pc # "short"

StreamInv ==
  /\ TypeOK
  /\ \A c \in Client : IF get[c].pc = "idle" THEN get[c] = NoGet
                       ELSE \E f \in Files : StreamOf(c, f)

\* A step of a request: it has its own record, and its own open file.
LEMMA StreamStep ==
  ASSUME StreamInv, NEW c \in Client, NEW r \in Get,
         get' = [get EXCEPT ![c] = r],
         fd' \in [Client -> Files \cup {NoFile}], \A d \in Client : d # c => fd'[d] = fd[d],
         disk' = disk, anon' = anon, breaks' \in 0..MaxBreaks,
         IF r.pc = "idle" THEN r = NoGet ELSE \E f \in Files : StreamOf(c, f)'
  PROVE  StreamInv'
<1>1. get' \in [Client -> Get] /\ get'[c] = r /\ \A d \in Client : d # c => get'[d] = get[d]
  BY DEF StreamInv, TypeOK
<1>2. TypeOK'
  BY <1>1 DEF StreamInv, TypeOK
<1>3. ASSUME NEW d \in Client
      PROVE  IF get'[d].pc = "idle" THEN get'[d] = NoGet ELSE \E f \in Files : StreamOf(d, f)'
  <2>1. CASE d = c BY <1>1, <2>1
  <2>2. CASE d # c
    <3>1. get'[d] = get[d] /\ fd'[d] = fd[d] BY <1>1, <2>2
    <3>2. \A f \in Files : StreamOf(d, f) => StreamOf(d, f)' BY <3>1 DEF StreamOf
    <3> QED BY <3>1, <3>2 DEF StreamInv
  <2> QED BY <2>1, <2>2
<1> QED BY <1>2, <1>3 DEF StreamInv

LEMMA StreamInit == Init => StreamInv
<1> SUFFICES ASSUME Init PROVE StreamInv OBVIOUS
<1>1. NoGet \in Get
  BY EmptySeq DEF NoGet, Get, PC
<1> QED BY <1>1, FilesAssumption, BoundAssumption DEF Init, StreamInv, TypeOK, NoGet

LEMMA FoundIs ==
  ASSUME NEW f \in Files, disk \subseteq Files
  PROVE  Found(Url(f)) = IF f \in disk THEN f ELSE NoFile
<1> DEFINE at == {g \in disk : Stored(g) = Path(Url(f).id, FormatOf(Url(f).ext))}
<1>1. at = {g \in disk : g = f} BY UrlFacts
<1>2. Found(Url(f)) = IF at = {} THEN NoFile ELSE CHOOSE g \in at : TRUE BY DEF Found
<1> QED BY <1>1, <1>2

LEMMA AskStep ==
  ASSUME StreamInv, NEW c \in Client, NEW f \in Files,
         NEW from \in 0..(FileSize[f] + 1), NEW to \in from..(FileSize[f] + 1), NEW token \in BOOLEAN,
         Ask(c, f, from, to, token)
  PROVE  StreamInv'
<1> DEFINE r == [NoGet EXCEPT !.pc = "lookup", !.url = Url(f), !.from = from,
                          !.offset = from, !.to = to, !.token = token]
<1>1. FileSize[f] \in Nat /\ from \in Nat /\ to \in Nat /\ from <= to
  BY FilesAssumption
<1>2. /\ r.pc = "lookup" /\ r.url = Url(f) /\ r.from = from /\ r.offset = from /\ r.to = to
      /\ r.body = <<>>
  BY DEF NoGet
<1>3. r \in Get
  BY <1>1, UrlFacts, EmptySeq DEF NoGet, Get, PC
<1>4. get' = [get EXCEPT ![c] = r] /\ fd' = fd /\ disk' = disk /\ anon' = anon /\ breaks' = breaks
      /\ fd[c] = NoFile
  BY DEF Ask, Set
<1>5. get'[c] = r /\ fd'[c] = NoFile
  BY <1>4 DEF StreamInv, TypeOK
<1>6. Blocks(f, from, from) = <<>> BY <1>1, BlocksFacts
<1> HIDE DEF r
<1>7. StreamOf(c, f)' BY <1>1, <1>2, <1>5, <1>6 DEF StreamOf
<1> QED BY <1>2, <1>3, <1>4, <1>7, StreamStep DEF StreamInv, TypeOK

\* The record of a request, and the file it is about.
LEMMA StreamTypes ==
  ASSUME StreamInv, NEW c \in Client, get[c].pc # "idle"
  PROVE  /\ get[c] \in Get /\ DOMAIN get = Client
         /\ \E f \in Files : StreamOf(c, f)
         /\ disk \subseteq Files /\ fd \in [Client -> Files \cup {NoFile}]
         /\ breaks \in 0..MaxBreaks /\ MaxBreaks \in Nat
         /\ \A f \in Files : FileSize[f] \in Nat
BY FilesAssumption, BoundAssumption DEF StreamInv, TypeOK

\* A step that only goes on to another state, with no more than that to say of it.
LEMMA GotoStep ==
  ASSUME StreamInv, NEW c \in Client,
         NEW pc \in {"open", "read", "done", "failed"}, get[c].pc # "idle", Goto(c, pc),
         fd' = fd, disk' = disk, anon' = anon, breaks' \in 0..MaxBreaks,
         pc \in {"open", "read", "done"} => get[c].pc \in {"open", "read", "done"},
         pc = "done" => get[c].offset = get[c].to
  PROVE  StreamInv'
<1> DEFINE r == [get[c] EXCEPT !.pc = pc]
<1>1. PICK f \in Files : StreamOf(c, f) BY StreamTypes
<1>2. r \in Get /\ r.pc = pc /\ \A x \in {"url", "from", "to", "offset", "body"} : r[x] = get[c][x]
  BY StreamTypes DEF Get, PC
<1>3. get' = [get EXCEPT ![c] = r] BY DEF Goto
<1>4. get'[c] = r /\ fd'[c] = fd[c] BY <1>3, StreamTypes
<1>5. StreamOf(c, f)'
  <2> HIDE DEF r
  <2>1. /\ r.url = get[c].url /\ r.from = get[c].from /\ r.to = get[c].to
        /\ r.offset = get[c].offset /\ r.body = get[c].body
    BY <1>2
  <2> QED BY <1>1, <1>2, <1>4, <2>1 DEF StreamOf
<1> QED BY <1>2, <1>3, <1>5, StreamTypes, StreamStep

LEMMA LookupStep ==
  ASSUME StreamInv, NEW c \in Client, Lookup(c)
  PROVE  StreamInv'
<1>1. PICK f \in Files : StreamOf(c, f) BY StreamTypes DEF Lookup
<1>2. Found(get[c].url) = IF f \in disk THEN f ELSE NoFile
  BY <1>1, StreamTypes, FoundIs DEF StreamOf, Lookup
<1>3. CASE ~(MayRead(c) /\ f \in disk /\ get[c].from =< FileSize[f])
  <2>1. Goto(c, "failed") /\ fd' = fd /\ disk' = disk /\ anon' = anon /\ breaks' = breaks
    BY <1>2, <1>3 DEF Lookup
  <2> QED BY <2>1, StreamTypes, GotoStep DEF Lookup
<1>4. CASE MayRead(c) /\ f \in disk /\ get[c].from =< FileSize[f]
  <2> DEFINE to == Min({get[c].to, FileSize[f]})
             r == [get[c] EXCEPT !.pc = "open", !.size = FileSize[f], !.to = to, !.public = Public(c)]
  <2>1. get[c].pc = "lookup" /\ get[c] \in Get /\ FileSize[f] \in Nat /\ get[c].to \in Nat
        /\ get[c].from \in Nat
    BY StreamTypes DEF Lookup, Get
  <2>2. to \in Nat /\ to <= FileSize[f] /\ get[c].from <= to
    BY <1>1, <1>4, <2>1, MinOfTwo DEF StreamOf
  <2>3. /\ get' = [get EXCEPT ![c] = r]
        /\ fd' = fd /\ disk' = disk /\ anon' = anon /\ breaks' = breaks
    <3>1. f # NoFile BY FilesAssumption
    <3>2. Seek(0, FileSize[f]) = FileSize[f] BY <2>1 DEF Seek
    <3> QED BY <1>2, <1>4, <3>1, <3>2 DEF Lookup, Set
  <2>4. /\ r \in Get /\ r.pc = "open" /\ r.to = to /\ r.url = get[c].url /\ r.from = get[c].from
        /\ r.offset = get[c].offset /\ r.body = get[c].body
    BY <2>1, <2>2 DEF Get, PC, Public, StreamInv, TypeOK
  <2>5. get'[c] = r /\ fd'[c] = fd[c] BY <2>3, StreamTypes DEF Lookup
  <2>6. StreamOf(c, f)'
    <3> HIDE DEF r, to
    <3>1. get[c].offset = get[c].from BY <1>1, <2>1 DEF StreamOf
    <3> QED BY <1>1, <2>1, <2>2, <2>4, <2>5, <3>1 DEF StreamOf
  <2> QED BY <2>3, <2>4, <2>6, StreamTypes, StreamStep DEF Lookup
<1> QED BY <1>3, <1>4

\* What the stream answers: all that ServeContent wants, so the end of the file
\* does not come early.
LEMMA ReadAtAll ==
  ASSUME NEW f \in Files, NEW offset \in Nat, NEW to \in Nat,
         offset < to, to <= FileSize[f]
  PROVE  LET wanted == Min({Buffer, to - offset})
             resp == ReadAt(f, offset, Limit(wanted))
             n == Min({wanted, Len(resp.data)})
         IN  /\ n \in Nat \ {0} /\ offset + n <= to /\ ~resp.eof
             /\ SubSeq(resp.data, 1, n) = Blocks(f, offset, offset + n)
<1> DEFINE wanted == Min({Buffer, to - offset})
           k == Limit(wanted)
           resp == ReadAt(f, offset, k)
           n == Min({wanted, Len(resp.data)})
<1>1. Buffer \in Nat \ {0} /\ Piece \in Nat \ {0} /\ FileSize[f] \in Nat
  BY FilesAssumption, BoundAssumption
<1>2. wanted \in Nat \ {0} /\ wanted <= to - offset
  BY <1>1, MinOfTwo
<1>3. k \in Nat \ {0} /\ k <= wanted
  BY <1>1, <1>2 DEF Limit
<1> HIDE DEF wanted, k
<1>4. Max({offset, Min({offset + k, FileSize[f]})}) = offset + k
  <2>1. Min({offset + k, FileSize[f]}) = offset + k BY <1>1, <1>2, <1>3, MinOfTwo
  <2>2. Max({offset, offset + k}) = offset + k BY <1>3, MaxOfTwo
  <2> QED BY <2>1, <2>2
<1> DEFINE end == Max({offset, Min({offset + k, FileSize[f]})})
<1>5. resp.data = Blocks(f, offset, offset + k) /\ resp.eof = FALSE
  <2>1. resp = [data |-> Blocks(f, offset, end), eof |-> end - offset < k] BY DEF ReadAt
  <2>2. \A d, e : [data |-> d, eof |-> e].data = d /\ [data |-> d, eof |-> e].eof = e
    BY Zenon
  <2>4. resp.data = Blocks(f, offset, end) /\ resp.eof = (end - offset < k)
    <3> HIDE DEF resp, end
    <3> QED BY <2>1, <2>2, Zenon
  <2>3. (end - offset < k) = FALSE BY <1>3, <1>4
  <2> QED BY <1>4, <2>4, <2>3, Zenon
<1> HIDE DEF resp
<1>6. Blocks(f, offset, offset + k) \in Seq(Files \X Nat) /\ Len(Blocks(f, offset, offset + k)) = k
  <2>1. offset + k \in Nat /\ offset <= offset + k /\ (offset + k) - offset = k BY <1>3
  <2> QED BY <2>1, BlocksAre
<1>7. n = k
  <2>1. Len(resp.data) = k BY <1>5, <1>6
  <2>2. Min({wanted, k}) = k BY <1>2, <1>3, MinOfTwo
  <2> QED BY <2>1, <2>2
<1>8. SubSeq(resp.data, 1, n) = Blocks(f, offset, offset + n)
  BY <1>5, <1>6, <1>7, SubSeqFull
<1>9. ~resp.eof
  BY <1>5, Zenon
<1> HIDE DEF n
<1>10. n \in Nat \ {0} /\ offset + n <= to
  BY <1>2, <1>3, <1>7
<1> QED BY <1>8, <1>9, <1>10 DEF wanted, k, resp, n

LEMMA ReadStep ==
  ASSUME StreamInv, NEW c \in Client, Read(c)
  PROVE  StreamInv'
<1>1. PICK f \in Files : StreamOf(c, f) BY StreamTypes DEF Read
<1> DEFINE g == get[c]
           h == IF fd[c] = NoFile THEN Found(g.url) ELSE fd[c]
           wanted == Min({Buffer, g.to - g.offset})
           resp == ReadAt(h, g.offset, Limit(wanted))
           n == Min({wanted, Len(resp.data)})
           body == g.body \o SubSeq(resp.data, 1, n)
           r == [g EXCEPT !.offset = Offset(g, n), !.body = body,
                          !.pc = IF resp.eof /\ Len(body) < g.to - g.from THEN "short" ELSE "read"]
<1>2. /\ g.pc = "read" /\ g \in Get /\ g.offset \in Nat /\ g.to \in Nat /\ g.from \in Nat
      /\ g.offset < g.to /\ FileSize[f] \in Nat
  BY StreamTypes DEF Read, Get
<1>3. h \in {f, NoFile}
  BY <1>1, StreamTypes, FoundIs DEF Read, StreamOf
<1>4. disk' = disk /\ anon' = anon /\ breaks' = breaks BY DEF Read
<1>5. CASE h = NoFile
  <2>1. Goto(c, "failed") /\ fd' = fd BY <1>5 DEF Read
  <2> QED BY <1>2, <1>4, <2>1, StreamTypes, GotoStep
<1>6. CASE h # NoFile
  <2>1. h = f BY <1>3, <1>6
  <2>2. get' = [get EXCEPT ![c] = r] /\ fd' = [fd EXCEPT ![c] = f]
    BY <1>6, <2>1 DEF Read, Set
  <2>3. /\ n \in Nat \ {0} /\ g.offset + n <= g.to /\ ~resp.eof
        /\ SubSeq(resp.data, 1, n) = Blocks(f, g.offset, g.offset + n)
    BY <1>1, <1>2, <2>1, ReadAtAll DEF StreamOf
  <2> HIDE DEF n, resp
  <2>4. /\ g.from <= g.offset /\ g.from <= g.to /\ g.url = Url(f) /\ g.to <= FileSize[f]
        /\ g.body = Blocks(f, g.from, g.offset)
    BY <1>1, <1>2 DEF StreamOf
  <2>5. body = Blocks(f, g.from, g.offset + n)
    <3>1. g.offset + n \in Nat /\ g.offset <= g.offset + n BY <1>2, <2>3
    <3>2. body = Blocks(f, g.from, g.offset) \o Blocks(f, g.offset, g.offset + n)
      BY <2>3, <2>4
    <3> QED BY <1>2, <2>4, <3>1, <3>2, BlocksFacts
  <2>6. body \in Seq(Files \X Nat)
    <3>1. g.offset + n \in Nat /\ g.from <= g.offset + n BY <1>2, <2>3, <2>4
    <3> QED BY <1>2, <2>5, <3>1, BlocksAre
  <2> HIDE DEF body
  <2>7. r = [g EXCEPT !.offset = g.offset + n, !.body = body, !.pc = "read"]
    BY <2>3 DEF Offset
  <2> HIDE DEF r
  <2>8. /\ r \in Get /\ r.pc = "read" /\ r.offset = g.offset + n /\ r.body = body
        /\ r.to = g.to /\ r.from = g.from /\ r.url = g.url
    <3>1. g.offset + n \in Nat BY <1>2, <2>3
    <3> HIDE DEF g
    <3> QED BY <1>2, <2>6, <2>7, <3>1 DEF Get, PC
  <2>9. get'[c] = r /\ fd'[c] = f /\ fd' \in [Client -> Files \cup {NoFile}]
        /\ \A d \in Client : d # c => fd'[d] = fd[d]
    BY <1>2, <2>2, StreamTypes
  <2>10. StreamOf(c, f)'
    <3> HIDE DEF g
    <3> QED BY <1>2, <2>3, <2>4, <2>5, <2>8, <2>9 DEF StreamOf
  <2> QED BY <1>2, <1>4, <2>2, <2>8, <2>9, <2>10, StreamTypes, StreamStep
<1> QED BY <1>5, <1>6

LEMMA StreamNext == StreamInv /\ [Next]_vars => StreamInv'
<1> SUFFICES ASSUME StreamInv, [Next]_vars PROVE StreamInv' OBVIOUS
<1>1. ASSUME NEW c \in Client, Serve(c) \/ Break(c) PROVE StreamInv'
  <2>1. CASE Lookup(c) BY <2>1, LookupStep
  <2>2. CASE Open(c)
    BY <2>2, StreamTypes, GotoStep DEF Open
  <2>3. CASE Read(c) BY <2>3, ReadStep
  <2>4. CASE Finish(c)
    <3>1. get[c].pc = "read" /\ get[c] \in Get /\ Len(get[c].body) = get[c].to - get[c].from
          /\ Goto(c, "done") /\ UNCHANGED <<disk, anon, fd, breaks>>
      BY <2>4, StreamTypes DEF Finish
    <3>2. PICK f \in Files : StreamOf(c, f) BY <3>1, StreamTypes
    <3>3. /\ get[c].from \in Nat /\ get[c].to \in Nat /\ get[c].offset \in Nat
          /\ get[c].from <= get[c].offset /\ get[c].body = Blocks(f, get[c].from, get[c].offset)
      BY <3>1, <3>2 DEF Get, StreamOf
    <3>4. Len(get[c].body) = get[c].offset - get[c].from
      BY <3>3, BlocksAre
    <3>5. get[c].offset = get[c].to BY <3>1, <3>3, <3>4
    <3> QED BY <3>1, <3>5, StreamTypes, GotoStep
  <2>5. CASE Close(c)
    <3>1. get[c].pc # "idle" BY <2>5 DEF Close, Closes
    <3>2. NoGet \in Get /\ NoGet.pc = "idle" BY EmptySeq DEF NoGet, Get, PC
    <3>3. get' = [get EXCEPT ![c] = NoGet] /\ fd' = [fd EXCEPT ![c] = NoFile]
          /\ UNCHANGED <<disk, anon, breaks>>
      BY <2>5 DEF Close, Set
    <3>4. fd' \in [Client -> Files \cup {NoFile}] /\ \A d \in Client : d # c => fd'[d] = fd[d]
      BY <3>1, <3>3, StreamTypes
    <3> QED BY <3>1, <3>2, <3>3, <3>4, StreamTypes, StreamStep
  <2>6. CASE Break(c)
    <3>1. get[c].pc = "read" /\ breaks < MaxBreaks /\ breaks' = breaks + 1 /\ Goto(c, "failed")
          /\ UNCHANGED <<disk, anon, fd>>
      BY <2>6 DEF Break
    <3>2. breaks' \in 0..MaxBreaks BY <3>1, StreamTypes
    <3> QED BY <3>1, <3>2, GotoStep
  <2> QED BY <1>1, <2>1, <2>2, <2>3, <2>4, <2>5, <2>6 DEF Serve
<1>2. ASSUME get' = get, fd' = fd, breaks' = breaks, disk' \subseteq Files, anon' \in BOOLEAN
      PROVE  StreamInv'
  <2>1. \A c \in Client, f \in Files : StreamOf(c, f) => StreamOf(c, f)'
    BY <1>2 DEF StreamOf
  <2> QED BY <1>2, <2>1 DEF StreamInv, TypeOK
<1>3. ASSUME NEW f \in Files, Purge(f) \/ Upload(f) PROVE StreamInv'
  BY <1>2, <1>3 DEF Purge, Upload, StreamInv, TypeOK
<1>4. CASE Configure BY <1>2, <1>4 DEF Configure, StreamInv, TypeOK
<1>5. CASE UNCHANGED vars BY <1>2, <1>5 DEF vars, StreamInv, TypeOK
<1> QED BY <1>1, <1>3, <1>4, <1>5, AskStep DEF Next

\* The model has the types that it says it has.
THEOREM StreamTypeCorrect == Spec => []TypeOK
<1>1. StreamInv => TypeOK BY DEF StreamInv
<1> QED BY <1>1, StreamInit, StreamNext, PTL DEF Spec

\* What a browser has been sent is the beginning of the file that its link was made
\* for, all of it at the end, and never less than was promised (pixHandler,
\* handleReadPicFile).
THEOREM RightBlocks == Spec => []BodyIsRange
<1>1. ASSUME StreamInv, NEW c \in Client, NEW f \in Files, get[c].url = Url(f)
      PROVE  LET g == get[c]
                 all == Blocks(f, g.from, Max({g.from, Min({g.to, FileSize[f]})}))
             IN IsPrefix(g.body, all) /\ (g.pc = "done" => g.body = all) /\ g.pc # "short"
  <2> DEFINE g == get[c]
             end == Max({g.from, Min({g.to, FileSize[f]})})
  <2>1. g \in Get /\ g.from \in Nat /\ g.to \in Nat /\ g.offset \in Nat /\ FileSize[f] \in Nat
    BY <1>1, FilesAssumption DEF StreamInv, TypeOK, Get
  <2>2. end \in Nat /\ g.from <= end /\ (g.from <= g.to /\ g.to <= FileSize[f] => end = g.to)
    <3> DEFINE m == Min({g.to, FileSize[f]})
    <3>1. m = IF g.to <= FileSize[f] THEN g.to ELSE FileSize[f] BY <2>1, MinOfTwo
    <3>2. end = Max({g.from, m}) OBVIOUS
    <3> HIDE DEF m, end, g
    <3>3. m \in Nat /\ (g.to <= FileSize[f] => m = g.to) BY <2>1, <3>1
    <3>4. Max({g.from, m}) = IF g.from >= m THEN g.from ELSE m BY <2>1, <3>3, MaxOfTwo
    <3> QED BY <2>1, <3>2, <3>3, <3>4
  <2> HIDE DEF end
  <2>3. CASE g.pc = "idle"
    <3>1. g.body = <<>> /\ g.pc # "done" /\ g.pc # "short"
      BY <1>1, <2>3 DEF StreamInv, NoGet
    <3>2. Blocks(f, g.from, g.from) = <<>> /\ IsPrefix(Blocks(f, g.from, g.from), Blocks(f, g.from, end))
      BY <2>1, <2>2, BlocksFacts
    <3> QED BY <3>1, <3>2 DEF end
  <2>4. CASE g.pc # "idle"
    <3>1. PICK h \in Files : StreamOf(c, h) BY <1>1, <2>4 DEF StreamInv
    <3>2. h = f BY <1>1, <3>1, UrlFacts DEF StreamOf
    <3>3. /\ g.from <= g.offset /\ g.from <= g.to /\ g.body = Blocks(f, g.from, g.offset)
          /\ g.offset = g.from \/ (g.offset <= g.to /\ g.to <= FileSize[f])
          /\ g.pc = "done" => g.to <= FileSize[f] /\ g.offset = g.to
          /\ g.pc # "short"
      BY <3>1, <3>2 DEF StreamOf
    <3>4. g.offset <= end
      BY <2>1, <2>2, <3>3
    <3>5. IsPrefix(Blocks(f, g.from, g.offset), Blocks(f, g.from, end))
      BY <2>1, <2>2, <3>3, <3>4, BlocksFacts
    <3>6. g.pc = "done" => g.offset = end
      BY <2>2, <3>3
    <3> QED BY <3>3, <3>5, <3>6 DEF end
  <2> QED BY <2>3, <2>4
<1>2. StreamInv => BodyIsRange BY <1>1 DEF BodyIsRange
<1> QED BY <1>2, StreamInit, StreamNext, PTL DEF Spec

\* A link of a page leads to its file while that is there, and an answer that shared
\* caches may keep is one that anonymous requests could have had (apiPic, PicFilePath,
\* readPicHeaders).
THEOREM LinksLead == Spec => [][LinksWork /\ CachedForAll]_vars
<1>1. ASSUME StreamInv, [Next]_vars PROVE LinksWork /\ CachedForAll
  <2>1. ASSUME NEW c \in Client
        PROVE  \/ get'[c] = get[c]
               \/ Lookup(c)
               \/ get[c].pc # "lookup" /\ (get'[c].public => get[c].public)
    <3>1. get \in [Client -> Get] BY <1>1 DEF StreamInv, TypeOK
    <3>2. ASSUME NEW d \in Client, NEW f \in Files, NEW from \in 0..(FileSize[f] + 1),
                 NEW to \in from..(FileSize[f] + 1), NEW token \in BOOLEAN,
                 Ask(d, f, from, to, token)
          PROVE  \/ get'[c] = get[c]
                 \/ get[c].pc # "lookup" /\ (get'[c].public => get[c].public)
      BY <3>1, <3>2 DEF Ask, Set, NoGet
    <3>3. ASSUME NEW d \in Client, Open(d) \/ Read(d) \/ Finish(d) \/ Close(d) \/ Break(d)
          PROVE  \/ get'[c] = get[c]
                 \/ get[c].pc # "lookup" /\ (get'[c].public => get[c].public)
      <4>1. CASE c # d
        BY <3>1, <3>3, <4>1 DEF Open, Read, Finish, Close, Break, Goto, Set
      <4>2. CASE c = d
        <5>1. CASE Close(d) BY <3>1, <4>2, <5>1 DEF Close, Closes, Set, NoGet
        <5>2. CASE Read(d)
          <6> DEFINE g == get[c]
                     h == IF fd[c] = NoFile THEN Found(g.url) ELSE fd[c]
                     wanted == Min({Buffer, g.to - g.offset})
                     resp == ReadAt(h, g.offset, Limit(wanted))
                     n == Min({wanted, Len(resp.data)})
                     body == g.body \o SubSeq(resp.data, 1, n)
                     r(o, b, p) == [g EXCEPT !.offset = o, !.body = b, !.pc = p]
          <6>1. \/ get' = [get EXCEPT ![c].pc = "failed"]
                \/ get' = [get EXCEPT ![c] = r(Offset(g, n), body,
                             IF resp.eof /\ Len(body) < g.to - g.from THEN "short" ELSE "read")]
            BY <4>2, <5>2 DEF Read, Goto, Set
          <6> HIDE DEF n, resp, body
          <6>2. \A o, b, p : r(o, b, p).public = g.public BY <3>1 DEF Get
          <6>3. get[c].pc # "lookup" BY <4>2, <5>2 DEF Read
          <6> QED BY <3>1, <6>1, <6>2, <6>3 DEF Get
        <5>3. CASE Open(d) \/ Finish(d) \/ Break(d)
          BY <3>1, <4>2, <5>3 DEF Open, Finish, Break, Goto, Get
        <5> QED BY <3>3, <5>1, <5>2, <5>3
      <4> QED BY <4>1, <4>2
    <3>4. ASSUME NEW d \in Client, Lookup(d) PROVE get'[c] = get[c] \/ Lookup(c)
      BY <3>1, <3>4 DEF Lookup, Set, Goto
    <3> QED BY <1>1, <3>2, <3>3, <3>4 DEF Next, vars, Serve, Purge, Upload, Configure
  <2>2. ASSUME NEW c \in Client, Lookup(c)
        PROVE  /\ get'[c].pc # "failed" \/ (\A f \in disk : get[c].url = Url(f) /\ MayRead(c)
                                               => ~(get[c].from =< FileSize[f]))
               /\ get'[c].public /\ ~get[c].public => anon
    <3>1. get \in [Client -> Get] /\ disk \subseteq Files BY <1>1 DEF StreamInv, TypeOK
    <3> DEFINE h == Found(get[c].url)
    <3>2. ASSUME NEW f \in disk, get[c].url = Url(f) PROVE h = f /\ h # NoFile
      BY <3>1, <3>2, FoundIs, FilesAssumption
    <3> HIDE DEF h
    <3>3. \/ /\ get' = [get EXCEPT ![c].pc = "failed"]
             /\ ~(MayRead(c) /\ h # NoFile /\ get[c].from =< FileSize[h])
          \/ \E z, t : get' = [get EXCEPT ![c] = [get[c] EXCEPT !.pc = "open", !.size = z,
                                                     !.to = t, !.public = Public(c)]]
      BY <2>2 DEF Lookup, Set, Goto, h
    <3>4. get'[c].pc # "failed" \/ ~(MayRead(c) /\ h # NoFile /\ get[c].from =< FileSize[h])
      BY <3>1, <3>3 DEF Get
    <3>5. get'[c].public /\ ~get[c].public => anon
      BY <3>1, <3>3 DEF Get, Public
    <3> QED BY <3>2, <3>4, <3>5
  <2>3. LinksWork
    BY <1>1, <2>1, <2>2 DEF LinksWork, StreamInv, TypeOK
  <2>4. CachedForAll BY <2>1, <2>2 DEF CachedForAll
  <2> QED BY <2>3, <2>4
<1> QED BY <1>1, StreamInit, StreamNext, PTL DEF Spec

-----------------------------------------------------------------------------
\* Pages of pictures.
CONSTANTS PicId, Order, DefaultFindIndexPics, Score, Ops, NoPic
VARIABLES pics, usedIds, voted, walk

Index == INSTANCE IndexPages

\* A row's place: its order, or time, and its id.
Key == Int \X Int

\* Keys are ordered, in either direction.
LEMMA BeforeOrders ==
  ASSUME NEW reverse \in BOOLEAN
  PROVE  \A a, b, c \in Key :
           /\ ~Index!Before(a, a, reverse)
           /\ Index!Before(a, b, reverse) /\ Index!Before(b, c, reverse) =>
                                               Index!Before(a, c, reverse)
           /\ a = b \/ Index!Before(a, b, reverse) \/ Index!Before(b, a, reverse)
           /\ Index!Before(a, b, reverse) <=> Index!Before(b, a, ~reverse)
<1> SUFFICES ASSUME NEW a \in Key, NEW b \in Key, NEW c \in Key
             PROVE  /\ ~Index!Before(a, a, reverse)
                    /\ Index!Before(a, b, reverse) /\ Index!Before(b, c, reverse) =>
                                                        Index!Before(a, c, reverse)
                    /\ a = b \/ Index!Before(a, b, reverse) \/ Index!Before(b, a, reverse)
                    /\ Index!Before(a, b, reverse) <=> Index!Before(b, a, ~reverse)
  OBVIOUS
<1>1. a[1] \in Int /\ a[2] \in Int /\ b[1] \in Int /\ b[2] \in Int /\ c[1] \in Int /\ c[2] \in Int
      /\ a = <<a[1], a[2]>> /\ b = <<b[1], b[2]>>
  BY DEF Key
<1>2. /\ ~Index!Less(a, a) /\ (Index!Less(a, b) /\ Index!Less(b, c) => Index!Less(a, c))
      /\ (Index!Less(b, a) /\ Index!Less(c, b) => Index!Less(c, a))
      /\ (a = b \/ Index!Less(a, b) \/ Index!Less(b, a))
  BY <1>1 DEF Index!Less
<1> QED BY <1>2 DEF Index!Before

\* The rank of a row: how many of the rows come up to it.
UpTo(F, a, reverse) == {b \in F : b = a \/ Index!Before(b, a, reverse)}
Rank(F, a, reverse) == Cardinality(UpTo(F, a, reverse))

\* Ranks grow with the rows, and every rank up to their number is that of one row.
LEMMA RanksAre ==
  ASSUME NEW F \in SUBSET Key, IsFiniteSet(F), NEW reverse \in BOOLEAN
  PROVE  /\ Cardinality(F) \in Nat
         /\ \A a \in F : Rank(F, a, reverse) \in 1..Cardinality(F)
         /\ \A a, b \in F : Index!Before(a, b, reverse) => Rank(F, a, reverse) < Rank(F, b, reverse)
         /\ \A a, b \in F : Rank(F, a, reverse) = Rank(F, b, reverse) => a = b
         /\ \A i \in 1..Cardinality(F) : \E a \in F : Rank(F, a, reverse) = i
<1> DEFINE n == Cardinality(F)
           up(a) == UpTo(F, a, reverse)
           r(a) == Rank(F, a, reverse)
<1>1. n \in Nat BY FS_CardinalityType
<1>2. ASSUME NEW a \in F
      PROVE  IsFiniteSet(up(a)) /\ r(a) \in 1..n
  <2>1. up(a) \in SUBSET F BY DEF UpTo
  <2>2. a \in up(a) BY DEF UpTo
  <2>3. IsFiniteSet(up(a)) /\ Cardinality(up(a)) <= n BY <2>1, FS_Subset
  <2>4. Cardinality(up(a)) \in Nat BY <2>3, FS_CardinalityType
  <2>5. Cardinality(up(a)) # 0 BY <2>2, <2>3, FS_EmptySet
  <2> QED BY <1>1, <2>3, <2>4, <2>5 DEF Rank
<1>3. ASSUME NEW a \in F, NEW b \in F, Index!Before(a, b, reverse)
      PROVE  r(a) < r(b)
  <2>1. \A x, y, z \in Key : /\ ~Index!Before(x, x, reverse)
                             /\ Index!Before(x, y, reverse) /\ Index!Before(y, z, reverse) => Index!Before(x, z, reverse)
    BY BeforeOrders
  <2>2. up(a) \in SUBSET up(b) BY <1>3, <2>1 DEF UpTo
  <2>3. b \in up(b) /\ b \notin up(a) BY <1>3, <2>1 DEF UpTo
  <2>4. IsFiniteSet(up(b)) BY <1>2
  <2>5. Cardinality(up(a)) <= Cardinality(up(b)) /\ Cardinality(up(b)) # Cardinality(up(a))
    BY <2>2, <2>3, <2>4, FS_Subset
  <2>6. r(a) \in Int /\ r(b) \in Int BY <1>2
  <2> QED BY <2>5, <2>6 DEF Rank
<1>4. ASSUME NEW a \in F, NEW b \in F, r(a) = r(b) PROVE a = b
  <2>1. r(a) \in Int /\ r(b) \in Int BY <1>2
  <2>2. a = b \/ Index!Before(a, b, reverse) \/ Index!Before(b, a, reverse) BY BeforeOrders
  <2>3. ~Index!Before(a, b, reverse) BY <1>3, <1>4, <2>1
  <2>4. ~Index!Before(b, a, reverse) BY <1>3, <1>4, <2>1
  <2> QED BY <2>2, <2>3, <2>4
<1>5. \A i \in 1..n : \E a \in F : r(a) = i
  <2> DEFINE f == [a \in F |-> r(a)]
  <2>1. f \in [F -> 1..n] BY <1>2
  <2>2. \A a, b \in F : f[a] = f[b] => a = b BY <1>4
  <2>3. f \in Injection(F, 1..n)
    <3> HIDE DEF f
    <3> QED BY <2>1, <2>2 DEF Injection, IsInjective
  <2>4. IsFiniteSet(1..n) /\ Cardinality(1..n) = n
    BY <1>1, FS_Interval
  <2>5. f \in Surjection(F, 1..n)
    <3> HIDE DEF f
    <3> QED BY <2>3, <2>4, FS_Injection
  <2>6. \A i \in 1..n : \E a \in F : f[a] = i
    <3> HIDE DEF f
    <3> QED BY <2>5 DEF Surjection
  <2> QED BY <2>6
<1>6. \A a \in F : r(a) \in 1..n BY <1>2
<1>7. \A a, b \in F : Index!Before(a, b, reverse) => r(a) < r(b) BY <1>3
<1>8. \A a, b \in F : r(a) = r(b) => a = b BY <1>4
<1> QED BY <1>1, <1>5, <1>6, <1>7, <1>8

\* The rows between two bounds.
InBounds(keys, start, stop) == {a \in keys : Index!After(start, a) /\ Index!Until(stop, a)}
SmallerOf(n, m) == IF n < m THEN n ELSE m

\* A scan returns the first rows between its bounds, in order.
LEMMA ScanFacts ==
  ASSUME NEW keys \in SUBSET Key, IsFiniteSet(keys), NEW start, NEW stop,
         NEW reverse \in BOOLEAN, NEW limit \in Nat
  PROVE  LET F == InBounds(keys, start, stop)
             s == Index!Scan(keys, start, stop, reverse, limit)
             m == SmallerOf(Cardinality(F), limit)
         IN /\ F \in SUBSET Key /\ IsFiniteSet(F) /\ Cardinality(F) \in Nat /\ m \in 0..limit
            /\ s \in Seq(F) /\ Len(s) = m
            /\ \A i \in 1..m : s[i] \in F /\ Rank(F, s[i], reverse) = i
            /\ \A i, k \in 1..m : i < k => Index!Before(s[i], s[k], reverse)
            /\ \A a \in F : LET i == Rank(F, a, reverse) IN
                 /\ i \in 1..Cardinality(F)
                 /\ i <= m => s[i] = a
                 /\ i > m => m = limit /\ \A k \in 1..m : Index!Before(s[k], a, reverse)
<1> DEFINE F == InBounds(keys, start, stop)
           s == Index!Scan(keys, start, stop, reverse, limit)
           n == Cardinality(F)
           m == SmallerOf(n, limit)
           r(a) == Rank(F, a, reverse)
<1>1. F \in SUBSET keys BY DEF InBounds
<1>2. IsFiniteSet(F) /\ F \in SUBSET Key BY <1>1, FS_Subset
<1>3. /\ n \in Nat /\ \A a \in F : r(a) \in 1..n
      /\ \A a, b \in F : Index!Before(a, b, reverse) => r(a) < r(b)
      /\ \A a, b \in F : r(a) = r(b) => a = b
      /\ \A i \in 1..n : \E a \in F : r(a) = i
  <2> HIDE DEF F
  <2> QED BY <1>2, RanksAre
<1>4. m \in 0..limit /\ m <= n /\ (m # limit => m = n)
  <2> HIDE DEF n
  <2> QED BY <1>3 DEF SmallerOf
<1>5. s = [i \in 1..m |-> CHOOSE a \in F : r(a) = i]
  BY DEF Index!Scan, InBounds, SmallerOf, Rank, UpTo, Cardinality, Index!Cardinality
<1>6. ASSUME NEW i \in 1..m PROVE s[i] \in F /\ r(s[i]) = i
  <2> HIDE DEF F, n, m, s, r
  <2>1. i \in 1..n BY <1>3, <1>4
  <2>2. \E a \in F : r(a) = i BY <1>3, <2>1
  <2>3. s[i] = CHOOSE a \in F : r(a) = i BY <1>5
  <2> QED BY <2>2, <2>3
<1>7. s \in Seq(F) /\ Len(s) = m
  <2> HIDE DEF F, n, m, s
  <2>1. \A i \in 1..m : s[i] \in F BY <1>6
  <2>2. s = [i \in 1..m |-> s[i]] BY <1>5
  <2>3. m \in Nat BY <1>4
  <2> QED BY <2>1, <2>2, <2>3
<1>8. ASSUME NEW a \in F, NEW b \in F, r(a) < r(b) PROVE Index!Before(a, b, reverse)
  <2>1. r(a) \in Int /\ r(b) \in Int BY <1>3
  <2>2. a = b \/ Index!Before(a, b, reverse) \/ Index!Before(b, a, reverse)
    BY <1>2, BeforeOrders
  <2>3. ~Index!Before(b, a, reverse) BY <1>3, <1>8, <2>1
  <2>4. a # b BY <1>8, <2>1
  <2> QED BY <2>2, <2>3, <2>4
<1>9. ASSUME NEW i \in 1..m, NEW k \in 1..m, i < k PROVE Index!Before(s[i], s[k], reverse)
  BY <1>6, <1>8, <1>9
<1>10. ASSUME NEW a \in F
       PROVE  /\ r(a) \in 1..n
              /\ r(a) <= m => s[r(a)] = a
              /\ r(a) > m => m = limit /\ \A k \in 1..m : Index!Before(s[k], a, reverse)
  <2> HIDE DEF F, n, m, s, r
  <2>1. r(a) \in 1..n BY <1>3
  <2>2. ASSUME r(a) <= m PROVE s[r(a)] = a
    <3>1. r(a) \in 1..m BY <2>1, <2>2
    <3>2. s[r(a)] \in F /\ r(s[r(a)]) = r(a) BY <1>6, <3>1
    <3> QED BY <1>3, <3>2
  <2>3. ASSUME r(a) > m PROVE m = limit /\ \A k \in 1..m : Index!Before(s[k], a, reverse)
    <3>1. m = limit BY <1>3, <1>4, <2>1, <2>3
    <3>2. ASSUME NEW k \in 1..m PROVE Index!Before(s[k], a, reverse)
      <4>1. s[k] \in F /\ r(s[k]) = k BY <1>6
      <4>2. r(s[k]) < r(a) BY <1>4, <2>1, <2>3, <4>1
      <4> QED BY <1>8, <4>1, <4>2
    <3> QED BY <3>1, <3>2
  <2> QED BY <2>1, <2>2, <2>3
<1> HIDE DEF F, n, m, s
<1>11. /\ F \in SUBSET Key /\ IsFiniteSet(F) /\ n \in Nat /\ m \in 0..limit
       /\ s \in Seq(F) /\ Len(s) = m
       /\ \A i \in 1..m : s[i] \in F /\ r(s[i]) = i
       /\ \A i, k \in 1..m : i < k => Index!Before(s[i], s[k], reverse)
       /\ \A a \in F : /\ r(a) \in 1..n
                       /\ r(a) <= m => s[r(a)] = a
                       /\ r(a) > m => m = limit /\ \A k \in 1..m : Index!Before(s[k], a, reverse)
  BY <1>2, <1>3, <1>4, <1>6, <1>7, <1>9, <1>10
<1> QED BY <1>11 DEF F, n, m, s

-----------------------------------------------------------------------------
\* Pages.
PagesAssumption == /\ Index!PicIdAssumption /\ Index!OrderAssumption
                   /\ Index!DefaultAssumption /\ Index!NoPicAssumption

\* What a reader may be shown, in the order of ReadIndexPicsTask.
KeyOf(p) == <<pics[p].order, p>>
Shown == {KeyOf(p) : p \in Index!Visible}

PicsOK == pics \in [PicId -> [order : Order, hidden : BOOLEAN] \cup {NoPic}]

\* Keys of pictures, shown or hidden.
LEMMA KeysAre ==
  ASSUME PagesAssumption, PicsOK
  PROVE  /\ \A p \in Index!Stored : /\ p \in PicId /\ p \in 1..(Index!MaxInt64 - 1)
                                    /\ pics[p].hidden \in BOOLEAN
                                    /\ pics[p].order \in Order /\ pics[p].order \in 0..Index!MaxInt64
                                    /\ KeyOf(p) \in Key
         /\ 0 \notin PicId /\ IsFiniteSet(PicId)
         /\ Index!Keys \in SUBSET Key /\ IsFiniteSet(Index!Keys)
         /\ \A a \in Shown : a[2] \in Index!Visible /\ a = KeyOf(a[2])
         /\ Shown \in SUBSET Index!Keys
<1>1. \A p \in Index!Stored : /\ p \in PicId /\ p \in 1..(Index!MaxInt64 - 1)
                              /\ pics[p].hidden \in BOOLEAN
                              /\ pics[p].order \in Order /\ pics[p].order \in 0..Index!MaxInt64
  BY DEF PagesAssumption, Index!PicIdAssumption, Index!OrderAssumption, PicsOK, Index!Stored
<1>2. Index!MaxInt64 \in Int BY DEF Index!MaxInt64
<1>3. \A p \in Index!Stored : KeyOf(p) \in Key /\ Index!IndexOrder(p) \in Int
  BY <1>1, <1>2 DEF KeyOf, Key, Index!IndexOrder
<1>4. 0 \notin PicId /\ IsFiniteSet(PicId)
  <2>1. PicId \in SUBSET (1..(Index!MaxInt64 - 1))
    BY DEF PagesAssumption, Index!PicIdAssumption
  <2>2. IsFiniteSet(1..(Index!MaxInt64 - 1)) BY <1>2, FS_Interval
  <2>3. IsFiniteSet(PicId) BY <2>1, <2>2, FS_Subset
  <2>4. 0 \notin PicId BY <1>2, <2>1
  <2> QED BY <2>3, <2>4
<1>5. Index!Keys \in SUBSET Key BY <1>1, <1>2, <1>3 DEF Index!Keys, Key
<1>6. IsFiniteSet(Index!Keys)
  <2> DEFINE f == [k \in Index!Keys |-> k[2]]
  <2>1. f \in [Index!Keys -> PicId] BY <1>1 DEF Index!Keys
  <2>2. \A a, b \in Index!Keys : f[a] = f[b] => a = b BY DEF Index!Keys
  <2>3. f \in Injection(Index!Keys, PicId)
    <3> HIDE DEF f
    <3> QED BY <2>1, <2>2 DEF Injection, IsInjective
  <2> HIDE DEF f
  <2> QED BY <1>4, <2>3, FS_Injection
<1>7. \A a \in Shown : a[2] \in Index!Visible /\ a = KeyOf(a[2]) BY DEF Shown, KeyOf
<1>8. Shown \in SUBSET Index!Keys
  BY DEF Shown, KeyOf, Index!Keys, Index!Visible, Index!IndexOrder
<1> QED BY <1>1, <1>3, <1>4, <1>5, <1>6, <1>7, <1>8

\* A page starts at a picture that is there, at the one asked for if it is.
LEMMA StartFacts ==
  ASSUME PagesAssumption, PicsOK, NEW id \in PicId \cup {0}, NEW asc \in BOOLEAN
  PROVE  /\ Index!lookupStartPic(id, asc) \in Index!Stored \cup {0}
         /\ id \in Index!Stored \cup {0} => Index!lookupStartPic(id, asc) = id
<1> DEFINE found == {p \in Index!Stored : IF asc THEN p >= id ELSE p <= id}
           first(p) == \A q \in found : IF asc THEN p <= q ELSE p >= q
<1>1. /\ \A p \in Index!Stored : p \in PicId /\ p \in Nat
      /\ 0 \notin PicId /\ IsFiniteSet(PicId) /\ id \in Nat
  <2>1. PicId \subseteq Nat BY DEF PagesAssumption, Index!PicIdAssumption
  <2> QED BY <2>1, KeysAre
<1>2. ASSUME found # {} PROVE \E p \in found : first(p)
  <2> DEFINE K == {<<p, 0>> : p \in found}
             n == Cardinality(K)
  <2>1. K \in SUBSET Key /\ K # {}
    <3>1. \A p \in found : <<p, 0>> \in Key BY <1>1 DEF Key
    <3> QED BY <1>2, <3>1
  <2>2. IsFiniteSet(K)
    <3> DEFINE f == [k \in K |-> k[1]]
    <3>1. f \in [K -> PicId] BY <1>1
    <3>2. \A a, b \in K : f[a] = f[b] => a = b OBVIOUS
    <3>3. f \in Injection(K, PicId)
      <4> HIDE DEF f, K
      <4> QED BY <3>1, <3>2 DEF Injection, IsInjective
    <3> HIDE DEF f, K
    <3> QED BY <1>1, <3>3, FS_Injection
  <2> HIDE DEF K
  <2>3. /\ n \in Nat /\ \A a \in K : Rank(K, a, ~asc) \in 1..n
        /\ \A a, b \in K : Index!Before(a, b, ~asc) => Rank(K, a, ~asc) < Rank(K, b, ~asc)
        /\ \A i \in 1..n : \E a \in K : Rank(K, a, ~asc) = i
    BY <2>1, <2>2, RanksAre
  <2>4. n # 0 BY <2>1, <2>2, FS_EmptySet
  <2>5. PICK a \in K : Rank(K, a, ~asc) = 1 BY <2>3, <2>4
  <2>6. \A b \in K : ~Index!Before(b, a, ~asc)
    <3> SUFFICES ASSUME NEW b \in K, Index!Before(b, a, ~asc) PROVE FALSE OBVIOUS
    <3>1. Rank(K, b, ~asc) < Rank(K, a, ~asc) BY <2>3
    <3>2. Rank(K, b, ~asc) \in 1..n BY <2>3
    <3> QED BY <2>3, <2>5, <3>1, <3>2
  <2>7. PICK p \in found : a = <<p, 0>> BY DEF K
  <2>8. ASSUME NEW q \in found PROVE IF asc THEN p <= q ELSE p >= q
    <3>1. <<q, 0>> \in K BY DEF K
    <3>2. ~Index!Before(<<q, 0>>, <<p, 0>>, ~asc) BY <2>6, <2>7, <3>1
    <3>3. p \in Nat /\ q \in Nat BY <1>1
    <3> QED BY <3>2, <3>3 DEF Index!Before, Index!Less
  <2> QED BY <2>8
<1>3. Index!lookupStartPic(id, asc) = IF id = 0 \/ found = {} THEN 0 ELSE CHOOSE p \in found : first(p)
  BY DEF Index!lookupStartPic
<1>4. Index!lookupStartPic(id, asc) \in Index!Stored \cup {0}
  <2>1. (CHOOSE p \in found : first(p)) \in found \/ found = {} BY <1>2
  <2> QED BY <1>3, <2>1
<1>5. ASSUME id \in Index!Stored \cup {0} PROVE Index!lookupStartPic(id, asc) = id
  <2>1. CASE id = 0 BY <2>1, <1>3
  <2>2. CASE id # 0
    <3>1. id \in found BY <1>1, <1>5, <2>2
    <3>2. first(id) BY <1>1
    <3>3. \A p \in found : first(p) => p = id BY <1>1, <3>1
    <3>4. (CHOOSE p \in found : first(p)) = id
      <4> HIDE DEF found
      <4>1. \E p \in found : first(p) BY <3>1, <3>2
      <4> QED BY <3>3, <4>1
    <3> QED BY <1>3, <2>2, <3>1, <3>4
  <2> QED BY <2>1, <2>2
<1> QED BY <1>4, <1>5

\* What is shown from a picture on, and before it.
From(start, asc) == {a \in Shown : \/ start = 0 \/ a = KeyOf(start)
                                  \/ Index!Before(KeyOf(start), a, ~asc)}
Ahead(start, asc) == {a \in Shown : Index!Before(a, KeyOf(start), ~asc)}

LEMMA RangesAre ==
  ASSUME PagesAssumption, PicsOK, NEW start \in Index!Stored \cup {0}, NEW asc \in BOOLEAN
  PROVE  /\ LET r == Index!Range1(start, asc)
            IN InBounds(Index!Keys, Index!Inc(r.lo), Index!Ex(r.hi)) = From(start, asc)
         /\ start # 0 => LET q == Index!Range2(start, asc) IN
              InBounds(Index!Keys, Index!Inc(q.lo), Index!Ex(q.hi)) = Ahead(start, asc)
<1> DEFINE r == Index!Range1(start, asc)
           q == Index!Range2(start, asc)
<1>1. 0 \notin PicId /\ \A p \in Index!Stored : /\ p \in PicId /\ p \in 1..(Index!MaxInt64 - 1)
                        /\ pics[p].hidden \in BOOLEAN
                        /\ pics[p].order \in 0..Index!MaxInt64
  BY KeysAre
<1>2. Index!MaxInt64 \in Nat BY DEF Index!MaxInt64
<1>3. ASSUME NEW p \in Index!Stored
      PROVE  LET a == <<Index!IndexOrder(p), p>> IN
             /\ Index!After(Index!Inc(r.lo), a) /\ Index!Until(Index!Ex(r.hi), a) <=>
                  /\ ~pics[p].hidden
                  /\ start = 0 \/ a = KeyOf(start) \/ Index!Before(KeyOf(start), a, ~asc)
             /\ start # 0 =>
                  (Index!After(Index!Inc(q.lo), a) /\ Index!Until(Index!Ex(q.hi), a) <=>
                     ~pics[p].hidden /\ Index!Before(a, KeyOf(start), ~asc))
  <2> DEFINE a == <<Index!IndexOrder(p), p>>
  <2>1. /\ p \in 1..(Index!MaxInt64 - 1) /\ pics[p].hidden \in BOOLEAN /\ pics[p].order \in 0..Index!MaxInt64
    BY <1>1
  <2>2. CASE start = 0
    <3>1. r = [lo |-> <<0, 0>>, hi |-> <<Index!MaxInt64, Index!MaxInt64>>]
      BY <2>2 DEF Index!Range1, Index!Bottom, Index!Top
    <3> QED
      BY <1>2, <2>1, <2>2, <3>1
         DEF Index!After, Index!Until, Index!Inc, Index!Ex, Index!Less, Index!IndexOrder
  <2>3. CASE start # 0
    <3>1. start \in 1..(Index!MaxInt64 - 1) /\ pics[start].order \in 0..Index!MaxInt64
      BY <1>1, <2>3
    <3>2. CASE asc
      <4>1. /\ r = [lo |-> KeyOf(start), hi |-> <<Index!MaxInt64, Index!MaxInt64>>]
            /\ q = [lo |-> <<0, 0>>, hi |-> KeyOf(start)]
        BY <2>3, <3>2
           DEF Index!Range1, Index!Range2, Index!Bottom, Index!Top, KeyOf,
               Index!StartOrder, Index!NonHiddenIndexOrder
      <4>2. /\ Index!After(Index!Inc(r.lo), a) <=> Index!Less(KeyOf(start), a) \/ a = KeyOf(start)
            /\ Index!Until(Index!Ex(r.hi), a)
            /\ Index!After(Index!Inc(q.lo), a) <=> ~pics[p].hidden
            /\ Index!Until(Index!Ex(q.hi), a) <=> Index!Less(a, KeyOf(start))
        BY <1>2, <2>1, <3>1, <4>1
           DEF Index!After, Index!Until, Index!Inc, Index!Ex, Index!Less, Index!IndexOrder,
               KeyOf
      <4>3. Index!Less(KeyOf(start), a) \/ a = KeyOf(start) => ~pics[p].hidden
        BY <1>2, <2>1, <3>1 DEF Index!Less, Index!IndexOrder, KeyOf
      <4>4. \A x, y : Index!Before(x, y, ~asc) <=> Index!Less(x, y) BY <3>2 DEF Index!Before
      <4> HIDE DEF r, q, a
      <4>5. Index!After(Index!Inc(r.lo), a) /\ Index!Until(Index!Ex(r.hi), a) <=>
              ~pics[p].hidden /\ (start = 0 \/ a = KeyOf(start) \/ Index!Before(KeyOf(start), a, ~asc))
        BY <2>3, <4>2, <4>3, <4>4
      <4>6. Index!After(Index!Inc(q.lo), a) /\ Index!Until(Index!Ex(q.hi), a) <=>
              ~pics[p].hidden /\ Index!Before(a, KeyOf(start), ~asc)
        BY <4>2, <4>4
      <4> QED BY <4>5, <4>6 DEF a, q, r
    <3>3. CASE ~asc
      <4>1. /\ r = [lo |-> <<0, 0>>, hi |-> <<pics[start].order, start + 1>>]
            /\ q = [lo |-> <<pics[start].order, start + 1>>, hi |-> <<Index!MaxInt64, Index!MaxInt64>>]
        BY <2>3, <3>3
           DEF Index!Range1, Index!Range2, Index!Bottom, Index!Top, Index!StartOrder,
               Index!NonHiddenIndexOrder, Index!StopId
      <4>2. /\ Index!After(Index!Inc(r.lo), a) <=> ~pics[p].hidden
            /\ Index!Until(Index!Ex(r.hi), a) <=> Index!Less(a, KeyOf(start)) \/ a = KeyOf(start)
            /\ Index!After(Index!Inc(q.lo), a) <=> Index!Less(KeyOf(start), a)
            /\ Index!Until(Index!Ex(q.hi), a)
        BY <1>2, <2>1, <3>1, <4>1
           DEF Index!After, Index!Until, Index!Inc, Index!Ex, Index!Less, Index!IndexOrder,
               KeyOf
      <4>3. Index!Less(KeyOf(start), a) => ~pics[p].hidden
        BY <1>2, <2>1, <3>1 DEF Index!Less, Index!IndexOrder, KeyOf
      <4>4. \A x, y : Index!Before(x, y, ~asc) <=> Index!Less(y, x) BY <3>3 DEF Index!Before
      <4> HIDE DEF r, q, a
      <4>5. Index!After(Index!Inc(r.lo), a) /\ Index!Until(Index!Ex(r.hi), a) <=>
              ~pics[p].hidden /\ (start = 0 \/ a = KeyOf(start) \/ Index!Before(KeyOf(start), a, ~asc))
        BY <2>3, <4>2, <4>3, <4>4
      <4>6. Index!After(Index!Inc(q.lo), a) /\ Index!Until(Index!Ex(q.hi), a) <=>
              ~pics[p].hidden /\ Index!Before(a, KeyOf(start), ~asc)
        BY <4>2, <4>3, <4>4
      <4> QED BY <4>5, <4>6 DEF a, q, r
    <3> QED BY <3>2, <3>3
  <2> QED BY <2>2, <2>3
<1> HIDE DEF r, q
<1>4. InBounds(Index!Keys, Index!Inc(r.lo), Index!Ex(r.hi)) = From(start, asc)
  <2>1. ASSUME NEW a \in InBounds(Index!Keys, Index!Inc(r.lo), Index!Ex(r.hi))
        PROVE  a \in From(start, asc)
    <3>1. PICK p \in Index!Stored : a = <<Index!IndexOrder(p), p>>
      BY DEF InBounds, Index!Keys
    <3>2. /\ ~pics[p].hidden
          /\ start = 0 \/ a = KeyOf(start) \/ Index!Before(KeyOf(start), a, ~asc)
      BY <1>3, <3>1 DEF InBounds
    <3>3. a = KeyOf(p) /\ p \in Index!Visible
      BY <3>1, <3>2 DEF KeyOf, Index!IndexOrder, Index!Visible
    <3> QED BY <3>2, <3>3 DEF From, Shown
  <2>2. ASSUME NEW a \in From(start, asc)
        PROVE  a \in InBounds(Index!Keys, Index!Inc(r.lo), Index!Ex(r.hi))
    <3>1. PICK p \in Index!Visible : a = KeyOf(p) BY DEF From, Shown
    <3>2. p \in Index!Stored /\ ~pics[p].hidden /\ a = <<Index!IndexOrder(p), p>>
      BY <3>1 DEF KeyOf, Index!IndexOrder, Index!Visible
    <3>3. Index!After(Index!Inc(r.lo), a) /\ Index!Until(Index!Ex(r.hi), a)
      BY <1>3, <3>2 DEF From
    <3> QED BY <3>2, <3>3 DEF InBounds, Index!Keys
  <2> QED BY <2>1, <2>2
<1>5. ASSUME start # 0
      PROVE  InBounds(Index!Keys, Index!Inc(q.lo), Index!Ex(q.hi)) = Ahead(start, asc)
  <2>1. ASSUME NEW a \in InBounds(Index!Keys, Index!Inc(q.lo), Index!Ex(q.hi))
        PROVE  a \in Ahead(start, asc)
    <3>1. PICK p \in Index!Stored : a = <<Index!IndexOrder(p), p>>
      BY DEF InBounds, Index!Keys
    <3>2. ~pics[p].hidden /\ Index!Before(a, KeyOf(start), ~asc)
      BY <1>3, <1>5, <3>1 DEF InBounds
    <3>3. a = KeyOf(p) /\ p \in Index!Visible
      BY <3>1, <3>2 DEF KeyOf, Index!IndexOrder, Index!Visible
    <3> QED BY <3>2, <3>3 DEF Ahead, Shown
  <2>2. ASSUME NEW a \in Ahead(start, asc)
        PROVE  a \in InBounds(Index!Keys, Index!Inc(q.lo), Index!Ex(q.hi))
    <3>1. PICK p \in Index!Visible : a = KeyOf(p) BY DEF Ahead, Shown
    <3>2. p \in Index!Stored /\ ~pics[p].hidden /\ a = <<Index!IndexOrder(p), p>>
      BY <3>1 DEF KeyOf, Index!IndexOrder, Index!Visible
    <3>3. Index!After(Index!Inc(q.lo), a) /\ Index!Until(Index!Ex(q.hi), a)
      BY <1>3, <1>5, <3>2 DEF Ahead
    <3> QED BY <3>2, <3>3 DEF InBounds, Index!Keys
  <2> QED BY <2>1, <2>2
<1> QED BY <1>4, <1>5 DEF r, q

\* A page is what is shown from its start on, as much of it as fits.
LEMMA PageFacts ==
  ASSUME PagesAssumption, PicsOK, NEW id \in PicId \cup {0}, NEW asc \in BOOLEAN
  PROVE  LET page == Index!Page(id, asc)
             start == Index!lookupStartPic(id, asc)
             F == From(start, asc)
             n == SmallerOf(Cardinality(F), DefaultFindIndexPics)
         IN /\ F \in SUBSET Key /\ IsFiniteSet(F) /\ Cardinality(F) \in Nat
            /\ n \in 0..DefaultFindIndexPics
            /\ page.pics \in Seq(Index!Visible) /\ Len(page.pics) = n
            /\ \A i \in 1..n : /\ KeyOf(page.pics[i]) \in F
                               /\ Rank(F, KeyOf(page.pics[i]), ~asc) = i
            /\ Cardinality(F) <= DefaultFindIndexPics => page.next = 0
            /\ Cardinality(F) > DefaultFindIndexPics =>
                 /\ page.next \in Index!Visible /\ KeyOf(page.next) \in F
                 /\ Rank(F, KeyOf(page.next), ~asc) = DefaultFindIndexPics + 1
            /\ start = 0 \/ Ahead(start, asc) = {} => page.prev = 0
            /\ start # 0 /\ Ahead(start, asc) # {} =>
                 /\ page.prev \in Index!Visible /\ KeyOf(page.prev) \in Ahead(start, asc)
                 /\ \A a \in Ahead(start, asc) :
                      a = KeyOf(page.prev) \/ Index!Before(a, KeyOf(page.prev), ~asc)
<1> DEFINE page == Index!Page(id, asc)
           start == Index!lookupStartPic(id, asc)
           d == DefaultFindIndexPics
           r == Index!Range1(start, asc)
           q == Index!Range2(start, asc)
           F == From(start, asc)
           A == Ahead(start, asc)
           c == Cardinality(F)
           n == SmallerOf(c, d)
           rows == Index!Scan(Index!Keys, Index!Inc(r.lo), Index!Ex(r.hi), ~asc, d + 1)
           prev == IF start = 0 THEN <<>>
                   ELSE Index!Scan(Index!Keys, Index!Inc(q.lo), Index!Ex(q.hi), asc, 1)
           full == Len(rows) = d + 1
           m == IF full THEN d ELSE Len(rows)
<1>1. start \in Index!Stored \cup {0} BY StartFacts
<1>2. d \in Nat \ {0} BY DEF PagesAssumption, Index!DefaultAssumption
<1>3. Index!getMax(0, DefaultFindIndexPics, Index!MaxInt64) = d BY DEF Index!getMax
<1>4. page = [pics |-> [i \in 1..m |-> rows[i][2]],
              next |-> IF full THEN rows[d + 1][2] ELSE 0,
              prev |-> IF prev = <<>> THEN 0 ELSE prev[1][2]]
  <2> HIDE DEF start
  <2> QED BY <1>3 DEF Index!Page, start
<1>5. /\ Index!Keys \in SUBSET Key /\ IsFiniteSet(Index!Keys)
      /\ \A a \in Shown : a[2] \in Index!Visible /\ a = KeyOf(a[2])
  BY KeysAre
<1>6. /\ InBounds(Index!Keys, Index!Inc(r.lo), Index!Ex(r.hi)) = F
      /\ (start # 0 => InBounds(Index!Keys, Index!Inc(q.lo), Index!Ex(q.hi)) = A)
  <2> HIDE DEF start
  <2> QED BY <1>1, RangesAre
<1> HIDE DEF start, r, q
<1>7. LET k == SmallerOf(c, d + 1) IN
      /\ F \in SUBSET Key /\ IsFiniteSet(F) /\ c \in Nat
      /\ rows \in Seq(F) /\ Len(rows) = k
      /\ \A i \in 1..k : rows[i] \in F /\ Rank(F, rows[i], ~asc) = i
  <2>1. d + 1 \in Nat BY <1>2
  <2> HIDE DEF d, F
  <2>2. \A rev \in BOOLEAN :
          LET k == SmallerOf(c, d + 1)
              s == Index!Scan(Index!Keys, Index!Inc(r.lo), Index!Ex(r.hi), rev, d + 1)
          IN /\ F \in SUBSET Key /\ IsFiniteSet(F) /\ c \in Nat
             /\ s \in Seq(F) /\ Len(s) = k
             /\ \A i \in 1..k : s[i] \in F /\ Rank(F, s[i], rev) = i
    <3> SUFFICES ASSUME NEW rev \in BOOLEAN
                 PROVE  LET k == SmallerOf(c, d + 1)
                            s == Index!Scan(Index!Keys, Index!Inc(r.lo), Index!Ex(r.hi), rev, d + 1)
                        IN /\ F \in SUBSET Key /\ IsFiniteSet(F) /\ c \in Nat
                           /\ s \in Seq(F) /\ Len(s) = k
                           /\ \A i \in 1..k : s[i] \in F /\ Rank(F, s[i], rev) = i
      OBVIOUS
    <3> DEFINE lim == d + 1
    <3>1. lim \in Nat BY <2>1
    <3>2. InBounds(Index!Keys, Index!Inc(r.lo), Index!Ex(r.hi)) = F BY <1>6
    <3> HIDE DEF lim
    <3>3. LET k == SmallerOf(c, lim)
              s == Index!Scan(Index!Keys, Index!Inc(r.lo), Index!Ex(r.hi), rev, lim)
          IN /\ F \in SUBSET Key /\ IsFiniteSet(F) /\ c \in Nat
             /\ s \in Seq(F) /\ Len(s) = k
             /\ \A i \in 1..k : s[i] \in F /\ Rank(F, s[i], rev) = i
      BY <1>5, <3>1, <3>2, ScanFacts
    <3> QED BY <3>3 DEF lim
  <2> QED BY <2>2
<1>8. F \in SUBSET Shown /\ A \in SUBSET Shown BY DEF From, Ahead
<1>9. /\ n \in 0..d /\ m = n
      /\ c <= d => ~full
      /\ c > d => full
  <2> HIDE DEF F, rows
  <2> QED BY <1>2, <1>7 DEF SmallerOf
<1>10. \A i \in 1..n : /\ page.pics[i] \in Index!Visible
                      /\ KeyOf(page.pics[i]) \in F
                      /\ Rank(F, KeyOf(page.pics[i]), ~asc) = i
  <2> SUFFICES ASSUME NEW i \in 1..n
               PROVE  /\ page.pics[i] \in Index!Visible
                      /\ KeyOf(page.pics[i]) \in F
                      /\ Rank(F, KeyOf(page.pics[i]), ~asc) = i
    OBVIOUS
  <2> HIDE DEF F, rows, page
  <2>1. i \in 1..SmallerOf(c, d + 1) BY <1>2, <1>7, <1>9 DEF SmallerOf
  <2>2. rows[i] \in F /\ Rank(F, rows[i], ~asc) = i BY <1>7, <2>1
  <2>3. page.pics[i] = rows[i][2] BY <1>4, <1>9
  <2>4. rows[i] = KeyOf(page.pics[i]) /\ page.pics[i] \in Index!Visible
    BY <1>5, <1>8, <2>2, <2>3
  <2> QED BY <2>2, <2>4
<1>11. page.pics \in Seq(Index!Visible) /\ Len(page.pics) = n
  <2> HIDE DEF F, rows, page, m, n
  <2>1. page.pics = [i \in 1..n |-> page.pics[i]] BY <1>4, <1>9
  <2>2. n \in Nat BY <1>2, <1>9
  <2> QED BY <1>10, <2>1, <2>2
<1>12. c <= d => page.next = 0 BY <1>4, <1>9
<1>13. ASSUME c > d
       PROVE  page.next \in Index!Visible /\ KeyOf(page.next) \in F /\ Rank(F, KeyOf(page.next), ~asc) = d + 1
  <2> HIDE DEF F, rows, page
  <2>1. page.next = rows[d + 1][2] BY <1>4, <1>9, <1>13
  <2>2. d + 1 \in 1..SmallerOf(c, d + 1) BY <1>2, <1>7, <1>13 DEF SmallerOf
  <2>3. rows[d + 1] \in F /\ Rank(F, rows[d + 1], ~asc) = d + 1 BY <1>7, <2>2
  <2>4. rows[d + 1] = KeyOf(page.next) /\ page.next \in Index!Visible
    BY <1>5, <1>8, <2>1, <2>3
  <2> QED BY <2>3, <2>4
<1>14. ASSUME start # 0
       PROVE  LET k == SmallerOf(Cardinality(A), 1)
                  s == Index!Scan(Index!Keys, Index!Inc(q.lo), Index!Ex(q.hi), asc, 1)
              IN /\ A \in SUBSET Key /\ IsFiniteSet(A) /\ Cardinality(A) \in Nat
                 /\ s \in Seq(A) /\ Len(s) = k
                 /\ \A i \in 1..k : s[i] \in A
                 /\ \A a \in A : LET i == Rank(A, a, asc) IN
                      /\ i \in 1..Cardinality(A)
                      /\ i <= k => s[i] = a
                      /\ i > k => \A j \in 1..k : Index!Before(s[j], a, asc)
  <2> HIDE DEF A
  <2>1. InBounds(Index!Keys, Index!Inc(q.lo), Index!Ex(q.hi)) = A BY <1>6, <1>14
  <2> QED BY <1>5, <2>1, ScanFacts
<1>15. ASSUME start = 0 \/ A = {} PROVE page.prev = 0
  <2>1. CASE start = 0 BY <1>4, <2>1
  <2>2. CASE start # 0
    <3> DEFINE s == Index!Scan(Index!Keys, Index!Inc(q.lo), Index!Ex(q.hi), asc, 1)
    <3>1. A = {} BY <1>15, <2>2
    <3>2. Cardinality(A) = 0 BY <3>1, FS_EmptySet
    <3>3. s \in Seq(A) /\ Len(s) = 0
      <4> HIDE DEF A, s
      <4> QED BY <1>14, <2>2, <3>2 DEF SmallerOf, s
    <3>4. s = <<>>
      <4> HIDE DEF A, s
      <4> QED BY <3>3
    <3>5. prev = s BY <2>2
    <3> HIDE DEF s, prev
    <3> QED BY <1>4, <3>4, <3>5
  <2> QED BY <2>1, <2>2
<1>16. ASSUME start # 0, A # {}
       PROVE  /\ page.prev \in Index!Visible /\ KeyOf(page.prev) \in A
              /\ \A a \in A : a = KeyOf(page.prev) \/ Index!Before(a, KeyOf(page.prev), ~asc)
  <2> DEFINE s == Index!Scan(Index!Keys, Index!Inc(q.lo), Index!Ex(q.hi), asc, 1)
  <2>1. Cardinality(A) # 0 BY <1>14, <1>16, FS_EmptySet
  <2>2. SmallerOf(Cardinality(A), 1) = 1
    <3> HIDE DEF A
    <3> QED BY <1>14, <1>16, <2>1 DEF SmallerOf
  <2>3. /\ Len(s) = 1 /\ s[1] \in A
        /\ \A a \in A : a = s[1] \/ Index!Before(s[1], a, asc)
    <3>1. /\ Len(s) = 1 /\ s[1] \in A
          /\ \A a \in A : LET i == Rank(A, a, asc) IN
               /\ i \in 1..Cardinality(A)
               /\ i <= 1 => s[i] = a
               /\ i > 1 => \A j \in 1..1 : Index!Before(s[j], a, asc)
      <4> DEFINE k == SmallerOf(Cardinality(A), 1)
                 r2(a) == Rank(A, a, asc)
      <4>1. k = 1 BY <2>2
      <4>2. /\ Len(s) = k /\ \A i \in 1..k : s[i] \in A
            /\ \A a \in A : /\ r2(a) \in 1..Cardinality(A)
                            /\ r2(a) <= k => s[r2(a)] = a
                            /\ r2(a) > k => \A j \in 1..k : Index!Before(s[j], a, asc)
        BY <1>14, <1>16
      <4> HIDE DEF A, s, k
      <4> QED BY <4>1, <4>2
    <3>2. \A a \in A : a = s[1] \/ Index!Before(s[1], a, asc)
      <4> HIDE DEF A, s
      <4> QED BY <1>14, <1>16, <3>1
    <3> QED BY <3>1, <3>2
  <2>4. prev = s BY <1>16
  <2>5. page.prev = s[1][2]
    <3> HIDE DEF s, prev, page, A
    <3>1. prev # <<>> BY <2>3, <2>4
    <3> QED BY <1>4, <2>4, <3>1
  <2> HIDE DEF s, page
  <2>6. s[1] = KeyOf(page.prev) /\ page.prev \in Index!Visible BY <1>5, <1>8, <2>3, <2>5
  <2>7. A \in SUBSET Key BY <1>14, <1>16
  <2>8. \A a \in A : Index!Before(s[1], a, asc) => Index!Before(a, s[1], ~asc)
    BY <2>3, <2>7, BeforeOrders
  <2> HIDE DEF A
  <2> QED BY <2>3, <2>6, <2>8
<1> HIDE DEF page, F, A, m, d
<1> QED BY <1>7, <1>9, <1>10, <1>11, <1>12, <1>13, <1>15, <1>16 DEF start, page, F, A, d

\* Rows are ordered as their ranks are.
LEMMA RankOrders ==
  ASSUME NEW F \in SUBSET Key, IsFiniteSet(F), NEW reverse \in BOOLEAN, NEW a \in F, NEW b \in F
  PROVE  /\ Rank(F, a, reverse) < Rank(F, b, reverse) => Index!Before(a, b, reverse)
         /\ Rank(F, a, reverse) = Rank(F, b, reverse) => a = b
<1> DEFINE r(x) == Rank(F, x, reverse)
<1>1. /\ r(a) \in 1..Cardinality(F) /\ r(b) \in 1..Cardinality(F)
      /\ (Index!Before(b, a, reverse) => r(b) < r(a)) /\ (r(a) = r(b) => a = b)
  BY RanksAre
<1>2. Cardinality(F) \in Nat BY FS_CardinalityType
<1>3. a = b \/ Index!Before(a, b, reverse) \/ Index!Before(b, a, reverse) BY BeforeOrders
<1> HIDE DEF r
<1>4. r(a) < r(b) => Index!Before(a, b, reverse) BY <1>1, <1>2, <1>3
<1> QED BY <1>1, <1>4 DEF r

\* The pictures of a page are in order, and what does not fit comes from the
\* next page on.
LEMMA PageIsFirst ==
  ASSUME PagesAssumption, PicsOK, NEW id \in PicId \cup {0}, NEW asc \in BOOLEAN
  PROVE  LET page == Index!Page(id, asc)
             F == From(Index!lookupStartPic(id, asc), asc)
         IN /\ F \in SUBSET Key /\ F \in SUBSET Shown
            /\ page.pics \in Seq(Index!Visible) /\ page.next \in Index!Visible \cup {0}
            /\ \A i \in 1..Len(page.pics) : KeyOf(page.pics[i]) \in F
            /\ \A i, k \in 1..Len(page.pics) : i < k =>
                 Index!Before(KeyOf(page.pics[i]), KeyOf(page.pics[k]), ~asc)
            /\ page.next # 0 =>
                 /\ KeyOf(page.next) \in F
                 /\ \A i \in 1..Len(page.pics) :
                      Index!Before(KeyOf(page.pics[i]), KeyOf(page.next), ~asc)
            /\ \A a \in F :
                 \/ \E i \in 1..Len(page.pics) : KeyOf(page.pics[i]) = a
                 \/ page.next # 0 /\ (a = KeyOf(page.next) \/ Index!Before(KeyOf(page.next), a, ~asc))
<1> DEFINE page == Index!Page(id, asc)
           start == Index!lookupStartPic(id, asc)
           F == From(start, asc)
           c == Cardinality(F)
           d == DefaultFindIndexPics
           n == SmallerOf(c, d)
           r(a) == Rank(F, a, ~asc)
           key(i) == KeyOf(page.pics[i])
<1>1. /\ F \in SUBSET Key /\ IsFiniteSet(F) /\ c \in Nat
      /\ n \in 0..d
      /\ page.pics \in Seq(Index!Visible) /\ Len(page.pics) = n
      /\ \A i \in 1..n : key(i) \in F /\ r(key(i)) = i
      /\ c <= d => page.next = 0
      /\ c > d => /\ page.next \in Index!Visible /\ KeyOf(page.next) \in F
                 /\ r(KeyOf(page.next)) = d + 1
  BY PageFacts
<1>2. d \in Nat \ {0} BY DEF PagesAssumption, Index!DefaultAssumption
<1>3. F \in SUBSET Shown BY DEF From
<1>4. 0 \notin Index!Visible BY KeysAre DEF Index!Visible
<1>5. \A a, b \in F : (r(a) < r(b) => Index!Before(a, b, ~asc)) /\ (r(a) = r(b) => a = b)
  <2> SUFFICES ASSUME NEW a \in F, NEW b \in F
               PROVE  (r(a) < r(b) => Index!Before(a, b, ~asc)) /\ (r(a) = r(b) => a = b)
    OBVIOUS
  <2>1. (~asc) \in BOOLEAN OBVIOUS
  <2> HIDE DEF F
  <2> QED BY <1>1, <2>1, RankOrders
<1>6. \A a \in F : r(a) \in 1..c
  <2>1. (~asc) \in BOOLEAN OBVIOUS
  <2> HIDE DEF F
  <2> QED BY <1>1, <2>1, RanksAre
<1> HIDE DEF page, start, F, c, d, r, key
<1>7. n = (IF c < d THEN c ELSE d) BY DEF SmallerOf
<1> HIDE DEF n
<1>8. page.next \in Index!Visible \cup {0} /\ (page.next # 0 <=> c > d) BY <1>1, <1>2, <1>4
<1>9. ASSUME NEW i \in 1..n, NEW k \in 1..n, i < k PROVE Index!Before(key(i), key(k), ~asc)
  BY <1>1, <1>5, <1>9
<1>10. ASSUME page.next # 0
       PROVE  /\ KeyOf(page.next) \in F
              /\ \A i \in 1..n : Index!Before(key(i), KeyOf(page.next), ~asc)
  <2>1. KeyOf(page.next) \in F /\ r(KeyOf(page.next)) = d + 1 BY <1>1, <1>8, <1>10
  <2>2. ASSUME NEW i \in 1..n PROVE Index!Before(key(i), KeyOf(page.next), ~asc)
    <3>1. key(i) \in F /\ r(key(i)) = i BY <1>1
    <3>2. i < d + 1 BY <1>1, <1>2
    <3> QED BY <1>5, <2>1, <3>1, <3>2
  <2> QED BY <2>1, <2>2
<1>11. ASSUME NEW a \in F
       PROVE  \/ \E i \in 1..n : key(i) = a
              \/ page.next # 0 /\ (a = KeyOf(page.next) \/ Index!Before(KeyOf(page.next), a, ~asc))
  <2>1. r(a) \in 1..c BY <1>6
  <2>2. CASE r(a) <= n
    <3>1. r(a) \in 1..n BY <1>1, <1>2, <2>1, <2>2
    <3>2. key(r(a)) \in F /\ r(key(r(a))) = r(a) BY <1>1, <3>1
    <3> QED BY <1>5, <3>1, <3>2
  <2>3. CASE r(a) > n
    <3>1. c > d BY <1>1, <1>2, <1>7, <2>1, <2>3
    <3>2. d + 1 <= r(a) BY <1>1, <1>2, <1>7, <2>1, <2>3, <3>1
    <3>3. KeyOf(page.next) \in F /\ r(KeyOf(page.next)) = d + 1 BY <1>1, <3>1
    <3>4. CASE r(a) = d + 1 BY <1>5, <1>8, <3>1, <3>3, <3>4
    <3>5. CASE d + 1 < r(a) BY <1>5, <1>8, <3>1, <3>3, <3>5
    <3> QED BY <1>1, <1>2, <2>1, <3>2, <3>4, <3>5
  <2> QED BY <1>1, <1>2, <2>1, <2>2, <2>3
<1> QED BY <1>1, <1>3, <1>8, <1>9, <1>10, <1>11 DEF page, start, F, key

-----------------------------------------------------------------------------
\* What a reader has seen, and what is still to come.
Walks == [pc : {"idle", "walk", "done"}, asc : BOOLEAN, at : PicId \cup {0},
          seen : Seq(Order \X PicId), present : SUBSET PicId, cut : BOOLEAN]

Places == 1..Len(walk.seen)
InOrder == \A i, k \in Places : i < k => Index!Before(walk.seen[i], walk.seen[k], ~walk.asc)
SeenBefore == walk.at # 0 =>
  walk.at \in Index!Stored /\ \A i \in Places :
                                Index!Before(walk.seen[i], KeyOf(walk.at), ~walk.asc)
ToCome(p) ==
  /\ walk.pc = "walk"
  /\ walk.at = 0 \/ p = walk.at \/ Index!Before(KeyOf(walk.at), KeyOf(p), ~walk.asc)
SeenOrToCome == \A p \in walk.present : ToCome(p) \/ \E i \in Places : walk.seen[i][2] = p

WalkTypes == Index!TypeOK /\ walk \in Walks
OnTheWay == /\ walk.at = 0 => walk.pc # "walk" \/ walk.seen = <<>>
            /\ ~walk.cut => InOrder /\ SeenBefore /\ SeenOrToCome
WalkInv == WalkTypes /\ OnTheWay

LEMMA InitWalk == Index!Init => WalkInv
<1> SUFFICES ASSUME Index!Init PROVE WalkInv OBVIOUS
<1>1. Index!Stored = {} /\ Index!Visible = {} BY DEF Index!Init, Index!Stored, Index!Visible
<1>2. walk = Index!NoWalk BY DEF Index!Init
<1>3. <<>> \in Seq(Order \X PicId) OBVIOUS
<1>4. Len(<<>>) = 0 OBVIOUS
<1>5. Index!TypeOK BY <1>1, <1>2, <1>3 DEF Index!Init, Index!TypeOK, Index!NoWalk
<1>6. walk \in Walks BY <1>2, <1>3 DEF Walks, Index!NoWalk
<1>7. OnTheWay
  BY <1>2, <1>4 DEF OnTheWay, Index!NoWalk, InOrder, SeenBefore, SeenOrToCome, Places
<1> QED BY <1>5, <1>6, <1>7 DEF WalkInv, WalkTypes

LEMMA ConcatFacts ==
  ASSUME NEW S, NEW s \in Seq(S), NEW t \in Seq(S)
  PROVE  LET n == Len(s)
             m == Len(t)
         IN /\ n + m \in Nat /\ s \o t \in Seq(S) /\ Len(s \o t) = n + m
            /\ \A i \in 1..n : (s \o t)[i] = s[i]
            /\ \A i \in (n + 1)..(n + m) : i - n \in 1..m /\ (s \o t)[i] = t[i - n]
OBVIOUS

LEMMA ReadPageStep == ASSUME PagesAssumption, WalkInv, Index!ReadPage PROVE WalkInv'
<1> DEFINE at == walk.at
           asc == walk.asc
           page == Index!Page(at, asc)
           ps == page.pics
           read == [i \in 1..Len(ps) |-> KeyOf(ps[i])]
           F == From(Index!lookupStartPic(at, asc), asc)
           L == Len(walk.seen)
           n == Len(ps)
<1>1. Index!TypeOK /\ walk \in Walks /\ OnTheWay /\ PicsOK
  BY DEF WalkInv, WalkTypes, Index!TypeOK, PicsOK
<1>2. at \in PicId \cup {0} /\ asc \in BOOLEAN /\ walk.seen \in Seq(Order \X PicId)
  BY <1>1 DEF Walks
<1>3. /\ F \in SUBSET Key /\ F \in SUBSET Shown
      /\ ps \in Seq(Index!Visible) /\ page.next \in Index!Visible \cup {0}
      /\ \A i \in 1..n : KeyOf(ps[i]) \in F
      /\ \A i, k \in 1..n : i < k => Index!Before(KeyOf(ps[i]), KeyOf(ps[k]), ~asc)
      /\ page.next # 0 =>
           /\ KeyOf(page.next) \in F
           /\ \A i \in 1..n : Index!Before(KeyOf(ps[i]), KeyOf(page.next), ~asc)
      /\ \A a \in F :
           \/ \E i \in 1..n : KeyOf(ps[i]) = a
           \/ page.next # 0 /\ (a = KeyOf(page.next) \/ Index!Before(KeyOf(page.next), a, ~asc))
  <2> HIDE DEF at, asc
  <2> QED BY <1>1, <1>2, PageIsFirst
<1>4. /\ walk.pc = "walk"
      /\ walk' = [walk EXCEPT !.seen = @ \o read, !.at = page.next,
                               !.pc = IF page.next = 0 THEN "done" ELSE "walk"]
      /\ UNCHANGED <<pics, usedIds, voted>>
  BY DEF Index!ReadPage, KeyOf
<1> HIDE DEF page, F
<1>5. \A p \in Index!Stored : /\ p \in PicId /\ pics[p].order \in Order /\ KeyOf(p) \in Key
  BY <1>1, KeysAre
<1>6. n \in Nat /\ L \in Nat BY <1>2, <1>3
<1>7. \A i \in 1..n : ps[i] \in Index!Visible /\ ps[i] \in Index!Stored /\ KeyOf(ps[i]) \in Order \X PicId
  BY <1>3, <1>5 DEF Index!Visible, KeyOf
<1>8. read \in Seq(Order \X PicId) /\ Len(read) = n /\ \A i \in 1..n : read[i] = KeyOf(ps[i])
  BY <1>6, <1>7
<1> HIDE DEF read, ps, n
<1>9. /\ walk' \in Walks
      /\ walk'.seen = walk.seen \o read /\ walk'.at = page.next
      /\ walk'.pc = (IF page.next = 0 THEN "done" ELSE "walk")
      /\ walk'.asc = asc /\ walk'.present = walk.present /\ walk'.cut = walk.cut
  <2>1. walk.seen \o read \in Seq(Order \X PicId) BY <1>2, <1>8
  <2>2. page.next \in PicId \cup {0} BY <1>3, <1>5 DEF Index!Visible
  <2> QED BY <1>1, <1>4, <2>1, <2>2 DEF Walks
<1>10. WalkTypes'
  <2>1. Index!Stored' = Index!Stored /\ Index!Visible' = Index!Visible
    BY <1>4 DEF Index!Stored, Index!Visible
  <2> QED BY <1>1, <1>4, <1>9, <2>1 DEF Index!TypeOK, WalkTypes, Walks
<1>11. /\ L + n \in Nat /\ Len(walk.seen \o read) = L + n
       /\ \A i \in 1..L : (walk.seen \o read)[i] = walk.seen[i]
       /\ \A i \in (L + 1)..(L + n) : i - L \in 1..n /\ (walk.seen \o read)[i] = read[i - L]
  <2> DEFINE m == Len(read)
  <2>1. /\ L + m \in Nat /\ Len(walk.seen \o read) = L + m
        /\ \A i \in 1..L : (walk.seen \o read)[i] = walk.seen[i]
        /\ \A i \in (L + 1)..(L + m) : i - L \in 1..m /\ (walk.seen \o read)[i] = read[i - L]
    <3> DEFINE S == Order \X PicId
               s == walk.seen
    <3>1. s \in Seq(S) /\ read \in Seq(S) BY <1>2, <1>8
    <3> HIDE DEF S, s
    <3>2. LET k == Len(s) IN
          /\ k + Len(read) \in Nat /\ Len(s \o read) = k + Len(read)
          /\ \A i \in 1..k : (s \o read)[i] = s[i]
          /\ \A i \in (k + 1)..(k + Len(read)) :
               i - k \in 1..Len(read) /\ (s \o read)[i] = read[i - k]
      BY <3>1, ConcatFacts
    <3> QED BY <3>2 DEF s
  <2>2. m = n BY <1>8
  <2> HIDE DEF L, m
  <2> QED BY <2>1, <2>2
<1>12. \A p \in PicId : KeyOf(p)' = KeyOf(p) BY <1>4 DEF KeyOf
<1>13. page.next = 0 => walk'.pc # "walk" BY <1>9
<1>14. ASSUME ~walk.cut PROVE InOrder' /\ SeenBefore' /\ SeenOrToCome'
  <2>1. InOrder /\ SeenBefore /\ SeenOrToCome /\ (at = 0 => L = 0)
    BY <1>1, <1>4, <1>14 DEF OnTheWay
  <2>2. at \in Index!Stored \cup {0} BY <2>1 DEF SeenBefore
  <2>3. F = From(at, asc) BY <1>1, <1>2, <2>2, StartFacts DEF F
  <2>4. \A a \in F : at # 0 => a = KeyOf(at) \/ Index!Before(KeyOf(at), a, ~asc)
    BY <2>3 DEF From
  <2>5. \A i \in 1..L : walk.seen[i] \in Key
    <3>1. \A i \in 1..L : walk.seen[i] \in Order \X PicId BY <1>2
    <3>2. Order \X PicId \subseteq Key
      <4>1. Order \subseteq Int /\ PicId \subseteq Int
        BY DEF PagesAssumption, Index!OrderAssumption, Index!PicIdAssumption
      <4> QED BY <4>1 DEF Key
    <3> QED BY <3>1, <3>2
  <2>6. \A i \in 1..L, a \in F : Index!Before(walk.seen[i], a, ~asc)
    <3> SUFFICES ASSUME NEW i \in 1..L, NEW a \in F PROVE Index!Before(walk.seen[i], a, ~asc)
      OBVIOUS
    <3>1. at # 0 /\ at \in Index!Stored /\ Index!Before(walk.seen[i], KeyOf(at), ~asc)
      BY <1>6, <2>1 DEF SeenBefore, Places
    <3>2. a = KeyOf(at) \/ Index!Before(KeyOf(at), a, ~asc) BY <2>4, <3>1
    <3>3. KeyOf(at) \in Key /\ a \in Key /\ walk.seen[i] \in Key BY <1>3, <1>5, <2>5, <3>1
    <3>4. (~asc) \in BOOLEAN OBVIOUS
    <3> HIDE DEF at, asc
    <3> QED BY <3>1, <3>2, <3>3, <3>4, BeforeOrders
  <2>7. InOrder'
    <3> SUFFICES ASSUME NEW i \in 1..(L + n), NEW k \in 1..(L + n), i < k
                 PROVE  Index!Before((walk.seen \o read)[i], (walk.seen \o read)[k], ~asc)
      BY <1>9, <1>11 DEF InOrder, Places
    <3>1. CASE k <= L
      <4>1. i \in 1..L /\ k \in 1..L BY <1>6, <3>1
      <4> QED BY <1>11, <2>1, <4>1 DEF InOrder, Places
    <3>2. CASE i <= L /\ k > L
      <4>1. i \in 1..L /\ k \in (L + 1)..(L + n) BY <1>6, <3>2
      <4>2. k - L \in 1..n /\ (walk.seen \o read)[k] = read[k - L] BY <1>11, <4>1
      <4>3. read[k - L] \in F BY <1>3, <1>8, <4>2 DEF n, ps
      <4> QED BY <1>11, <2>6, <4>1, <4>2, <4>3
    <3>3. CASE i > L
      <4>1. i \in (L + 1)..(L + n) /\ k \in (L + 1)..(L + n) BY <1>6, <3>3
      <4>2. /\ i - L \in 1..n /\ (walk.seen \o read)[i] = read[i - L]
            /\ k - L \in 1..n /\ (walk.seen \o read)[k] = read[k - L]
        BY <1>11, <4>1
      <4>3. i - L < k - L BY <1>6
      <4>4. Index!Before(KeyOf(ps[i - L]), KeyOf(ps[k - L]), ~asc)
        BY <1>3, <4>2, <4>3 DEF n, ps
      <4> QED BY <1>8, <4>2, <4>4
    <3>4. i \in Int /\ k \in Int /\ L \in Int BY <1>6
    <3>5. k <= L \/ (i <= L /\ k > L) \/ i > L
      <4> HIDE DEF L
      <4> QED BY <3>4
    <3> QED BY <3>1, <3>2, <3>3, <3>5
  <2>8. SeenBefore'
    <3> SUFFICES ASSUME page.next # 0
                 PROVE  /\ page.next \in Index!Stored
                        /\ \A i \in 1..(L + n) :
                             Index!Before((walk.seen \o read)[i], KeyOf(page.next), ~asc)
      <4>1. page.next \in Index!Stored \cup {0} BY <1>3 DEF Index!Visible
      <4>2. Index!Stored' = Index!Stored BY <1>4 DEF Index!Stored
      <4>3. pics' = pics BY <1>4
      <4>4. Places' = 1..(L + n) BY <1>9, <1>11 DEF Places
      <4>5. walk'.at = page.next /\ walk'.asc = asc /\ walk'.seen = walk.seen \o read
        BY <1>9
      <4> HIDE DEF L
      <4> QED BY <4>1, <4>2, <4>3, <4>4, <4>5 DEF SeenBefore, KeyOf
    <3>1. page.next \in Index!Stored BY <1>3 DEF Index!Visible
    <3>2. ASSUME NEW i \in 1..(L + n)
          PROVE  Index!Before((walk.seen \o read)[i], KeyOf(page.next), ~asc)
      <4>1. CASE i <= L
        <5>1. i \in 1..L BY <1>6, <4>1
        <5> QED BY <1>3, <1>11, <2>6, <5>1
      <4>2. CASE i > L
        <5>1. i \in (L + 1)..(L + n) BY <1>6, <4>2
        <5>2. i - L \in 1..n /\ (walk.seen \o read)[i] = read[i - L] BY <1>11, <5>1
        <5> QED BY <1>3, <1>8, <5>2 DEF n, ps
      <4>3. i \in Int /\ L \in Int BY <1>6
      <4>4. i <= L \/ i > L
        <5> HIDE DEF L
        <5> QED BY <4>3
      <4> QED BY <4>1, <4>2, <4>4
    <3> QED BY <3>1, <3>2
  <2>9. SeenOrToCome'
    <3> SUFFICES ASSUME NEW p \in walk.present
                 PROVE  \/ /\ page.next # 0
                           /\ p = page.next \/ Index!Before(KeyOf(page.next), KeyOf(p), ~asc)
                        \/ \E i \in 1..(L + n) : (walk.seen \o read)[i][2] = p
      BY <1>4, <1>9, <1>11 DEF SeenOrToCome, ToCome, Places, KeyOf
    <3>1. p \in Index!Visible /\ p \in Index!Stored BY <1>1 DEF Index!TypeOK, Index!Visible
    <3>2. CASE \E i \in 1..L : walk.seen[i][2] = p
      <4>1. PICK i \in 1..L : walk.seen[i][2] = p BY <3>2
      <4>2. i \in 1..(L + n) BY <1>6
      <4> QED BY <1>11, <4>1, <4>2
    <3>3. CASE ~ \E i \in 1..L : walk.seen[i][2] = p
      <4>1. ToCome(p) BY <2>1, <3>3 DEF SeenOrToCome, Places
      <4>2. KeyOf(p) \in F BY <2>3, <3>1, <4>1 DEF ToCome, From, Shown
      <4>3. CASE \E i \in 1..n : KeyOf(ps[i]) = KeyOf(p)
        <5>1. PICK i \in 1..n : KeyOf(ps[i]) = KeyOf(p) BY <4>3
        <5>2. read[i][2] = p BY <1>8, <5>1 DEF KeyOf
        <5>3. L + i \in 1..(L + n) /\ L + i \in (L + 1)..(L + n) /\ (L + i) - L = i BY <1>6
        <5>4. (walk.seen \o read)[L + i] = read[i] BY <1>11, <5>3
        <5> QED BY <5>2, <5>3, <5>4
      <4>4. CASE page.next # 0 /\ (KeyOf(p) = KeyOf(page.next) \/ Index!Before(KeyOf(page.next), KeyOf(p), ~asc))
        BY <4>4 DEF KeyOf
      <4> QED BY <1>3, <4>2, <4>3, <4>4 DEF n, ps
    <3> QED BY <3>2, <3>3
  <2> QED BY <2>7, <2>8, <2>9
<1>15. OnTheWay' BY <1>9, <1>13, <1>14 DEF OnTheWay
<1> QED BY <1>10, <1>15 DEF WalkInv

\* The reader keeps the place while what is to come keeps its time.
LEMMA PlaceIsKept ==
  ASSUME WalkInv,
         walk' \in Walks, walk'.pc = walk.pc, walk'.asc = walk.asc, walk'.at = walk.at,
         walk'.seen = walk.seen, walk'.present \subseteq walk.present,
         \A q \in walk'.present : KeyOf(q)' = KeyOf(q),
         ~walk'.cut => /\ ~walk.cut
                       /\ walk.at \in Index!Stored =>
                            walk.at \in Index!Stored' /\ pics'[walk.at].order = pics[walk.at].order
  PROVE  OnTheWay'
<1>1. OnTheWay BY DEF WalkInv
<1>2. SUFFICES ASSUME ~walk'.cut PROVE InOrder' /\ SeenBefore' /\ SeenOrToCome'
  BY <1>1 DEF OnTheWay
<1>3. InOrder /\ SeenBefore /\ SeenOrToCome BY <1>1, <1>2 DEF OnTheWay
<1>4. InOrder' BY <1>3 DEF InOrder, Places
<1>5. SeenBefore' BY <1>2, <1>3 DEF SeenBefore, Places, KeyOf
<1>6. SeenOrToCome'
  <2>1. walk.at # 0 => pics'[walk.at].order = pics[walk.at].order
    BY <1>2, <1>3 DEF SeenBefore
  <2> SUFFICES ASSUME NEW p \in walk'.present
               PROVE  ToCome(p)' \/ \E i \in Places' : walk'.seen[i][2] = p
    BY DEF SeenOrToCome
  <2>2. ToCome(p) \/ \E i \in Places : walk.seen[i][2] = p BY <1>3 DEF SeenOrToCome
  <2>3. CASE ToCome(p) BY <2>1, <2>3 DEF ToCome, KeyOf
  <2>4. CASE \E i \in Places : walk.seen[i][2] = p BY <2>4 DEF Places
  <2> QED BY <2>2, <2>3, <2>4
<1> QED BY <1>4, <1>5, <1>6

LEMMA HideStep ==
  ASSUME PagesAssumption, WalkInv, NEW p \in PicId, Index!HardDelete(p) \/ Index!Undelete(p)
  PROVE  WalkInv'
<1>1. Index!TypeOK /\ walk \in Walks /\ PicsOK
  BY DEF WalkInv, WalkTypes, Index!TypeOK, PicsOK
<1>2. /\ p \in Index!Stored /\ pics[p] \in [order : Order, hidden : BOOLEAN]
      /\ UNCHANGED <<usedIds, voted>>
  BY <1>1 DEF Index!HardDelete, Index!Undelete, Index!Visible, PicsOK, Index!Stored
<1>3. PICK h \in BOOLEAN : pics' = [pics EXCEPT ![p].hidden = h] /\ (h => Index!HardDelete(p))
  <2>1. CASE Index!HardDelete(p) BY <2>1 DEF Index!HardDelete
  <2>2. CASE Index!Undelete(p) BY <2>2 DEF Index!Undelete
  <2> QED BY <2>1, <2>2
<1>4. /\ pics' \in [PicId -> [order : Order, hidden : BOOLEAN] \cup {NoPic}]
      /\ pics'[p] \in [order : Order, hidden : BOOLEAN] /\ pics'[p].hidden = h
      /\ \A q \in PicId : (q # p => pics'[q] = pics[q]) /\ pics'[q].order = pics[q].order
  BY <1>1, <1>2, <1>3 DEF PicsOK
<1>5. Index!Stored' = Index!Stored
  BY <1>2, <1>4 DEF Index!Stored, PagesAssumption, Index!NoPicAssumption
<1>6. /\ walk' \in Walks /\ walk'.pc = walk.pc /\ walk'.asc = walk.asc /\ walk'.at = walk.at
      /\ walk'.seen = walk.seen /\ walk'.present \subseteq walk.present /\ walk'.cut = walk.cut
      /\ h => p \notin walk'.present
  <2>1. CASE Index!HardDelete(p) BY <1>1, <2>1 DEF Index!HardDelete, Walks
  <2>2. CASE ~Index!HardDelete(p) BY <1>1, <1>3, <2>2 DEF Index!Undelete
  <2> QED BY <2>1, <2>2
<1>7. walk'.present \subseteq Index!Visible'
  <2> SUFFICES ASSUME NEW q \in walk'.present PROVE q \in Index!Visible' OBVIOUS
  <2>1. q \in Index!Visible /\ q \in PicId
    BY <1>1, <1>6 DEF Index!TypeOK, Index!Visible, Index!Stored
  <2>2. CASE q # p BY <1>4, <1>5, <2>1, <2>2 DEF Index!Visible
  <2>3. CASE q = p BY <1>4, <1>5, <1>6, <2>1, <2>3 DEF Index!Visible
  <2> QED BY <2>2, <2>3
<1>8. WalkTypes' BY <1>1, <1>2, <1>4, <1>5, <1>6, <1>7 DEF WalkTypes, Index!TypeOK, Walks
<1>9. OnTheWay'
  <2>1. \A q \in PicId : pics'[q].order = pics[q].order BY <1>4
  <2>2. \A q \in walk'.present : KeyOf(q)' = KeyOf(q) BY <1>6, <2>1 DEF Walks, KeyOf
  <2>3. walk.at \in Index!Stored =>
          walk.at \in Index!Stored' /\ pics'[walk.at].order = pics[walk.at].order
    BY <1>5, <2>1 DEF Index!Stored
  <2> QED BY <1>6, <2>2, <2>3, PlaceIsKept
<1> QED BY <1>8, <1>9 DEF WalkInv

LEMMA UploadStep ==
  ASSUME PagesAssumption, WalkInv, NEW p \in PicId, NEW o \in Order, Index!Upload(p, o)
  PROVE  WalkInv'
<1>1. Index!TypeOK /\ walk \in Walks BY DEF WalkInv, WalkTypes
<1>2. /\ p \notin Index!Stored /\ usedIds' = usedIds \cup {p} /\ UNCHANGED <<voted, walk>>
      /\ pics' = [pics EXCEPT ![p] = [order |-> o, hidden |-> FALSE]]
  BY <1>1 DEF Index!Upload, Index!TypeOK
<1>3. /\ pics' \in [PicId -> [order : Order, hidden : BOOLEAN] \cup {NoPic}]
      /\ \A q \in PicId : q # p => pics'[q] = pics[q]
      /\ pics'[p] \in [order : Order, hidden : BOOLEAN]
  BY <1>1, <1>2 DEF Index!TypeOK
<1>4. Index!Stored' = Index!Stored \cup {p}
  BY <1>3 DEF Index!Stored, PagesAssumption, Index!NoPicAssumption
<1>5. Index!Visible \subseteq Index!Visible'
  BY <1>2, <1>3, <1>4 DEF Index!Visible, Index!Stored
<1>6. WalkTypes' BY <1>1, <1>2, <1>3, <1>4, <1>5 DEF WalkTypes, Index!TypeOK
<1>7. OnTheWay'
  <2>1. \A q \in Index!Stored : pics'[q] = pics[q] /\ q \in Index!Stored'
    BY <1>2, <1>3, <1>4 DEF Index!Stored
  <2>2. \A q \in walk'.present : KeyOf(q)' = KeyOf(q)
    BY <1>1, <1>2, <2>1 DEF Index!TypeOK, Index!Visible, KeyOf
  <2>3. /\ walk' \in Walks /\ walk'.present \subseteq walk.present /\ walk' = walk
        /\ walk.at \in Index!Stored =>
             walk.at \in Index!Stored' /\ pics'[walk.at].order = pics[walk.at].order
    BY <1>1, <1>2, <2>1
  <2> QED BY <2>2, <2>3, PlaceIsKept
<1> QED BY <1>6, <1>7 DEF WalkInv

LEMMA PurgeStep ==
  ASSUME PagesAssumption, WalkInv, NEW p \in PicId, Index!Purge(p)
  PROVE  WalkInv'
<1>1. Index!TypeOK /\ walk \in Walks BY DEF WalkInv, WalkTypes
<1>2. /\ pics' = [pics EXCEPT ![p] = NoPic] /\ usedIds' = usedIds /\ voted' = voted \ {p}
      /\ walk' = [walk EXCEPT !.present = @ \ {p}, !.cut = @ \/ walk.at = p]
  BY DEF Index!Purge, Index!VotesLeft
<1>3. /\ pics' \in [PicId -> [order : Order, hidden : BOOLEAN] \cup {NoPic}]
      /\ \A q \in PicId : q # p => pics'[q] = pics[q]
      /\ pics'[p] = NoPic
  BY <1>1, <1>2 DEF Index!TypeOK
<1>4. Index!Stored' = Index!Stored \ {p} /\ \A q \in Index!Stored \ {p} : pics'[q] = pics[q]
  BY <1>3 DEF Index!Stored
<1>5. Index!Visible' = Index!Visible \ {p} BY <1>4 DEF Index!Visible
<1>6. /\ walk' \in Walks /\ walk'.pc = walk.pc /\ walk'.asc = walk.asc /\ walk'.at = walk.at
      /\ walk'.seen = walk.seen /\ walk'.present = walk.present \ {p}
      /\ walk'.cut = (walk.cut \/ walk.at = p)
  BY <1>1, <1>2 DEF Walks
<1>7. WalkTypes' BY <1>1, <1>2, <1>3, <1>4, <1>5, <1>6 DEF WalkTypes, Index!TypeOK, Walks
<1>8. OnTheWay'
  <2>1. \A q \in walk'.present : KeyOf(q)' = KeyOf(q)
    BY <1>1, <1>4, <1>6 DEF Index!TypeOK, Index!Visible, KeyOf
  <2>2. ~walk'.cut =>
          /\ ~walk.cut
          /\ walk.at \in Index!Stored =>
               walk.at \in Index!Stored' /\ pics'[walk.at].order = pics[walk.at].order
    BY <1>4, <1>6
  <2> QED BY <1>6, <2>1, <2>2, PlaceIsKept
<1> QED BY <1>7, <1>8 DEF WalkInv

LEMMA VoteStep ==
  ASSUME PagesAssumption, WalkInv, NEW p \in PicId, Index!Vote(p)
  PROVE  WalkInv'
<1>1. Index!TypeOK /\ walk \in Walks /\ OnTheWay BY DEF WalkInv, WalkTypes
<1>2. p \in Index!Stored /\ voted' = voted \cup {p} /\ UNCHANGED <<pics, usedIds, walk>>
  BY DEF Index!Vote, Index!Visible
<1>3. Index!Stored' = Index!Stored /\ Index!Visible' = Index!Visible
  BY <1>2 DEF Index!Stored, Index!Visible
<1>4. WalkTypes' BY <1>1, <1>2, <1>3 DEF WalkTypes, Index!TypeOK
<1>5. OnTheWay'
  BY <1>1, <1>2, <1>3 DEF OnTheWay, InOrder, SeenBefore, SeenOrToCome, ToCome, Places, KeyOf
<1> QED BY <1>4, <1>5 DEF WalkInv

LEMMA BeginStep ==
  ASSUME PagesAssumption, WalkInv, NEW asc \in BOOLEAN, Index!BeginWalk(asc)
  PROVE  WalkInv'
<1>1. Index!TypeOK /\ walk \in Walks BY DEF WalkInv, WalkTypes
<1>2. /\ walk' = [Index!NoWalk EXCEPT !.pc = "walk", !.asc = asc, !.present = Index!Visible]
      /\ UNCHANGED <<pics, usedIds, voted>>
  BY DEF Index!BeginWalk
<1>3. walk' = [pc |-> "walk", asc |-> asc, at |-> 0, seen |-> <<>>,
               present |-> Index!Visible, cut |-> FALSE]
  BY <1>2 DEF Index!NoWalk
<1>4. Index!Stored' = Index!Stored /\ Index!Visible' = Index!Visible /\ Index!Visible \subseteq PicId
  BY <1>2 DEF Index!Stored, Index!Visible
<1>5. <<>> \in Seq(Order \X PicId) /\ Len(<<>>) = 0 OBVIOUS
<1>6. walk' \in Walks BY <1>3, <1>4, <1>5 DEF Walks
<1>7. WalkTypes'
  <2>1. pics' = pics /\ usedIds' = usedIds /\ voted' = voted BY <1>2
  <2> QED BY <1>1, <1>4, <1>6, <2>1, <1>3 DEF WalkTypes, Index!TypeOK, Walks
<1>8. OnTheWay'
  BY <1>3, <1>5 DEF OnTheWay, InOrder, SeenBefore, SeenOrToCome, ToCome, Places
<1> QED BY <1>7, <1>8 DEF WalkInv

\* The reader's invariant holds whatever others do between two pages.
LEMMA WalkStep == PagesAssumption /\ WalkInv /\ [Index!Next]_(Index!vars) => WalkInv'
<1> SUFFICES ASSUME PagesAssumption, WalkInv, [Index!Next]_(Index!vars) PROVE WalkInv' OBVIOUS
<1>1. CASE UNCHANGED Index!vars
  BY <1>1
     DEF Index!vars, WalkInv, WalkTypes, Index!TypeOK, Index!Stored, Index!Visible,
         OnTheWay, InOrder, SeenBefore,
              SeenOrToCome, ToCome, Places, KeyOf
<1>2. CASE \E asc \in BOOLEAN : Index!BeginWalk(asc) BY <1>2, BeginStep
<1>3. CASE Index!ReadPage BY <1>3, ReadPageStep
<1>4. CASE \E p \in PicId : \/ Index!HardDelete(p) \/ Index!Undelete(p)
                          \/ Index!Purge(p) \/ Index!Vote(p)
                          \/ \E o \in Order : Index!Upload(p, o)
  BY <1>4, HideStep, PurgeStep, VoteStep, UploadStep
<1> QED BY <1>1, <1>2, <1>3, <1>4 DEF Index!Next

LEMMA WalkHolds == ASSUME PagesAssumption PROVE Index!Spec => []WalkInv
<1>1. Index!Init => WalkInv BY InitWalk
<1>2. WalkInv /\ [Index!Next]_(Index!vars) => WalkInv' BY WalkStep
<1> QED BY <1>1, <1>2, PTL DEF Index!Spec

\* The pictures, the votes and the reader's way have the types the model says.
THEOREM WalkTypeCorrect == ASSUME PagesAssumption PROVE Index!Spec => []Index!TypeOK
<1>1. WalkInv => Index!TypeOK BY DEF WalkInv, WalkTypes
<1> QED BY <1>1, WalkHolds, PTL

\* A reader who follows NextId meets no picture twice, and all of them in the order of
\* their times, whatever is uploaded, hidden or brought back meanwhile, with any number
\* of pictures at one time and any size of pages (ReadIndexPicsTask.Run).
THEOREM WalksInOrder == ASSUME PagesAssumption PROVE Index!Spec => []Index!WalkInOrder
<1>1. WalkInv => Index!WalkInOrder
  BY DEF WalkInv, WalkTypes, Walks, OnTheWay, Index!WalkInOrder, InOrder, Places,
      Index!Before
<1> QED BY <1>1, WalkHolds, PTL

\* At the end such a reader has met every picture that was there all the time, for a
\* page begins with the row its predecessor left out (ReadIndexPicsTask.Run).
THEOREM WalksSeeWhatStays == ASSUME PagesAssumption PROVE Index!Spec => []Index!WalkSeesAll
<1>1. WalkInv => Index!WalkSeesAll
  BY DEF WalkInv, OnTheWay, Index!WalkSeesAll, SeenOrToCome, ToCome, Places
<1> QED BY <1>1, WalkHolds, PTL

-----------------------------------------------------------------------------
\* The rows between two rows of a scan, counted from the other side.
LEMMA RanksTurn ==
  ASSUME NEW F \in SUBSET Key, IsFiniteSet(F), NEW B \in SUBSET Key, IsFiniteSet(B),
         NEW reverse \in BOOLEAN, NEW last \in F, NEW a \in F,
         a = last \/ Index!Before(a, last, reverse),
         \A b \in Key : b \in B /\ (b = a \/ Index!Before(a, b, reverse)) <=>
                       b \in F /\ (b = a \/ Index!Before(a, b, reverse))
                             /\ (b = last \/ Index!Before(b, last, reverse))
  PROVE  Rank(B, a, ~reverse) = Rank(F, last, reverse) - Rank(F, a, reverse) + 1
<1> DEFINE U == UpTo(F, last, reverse)
           V == UpTo(F, a, reverse)
           W == UpTo(B, a, ~reverse)
<1>1. \A x, y, z \in Key : /\ ~Index!Before(x, x, reverse)
                           /\ Index!Before(x, y, reverse) /\ Index!Before(y, z, reverse) =>
                                                            Index!Before(x, z, reverse)
                           /\ x = y \/ Index!Before(x, y, reverse) \/ Index!Before(y, x, reverse)
                           /\ Index!Before(x, y, reverse) <=> Index!Before(y, x, ~reverse)
  BY BeforeOrders
<1>2. U \in SUBSET F /\ V \in SUBSET F BY DEF UpTo
<1>3. IsFiniteSet(U) /\ IsFiniteSet(V) BY <1>2, FS_Subset
<1>4. V \subseteq U BY <1>1 DEF UpTo
<1>5. W = (U \ V) \cup {a}
  <2>1. W \subseteq Key /\ (U \ V) \cup {a} \subseteq Key BY DEF UpTo
  <2>2. ASSUME NEW b \in Key PROVE b \in W <=> b \in (U \ V) \cup {a}
    <3>1. a \in Key /\ last \in Key OBVIOUS
    <3>2. b \in W <=> b \in B /\ (b = a \/ Index!Before(a, b, reverse))
      BY <1>1, <3>1 DEF UpTo
    <3>3. b \in U \ V <=> /\ b \in F /\ (b = last \/ Index!Before(b, last, reverse))
                         /\ b # a /\ Index!Before(a, b, reverse)
      BY <1>1, <3>1 DEF UpTo
    <3>4. CASE b = a BY <3>2, <3>4
    <3>5. CASE b # a BY <3>2, <3>3, <3>5
    <3> QED BY <3>4, <3>5
  <2> HIDE DEF W, U, V
  <2> QED BY <2>1, <2>2
<1>6. a \in V BY DEF UpTo
<1> HIDE DEF U, V, W
<1>7. /\ IsFiniteSet(U \ V) /\ Cardinality(U \ V) = Cardinality(U) - Cardinality(V)
  <2>1. U \cap V = V BY <1>4
  <2> QED BY <1>3, <2>1, FS_Difference
<1>8. Cardinality(W) = Cardinality(U \ V) + 1
  <2>1. a \notin U \ V BY <1>6
  <2> QED BY <1>5, <1>7, <2>1, FS_AddElement
<1> QED BY <1>7, <1>8 DEF Rank, U, V, W

\* Between two rows of neighbouring ranks there is none.
LEMMA NothingBetween ==
  ASSUME NEW F \in SUBSET Key, IsFiniteSet(F), NEW reverse \in BOOLEAN,
         NEW a \in F, NEW b \in F, Rank(F, b, reverse) = Rank(F, a, reverse) + 1
  PROVE  \A x \in F : ~(Index!Before(a, x, reverse) /\ Index!Before(x, b, reverse))
<1> SUFFICES ASSUME NEW x \in F, Index!Before(a, x, reverse), Index!Before(x, b, reverse)
             PROVE  FALSE
  OBVIOUS
<1> DEFINE r(y) == Rank(F, y, reverse)
<1>1. r(a) < r(x) /\ r(x) < r(b) BY RanksAre
<1>2. r(a) \in 1..Cardinality(F) /\ r(x) \in 1..Cardinality(F) /\ Cardinality(F) \in Nat
  BY RanksAre
<1>3. r(b) = r(a) + 1 OBVIOUS
<1> HIDE DEF r
<1> QED BY <1>1, <1>2, <1>3

\* The links of a page name pictures.
LEMMA PageIds ==
  ASSUME PagesAssumption, PicsOK
  PROVE  \A id \in PicId \cup {0}, asc \in BOOLEAN :
           Index!Page(id, asc).next \in PicId \cup {0} /\ Index!Page(id, asc).prev \in PicId \cup {0}
<1> SUFFICES ASSUME NEW id \in PicId \cup {0}, NEW asc \in BOOLEAN
             PROVE  Index!Page(id, asc).next \in PicId \cup {0} /\ Index!Page(id, asc).prev \in PicId \cup {0}
  OBVIOUS
<1>1. Index!Visible \subseteq PicId BY DEF Index!Visible, Index!Stored
<1>2. Index!Page(id, asc).next \in Index!Visible \cup {0} BY PageIsFirst
<1>3. Index!Page(id, asc).prev \in Index!Visible \cup {0} BY PageFacts
<1> QED BY <1>1, <1>2, <1>3

\* A page that has a next one is what is before that one.
LEMMA PageTurns ==
  ASSUME PagesAssumption, PicsOK, NEW id \in PicId \cup {0}, NEW asc \in BOOLEAN,
         Index!Page(id, asc).next # 0
  PROVE  LET p == Index!Page(id, asc)
             back == Index!Page(Index!Page(p.next, asc).prev, ~asc)
         IN back.pics = Index!Reverse(p.pics) /\ back.prev = p.next
<1> DEFINE p == Index!Page(id, asc)
           z == Index!Page(p.next, asc).prev
           back == Index!Page(z, ~asc)
           start == Index!lookupStartPic(id, asc)
           F == From(start, asc)
           d == DefaultFindIndexPics
           rev == ~asc
           r(a) == Rank(F, a, rev)
           x(i) == KeyOf(p.pics[i])
           y == KeyOf(p.next)
           B == From(z, rev)
<1>1. d \in Nat \ {0} /\ d \in 1..d BY DEF PagesAssumption, Index!DefaultAssumption
<1>2. rev \in BOOLEAN /\ ~rev = asc OBVIOUS
<1>3. 0 \notin PicId BY KeysAre
<1>4. /\ F \in SUBSET Key /\ IsFiniteSet(F)
      /\ p.pics \in Seq(Index!Visible) /\ Len(p.pics) = d
      /\ \A i \in 1..d : x(i) \in F /\ r(x(i)) = i
      /\ p.next \in Index!Visible /\ y \in F /\ r(y) = d + 1
  <2> DEFINE c == Cardinality(F)
             n == SmallerOf(c, d)
  <2>1. /\ F \in SUBSET Key /\ IsFiniteSet(F) /\ c \in Nat
        /\ p.pics \in Seq(Index!Visible) /\ Len(p.pics) = n
        /\ \A i \in 1..n : x(i) \in F /\ r(x(i)) = i
        /\ c <= d => p.next = 0
        /\ c > d => p.next \in Index!Visible /\ y \in F /\ r(y) = d + 1
    BY PageFacts
  <2>2. p.next # 0 OBVIOUS
  <2> HIDE DEF p, F, c, d, x, y, r
  <2>3. c > d /\ n = d BY <1>1, <2>1, <2>2 DEF SmallerOf
  <2> QED BY <2>1, <2>3
<1>5. \A a \in Shown : a[2] \in Index!Visible /\ a = KeyOf(a[2]) BY KeysAre
<1>6. \A a \in F, b \in Shown : Index!Before(a, b, rev) => b \in F
  <2> SUFFICES ASSUME NEW a \in F, NEW b \in Shown, Index!Before(a, b, rev) PROVE b \in F OBVIOUS
  <2>1. a \in Key /\ b \in Key BY <1>4, KeysAre
  <2>2. CASE start = 0 BY <2>2 DEF From
  <2>3. CASE start # 0
    <3>1. start \in Index!Stored BY <2>3, StartFacts
    <3>2. KeyOf(start) \in Key BY <3>1, KeysAre
    <3>3. a = KeyOf(start) \/ Index!Before(KeyOf(start), a, rev) BY <2>3 DEF From
    <3>4. Index!Before(KeyOf(start), b, rev)
      <4> HIDE DEF F, start, rev
      <4> QED BY <1>2, <2>1, <3>2, <3>3, BeforeOrders
    <3> QED BY <3>4 DEF From
  <2> QED BY <2>2, <2>3
<1>7. \A a, b \in F : (r(a) = r(b) => a = b) /\ (r(a) < r(b) => Index!Before(a, b, rev))
  <2> SUFFICES ASSUME NEW a \in F, NEW b \in F
               PROVE  (r(a) = r(b) => a = b) /\ (r(a) < r(b) => Index!Before(a, b, rev))
    OBVIOUS
  <2> HIDE DEF F, rev
  <2> QED BY <1>2, <1>4, RankOrders
<1>8. \A b \in Shown : ~(Index!Before(x(d), b, rev) /\ Index!Before(b, y, rev))
  <2> HIDE DEF F, rev, x, y, d
  <2>1. x(d) \in F /\ y \in F /\ r(y) = r(x(d)) + 1 BY <1>1, <1>4
  <2>2. \A b \in F : ~(Index!Before(x(d), b, rev) /\ Index!Before(b, y, rev))
    BY <1>2, <1>4, <2>1, NothingBetween
  <2> QED BY <1>6, <2>1, <2>2
<1>9. \A a, b, c \in Key :
        /\ ~Index!Before(a, a, rev)
        /\ Index!Before(a, b, rev) /\ Index!Before(b, c, rev) => Index!Before(a, c, rev)
        /\ a = b \/ Index!Before(a, b, rev) \/ Index!Before(b, a, rev)
        /\ Index!Before(a, b, rev) <=> Index!Before(b, a, asc)
  <2> HIDE DEF rev
  <2> QED BY <1>2, BeforeOrders
<1>10. x(d) \in Shown /\ y \in Shown /\ x(d) \in Key /\ y \in Key /\ Index!Before(x(d), y, rev)
  <2>1. F \subseteq Shown BY DEF From
  <2> HIDE DEF F, rev, x, y, d
  <2>2. x(d) \in F /\ r(x(d)) < r(y) BY <1>1, <1>4
  <2> QED BY <1>4, <1>7, <2>1, <2>2
\* The row before the next page is the last of this one.
<1>11. z \in Index!Visible /\ KeyOf(z) = x(d)
  <2>1. p.next \in Index!Stored /\ p.next # 0 /\ p.next \in PicId
    BY <1>3, <1>4 DEF Index!Visible, Index!Stored
  <2>2. Index!lookupStartPic(p.next, asc) = p.next BY <2>1, StartFacts
  <2>3. x(d) \in Ahead(p.next, asc) BY <1>10 DEF Ahead
  <2>4. /\ z \in Index!Visible /\ KeyOf(z) \in Ahead(p.next, asc)
        /\ \A a \in Ahead(p.next, asc) : a = KeyOf(z) \/ Index!Before(a, KeyOf(z), ~asc)
    <3>1. p.next \in PicId \cup {0} BY <2>1
    <3>2. Ahead(p.next, asc) # {} BY <2>3
    <3> HIDE DEF p
    <3> QED BY <2>1, <2>2, <3>1, <3>2, PageFacts
  <2>5. KeyOf(z) \in Shown /\ Index!Before(KeyOf(z), y, rev) BY <2>4 DEF Ahead
  <2>6. x(d) = KeyOf(z) \/ Index!Before(x(d), KeyOf(z), rev) BY <2>3, <2>4
  <2> QED BY <1>8, <2>4, <2>5, <2>6
<1>12. z \in PicId \cup {0} /\ z \in Index!Stored /\ z # 0 /\ Index!lookupStartPic(z, rev) = z
  <2>1. z \in PicId /\ z \in Index!Stored BY <1>11 DEF Index!Visible, Index!Stored
  <2> HIDE DEF z, rev
  <2> QED BY <1>2, <1>3, <2>1, StartFacts
<1>13. \A b : b \in B <=> b \in Shown /\ (b = x(d) \/ Index!Before(b, x(d), rev))
  <2>1. \A b : b \in B <=> b \in Shown /\ (b = x(d) \/ Index!Before(x(d), b, asc))
    BY <1>11, <1>12 DEF From
  <2>2. Shown \subseteq Key BY KeysAre
  <2> HIDE DEF B, rev, x, d
  <2> QED BY <1>9, <1>10, <2>1, <2>2
<1>14. /\ B \in SUBSET Key /\ IsFiniteSet(B) /\ Cardinality(B) \in Nat
       /\ back.pics \in Seq(Index!Visible) /\ Len(back.pics) = SmallerOf(Cardinality(B), d)
       /\ \A i \in 1..Len(back.pics) : /\ KeyOf(back.pics[i]) \in B
                                       /\ Rank(B, KeyOf(back.pics[i]), asc) = i
       /\ Ahead(z, rev) # {} =>
            /\ back.prev \in Index!Visible /\ KeyOf(back.prev) \in Ahead(z, rev)
            /\ \A a \in Ahead(z, rev) :
                 a = KeyOf(back.prev) \/ Index!Before(a, KeyOf(back.prev), asc)
  <2> HIDE DEF z, rev
  <2>1. /\ B \in SUBSET Key /\ IsFiniteSet(B) /\ Cardinality(B) \in Nat
        /\ Index!Page(z, rev).pics \in Seq(Index!Visible) /\ Len(Index!Page(z, rev).pics) = SmallerOf(Cardinality(B), d)
        /\ \A i \in 1..SmallerOf(Cardinality(B), d) :
             /\ KeyOf(Index!Page(z, rev).pics[i]) \in B
             /\ Rank(B, KeyOf(Index!Page(z, rev).pics[i]), ~rev) = i
        /\ Ahead(z, rev) # {} =>
             /\ Index!Page(z, rev).prev \in Index!Visible /\ KeyOf(Index!Page(z, rev).prev) \in Ahead(z, rev)
             /\ \A a \in Ahead(z, rev) :
                  a = KeyOf(Index!Page(z, rev).prev) \/ Index!Before(a, KeyOf(Index!Page(z, rev).prev), ~rev)
    BY <1>2, <1>12, PageFacts
  <2>2. back = Index!Page(z, rev) BY DEF rev
  <2> HIDE DEF back
  <2> QED BY <1>2, <2>1, <2>2
<1> HIDE DEF p, z, back, start, F, d, rev, x, y, B
<1>15. Len(back.pics) = d
  <2>1. UpTo(F, x(d), rev) \in SUBSET B
    <3>1. F \subseteq Shown BY DEF F, From
    <3> QED BY <1>13, <3>1 DEF UpTo
  <2>2. r(x(d)) = d BY <1>1, <1>4
  <2>3. d <= Cardinality(B) BY <1>14, <2>1, <2>2, FS_Subset DEF Rank
  <2> QED BY <1>1, <1>14, <2>3 DEF SmallerOf
<1>16. \A i \in 1..d : Rank(B, x(i), asc) = d - i + 1 /\ x(i) \in B
  <2> SUFFICES ASSUME NEW i \in 1..d PROVE Rank(B, x(i), asc) = d - i + 1 /\ x(i) \in B OBVIOUS
  <2>1. F \subseteq Shown BY DEF F, From
  <2>2. x(i) \in F /\ x(d) \in F /\ r(x(i)) = i /\ r(x(d)) = d BY <1>1, <1>4
  <2>3. x(i) = x(d) \/ Index!Before(x(i), x(d), rev)
    <3>1. i = d \/ i < d BY <1>1
    <3> QED BY <1>7, <2>2, <3>1
  <2>4. \A b \in Key : b \in B /\ (b = x(i) \/ Index!Before(x(i), b, rev)) <=>
                       b \in F /\ (b = x(i) \/ Index!Before(x(i), b, rev))
                             /\ (b = x(d) \/ Index!Before(b, x(d), rev))
    BY <1>6, <1>13, <2>1, <2>2
  <2>5. Rank(B, x(i), ~rev) = r(x(d)) - r(x(i)) + 1
    BY <1>2, <1>4, <1>14, <2>2, <2>3, <2>4, RanksTurn
  <2>6. x(i) \in B BY <1>13, <2>1, <2>2, <2>3
  <2> QED BY <1>2, <2>2, <2>5, <2>6
<1>17. back.pics = Index!Reverse(p.pics)
  <2>1. ASSUME NEW i \in 1..d PROVE back.pics[i] = p.pics[d - i + 1]
    <3>1. d - i + 1 \in 1..d /\ d - (d - i + 1) + 1 = i BY <1>1
    <3>2. Rank(B, x(d - i + 1), asc) = i /\ x(d - i + 1) \in B BY <1>16, <3>1
    <3>3. KeyOf(back.pics[i]) \in B /\ Rank(B, KeyOf(back.pics[i]), asc) = i BY <1>14, <1>15
    <3>4. KeyOf(back.pics[i]) = x(d - i + 1) BY <1>14, <3>2, <3>3, RankOrders
    <3> QED BY <3>4 DEF x, KeyOf
  <2>2. back.pics = [i \in 1..d |-> back.pics[i]] BY <1>1, <1>14, <1>15
  <2>3. Index!Reverse(p.pics) = [i \in 1..d |-> p.pics[d - i + 1]] BY <1>4 DEF Index!Reverse
  <2> QED BY <2>1, <2>2, <2>3
<1>18. back.prev = p.next
  <2>1. \A b : b \in Ahead(z, rev) <=> b \in Shown /\ Index!Before(x(d), b, rev)
    <3>1. \A b : b \in Ahead(z, rev) <=> b \in Shown /\ Index!Before(b, x(d), asc)
      BY <1>2, <1>11 DEF Ahead
    <3>2. Shown \subseteq Key BY KeysAre
    <3> QED BY <1>9, <1>10, <3>1, <3>2
  <2>2. y \in Ahead(z, rev) BY <1>10, <2>1
  <2>3. /\ KeyOf(back.prev) \in Shown /\ Index!Before(x(d), KeyOf(back.prev), rev)
        /\ y = KeyOf(back.prev) \/ Index!Before(y, KeyOf(back.prev), asc)
    BY <1>14, <2>1, <2>2
  <2>4. KeyOf(back.prev) \in Key BY <2>3, KeysAre
  <2>5. y = KeyOf(back.prev) BY <1>8, <1>9, <1>10, <2>3, <2>4
  <2> QED BY <2>5 DEF y, KeyOf
<1> QED BY <1>17, <1>18 DEF back, z, p

\* PrevId of the next page leads to the page itself, backwards, and that page's PrevId
\* leads forth again (the two scans of ReadIndexPicsTask.Run).
THEOREM PagesTurnBack == ASSUME PagesAssumption PROVE Index!Spec => []Index!TurnsBack
<1>1. WalkInv => Index!TurnsBack
  <2> SUFFICES ASSUME WalkInv PROVE Index!TurnsBack OBVIOUS
  <2>1. PicsOK BY DEF WalkInv, WalkTypes, Index!TypeOK, PicsOK
  <2> DEFINE Q == (PicId \cup {0}) \X BOOLEAN
             page == [q \in Q |-> Index!Page(q[1], q[2])]
             back(id, asc) == page[<<page[<<page[<<id, asc>>].next, asc>>].prev, ~asc>>]
  <2> SUFFICES ASSUME NEW id \in PicId \cup {0}, NEW asc \in BOOLEAN, page[<<id, asc>>].next # 0
               PROVE  /\ back(id, asc).pics = Index!Reverse(page[<<id, asc>>].pics)
                      /\ back(id, asc).prev = page[<<id, asc>>].next
    BY DEF Index!TurnsBack
  <2>2. \A i \in PicId \cup {0}, b \in BOOLEAN : page[<<i, b>>] = Index!Page(i, b) OBVIOUS
  <2>3. page[<<id, asc>>] = Index!Page(id, asc) BY <2>2
  <2>4. \A i \in PicId \cup {0}, b \in BOOLEAN :
          Index!Page(i, b).next \in PicId \cup {0} /\ Index!Page(i, b).prev \in PicId \cup {0}
    BY <2>1, PageIds
  <2>5. page[<<Index!Page(id, asc).next, asc>>] = Index!Page(Index!Page(id, asc).next, asc)
    BY <2>2, <2>4
  <2> DEFINE z == Index!Page(Index!Page(id, asc).next, asc).prev
  <2>6. page[<<z, ~asc>>] = Index!Page(z, ~asc)
    <3>1. z \in PicId \cup {0} BY <2>4
    <3>2. (~asc) \in BOOLEAN OBVIOUS
    <3> HIDE DEF z, page
    <3> QED BY <2>2, <3>1, <3>2
  <2> HIDE DEF page
  <2> QED BY <2>1, <2>3, <2>5, <2>6, PageTurns
<1> QED BY <1>1, WalkHolds, PTL

-----------------------------------------------------------------------------
\* What a lookup shows.
CONSTANT User
VARIABLES su, cs

Rights == INSTANCE Access

\* The subject user stays who it is; capabilities are known ones.
SubjectKnown == su \in User \cup {Rights!AnonymousUserId} /\ cs \subseteq Rights!Capability

LEMMA SubjectStays == Rights!Spec => []SubjectKnown
<1>1. Rights!Init => SubjectKnown BY DEF Rights!Init, SubjectKnown
<1>2. SubjectKnown /\ [Rights!Next]_(Rights!vars) => SubjectKnown'
  BY DEF SubjectKnown, Rights!Next, Rights!vars, Rights!Grant, Rights!Revoke
<1> QED BY <1>1, <1>2, PTL DEF Rights!Spec

\* The list of events hides the author of a vote, a comment or a picture exactly where
\* the filter of its row does (FindUserEvents' filter, filter.go).
THEOREM EventsAsRows == Rights!Spec => []Rights!EventsAgree
<1>1. Rights!EventsAgree
  <2> SUFFICES ASSUME NEW u \in User, NEW e \in DOMAIN Rights!EventKind
               PROVE  Rights!ShowsEvent(Rights!userCredOf, e, u) <=>
                        Rights!NamesAuthor(Rights!userCredOf, Rights!EventKind[e], u)
    BY DEF Rights!EventsAgree
  <2> QED BY DEF Rights!ShowsEvent, Rights!NamesAuthor
<1> QED BY <1>1, PTL

\* LookupPicVote asks for no less than the filter of votes: whoever gets a vote is told
\* its author (lookup_pic_vote_task.go, filter.go).
THEOREM VotesNamed == ASSUME Rights!UserAssumption PROVE Rights!Spec => []Rights!VotesAreNamed
<1>1. Rights!VotesAreNamed
  <2> SUFFICES ASSUME NEW u \in User,
                      Rights!LookupPicVote(u, [author |-> u, ext |-> FALSE]) # <<>>
               PROVE  Rights!LookupPicVote(u, [author |-> u, ext |-> FALSE])[1].author = u
    BY DEF Rights!VotesAreNamed
  <2> DEFINE v == [author |-> u, ext |-> FALSE]
  <2>1. PICK ou \in Rights!lookupObjectUser(u) : Rights!validateCapability({Rights!Needed(ou)})
    BY DEF Rights!LookupPicVote
  <2>2. Rights!LookupPicVote(u, v) = <<Rights!FilterInternal(Rights!userCredOf, "vote", v)>>
    BY <2>1 DEF Rights!LookupPicVote
  <2>3. Rights!NamesAuthor(Rights!userCredOf, "vote", u)
    <3>1. ou = IF u # 0 THEN u ELSE su
      BY <2>1 DEF Rights!lookupObjectUser, Rights!deriveObjectUserId, Rights!AnonymousUserId
    <3>2. Rights!Needed(ou) \in cs BY <2>1 DEF Rights!validateCapability
    <3>3. u # 0 BY DEF Rights!UserAssumption, Rights!AnonymousUserId
    <3> QED BY <3>1, <3>2, <3>3 DEF Rights!Needed, Rights!NamesAuthor, Rights!userCredOf
  <2> QED BY <2>2, <2>3 DEF Rights!FilterInternal
<1> QED BY <1>1, PTL

\* With USER_READ_SELF a user is shown all of the own account, and as the author of the
\* own rows and events (LookupUserTask, filter.go).
THEOREM SelfSees == ASSUME Rights!UserAssumption PROVE Rights!Spec => []Rights!SelfSeesOwn
<1>1. SubjectKnown => Rights!SelfSeesOwn
  <2> SUFFICES ASSUME SubjectKnown, su # 0, "USER_READ_SELF" \in cs
               PROVE  Rights!SelfSeesOwn
    BY DEF Rights!SelfSeesOwn, Rights!AnonymousUserId
  <2>1. Rights!LookupUser(0, TRUE) = {"public", "private"}
    <3>1. Rights!lookupObjectUser(0) = {su}
      BY DEF SubjectKnown, Rights!lookupObjectUser, Rights!deriveObjectUserId,
          Rights!AnonymousUserId
    <3>2. Rights!Parts(su, TRUE) = {"public", "private"} BY DEF Rights!Parts
    <3> QED BY <3>1, <3>2 DEF Rights!LookupUser
  <2>2. ASSUME NEW k \in Rights!Kind
        PROVE  Rights!FilterInternal(Rights!userCredOf, k, [author |-> su, ext |-> FALSE]).author = su
    BY DEF Rights!FilterInternal, Rights!NamesAuthor, Rights!userCredOf
  <2>3. ASSUME NEW e \in Rights!Event PROVE Rights!ShowsEvent(Rights!userCredOf, e, su)
    BY DEF Rights!ShowsEvent, Rights!userCredOf
  <2> QED BY <2>1, <2>2, <2>3 DEF Rights!SelfSeesOwn, Rights!AnonymousUserId
<1> QED BY <1>1, SubjectStays, PTL

\* A capability more never hides anything: every check and every filter asks for
\* capabilities to be there, none for one to be missing (validateCapability, filter.go).
THEOREM GrantsShowMore == Rights!Spec => [][Rights!GrantShowsMore]_(Rights!vars)
<1>1. ASSUME [Rights!Next]_(Rights!vars), cs \subseteq cs'
      PROVE  Rights!Shown \subseteq Rights!Shown'
  <2>1. su' = su BY <1>1 DEF Rights!Next, Rights!Grant, Rights!Revoke, Rights!vars
  <2>2. /\ Rights!userCredOf.cs = cs /\ Rights!userCredOf'.cs = cs'
        /\ Rights!userCredOf.subjectUserId = su /\ Rights!userCredOf'.subjectUserId = su
    BY <2>1 DEF Rights!userCredOf
  <2>3. \A want : Rights!validateCapability(want) => want \subseteq cs'
    BY <1>1 DEF Rights!validateCapability
  <2>4. \A id : Rights!lookupObjectUser(id)' = Rights!lookupObjectUser(id)
    BY <2>1 DEF Rights!lookupObjectUser, Rights!deriveObjectUserId
  <2>5. \A kind, author : Rights!NamesAuthor(Rights!userCredOf, kind, author) =>
                           Rights!NamesAuthor(Rights!userCredOf', kind, author)
    BY <1>1, <2>2 DEF Rights!NamesAuthor
  <2>6. \A evt, owner : Rights!ShowsEvent(Rights!userCredOf, evt, owner) =>
                         Rights!ShowsEvent(Rights!userCredOf', evt, owner)
    BY <1>1, <2>2 DEF Rights!ShowsEvent
  <2>7. \A ou, public : Rights!Parts(ou, public) \subseteq Rights!Parts(ou, public)'
    BY <1>1, <2>1 DEF Rights!Parts
  <2>8. \A id, public : Rights!LookupUser(id, public) \subseteq Rights!LookupUser(id, public)'
    BY <2>4, <2>7 DEF Rights!LookupUser
  <2>9. \A ou : Rights!Needed(ou)' = Rights!Needed(ou) BY <2>1 DEF Rights!Needed
  <2>10. Rights!ShownUsers \subseteq Rights!ShownUsers'
    <3> SUFFICES ASSUME NEW x \in Rights!ShownUsers PROVE x \in Rights!ShownUsers' OBVIOUS
    <3>1. PICK u \in User : x \in {<<"user", u, part>> : part \in Rights!LookupUser(u, TRUE)}
      BY DEF Rights!ShownUsers
    <3>2. PICK part \in Rights!LookupUser(u, TRUE) : x = <<"user", u, part>> BY <3>1
    <3>3. part \in Rights!LookupUser(u, TRUE)' BY <2>8
    <3> DEFINE of(v) == {<<"user", v, p>> : p \in Rights!LookupUser(v, TRUE)'}
    <3>4. x \in of(u) BY <3>2, <3>3
    <3>5. Rights!ShownUsers' = UNION {of(v) : v \in User} BY DEF Rights!ShownUsers
    <3> HIDE DEF of
    <3> QED BY <3>4, <3>5
  <2>11. Rights!ShownVotes \subseteq Rights!ShownVotes'
    <3>1. \A u, v : Rights!LookupPicVote(u, v) # <<>> => (Rights!LookupPicVote(u, v) # <<>>)'
      BY <1>1, <2>4, <2>9 DEF Rights!LookupPicVote, Rights!validateCapability
    <3>2. \A v : Rights!FindPicCommentVotes({v}) # {} => (Rights!FindPicCommentVotes({v}) # {})'
      BY <2>5 DEF Rights!FindPicCommentVotes, Rights!FilterVotes
    <3> QED BY <3>1, <3>2 DEF Rights!ShownVotes
  <2>12. Rights!ShownRows \subseteq Rights!ShownRows'
    <3>1. \A k, u : Rights!FilterInternal(Rights!userCredOf, k, [author |-> u, ext |-> TRUE]).author = u =>
                    Rights!FilterInternal(Rights!userCredOf', k, [author |-> u, ext |-> TRUE]).author = u
      BY <2>5 DEF Rights!FilterInternal
    <3>2. \A k, u : Rights!FilterInternal(Rights!userCredOf, k, [author |-> u, ext |-> TRUE]).ext =>
                    Rights!FilterInternal(Rights!userCredOf', k, [author |-> u, ext |-> TRUE]).ext
      BY <1>1, <2>2 DEF Rights!FilterInternal
    <3> QED BY <3>1, <3>2 DEF Rights!ShownRows
  <2>13. Rights!Allowed \subseteq Rights!Allowed'
    <3>1. \A u : Rights!LookupUser(u, FALSE) # {} => Rights!LookupUser(u, FALSE)' # {}
      BY <2>8
    <3>2. \A u : Rights!FindSchedPics(u) => Rights!FindSchedPics(u)'
      BY <1>1, <2>4, <2>9 DEF Rights!FindSchedPics, Rights!validateCapability
    <3>3. \A a, b, c : Rights!LookupPic(a, b, c) => Rights!LookupPic(a, b, c)'
      BY <1>1 DEF Rights!LookupPic, Rights!validateCapability
    <3> QED BY <2>6, <3>1, <3>2, <3>3 DEF Rights!Allowed
  <2> QED BY <2>10, <2>11, <2>12, <2>13 DEF Rights!Shown
<1>2. [Rights!Next]_(Rights!vars) => [Rights!GrantShowsMore]_(Rights!vars)
  BY <1>1 DEF Rights!GrantShowsMore
<1> QED BY <1>2, PTL DEF Rights!Spec

-----------------------------------------------------------------------------
\* Rows and the messages they store.
CONSTANTS Tab, Val, MaxRows, Limits, None
VARIABLE rows

Store == INSTANCE Tables

StoreAssumptions == Store!TabAssumption /\ Store!ValAssumption /\ Store!MaxRowsAssumption

\* The keys of the tables are sequences of columns.
LEMMA SchemaKeys ==
  ASSUME Store!TabAssumption, NEW t \in Tab
  PROVE  /\ Store!Schema[t].primary \in Seq(STRING)
         /\ Store!Schema[t].unique \subseteq Seq(STRING)
<1>1. \A p, u, x : Store!Table(p, u, x).primary = p /\ Store!Table(p, u, x).unique = u
  BY DEF Store!Table
<1>2. t \in {"Pics", "Tags", "PicTags", "PicIdents", "PicComments", "PicVotes", "PicCommentVotes",
             "Users", "UserEvents", "CustomData"}
  BY DEF Store!TabAssumption, Store!Schema
<1>3. CASE t \in {"Pics", "Tags", "PicTags"}
  BY <1>1, <1>3 DEF Store!Schema, Store!Pics, Store!Tags, Store!PicTags
<1>4. CASE t \in {"PicIdents", "PicComments", "PicVotes"}
  BY <1>1, <1>4 DEF Store!Schema, Store!PicIdents, Store!PicComments, Store!PicVotes
<1>5. CASE t \in {"PicCommentVotes", "Users", "UserEvents", "CustomData"}
  BY <1>1, <1>5 DEF Store!Schema, Store!PicCommentVotes, Store!Users, Store!UserEvents,
                    Store!CustomData
<1> QED BY <1>2, <1>3, <1>4, <1>5

LEMMA ColumnsOf ==
  ASSUME Store!TabAssumption, NEW t \in Tab, NEW k \in Store!Unique(t)
  PROVE  /\ k \in Seq(STRING) /\ Len(k) \in Nat
         /\ \A i \in 1..Len(k) : k[i] \in Store!Cols(t)
<1>1. k \in Seq(STRING) BY SchemaKeys DEF Store!Unique
<1>2. k \in Store!Keys(t) BY DEF Store!Keys
<1>3. \A i \in 1..Len(k) : k[i] \in Store!ToSet(k) BY <1>1 DEF Store!ToSet
<1> QED BY <1>1, <1>2, <1>3 DEF Store!Cols


\* One row for each key, with the columns of its message.
StoreInv ==
  /\ rows = [t \in Tab |-> rows[t]]
  /\ \A t \in Tab : /\ \A r \in rows[t] : \E m \in Store!Message(t) : r = Store!Row(t, m)
                    /\ Store!Accepted(t, rows[t])
  /\ IsFiniteSet(UNION {{t} \X rows[t] : t \in Tab}) /\ Store!Size \in 0..MaxRows

LEMMA AtMostOne == ASSUME NEW S, \A x, y \in S : x = y
                   PROVE  IsFiniteSet(S) /\ Cardinality(S) \in 0..1
<1>1. CASE S = {} BY <1>1, FS_EmptySet
<1>2. CASE S # {}
  <2>1. PICK x \in S : TRUE BY <1>2
  <2>2. S = {x} BY <2>1
  <2> QED BY <2>2, FS_Singleton
<1> QED BY <1>1, <1>2

\* A statement with all values of the primary key is about one row.
LEMMA MatchesOne ==
  ASSUME Store!TabAssumption, NEW t \in Tab, Store!Accepted(t, rows[t]), NEW vals,
         Len(vals) = Len(Store!Schema[t].primary)
  PROVE  \A r, s \in Store!Matching(t, vals) : r = s
<1> DEFINE key == Store!Schema[t].primary
<1>1. key \in Store!Unique(t) BY DEF Store!Unique
<1>2. SUFFICES ASSUME NEW r \in Store!Matching(t, vals), NEW s \in Store!Matching(t, vals), r # s
               PROVE  FALSE
  OBVIOUS
<1>3. r \in rows[t] /\ s \in rows[t] BY <1>2 DEF Store!Matching
<1>4. \A i \in 1..Len(key) : r.col[key[i]] = vals[i] /\ s.col[key[i]] = vals[i]
  BY <1>2 DEF Store!Matching
<1> HIDE DEF key
<1>5. Store!At(r, key) = Store!At(s, key) BY <1>4 DEF Store!At
<1> QED BY <1>1, <1>2, <1>3, <1>5 DEF Store!Accepted

\* What a statement does to a table: it takes out at most one row, and puts in
\* at most one.
OneForOne(t, R) ==
  /\ \A r, s \in rows[t] \ R : r = s
  /\ \A r, s \in R \ rows[t] : r = s

LEMMA InsertsOne ==
  ASSUME Store!TabAssumption, NEW t \in Tab, NEW m \in Store!Message(t), Store!Insert(t, m)
  PROVE  LET R == rows[t] \cup {Store!Row(t, m)}
         IN rows' = [rows EXCEPT ![t] = R] /\ Store!Accepted(t, R) /\ OneForOne(t, R)
            /\ Store!Size < MaxRows /\ \A r \in R : r \in rows[t] \/ r = Store!Row(t, m)
BY DEF Store!Insert, OneForOne

LEMMA UpdatesOne ==
  ASSUME Store!TabAssumption, NEW t \in Tab, Store!Accepted(t, rows[t]),
         NEW m \in Store!Message(t), Store!Update(t, m)
  PROVE  \E R : /\ rows' = [rows EXCEPT ![t] = R] /\ Store!Accepted(t, R) /\ OneForOne(t, R)
                /\ \A r \in R : r \in rows[t] \/ r = Store!Row(t, m)
                /\ \/ R \subseteq rows[t]
                   \/ \E r \in rows[t] : R \subseteq (rows[t] \ {r}) \cup {Store!Row(t, m)}
<1> DEFINE key == Store!Schema[t].primary
           old == Store!Matching(t, Store!KeyFor(t, m))
           R == (rows[t] \ old) \cup {Store!Set(t, r, m) : r \in old}
<1>1. key \in Store!Unique(t) BY DEF Store!Unique
<1>2. key \in Seq(STRING) /\ Len(key) \in Nat BY <1>1, ColumnsOf
<1>3. Len(Store!KeyFor(t, m)) = Len(key)
  <2> HIDE DEF key
  <2> QED BY <1>2 DEF Store!KeyFor, key
<1>4. \A r, s \in old : r = s BY <1>3, MatchesOne
<1>5. old \subseteq rows[t] BY DEF Store!Matching
<1>6. rows' = [rows EXCEPT ![t] = R] /\ Store!Accepted(t, R) BY DEF Store!Update
<1>7. \A r : Store!Set(t, r, m) = Store!Row(t, m) BY DEF Store!Set
<1> HIDE DEF old
<1>8. OneForOne(t, R) BY <1>4, <1>5, <1>7 DEF OneForOne
<1>9. \A r \in R : r \in rows[t] \/ r = Store!Row(t, m) BY <1>7
<1>10. \/ R \subseteq rows[t]
       \/ \E r \in rows[t] : R \subseteq (rows[t] \ {r}) \cup {Store!Row(t, m)}
  <2>1. CASE old = {} BY <2>1
  <2>2. CASE old # {}
    <3>1. PICK r \in old : TRUE BY <2>2
    <3>2. old = {r} BY <1>4, <3>1
    <3>3. R = (rows[t] \ {r}) \cup {Store!Row(t, m)} BY <1>7, <3>2
    <3> QED BY <1>5, <3>1, <3>3
  <2> QED BY <2>1, <2>2
<1> HIDE DEF R
<1> QED BY <1>6, <1>8, <1>9, <1>10

LEMMA DeletesOne ==
  ASSUME Store!TabAssumption, NEW t \in Tab, Store!Accepted(t, rows[t]), NEW vals,
         Store!Delete(t, vals)
  PROVE  \E R \in SUBSET rows[t] : rows' = [rows EXCEPT ![t] = R] /\ OneForOne(t, R)
<1>1. Len(vals) = Len(Store!Schema[t].primary) BY DEF Store!Delete, Store!Complete
<1>2. \A r, s \in Store!Matching(t, vals) : r = s BY <1>1, MatchesOne
<1>3. rows' = [rows EXCEPT ![t] = rows[t] \ Store!Matching(t, vals)] BY DEF Store!Delete
<1> QED BY <1>2, <1>3 DEF OneForOne

-----------------------------------------------------------------------------
\* The rows of all tables.
AllRows == UNION {{t} \X rows[t] : t \in Tab}

LEMMA AllAfter ==
  ASSUME NEW t \in Tab, NEW R, NEW row,
         rows = [u \in Tab |-> rows[u]], rows' = [rows EXCEPT ![t] = R]
  PROVE  /\ R \subseteq rows[t] => AllRows' \subseteq AllRows
         /\ R \subseteq rows[t] \cup {row} => AllRows' \subseteq AllRows \cup {<<t, row>>}
         /\ \A r \in rows[t] : R \subseteq (rows[t] \ {r}) \cup {row} =>
              /\ <<t, r>> \in AllRows
              /\ AllRows' \subseteq (AllRows \ {<<t, r>>}) \cup {<<t, row>>}
<1>1. \A x : x \in AllRows <=> \E u \in Tab : \E r \in rows[u] : x = <<u, r>>
  BY DEF AllRows
<1>2. \A x : x \in AllRows' <=> \E u \in Tab : \E r \in rows'[u] : x = <<u, r>>
  BY DEF AllRows
<1>3. rows'[t] = R /\ \A u \in Tab : u # t => rows'[u] = rows[u] OBVIOUS
<1> QED BY <1>1, <1>2, <1>3

\* The number of rows grows with insertions only.
LEMMA SizeAfter ==
  ASSUME Store!MaxRowsAssumption, StoreInv, NEW t \in Tab, NEW R, NEW row,
         rows' = [rows EXCEPT ![t] = R],
         \/ R \subseteq rows[t] \cup {row} /\ Store!Size < MaxRows
         \/ R \subseteq rows[t]
         \/ \E r \in rows[t] : R \subseteq (rows[t] \ {r}) \cup {row}
  PROVE  IsFiniteSet(AllRows') /\ Store!Size' \in 0..MaxRows
<1>1. IsFiniteSet(AllRows) /\ Cardinality(AllRows) \in 0..MaxRows
      /\ Store!Size = Cardinality(AllRows) /\ Store!Size' = Cardinality(AllRows')
  <2>1. Store!Size = Cardinality(AllRows) BY DEF AllRows, Store!Size, Store!Cardinality, Cardinality
  <2>2. Store!Size' = Cardinality(AllRows') BY DEF AllRows, Store!Size, Store!Cardinality, Cardinality
  <2>3. IsFiniteSet(AllRows) /\ Store!Size \in 0..MaxRows BY DEF StoreInv, AllRows
  <2> QED BY <2>1, <2>2, <2>3
<1>2. SUFFICES ASSUME NEW S, IsFiniteSet(S), Cardinality(S) <= MaxRows, AllRows' \subseteq S
               PROVE  IsFiniteSet(AllRows') /\ Cardinality(AllRows') \in 0..MaxRows
  <2>1. CASE R \subseteq rows[t] \cup {row} /\ Store!Size < MaxRows
    <3> DEFINE S == AllRows \cup {<<t, row>>}
    <3>1. IsFiniteSet(S) /\ Cardinality(S) <= Cardinality(AllRows) + 1
      <4>1. Cardinality(AllRows) \in Nat BY <1>1, FS_CardinalityType
      <4>2. IsFiniteSet(S) /\ Cardinality(S) \in {Cardinality(AllRows), Cardinality(AllRows) + 1}
        BY <1>1, FS_AddElement
      <4> HIDE DEF S
      <4> QED BY <1>1, <4>1, <4>2
    <3>2. AllRows' \subseteq S BY <2>1, AllAfter DEF StoreInv
    <3>3. Cardinality(S) \in Nat BY <3>1, FS_CardinalityType
    <3> HIDE DEF S
    <3>4. Cardinality(S) <= MaxRows BY <1>1, <2>1, <3>1, <3>3 DEF Store!MaxRowsAssumption
    <3> QED BY <1>1, <1>2, <3>1, <3>2, <3>4
  <2>2. CASE R \subseteq rows[t]
    <3>1. AllRows' \subseteq AllRows BY <2>2, AllAfter DEF StoreInv
    <3>2. Cardinality(AllRows) <= MaxRows BY <1>1 DEF Store!MaxRowsAssumption
    <3> QED BY <1>1, <1>2, <3>1, <3>2
  <2>3. CASE \E r \in rows[t] : R \subseteq (rows[t] \ {r}) \cup {row}
    <3>1. PICK r \in rows[t] : R \subseteq (rows[t] \ {r}) \cup {row} BY <2>3
    <3> DEFINE T == AllRows \ {<<t, r>>}
               S == T \cup {<<t, row>>}
    <3>2. <<t, r>> \in AllRows /\ AllRows' \subseteq S BY <3>1, AllAfter DEF StoreInv
    <3>3. IsFiniteSet(T) /\ Cardinality(T) = Cardinality(AllRows) - 1
      BY <1>1, <3>2, FS_RemoveElement
    <3> HIDE DEF T
    <3>4. IsFiniteSet(S) /\ Cardinality(S) <= Cardinality(T) + 1
      <4>1. Cardinality(T) \in Nat BY <3>3, FS_CardinalityType
      <4>2. IsFiniteSet(S) /\ Cardinality(S) \in {Cardinality(T), Cardinality(T) + 1}
        BY <3>3, FS_AddElement
      <4> HIDE DEF S
      <4> QED BY <3>3, <4>1, <4>2
    <3>5. Cardinality(S) \in Nat BY <3>4, FS_CardinalityType
    <3> HIDE DEF S
    <3>6. Cardinality(S) <= MaxRows BY <1>1, <3>3, <3>4, <3>5 DEF Store!MaxRowsAssumption
    <3> QED BY <1>1, <1>2, <3>2, <3>4, <3>6
  <2> QED BY <2>1, <2>2, <2>3
<1>3. IsFiniteSet(AllRows') /\ Cardinality(AllRows') <= Cardinality(S) BY <1>2, FS_Subset
<1>4. Cardinality(AllRows') \in Nat /\ Cardinality(S) \in Nat BY <1>2, <1>3, FS_CardinalityType
<1> QED BY <1>2, <1>3, <1>4 DEF Store!MaxRowsAssumption

\* Columns of a message have values of their kind.
LEMMA ColumnValues ==
  ASSUME Store!ValAssumption, NEW t \in Tab, NEW m \in Store!Message(t), NEW c \in Store!Cols(t)
  PROVE  Store!Col(t, m, c) \in Store!Values(c)
<1>1. m[c] \in Val /\ m[c] \in Store!Values(c) BY DEF Store!Message, Store!Values
<1>2. CASE t # "Pics" BY <1>1, <1>2 DEF Store!Col
<1>3. CASE t = "Pics"
  <2>1. m.hidden \in Val BY <1>3 DEF Store!Message
  <2>2. 0 \in Store!Values(c) /\ (c = "index_order" => -1 \in Store!Values(c))
    BY DEF Store!ValAssumption, Store!Values
  <2>3. Store!Col(t, m, c) \in {m[c], -1, 0}
        /\ (Store!Col(t, m, c) = -1 => Store!Col(t, m, c) = m[c] \/ c = "index_order")
    BY <1>1, <1>3 DEF Store!Col, Store!PicCol, Store!ValAssumption
  <2> QED BY <1>1, <2>2, <2>3
<1> QED BY <1>2, <1>3

LEMMA StoreFacts ==
  ASSUME StoreAssumptions, StoreInv
  PROVE  Store!TypeOK /\ Store!ColumnsFresh /\ Store!KeysUnique
<1>1. ASSUME NEW t \in Tab, NEW r \in rows[t]
      PROVE  /\ r = Store!Row(t, r.data) /\ r.data \in Store!Message(t)
             /\ r.col = [c \in Store!Cols(t) |-> Store!Col(t, r.data, c)]
  <2>1. PICK m \in Store!Message(t) : r = Store!Row(t, m) BY DEF StoreInv
  <2>2. r.data = m /\ r.col = [c \in Store!Cols(t) |-> Store!Col(t, m, c)]
    BY <2>1 DEF Store!Row
  <2> QED BY <2>1, <2>2
<1>2. Store!ColumnsFresh BY <1>1 DEF Store!ColumnsFresh
<1>3. Store!TypeOK
  <2>1. Store!Size <= MaxRows
    BY DEF StoreInv, StoreAssumptions, Store!MaxRowsAssumption
  <2>2. ASSUME NEW t \in Tab, NEW r \in rows[t]
        PROVE  /\ r.data \in Store!Message(t) /\ DOMAIN r.col = Store!Cols(t)
               /\ \A c \in Store!Cols(t) : r.col[c] \in Store!Values(c)
    <3>1. r.data \in Store!Message(t) BY <1>1, <2>2
    <3>2. r.col = [c \in Store!Cols(t) |-> Store!Col(t, r.data, c)] BY <1>1, <2>2
    <3>3. \A c \in Store!Cols(t) : Store!Col(t, r.data, c) \in Store!Values(c)
      BY <3>1, ColumnValues DEF StoreAssumptions
    <3> QED BY <3>1, <3>2, <3>3
  <2> QED BY <2>1, <2>2 DEF Store!TypeOK
<1>4. Store!KeysUnique
  <2> SUFFICES ASSUME NEW t \in Tab, NEW r \in rows[t], NEW s \in rows[t], r # s,
                      NEW k \in Store!Unique(t)
               PROVE  \E i \in 1..Len(k) :
                        Store!Col(t, r.data, k[i]) # Store!Col(t, s.data, k[i])
    BY DEF Store!KeysUnique
  <2>1. Store!At(r, k) # Store!At(s, k) BY DEF StoreInv, Store!Accepted
  <2>2. PICK i \in 1..Len(k) : r.col[k[i]] # s.col[k[i]] BY <2>1 DEF Store!At
  <2>3. k[i] \in Store!Cols(t) BY ColumnsOf DEF StoreAssumptions
  <2>4. /\ r.col = [c \in Store!Cols(t) |-> Store!Col(t, r.data, c)]
        /\ s.col = [c \in Store!Cols(t) |-> Store!Col(t, s.data, c)]
    BY <1>1
  <2>5. r.col[k[i]] = Store!Col(t, r.data, k[i]) /\ s.col[k[i]] = Store!Col(t, s.data, k[i])
    BY <2>3, <2>4
  <2> QED BY <2>2, <2>5
<1> QED BY <1>2, <1>3, <1>4

\* Each statement, as far as the tables go.
LEMMA StatementIs ==
  ASSUME Store!TabAssumption, StoreInv, NEW t \in Tab,
         \/ \E m \in Store!Message(t) : Store!Insert(t, m) \/ Store!Update(t, m)
         \/ \E vals \in Store!Vals(Store!Schema[t].primary) : Store!Delete(t, vals)
  PROVE  \E R, row :
           /\ rows' = [rows EXCEPT ![t] = R] /\ Store!Accepted(t, R) /\ OneForOne(t, R)
           /\ \A r \in R : r \in rows[t] \/ \E m \in Store!Message(t) : r = Store!Row(t, m)
           /\ \/ R \subseteq rows[t] \cup {row} /\ Store!Size < MaxRows
              \/ R \subseteq rows[t]
              \/ \E r \in rows[t] : R \subseteq (rows[t] \ {r}) \cup {row}
<1>1. Store!Accepted(t, rows[t]) BY DEF StoreInv
<1>2. ASSUME NEW m \in Store!Message(t), Store!Insert(t, m)
      PROVE  /\ rows' = [rows EXCEPT ![t] = rows[t] \cup {Store!Row(t, m)}]
             /\ Store!Accepted(t, rows[t] \cup {Store!Row(t, m)})
             /\ OneForOne(t, rows[t] \cup {Store!Row(t, m)})
             /\ Store!Size < MaxRows
  BY <1>2, InsertsOne
<1>3. ASSUME NEW m \in Store!Message(t), Store!Update(t, m)
      PROVE  \E R : /\ rows' = [rows EXCEPT ![t] = R] /\ Store!Accepted(t, R) /\ OneForOne(t, R)
                    /\ \A r \in R : r \in rows[t] \/ r = Store!Row(t, m)
                    /\ \/ R \subseteq rows[t]
                       \/ \E r \in rows[t] : R \subseteq (rows[t] \ {r}) \cup {Store!Row(t, m)}
  BY <1>1, <1>3, UpdatesOne
<1>4. ASSUME NEW vals, Store!Delete(t, vals)
      PROVE  \E R \in SUBSET rows[t] : /\ rows' = [rows EXCEPT ![t] = R] /\ OneForOne(t, R)
                                       /\ Store!Accepted(t, R)
  BY <1>1, <1>4, DeletesOne DEF Store!Accepted
<1>5. CASE \E m \in Store!Message(t) : Store!Insert(t, m)
  <2>1. PICK m \in Store!Message(t) : Store!Insert(t, m) BY <1>5
  <2> DEFINE R == rows[t] \cup {Store!Row(t, m)}
  <2>2. /\ rows' = [rows EXCEPT ![t] = R] /\ Store!Accepted(t, R) /\ OneForOne(t, R)
        /\ Store!Size < MaxRows
    BY <1>2, <2>1
  <2>3. \A r \in R : r \in rows[t] \/ \E n \in Store!Message(t) : r = Store!Row(t, n)
    BY <2>1
  <2>4. R \subseteq rows[t] \cup {Store!Row(t, m)} OBVIOUS
  <2> HIDE DEF R
  <2> QED BY <2>2, <2>3, <2>4
<1>6. CASE \E m \in Store!Message(t) : Store!Update(t, m)
  <2>1. PICK m \in Store!Message(t) : Store!Update(t, m) BY <1>6
  <2>2. PICK R : /\ rows' = [rows EXCEPT ![t] = R] /\ Store!Accepted(t, R) /\ OneForOne(t, R)
                 /\ \A r \in R : r \in rows[t] \/ r = Store!Row(t, m)
                 /\ \/ R \subseteq rows[t]
                    \/ \E r \in rows[t] : R \subseteq (rows[t] \ {r}) \cup {Store!Row(t, m)}
    BY <1>3, <2>1
  <2> QED BY <2>2
<1>7. CASE \E vals \in Store!Vals(Store!Schema[t].primary) : Store!Delete(t, vals)
  <2>1. PICK vals : Store!Delete(t, vals) BY <1>7
  <2>2. PICK R \in SUBSET rows[t] : /\ rows' = [rows EXCEPT ![t] = R] /\ OneForOne(t, R)
                                    /\ Store!Accepted(t, R)
    BY <1>4, <2>1
  <2> QED BY <2>2
<1> QED BY <1>5, <1>6, <1>7

LEMMA StoreInit == StoreAssumptions /\ Store!Init => StoreInv
<1> SUFFICES ASSUME StoreAssumptions, Store!Init PROVE StoreInv OBVIOUS
<1>1. rows = [t \in Tab |-> {}] BY DEF Store!Init
<1>2. UNION {{t} \X rows[t] : t \in Tab} = {} BY <1>1
<1>3. IsFiniteSet({}) /\ Cardinality({}) = 0 BY FS_EmptySet
<1>4. Store!Size = Cardinality({})
  BY <1>2 DEF Store!Size, Store!Cardinality, Cardinality
<1>5. \A t \in Tab : Store!Accepted(t, rows[t]) BY <1>1 DEF Store!Accepted
<1> QED BY <1>1, <1>2, <1>3, <1>4, <1>5 DEF StoreInv, StoreAssumptions, Store!MaxRowsAssumption

LEMMA StoreStep ==
  ASSUME StoreAssumptions, StoreInv, [Store!Next]_rows
  PROVE  StoreInv' /\ \A t \in Tab : rows'[t] # rows[t] => OneForOne(t, rows'[t]) /\
                                       \A u \in Tab : u # t => rows'[u] = rows[u]
<1>1. CASE UNCHANGED rows
  <2>1. \A t \in Tab : Store!Accepted(t, rows'[t]) BY <1>1 DEF StoreInv
  <2>2. Store!Size' = Store!Size BY <1>1 DEF Store!Size
  <2> QED BY <1>1, <2>1, <2>2 DEF StoreInv, Store!Accepted
<1>2. CASE Store!Next
  <2>1. PICK t \in Tab :
          \/ \E m \in Store!Message(t) : Store!Insert(t, m) \/ Store!Update(t, m)
          \/ \E vals \in Store!Vals(Store!Schema[t].primary) : Store!Delete(t, vals)
    BY <1>2 DEF Store!Next
  <2>2. PICK R, row :
           /\ rows' = [rows EXCEPT ![t] = R] /\ Store!Accepted(t, R) /\ OneForOne(t, R)
           /\ \A r \in R : r \in rows[t] \/ \E m \in Store!Message(t) : r = Store!Row(t, m)
           /\ \/ R \subseteq rows[t] \cup {row} /\ Store!Size < MaxRows
              \/ R \subseteq rows[t]
              \/ \E r \in rows[t] : R \subseteq (rows[t] \ {r}) \cup {row}
    BY <2>1, StatementIs DEF StoreAssumptions
  <2>3. rows'[t] = R /\ rows' = [u \in Tab |-> rows'[u]] /\ \A u \in Tab : u # t => rows'[u] = rows[u]
    BY <2>2 DEF StoreInv
  <2>4. IsFiniteSet(AllRows') /\ Store!Size' \in 0..MaxRows
    BY <2>2, SizeAfter DEF StoreAssumptions
  <2>5. \A u \in Tab : \A r \in rows'[u] : \E m \in Store!Message(u) : r = Store!Row(u, m)
    BY <2>2, <2>3 DEF StoreInv
  <2>6. \A u \in Tab : Store!Accepted(u, rows'[u])
    BY <2>2, <2>3 DEF StoreInv
  <2>7. StoreInv'
    BY <2>3, <2>4, <2>5, <2>6 DEF StoreInv, AllRows, Store!Accepted
  <2> QED BY <2>2, <2>3, <2>7
<1> QED BY <1>1, <1>2

LEMMA StoreHolds == StoreAssumptions /\ Store!Spec => []StoreInv
<1>1. StoreAssumptions /\ StoreInv /\ [Store!Next]_rows => StoreInv' BY StoreStep
<1>2. SUFFICES ASSUME StoreAssumptions PROVE Store!Spec => []StoreInv OBVIOUS
<1> QED BY <1>1, <1>2, StoreInit, PTL DEF Store!Spec

\* Rows and columns keep the types they say they have, and there is room for all.
THEOREM RowTypes == StoreAssumptions /\ Store!Spec => []Store!TypeOK
<1>1. StoreAssumptions /\ StoreInv => Store!TypeOK BY StoreFacts
<1>2. SUFFICES ASSUME StoreAssumptions PROVE Store!Spec => []Store!TypeOK OBVIOUS
<1> QED BY <1>1, <1>2, StoreHolds, PTL

\* Whatever was inserted, updated and deleted, a row is found by the keys that its
\* message has now, and no two messages of a table agree on a unique key
\* (InsertPicRow, UpdatePicRow, DeletePic and their likes).
THEOREM RowsFollow == StoreAssumptions /\ Store!Spec => [](Store!ColumnsFresh /\ Store!KeysUnique)
<1>1. StoreAssumptions /\ StoreInv => Store!ColumnsFresh /\ Store!KeysUnique BY StoreFacts
<1>2. SUFFICES ASSUME StoreAssumptions
               PROVE  Store!Spec => [](Store!ColumnsFresh /\ Store!KeysUnique)
  OBVIOUS
<1> QED BY <1>1, <1>2, StoreHolds, PTL

\* No statement changes or removes more than one message: an update names the row by
\* the primary key, and a deletion has all columns of it (localUpdate, localDelete).
THEOREM StatementsChangeOne == StoreAssumptions /\ Store!Spec => Store!OneRow
<1> DEFINE gone == UNION {rows[t] \ rows'[t] : t \in Tab}
           come == UNION {rows'[t] \ rows[t] : t \in Tab}
           One == Store!Cardinality(gone) <= 1 /\ Store!Cardinality(come) <= 1
<1>1. ASSUME StoreAssumptions, StoreInv, [Store!Next]_rows PROVE One
  <2>1. \A t \in Tab : rows'[t] # rows[t] =>
          OneForOne(t, rows'[t]) /\ \A u \in Tab : u # t => rows'[u] = rows[u]
    BY <1>1, StoreStep
  <2>2. \A x \in gone : \E t \in Tab : x \in rows[t] \ rows'[t] OBVIOUS
  <2>3. \A x \in come : \E t \in Tab : x \in rows'[t] \ rows[t] OBVIOUS
  <2>4. \A x, y \in gone : x = y
    <3> HIDE DEF gone
    <3> QED BY <2>1, <2>2 DEF OneForOne
  <2>5. \A x, y \in come : x = y
    <3> HIDE DEF come
    <3> QED BY <2>1, <2>3 DEF OneForOne
  <2> HIDE DEF gone, come
  <2>6. Cardinality(gone) \in 0..1 /\ Cardinality(come) \in 0..1 BY <2>4, <2>5, AtMostOne
  <2>7. \A S : Store!Cardinality(S) = Cardinality(S) BY DEF Store!Cardinality, Cardinality
  <2> QED BY <2>6, <2>7
<1>2. SUFFICES ASSUME StoreAssumptions PROVE Store!Spec => Store!OneRow OBVIOUS
<1>3. StoreAssumptions => (StoreInv /\ [Store!Next]_rows => One) BY <1>1
<1> HIDE DEF One
<1>4. Store!OneRow <=> [][One]_rows BY PTL DEF Store!OneRow, One
<1> QED BY <1>2, <1>3, <1>4, StoreHolds, PTL DEF Store!Spec
=============================================================================
