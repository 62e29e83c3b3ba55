------------------------------- MODULE Varint -------------------------------
(***************************************************************************)
(* schema.Varint, the text form of ids, and the names that are made of it: *)
(* event ids, file ids and paths of files.                                 *)
(*                                                                         *)
(* The code has 32 symbols, of which half stand for themselves and each of *)
(* the others begins a number with one symbol more than the one before.    *)
(* A symbol is a number here; the letters of upper case are others.        *)
(***************************************************************************)
EXTENDS Integers, Sequences, SequencesExt

CONSTANTS varbits, wordBits,  \* 5 and 64 in the code
          MaxInts, MaxTyped   \* bounds on numbers appended, and bytes typed

WidthAssumption == varbits \in Nat \ {0} /\ wordBits \in Nat \ {0}

VARIABLES ints,   \* the numbers that were appended
          buf     \* the bytes

vars == <<ints, buf>>

symbolCount == 2^varbits
half == symbolCount \div 2
Word == 0..2^wordBits - 1       \* uint64(v)
Minus1 == 2^wordBits - 1        \* Varint(-1)

\* The smallest number that begins with a symbol.
prefix[s \in half..symbolCount - 1] ==
  IF s = half THEN half ELSE prefix[s - 1] + symbolCount^(s - half)
\* Symbols beyond prefixw would begin numbers that no word has.
prefixw == CHOOSE s \in DOMAIN prefix :
             prefix[s] \in Word /\ \A r \in DOMAIN prefix : prefix[r] \in Word => r <= s

\* Symbols of a number whose first one is s.
lengthTable(s) == IF s < half THEN 1 ELSE s - half + 2

-----------------------------------------------------------------------------
\* Varint.Append.
FirstSymbol(n) ==
  LET last == prefixw
  IN CHOOSE s \in half..last : prefix[s] <= n /\ (s < last => n < prefix[s + 1])
Digits(m, k) == [i \in 1..k |-> (m \div symbolCount^(k - i)) % symbolCount]

Encode(n) ==
  IF n < half THEN <<n>>
  ELSE LET s == FirstSymbol(n) IN <<s>> \o Digits(n - prefix[s], lengthTable(s) - 1)

maxValue == Encode(Minus1)
maxLength == Len(maxValue)

-----------------------------------------------------------------------------
\* Bytes: symbols, the upper case of letters, and others before and after them.
Upper(s) == s + symbolCount
Letter == half..symbolCount - 1
Low == -1
High == 2 * symbolCount
Byte == 0..(symbolCount - 1) \cup {Upper(s) : s \in Letter} \cup {Low, High}
Symbol(b) == IF b >= symbolCount /\ b < High THEN b - symbolCount ELSE b
ToLower(s) == [i \in 1..Len(s) |-> Symbol(s[i])]

\* bytes.Compare(a, b) > 0
Greater(a, b) ==
  \/ \E i \in 1..Len(a) : /\ i <= Len(b) /\ a[i] > b[i]
                          /\ \A j \in 1..(i - 1) : a[j] = b[j]
  \/ Len(a) > Len(b) /\ \A j \in 1..Len(b) : a[j] = b[j]

Valid(b) == Symbol(b) \in 0..(symbolCount - 1)

\* Broken: a word that is too large is cut off.
OverflowsNever(raw) == FALSE
Overflows(raw) == lengthTable(Symbol(raw[1])) >= maxLength /\ Greater(ToLower(raw), maxValue)

Fails == [n |-> 0, v |-> 0]
\* Varint.DecodeBytes: the number of bytes consumed, 0 for an error, and the value.
DecodeBytes(raw) ==
  IF raw = <<>> \/ ~Valid(raw[1]) THEN Fails
  ELSE LET s == Symbol(raw[1])
           length == lengthTable(s)
           num == FoldLeft(LAMBDA a, b : a * symbolCount + Symbol(b), 0, SubSeq(raw, 2, length))
       IN IF length > Len(raw) \/ Overflows(raw) \/ \E i \in 2..length : ~Valid(raw[i])
          THEN Fails
          ELSE [n |-> length,
                v |-> (num + (IF s < half THEN s ELSE prefix[s])) % 2^wordBits]

Rest(raw, n) == SubSeq(raw, n + 1, Len(raw))

DecodeAll(raw) == LET d == DecodeBytes(raw) IN
  IF d.n > 0 /\ d.n = Len(raw) THEN {d.v} ELSE {}

-----------------------------------------------------------------------------
\* Names.  A file id is a picture's, or a picture's and a derived file's index.
picFileId(pic, index) == Encode(pic) \o index
ParseFileId(raw) == LET d == DecodeBytes(raw) IN
  IF d.n = 0 THEN {}
  ELSE IF d.n = Len(raw) THEN {<<d.v>>}
  ELSE {<<d.v, i>> : i \in DecodeAll(Rest(raw, d.n))}

\* apiUserEventId, and handleFindUserEvents, which reads it.
apiUserEventId(user, time, index) ==
  Encode(user) \o Encode(time) \o (IF index = 0 THEN <<>> ELSE Encode(index))
IndexOf(r) == IF r = <<>> THEN {0} ELSE DecodeAll(r)
ParseEventId(raw) ==
  LET u == DecodeBytes(raw)
      t == DecodeBytes(Rest(raw, u.n))
  IN IF u.n = 0 \/ t.n = 0 THEN {}
     ELSE {<<u.v, t.v, i>> : i \in IndexOf(Rest(raw, u.n + t.n))}

\* The directories on the way to a picture's files, and the name of a file.
PicBaseDir(pic) == LET s == Encode(pic) IN SubSeq(s, 1, Len(s) - 1)
PicFilePath(pic, index) == <<PicBaseDir(pic), picFileId(pic, index)>>

-----------------------------------------------------------------------------
Init == ints = <<>> /\ buf = <<>>

Append1(n) == /\ Len(ints) < MaxInts /\ (ints = <<>> => buf = <<>>)
              /\ ints' = ints \o <<n>> /\ buf' = buf \o Encode(n)
Type(b) == /\ ints = <<>> /\ Len(buf) < MaxTyped
           /\ buf' = Append(buf, b) /\ UNCHANGED ints

Next == \/ \E n \in Word : Append1(n)
        \/ \E b \in Byte : Type(b)
Spec == Init /\ [][Next]_vars

-----------------------------------------------------------------------------
\* Properties.

\* Whatever bytes decode, they are the encoding of the value in some case: no
\* value has two, and nothing that overflows is taken for a small one
\* (DecodeBytes, and varint_fuzz.go).
DecodesCanonical ==
  LET d == DecodeBytes(buf) IN
    d.n > 0 => d.v \in Word /\ ToLower(SubSeq(buf, 1, d.n)) = Encode(d.v)

\* Numbers that follow each other are read back as they were, so that no
\* encoding begins another.  The number -1, before anything else, is not.
ReadsBack ==
  LET d == DecodeBytes(buf) IN
    /\ Len(ints) >= 1 /\ ~(Len(ints) = 2 /\ ints[1] = Minus1)
         => d = [n |-> Len(Encode(ints[1])), v |-> ints[1]]
    /\ Len(ints) = 2 => DecodeAll(Rest(buf, Len(Encode(ints[1])))) = {ints[2]}

\* Encodings come in the order of the numbers, which DecodeBytes relies on to
\* find an overflow.
EncodeOrdered ==
  Len(ints) = 2 => (ints[1] > ints[2] <=> Greater(Encode(ints[1]), Encode(ints[2])))

\* A file id, an event id and a path belong to one picture, index or event
\* (Len(ints) = 2 stands for all pairs of ids).
NamesDiffer ==
  Len(ints) = 2 /\ Minus1 \notin {ints[1], ints[2]} =>
    LET a == ints[1] b == ints[2] IN
    /\ ParseFileId(picFileId(a, <<>>)) = {<<a>>}
    /\ ParseFileId(picFileId(a, Encode(b))) = {<<a, b>>}
    /\ ParseEventId(apiUserEventId(a, b, 0)) = {<<a, b, 0>>}
    /\ ParseEventId(apiUserEventId(a, b, a)) = {<<a, b, a>>}

\* No file of a picture, derived or not, has the path of a file of another
\* (PicFilePath, PicFileDerivedPath).
PathsDiffer ==
  Len(ints) = 2 /\ ints[1] # ints[2] =>
    LET a == ints[1] b == ints[2] IN
    \A i, j \in {<<>>, Encode(0), Encode(half)} : PicFilePath(a, i) # PicFilePath(b, j)

==============================================================================
