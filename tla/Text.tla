-------------------------------- MODULE Text --------------------------------
(***************************************************************************)
(* be/text: the validation and normalization of idents, tags, comments,    *)
(* file names and URLs, and the caseless keys that idents and tags are     *)
(* looked up by.  s is a text that a client sends, made one code point at  *)
(* a time.                                                                 *)
(*                                                                         *)
(* Code points are few, one for each way that the functions tell them      *)
(* apart.  External: what Unicode and golang.org/x/text say of them.       *)
(***************************************************************************)
EXTENDS Integers, Sequences, SequencesExt, FiniteSetsExt

CONSTANTS Char,    \* code points that clients send
          MaxLen,  \* bound on their number
          minBytes, maxBytes

\* Width in bytes; "byte" is a byte that is no UTF-8.  "k" has the compatible
\* capital "KK", "x" becomes two code points, for good, when normalized.
Width == [a |-> 1, A |-> 1, e |-> 1, E |-> 1, acute |-> 2, eAcute |-> 2,
          EAcute |-> 2, k |-> 1, K |-> 1, KK |-> 3, x |-> 3, x1 |-> 3, x2 |-> 3,
          space |-> 1, newline |-> 1, Zl |-> 3, Cc |-> 1, slash |-> 1,
          byte |-> 1]
CharAssumption == Char \subseteq DOMAIN Width
BoundAssumption == {MaxLen, minBytes, maxBytes} \subseteq Nat

VARIABLE s

---------------------------------------------------------------------------
\* Unicode.

EachChar(f, t) == FlattenSeq([i \in DOMAIN t |->
                    IF t[i] \in DOMAIN f THEN f[t[i]] ELSE <<t[i]>>])
Canonical == [eAcute |-> <<"e", "acute">>, EAcute |-> <<"E", "acute">>,
              x |-> <<"x1", "x2">>]
Compatible == [KK |-> <<"K">>] @@ Canonical
Compose(t) ==
  FoldLeft(LAMBDA out, c :
             IF c = "acute" /\ out # <<>> /\ Last(out) \in {"e", "E"}
             THEN Append(Front(out), IF Last(out) = "e" THEN "eAcute" ELSE "EAcute")
             ELSE Append(out, c), <<>>, t)
NFD(t) == EachChar(Canonical, t)
NFC(t) == Compose(NFD(t))
NFKD(t) == EachChar(Compatible, t)
NFKC(t) == Compose(NFKD(t))
Fold(t) == EachChar([A |-> <<"a">>, E |-> <<"e">>, K |-> <<"k">>,
                     EAcute |-> <<"eAcute">>], t)

Space == {"space", "newline", "Zl"}
TrimUnsafe(t) == LET kept == {i \in DOMAIN t : t[i] \notin Space} IN
                 IF kept = {} THEN <<>> ELSE SubSeq(t, Min(kept), Max(kept))

Bytes(t) == FoldLeft(LAMBDA n, c : n + Width[c], 0, t)

---------------------------------------------------------------------------
\* Validators say what is wrong with a text: nothing, "invalid" (an
\* InvalidArgument) or "internal".

notAllowedRange == {"Cc"}
noNewlineRange == {"newline", "Zl"}
Has(t, cs) == \E i \in DOMAIN t : t[i] \in cs

validateMaxBytes(t) ==
  IF Bytes(t) < minBytes \/ Bytes(t) > maxBytes THEN "invalid" ELSE "ok"
validateEncoding(t) == IF Has(t, {"byte"}) THEN "invalid" ELSE "ok"

\* The first code point that is refused says how.
validateCodepoints(t) ==
  LET refused == {i \in DOMAIN t : t[i] \in {"byte"} \cup notAllowedRange} IN
  IF refused = {} THEN "ok"
  ELSE IF t[Min(refused)] = "byte" THEN "internal" ELSE "invalid"

validateNoNewlinesUnsafe(t) == IF Has(t, noNewlineRange) THEN "invalid" ELSE "ok"

First(results) == LET bad == SelectSeq(results, LAMBDA r : r # "ok") IN
                  IF bad = <<>> THEN "ok" ELSE bad[1]

validateNoNewlines(t) ==
  First(<<validateEncoding(t), validateCodepoints(t), validateNoNewlinesUnsafe(t)>>)

defaultValidate(t) ==
  First(<<validateMaxBytes(t), validateEncoding(t), validateCodepoints(t)>>)

\* Normalizers check what the unsafe ones take for granted.
Ok(t) == [err |-> "ok", text |-> t]
Error(e) == [err |-> e, text |-> <<>>]
Checked(t, normal) ==
  LET e == First(<<validateEncoding(t), validateCodepoints(t)>>) IN
  IF e = "ok" THEN Ok(normal) ELSE Error(e)
ToNFC(t) == Checked(t, NFC(t))
TrimSpace(t) == Checked(t, TrimUnsafe(t))

\* validateAndNormalize: validate (pre), normalize (n), and validate what comes
\* out (post).
validateAndNormalize(pre, n, post) ==
  LET first == First(<<pre, n.err, post>>) IN
  IF first = "ok" THEN n ELSE Error(first)

---------------------------------------------------------------------------
\* The texts of the tasks.

\* DefaultValidateAndNormalize: comments.  Only the length is checked again.
Comment(t) ==
  validateAndNormalize(defaultValidate(t), Ok(NFC(t)), validateMaxBytes(NFC(t)))

\* DefaultValidateNoNewlineAndNormalize: idents and URLs.
Ident(t) ==
  LET pre == First(<<defaultValidate(t), validateNoNewlinesUnsafe(t)>>) IN
  validateAndNormalize(pre, Ok(NFC(t)), validateMaxBytes(NFC(t)))

\* cleanTagNames: normalized, then trimmed with no further check.
NFCTrimmed(t) == LET n == ToNFC(t) IN
                 IF n.err = "ok" THEN Ok(TrimUnsafe(n.text)) ELSE n
Tag(t) ==
  LET v(u) == First(<<defaultValidate(u), validateNoNewlines(u)>>) IN
  validateAndNormalize(v(t), NFCTrimmed(t), v(NFCTrimmed(t).text))

\* validateAndNormalizeFileName: path.Base of the empty name is ".".
FileName(t) ==
  LET v(u) == First(<<defaultValidate(u), validateNoNewlines(u),
                      IF Has(u, {"slash"}) \/ u = <<>> THEN "invalid" ELSE "ok">>)
      trimmed(u) == LET n == ToNFC(u) IN
                    IF n.err = "ok" THEN TrimSpace(n.text) ELSE n
  IN  validateAndNormalize(v(t), trimmed(t), v(trimmed(t).text))

\* Broken: one round of folding.
CaselessOnce(t) == NFKC(Fold(NFD(t)))
\* UserUniqueIdent and TagUniqueName.
ToCaselessNFKC(t) == NFKC(Fold(NFKD(Fold(NFD(t)))))

---------------------------------------------------------------------------
Init == s = <<>>
Type(c) == Len(s) < MaxLen /\ s' = Append(s, c)
Next == \E c \in Char : Type(c)
Spec == Init /\ [][Next]_s

Results(t) == {Comment(t), Ident(t), Tag(t), FileName(t)}

\* What is stored passes the checks it came through, unchanged: a client that
\* reads a text and sends it again has it accepted as it is ("It is guaranteed
\* that the String() of the URL is valid and normalized").  Normalizing
\* shortens and lengthens texts.
NormalizedOnce ==
  /\ Comment(s).err = "ok" => Comment(Comment(s).text) = Comment(s)
  /\ Ident(s).err = "ok" => Ident(Ident(s).text) = Ident(s)
  /\ Tag(s).err = "ok" => Tag(Tag(s).text) = Tag(s)
  /\ FileName(s).err = "ok" => FileName(FileName(s).text) = FileName(s)

\* A bad text is the client's fault, never an Internal error (validateCodepoints
\* returns one for text that validateEncoding has not seen).
BadTextIsInvalid == \A r \in Results(s) : r.err # "internal"

\* The forms of a text that Unicode says are the same but for case have the
\* same key, and a key is its own: users and tags are found by whichever is
\* typed (toCaselessNFKCUnsafe: "D146").
SameKey ==
  LET key == ToCaselessNFKC(s) IN
  /\ ToCaselessNFKC(key) = key
  /\ \A t \in {NFC(s), NFD(s), NFKC(s), NFKD(s), Fold(s), Fold(NFKD(s))} :
       ToCaselessNFKC(t) = key
=============================================================================
