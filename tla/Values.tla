------------------------------- MODULE Values -------------------------------
(***************************************************************************)
(* The value model (value/value.go), key identity (value/keys.go), sorting *)
(* and duplicates (value/order.go, applyDuplicatePolicy of codec/          *)
(* decoder.go), and the interpretation of tags (codec/tags.go).  All of it *)
(* is functions of immutable values.                                       *)
(***************************************************************************)
EXTENDS Cbor, Floats, KeyOrder

CONSTANT MaxKeyDepth   \* maxKeyDepth

ASSUME KeyDepthAssumption == MaxKeyDepth \in Nat

-----------------------------------------------------------------------------
(***************************************************************************)
(* A Value: num and b as in the code; a holds the elements of an array,    *)
(* the content of a tag, and the keys and values of a map in turn.         *)
(***************************************************************************)
Kinds == {"uint", "negint", "bytes", "text", "array", "map", "tag", "simple"} \cup FloatKinds

Value(kind, num, b, a) ==
  [kind |-> kind, num |-> num, b |-> b, a |-> a, indef |-> FALSE]

FromUint(n) == Value("uint", n, <<>>, <<>>)
FromNegMagnitude(n) == Value("negint", n, <<>>, <<>>)
FromBytes(s) == Value("bytes", 0, s, <<>>)
FromText(s) == Value("text", 0, s, <<>>)
FromArray(vs) == Value("array", 0, <<>>, vs)
FromMap(kvs) == Value("map", 0, <<>>, kvs)
FromTag(n, v) == Value("tag", n, <<>>, <<v>>)
FromFloat(kind, bits) == Value(kind, bits, <<>>, <<>>)

\* 24..31 have no encoding.
IsSimple(n) == n \in 0 .. 255 \ 24 .. 31
FromSimple(n) == Value("simple", n, <<>>, <<>>)

Containers == {"bytes", "text", "array", "map"}
AsIndefinite(v) == [v EXCEPT !.indef = v.kind \in Containers]

\* AsInt, for the integers an int64 holds.
AsInt(v) == IF v.kind = "uint" THEN v.num ELSE -1 - v.num

PairsOf(v) == [k \in 1 .. Len(v.a) \div 2 |-> [key |-> v.a[2 * k - 1], val |-> v.a[2 * k]]]
FromPairs(pairs) == FromMap(FlattenSeq([k \in DOMAIN pairs |-> <<pairs[k].key, pairs[k].val>>]))

-----------------------------------------------------------------------------
(***************************************************************************)
(* Key identity: two keys are the same when their canonical bytes are.     *)
(***************************************************************************)
RECURSIVE IsKeyAt(_, _, _)
\* appendCanonical returns no error at this depth.
IsKeyAt(v, keys, depth) ==
  /\ depth <= MaxKeyDepth
  /\ v.kind \in {"array", "map"} => keys = "structural"
  /\ \A k \in DOMAIN v.a : IsKeyAt(v.a[k], keys, depth + 1)

IsKey(v, keys) == IsKeyAt(v, keys, 0)

MajorOf(kind) ==
  CASE kind = "uint" -> mtUint [] kind = "negint" -> mtNegInt
    [] kind = "bytes" -> mtBytes [] kind = "text" -> mtText
    [] kind = "array" -> mtArray [] kind = "map" -> mtMap
    [] kind = "tag" -> mtTag

ArgOf(v) ==
  CASE v.kind \in {"bytes", "text"} -> Len(v.b)
    [] v.kind = "array" -> Len(v.a)
    [] v.kind = "map" -> Len(v.a) \div 2
    [] OTHER -> v.num

SimpleBytes(n) == IF n < 24 THEN <<224 + n>> ELSE <<248, n>>

\* Mutant: a tag is not part of the key.
ArgBytesUntagged(v) ==
  IF v.kind = "tag" THEN <<>> ELSE HeadBytes(MajorOf(v.kind), ArgOf(v))

\* appendHead, for every kind that has an argument.
ArgBytes(v) == HeadBytes(MajorOf(v.kind), ArgOf(v))

RECURSIVE KeyBytes(_)
\* What CanonicalKey returns for a key that is allowed.
KeyBytes(v) ==
  CASE v.kind \in FloatKinds -> FloatBytes(Shortest(v.kind, v.num))
    [] v.kind = "simple" -> SimpleBytes(v.num)
    [] OTHER -> ArgBytes(v) \o v.b \o FlattenSeq([k \in DOMAIN v.a |-> KeyBytes(v.a[k])])

KeysEqual(v, w) == KeyBytes(v) = KeyBytes(w)

-----------------------------------------------------------------------------
\* SortMap: a map with a key the mode does not allow is left as it is.
SortMap(v, order, keys) ==
  LET pairs == PairsOf(v)
      bytes == [k \in DOMAIN pairs |-> KeyBytes(pairs[k].key)]
      at == SortedPositions(order, bytes)
  IN  IF v.kind # "map" \/ \E k \in DOMAIN pairs : ~IsKey(pairs[k].key, keys) THEN v
      ELSE [v EXCEPT !.a = FromPairs([k \in DOMAIN pairs |-> pairs[at[k]]]).a]

\* DuplicateKey, of a map whose keys are allowed: the positions it may report.
Repeats(pairs) ==
  {k \in DOMAIN pairs : \E j \in 1 .. k - 1 : KeysEqual(pairs[j].key, pairs[k].key)}

(***************************************************************************)
(* applyDuplicatePolicy, over the pairs in the order of the wire.          *)
(***************************************************************************)
\* Mutant: the entry that wins last moves to the end.
ReplacedAtEnd(out, at, pair) == Append(RemoveAt(out, at), pair)

\* The last entry takes the place of the first.
Replaced(out, at, pair) == [out EXCEPT ![at] = pair]

Resolution(err, out) == [err |-> err, out |-> out]

\* The next pair, when the entries at the positions same have its key already.
Enter(pair, dup, sofar, same) ==
  IF same = {} THEN Resolution("nil", Append(sofar.out, pair))
  ELSE CASE dup = "error" -> Resolution("ErrDuplicateKey", <<>>)
         [] dup = "first" -> sofar
         [] dup = "last"  -> Resolution("nil", Replaced(sofar.out, CHOOSE k \in same : TRUE, pair))

Entered(pair, dup, keys, sofar) ==
  CASE sofar.err # "nil" -> sofar
    [] sofar.err = "nil" /\ ~IsKey(pair.key, keys) -> Resolution("ErrMalformed", <<>>)
    [] OTHER -> Enter(pair, dup, sofar,
                      {k \in DOMAIN sofar.out : KeysEqual(sofar.out[k].key, pair.key)})

Resolved(pairs, dup, keys) ==
  IF dup = "keep" \/ Len(pairs) < 2 THEN Resolution("nil", pairs)
  ELSE FoldLeft(LAMBDA sofar, pair : Entered(pair, dup, keys, sofar),
                Resolution("nil", <<>>), pairs)

-----------------------------------------------------------------------------
(***************************************************************************)
(* Interpret: what a well-known tag may wrap, and a bignum's value.        *)
(***************************************************************************)
StringTags == {0, 32, 33, 34, 36}
WellKnown == StringTags \cup {1, 2, 3, 4, 5, 55799}

TagContent(n, v) ==
  CASE n \in StringTags -> v.kind = "text"
    [] n = 1 -> v.kind \in {"uint", "negint"} \cup FloatKinds
    [] n \in {2, 3} -> v.kind = "bytes"
    [] n \in {4, 5} -> v.kind = "array" /\ Len(v.a) = 2
    [] OTHER -> TRUE

BigEndian(s) == FoldLeft(LAMBDA n, c : 256 * n + c, 0, s)

Bignum(n, s) == IF n = 3 THEN -BigEndian(s) - 1 ELSE BigEndian(s)

\* ok and err of Interpret, and the native forms of the tags that have one.
Interpret(v) ==
  IF v.kind # "tag" \/ v.num \notin WellKnown THEN [ok |-> FALSE, err |-> "nil"]
  ELSE IF ~TagContent(v.num, v.a[1]) THEN [ok |-> FALSE, err |-> "ErrBadTagContent"]
  ELSE IF v.num \in StringTags THEN [ok |-> TRUE, err |-> "nil", text |-> v.a[1].b]
  ELSE IF v.num = 1 THEN [ok |-> TRUE, err |-> "nil", epoch |-> AsFloat64(v.a[1])]
  ELSE IF v.num \in {2, 3}
    THEN [ok |-> TRUE, err |-> "nil", bignum |-> Bignum(v.num, v.a[1].b)]
  ELSE [ok |-> TRUE, err |-> "nil"]
=============================================================================
