------------------------------ MODULE MCValues ------------------------------
(* Values written by the encoder and read back by both builders, and what   *)
(* keys, policies, tags and notations make of them.                         *)
EXTENDS Writer, Builders, Diag, Grammar, Families

SmallHalf == [e |-> 2, m |-> 2]
SmallSingle == [e |-> 3, m |-> 3]
SmallDouble == [e |-> 4, m |-> 4]

\* The loop of validIndefiniteText.
Items(s) == s # <<>> /\ \E n \in 1 .. Len(s) : AreItems("strict", s, n, MaxDepth, FALSE)

-----------------------------------------------------------------------------
(***************************************************************************)
(* The values.                                                             *)
(***************************************************************************)
A == FromText(<<97>>)
Bee == FromText(<<98>>)
BytesA == FromBytes(<<97>>)
Halves == FromFloat("float16", 4)      \* 1.0 three times
Singles == FromFloat("float32", 24)
Doubles == FromFloat("float64", 112)

AllFloats == UNION {{FromFloat(k, x) : x \in Bits(FormatOf(k))} : k \in FloatKinds}

\* BOUND: every float; integers with heads of one and two bytes, beyond the
\* double's precision, and the last of the width; strings with each kind of
\* character, valid or not.
Scalar ==
  AllFloats
    \cup {FromUint(n) : n \in {0, 23, 24, 33, Word - 1}}
    \cup {FromNegMagnitude(n) : n \in {0, 31, 32, 34, Word - 1}}
    \cup {FromSimple(n) : n \in {0, 20, 21, 22, 23, 32, 255}}
    \cup {FromBytes(s) : s \in {<<>>, <<97>>, <<195>>}}
    \cup {FromText(s) : s \in {<<>>, <<97>>, <<34, 10, 92>>, <<31, 65>>, <<195, 169>>, <<195>>}}

\* BOUND: parts of arrays and tags; keys and values of maps.
Parts ==
  {FromUint(1), FromNegMagnitude(32), A, AsIndefinite(A), AsIndefinite(FromText(<<>>)), BytesA,
   Halves, Doubles, FromSimple(23), FromSimple(99), FromTag(1, A), FromTag(2, BytesA),
   FromArray(<<>>), AsIndefinite(FromMap(<<>>))}

SomeKeys ==
  {FromUint(1), FromNegMagnitude(32), A, AsIndefinite(BytesA), FromBytes(<<195>>),
   Halves, Singles, Doubles, FromTag(1, A), FromTag(1, BytesA), FromArray(<<A>>)}

SomeValues == {FromUint(1), FromSimple(99), AsIndefinite(A)}

Maps(keys, values, n) ==
  {FromMap(FlattenSeq([k \in 1 .. n |-> <<ks[k], vs[k]>>])) :
     ks \in [1 .. n -> keys], vs \in [1 .. n -> values]}

Flat ==
  {FromArray(s) : s \in UpTo(Parts, 2)}
    \cup Maps(SomeKeys, SomeValues, 1) \cup Maps(SomeKeys, SomeValues, 2)
    \cup Maps({A, BytesA, Bee}, SomeValues \ {AsIndefinite(A)}, 3)

\* BOUND: 55799, whose content is free, does not fit the Word of the model.
TagNumbers == {n \in WellKnown : n < Word} \cup {6}

\* Maps of two pairs to nest, with keys the orders of RFC 8949 disagree about.
Inner == Maps({FromUint(24), FromNegMagnitude(0), BytesA}, {A}, 2)

\* BOUND: maps within keys, values, arrays and tags of other values, and
\* nesting one level beyond both ParseDepth and MaxKeyDepth.
Nested ==
  {FromTag(n, v) : n \in TagNumbers, v \in Parts \cup {FromArray(<<A, A>>)}}
    \cup {FromMap(<<v, A, w, v>>) : v \in Inner, w \in Inner \cup {FromTag(1, A)}}
    \cup {FromArray(<<FromMap(<<A, v>>), FromTag(2, v)>>) : v \in Inner}
    \cup {FromArray(<<FromArray(<<FromTag(6, v)>>)>>) : v \in Parts}
    \cup {FromMap(<<FromArray(<<FromArray(<<v>>)>>), A, A, v>>) : v \in Parts}

AllDocs ==
  LET definite == Scalar \cup Flat \cup Nested
  IN  definite \cup {AsIndefinite(v) : v \in definite}

\* Every integer of the width.
AllIntegers == {FromUint(n) : n \in 0 .. Word - 1} \cup {FromNegMagnitude(n) : n \in 0 .. Word - 1}

KeySamples == SomeKeys \cup {FromFloat("float32", x) : x \in {0, 1, 64, 57, 60, 120}} \cup
  {FromFloat("float64", x) : x \in {0, 1, 256, 120, 248}} \cup
  {FromMap(<<>>), FromTag(2, A), FromArray(<<Singles>>), FromMap(<<Doubles, A>>), FromText(<<>>)}

Identified == {[key |-> w, bytes |-> KeyBytes(w)] : w \in KeySamples}

-----------------------------------------------------------------------------
(***************************************************************************)
(* Values looked at from outside.                                          *)
(***************************************************************************)
RECURSIVE Has(_, _)
\* Some part of v, itself included, satisfies p.
Has(p(_), v) == p(v) \/ \E k \in DOMAIN v.a : Has(p, v.a[k])

RECURSIVE Nesting(_)
Nesting(v) ==
  IF v.a = <<>> THEN 0
  ELSE LET deepest == {Nesting(v.a[k]) : k \in DOMAIN v.a}
       IN  1 + (CHOOSE d \in deepest : \A e \in deepest : e <= d)

RECURSIVE Normal(_, _), NormalParts(_, _)
\* The value a deterministic mode writes: definite, its floats at their
\* shortest, its maps sorted from the inside out.
NormalParts(order, v) ==
  [v EXCEPT !.indef = FALSE, !.a = [k \in DOMAIN v.a |-> Normal(order, v.a[k])]]

Normal(order, v) ==
  LET n == NormalParts(order, v)
      pairs == PairsOf(n)
      at == SortedPositions(order, [k \in DOMAIN pairs |-> KeyBytes(pairs[k].key)])
      float == Shortest(v.kind, v.num)
  IN  CASE v.kind \in FloatKinds -> FromFloat(float.kind, float.num)
        [] v.kind = "map" -> FromPairs([k \in DOMAIN pairs |-> pairs[at[k]]])
        [] OTHER -> n

RECURSIVE Untagged(_), Doubled(_)
Untagged(v) ==
  IF v.kind = "tag" THEN Untagged(v.a[1])
  ELSE [v EXCEPT !.a = [k \in DOMAIN v.a |-> Untagged(v.a[k])]]

\* The value without the widths of its floats, and with Go's one NaN.
Doubled(v) ==
  IF v.kind \in FloatKinds
    THEN FromFloat("float64", IF IsNaN(FormatOf(v.kind), v.num) THEN GoNaN
                              ELSE AsFloat64(v).bits)
    ELSE [v EXCEPT !.a = [k \in DOMAIN v.a |-> Doubled(v.a[k])]]

RECURSIVE Same(_, _)
\* The same value, however it is spelled: RFC 8949 5.6.1 and the comment of
\* keys.go, with floats compared by what they mean.
Same(v, w) ==
  IF v.kind \in FloatKinds /\ w.kind \in FloatKinds
    THEN Meaning(v.kind, v.num) = Meaning(w.kind, w.num)
    ELSE /\ v.kind = w.kind /\ v.num = w.num /\ v.b = w.b /\ Len(v.a) = Len(w.a)
         /\ \A k \in DOMAIN v.a : Same(v.a[k], w.a[k])

BadText(v) == v.kind = "text" /\ ~ValidUTF8(v.b)
ChunkedText(v) == v.kind = "text" /\ v.indef
HoldsChunkedText(v) == v.kind \in {"array", "map"} /\ Has(ChunkedText, v)

Keep == [tags |-> "keep", dup |-> "keep", keys |-> "direct"]

\* Nothing has been written yet.  One mode is enough for what has none.
Fresh == todo # <<>> /\ buf = <<>> /\ mode = "Adapter"

Written == todo = <<>> /\ err = "nil"

-----------------------------------------------------------------------------
\* WriteValue and Decode are inverse: what was written is read back as the same
\* value, width, bits and form included, and in a deterministic mode as its
\* normal form.  A native float64 may become a single of the same value.  A
\* value is refused for text that is not UTF-8, or (as MCEncoderText shows) for
\* indefinite text inside a container, never for anything else.
WritesBack ==
  /\ Written =>
       LET back == DecodeAt(Keep, buf, 0)
       IN  /\ back.err = "nil" /\ back.next = Len(buf) /\ ~Open
           /\ \/ ~deterministic /\ back.v = doc
              \/ deterministic /\ back.v = Normal(mode, doc)
              \/ /\ ~deterministic /\ doc.kind = "float64" /\ back.v.kind = "float32"
                 /\ Same(back.v, doc)
  /\ todo = <<>> /\ err # "nil" =>
       Has(BadText, doc) \/ (~deterministic /\ Has(HoldsChunkedText, doc))

\* keys.go (ShortestFloat): the encoder's preferred serialization and the
\* identity of keys are one rule.  The canonical key of a normal value is its
\* deterministic encoding, byte for byte, and SortMap puts a map in the order
\* the encoder writes, unless a key of it is not one the mode allows.
KeyIsEncoding ==
  Written /\ deterministic =>
    /\ KeyBytes(Normal(mode, doc)) = buf
    /\ doc.kind = "map" =>
         LET n == NormalParts(mode, doc)
             allowed == \A k \in DOMAIN PairsOf(n) : IsKey(PairsOf(n)[k].key, "structural")
         IN  SortMap(n, mode, "structural") = IF allowed THEN Normal(mode, doc) ELSE n

\* Canonical bytes identify: two keys have the same bytes exactly when they are
\* the same value in whatever width and form it arrived.  (The machine's
\* conversion quiets a signalling NaN, so a double of that kind stays a double.)
SameKeyMeansSame ==
  Fresh /\ ~Signalling(doc.kind, doc.num) =>
    LET key == KeyBytes(doc)
    IN  \A w \in Identified : key = w.bytes <=> Same(doc, w.key)

\* A float is narrowed exactly when a narrower one means the same, infinities,
\* subnormals, signed zeros and NaN payloads included, and as far as possible.
ShortestExact ==
  Fresh /\ doc.kind \in FloatKinds =>
    LET short == Shortest(doc.kind, doc.num)
        means(k, x) == Meaning(k, x) = Meaning(doc.kind, doc.num)
        halves == {x \in Bits(Half) : means("float16", x)}
        singles == {x \in Bits(Single) : means("float32", x)}
    IN  /\ means(short.kind, short.num)
        /\ ~Signalling(doc.kind, doc.num) =>
             short.kind = (IF halves # {} THEN "float16"
                           ELSE IF singles # {} THEN "float32" ELSE "float64")

\* applyDuplicatePolicy against what each policy promises: "error" refuses
\* exactly the maps DuplicateKey reports; "first" and "last" keep one entry of
\* every key, that one, in the order in which the keys first came; none leaves
\* a duplicate behind.  A forbidden key is refused in any map of two pairs or
\* more, and in no smaller one.
PolicyResolves ==
  Fresh /\ doc.kind = "map" =>
    \A dup \in {"error", "first", "last"}, keys \in {"direct", "structural"} :
      LET pairs == PairsOf(doc)
          r == Resolved(pairs, dup, keys)
          firsts == {k \in DOMAIN pairs : k \notin Repeats(pairs)}
          winner(k) == CHOOSE j \in DOMAIN pairs :
            /\ KeysEqual(pairs[j].key, pairs[k].key)
            /\ \A m \in DOMAIN pairs : KeysEqual(pairs[m].key, pairs[k].key) =>
                 IF dup = "first" THEN j <= m ELSE m <= j
          place(k) == Cardinality({j \in firsts : j <= k})
      IN  IF Len(pairs) < 2 THEN r = Resolution("nil", pairs)
          ELSE IF \E k \in DOMAIN pairs : ~IsKey(pairs[k].key, keys)
            THEN r.err = "ErrMalformed" \/ (r.err = "ErrDuplicateKey" /\ Repeats(pairs) # {})
          ELSE IF dup = "error" /\ Repeats(pairs) # {} THEN r.err = "ErrDuplicateKey"
          ELSE /\ r.err = "nil"
               /\ Len(r.out) = Cardinality(firsts)
               /\ \A k \in firsts : r.out[place(k)] = pairs[winner(k)]

\* The tag modes agree about everything but the tags: "interpret" returns what
\* "keep" returns or refuses a well-known tag's content, "discard" what is left
\* without them.  Tag 3 around n and the negative integer of magnitude n are
\* one number (tags.go:112).
TagModes ==
  Written =>
    LET under(t) == DecodeAt([Keep EXCEPT !.tags = t], buf, 0)
        illTagged(v) == Interpret(v).err # "nil"
        bad == Has(illTagged, under("keep").v)
    IN  /\ under("interpret") = IF bad THEN Refused("ErrBadTagContent") ELSE under("keep")
        /\ under("discard") = Built(Untagged(under("keep").v), Len(buf))
        /\ doc.kind = "tag" /\ doc.num = 3 /\ doc.a[1].kind = "bytes" =>
             Interpret(doc).bignum = AsInt(FromNegMagnitude(BigEndian(doc.a[1].b)))
        /\ doc.kind = "tag" /\ doc.num \in {2, 3} => (~illTagged(doc) <=> doc.a[1].kind = "bytes")

\* A map with two string keys of the same bytes: only Go's map makes them one.
StringKeys(v) == {k \in DOMAIN PairsOf(v) : PairsOf(v)[k].key.kind \in {"text", "bytes"}}
Collides(v) ==
  v.kind = "map" /\ \E j, k \in StringKeys(v) : j < k /\ PairsOf(v)[j].key.b = PairsOf(v)[k].key.b
TaggedBytesKey(v) ==
  v.kind = "map" /\ \E k \in DOMAIN PairsOf(v) :
    PairsOf(v)[k].key.kind = "tag" /\ Untagged(PairsOf(v)[k].key).kind = "bytes"

\* decode.go:45 "two allocations and two passes per item to produce the same
\* answer": DecodeJSON returns what project makes of Decode under the adapter's
\* options, except for a byte-string key under a tag, and where one Go key
\* stands for several entries, of which project has seen only some.
ProjectionAgrees ==
  Written /\ ~Has(TaggedBytesKey, doc) /\ ~Has(Collides, Untagged(doc)) =>
    LET built == DecodeAt(AdapterOptions, buf, 0)
        projected == IF built.err = "nil" THEN Project(built.v) ELSE built
        direct == JsonAt(buf, 0)
    IN  /\ (direct.err = "nil") = (projected.err = "nil")
        /\ direct.err = "nil" => direct.v = projected.v /\ direct.next = built.next

RECURSIVE TextKeys(_)
\* Every key of every map is text.
TextKeys(x) ==
  /\ \A k \in DOMAIN x.l : TextKeys(x.l[k])
  /\ \A key \in DOMAIN x.m : TextKeys(x.m[key])
  /\ x.t = "map" => \A key \in DOMAIN x.m : ValidUTF8(key)

\* encode.go:8 "the inverse of Unmarshal over the same JSON-shaped set": what
\* Unmarshal returned, Marshal writes and Unmarshal returns again, bits of
\* floats included, unless a key of the map is not text.
MarshalInverse ==
  Written =>
    LET x == JsonAt(buf, 0)
        again == Marshal(x.v)
    IN  /\ x.err = "nil" /\ TextKeys(x.v) =>
             JsonAt(again, 0) = Built(x.v, Len(again)) /\ Items(again)
        /\ doc.kind \in {"uint", "negint"} =>
             Marshal(GoInt(AsInt(doc))) = buf

\* parse.go:16 "The round trip is the contract -- Parse(Render(v)) is v", for
\* text that is UTF-8 and up to the nesting Parse allows, but for what the
\* notation drops: the width of a float and the payload of a NaN.
ParseRender ==
  Fresh /\ ~Has(BadText, doc) =>
    LET r == Parse(Render(doc))
    IN  IF Nesting(doc) > ParseDepth THEN ~r.ok
        ELSE r.ok /\ r.v = Doubled(doc)

\* value.go:270 "reports whether the conversion was exact": a double reported
\* as exact is the integer.
ExactMeansExact ==
  Fresh /\ doc.kind \in {"uint", "negint"} /\ AsFloat64(doc).exact =>
    /\ Magnitude(Double, AsFloat64(doc).bits) =
         Unit * (IF doc.kind = "uint" THEN doc.num ELSE doc.num + 1)
    /\ SignOf(Double, AsFloat64(doc).bits) = IF doc.kind = "uint" THEN 0 ELSE 1
=============================================================================
