------------------------------ MODULE Builders ------------------------------
(***************************************************************************)
(* What the two builders over one walk return (codec/decoder.go and        *)
(* codec/json.go), for input the walk accepts: its verdicts are those of   *)
(* module Walk, and only what a builder refuses of its own is here.  Then  *)
(* the projection of the root package (adapter.go), which is to give the   *)
(* same answer from the first builder as the second gives directly.        *)
(***************************************************************************)
EXTENDS Values, TLC

\* The item at offset i of s has been built, or refused.
Built(v, next) == [err |-> "nil", v |-> v, next |-> next]
Refused(e) == [err |-> e, v |-> <<>>, next |-> 0]

RECURSIVE Chunks(_, _, _)
Chunks(s, i, out) ==
  LET h == HeadAt(s, i)
  IN  IF s[i + 1] = Break THEN Built(out, i + 1)
      ELSE Chunks(s, h.next + h.arg, out \o SubSeq(s, h.next + 1, h.next + h.arg))

\* stringBody, after the head h.
StringBody(s, h) ==
  IF h.indef THEN Chunks(s, h.next, <<>>)
             ELSE Built(SubSeq(s, h.next + 1, h.next + h.arg), h.next + h.arg)

Marked(v, h) == IF h.indef THEN AsIndefinite(v) ELSE v

\* A loop of a container ends at its count, or at a break.
EndsAt(s, i, h, n) == IF h.indef THEN s[i + 1] = Break ELSE n = h.arg
AfterLoop(i, h) == IF h.indef THEN i + 1 ELSE i

-----------------------------------------------------------------------------
(***************************************************************************)
(* Decode, under the options o: tags "keep", "discard" or "interpret";     *)
(* dup "keep", "error", "first" or "last"; keys "direct" or "structural".  *)
(***************************************************************************)
\* The map of a resolution, or its error.
MapOf(r, h, next) ==
  IF r.err # "nil" THEN Refused(r.err) ELSE Built(Marked(FromPairs(r.out), h), next)

StringOf(h, body) ==
  Built(Marked(IF h.mt = mtBytes THEN FromBytes(body.v) ELSE FromText(body.v), h), body.next)

RECURSIVE DecodeAt(_, _, _), Elements(_, _, _, _, _), Entries(_, _, _, _, _)

Elements(o, s, i, h, out) ==
  IF EndsAt(s, i, h, Len(out)) THEN Built(Marked(FromArray(out), h), AfterLoop(i, h))
  ELSE LET e == DecodeAt(o, s, i)
       IN  IF e.err # "nil" THEN e ELSE Elements(o, s, e.next, h, Append(out, e.v))

Entries(o, s, i, h, out) ==
  IF EndsAt(s, i, h, Len(out))
  THEN MapOf(Resolved(out, o.dup, o.keys), h, AfterLoop(i, h))
  ELSE LET key == DecodeAt(o, s, i)
           val == DecodeAt(o, s, key.next)
       IN  IF key.err # "nil" THEN key
           ELSE IF val.err # "nil" THEN val
           ELSE Entries(o, s, val.next, h, Append(out, [key |-> key.v, val |-> val.v]))

SimpleOrFloat(h) ==
  CASE h.ai = 25 -> FromFloat("float16", h.arg)
    [] h.ai = 26 -> FromFloat("float32", h.arg)
    [] h.ai = 27 -> FromFloat("float64", h.arg)
    [] OTHER -> FromSimple(h.arg)

\* Mutant: interpretation leaves the content in the place of the tag.
TaggedInPlace(o, n, inner) ==
  IF inner.err # "nil" \/ o.tags \in {"discard", "interpret"} THEN inner
  ELSE Built(FromTag(n, inner.v), inner.next)

Tagging(o, n, inner) ==
  IF inner.err # "nil" \/ o.tags = "discard" THEN inner
  ELSE IF o.tags = "interpret" /\ Interpret(FromTag(n, inner.v)).err # "nil"
    THEN Refused("ErrBadTagContent")
  ELSE Built(FromTag(n, inner.v), inner.next)

DecodeItem(o, s, h) ==
  CASE h.mt = mtUint   -> Built(FromUint(h.arg), h.next)
    [] h.mt = mtNegInt -> Built(FromNegMagnitude(h.arg), h.next)
    [] h.mt \in {mtBytes, mtText} -> StringOf(h, StringBody(s, h))
    [] h.mt = mtArray  -> Elements(o, s, h.next, h, <<>>)
    [] h.mt = mtMap    -> Entries(o, s, h.next, h, <<>>)
    [] h.mt = mtTag    -> Tagging(o, h.arg, DecodeAt(o, s, h.next))
    [] h.mt = mtSimple -> Built(SimpleOrFloat(h), h.next)

DecodeAt(o, s, i) == DecodeItem(o, s, HeadAt(s, i))

-----------------------------------------------------------------------------
(***************************************************************************)
(* DecodeJSON: Go's nil, bool, float64, string, []byte, []any and          *)
(* map[string]any; a map's keys are strings of bytes.                      *)
(***************************************************************************)
Go(t, n, s, l, m) == [t |-> t, n |-> n, s |-> s, l |-> l, m |-> m]

GoNil == Go("nil", 0, <<>>, <<>>, <<>>)
GoBool(n) == Go("bool", n, <<>>, <<>>, <<>>)
GoFloat(bits) == Go("float64", bits, <<>>, <<>>, <<>>)
GoString(s) == Go("string", 0, s, <<>>, <<>>)
GoBytes(s) == Go("[]byte", 0, s, <<>>, <<>>)
GoSlice(l) == Go("[]any", 0, <<>>, l, <<>>)
GoMap(m) == Go("map", 0, <<>>, <<>>, m)

\* out[key] = v
Put(m, key, v) == (key :> v) @@ m

NamedSimple(n) ==
  CASE n = 20 -> GoBool(0) [] n = 21 -> GoBool(1) [] n \in {22, 23} -> GoNil

RECURSIVE JsonAt(_, _), JsonArray(_, _, _, _), JsonMap(_, _, _, _, _)

JsonArray(s, i, h, out) ==
  IF EndsAt(s, i, h, Len(out)) THEN Built(GoSlice(out), AfterLoop(i, h))
  ELSE LET e == JsonAt(s, i)
       IN  IF e.err # "nil" THEN e ELSE JsonArray(s, e.next, h, Append(out, e.v))

\* The key at the front of a pair: a string, or what tags around a text hold.
TaggedKey(content) ==
  IF content.err = "nil" /\ content.v.t = "string" THEN Built(content.v.s, content.next)
                                                   ELSE Refused("ErrMalformed")

KeyItem(s, h) ==
  CASE h.mt \in {mtBytes, mtText} -> StringBody(s, h)
    [] h.mt = mtTag -> TaggedKey(JsonAt(s, h.next))
    [] OTHER -> Refused("ErrMalformed")

JsonKey(s, i) == KeyItem(s, HeadAt(s, i))

JsonMap(s, i, h, n, out) ==
  IF EndsAt(s, i, h, n) THEN Built(GoMap(out), AfterLoop(i, h))
  ELSE LET key == JsonKey(s, i)
           val == JsonAt(s, key.next)
       IN  IF key.err # "nil" THEN key
           ELSE IF val.err # "nil" THEN val
           ELSE JsonMap(s, val.next, h, n + 1, Put(out, key.v, val.v))

JsonSimple(h) ==
  CASE h.ai \in 20 .. 23 -> Built(NamedSimple(h.ai), h.next)
    [] h.ai \in 25 .. 27 -> Built(GoFloat(AsFloat64(SimpleOrFloat(h)).bits), h.next)
    [] OTHER -> Refused("ErrMalformed")

JsonString(h, body) ==
  Built(IF h.mt = mtBytes THEN GoBytes(body.v) ELSE GoString(body.v), body.next)

JsonItem(s, h) ==
  CASE h.mt = mtUint   -> Built(GoFloat(DoubleOf(h.arg)), h.next)
    [] h.mt = mtNegInt -> Built(GoFloat(NegativeOf(h.arg)), h.next)
    [] h.mt \in {mtBytes, mtText} -> JsonString(h, StringBody(s, h))
    [] h.mt = mtArray  -> JsonArray(s, h.next, h, <<>>)
    [] h.mt = mtMap    -> JsonMap(s, h.next, h, 0, <<>>)
    [] h.mt = mtTag    -> JsonAt(s, h.next)
    [] h.mt = mtSimple -> JsonSimple(h)

JsonAt(s, i) == JsonItem(s, HeadAt(s, i))

-----------------------------------------------------------------------------
(***************************************************************************)
(* project (adapter.go), for values decoded without their tags.            *)
(***************************************************************************)
\* Mutant: undefined has no shape.
ProjectSimpleNoUndefined(n) ==
  IF n \in 20 .. 22 THEN Built(NamedSimple(n), 0) ELSE Refused("ErrMalformed")

ProjectSimple(n) ==
  IF n \in 20 .. 23 THEN Built(NamedSimple(n), 0) ELSE Refused("ErrMalformed")

RECURSIVE Project(_)
Project(v) ==
  LET parts == [k \in DOMAIN v.a |-> Project(v.a[k])]
      fails == \E k \in DOMAIN v.a : parts[k].err # "nil"
      \* Only the values of a map are projected.
      pairs == PairsOf(v)
      mapFails == \E k \in DOMAIN pairs :
                    \/ pairs[k].key.kind \notin {"text", "bytes"}
                    \/ Project(pairs[k].val).err # "nil"
      put(m, pair) == Put(m, pair.key.b, Project(pair.val).v)
  IN  CASE v.kind \in {"uint", "negint"} \cup FloatKinds -> Built(GoFloat(AsFloat64(v).bits), 0)
        [] v.kind = "bytes"  -> Built(GoBytes(v.b), 0)
        [] v.kind = "text"   -> Built(GoString(v.b), 0)
        [] v.kind = "array"  ->
             IF fails THEN Refused("ErrMalformed")
                      ELSE Built(GoSlice([k \in DOMAIN v.a |-> parts[k].v]), 0)
        [] v.kind = "map"    ->
             IF mapFails THEN Refused("ErrMalformed")
                         ELSE Built(GoMap(FoldLeft(put, <<>>, pairs)), 0)
        [] v.kind = "simple" -> ProjectSimple(v.num)
        [] OTHER -> Refused("ErrMalformed")

\* adapterDecoder's options.
AdapterOptions == [tags |-> "discard", dup |-> "last", keys |-> "direct"]

-----------------------------------------------------------------------------
(***************************************************************************)
(* Marshal (encode.go), over the shapes above and Go's int64 ("int").      *)
(***************************************************************************)
GoInt(n) == Go("int", n, <<>>, <<>>, <<>>)

\* Mutant: a float that loses something as a single is written as one.
MarshalFloatLossy(x) == FloatBytes(Float("float32", AsSingle(x)))

\* A float equal to its single, as floats compare: a NaN is not.
MarshalFloat(x) ==
  IF ~IsNaN(Double, x) /\ AsDouble(AsSingle(x)) = x
    THEN FloatBytes(Float("float32", AsSingle(x)))
    ELSE FloatBytes(Float("float64", x))

SortedKeys(m) == SetToSortSeq(DOMAIN m, LAMBDA a, c : Lexicographic(a, c))

RECURSIVE Marshal(_)
Marshal(x) ==
  CASE x.t = "nil"     -> <<246>>
    [] x.t = "bool"    -> <<244 + x.n>>
    [] x.t = "string"  -> HeadBytes(mtText, Len(x.s)) \o x.s
    [] x.t = "[]byte"  -> HeadBytes(mtBytes, Len(x.s)) \o x.s
    [] x.t = "float64" -> MarshalFloat(x.n)
    [] x.t = "int"     -> IF x.n < 0 THEN HeadBytes(mtNegInt, -1 - x.n) ELSE HeadBytes(mtUint, x.n)
    [] x.t = "[]any"   ->
         HeadBytes(mtArray, Len(x.l)) \o FlattenSeq([k \in DOMAIN x.l |-> Marshal(x.l[k])])
    [] x.t = "map"     ->
         LET keys == SortedKeys(x.m)
             entry(k) == Marshal(GoString(k)) \o Marshal(x.m[k])
         IN  HeadBytes(mtMap, Len(keys)) \o FlattenSeq([k \in DOMAIN keys |-> entry(keys[k])])
=============================================================================
