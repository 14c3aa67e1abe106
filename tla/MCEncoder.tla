----------------------------- MODULE MCEncoder ------------------------------
(* Model-checking instances of Encoder, with two kinds of caller: one makes *)
(* any calls, and its output is read back with the grammar of the strict    *)
(* walk, whose limits are out of reach; the other writes a document of maps *)
(* inside maps, arrays and tags.                                            *)
EXTENDS Encoder, Grammar

CONSTANTS
  Mistakes,     \* misuses of the API this caller makes
  ShortBytes,   \* BOUND: an adapter's buffer is written to below this length
  LongBytes,    \* BOUND: a deterministic one by any calls below this one
  Documents     \* documents to write

VARIABLES
  doc,    \* the document, NoDocument for a caller of any calls
  todo    \* the calls that are still to be made for it

\* The loop of validIndefiniteText.
Items(s) == s # <<>> /\ \E n \in 1 .. Len(s) : AreItems("strict", s, n, MaxDepth, FALSE)

\* Nothing, valid text, and half of a two-byte rune.
SomeContents == {<<>>, <<97>>, <<195>>, <<169>>}

\* Keys the two orders disagree about, and a duplicate to be.
Keys == {<<32>>, <<24, 32>>}
Chars == {<<>>, <<97>>}

\* Formats of floats, and every float of them; this caller writes none
\* (MCValues does).
SmallHalf == [e |-> 2, m |-> 2]
SmallSingle == [e |-> 3, m |-> 3]
SmallDouble == [e |-> 4, m |-> 4]
SmallReals == UNION {{Float(k, x) : x \in Bits(FormatOf(k))} : k \in FloatKinds}

-----------------------------------------------------------------------------
InString == Open /\ IsString(Top)

\* BOUND: a deterministic encoder writes one document, of integers, arrays of
\* two and maps of two pairs, or of any number in the indefinite form.
Within ==
  IF deterministic THEN (Open \/ buf = <<>>) /\ Len(buf) < LongBytes
  ELSE Len(buf) < ShortBytes

Sizes == IF deterministic THEN Counts \cap {2} ELSE Counts
Strings == IF deterministic THEN {} ELSE Contents

\* A caller that makes only the Mistakes given -- any of
\*   "reserved"   WriteSimple of a reserved value
\*   "in string"  items written inside an open string
\*   "odd map"    an indefinite map ended after a key
\*   "wide map"   a map declared with half a word of pairs or more
\* It may always overfill, cut short or mix up containers, and write text that
\* is not UTF-8.  It sets the mode before it writes, as SetMode asks.
Client ==
  \/ /\ UNCHANGED mode
     /\ \/ /\ "in string" \in Mistakes \/ ~InString
           /\ Within
           /\ \/ \E s \in Scalars : WriteScalar(s)
              \/ \E c \in Strings : WriteBytes(c) \/ WriteText(c)
              \/ \E n \in Tags : WriteTag(n)
              \/ \E n \in Sizes : StartArray(n)
              \/ \E n \in Sizes : ("wide map" \in Mistakes \/ 2 * n < Word) /\ StartMap(n)
              \/ \E major \in {mtBytes, mtText, mtArray, mtMap} : StartIndefinite(major)
        \/ Within /\ \E c \in Strings : WriteChunk(c)
        \/ "reserved" \in Mistakes /\ WriteReserved
        \/ /\ "odd map" \in Mistakes \/ ~(Open /\ Top.major = mtMap /\ Top.got % 2 = 1)
           /\ End(mtMap)
        \/ \E major \in {mtBytes, mtText, mtArray} : End(major)
        \/ Reset
  \/ buf = <<>> /\ \E m \in Modes : SetMode(m)

-----------------------------------------------------------------------------
\* A document: form is "key" (an integer, with its bytes), "map", "open map"
\* (in the indefinite form), "array" or "tag".
Doc(form, bytes, parts) == [form |-> form, bytes |-> bytes, parts |-> parts]
NoDocument == Doc("none", <<>>, <<>>)
Leaf(k) == Doc("key", k, <<>>)
Tagged(d) == Doc("tag", <<>>, <<d>>)
Pair(d, e) == Doc("array", <<>>, <<d, e>>)

Maps(keys, values) ==
  {Doc(f, <<>>, <<k[1], v[1], k[2], v[2]>>) :
     f \in {"map", "open map"}, k \in keys \X keys, v \in values}

Zero == Leaf(<<32>>)
MoreKeys == {Leaf(k) : k \in Keys \cup {<<33>>}}
Plain == {<<Zero, Zero>>}

\* BOUND: maps of two pairs.  Flat ones have integers in them; the others have
\* flat ones in a key, in a value or in both, in arrays and under tags, and
\* the last ones have those.
Flat == Maps(MoreKeys, Plain)
Upset == Doc("map", <<>>, <<Leaf(<<33>>), Zero, Leaf(<<24, 32>>), Zero>>)
Around(S) == S \cup {Tagged(d) : d \in S} \cup {Pair(Zero, d) : d \in S}
Nested == Maps(MoreKeys \cup Around(Flat), {<<Zero, Zero>>, <<Tagged(Upset), Upset>>})
Twice == {Tagged(Tagged(Upset)), Tagged(Pair(Upset, Zero))}
           \cup Maps({Zero, Upset, Tagged(Upset)}, {<<Zero, Upset>>})
Deep == Maps({Zero, Upset} \cup Twice, {<<Zero, Zero>>, <<Upset, Zero>>})
MapDocuments == Nested \cup Deep \cup Around(Deep)

RECURSIVE Calls(_)
\* The calls that write d: "end" closes a map or an array.
Calls(d) ==
  (IF d.form = "none" THEN <<>> ELSE <<d>>)
    \o FlattenSeq([k \in DOMAIN d.parts |-> Calls(d.parts[k])])
    \o (IF d.form \in {"map", "open map", "array"} THEN <<Doc("end", <<>>, <<d>>)>> ELSE <<>>)

Make(d) ==
  \/ d.form = "key" /\ WriteScalar(d.bytes)
  \/ d.form = "tag" /\ WriteTag(1)
  \/ d.form = "array" /\ StartArray(2)
  \/ d.form = "map" /\ StartMap(2)
  \/ d.form = "open map" /\ StartIndefinite(mtMap)
  \/ d.form = "end" /\ End(IF d.parts[1].form = "array" THEN mtArray ELSE mtMap)

\* The calls for a document, one after the other.
Document ==
  \/ /\ ~deterministic
     /\ \E m \in Modes \ {"Adapter"} : SetMode(m)
     /\ UNCHANGED todo
  \/ /\ deterministic /\ todo # <<>>
     /\ Make(Head(todo))
     /\ todo' = Tail(todo)
     /\ UNCHANGED mode

CallersInit ==
  /\ Init
  /\ doc \in Documents \cup {NoDocument}
  /\ todo = Calls(doc)

CallersNext ==
  /\ \/ doc = NoDocument /\ Client /\ UNCHANGED todo
     \/ doc # NoDocument /\ Document
  /\ UNCHANGED doc

ClientSpec == CallersInit /\ [][CallersNext]_<<vars, doc, todo>>

-----------------------------------------------------------------------------
\* Bytes(): what it returns without an error is a sequence of items, each one
\* the decoder reads (of a document KeysInOrder says which).
BytesWellFormed ==
  doc = NoDocument /\ err = "nil" /\ ~Open /\ buf # <<>> => Items(buf)

\* The order a mode asks for (RFC 8949 4.2.1 and 4.2.3), by the first byte two
\* encoded keys differ in.
Shared(a, c) ==
  CHOOSE k \in 0 .. Len(a) :
    /\ SubSeq(a, 1, k) = SubSeq(c, 1, k)
    /\ k = Len(a) \/ k = Len(c) \/ a[k + 1] # c[k + 1]

Ascending(a, c) ==
  IF mode = "LengthFirst" /\ Len(a) # Len(c) THEN Len(a) < Len(c)
  ELSE LET k == Shared(a, c)
       IN  k = Len(a) \/ (k < Len(c) /\ a[k + 1] < c[k + 1])

RECURSIVE Canonical(_)
\* The bytes of d with the keys of every map in order, each with its value;
\* equal keys stay in the order they were written in.
Canonical(d) ==
  LET part == [k \in DOMAIN d.parts |-> Canonical(d.parts[k])]
      pairs == IF Ascending(part[1], part[3]) THEN part
               ELSE <<part[3], part[4], part[1], part[2]>>
  IN  CASE d.form = "key" -> d.bytes
        [] d.form = "tag" -> HeadBytes(mtTag, 1) \o part[1]
        [] d.form = "array" -> HeadBytes(mtArray, 2) \o FlattenSeq(part)
        [] d.form = "map" -> HeadBytes(mtMap, 2) \o FlattenSeq(pairs)
        [] d.form = "open map" -> <<32 * mtMap + 31>> \o FlattenSeq(pairs) \o <<Break>>

\* encoder.go:402 (sortPairs): what a deterministic encoder leaves of a document
\* written call by call is the document with the pairs of every map in it in
\* key order, in keys, in values, in arrays and under tags: a map is sorted
\* while the maps around it hold offsets into the buffer, and its own order
\* decides where it goes as a key.
KeysInOrder ==
  doc # NoDocument /\ todo = <<>> => err = "nil" /\ ~Open /\ buf = Canonical(doc)

\* encoder_test.go:40 "The indefinite forms round-trip as themselves": content
\* that is valid text is never refused for want of an encoding.
ValidTextAccepted == err # "ErrNotWellFormed"
=============================================================================
