------------------------------- MODULE Writer -------------------------------
(***************************************************************************)
(* Encoder.WriteValue: a whole value, written through the operations of    *)
(* the encoder one by one.  Its recursion is a list of what is still to do *)
(* and the first error ends it, with the encoder as it stands.             *)
(***************************************************************************)
EXTENDS Encoder, Values

CONSTANT Docs   \* the values to write

VARIABLES
  doc,   \* the value
  todo   \* the calls still to make, each for a part of it

writing == <<doc, todo, vars>>

Job(call, v) == [call |-> call, v |-> v]

\* Mutant: the indefinite form is reproduced in every mode.
ChunkedAlways(v) == v.indef

\* The indefinite form is reproduced where the mode allows it.
Chunked(v) == v.indef /\ ~deterministic

\* The first call WriteValue makes for v.
Begin(v) ==
  CASE v.kind \in {"uint", "negint"} -> WriteScalar(ArgBytes(v))
    [] v.kind = "simple" -> WriteScalar(SimpleBytes(v.num))
    [] v.kind \in FloatKinds -> WriteFloatBits(Float(v.kind, v.num))
    [] v.kind = "tag" -> WriteTag(v.num)
    [] v.kind \in Containers /\ Chunked(v) -> StartIndefinite(MajorOf(v.kind))
    [] v.kind = "bytes" /\ ~Chunked(v) -> WriteBytes(v.b)
    [] v.kind = "text"  /\ ~Chunked(v) -> WriteText(v.b)
    [] v.kind = "array" /\ ~Chunked(v) -> StartArray(ArgOf(v))
    [] v.kind = "map"   /\ ~Chunked(v) -> StartMap(ArgOf(v))

\* The calls that follow it.  A string is one chunk, and an empty one none.
Rest(v) ==
  CASE v.kind \in {"bytes", "text"} ->
         (IF Chunked(v) /\ v.b # <<>> THEN <<Job("chunk", v)>> ELSE <<>>)
           \o (IF Chunked(v) THEN <<Job("end", v)>> ELSE <<>>)
    [] v.kind \in {"array", "map", "tag"} ->
         [k \in DOMAIN v.a |-> Job("value", v.a[k])]
           \o (IF v.kind = "tag" THEN <<>> ELSE <<Job("end", v)>>)
    [] OTHER -> <<>>

Now == Head(todo)

Proceed(more) ==
  /\ todo' = IF err' # "nil" THEN <<>> ELSE more \o Tail(todo)
  /\ UNCHANGED <<doc, mode>>

WriteNext ==
  /\ todo # <<>>
  /\ Now.call = "value"
  /\ Begin(Now.v)
  /\ Proceed(Rest(Now.v))

ChunkNext ==
  /\ todo # <<>>
  /\ Now.call = "chunk"
  /\ WriteChunk(Now.v.b)
  /\ Proceed(<<>>)

EndNext ==
  /\ todo # <<>>
  /\ Now.call = "end"
  /\ End(MajorOf(Now.v.kind))
  /\ Proceed(<<>>)

\* The caller has a float64 of its own, and no value.
WriteNative ==
  /\ todo = <<Job("value", doc)>>
  /\ doc.kind = "float64"
  /\ WriteFloat64(doc.num)
  /\ Proceed(<<>>)

WriterInit ==
  /\ doc \in Docs
  /\ mode \in Modes
  /\ buf = <<>>
  /\ stack = <<>>
  /\ err = "nil"
  /\ todo = <<Job("value", doc)>>

WriterNext == WriteNext \/ ChunkNext \/ EndNext \/ WriteNative

WriterSpec == WriterInit /\ [][WriterNext]_writing
=============================================================================
