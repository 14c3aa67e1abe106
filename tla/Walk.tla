-------------------------------- MODULE Walk --------------------------------
(***************************************************************************)
(* One Decoder over one buffer (internal/codec: decoder.go, skip.go,       *)
(* json.go).  The caller repeatedly reads the next item with one of        *)
(*   "decode"  Decode: builds the value model          (decode)            *)
(*   "json"    DecodeJSON: builds Go's JSON shapes     (decodeJSON)        *)
(*   "strict"  SkipStrict: frames, checking UTF-8      (skip(.., true))    *)
(*   "skip"    Skip and RawNext: frames only           (skip(.., false))   *)
(* The mutual recursion of those functions is a stack of frames, one for   *)
(* each active call that has more to read.  Values are not kept, except    *)
(* the string that may become a key of a JSON map; tags and duplicate keys *)
(* are under the zero Mode (TagKeep, DuplicateKeep).  After an error the   *)
(* caller stops.                                                           *)
(***************************************************************************)
EXTENDS Cbor, Limits, Integers, FiniteSets, SequencesExt

CONSTANTS
  Inputs,  \* the buffers a Decoder may be built over
  Ops      \* the methods this caller uses

ASSUME InputsAssumption == Inputs \subseteq Seq(Byte)
ASSUME OpsAssumption == Ops \subseteq {"decode", "json", "strict", "skip"}

VARIABLES
  b,      \* Decoder.b
  i,      \* Decoder.i
  items,  \* Decoder.items
  op,     \* the method running
  start,  \* where its item starts
  pc,     \* "call", "chunk", "loop", "return" inside the walk, or "done"
  stack,  \* the calls in progress, innermost last
  ret,    \* what the call that just ended returned
  err     \* the method's verdict, once done

vars == <<b, i, items, op, start, pc, stack, ret, err>>

Kinds == {"array", "map", "tag", "keytag", "bytes", "text"}

Frames == [kind : Kinds, depth : Int, indef : BOOLEAN, want : Nat, got : Nat,
           part : Seq(Byte), keys : SUBSET Seq(Byte)]

Frame(kind, depth, indef, want) ==
  [kind |-> kind, depth |-> depth, indef |-> indef, want |-> want, got |-> 0,
   part |-> <<>>, keys |-> {}]

NoString == [t |-> "other", s |-> <<>>]
String(t, s) == IF op = "json" THEN [t |-> t, s |-> s] ELSE NoString
StringKind(mt) == IF mt = mtText THEN "text" ELSE "bytes"

Top == Last(stack)

\* Mutant: the content of a tag runs at the tag's own depth.
CallDepthFreeTag ==
  IF stack = <<>> THEN MaxDepth
  ELSE IF Top.kind = "tag" THEN Top.depth ELSE Top.depth - 1

\* The depth argument of the call about to be made.
CallDepth == IF stack = <<>> THEN MaxDepth ELSE Top.depth - 1

AtKey(f) == f.kind = "map" /\ f.got % 2 = 0
MidPair(f) == f.kind = "map" /\ f.got % 2 = 1

\* jsonPair reads a key itself, without the depth check of decodeJSON.
AtJsonKey == op = "json" /\ stack # <<>> /\ AtKey(Top)

h == HeadAt(b, i)

-----------------------------------------------------------------------------
\* How a step of the walk can end.

Fail(e, j) ==
  /\ pc' = "done"
  /\ err' = e
  /\ i' = j
  /\ stack' = <<>>
  /\ ret' = NoString

Push(f, where) ==
  /\ stack' = Append(stack, f)
  /\ pc' = where
  /\ i' = h.next
  /\ UNCHANGED <<ret, err>>

Yield(v, j, rest) ==
  /\ pc' = "return"
  /\ ret' = v
  /\ i' = j
  /\ stack' = rest
  /\ UNCHANGED err

\* Mutant: the framing walk checks text that the strict walk does not.
InvalidTextSwapped(t, s) == t = "text" /\ op \in {"json", "skip"} /\ ~ValidUTF8(s)

InvalidText(t, s) == t = "text" /\ op # "skip" /\ ~ValidUTF8(s)

-----------------------------------------------------------------------------
(***************************************************************************)
(* The prologue every reader of an item shares: depth, count, head.        *)
(***************************************************************************)
TooDeep ==
  /\ pc = "call"
  /\ ~AtJsonKey
  /\ CallDepth < 0
  /\ Fail("ErrDepth", i)
  /\ UNCHANGED <<b, items, op, start>>

Counted ==
  /\ pc = "call"
  /\ AtJsonKey \/ CallDepth >= 0
  /\ items' = items + 1
  /\ UNCHANGED <<b, op, start>>

OverBudget ==
  /\ Counted
  /\ items >= MaxTotalItems
  /\ Fail("ErrTooLarge", i)

BadHead ==
  /\ Counted
  /\ items < MaxTotalItems
  /\ h.err # "nil"
  /\ Fail(h.err, h.next)

\* Mutant: one item more than the budget.
AdmittedOneMore ==
  /\ Counted
  /\ items <= MaxTotalItems
  /\ h.err = "nil"

Admitted ==
  /\ Counted
  /\ items < MaxTotalItems
  /\ h.err = "nil"

-----------------------------------------------------------------------------
(***************************************************************************)
(* One action per kind of item.                                            *)
(***************************************************************************)
KeyNotString ==
  /\ Admitted
  /\ AtJsonKey
  /\ h.mt \notin {mtBytes, mtText, mtTag}
  /\ Fail("ErrMalformed", h.next)

Integer ==
  /\ Admitted
  /\ ~AtJsonKey
  /\ h.mt \in {mtUint, mtNegInt}
  /\ IF h.indef THEN Fail("ErrMalformed", h.next)
                ELSE Yield(NoString, h.next, stack)

\* Mutant: a simple value below 32 may come in two bytes.
SimpleAllowedLax ==
  IF op = "json" THEN h.ai \in 20 .. 23 \cup 25 .. 27 ELSE h.ai # 31

\* Mutant: DecodeJSON takes every other simple value for null.
SimpleAllowedNull == op = "json" \/ (h.ai # 31 /\ ~(h.ai = 24 /\ h.arg < 32))

SimpleAllowed ==
  IF op = "json"
    THEN h.ai \in 20 .. 23 \cup 25 .. 27
    ELSE h.ai # 31 /\ ~(h.ai = 24 /\ h.arg < 32)

Simple ==
  /\ Admitted
  /\ ~AtJsonKey
  /\ h.mt = mtSimple
  /\ IF SimpleAllowed THEN Yield(NoString, h.next, stack)
                      ELSE Fail("ErrMalformed", h.next)

\* Mutant: a verdict that errors.Is finds in no class.
ChunkErrorUnclassed ==
  IF h.arg > MaxStringBytes THEN "ErrTooLarge"
  ELSE IF h.next + h.arg > Len(b) THEN "io.ErrUnexpectedEOF"
  ELSE "nil"

\* Mutant: a chunk that reaches beyond the input is called malformed.
ChunkErrorMalformed ==
  IF h.arg > MaxStringBytes THEN "ErrTooLarge"
  ELSE IF h.next + h.arg > Len(b) THEN "ErrMalformed"
  ELSE "nil"

\* chunk(arg) after a head that ends at h.next: the claim is checked against
\* the limit and against the input before a byte of it is touched.
ChunkError ==
  IF h.arg > MaxStringBytes THEN "ErrTooLarge"
  ELSE IF h.next + h.arg > Len(b) THEN "ErrTruncated"
  ELSE "nil"

ChunkBytes == SubSeq(b, h.next + 1, h.next + h.arg)

\* Mutant: an empty chunk is passed over without moving the cursor.
ChunkEndStuck == IF h.arg = 0 THEN i ELSE h.next + h.arg

ChunkEnd == h.next + h.arg

DefiniteString ==
  /\ Admitted
  /\ h.mt \in {mtBytes, mtText}
  /\ ~h.indef
  /\ IF ChunkError # "nil" THEN Fail(ChunkError, h.next)
     ELSE IF InvalidText(StringKind(h.mt), ChunkBytes)
       THEN Fail("ErrMalformed", ChunkEnd)
       ELSE Yield(String(StringKind(h.mt), ChunkBytes), ChunkEnd, stack)

OpenString ==
  /\ Admitted
  /\ h.mt \in {mtBytes, mtText}
  /\ h.indef
  /\ IF CallDepth < 0
       THEN Fail("ErrDepth", h.next)
       ELSE Push(Frame(StringKind(h.mt), CallDepth, TRUE, 0), "chunk")

CountLimit == IF h.mt = mtArray THEN MaxArrayElements ELSE MaxMapPairs

\* Mutant: an array's claim is held against half of the input.
PerElementTwo == 2

PerElement == IF h.mt = mtArray THEN 1 ELSE 2

\* Mutant: a pair is taken to need one byte.
CountErrorOneByte ==
  IF h.indef THEN "nil"
  ELSE IF h.arg > CountLimit THEN "ErrTooLarge"
  ELSE IF h.arg > Len(b) - h.next THEN "ErrTruncated"
  ELSE "nil"

\* A declared count is checked before anything is sized from it.
CountError ==
  IF h.indef THEN "nil"
  ELSE IF h.arg > CountLimit THEN "ErrTooLarge"
  ELSE IF h.arg > (Len(b) - h.next) \div PerElement THEN "ErrTruncated"
  ELSE "nil"

OpenContainer ==
  /\ Admitted
  /\ ~AtJsonKey
  /\ h.mt \in {mtArray, mtMap}
  /\ IF CountError # "nil"
       THEN Fail(CountError, h.next)
       ELSE Push(Frame(IF h.mt = mtArray THEN "array" ELSE "map",
                       CallDepth, h.indef, PerElement * h.arg), "loop")

\* A tag as a key of a JSON map is dropped by jsonPair, which reads on at the
\* depth a key has; every other tag reads on one level deeper.
OpenTag ==
  /\ Admitted
  /\ h.mt = mtTag
  /\ IF h.indef THEN Fail("ErrMalformed", h.next)
     ELSE Push(IF AtJsonKey THEN Frame("keytag", Top.depth, FALSE, 0)
                            ELSE Frame("tag", CallDepth, FALSE, 0), "call")

-----------------------------------------------------------------------------
(***************************************************************************)
(* Chunks of an indefinite string, up to its break.                        *)
(***************************************************************************)
\* Mutant: the end of the input closes what is open.
AtBreakOrEnd == i >= Len(b) \/ b[i + 1] = Break

AtBreak == i < Len(b) /\ b[i + 1] = Break

Inside(where) ==
  /\ pc = where
  /\ UNCHANGED <<b, items, op, start>>

BadChunk ==
  /\ Inside("chunk")
  /\ ~AtBreak
  /\ \/ h.err # "nil" /\ Fail(h.err, h.next)
     \/ /\ h.err = "nil"
        /\ h.indef \/ h.mt \notin {mtBytes, mtText} \/ StringKind(h.mt) # Top.kind
        /\ Fail("ErrMalformed", h.next)

TakeChunk ==
  /\ Inside("chunk")
  /\ ~AtBreak
  /\ h.err = "nil"
  /\ ~h.indef
  /\ h.mt \in {mtBytes, mtText}
  /\ StringKind(h.mt) = Top.kind
  /\ IF ChunkError # "nil" THEN Fail(ChunkError, h.next)
     ELSE IF Len(Top.part) + h.arg > MaxStringBytes
       THEN Fail("ErrTooLarge", ChunkEnd)
       ELSE /\ stack' = [stack EXCEPT ![Len(stack)].part = @ \o ChunkBytes]
            /\ i' = ChunkEnd
            /\ UNCHANGED <<pc, ret, err>>

CloseString ==
  /\ Inside("chunk")
  /\ AtBreak
  /\ IF InvalidText(Top.kind, Top.part)
       THEN Fail("ErrMalformed", i + 1)
       ELSE Yield(String(Top.kind, Top.part), i + 1, Front(stack))

-----------------------------------------------------------------------------
(***************************************************************************)
(* The loop of a container: a value follows its key without looking for a  *)
(* break; otherwise a definite container stops at its count, an indefinite *)
(* one at the break.                                                       *)
(***************************************************************************)
CutContainer ==
  /\ Inside("loop")
  /\ Top.indef /\ ~MidPair(Top)
  /\ i >= Len(b)
  /\ Fail("ErrTruncated", i)

CloseContainer ==
  /\ Inside("loop")
  /\ \/ Top.indef /\ ~MidPair(Top) /\ AtBreak /\ Yield(NoString, i + 1, Front(stack))
     \/ ~Top.indef /\ Top.got = Top.want /\ Yield(NoString, i, Front(stack))

NextItem ==
  /\ Inside("loop")
  /\ IF Top.indef THEN MidPair(Top) \/ (i < Len(b) /\ ~AtBreak)
                  ELSE Top.got < Top.want
  /\ pc' = "call"
  /\ UNCHANGED <<i, stack, ret, err>>

-----------------------------------------------------------------------------
(***************************************************************************)
(* A call returns into the frame that made it.                             *)
(***************************************************************************)
ThroughTag ==
  /\ Inside("return")
  /\ stack # <<>>
  /\ Top.kind \in {"tag", "keytag"}
  /\ IF Top.kind = "keytag" /\ ret.t # "text"
       THEN Fail("ErrMalformed", i)
       ELSE Yield(ret, i, Front(stack))

\* Mutant: one element or pair more than the cap.
OverCapOneMore(f) ==
  /\ f.indef
  /\ \/ f.kind = "array" /\ op \in {"decode", "json"} /\ f.got > MaxArrayElements
     \/ MidPair(f) /\ op = "decode" /\ f.got \div 2 > MaxMapPairs
     \/ MidPair(f) /\ op = "json" /\ Cardinality(f.keys) >= MaxMapPairs

\* The caps of an indefinite container, checked once the element is built.
\* The framing walk has none; json counts the keys its Go map now holds.
OverCap(f) ==
  /\ f.indef
  /\ \/ f.kind = "array" /\ op \in {"decode", "json"} /\ f.got >= MaxArrayElements
     \/ MidPair(f) /\ op = "decode" /\ f.got \div 2 >= MaxMapPairs
     \/ MidPair(f) /\ op = "json" /\ Cardinality(f.keys) >= MaxMapPairs

NewKeys == IF AtJsonKey THEN {ret.s} ELSE {}

IntoContainer ==
  /\ Inside("return")
  /\ stack # <<>>
  /\ Top.kind \in {"array", "map"}
  /\ IF OverCap(Top) THEN Fail("ErrTooLarge", i)
     ELSE /\ stack' = [stack EXCEPT ![Len(stack)].got = @ + 1,
                                    ![Len(stack)].keys = @ \cup NewKeys]
          /\ pc' = "loop"
          /\ ret' = NoString
          /\ UNCHANGED <<i, err>>

Finish ==
  /\ Inside("return")
  /\ stack = <<>>
  /\ pc' = "done"
  /\ err' = "nil"
  /\ UNCHANGED <<i, stack, ret>>

\* The caller reads the item after this one with the same Decoder.
Again ==
  /\ pc = "done"
  /\ err = "nil"
  /\ i < Len(b)
  /\ op' \in Ops
  /\ start' = i
  /\ pc' = "call"
  /\ ret' = NoString
  /\ UNCHANGED <<b, i, items, stack, err>>

-----------------------------------------------------------------------------
Init ==
  /\ b \in Inputs
  /\ i = 0
  /\ items = 0
  /\ op \in Ops
  /\ start = 0
  /\ pc = "call"
  /\ stack = <<>>
  /\ ret = NoString
  /\ err = "nil"

Step ==
  \/ TooDeep \/ OverBudget \/ BadHead
  \/ KeyNotString \/ Integer \/ Simple
  \/ DefiniteString \/ OpenString \/ OpenContainer \/ OpenTag
  \/ BadChunk \/ TakeChunk \/ CloseString
  \/ CutContainer \/ CloseContainer \/ NextItem
  \/ ThroughTag \/ IntoContainer \/ Finish

Next == Step \/ Again

Spec == Init /\ [][Next]_vars

-----------------------------------------------------------------------------
\* Every variable has its type.
TypeOK ==
  /\ b \in Seq(Byte)
  /\ i \in Nat
  /\ items \in Nat
  /\ op \in Ops
  /\ start \in Nat
  /\ pc \in {"call", "chunk", "loop", "return", "done"}
  /\ stack \in Seq(Frames)
  /\ ret \in [t : {"other", "bytes", "text"}, s : Seq(Byte)]
  /\ err \in Verdicts

\* The cursor never passes the end of the buffer, whatever length a head
\* claims, so that no slice expression of the walk can panic (head, chunk).
CursorInBounds == start <= i /\ i <= Len(b)

\* MaxTotalItems is a budget for the Decoder (count): no walk goes on, or
\* ends well, beyond it, and every item counted had a byte of its own to
\* pay for it, except the one a failure was found at.
BudgetKept ==
  /\ items > MaxTotalItems => err = "ErrTooLarge" /\ items = MaxTotalItems + 1
  /\ items <= i + (IF err = "nil" THEN 0 ELSE 1)

\* MaxDepth bounds the recursion and with it the goroutine's stack.  A call
\* takes a level of its own, except the one jsonPair makes for a tagged key:
\* under DecodeJSON two calls may share a level.
RecursionBounded ==
  /\ Len(stack) <= (IF op = "json" THEN 2 ELSE 1) * (MaxDepth + 1)
  /\ op # "json" =>
       \A k \in 1 .. Len(stack) : stack[k].depth = MaxDepth - (k - 1)

\* make([]T, 0, arg) reserves no more elements than the input has bytes left
\* behind the head that claims them (array, mapValue): while nothing of the
\* container is read the cursor still stands there.  Later the cursor has moved
\* on; what stays true of every container open is that its claim is below the
\* bytes of the item, less one for each head it is nested in.  Claims do add up
\* over the levels of a nesting: RecursionBounded caps how many there are.
PresizeBounded ==
  /\ pc \in {"call", "loop"} /\ stack # <<>> /\ Top.got = 0 =>
       Top.want <= Len(b) - i
  /\ \A k \in 1 .. Len(stack) : start + k + stack[k].want <= Len(b)

\* Steps a call can still take before its next byte is read or its caller is
\* reached, by where it stands.
StepsLeft == [done |-> 0, call |-> 1, chunk |-> 1, loop |-> 2, return |-> 3]

\* A bound on the steps the method running can still take.
Work == 4 * (Len(b) - i) + 2 * Len(stack) + StepsLeft[pc]

\* Every step of a method gets it nearer its end: no round of a loop without a
\* count, no run of tags, empty chunks or breaks leaves the walk where it was,
\* and a method returns within 4 * Len(b) + 1 steps, whatever the heads claim
\* (the loops of array, mapValue, chunks and their copies in skip and json).
Progress == [][pc # "done" => Work' \in 0 .. Work - 1]_vars
=============================================================================
