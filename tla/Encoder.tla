------------------------------ MODULE Encoder -------------------------------
(***************************************************************************)
(* The forward-append encoder (internal/codec/encoder.go): a byte buffer,  *)
(* a stack of open containers and a sticky error.  One action per public   *)
(* operation; a refused operation only records its error.                  *)
(***************************************************************************)
EXTENDS Cbor, Floats, KeyOrder

CONSTANTS
  Scalars,        \* encodings of integers and simple values to write
  Reals,          \* floats to write, as [kind, num]
  Contents,       \* contents of strings and chunks
  Counts,         \* counts for StartArray and StartMap
  Tags,           \* tag numbers
  MaxBytes,       \* BOUND: nothing is written to a buffer this long
  SkipStrictAll(_) \* SkipStrict accepts item after item to the buffer's end

\* An integer or a simple value has a head, and a float an initial byte.
ASSUME ContentsAssumption ==
  /\ Scalars \subseteq Seq(Byte) \ {<<>>}
  /\ Contents \subseteq Seq(Byte)
ASSUME RealsAssumption ==
  \A f \in Reals :
    /\ FloatBytes(f) \in Seq(Byte) \ {<<>>}
    /\ FloatBytes(Shortest(f.kind, f.num)) \in Seq(Byte) \ {<<>>}
    /\ f.kind = "float64" => FloatBytes(Narrowed64(f.num)) \in Seq(Byte) \ {<<>>}
ASSUME CountsAssumption ==
  /\ MaxBytes \in Nat
  /\ Counts \subseteq 0 .. Word - 1 /\ Tags \subseteq Nat

Modes == {"Adapter", "CoreDeterministic", "LengthFirst"}

VARIABLES
  buf,    \* Encoder.buf
  stack,  \* Encoder.stack, innermost last
  err,    \* Encoder.err
  mode    \* Encoder.mode

vars == <<buf, stack, err, mode>>

Frames == [major : 0 .. 7, indef : BOOLEAN, want : Nat, got : Nat, marks : Seq(Nat)]

Errors == {"nil", "ErrContainerMismatch", "ErrCountOverrun", "ErrNotWellFormed"}

Frame(major, indef, want) ==
  [major |-> major, indef |-> indef, want |-> want, got |-> 0, marks |-> <<>>]

deterministic == mode # "Adapter"

Open == stack # <<>>
Top == Last(stack)
IsString(f) == f.major \in {mtBytes, mtText}

\* Mutant: one tag is popped, though others may end with it.
PopOneTag(s) == IF s # <<>> /\ Last(s).major = mtTag THEN Front(s) ELSE s

\* popTag(): the pseudo-frames of the tags whose content is now written.
PopTags(s) ==
  LET untagged == {k \in 1 .. Len(s) : s[k].major # mtTag}
  IN  SubSeq(s, 1, IF untagged = {} THEN 0 ELSE CHOOSE k \in untagged :
                                            \A j \in untagged : j <= k)

-----------------------------------------------------------------------------
(***************************************************************************)
(* item(): every item is counted against the innermost container.  Inside  *)
(* an open string nothing is, and nothing is refused.                      *)
(***************************************************************************)
\* Mutant: the encoder borrows the decoder's verdict.
ItemErrorDecoders ==
  IF err # "nil" THEN err
  ELSE IF Open /\ ~IsString(Top) /\ ~Top.indef /\ Top.got >= Top.want
    THEN "ErrTooLarge" ELSE "nil"

ItemError ==
  IF err # "nil" THEN err
  ELSE IF Open /\ ~IsString(Top) /\ ~Top.indef /\ Top.got >= Top.want
    THEN "ErrCountOverrun" ELSE "nil"

Counted ==
  IF ~Open \/ IsString(Top) THEN stack
  ELSE [stack EXCEPT
         ![Len(stack)].got = @ + 1,
         ![Len(stack)].marks = IF Top.major = mtMap /\ deterministic
                                 THEN Append(@, Len(buf)) ELSE @]

Refuse(e) ==
  /\ err' = e
  /\ UNCHANGED <<buf, stack>>

\* Mutant: an item is written and then judged.
WholeAnyway(bytes) ==
  /\ buf' = buf \o bytes
  /\ IF ItemError # "nil" THEN err' = ItemError /\ UNCHANGED stack
     ELSE stack' = PopTags(Counted) /\ UNCHANGED err

\* An item that is whole once its bytes are written.
Whole(bytes) ==
  IF ItemError # "nil" THEN Refuse(ItemError)
  ELSE /\ buf' = buf \o bytes
       /\ stack' = PopTags(Counted)
       /\ UNCHANGED err

\* An item that goes on in a frame of its own.
Opening(bytes, f) ==
  IF ItemError # "nil" THEN Refuse(ItemError)
  ELSE /\ buf' = buf \o bytes
       /\ stack' = Append(Counted, f)
       /\ UNCHANGED err

Fits == Len(buf) < MaxBytes

WriteScalar(s) == Fits /\ Whole(s)

\* WriteFloat16Bits, WriteFloat32Bits and WriteFloat64Bits keep the width, except
\* in a deterministic mode (writeShortestFloat).
WriteFloatBits(f) ==
  Fits /\ Whole(FloatBytes(IF deterministic THEN Shortest(f.kind, f.num) ELSE f))

WriteFloat64(bits) ==
  Fits /\ Whole(FloatBytes(IF deterministic THEN Shortest("float64", bits)
                                            ELSE Narrowed64(bits)))

WriteBytes(c) == Fits /\ Whole(HeadBytes(mtBytes, Len(c)) \o c)

\* The content is judged before the sticky error is looked at.
WriteText(c) ==
  /\ Fits
  /\ IF ~ValidUTF8(c) THEN Refuse("ErrNotWellFormed")
     ELSE Whole(HeadBytes(mtText, Len(c)) \o c)

\* WriteSimple(24..31)
WriteReserved == Refuse("ErrNotWellFormed")

WriteTag(n) == Fits /\ Opening(HeadBytes(mtTag, n), Frame(mtTag, FALSE, 1))

StartArray(n) == Fits /\ Opening(HeadBytes(mtArray, n), Frame(mtArray, FALSE, n))

\* want: 2 * n, in a uint64.
StartMap(n) ==
  Fits /\ Opening(HeadBytes(mtMap, n), Frame(mtMap, FALSE, (2 * n) % Word))

StartIndefinite(major) ==
  Fits /\ Opening(<<32 * major + 31>>, Frame(major, TRUE, 0))

\* Mutant: a chunk is written whatever happened before.
WriteChunkUnchecked(c) ==
  /\ Fits
  /\ IF ~(Open /\ Top.indef /\ IsString(Top)) THEN Refuse("ErrContainerMismatch")
     ELSE /\ buf' = buf \o HeadBytes(Top.major, Len(c)) \o c
          /\ stack' = [stack EXCEPT ![Len(stack)].got = @ + 1]
          /\ UNCHANGED err

WriteChunk(c) ==
  /\ Fits
  /\ IF err # "nil" THEN Refuse(err)
     ELSE IF ~(Open /\ Top.indef /\ IsString(Top)) THEN Refuse("ErrContainerMismatch")
     ELSE /\ buf' = buf \o HeadBytes(Top.major, Len(c)) \o c
          /\ stack' = [stack EXCEPT ![Len(stack)].got = @ + 1]
          /\ UNCHANGED err

-----------------------------------------------------------------------------
(***************************************************************************)
(* sortPairs: the encoded pairs of a map, from the marks of its items, in  *)
(* the stable order of their encoded keys.                                 *)
(***************************************************************************)
PairOf(f, k) ==
  [key   |-> SubSeq(buf, f.marks[2 * k - 1] + 1, f.marks[2 * k]),
   whole |-> SubSeq(buf, f.marks[2 * k - 1] + 1,
                    IF 2 * k < Len(f.marks) THEN f.marks[2 * k + 1] ELSE Len(buf))]

SortError(f) ==
  IF Len(f.marks) >= 4 /\ Len(f.marks) % 2 = 1 THEN "ErrCountOverrun" ELSE "nil"

\* Mode.order()
KeyRule == IF mode = "LengthFirst" THEN "LengthFirst" ELSE "CoreDeterministic"

\* Mutant: the sorted pairs go to the start of the buffer.
SortedToStart(f) ==
  IF Len(f.marks) < 4 THEN buf
  ELSE LET n == Len(f.marks) \div 2
           pairs == [k \in 1 .. n |-> PairOf(f, k)]
           order == SortedPositions(KeyRule, [k \in 1 .. n |-> pairs[k].key])
       IN  FlattenSeq([r \in 1 .. n |-> pairs[order[r]].whole])

Sorted(f) ==
  IF Len(f.marks) < 4 THEN buf
  ELSE LET n == Len(f.marks) \div 2
           pairs == [k \in 1 .. n |-> PairOf(f, k)]
           order == SortedPositions(KeyRule, [k \in 1 .. n |-> pairs[k].key])
       IN  SubSeq(buf, 1, f.marks[1])
             \o FlattenSeq([r \in 1 .. n |-> pairs[order[r]].whole])

\* Mutant: an indefinite frame ends without a break.
ClosedUnbroken(f) == IF f.major = mtMap /\ deterministic THEN Sorted(f) ELSE buf

\* What end() leaves in the buffer for the frame it closes.
Closed(f) ==
  (IF f.major = mtMap /\ deterministic THEN Sorted(f) ELSE buf)
    \o (IF f.indef THEN <<Break>> ELSE <<>>)

End(major) ==
  IF err # "nil" THEN Refuse(err)
  ELSE IF ~Open \/ Top.major # major THEN Refuse("ErrContainerMismatch")
  ELSE IF ~Top.indef /\ Top.got # Top.want THEN Refuse("ErrCountOverrun")
  ELSE IF major = mtMap /\ deterministic /\ SortError(Top) # "nil"
    THEN /\ err' = SortError(Top)
         /\ stack' = Front(stack)
         /\ UNCHANGED buf
  ELSE /\ buf' = Closed(Top)
       /\ IF major = mtText /\ Top.indef /\ ~SkipStrictAll(Closed(Top))
            THEN err' = "ErrNotWellFormed" /\ stack' = Front(stack)
            ELSE stack' = PopTags(Front(stack)) /\ UNCHANGED err

\* Mutant: the containers stay open.
ResetBuffer ==
  /\ buf' = <<>>
  /\ UNCHANGED stack
  /\ err' = "nil"

Reset ==
  /\ buf' = <<>>
  /\ stack' = <<>>
  /\ err' = "nil"

SetMode(m) ==
  /\ mode' = m
  /\ UNCHANGED <<buf, stack, err>>

-----------------------------------------------------------------------------
Init ==
  /\ buf = <<>>
  /\ stack = <<>>
  /\ err = "nil"
  /\ mode = "Adapter"

Writing ==
  \/ \E s \in Scalars : WriteScalar(s)
  \/ \E f \in Reals : WriteFloatBits(f) \/ (f.kind = "float64" /\ WriteFloat64(f.num))
  \/ \E c \in Contents : WriteBytes(c) \/ WriteText(c) \/ WriteChunk(c)
  \/ WriteReserved
  \/ \E n \in Tags : WriteTag(n)
  \/ \E n \in Counts : StartArray(n) \/ StartMap(n)
  \/ \E major \in {mtBytes, mtText, mtArray, mtMap} : StartIndefinite(major) \/ End(major)
  \/ Reset

Next ==
  \/ Writing /\ UNCHANGED mode
  \/ \E m \in Modes : SetMode(m)

Spec == Init /\ [][Next]_vars

-----------------------------------------------------------------------------
\* Every variable has its type.
TypeOK ==
  /\ buf \in Seq(Byte)
  /\ stack \in Seq(Frames)
  /\ err \in Errors
  /\ mode \in Modes

\* The offsets sortPairs slices with ascend, from the outermost open map to the
\* innermost, and each has its item behind it in the buffer: whatever was called
\* before, in whichever modes, no slice is out of range and no key is empty.
MarksInBuffer ==
  \A l \in 1 .. Len(stack) : \A n \in 1 .. Len(stack[l].marks) :
    /\ stack[l].marks[n] < Len(buf)
    /\ \A k \in 1 .. l : \A m \in 1 .. Len(stack[k].marks) :
         k < l \/ m < n => stack[k].marks[m] < stack[l].marks[n]

\* The counts stay true, through tags, errors and items written inside an open
\* string: no open container or tag ever holds more items than its head
\* announced, and a tag stays open only as long as its content is being written,
\* however deep the tags around it (item, popTag, end).
Accounted ==
  err = "nil" => \A k \in 1 .. Len(stack) :
    LET f == stack[k]
    IN  /\ ~f.indef => f.got <= f.want
        /\ f.major = mtTag => f.got = IF k = Len(stack) THEN 0 ELSE 1

\* What an open map has noted stays true until it is closed: no operation, the
\* sort of a map within one of its items included, moves or changes a byte in
\* front of an offset noted, or the offset (sortPairs, item).
NotedStays ==
  [][\A k \in 1 .. Len(stack) : k <= Len(stack') =>
       \A m \in 1 .. Len(stack[k].marks) :
         /\ m <= Len(stack'[k].marks)
         /\ stack'[k].marks[m] = stack[k].marks[m]
         /\ SubSeq(buf', 1, stack[k].marks[m]) = SubSeq(buf, 1, stack[k].marks[m])]_vars

\* A misuse is caught where it is made: what it would have written is not in
\* the buffer (encoder.go:14 "are all refused before a byte is written").
RefusedBeforeWriting ==
  [][err' \in {"ErrContainerMismatch", "ErrCountOverrun"} => buf' = buf]_vars

\* The error is sticky through every operation, though some look at it after
\* other checks and two of them replace it (WriteText, WriteSimple): after a
\* refusal nothing is written until Reset, and Reset alone clears it.
Poisoned ==
  [][err # "nil" => \/ buf' = buf /\ err' # "nil"
                    \/ Reset]_vars
=============================================================================
