---------------------------- MODULE ParityProofs ----------------------------
(***************************************************************************)
(* What two walks have in common, for all buffers, all limits and every    *)
(* pair of methods that promise something about each other.                *)
(***************************************************************************)
EXTENDS Parity, CborProofs, SequenceTheorems

Strings == [t : L!Kinds \cup {"other"}, s : Seq(Byte)]

\* The left walk has ended badly.
LFailed == lpc = "done" /\ lerr # "nil"

\* What the left walk keeps is of its type; the right one keeps the same.
LSound ==
  /\ lb \in Seq(Byte)
  /\ li \in Nat /\ li <= Len(lb)
  /\ litems \in Nat
  /\ lstack \in Seq(L!Frames)
  /\ lret \in Strings
  /\ lpc \in {"chunk", "loop"} => lstack # <<>>
  /\ lpc # "done" => lerr = "nil"

\* Two methods read one buffer, or one method a buffer and the whole of it.
Paired ==
  /\ rb \in Seq(Byte)
  /\ Len(lb) <= Len(rb) /\ \A k \in 1 .. Len(lb) : lb[k] = rb[k]
  /\ lop # rop => lb = rb
  /\ lop \in Ops /\ rop \in Ops
  /\ rop = "json" => lop = "json"

\* DecodeJSON next to another method, which takes a level for a tagged key.
Loose == lop = "json" /\ rop # "json"

Like(f, g) ==
  /\ g.indef = f.indef /\ g.want = f.want /\ g.got = f.got /\ g.part = f.part
  /\ g.kind = IF f.kind = "keytag" THEN "tag" ELSE f.kind
  /\ g.depth <= f.depth

Alike ==
  /\ rstack \in Seq(L!Frames)
  /\ Len(rstack) = Len(lstack)
  /\ \A k \in 1 .. Len(lstack) : Like(lstack[k], rstack[k])

\* Both walks have read the same, and stand at the same place of the code.
Joined ==
  /\ rpc = lpc /\ ri = li /\ ritems = litems /\ rerr = lerr
  /\ IF Loose THEN Alike ELSE rstack = lstack /\ rret = lret

\* The right walk has ended with a verdict the two are known to differ in.
Excusing ==
  /\ rpc = "done"
  /\ <<lop, rop>> \notin Narrower
  /\ rerr \in Excused(lop, rop)

Shared ==
  \/ Joined
  \/ LFailed /\ (lop # rop \/ lerr = "ErrTruncated")
  \/ Excusing

PInv == LSound /\ Paired /\ Shared

-----------------------------------------------------------------------------
\* Both instances of Walk read heads and check text with the operators of Cbor.
LEMMA LeftReads ==
  ASSUME NEW s, NEW j
  PROVE  /\ L!HeadAt(s, j) = HeadAt(s, j)
         /\ L!ValidUTF8(s) <=> ValidUTF8(s)
<1>1. L!HeadAt(s, j) = HeadAt(s, j)
  BY DEF L!HeadAt, L!RefusedHead, L!ReadHead, L!ArgWidth, L!Argument, L!FromEnd, L!ArgMax,
         HeadAt, RefusedHead, ReadHead, ArgWidth, Argument, FromEnd, ArgMax
<1>2. L!ValidUTF8(s) <=> ValidUTF8(s)
  BY DEF L!ValidUTF8, L!Continuation, L!RuneLen, L!BadSecond,
         ValidUTF8, Continuation, RuneLen, BadSecond
<1> QED BY <1>1, <1>2

LEMMA RightReads ==
  ASSUME NEW s, NEW j
  PROVE  /\ R!HeadAt(s, j) = HeadAt(s, j)
         /\ R!ValidUTF8(s) <=> ValidUTF8(s)
<1>1. R!HeadAt(s, j) = HeadAt(s, j)
  BY DEF R!HeadAt, R!RefusedHead, R!ReadHead, R!ArgWidth, R!Argument, R!FromEnd, R!ArgMax,
         HeadAt, RefusedHead, ReadHead, ArgWidth, Argument, FromEnd, ArgMax
<1>2. R!ValidUTF8(s) <=> ValidUTF8(s)
  BY DEF R!ValidUTF8, R!Continuation, R!RuneLen, R!BadSecond,
         ValidUTF8, Continuation, RuneLen, BadSecond
<1> QED BY <1>1, <1>2

\* What lies in the beginning of a buffer is the same in the whole of it.
LEMMA PartOfPrefix ==
  ASSUME NEW s \in Seq(Byte), NEW t \in Seq(Byte), NEW m \in Nat \ {0}, NEW n \in Nat,
         Len(s) <= Len(t), \A k \in 1 .. Len(s) : s[k] = t[k], n <= Len(s)
  PROVE  SubSeq(s, m, n) = SubSeq(t, m, n)
<1>1. CASE n < m
  <2>1. SubSeq(s, m, n) = <<>> /\ SubSeq(t, m, n) = <<>>
    BY <1>1, SubSeqEmpty
  <2> QED BY <2>1
<1>2. CASE m <= n
  <2>1. \A k \in m .. n : s[k] \in Byte /\ t[k] = s[k] /\ t[k] \in Byte
    BY <1>2
  <2>2. /\ SubSeq(s, m, n) \in Seq(Byte) /\ Len(SubSeq(s, m, n)) = n - m + 1
        /\ \A k \in 1 .. n - m + 1 : SubSeq(s, m, n)[k] = s[m + k - 1]
    BY <1>2, <2>1, SubSeqProperties
  <2>3. /\ SubSeq(t, m, n) \in Seq(Byte) /\ Len(SubSeq(t, m, n)) = n - m + 1
        /\ \A k \in 1 .. n - m + 1 : SubSeq(t, m, n)[k] = t[m + k - 1]
    BY <1>2, <2>1, SubSeqProperties
  <2>4. \A k \in 1 .. n - m + 1 : m + k - 1 \in m .. n
    BY <1>2
  <2>5. \A k \in 1 .. n - m + 1 : SubSeq(s, m, n)[k] = SubSeq(t, m, n)[k]
    BY <2>1, <2>2, <2>3, <2>4
  <2> QED BY <2>2, <2>3, <2>5, SeqEqual
<1> QED BY <1>1, <1>2

\* A head that is whole is the same head in more of the buffer, and so is one
\* that no bytes can mend.
LEMMA HeadOfPrefix ==
  ASSUME NEW s \in Seq(Byte), NEW t \in Seq(Byte), NEW j \in Nat,
         Len(s) <= Len(t), \A k \in 1 .. Len(s) : s[k] = t[k],
         HeadAt(s, j).err # "ErrTruncated"
  PROVE  HeadAt(t, j) = HeadAt(s, j)
<1> DEFINE c == s[j + 1]
           end == j + 1 + ArgWidth(c % 32)
<1>1. j < Len(s)
  BY DEF HeadAt, RefusedHead
<1>2. c \in Byte /\ t[j + 1] = c /\ j < Len(t)
  BY <1>1
<1>3. CASE c % 32 \in 28 .. 30
  BY <1>1, <1>2, <1>3 DEF HeadAt
<1>4. CASE c % 32 \notin 28 .. 30
  <2>1. end \in Nat /\ j + 1 <= end
    BY <1>2, InitialByte
  <2>2. ~(end > Len(s))
    BY <1>1, <1>2, <1>4 DEF HeadAt, RefusedHead
  <2>3. end <= Len(s) /\ end <= Len(t)
    BY <2>1, <2>2
  <2>4. /\ HeadAt(s, j) = ReadHead(c, SubSeq(s, j + 2, end), end)
        /\ HeadAt(t, j) = ReadHead(c, SubSeq(t, j + 2, end), end)
    BY <1>1, <1>2, <1>4, <2>1, <2>3 DEF HeadAt
  <2> DEFINE m == j + 2
  <2>5. m \in Nat \ {0}
    OBVIOUS
  <2> HIDE DEF end, m
  <2>6. SubSeq(s, m, end) = SubSeq(t, m, end)
    BY <2>1, <2>3, <2>5, PartOfPrefix
  <2> QED BY <2>4, <2>6 DEF m
<1> QED BY <1>3, <1>4

-----------------------------------------------------------------------------
\* What the two walks see where they stand together.
LEMMA SameHead ==
  ASSUME LSound, Paired, Joined
  PROVE  /\ HeadOK(L!h, li, Len(lb))
         /\ L!h.err # "ErrTruncated" \/ lop # rop => R!h = L!h
<1>1. ri = li /\ li \in Nat /\ li <= Len(lb) /\ lb \in Seq(Byte) /\ rb \in Seq(Byte)
  BY DEF LSound, Paired, Joined
<1>2. L!h = HeadAt(lb, li) /\ R!h = HeadAt(rb, li)
  BY <1>1, LeftReads, RightReads DEF L!h, R!h
<1>3. HeadOK(HeadAt(lb, li), li, Len(lb))
  BY <1>1, HeadType
<1>4. HeadAt(lb, li).err # "ErrTruncated" => HeadAt(rb, li) = HeadAt(lb, li)
  BY <1>1, HeadOfPrefix DEF Paired
<1>5. lop # rop => lb = rb
  BY DEF Paired
<1> QED BY <1>2, <1>3, <1>4, <1>5

\* The innermost calls of both walks.
LEMMA SameTop ==
  ASSUME LSound, Paired, Joined
  PROVE  /\ rstack = <<>> <=> lstack = <<>>
         /\ lstack # <<>> => /\ L!Top \in L!Frames /\ L!Top = lstack[Len(lstack)]
                             /\ R!Top \in L!Frames /\ R!Top = rstack[Len(rstack)]
                             /\ IF Loose THEN Like(L!Top, R!Top) ELSE R!Top = L!Top
<1>1. lstack \in Seq(L!Frames)
  BY DEF LSound
<1>2. L!Top = lstack[Len(lstack)] /\ R!Top = rstack[Len(rstack)]
  BY DEF L!Top, R!Top, L!Last, R!Last
<1>3. CASE ~Loose
  <2>1. rstack = lstack
    BY <1>3 DEF Joined
  <2> QED BY <1>1, <1>2, <1>3, <2>1
<1>4. CASE Loose
  <2>1. rstack \in Seq(L!Frames) /\ Len(rstack) = Len(lstack)
    BY <1>4 DEF Joined, Alike
  <2>2. \A k \in 1 .. Len(lstack) : Like(lstack[k], rstack[k])
    BY <1>4 DEF Joined, Alike
  <2>3. lstack # <<>> => Len(lstack) \in 1 .. Len(lstack)
    BY <1>1
  <2> QED BY <1>1, <1>2, <1>4, <2>1, <2>2, <2>3
<1> QED BY <1>3, <1>4

\* The depth of the call both are about to make: under DecodeJSON one level
\* more may be left.
LEMMA SameCall ==
  ASSUME LSound, Paired, Joined
  PROVE  /\ L!CallDepth \in Int /\ R!CallDepth \in Int
         /\ R!CallDepth <= L!CallDepth
         /\ ~Loose => R!CallDepth = L!CallDepth /\ (R!AtJsonKey <=> L!AtJsonKey)
         /\ Loose => ~R!AtJsonKey
         /\ L!AtJsonKey => lstack # <<>> /\ L!Top.kind = "map" /\ lop = "json"
<1>1. CASE lstack = <<>>
  <2>1. rstack = <<>>
    BY <1>1, SameTop
  <2> QED BY <1>1, <2>1, LimitsAssumption
        DEF L!CallDepth, R!CallDepth, L!AtJsonKey, R!AtJsonKey
<1>2. CASE lstack # <<>>
  <2>1. /\ rstack # <<>> /\ L!Top.depth \in Int /\ R!Top.depth \in Int
        /\ R!Top.depth <= L!Top.depth
        /\ ~Loose => R!Top = L!Top
    BY <1>2, SameTop DEF L!Frames, Like
  <2>2. L!CallDepth = L!Top.depth - 1 /\ R!CallDepth = R!Top.depth - 1
    BY <1>2, <2>1 DEF L!CallDepth, R!CallDepth
  <2>3. Loose => lop = "json" /\ rop # "json"
    BY DEF Loose
  <2>4. ~Loose => (rop = "json" <=> lop = "json")
    BY DEF Loose, Paired
  <2>5. L!AtJsonKey <=> lop = "json" /\ L!Top.kind = "map" /\ L!Top.got % 2 = 0
    BY <1>2 DEF L!AtJsonKey, L!AtKey
  <2>6. R!AtJsonKey <=> rop = "json" /\ R!Top.kind = "map" /\ R!Top.got % 2 = 0
    BY <2>1 DEF R!AtJsonKey, R!AtKey
  <2> HIDE DEF Loose
  <2> QED BY <1>2, <2>1, <2>2, <2>3, <2>4, <2>5, <2>6
<1> QED BY <1>1, <1>2

-----------------------------------------------------------------------------
(***************************************************************************)
(* The left walk keeps to its types, whether the right one follows or not. *)
(***************************************************************************)
LEMMA LeftHead ==
  ASSUME LSound PROVE HeadOK(L!h, li, Len(lb)) /\ Len(lb) \in Nat
BY HeadType, LeftReads DEF LSound, L!h

LEMMA LeftTop ==
  ASSUME LSound, lstack # <<>>
  PROVE  L!Top \in L!Frames /\ L!Top = lstack[Len(lstack)]
BY DEF LSound, L!Top, L!Last

LEMMA LeftCallDepth ==
  ASSUME LSound PROVE L!CallDepth \in Int
<1>1. lstack # <<>> => L!Top.depth \in Int
  BY LeftTop DEF L!Frames
<1> QED BY <1>1, LimitsAssumption DEF L!CallDepth

LEMMA LeftFailSound ==
  ASSUME LSound, NEW e, NEW j \in Nat, j <= Len(lb),
         lb' = lb, litems' \in Nat, L!Fail(e, j)
  PROVE  LSound'
<1>1. L!NoString \in Strings
  BY DEF L!NoString, Strings
<1>2. /\ lpc' = "done" /\ li' = j /\ lstack' = <<>> /\ lret' = L!NoString
  BY DEF L!Fail
<1> QED BY <1>1, <1>2 DEF LSound

LEMMA LeftYieldSound ==
  ASSUME LSound, lpc # "done", NEW v \in Strings, NEW j \in Nat, j <= Len(lb),
         NEW rest, rest = lstack \/ (lstack # <<>> /\ rest = L!Front(lstack)),
         lb' = lb, litems' \in Nat, L!Yield(v, j, rest)
  PROVE  LSound'
<1>1. /\ lpc' = "return" /\ lerr' = lerr /\ li' = j /\ lstack' = rest /\ lret' = v
  BY DEF L!Yield
<1>2. lstack # <<>> => L!Front(lstack) \in Seq(L!Frames)
  BY FrontOf DEF LSound, L!Front, Front
<1> QED BY <1>1, <1>2 DEF LSound

LEMMA LeftPushSound ==
  ASSUME LSound, lpc # "done", NEW f \in L!Frames, NEW where \in {"call", "chunk", "loop"},
         lb' = lb, litems' \in Nat, L!Push(f, where)
  PROVE  LSound'
<1>1. /\ lpc' = where /\ lerr' = lerr /\ li' = L!h.next /\ lret' = lret
      /\ lstack' = Append(lstack, f)
  BY DEF L!Push
<1>2. Append(lstack, f) \in Seq(L!Frames) /\ Append(lstack, f) # <<>>
  BY DEF LSound
<1>3. L!h.next \in Nat /\ L!h.next <= Len(lb)
  BY LeftHead DEF HeadOK
<1> QED BY <1>1, <1>2, <1>3 DEF LSound

LEMMA LeftGrowSound ==
  ASSUME LSound, lpc # "done", lstack # <<>>, NEW f \in L!Frames,
         lstack' = [lstack EXCEPT ![Len(lstack)] = f],
         NEW j \in Nat, j <= Len(lb), li' = j,
         lb' = lb, litems' \in Nat, lerr' = lerr, lret' \in Strings
  PROVE  LSound'
<1>1. lstack' \in Seq(L!Frames) /\ lstack' # <<>>
  BY LastReplaced DEF LSound
<1> QED BY <1>1 DEF LSound

\* A chunk that is not refused lies inside the buffer.
LEMMA LeftChunk ==
  ASSUME LSound
  PROVE  /\ L!h.next \in Nat /\ L!h.next <= Len(lb) /\ li <= L!h.next /\ L!h.arg \in Nat
         /\ L!ChunkError = "nil" => /\ L!ChunkEnd \in Nat /\ L!ChunkEnd <= Len(lb)
                                   /\ L!ChunkBytes \in Seq(Byte)
<1>1. L!h.next \in Nat /\ L!h.arg \in Nat /\ li <= L!h.next /\ L!h.next <= Len(lb) /\ lb \in Seq(Byte)
  BY LeftHead DEF HeadOK, LSound
<1>2. L!ChunkError = "nil" => ~(L!h.next + L!h.arg > Len(lb))
  BY DEF L!ChunkError
<1>3. ASSUME L!ChunkError = "nil" PROVE L!ChunkBytes \in Seq(Byte)
  BY <1>1, <1>2, <1>3 DEF L!ChunkBytes
<1> QED BY <1>1, <1>2, <1>3 DEF L!ChunkEnd

LEMMA LeftStringType ==
  ASSUME NEW t \in L!Kinds, NEW s \in Seq(Byte)
  PROVE  L!String(t, s) \in Strings /\ L!NoString \in Strings
BY DEF L!String, L!NoString, Strings

LEMMA LeftItemSound ==
  ASSUME LSound, L!Admitted,
         \/ L!KeyNotString \/ L!Integer \/ L!Simple \/ L!DefiniteString
         \/ L!OpenString \/ L!OpenContainer \/ L!OpenTag
  PROVE  LSound'
<1>1. lpc # "done" /\ lb' = lb /\ litems' \in Nat
  BY DEF LSound, L!Admitted, L!Counted
<1>2. L!h.next \in Nat /\ L!h.next <= Len(lb) /\ L!NoString \in Strings
  BY LeftChunk DEF L!NoString, Strings
<1>3. CASE L!KeyNotString \/ L!Integer \/ L!Simple
  <2>1. \/ L!Fail("ErrMalformed", L!h.next)
        \/ L!Yield(L!NoString, L!h.next, lstack)
    BY <1>3 DEF L!KeyNotString, L!Integer, L!Simple
  <2> QED BY <1>1, <1>2, <2>1, LeftFailSound, LeftYieldSound
<1>4. CASE L!DefiniteString
  <2>1. CASE L!ChunkError # "nil"
    BY <1>1, <1>2, <1>4, <2>1, LeftFailSound DEF L!DefiniteString
  <2>2. CASE L!ChunkError = "nil"
    <3>1. L!StringKind(L!h.mt) \in L!Kinds
      BY DEF L!StringKind, L!Kinds
    <3>2. L!String(L!StringKind(L!h.mt), L!ChunkBytes) \in Strings
      BY <2>2, <3>1, LeftChunk, LeftStringType
    <3>3. \/ L!Fail("ErrMalformed", L!ChunkEnd)
          \/ L!Yield(L!String(L!StringKind(L!h.mt), L!ChunkBytes), L!ChunkEnd, lstack)
      BY <1>4, <2>2 DEF L!DefiniteString
    <3> QED BY <1>1, <2>2, <3>2, <3>3, LeftChunk, LeftFailSound, LeftYieldSound
  <2> QED BY <2>1, <2>2
<1>5. CASE L!OpenString \/ L!OpenContainer \/ L!OpenTag
  <2>1. ASSUME NEW kind \in L!Kinds, NEW depth \in Int, NEW indef \in BOOLEAN, NEW want \in Nat
        PROVE  L!Frame(kind, depth, indef, want) \in L!Frames
    BY DEF L!Frame, L!Frames
  <2>2. L!CallDepth \in Int
    BY LeftCallDepth
  <2>3. CASE L!OpenString
    <3>1. L!Frame(L!StringKind(L!h.mt), L!CallDepth, TRUE, 0) \in L!Frames
      BY <2>1, <2>2 DEF L!StringKind, L!Kinds
    <3>2. \/ L!Fail("ErrDepth", L!h.next)
          \/ L!Push(L!Frame(L!StringKind(L!h.mt), L!CallDepth, TRUE, 0), "chunk")
      BY <2>3 DEF L!OpenString
    <3> QED BY <1>1, <1>2, <3>1, <3>2, LeftFailSound, LeftPushSound
  <2>4. CASE L!OpenContainer
    <3>1. L!PerElement * L!h.arg \in Nat /\ L!h.indef \in BOOLEAN
      BY LeftHead DEF HeadOK, L!PerElement
    <3>2. (IF L!h.mt = L!mtArray THEN "array" ELSE "map") \in L!Kinds
      BY DEF L!Kinds
    <3> DEFINE f == L!Frame(IF L!h.mt = L!mtArray THEN "array" ELSE "map",
                            L!CallDepth, L!h.indef, L!PerElement * L!h.arg)
    <3>3. f \in L!Frames
      BY <2>1, <2>2, <3>1, <3>2
    <3>4. L!Fail(L!CountError, L!h.next) \/ L!Push(f, "loop")
      BY <2>4 DEF L!OpenContainer
    <3> HIDE DEF f
    <3> QED BY <1>1, <1>2, <3>3, <3>4, LeftFailSound, LeftPushSound
  <2>5. CASE L!OpenTag
    <3> DEFINE f == IF L!AtJsonKey THEN L!Frame("keytag", L!Top.depth, FALSE, 0)
                                   ELSE L!Frame("tag", L!CallDepth, FALSE, 0)
    <3>1. L!AtJsonKey => L!Top.depth \in Int
      BY LeftTop DEF L!AtJsonKey, L!Frames
    <3>2. f \in L!Frames
      BY <2>1, <2>2, <3>1 DEF L!Kinds
    <3>3. L!Fail("ErrMalformed", L!h.next) \/ L!Push(f, "call")
      BY <2>5 DEF L!OpenTag
    <3> HIDE DEF f
    <3> QED BY <1>1, <1>2, <3>2, <3>3, LeftFailSound, LeftPushSound
  <2> QED BY <1>5, <2>3, <2>4, <2>5
<1> QED BY <1>3, <1>4, <1>5

LEMMA LeftChunkSound ==
  ASSUME LSound, L!BadChunk \/ L!TakeChunk \/ L!CloseString
  PROVE  LSound'
<1>1. lpc = "chunk" /\ lb' = lb /\ litems' \in Nat /\ lstack # <<>>
  BY DEF LSound, L!BadChunk, L!TakeChunk, L!CloseString, L!Inside
<1>2. L!h.next \in Nat /\ L!h.next <= Len(lb) /\ L!Top \in L!Frames
  BY <1>1, LeftChunk, LeftTop
<1>3. CASE L!BadChunk
  <2>1. L!Fail(L!h.err, L!h.next) \/ L!Fail("ErrMalformed", L!h.next)
    BY <1>3 DEF L!BadChunk
  <2> QED BY <1>1, <1>2, <2>1, LeftFailSound
<1>4. CASE L!TakeChunk
  <2>1. CASE L!ChunkError # "nil"
    BY <1>1, <1>2, <1>4, <2>1, LeftFailSound DEF L!TakeChunk
  <2>2. CASE L!ChunkError = "nil" /\ L!Fail("ErrTooLarge", L!ChunkEnd)
    BY <1>1, <2>2, LeftChunk, LeftFailSound
  <2>3. CASE L!ChunkError = "nil" /\ ~L!Fail("ErrTooLarge", L!ChunkEnd)
    <3> DEFINE f == [L!Top EXCEPT !.part = @ \o L!ChunkBytes]
    <3>1. /\ lstack' = [lstack EXCEPT ![Len(lstack)].part = @ \o L!ChunkBytes]
          /\ li' = L!ChunkEnd
          /\ UNCHANGED <<lpc, lret, lerr>>
      BY <1>4, <2>3 DEF L!TakeChunk
    <3>2. L!Top.part \o L!ChunkBytes \in Seq(L!Byte)
      BY <1>2, <2>3, LeftChunk DEF L!Frames, L!Byte, Byte
    <3>3. f \in L!Frames
      BY <1>2, <3>2 DEF L!Frames
    <3>4. lstack' = [lstack EXCEPT ![Len(lstack)] = f]
      BY <1>1, <3>1, LeftTop
    <3>5. lret' \in Strings
      BY <3>1 DEF LSound
    <3> HIDE DEF f
    <3> QED BY <1>1, <2>3, <3>1, <3>3, <3>4, <3>5, LeftChunk, LeftGrowSound
  <2> QED BY <2>1, <2>2, <2>3
<1>5. CASE L!CloseString
  <2>1. li + 1 \in Nat /\ li + 1 <= Len(lb)
    BY <1>5 DEF L!CloseString, L!AtBreak, LSound
  <2>2. L!String(L!Top.kind, L!Top.part) \in Strings
    BY <1>2, LeftStringType DEF L!Frames, L!Byte, Byte
  <2>3. \/ L!Fail("ErrMalformed", li + 1)
        \/ L!Yield(L!String(L!Top.kind, L!Top.part), li + 1, L!Front(lstack))
    BY <1>5 DEF L!CloseString
  <2> QED BY <1>1, <2>1, <2>2, <2>3, LeftFailSound, LeftYieldSound
<1> QED BY <1>3, <1>4, <1>5

LEMMA LeftLoopSound ==
  ASSUME LSound, L!CutContainer \/ L!CloseContainer \/ L!NextItem
  PROVE  LSound'
<1>1. lpc = "loop" /\ lb' = lb /\ litems' \in Nat /\ lstack # <<>> /\ li \in Nat /\ li <= Len(lb)
  BY DEF LSound, L!CutContainer, L!CloseContainer, L!NextItem, L!Inside
<1>2. L!NoString \in Strings
  BY DEF L!NoString, Strings
<1>3. CASE L!CutContainer
  BY <1>1, <1>3, LeftFailSound DEF L!CutContainer
<1>4. CASE L!CloseContainer
  <2>1. \/ L!AtBreak /\ L!Yield(L!NoString, li + 1, L!Front(lstack))
        \/ L!Yield(L!NoString, li, L!Front(lstack))
    BY <1>4 DEF L!CloseContainer
  <2>2. L!AtBreak => li + 1 \in Nat /\ li + 1 <= Len(lb)
    BY <1>1 DEF L!AtBreak, LSound
  <2> QED BY <1>1, <1>2, <2>1, <2>2, LeftYieldSound
<1>5. CASE L!NextItem
  BY <1>1, <1>5 DEF L!NextItem, LSound
<1> QED BY <1>3, <1>4, <1>5

LEMMA LeftReturnSound ==
  ASSUME LSound, L!ThroughTag \/ L!IntoContainer \/ L!Finish
  PROVE  LSound'
<1>1. lpc = "return" /\ lb' = lb /\ litems' \in Nat /\ li \in Nat /\ li <= Len(lb)
  BY DEF LSound, L!ThroughTag, L!IntoContainer, L!Finish, L!Inside
<1>2. CASE L!ThroughTag
  <2>1. lstack # <<>> /\ (L!Fail("ErrMalformed", li) \/ L!Yield(lret, li, L!Front(lstack)))
    BY <1>2 DEF L!ThroughTag
  <2>2. lret \in Strings
    BY DEF LSound
  <2> QED BY <1>1, <2>1, <2>2, LeftFailSound, LeftYieldSound
<1>3. CASE L!IntoContainer
  <2>1. lstack # <<>> /\ L!Top \in L!Frames /\ L!Top = lstack[Len(lstack)]
    BY <1>3, LeftTop DEF L!IntoContainer
  <2>2. CASE L!Fail("ErrTooLarge", li)
    BY <1>1, <2>2, LeftFailSound
  <2>3. CASE ~L!Fail("ErrTooLarge", li)
    <3> DEFINE f == [L!Top EXCEPT !.got = @ + 1, !.keys = @ \cup L!NewKeys]
    <3>1. /\ lstack' = [lstack EXCEPT ![Len(lstack)].got = @ + 1,
                                      ![Len(lstack)].keys = @ \cup L!NewKeys]
          /\ lret' = L!NoString
          /\ UNCHANGED <<li, lerr>>
      BY <1>3, <2>3 DEF L!IntoContainer
    <3>2. L!NewKeys \in SUBSET Seq(L!Byte)
      BY DEF L!NewKeys, LSound, Strings, L!Byte, Byte
    <3>7. L!Top.got + 1 \in Nat /\ L!Top.keys \cup L!NewKeys \in SUBSET Seq(L!Byte)
      BY <2>1, <3>2 DEF L!Frames
    <3>3. f \in L!Frames
      BY <2>1, <3>7 DEF L!Frames
    <3>4. lstack \in Seq(L!Frames)
      BY DEF LSound
    <3>5. lstack' = [lstack EXCEPT ![Len(lstack)] = f]
      BY <2>1, <3>1, <3>4
    <3>6. L!NoString \in Strings
      BY DEF L!NoString, Strings
    <3> HIDE DEF f
    <3> QED BY <1>1, <2>1, <3>1, <3>3, <3>5, <3>6, LeftGrowSound
  <2> QED BY <2>2, <2>3
<1>4. CASE L!Finish
  BY <1>1, <1>4 DEF L!Finish, LSound
<1> QED BY <1>2, <1>3, <1>4

\* A step keeps the buffer and the method, and is a step of a walk not done.
LEMMA LeftStays ==
  ASSUME L!Step PROVE lpc # "done" /\ UNCHANGED <<lb, lop>>
BY DEF L!Step, L!TooDeep, L!OverBudget, L!BadHead, L!Counted, L!Admitted, L!Inside,
       L!KeyNotString, L!Integer, L!Simple, L!DefiniteString, L!OpenString,
       L!OpenContainer, L!OpenTag, L!BadChunk, L!TakeChunk, L!CloseString,
       L!CutContainer, L!CloseContainer, L!NextItem, L!ThroughTag, L!IntoContainer, L!Finish

LEMMA RightStays ==
  ASSUME R!Step PROVE rpc # "done" /\ UNCHANGED <<rb, rop>>
BY DEF R!Step, R!TooDeep, R!OverBudget, R!BadHead, R!Counted, R!Admitted, R!Inside,
       R!KeyNotString, R!Integer, R!Simple, R!DefiniteString, R!OpenString,
       R!OpenContainer, R!OpenTag, R!BadChunk, R!TakeChunk, R!CloseString,
       R!CutContainer, R!CloseContainer, R!NextItem, R!ThroughTag, R!IntoContainer, R!Finish

\* What a step can be, by where in the code it starts.
LEMMA LeftSteps ==
  ASSUME L!Step
  PROVE  /\ lpc = "call" => \/ L!TooDeep \/ L!OverBudget \/ L!BadHead
                            \/ /\ L!Admitted
                               /\ \/ L!KeyNotString \/ L!Integer \/ L!Simple
                                  \/ L!DefiniteString \/ L!OpenString
                                  \/ L!OpenContainer \/ L!OpenTag
         /\ lpc = "chunk" => L!BadChunk \/ L!TakeChunk \/ L!CloseString
         /\ lpc = "loop" => L!CutContainer \/ L!CloseContainer \/ L!NextItem
         /\ lpc = "return" => L!ThroughTag \/ L!IntoContainer \/ L!Finish
         /\ lpc \in {"call", "chunk", "loop", "return"}
BY DEF L!Step, L!TooDeep, L!OverBudget, L!BadHead, L!Counted, L!Admitted, L!Inside,
       L!KeyNotString, L!Integer, L!Simple, L!DefiniteString, L!OpenString,
       L!OpenContainer, L!OpenTag, L!BadChunk, L!TakeChunk, L!CloseString,
       L!CutContainer, L!CloseContainer, L!NextItem, L!ThroughTag, L!IntoContainer, L!Finish

LEMMA RightSteps ==
  ASSUME R!Step
  PROVE  /\ rpc = "call" => \/ R!TooDeep \/ R!OverBudget \/ R!BadHead
                            \/ /\ R!Admitted
                               /\ \/ R!KeyNotString \/ R!Integer \/ R!Simple
                                  \/ R!DefiniteString \/ R!OpenString
                                  \/ R!OpenContainer \/ R!OpenTag
         /\ rpc = "chunk" => R!BadChunk \/ R!TakeChunk \/ R!CloseString
         /\ rpc = "loop" => R!CutContainer \/ R!CloseContainer \/ R!NextItem
         /\ rpc = "return" => R!ThroughTag \/ R!IntoContainer \/ R!Finish
         /\ rpc \in {"call", "chunk", "loop", "return"}
BY DEF R!Step, R!TooDeep, R!OverBudget, R!BadHead, R!Counted, R!Admitted, R!Inside,
       R!KeyNotString, R!Integer, R!Simple, R!DefiniteString, R!OpenString,
       R!OpenContainer, R!OpenTag, R!BadChunk, R!TakeChunk, R!CloseString,
       R!CutContainer, R!CloseContainer, R!NextItem, R!ThroughTag, R!IntoContainer, R!Finish

LEMMA LeftSound ==
  ASSUME LSound, L!Step PROVE LSound'
<1>1. ASSUME L!TooDeep \/ L!OverBudget \/ L!BadHead PROVE LSound'
  <2>1. lpc # "done" /\ lb' = lb /\ litems' \in Nat /\ li \in Nat /\ li <= Len(lb)
    BY <1>1 DEF LSound, L!TooDeep, L!OverBudget, L!BadHead, L!Counted
  <2>2. \/ L!Fail("ErrDepth", li) \/ L!Fail("ErrTooLarge", li)
        \/ L!Fail(L!h.err, L!h.next)
    BY <1>1 DEF L!TooDeep, L!OverBudget, L!BadHead
  <2> QED BY <2>1, <2>2, LeftChunk, LeftFailSound
<1> QED BY <1>1, LeftSteps, LeftItemSound, LeftChunkSound, LeftLoopSound, LeftReturnSound

-----------------------------------------------------------------------------
(***************************************************************************)
(* How a step of both walks can end: alike, or in a way that is Shared.    *)
(***************************************************************************)
\* Frames that are alike stay so through what a step does to a stack.
LEMMA AlikeEmpty ==
  ASSUME lstack' = <<>>, rstack' = <<>> PROVE Alike'
BY DEF Alike

LEMMA AlikeAppended ==
  ASSUME Alike, lstack \in Seq(L!Frames), NEW f \in L!Frames, NEW g \in L!Frames, Like(f, g),
         lstack' = Append(lstack, f), rstack' = Append(rstack, g)
  PROVE  Alike'
<1>1. rstack \in Seq(L!Frames) /\ Len(rstack) = Len(lstack) /\ Len(lstack) \in Nat
  BY DEF Alike
<1>2. /\ rstack' \in Seq(L!Frames)
      /\ Len(lstack') = Len(lstack) + 1 /\ Len(rstack') = Len(lstack) + 1
      /\ \A k \in 1 .. Len(lstack) + 1 :
           /\ lstack'[k] = IF k = Len(lstack) + 1 THEN f ELSE lstack[k]
           /\ rstack'[k] = IF k = Len(lstack) + 1 THEN g ELSE rstack[k]
  BY <1>1, Appended
<1>3. ASSUME NEW k \in 1 .. Len(lstack) + 1 PROVE Like(lstack'[k], rstack'[k])
  <2>1. CASE k = Len(lstack) + 1
    BY <1>2, <2>1
  <2>2. CASE k # Len(lstack) + 1
    <3>1. k \in 1 .. Len(lstack)
      BY <1>1, <2>2
    <3>2. Like(lstack[k], rstack[k])
      BY <3>1 DEF Alike
    <3> QED BY <1>2, <2>2, <3>2
  <2> QED BY <2>1, <2>2
<1> QED BY <1>2, <1>3 DEF Alike, Like

LEMMA AlikeFront ==
  ASSUME Alike, lstack \in Seq(L!Frames), lstack # <<>>,
         lstack' = L!Front(lstack), rstack' = R!Front(rstack)
  PROVE  Alike'
<1>1. rstack \in Seq(L!Frames) /\ Len(rstack) = Len(lstack) /\ Len(lstack) \in Nat
  BY DEF Alike
<1>2. rstack # <<>>
  BY <1>1
<1>3. lstack' = Front(lstack) /\ rstack' = Front(rstack)
  BY DEF L!Front, R!Front, Front
<1>4. /\ rstack' \in Seq(L!Frames)
      /\ Len(lstack') = Len(lstack) - 1 /\ Len(rstack') = Len(lstack) - 1
      /\ \A k \in 1 .. Len(lstack) - 1 : lstack'[k] = lstack[k] /\ rstack'[k] = rstack[k]
  BY <1>1, <1>2, <1>3, FrontOf
<1>5. ASSUME NEW k \in 1 .. Len(lstack) - 1 PROVE Like(lstack'[k], rstack'[k])
  <2>1. k \in 1 .. Len(lstack)
    BY <1>1
  <2>2. Like(lstack[k], rstack[k])
    BY <2>1 DEF Alike
  <2> QED BY <1>4, <2>2
<1> QED BY <1>4, <1>5 DEF Alike, Like

LEMMA AlikeGrown ==
  ASSUME Alike, lstack \in Seq(L!Frames), lstack # <<>>,
         NEW f \in L!Frames, NEW g \in L!Frames, Like(f, g),
         lstack' = [lstack EXCEPT ![Len(lstack)] = f],
         rstack' = [rstack EXCEPT ![Len(rstack)] = g]
  PROVE  Alike'
<1>1. rstack \in Seq(L!Frames) /\ Len(rstack) = Len(lstack) /\ Len(lstack) \in Nat
  BY DEF Alike
<1>2. rstack # <<>>
  BY <1>1
<1>3. /\ rstack' \in Seq(L!Frames)
      /\ Len(lstack') = Len(lstack) /\ Len(rstack') = Len(lstack)
      /\ \A k \in 1 .. Len(lstack) :
           /\ lstack'[k] = IF k = Len(lstack) THEN f ELSE lstack[k]
           /\ rstack'[k] = IF k = Len(lstack) THEN g ELSE rstack[k]
  BY <1>1, <1>2, LastReplaced
<1>4. ASSUME NEW k \in 1 .. Len(lstack) PROVE Like(lstack'[k], rstack'[k])
  <2>1. Like(lstack[k], rstack[k])
    BY DEF Alike
  <2> QED BY <1>3, <2>1
<1> QED BY <1>3, <1>4 DEF Alike, Like

\* Both read on.
Stays == UNCHANGED <<lop, rop>> /\ ritems' = litems'

LEMMA FailTogether ==
  ASSUME Stays, NEW e, NEW j, L!Fail(e, j), R!Fail(e, j)
  PROVE  Joined'
<1>1. /\ lpc' = "done" /\ lerr' = e /\ li' = j /\ lstack' = <<>> /\ lret' = L!NoString
      /\ rpc' = "done" /\ rerr' = e /\ ri' = j /\ rstack' = <<>> /\ rret' = R!NoString
  BY DEF L!Fail, R!Fail
<1>2. R!NoString = L!NoString
  BY DEF R!NoString, L!NoString
<1> QED BY <1>1, <1>2, AlikeEmpty DEF Joined, Stays

LEMMA YieldTogether ==
  ASSUME LSound, Joined, Stays, NEW v, NEW w, ~Loose => w = v, NEW j,
         NEW lrest, NEW rrest,
         \/ lrest = lstack /\ rrest = rstack
         \/ lstack # <<>> /\ lrest = L!Front(lstack) /\ rrest = R!Front(rstack),
         L!Yield(v, j, lrest), R!Yield(w, j, rrest)
  PROVE  Joined'
<1>1. /\ lpc' = "return" /\ lerr' = lerr /\ li' = j /\ lstack' = lrest /\ lret' = v
      /\ rpc' = "return" /\ rerr' = rerr /\ ri' = j /\ rstack' = rrest /\ rret' = w
  BY DEF L!Yield, R!Yield
<1>2. Loose' <=> Loose
  BY DEF Loose, Stays
<1>3. CASE ~Loose
  <2>1. rstack = lstack
    BY <1>3 DEF Joined
  <2>2. R!Front(rstack) = L!Front(lstack)
    BY <2>1 DEF R!Front, L!Front
  <2> QED BY <1>1, <1>2, <1>3, <2>1, <2>2 DEF Joined, Stays
<1>4. CASE Loose
  <2>1. Alike /\ lstack \in Seq(L!Frames)
    BY <1>4 DEF Joined, LSound
  <2>2. Alike'
    BY <1>1, <2>1, AlikeFront DEF Alike, Like
  <2> QED BY <1>1, <1>2, <1>4, <2>2 DEF Joined, Stays
<1> QED BY <1>3, <1>4

LEMMA PushTogether ==
  ASSUME LSound, Joined, Stays, L!h.next = R!h.next,
         NEW f \in L!Frames, NEW g \in L!Frames,
         IF Loose THEN Like(f, g) ELSE g = f,
         NEW where, L!Push(f, where), R!Push(g, where)
  PROVE  Joined'
<1>1. /\ lpc' = where /\ lerr' = lerr /\ li' = L!h.next /\ lstack' = Append(lstack, f) /\ lret' = lret
      /\ rpc' = where /\ rerr' = rerr /\ ri' = R!h.next /\ rstack' = Append(rstack, g) /\ rret' = rret
  BY DEF L!Push, R!Push
<1>2. Loose' <=> Loose
  BY DEF Loose, Stays
<1>3. CASE ~Loose
  BY <1>1, <1>2, <1>3 DEF Joined, Stays
<1>4. CASE Loose
  <2>1. Alike /\ lstack \in Seq(L!Frames)
    BY <1>4 DEF Joined, LSound
  <2>2. Alike'
    BY <1>1, <1>4, <2>1, AlikeAppended
  <2> QED BY <1>1, <1>2, <1>4, <2>2 DEF Joined, Stays
<1> QED BY <1>3, <1>4

LEMMA GrowTogether ==
  ASSUME LSound, Joined, Stays, lstack # <<>>,
         NEW f \in L!Frames, NEW g \in L!Frames,
         IF Loose THEN Like(f, g) ELSE g = f,
         lstack' = [lstack EXCEPT ![Len(lstack)] = f],
         rstack' = [rstack EXCEPT ![Len(rstack)] = g],
         rpc' = lpc', ri' = li', rerr' = lerr', ~Loose => rret' = lret'
  PROVE  Joined'
<1>1. Loose' <=> Loose
  BY DEF Loose, Stays
<1>2. CASE ~Loose
  BY <1>1, <1>2 DEF Joined, Stays
<1>3. CASE Loose
  <2>1. Alike /\ lstack \in Seq(L!Frames)
    BY <1>3 DEF Joined, LSound
  <2>2. Alike'
    BY <1>3, <2>1, AlikeGrown
  <2> QED BY <1>1, <1>3, <2>2 DEF Joined, Stays
<1> QED BY <1>2, <1>3

\* The left walk fails alone.
LEMMA LeftFails ==
  ASSUME UNCHANGED <<lop, rop>>, NEW e, NEW j, L!Fail(e, j), e # "nil",
         lop # rop \/ e = "ErrTruncated"
  PROVE  Shared'
BY DEF L!Fail, Shared, LFailed

\* The right walk fails alone.
LEMMA RightFails ==
  ASSUME UNCHANGED <<lop, rop>>, NEW e, NEW j, R!Fail(e, j),
         <<lop, rop>> \notin Narrower, e \in Excused(lop, rop)
  PROVE  Shared'
BY DEF R!Fail, Shared, Excusing, Excused

-----------------------------------------------------------------------------
(***************************************************************************)
(* The prologue and the items, where both walks are about to make a call.  *)
(***************************************************************************)
LEMMA SameNames ==
  /\ \A m : R!StringKind(m) = L!StringKind(m)
  /\ \A kind, depth, indef, want :
       R!Frame(kind, depth, indef, want) = L!Frame(kind, depth, indef, want)
  /\ R!mtUint = 0 /\ R!mtNegInt = 1 /\ R!mtBytes = 2 /\ R!mtText = 3
  /\ R!mtArray = 4 /\ R!mtMap = 5 /\ R!mtTag = 6 /\ R!mtSimple = 7
  /\ L!mtUint = 0 /\ L!mtNegInt = 1 /\ L!mtBytes = 2 /\ L!mtText = 3
  /\ L!mtArray = 4 /\ L!mtMap = 5 /\ L!mtTag = 6 /\ L!mtSimple = 7
  /\ R!NoString = L!NoString
BY DEF R!StringKind, L!StringKind, R!Frame, L!Frame, R!mtUint, R!mtNegInt, R!mtBytes,
       R!mtText, R!mtArray, R!mtMap, R!mtTag, R!mtSimple, L!mtUint, L!mtNegInt, L!mtBytes,
       L!mtText, L!mtArray, L!mtMap, L!mtTag, L!mtSimple, R!NoString, L!NoString

LEMMA LooseWide ==
  ASSUME Loose, Paired
  PROVE  /\ lop # rop /\ <<lop, rop>> \notin Narrower
         /\ "ErrDepth" \in Excused(lop, rop)
         /\ rop = "decode" => "ErrTooLarge" \in Excused(lop, rop)
BY DEF Loose, Paired, Narrower, Excused, Ops

LEMMA Prologue ==
  ASSUME LSound, Paired, Joined, L!Step, R!Step, lpc = "call"
  PROVE  \/ Shared'
         \/ /\ L!Admitted /\ R!Admitted /\ Stays
            /\ R!h = L!h /\ HeadOK(L!h, li, Len(lb))
            /\ L!AtJsonKey \/ L!CallDepth >= 0
            /\ R!AtJsonKey \/ R!CallDepth >= 0
<1>1. /\ UNCHANGED <<lop, rop>> /\ rpc = "call" /\ ri = li
      /\ ritems = litems /\ litems \in Nat
  BY LeftStays, RightStays DEF Joined, LSound
<1>2. \/ R!TooDeep \/ R!OverBudget \/ R!BadHead \/ R!Admitted
  BY <1>1, RightSteps
<1>3. CASE L!TooDeep
  <2>1. L!Fail("ErrDepth", li) /\ ~L!AtJsonKey /\ L!CallDepth < 0 /\ litems' = litems
    BY <1>3 DEF L!TooDeep
  <2>2. CASE lop # rop
    BY <1>1, <2>1, <2>2, LeftFails
  <2>3. CASE lop = rop
    <3>1. ~R!AtJsonKey /\ ~(R!CallDepth >= 0)
      BY <2>1, <2>3, SameCall DEF Loose
    <3>2. R!TooDeep
      BY <1>2, <3>1 DEF R!OverBudget, R!BadHead, R!Admitted, R!Counted
    <3>3. R!Fail("ErrDepth", li) /\ ritems' = ritems
      BY <1>1, <3>2 DEF R!TooDeep
    <3>4. Joined'
      BY <1>1, <2>1, <3>3, FailTogether DEF Stays
    <3> QED BY <3>4 DEF Shared
  <2> QED BY <2>2, <2>3
<1>4. CASE L!Counted /\ R!TooDeep
  <2>1. Loose
    BY <1>4, SameCall DEF L!Counted, R!TooDeep
  <2>2. R!Fail("ErrDepth", ri)
    BY <1>4 DEF R!TooDeep
  <2> QED BY <1>1, <2>1, <2>2, LooseWide, RightFails
<1>5. CASE L!Counted /\ ~R!TooDeep
  <2>1. R!Counted
    BY <1>2, <1>5 DEF R!OverBudget, R!BadHead, R!Admitted
  <2>2. /\ litems' = litems + 1 /\ ritems' = ritems + 1 /\ Stays
        /\ L!AtJsonKey \/ L!CallDepth >= 0
        /\ R!AtJsonKey \/ R!CallDepth >= 0
    BY <1>1, <1>5, <2>1 DEF L!Counted, R!Counted, Stays
  <2>3. CASE L!OverBudget
    <3>1. L!Fail("ErrTooLarge", li) /\ litems >= MaxTotalItems
      BY <2>3 DEF L!OverBudget
    <3>2. R!OverBudget
      BY <1>1, <1>2, <1>5, <3>1, LimitsAssumption DEF R!BadHead, R!Admitted
    <3>3. R!Fail("ErrTooLarge", li)
      BY <1>1, <3>2 DEF R!OverBudget
    <3>4. Joined'
      BY <2>2, <3>1, <3>3, FailTogether
    <3> QED BY <3>4 DEF Shared
  <2>4. CASE L!BadHead
    <3>1. L!Fail(L!h.err, L!h.next) /\ L!h.err # "nil" /\ litems < MaxTotalItems
      BY <2>4 DEF L!BadHead
    <3>2. CASE lop # rop \/ L!h.err = "ErrTruncated"
      BY <1>1, <3>1, <3>2, LeftFails
    <3>3. CASE ~(lop # rop \/ L!h.err = "ErrTruncated")
      <4>1. R!h = L!h
        BY <3>3, SameHead
      <4>2. R!BadHead
        BY <1>1, <1>2, <1>5, <3>1, <4>1, LimitsAssumption DEF R!OverBudget, R!Admitted
      <4>3. R!Fail(L!h.err, L!h.next)
        BY <4>1, <4>2 DEF R!BadHead
      <4>4. Joined'
        BY <2>2, <3>1, <4>3, FailTogether
      <4> QED BY <4>4 DEF Shared
    <3> QED BY <3>2, <3>3
  <2>5. CASE L!Admitted
    <3>1. litems < MaxTotalItems /\ L!h.err = "nil"
      BY <2>5 DEF L!Admitted
    <3>2. R!h = L!h /\ HeadOK(L!h, li, Len(lb))
      BY <3>1, SameHead
    <3>3. R!Admitted
      BY <1>1, <1>2, <1>5, <3>1, <3>2, LimitsAssumption DEF R!OverBudget, R!BadHead
    <3> QED BY <2>2, <2>5, <3>2, <3>3
  <2>6. L!OverBudget \/ L!BadHead \/ L!Admitted
    BY <1>5, <1>1, LeftSteps DEF L!TooDeep, L!Counted
  <2> QED BY <2>3, <2>4, <2>5, <2>6
<1>6. L!TooDeep \/ L!Counted
  BY LeftSteps DEF L!OverBudget, L!BadHead, L!Admitted
<1> QED BY <1>3, <1>4, <1>5, <1>6

\* The next chunk is the same one, or is cut short in the shorter buffer.
LEMMA SameChunk ==
  ASSUME LSound, Paired, Joined, R!h = L!h, HeadOK(L!h, li, Len(lb))
  PROVE  /\ L!ChunkError \in {"nil", "ErrTooLarge", "ErrTruncated"}
         /\ L!ChunkError # "ErrTruncated" => R!ChunkError = L!ChunkError
         /\ L!ChunkError = "nil" => R!ChunkEnd = L!ChunkEnd /\ R!ChunkBytes = L!ChunkBytes
<1>1. L!h.next \in Nat /\ L!h.arg \in Nat /\ Len(lb) \in Nat /\ Len(rb) \in Nat /\ Len(lb) <= Len(rb)
  BY DEF HeadOK, LSound, Paired
<1>2. L!ChunkError \in {"nil", "ErrTooLarge", "ErrTruncated"}
  BY DEF L!ChunkError
<1>3. L!ChunkError # "ErrTruncated" => R!ChunkError = L!ChunkError
  BY <1>1 DEF L!ChunkError, R!ChunkError
<1>4. R!ChunkEnd = L!ChunkEnd
  BY DEF L!ChunkEnd, R!ChunkEnd
<1>5. ASSUME L!ChunkError = "nil" PROVE R!ChunkBytes = L!ChunkBytes
  <2>1. L!h.next + L!h.arg <= Len(lb)
    BY <1>1, <1>5 DEF L!ChunkError
  <2>2. /\ lb \in Seq(Byte) /\ rb \in Seq(Byte) /\ Len(lb) <= Len(rb)
        /\ \A k \in 1 .. Len(lb) : lb[k] = rb[k]
    BY DEF LSound, Paired
  <2> DEFINE m == L!h.next + 1
             n == L!h.next + L!h.arg
  <2>3. m \in Nat \ {0} /\ n \in Nat /\ n <= Len(lb)
    BY <1>1, <2>1
  <2>4. L!ChunkBytes = SubSeq(lb, m, n) /\ R!ChunkBytes = SubSeq(rb, m, n)
    BY DEF L!ChunkBytes, R!ChunkBytes
  <2> HIDE DEF m, n
  <2> QED BY <2>2, <2>3, <2>4, PartOfPrefix
<1> QED BY <1>2, <1>3, <1>4, <1>5

\* Text that only one of the two methods objects to.
LEMMA SameText ==
  ASSUME Paired, NEW t, NEW s
  PROVE  /\ lop = rop => (R!InvalidText(t, s) <=> L!InvalidText(t, s))
         /\ R!InvalidText(t, s) /\ ~L!InvalidText(t, s) =>
              <<lop, rop>> \notin Narrower /\ "ErrMalformed" \in Excused(lop, rop)
         /\ ~Loose => R!String(t, s) = L!String(t, s)
<1>1. L!ValidUTF8(s) <=> R!ValidUTF8(s)
  BY LeftReads, RightReads
<1>2. lop = rop => (R!InvalidText(t, s) <=> L!InvalidText(t, s))
  BY <1>1 DEF L!InvalidText, R!InvalidText
<1>3. R!InvalidText(t, s) /\ ~L!InvalidText(t, s) => lop = "skip" /\ rop # "skip"
  BY <1>1 DEF L!InvalidText, R!InvalidText
<1>4. lop = "skip" /\ rop # "skip" =>
        <<lop, rop>> \notin Narrower /\ "ErrMalformed" \in Excused(lop, rop)
  BY DEF Narrower, Excused, Ops
<1>5. ~Loose => R!String(t, s) = L!String(t, s)
  BY SameNames DEF L!String, R!String, Loose, Paired
<1> QED BY <1>2, <1>3, <1>4, <1>5

\* Both have admitted the same head.
Ready ==
  /\ lpc = "call" /\ L!Admitted /\ R!Admitted /\ Stays
  /\ R!h = L!h /\ HeadOK(L!h, li, Len(lb))

\* The item the right walk reads is decided by the head, and by whether it is
\* a key of a JSON map.
LEMMA RightItem ==
  ASSUME LSound, Paired, Joined, Ready, R!Step
  PROVE  /\ R!AtJsonKey /\ L!h.mt \notin {2, 3, 6} => R!KeyNotString
         /\ ~R!AtJsonKey /\ L!h.mt \in {0, 1} => R!Integer
         /\ ~R!AtJsonKey /\ L!h.mt = 7 => R!Simple
         /\ L!h.mt \in {2, 3} /\ ~L!h.indef => R!DefiniteString
         /\ L!h.mt \in {2, 3} /\ L!h.indef => R!OpenString
         /\ ~R!AtJsonKey /\ L!h.mt \in {4, 5} => R!OpenContainer
         /\ L!h.mt = 6 => R!OpenTag
<1>1. R!h = L!h /\ R!Admitted /\ rpc = "call"
  BY DEF Ready, Joined
<1>2. ~R!TooDeep /\ ~R!OverBudget /\ ~R!BadHead
  <2>1. R!AtJsonKey \/ R!CallDepth >= 0
    BY <1>1 DEF R!Admitted, R!Counted
  <2>2. R!CallDepth \in Int
    BY SameCall
  <2>3. ritems < MaxTotalItems /\ ritems \in Nat
    BY <1>1 DEF R!Admitted, Joined, LSound
  <2>4. R!h.err = "nil"
    BY <1>1 DEF R!Admitted
  <2> QED BY <2>1, <2>2, <2>3, <2>4, LimitsAssumption DEF R!TooDeep, R!OverBudget, R!BadHead
<1>3. \/ R!KeyNotString \/ R!Integer \/ R!Simple \/ R!DefiniteString
      \/ R!OpenString \/ R!OpenContainer \/ R!OpenTag
  BY <1>1, <1>2, RightSteps
<1>4. /\ R!KeyNotString => R!AtJsonKey /\ L!h.mt \notin {2, 3, 6}
      /\ R!Integer => ~R!AtJsonKey /\ L!h.mt \in {0, 1}
      /\ R!Simple => ~R!AtJsonKey /\ L!h.mt = 7
      /\ R!DefiniteString => L!h.mt \in {2, 3} /\ ~L!h.indef
      /\ R!OpenString => L!h.mt \in {2, 3} /\ L!h.indef
      /\ R!OpenContainer => ~R!AtJsonKey /\ L!h.mt \in {4, 5}
      /\ R!OpenTag => L!h.mt = 6
  BY <1>1, SameNames DEF R!KeyNotString, R!Integer, R!Simple, R!DefiniteString,
                         R!OpenString, R!OpenContainer, R!OpenTag
<1> QED BY <1>3, <1>4

LEMMA ScalarTogether ==
  ASSUME LSound, Paired, Joined, Ready, R!Step, L!KeyNotString \/ L!Integer \/ L!Simple
  PROVE  Shared'
<1>1. R!h = L!h /\ Stays /\ UNCHANGED <<lop, rop>>
  BY DEF Ready, Stays
<1>2. CASE L!KeyNotString
  <2>1. L!AtJsonKey /\ L!h.mt \notin {2, 3, 6} /\ L!Fail("ErrMalformed", L!h.next)
    BY <1>2, SameNames DEF L!KeyNotString
  <2>2. CASE lop # rop
    BY <1>1, <2>1, <2>2, LeftFails
  <2>3. CASE lop = rop
    <3>1. R!AtJsonKey
      BY <2>1, <2>3, SameCall DEF Loose
    <3>2. R!Fail("ErrMalformed", L!h.next)
      BY <1>1, <2>1, <3>1, RightItem DEF R!KeyNotString
    <3>3. Joined'
      BY <1>1, <2>1, <3>2, FailTogether
    <3> QED BY <3>3 DEF Shared
  <2> QED BY <2>2, <2>3
<1>3. ~L!AtJsonKey => ~R!AtJsonKey
  BY SameCall
<1>4. CASE L!Integer
  <2>1. R!Integer
    BY <1>3, <1>4, RightItem, SameNames DEF L!Integer
  <2>2. CASE L!h.indef
    <3>1. L!Fail("ErrMalformed", L!h.next) /\ R!Fail("ErrMalformed", L!h.next)
      BY <1>1, <1>4, <2>1, <2>2 DEF L!Integer, R!Integer
    <3>2. Joined'
      BY <1>1, <3>1, FailTogether
    <3> QED BY <3>2 DEF Shared
  <2>3. CASE ~L!h.indef
    <3>1. L!Yield(L!NoString, L!h.next, lstack) /\ R!Yield(L!NoString, L!h.next, rstack)
      BY <1>1, <1>4, <2>1, <2>3, SameNames DEF L!Integer, R!Integer
    <3>2. Joined'
      BY <1>1, <3>1, YieldTogether
    <3> QED BY <3>2 DEF Shared
  <2> QED BY <2>2, <2>3
<1>5. CASE L!Simple
  <2>1. R!Simple
    BY <1>3, <1>5, RightItem, SameNames DEF L!Simple
  <2>2. lop = rop => (L!SimpleAllowed <=> R!SimpleAllowed)
    BY <1>1 DEF L!SimpleAllowed, R!SimpleAllowed
  <2>3. L!SimpleAllowed => R!SimpleAllowed
    BY <1>1 DEF L!SimpleAllowed, R!SimpleAllowed, Paired
  <2>4. CASE L!SimpleAllowed
    <3>1. L!Yield(L!NoString, L!h.next, lstack) /\ R!Yield(L!NoString, L!h.next, rstack)
      BY <1>1, <1>5, <2>1, <2>3, <2>4, SameNames DEF L!Simple, R!Simple
    <3>2. Joined'
      BY <1>1, <3>1, YieldTogether
    <3> QED BY <3>2 DEF Shared
  <2>5. CASE ~L!SimpleAllowed /\ lop # rop
    <3>1. L!Fail("ErrMalformed", L!h.next)
      BY <1>5, <2>5 DEF L!Simple
    <3> QED BY <1>1, <2>5, <3>1, LeftFails
  <2>6. CASE ~L!SimpleAllowed /\ lop = rop
    <3>1. L!Fail("ErrMalformed", L!h.next) /\ R!Fail("ErrMalformed", L!h.next)
      BY <1>1, <1>5, <2>1, <2>2, <2>6 DEF L!Simple, R!Simple
    <3>2. Joined'
      BY <1>1, <3>1, FailTogether
    <3> QED BY <3>2 DEF Shared
  <2> QED BY <2>4, <2>5, <2>6
<1> QED BY <1>2, <1>4, <1>5

\* A string that is read ends both walks' calls, or fails one or both.
LEMMA StringTogether ==
  ASSUME LSound, Paired, Joined, Stays, NEW t, NEW u,
         u # t => u # "text" /\ t # "text", ~Loose => u = t,
         NEW s, NEW j, NEW lrest, NEW rrest,
         \/ lrest = lstack /\ rrest = rstack
         \/ lstack # <<>> /\ lrest = L!Front(lstack) /\ rrest = R!Front(rstack),
         IF L!InvalidText(t, s) THEN L!Fail("ErrMalformed", j)
                                ELSE L!Yield(L!String(t, s), j, lrest),
         IF R!InvalidText(u, s) THEN R!Fail("ErrMalformed", j)
                                ELSE R!Yield(R!String(u, s), j, rrest)
  PROVE  Shared'
<1>1. UNCHANGED <<lop, rop>>
  BY DEF Stays
<1>2. u # t => ~L!InvalidText(t, s) /\ ~R!InvalidText(u, s)
  BY DEF L!InvalidText, R!InvalidText
<1>3. lop = rop => u = t
  BY DEF Loose
<1>4. CASE L!InvalidText(t, s) /\ lop # rop
  BY <1>1, <1>4, LeftFails
<1>5. CASE L!InvalidText(t, s) /\ lop = rop
  <2>1. R!InvalidText(u, s)
    BY <1>3, <1>5, SameText
  <2>2. Joined'
    BY <1>5, <2>1, FailTogether
  <2> QED BY <2>2 DEF Shared
<1>6. CASE ~L!InvalidText(t, s) /\ R!InvalidText(u, s)
  <2>1. u = t
    BY <1>2, <1>6
  <2>2. <<lop, rop>> \notin Narrower /\ "ErrMalformed" \in Excused(lop, rop)
    BY <1>6, <2>1, SameText
  <2> QED BY <1>1, <1>6, <2>2, RightFails
<1>7. CASE ~L!InvalidText(t, s) /\ ~R!InvalidText(u, s)
  <2>1. ~Loose => R!String(u, s) = L!String(t, s)
    BY SameText
  <2>2. L!Yield(L!String(t, s), j, lrest) /\ R!Yield(R!String(u, s), j, rrest)
    BY <1>7
  <2> DEFINE v == L!String(t, s)
             w == R!String(u, s)
  <2> HIDE DEF v, w
  <2>3. Joined'
    BY <2>1, <2>2, YieldTogether DEF v, w
  <2> QED BY <2>3 DEF Shared
<1> QED BY <1>4, <1>5, <1>6, <1>7

LEMMA DefiniteTogether ==
  ASSUME LSound, Paired, Joined, Ready, R!Step, L!DefiniteString
  PROVE  Shared'
<1>1. R!h = L!h /\ Stays /\ UNCHANGED <<lop, rop>> /\ HeadOK(L!h, li, Len(lb))
  BY DEF Ready, Stays
<1>2. R!DefiniteString
  BY RightItem, SameNames DEF L!DefiniteString
<1>3. /\ L!ChunkError \in {"nil", "ErrTooLarge", "ErrTruncated"}
      /\ L!ChunkError # "ErrTruncated" => R!ChunkError = L!ChunkError
      /\ L!ChunkError = "nil" => R!ChunkEnd = L!ChunkEnd /\ R!ChunkBytes = L!ChunkBytes
  BY <1>1, SameChunk
<1>4. CASE L!ChunkError = "ErrTruncated"
  <2>1. L!Fail("ErrTruncated", L!h.next)
    BY <1>4 DEF L!DefiniteString
  <2> QED BY <1>1, <2>1, LeftFails
<1>5. CASE L!ChunkError = "ErrTooLarge"
  <2>1. L!Fail("ErrTooLarge", L!h.next) /\ R!Fail("ErrTooLarge", L!h.next)
    BY <1>1, <1>2, <1>3, <1>5 DEF L!DefiniteString, R!DefiniteString
  <2>2. Joined'
    BY <1>1, <2>1, FailTogether
  <2> QED BY <2>2 DEF Shared
<1>6. CASE L!ChunkError = "nil"
  <2> DEFINE t == L!StringKind(L!h.mt)
             s == L!ChunkBytes
             j == L!ChunkEnd
  <2>1. IF L!InvalidText(t, s) THEN L!Fail("ErrMalformed", j)
                               ELSE L!Yield(L!String(t, s), j, lstack)
    BY <1>6 DEF L!DefiniteString
  <2>2. R!StringKind(R!h.mt) = t /\ R!ChunkBytes = s /\ R!ChunkEnd = j /\ R!ChunkError = "nil"
    BY <1>1, <1>3, <1>6, SameNames
  <2> HIDE DEF t, s, j
  <2>3. IF R!InvalidText(t, s) THEN R!Fail("ErrMalformed", j)
                               ELSE R!Yield(R!String(t, s), j, rstack)
    BY <1>2, <2>2 DEF R!DefiniteString
  <2> QED BY <1>1, <2>1, <2>3, StringTogether
<1> QED BY <1>3, <1>4, <1>5, <1>6

LEMMA OpenTogether ==
  ASSUME LSound, Paired, Joined, Ready, R!Step,
         L!OpenString \/ L!OpenContainer \/ L!OpenTag
  PROVE  Shared'
<1>1. /\ R!h = L!h /\ Stays /\ UNCHANGED <<lop, rop>> /\ HeadOK(L!h, li, Len(lb))
      /\ L!h.next = R!h.next
  BY DEF Ready, Stays
<1>2. L!CallDepth \in Int /\ R!CallDepth \in Int /\ R!CallDepth <= L!CallDepth
  BY SameCall
<1>3. L!h.indef \in BOOLEAN /\ L!h.arg \in Nat /\ L!h.next \in Nat /\ L!h.next <= Len(lb)
  BY <1>1 DEF HeadOK
<1>4. ASSUME NEW kind \in L!Kinds \ {"keytag"}, NEW indef \in BOOLEAN, NEW want \in Nat
      PROVE  /\ L!Frame(kind, L!CallDepth, indef, want) \in L!Frames
             /\ R!Frame(kind, R!CallDepth, indef, want) \in L!Frames
             /\ IF Loose THEN Like(L!Frame(kind, L!CallDepth, indef, want),
                                   R!Frame(kind, R!CallDepth, indef, want))
                         ELSE R!Frame(kind, R!CallDepth, indef, want)
                                = L!Frame(kind, L!CallDepth, indef, want)
  <2>1. R!Frame(kind, R!CallDepth, indef, want) = L!Frame(kind, R!CallDepth, indef, want)
    BY SameNames
  <2>2. ~Loose => R!CallDepth = L!CallDepth
    BY SameCall
  <2>3. /\ L!Frame(kind, L!CallDepth, indef, want) \in L!Frames
        /\ L!Frame(kind, R!CallDepth, indef, want) \in L!Frames
    BY <1>2 DEF L!Frame, L!Frames
  <2>4. Like(L!Frame(kind, L!CallDepth, indef, want), L!Frame(kind, R!CallDepth, indef, want))
    BY <1>2 DEF L!Frame, Like
  <2> QED BY <2>1, <2>2, <2>3, <2>4
<1>5. CASE L!OpenString
  <2>1. R!OpenString
    BY <1>5, RightItem, SameNames DEF L!OpenString
  <2>2. CASE L!CallDepth < 0
    <3>1. L!Fail("ErrDepth", L!h.next)
      BY <1>5, <2>2 DEF L!OpenString
    <3>2. CASE lop # rop
      BY <1>1, <3>1, <3>2, LeftFails
    <3>3. CASE lop = rop
      <4>1. R!CallDepth < 0
        BY <2>2, <3>3, SameCall DEF Loose
      <4>2. R!Fail("ErrDepth", L!h.next)
        BY <1>1, <2>1, <4>1 DEF R!OpenString
      <4>3. Joined'
        BY <1>1, <3>1, <4>2, FailTogether
      <4> QED BY <4>3 DEF Shared
    <3> QED BY <3>2, <3>3
  <2>3. CASE ~(L!CallDepth < 0) /\ R!CallDepth < 0
    <3>1. Loose
      BY <2>3, SameCall
    <3>2. R!Fail("ErrDepth", L!h.next)
      BY <1>1, <2>1, <2>3 DEF R!OpenString
    <3> QED BY <1>1, <3>1, <3>2, LooseWide, RightFails
  <2>4. CASE ~(L!CallDepth < 0) /\ ~(R!CallDepth < 0)
    <3> DEFINE kind == L!StringKind(L!h.mt)
               f == L!Frame(kind, L!CallDepth, TRUE, 0)
               g == R!Frame(kind, R!CallDepth, TRUE, 0)
    <3>1. kind \in L!Kinds \ {"keytag"}
      BY DEF L!StringKind, L!Kinds
    <3>2. L!Push(f, "chunk")
      BY <1>5, <2>4 DEF L!OpenString
    <3>3. R!StringKind(R!h.mt) = kind
      BY <1>1, SameNames
    <3>4. R!Push(g, "chunk")
      BY <2>1, <2>4, <3>3 DEF R!OpenString
    <3> HIDE DEF kind
    <3>5. f \in L!Frames /\ g \in L!Frames /\ IF Loose THEN Like(f, g) ELSE g = f
      BY <1>4, <3>1
    <3> HIDE DEF f, g
    <3>6. Joined'
      BY <1>1, <3>2, <3>4, <3>5, PushTogether
    <3> QED BY <3>6 DEF Shared
  <2> QED BY <2>2, <2>3, <2>4
<1>6. CASE L!OpenContainer
  <2>1. R!OpenContainer
    <3>1. ~L!AtJsonKey /\ L!h.mt \in {4, 5}
      BY <1>6, SameNames DEF L!OpenContainer
    <3>2. ~R!AtJsonKey
      BY <3>1, SameCall
    <3> QED BY <3>1, <3>2, RightItem
  <2>2. L!PerElement \in {1, 2} /\ R!PerElement = L!PerElement /\ R!CountLimit = L!CountLimit
    BY <1>1, SameNames DEF L!PerElement, R!PerElement, L!CountLimit, R!CountLimit
  <2>3. Len(lb) \in Nat /\ Len(rb) \in Nat /\ Len(lb) <= Len(rb)
    BY DEF LSound, Paired
  <2>4. (Len(lb) - L!h.next) \div L!PerElement <= (Len(rb) - L!h.next) \div L!PerElement
    BY <1>3, <2>2, <2>3
  <2>5. /\ (Len(lb) - L!h.next) \div L!PerElement \in Int
        /\ (Len(rb) - L!h.next) \div L!PerElement \in Int
    BY <1>3, <2>2, <2>3
  <2>6. /\ L!CountError \in {"nil", "ErrTooLarge", "ErrTruncated"}
        /\ L!CountError # "ErrTruncated" => R!CountError = L!CountError
    <3> DEFINE p == (Len(lb) - L!h.next) \div L!PerElement
               q == (Len(rb) - L!h.next) \div L!PerElement
    <3>1. p \in Int /\ q \in Int /\ p <= q
      BY <2>4, <2>5
    <3>2. L!CountError = IF L!h.indef THEN "nil"
                         ELSE IF L!h.arg > L!CountLimit THEN "ErrTooLarge"
                         ELSE IF L!h.arg > p THEN "ErrTruncated" ELSE "nil"
      BY DEF L!CountError
    <3>3. R!CountError = IF L!h.indef THEN "nil"
                         ELSE IF L!h.arg > L!CountLimit THEN "ErrTooLarge"
                         ELSE IF L!h.arg > q THEN "ErrTruncated" ELSE "nil"
      BY <1>1, <2>2 DEF R!CountError
    <3> HIDE DEF p, q
    <3> QED BY <1>3, <3>1, <3>2, <3>3
  <2>7. CASE L!CountError = "ErrTruncated"
    <3>1. L!Fail("ErrTruncated", L!h.next)
      BY <1>6, <2>7 DEF L!OpenContainer
    <3> QED BY <1>1, <3>1, LeftFails
  <2>8. CASE L!CountError = "ErrTooLarge"
    <3>1. L!Fail("ErrTooLarge", L!h.next) /\ R!Fail("ErrTooLarge", L!h.next)
      BY <1>1, <1>6, <2>1, <2>6, <2>8 DEF L!OpenContainer, R!OpenContainer
    <3>2. Joined'
      BY <1>1, <3>1, FailTogether
    <3> QED BY <3>2 DEF Shared
  <2>9. CASE L!CountError = "nil"
    <3> DEFINE kind == IF L!h.mt = L!mtArray THEN "array" ELSE "map"
               want == L!PerElement * L!h.arg
               f == L!Frame(kind, L!CallDepth, L!h.indef, want)
               g == R!Frame(kind, R!CallDepth, L!h.indef, want)
    <3>1. kind \in L!Kinds \ {"keytag"}
      BY DEF L!Kinds
    <3>2. want \in Nat
      BY <1>3, <2>2
    <3>3. L!Push(f, "loop")
      BY <1>6, <2>9 DEF L!OpenContainer
    <3>4. /\ (IF R!h.mt = R!mtArray THEN "array" ELSE "map") = kind
          /\ R!PerElement * R!h.arg = want /\ R!h.indef = L!h.indef
          /\ R!CountError = "nil"
      BY <1>1, <2>2, <2>6, <2>9, SameNames
    <3>5. R!Push(g, "loop")
      BY <2>1, <3>4 DEF R!OpenContainer
    <3> HIDE DEF kind, want
    <3>6. f \in L!Frames /\ g \in L!Frames /\ IF Loose THEN Like(f, g) ELSE g = f
      BY <1>3, <1>4, <3>1, <3>2
    <3> HIDE DEF f, g
    <3>7. Joined'
      BY <1>1, <3>3, <3>5, <3>6, PushTogether
    <3> QED BY <3>7 DEF Shared
  <2> QED BY <2>6, <2>7, <2>8, <2>9
<1>7. CASE L!OpenTag
  <2>1. R!OpenTag
    BY <1>7, RightItem, SameNames DEF L!OpenTag
  <2>2. CASE L!h.indef
    <3>1. L!Fail("ErrMalformed", L!h.next) /\ R!Fail("ErrMalformed", L!h.next)
      BY <1>1, <1>7, <2>1, <2>2 DEF L!OpenTag, R!OpenTag
    <3>2. Joined'
      BY <1>1, <3>1, FailTogether
    <3> QED BY <3>2 DEF Shared
  <2>3. CASE ~L!h.indef
    <3> DEFINE f == IF L!AtJsonKey THEN L!Frame("keytag", L!Top.depth, FALSE, 0)
                                   ELSE L!Frame("tag", L!CallDepth, FALSE, 0)
               g == IF R!AtJsonKey THEN R!Frame("keytag", R!Top.depth, FALSE, 0)
                                   ELSE R!Frame("tag", R!CallDepth, FALSE, 0)
    <3>1. L!Push(f, "call") /\ R!Push(g, "call")
      BY <1>1, <1>7, <2>1, <2>3 DEF L!OpenTag, R!OpenTag
    <3>2. f \in L!Frames /\ g \in L!Frames /\ IF Loose THEN Like(f, g) ELSE g = f
      <4>1. CASE ~L!AtJsonKey
        <5>1. ~R!AtJsonKey
          BY <4>1, SameCall
        <5> QED BY <1>4, <4>1, <5>1 DEF L!Kinds
      <4>2. CASE L!AtJsonKey
        <5>1. lstack # <<>>
          BY <4>2, SameCall
        <5>2. /\ L!Top.depth \in Int /\ R!Top.depth \in Int
              /\ R!Top.depth <= L!Top.depth
              /\ ~Loose => R!Top = L!Top
          BY <5>1, SameTop DEF L!Frames, Like
        <5>3. \A d \in Int : /\ L!Frame("keytag", d, FALSE, 0) \in L!Frames
                             /\ L!Frame("tag", d, FALSE, 0) \in L!Frames
          BY DEF L!Frame, L!Frames, L!Kinds
        <5>4. CASE ~Loose
          <6>1. R!AtJsonKey
            BY <4>2, <5>4, SameCall
          <6> QED BY <4>2, <5>2, <5>3, <5>4, <6>1, SameNames
        <5>5. CASE Loose
          <6>1. ~R!AtJsonKey
            BY <5>5, SameCall
          <6>2. R!CallDepth <= L!Top.depth
            <7>1. rstack # <<>>
              BY <5>1, SameTop
            <7> QED BY <5>2, <7>1 DEF R!CallDepth
          <6>3. Like(L!Frame("keytag", L!Top.depth, FALSE, 0), L!Frame("tag", R!CallDepth, FALSE, 0))
            BY <6>2 DEF Like, L!Frame
          <6> QED BY <1>2, <4>2, <5>2, <5>3, <5>5, <6>1, <6>3, SameNames
        <5> QED BY <5>4, <5>5
      <4> QED BY <4>1, <4>2
    <3> HIDE DEF f, g
    <3>3. Joined'
      BY <1>1, <3>1, <3>2, PushTogether
    <3> QED BY <3>3 DEF Shared
  <2> QED BY <2>2, <2>3
<1> QED BY <1>5, <1>6, <1>7

LEMMA CallTogether ==
  ASSUME LSound, Paired, Joined, L!Step, R!Step, lpc = "call"
  PROVE  Shared'
<1>1. CASE ~Ready
  BY <1>1, Prologue DEF Ready
<1>2. CASE Ready
  <2>1. L!Admitted /\ L!CallDepth \in Int
    BY <1>2, SameCall DEF Ready
  <2>2. litems \in Nat
    BY DEF LSound
  <2>3. ~L!TooDeep /\ ~L!OverBudget /\ ~L!BadHead
    BY <2>1, <2>2, LimitsAssumption DEF L!Admitted, L!Counted, L!TooDeep, L!OverBudget, L!BadHead
  <2>4. \/ L!KeyNotString \/ L!Integer \/ L!Simple \/ L!DefiniteString
        \/ L!OpenString \/ L!OpenContainer \/ L!OpenTag
    BY <2>3, LeftSteps
  <2> QED BY <1>2, <2>4, ScalarTogether, DefiniteTogether, OpenTogether
<1> QED BY <1>1, <1>2

-----------------------------------------------------------------------------
(***************************************************************************)
(* Chunks, the loop of a container, and returns.                           *)
(***************************************************************************)
\* Where there is a byte in the shorter buffer both see the same break.
LEMMA SameBreak ==
  ASSUME LSound, Paired, Joined
  PROVE  /\ ri = li /\ li \in Nat /\ li <= Len(lb) /\ Len(lb) \in Nat
         /\ li < Len(lb) => li < Len(rb) /\ (R!AtBreak <=> L!AtBreak)
         /\ L!AtBreak => li < Len(lb) /\ R!AtBreak
         /\ ~(li < Len(lb)) => L!h.err = "ErrTruncated"
<1>1. /\ ri = li /\ li \in Nat /\ li <= Len(lb) /\ lb \in Seq(Byte) /\ rb \in Seq(Byte)
      /\ Len(lb) <= Len(rb) /\ \A k \in 1 .. Len(lb) : lb[k] = rb[k]
  BY DEF LSound, Paired, Joined
<1>2. li < Len(lb) => li < Len(rb) /\ rb[li + 1] = lb[li + 1]
  BY <1>1
<1>3. li < Len(lb) => (R!AtBreak <=> L!AtBreak)
  BY <1>1, <1>2 DEF L!AtBreak, R!AtBreak, L!Break, R!Break
<1>4. L!AtBreak => li < Len(lb)
  BY DEF L!AtBreak
<1>5. ~(li < Len(lb)) => HeadAt(lb, li).err = "ErrTruncated"
  BY <1>1 DEF HeadAt, RefusedHead
<1>6. L!h = HeadAt(lb, li)
  BY LeftReads DEF L!h
<1> QED BY <1>1, <1>2, <1>3, <1>4, <1>5, <1>6

\* Frames that both walks are in the middle of.
LEMMA SameFrame ==
  ASSUME LSound, Paired, Joined, lstack # <<>>
  PROVE  /\ L!Top \in L!Frames /\ L!Top = lstack[Len(lstack)]
         /\ R!Top \in L!Frames /\ R!Top = rstack[Len(rstack)]
         /\ rstack # <<>>
         /\ R!Top.indef = L!Top.indef /\ R!Top.want = L!Top.want
         /\ R!Top.got = L!Top.got /\ R!Top.part = L!Top.part
         /\ \A k \in {"array", "map", "bytes", "text"} : R!Top.kind = k <=> L!Top.kind = k
         /\ R!Top.kind \in {"tag", "keytag"} <=> L!Top.kind \in {"tag", "keytag"}
         /\ IF Loose THEN Like(L!Top, R!Top) ELSE R!Top = L!Top
<1>1. IF Loose THEN Like(L!Top, R!Top) ELSE R!Top = L!Top
  BY SameTop
<1>2. /\ R!Top.indef = L!Top.indef /\ R!Top.want = L!Top.want
      /\ R!Top.got = L!Top.got /\ R!Top.part = L!Top.part
      /\ R!Top.kind = L!Top.kind \/ (L!Top.kind = "keytag" /\ R!Top.kind = "tag")
  BY <1>1 DEF Like
<1> QED BY <1>1, <1>2, SameTop

LEMMA TakeTogether ==
  ASSUME LSound, Paired, Joined, Stays, R!h = L!h, HeadOK(L!h, li, Len(lb)),
         L!TakeChunk, R!TakeChunk
  PROVE  Shared'
<1>1. UNCHANGED <<lop, rop>> /\ lpc = "chunk" /\ rpc = "chunk" /\ lstack # <<>>
  BY DEF Stays, L!TakeChunk, L!Inside, Joined, LSound
<1>2. /\ L!ChunkError \in {"nil", "ErrTooLarge", "ErrTruncated"}
      /\ L!ChunkError # "ErrTruncated" => R!ChunkError = L!ChunkError
      /\ L!ChunkError = "nil" => R!ChunkEnd = L!ChunkEnd /\ R!ChunkBytes = L!ChunkBytes
  BY SameChunk
<1>3. L!Top \in L!Frames /\ R!Top \in L!Frames /\ R!Top.part = L!Top.part
  BY <1>1, SameFrame
<1>4. CASE L!ChunkError = "ErrTruncated"
  <2>1. L!Fail("ErrTruncated", L!h.next)
    BY <1>4 DEF L!TakeChunk
  <2> QED BY <1>1, <2>1, LeftFails
<1>5. CASE L!ChunkError = "ErrTooLarge"
  <2>1. L!Fail("ErrTooLarge", L!h.next) /\ R!Fail("ErrTooLarge", L!h.next)
    BY <1>2, <1>5 DEF L!TakeChunk, R!TakeChunk
  <2>2. Joined'
    BY <2>1, FailTogether
  <2> QED BY <2>2 DEF Shared
<1>6. CASE L!ChunkError = "nil" /\ Len(L!Top.part) + L!h.arg > MaxStringBytes
  <2>1. L!Fail("ErrTooLarge", L!ChunkEnd) /\ R!Fail("ErrTooLarge", L!ChunkEnd)
    BY <1>2, <1>3, <1>6 DEF L!TakeChunk, R!TakeChunk
  <2>2. Joined'
    BY <2>1, FailTogether
  <2> QED BY <2>2 DEF Shared
<1>7. CASE L!ChunkError = "nil" /\ ~(Len(L!Top.part) + L!h.arg > MaxStringBytes)
  <2> DEFINE f == [L!Top EXCEPT !.part = @ \o L!ChunkBytes]
             g == [R!Top EXCEPT !.part = @ \o L!ChunkBytes]
  <2>1. /\ lstack' = [lstack EXCEPT ![Len(lstack)].part = @ \o L!ChunkBytes]
        /\ rstack' = [rstack EXCEPT ![Len(rstack)].part = @ \o L!ChunkBytes]
        /\ li' = L!ChunkEnd /\ ri' = L!ChunkEnd
        /\ UNCHANGED <<lpc, lret, lerr>> /\ UNCHANGED <<rpc, rret, rerr>>
    BY <1>2, <1>3, <1>7 DEF L!TakeChunk, R!TakeChunk
  <2>2. L!Top.part \o L!ChunkBytes \in Seq(L!Byte)
    BY <1>3, <1>7, LeftChunk DEF L!Frames, L!Byte, Byte
  <2>3. f \in L!Frames /\ g \in L!Frames
    BY <1>3, <2>2 DEF L!Frames
  <2>4. IF Loose THEN Like(f, g) ELSE g = f
    <3>1. IF Loose THEN Like(L!Top, R!Top) ELSE R!Top = L!Top
      BY <1>1, SameFrame
    <3> QED BY <1>3, <3>1 DEF Like, L!Frames
  <2>5. /\ lstack' = [lstack EXCEPT ![Len(lstack)] = f]
        /\ rstack' = [rstack EXCEPT ![Len(rstack)] = g]
    BY <1>1, <2>1, SameFrame
  <2>6. rpc' = lpc' /\ ri' = li' /\ rerr' = lerr' /\ (~Loose => rret' = lret')
    BY <1>1, <2>1 DEF Joined
  <2> HIDE DEF f, g
  <2>7. Joined'
    BY <1>1, <2>3, <2>4, <2>5, <2>6, GrowTogether
  <2> QED BY <2>7 DEF Shared
<1> QED BY <1>2, <1>4, <1>5, <1>6, <1>7

LEMMA ChunkTogether ==
  ASSUME LSound, Paired, Joined, L!Step, R!Step, lpc = "chunk"
  PROVE  Shared'
<1>1. UNCHANGED <<lop, rop>> /\ rpc = "chunk" /\ ri = li /\ lstack # <<>>
  BY LeftStays, RightStays DEF Joined, LSound
<1>2. /\ L!BadChunk \/ L!TakeChunk \/ L!CloseString
      /\ R!BadChunk \/ R!TakeChunk \/ R!CloseString
  BY <1>1, LeftSteps, RightSteps
<1>3. Stays
  BY <1>1, <1>2 DEF Stays, Joined, L!BadChunk, L!TakeChunk, L!CloseString, L!Inside,
                    R!BadChunk, R!TakeChunk, R!CloseString, R!Inside
<1>4. \A k \in {"array", "map", "bytes", "text"} : R!Top.kind = k <=> L!Top.kind = k
  BY <1>1, SameFrame
<1>5. L!StringKind(L!h.mt) \in {"bytes", "text"}
  BY DEF L!StringKind
<1>6. CASE L!h.err = "ErrTruncated" /\ ~L!AtBreak
  <2>1. L!BadChunk
    BY <1>2, <1>6 DEF L!TakeChunk, L!CloseString
  <2>2. L!Fail("ErrTruncated", L!h.next)
    BY <1>6, <2>1 DEF L!BadChunk
  <2> QED BY <1>1, <2>2, LeftFails
<1>7. CASE L!h.err # "ErrTruncated" /\ ~L!AtBreak
  <2>1. R!h = L!h /\ ~R!AtBreak /\ HeadOK(L!h, li, Len(lb))
    BY <1>7, SameHead, SameBreak
  <2> DEFINE bad == \/ L!h.err # "nil" \/ L!h.indef \/ L!h.mt \notin {2, 3}
                    \/ L!StringKind(L!h.mt) # L!Top.kind
             e == IF L!h.err # "nil" THEN L!h.err ELSE "ErrMalformed"
  <2>2. L!BadChunk => bad /\ L!Fail(e, L!h.next)
    BY SameNames DEF L!BadChunk
  <2>3. L!TakeChunk => ~bad
    BY SameNames DEF L!TakeChunk
  <2>4. R!StringKind(R!h.mt) = R!Top.kind <=> L!StringKind(L!h.mt) = L!Top.kind
    BY <1>4, <1>5, <2>1, SameNames
  <2>5. R!BadChunk => bad /\ R!Fail(e, L!h.next)
    BY <2>1, <2>4, SameNames DEF R!BadChunk
  <2>6. R!TakeChunk => ~bad
    BY <2>1, <2>4, SameNames DEF R!TakeChunk
  <2>7. ~L!CloseString /\ ~R!CloseString
    BY <1>7, <2>1 DEF L!CloseString, R!CloseString
  <2> HIDE DEF bad, e
  <2>8. CASE bad
    <3>1. L!Fail(e, L!h.next) /\ R!Fail(e, L!h.next)
      BY <1>2, <2>2, <2>3, <2>5, <2>6, <2>7, <2>8
    <3>2. Joined'
      BY <1>3, <3>1, FailTogether
    <3> QED BY <3>2 DEF Shared
  <2>9. CASE ~bad
    <3>1. L!TakeChunk /\ R!TakeChunk
      BY <1>2, <2>2, <2>3, <2>5, <2>6, <2>7, <2>9
    <3> QED BY <1>3, <2>1, <3>1, TakeTogether
  <2> QED BY <2>8, <2>9
<1>8. CASE L!AtBreak
  <2>1. R!AtBreak
    BY <1>8, SameBreak
  <2>2. L!CloseString /\ R!CloseString
    BY <1>2, <1>8, <2>1 DEF L!BadChunk, L!TakeChunk, R!BadChunk, R!TakeChunk
  <2> DEFINE t == L!Top.kind
             u == R!Top.kind
             s == L!Top.part
             j == li + 1
  <2>3. IF L!InvalidText(t, s) THEN L!Fail("ErrMalformed", j)
                               ELSE L!Yield(L!String(t, s), j, L!Front(lstack))
    BY <2>2 DEF L!CloseString
  <2>4. R!Top.part = s /\ (~Loose => u = t)
    BY <1>1, SameFrame
  <2>5. u # t => u # "text" /\ t # "text"
    BY <1>4
  <2>6. IF R!InvalidText(u, s) THEN R!Fail("ErrMalformed", j)
                               ELSE R!Yield(R!String(u, s), j, R!Front(rstack))
    BY <1>1, <2>2, <2>4 DEF R!CloseString
  <2> HIDE DEF t, u, s, j
  <2> QED BY <1>1, <1>3, <2>3, <2>4, <2>5, <2>6, StringTogether
<1> QED BY <1>6, <1>7, <1>8

LEMMA LoopTogether ==
  ASSUME LSound, Paired, Joined, L!Step, R!Step, lpc = "loop"
  PROVE  Shared'
<1>1. UNCHANGED <<lop, rop>> /\ rpc = "loop" /\ ri = li /\ lstack # <<>>
  BY LeftStays, RightStays DEF Joined, LSound
<1>2. /\ L!CutContainer \/ L!CloseContainer \/ L!NextItem
      /\ R!CutContainer \/ R!CloseContainer \/ R!NextItem
  BY <1>1, LeftSteps, RightSteps
<1>3. Stays
  BY <1>1, <1>2 DEF Stays, Joined, L!CutContainer, L!CloseContainer, L!NextItem, L!Inside,
                    R!CutContainer, R!CloseContainer, R!NextItem, R!Inside
<1>4. /\ R!Top.indef = L!Top.indef /\ R!Top.want = L!Top.want /\ R!Top.got = L!Top.got
      /\ L!Top.got \in Nat /\ L!Top.want \in Nat
  BY <1>1, SameFrame DEF L!Frames
<1>5. R!MidPair(R!Top) <=> L!MidPair(L!Top)
  BY <1>1, <1>4, SameFrame DEF L!MidPair, R!MidPair
<1>6. CASE L!CutContainer
  <2>1. L!Fail("ErrTruncated", li)
    BY <1>6 DEF L!CutContainer
  <2> QED BY <1>1, <2>1, LeftFails
<1>7. CASE L!CloseContainer
  <2>1. \/ L!Top.indef /\ ~L!MidPair(L!Top) /\ L!AtBreak
           /\ L!Yield(L!NoString, li + 1, L!Front(lstack))
        \/ ~L!Top.indef /\ L!Top.got = L!Top.want
           /\ L!Yield(L!NoString, li, L!Front(lstack))
    BY <1>7 DEF L!CloseContainer
  <2>2. CASE /\ L!Top.indef /\ ~L!MidPair(L!Top) /\ L!AtBreak
             /\ L!Yield(L!NoString, li + 1, L!Front(lstack))
    <3>1. R!AtBreak /\ li < Len(rb) /\ li \in Nat /\ Len(rb) \in Nat
      BY <2>2, SameBreak DEF Paired
    <3>2. R!Yield(L!NoString, li + 1, R!Front(rstack))
      BY <1>1, <1>2, <1>4, <1>5, <2>2, <3>1, SameNames
         DEF R!CutContainer, R!CloseContainer, R!NextItem
    <3>3. Joined'
      BY <1>1, <1>3, <2>2, <3>2, YieldTogether
    <3> QED BY <3>3 DEF Shared
  <2>3. CASE /\ ~L!Top.indef /\ L!Top.got = L!Top.want
             /\ L!Yield(L!NoString, li, L!Front(lstack))
    <3>1. R!Yield(L!NoString, li, R!Front(rstack))
      BY <1>1, <1>2, <1>4, <2>3, SameNames DEF R!CutContainer, R!CloseContainer, R!NextItem
    <3>2. Joined'
      BY <1>1, <1>3, <2>3, <3>1, YieldTogether
    <3> QED BY <3>2 DEF Shared
  <2> QED BY <2>1, <2>2, <2>3
<1>8. CASE L!NextItem
  <2>1. /\ IF L!Top.indef THEN L!MidPair(L!Top) \/ (li < Len(lb) /\ ~L!AtBreak)
                          ELSE L!Top.got < L!Top.want
        /\ lpc' = "call" /\ UNCHANGED <<li, lstack, lret, lerr>>
    BY <1>8 DEF L!NextItem
  <2>2. li < Len(lb) => li < Len(rb) /\ (R!AtBreak <=> L!AtBreak)
    BY SameBreak
  <2>3. li \in Nat /\ Len(rb) \in Nat
    BY SameBreak DEF Paired
  <2>4. R!NextItem
    BY <1>1, <1>2, <1>4, <1>5, <2>1, <2>2, <2>3 DEF R!CutContainer, R!CloseContainer
  <2>5. rpc' = "call" /\ UNCHANGED <<ri, rstack, rret, rerr>>
    BY <2>4 DEF R!NextItem
  <2>6. Joined'
    BY <1>3, <2>1, <2>5 DEF Joined, Stays, Loose, Alike, Like
  <2> QED BY <2>6 DEF Shared
<1> QED BY <1>2, <1>6, <1>7, <1>8

\* A cap that one of the two methods lacks.
LEMMA SameCaps ==
  ASSUME LSound, Paired, Joined, lstack # <<>>
  PROVE  /\ lop = rop => (R!OverCap(R!Top) <=> L!OverCap(L!Top))
         /\ R!OverCap(R!Top) /\ ~L!OverCap(L!Top) =>
              <<lop, rop>> \notin Narrower /\ "ErrTooLarge" \in Excused(lop, rop)
<1>1. lop = rop => R!Top = L!Top
  BY SameFrame DEF Loose
<1>2. lop = rop => (R!OverCap(R!Top) <=> L!OverCap(L!Top))
  BY <1>1 DEF L!OverCap, R!OverCap, L!MidPair, R!MidPair, L!Cardinality, R!Cardinality
<1>3. ASSUME lop # rop, R!OverCap(R!Top) PROVE rop = "decode"
  BY <1>3 DEF R!OverCap, Paired
<1>4. lop # rop /\ rop = "decode" =>
        <<lop, rop>> \notin Narrower /\ "ErrTooLarge" \in Excused(lop, rop)
  BY DEF Narrower, Excused, Ops
<1> QED BY <1>2, <1>3, <1>4

LEMMA IntoTogether ==
  ASSUME LSound, Paired, Joined, Stays, L!IntoContainer, R!IntoContainer
  PROVE  Shared'
<1>1. UNCHANGED <<lop, rop>> /\ lstack # <<>> /\ rpc = lpc /\ ri = li /\ rerr = lerr
  BY DEF Stays, L!IntoContainer, Joined
<1>2. CASE L!OverCap(L!Top) /\ lop # rop
  <2>1. L!Fail("ErrTooLarge", li)
    BY <1>2 DEF L!IntoContainer
  <2> QED BY <1>1, <1>2, <2>1, LeftFails
<1>3. CASE L!OverCap(L!Top) /\ lop = rop
  <2>1. R!OverCap(R!Top)
    BY <1>1, <1>3, SameCaps
  <2>2. L!Fail("ErrTooLarge", li) /\ R!Fail("ErrTooLarge", li)
    BY <1>1, <1>3, <2>1 DEF L!IntoContainer, R!IntoContainer
  <2>3. Joined'
    BY <2>2, FailTogether
  <2> QED BY <2>3 DEF Shared
<1>4. CASE ~L!OverCap(L!Top) /\ R!OverCap(R!Top)
  <2>1. R!Fail("ErrTooLarge", ri)
    BY <1>4 DEF R!IntoContainer
  <2> QED BY <1>1, <1>4, <2>1, SameCaps, RightFails
<1>5. CASE ~L!OverCap(L!Top) /\ ~R!OverCap(R!Top)
  <2> DEFINE f == [L!Top EXCEPT !.got = @ + 1, !.keys = @ \cup L!NewKeys]
             g == [R!Top EXCEPT !.got = @ + 1, !.keys = @ \cup R!NewKeys]
  <2>1. /\ lstack' = [lstack EXCEPT ![Len(lstack)].got = @ + 1,
                                    ![Len(lstack)].keys = @ \cup L!NewKeys]
        /\ rstack' = [rstack EXCEPT ![Len(rstack)].got = @ + 1,
                                    ![Len(rstack)].keys = @ \cup R!NewKeys]
        /\ lpc' = "loop" /\ lret' = L!NoString /\ UNCHANGED <<li, lerr>>
        /\ rpc' = "loop" /\ rret' = R!NoString /\ UNCHANGED <<ri, rerr>>
    BY <1>5 DEF L!IntoContainer, R!IntoContainer
  <2>2. L!NewKeys \in SUBSET Seq(L!Byte)
    BY DEF L!NewKeys, LSound, Strings, L!Byte, Byte
  <2>3. (~Loose => R!NewKeys = L!NewKeys) /\ (Loose => R!NewKeys = {})
    <3>1. ~Loose => rret = lret /\ (R!AtJsonKey <=> L!AtJsonKey)
      BY SameCall DEF Joined
    <3>2. Loose => ~R!AtJsonKey
      BY SameCall
    <3> QED BY <3>1, <3>2 DEF L!NewKeys, R!NewKeys
  <2>4. /\ L!Top \in L!Frames /\ R!Top \in L!Frames /\ R!Top.got = L!Top.got
        /\ L!Top = lstack[Len(lstack)] /\ R!Top = rstack[Len(rstack)] /\ rstack # <<>>
        /\ IF Loose THEN Like(L!Top, R!Top) ELSE R!Top = L!Top
    BY <1>1, SameFrame
  <2>5. /\ L!Top.got + 1 \in Nat /\ L!Top.keys \cup L!NewKeys \in SUBSET Seq(L!Byte)
        /\ R!Top.got + 1 \in Nat /\ R!Top.keys \cup R!NewKeys \in SUBSET Seq(L!Byte)
    BY <2>2, <2>3, <2>4 DEF L!Frames
  <2>6. f \in L!Frames /\ g \in L!Frames
    BY <2>4, <2>5 DEF L!Frames
  <2>7. IF Loose THEN Like(f, g) ELSE g = f
    BY <2>3, <2>4 DEF Like, L!Frames
  <2>8. lstack \in Seq(L!Frames) /\ rstack \in Seq(L!Frames)
    <3>1. IF Loose THEN Alike ELSE rstack = lstack
      BY DEF Joined
    <3> QED BY <3>1 DEF LSound, Alike
  <2>9. /\ lstack' = [lstack EXCEPT ![Len(lstack)] = f]
        /\ rstack' = [rstack EXCEPT ![Len(rstack)] = g]
    BY <2>1, <2>4, <2>8
  <2>10. rpc' = lpc' /\ ri' = li' /\ rerr' = lerr' /\ rret' = lret'
    BY <1>1, <2>1, SameNames
  <2> HIDE DEF f, g
  <2>11. Joined'
    BY <1>1, <2>6, <2>7, <2>9, <2>10, GrowTogether
  <2> QED BY <2>11 DEF Shared
<1> QED BY <1>2, <1>3, <1>4, <1>5

LEMMA ReturnTogether ==
  ASSUME LSound, Paired, Joined, L!Step, R!Step, lpc = "return"
  PROVE  Shared'
<1>1. UNCHANGED <<lop, rop>> /\ rpc = "return" /\ ri = li /\ rerr = lerr
  BY LeftStays, RightStays DEF Joined
<1>2. /\ L!ThroughTag \/ L!IntoContainer \/ L!Finish
      /\ R!ThroughTag \/ R!IntoContainer \/ R!Finish
  BY <1>1, LeftSteps, RightSteps
<1>3. Stays
  BY <1>1, <1>2 DEF Stays, Joined, L!ThroughTag, L!IntoContainer, L!Finish, L!Inside,
                    R!ThroughTag, R!IntoContainer, R!Finish, R!Inside
<1>4. rstack = <<>> <=> lstack = <<>>
  BY SameTop
<1>5. CASE L!Finish
  <2>1. R!Finish
    BY <1>2, <1>4, <1>5 DEF L!Finish, R!ThroughTag, R!IntoContainer
  <2>2. /\ lpc' = "done" /\ lerr' = "nil" /\ UNCHANGED <<li, lstack, lret>>
        /\ rpc' = "done" /\ rerr' = "nil" /\ UNCHANGED <<ri, rstack, rret>>
    BY <1>5, <2>1 DEF L!Finish, R!Finish
  <2>3. Joined'
    BY <1>3, <2>2 DEF Joined, Stays, Loose, Alike, Like
  <2> QED BY <2>3 DEF Shared
<1>6. CASE L!IntoContainer
  <2>1. lstack # <<>> /\ L!Top.kind \in {"array", "map"}
    BY <1>6 DEF L!IntoContainer
  <2>2. R!Top.kind \in {"array", "map"}
    BY <2>1, SameFrame
  <2>3. R!IntoContainer
    BY <1>2, <1>4, <2>1, <2>2 DEF R!ThroughTag, R!Finish
  <2> QED BY <1>3, <1>6, <2>3, IntoTogether
<1>7. CASE L!ThroughTag
  <2>1. lstack # <<>> /\ L!Top.kind \in {"tag", "keytag"}
    BY <1>7 DEF L!ThroughTag
  <2>2. /\ R!Top.kind \in {"tag", "keytag"}
        /\ IF Loose THEN Like(L!Top, R!Top) ELSE R!Top = L!Top
    BY <2>1, SameFrame
  <2>3. R!ThroughTag
    BY <1>2, <1>4, <2>1, <2>2 DEF R!IntoContainer, R!Finish
  <2>4. Loose => R!Top.kind # "keytag"
    BY <2>2 DEF Like
  <2>5. ~Loose => rret = lret
    BY DEF Joined
  <2>6. CASE L!Top.kind = "keytag" /\ lret.t # "text"
    <3>1. L!Fail("ErrMalformed", li)
      BY <1>7, <2>6 DEF L!ThroughTag
    <3>2. CASE lop # rop
      BY <1>1, <3>1, <3>2, LeftFails
    <3>3. CASE lop = rop
      <4>1. ~Loose
        BY <3>3 DEF Loose
      <4>2. R!Fail("ErrMalformed", li)
        BY <1>1, <2>2, <2>3, <2>5, <2>6, <4>1 DEF R!ThroughTag
      <4>3. Joined'
        BY <1>3, <3>1, <4>2, FailTogether
      <4> QED BY <4>3 DEF Shared
    <3> QED BY <3>2, <3>3
  <2>7. CASE ~(L!Top.kind = "keytag" /\ lret.t # "text")
    <3>1. L!Yield(lret, li, L!Front(lstack))
      BY <1>7, <2>7 DEF L!ThroughTag
    <3>2. R!Yield(rret, li, R!Front(rstack))
      BY <1>1, <2>2, <2>3, <2>4, <2>5, <2>7 DEF R!ThroughTag
    <3>3. Joined'
      BY <1>3, <2>1, <2>5, <3>1, <3>2, YieldTogether
    <3> QED BY <3>3 DEF Shared
  <2> QED BY <2>6, <2>7
<1> QED BY <1>2, <1>5, <1>6, <1>7

-----------------------------------------------------------------------------
LEMMA StepTogether ==
  ASSUME PInv, L!Step, R!Step PROVE Shared'
<1>1. Joined
  BY LeftStays, RightStays DEF PInv, Shared, LFailed, Excusing
<1>2. LSound /\ Paired
  BY DEF PInv
<1>3. lpc \in {"call", "chunk", "loop", "return"}
  BY LeftSteps
<1> QED BY <1>1, <1>2, <1>3, CallTogether, ChunkTogether, LoopTogether, ReturnTogether

\* PInv is inductive.
LEMMA PInvInit == Init => PInv
<1> SUFFICES ASSUME Init PROVE PInv
  OBVIOUS
<1>1. L!Init /\ R!Init
  BY DEF Init
<1>2. L!NoString \in Strings /\ R!NoString = L!NoString
  BY SameNames DEF L!NoString, Strings
<1>3. lb \in Seq(Byte) /\ lop \in Ops
  BY <1>1 DEF L!Init, L!Byte, Byte
<1>4. LSound
  BY <1>1, <1>2, <1>3 DEF L!Init, LSound
<1>5. Paired
  <2>1. CASE /\ rb \in Buffers /\ lb = rb
             /\ \E m \in Methods : lop = m[1] /\ rop = m[2]
    BY <2>1, BuffersAssumption, MethodsAssumption DEF Paired
  <2>2. CASE /\ rb \in Cuts /\ lop \in Ops /\ rop = lop
             /\ \E k \in 0 .. Len(rb) - 1 : lb = SubSeq(rb, 1, k)
    <3>1. rb \in Seq(Byte)
      BY <2>2, BuffersAssumption
    <3>2. PICK k \in 0 .. Len(rb) - 1 : lb = SubSeq(rb, 1, k)
      BY <2>2
    <3>3. Len(SubSeq(rb, 1, k)) = k /\ \A n \in 1 .. k : SubSeq(rb, 1, k)[n] = rb[n]
      BY <3>1
    <3> QED BY <2>2, <3>1, <3>2, <3>3 DEF Paired
  <2> QED BY <2>1, <2>2 DEF Init
<1>6. Joined
  BY <1>1, <1>2 DEF Joined, L!Init, R!Init, Alike
<1> QED BY <1>4, <1>5, <1>6 DEF PInv, Shared

LEMMA PInvNext == PInv /\ [Next]_vars => PInv'
<1> SUFFICES ASSUME PInv, [Next]_vars PROVE PInv'
  OBVIOUS
<1>1. LSound /\ Paired /\ Shared
  BY DEF PInv
<1>2. ASSUME UNCHANGED <<lb, rb, lop, rop>> PROVE Paired'
  BY <1>1, <1>2 DEF Paired
<1>3. CASE Both
  <2>1. L!Step /\ R!Step
    BY <1>3 DEF Both
  <2> QED BY <1>1, <1>2, <2>1, LeftSound, LeftStays, RightStays, StepTogether DEF PInv
<1>4. CASE LeftOn
  <2>1. L!Step /\ rpc = "done" /\ UNCHANGED <<rb, rop, rpc, rerr>>
    BY <1>4 DEF LeftOn, rvars
  <2>2. lpc # "done" /\ UNCHANGED <<lb, lop>>
    BY <2>1, LeftStays
  <2>3. Excusing
    BY <1>1, <2>1, <2>2 DEF Shared, Joined, LFailed
  <2>4. Excusing'
    BY <2>1, <2>2, <2>3 DEF Excusing, Excused
  <2> QED BY <1>1, <1>2, <2>1, <2>2, <2>4, LeftSound DEF PInv, Shared
<1>5. CASE RightOn
  <2>1. R!Step /\ lpc = "done" /\ UNCHANGED <<lb, li, litems, lop, lpc, lstack, lret, lerr>>
    BY <1>5 DEF RightOn, lvars
  <2>2. rpc # "done" /\ UNCHANGED <<rb, rop>>
    BY <2>1, RightStays
  <2>3. LFailed /\ (lop # rop \/ lerr = "ErrTruncated")
    BY <1>1, <2>1, <2>2 DEF Shared, Joined, Excusing
  <2>4. Shared' /\ LSound'
    BY <1>1, <2>1, <2>2, <2>3 DEF Shared, LFailed, LSound
  <2> QED BY <1>2, <2>1, <2>2, <2>4 DEF PInv
<1>6. CASE UNCHANGED vars
  BY <1>1, <1>6 DEF vars, lvars, rvars, PInv, LSound, Paired, Shared, Joined, Alike, Like,
                    Loose, LFailed, Excusing, Excused
<1> QED BY <1>3, <1>4, <1>5, <1>6 DEF Next

LEMMA PInvHolds == Spec => []PInv
BY PInvInit, PInvNext, PTL DEF Spec

\* Decode, SkipStrict and the walk of Skip and RawNext share one grammar, one
\* limit check and one budget: as long as the narrower one has not failed,
\* the other has read the same and stands at the same place, and so have two
\* walks with one method over a buffer and a part of it.
THEOREM ParityInStep == Spec => []InStep
<1>1. ASSUME PInv PROVE InStep
  <2>1. <<lop, rop>> \in Narrower => ~Loose
    BY DEF Narrower, Loose, Ops
  <2> QED BY <1>1, <2>1 DEF PInv, Shared, Joined, LFailed, Excusing, InStep
<1> QED BY <1>1, PInvHolds, PTL

\* A verdict other than ErrTruncated, the span it is about and the items it
\* counted stand for every longer buffer (limits.go:14): a stream that reads
\* on after ErrTruncated alone loses nothing, whatever it reads.
THEOREM ParityStable == Spec => []Stable
<1>1. ASSUME PInv PROVE Stable
  <2>1. lop = rop => <<lop, rop>> \in Narrower
    BY <1>1 DEF PInv, Paired, Narrower
  <2> QED BY <1>1, <2>1 DEF PInv, Shared, Joined, LFailed, Excusing, Stable, BothDone
<1> QED BY <1>1, PInvHolds, PTL

\* What one method accepts, another that promises to follow it accepts with
\* the same span, or refuses for a reason the two are known to differ in;
\* what Decode accepts is accepted without exception.
THEOREM ParityCovered == Spec => []Covered
<1>1. ASSUME PInv PROVE Covered
  <2>1. Excusing => lop # "decode"
    BY <1>1 DEF PInv, Paired, Excusing, Narrower, Ops
  <2> QED BY <1>1, <2>1 DEF PInv, Shared, Joined, LFailed, Excusing, Covered, BothDone
<1> QED BY <1>1, PInvHolds, PTL
=============================================================================
