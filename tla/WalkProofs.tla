----------------------------- MODULE WalkProofs -----------------------------
(***************************************************************************)
(* What holds of a Decoder for every buffer, every choice of limits and    *)
(* every sequence of calls.  The invariants of Walk are proved together,   *)
(* since each step needs the others: the cursor bound needs the head's,    *)
(* the reservation bound needs that every open call has read a head of its *)
(* own (Paid), the recursion bound needs the depth of every frame (Deep).  *)
(***************************************************************************)
EXTENDS Walk, CborProofs

\* Which calls are open in which phase, and that a verdict ends the walk.
Framed ==
  /\ pc \in {"chunk", "loop"} => stack # <<>>
  /\ pc = "chunk" => stack[Len(stack)].kind \in {"bytes", "text"}
  /\ pc = "done" => stack = <<>>
  /\ pc # "done" => err = "nil"

\* A frame has a depth that was not refused; a call one level down has one
\* less, a tagged key of a JSON map the depth of its map.
FrameDeep(f, k, o) ==
  /\ f.depth >= 0
  /\ 2 * f.depth + k <= 2 * MaxDepth + (IF f.kind = "keytag" THEN 2 ELSE 1)
  /\ o # "json" => f.depth = MaxDepth - (k - 1)

Deep == \A k \in 1 .. Len(stack) : FrameDeep(stack[k], k, op)

\* Every open call has read a head of its own.
Paid == start + Len(stack) <= i

IInv ==
  /\ TypeOK
  /\ CursorInBounds
  /\ BudgetKept
  /\ PresizeBounded
  /\ Framed
  /\ Deep
  /\ Paid

-----------------------------------------------------------------------------
\* What the head at the cursor is in a state of the invariant.
LEMMA HeadHere ==
  ASSUME IInv
  PROVE  /\ HeadOK(h, i, Len(b))
         /\ Len(b) \in Nat
BY HeadType DEF IInv, TypeOK, CursorInBounds, h

\* The innermost call is the last frame.
LEMMA InnermostFrame ==
  ASSUME IInv, stack # <<>>
  PROVE  /\ Top \in Frames
         /\ stack \in Seq(Frames)
         /\ Top = stack[Len(stack)]
         /\ Len(stack) \in 1 .. Len(stack)
BY DEF IInv, TypeOK, Top, Last

\* The empty string is a chunk list with nothing in it.
LEMMA NoStringType == NoString \in [t : {"other", "bytes", "text"}, s : Seq(Byte)]
BY DEF NoString

\* A walk that fails keeps the invariant, whatever it had open.
LEMMA FailKeeps ==
  ASSUME IInv, pc # "done", UNCHANGED <<b, op, start>>,
         NEW e \in Verdicts, e # "nil",
         NEW j \in Nat, i <= j, j <= Len(b),
         \/ items' = items
         \/ items' = items + 1 /\ (items < MaxTotalItems \/ e = "ErrTooLarge"),
         Fail(e, j)
  PROVE  IInv'
<1> USE LimitsAssumption DEF IInv
<1>1. /\ pc' = "done" /\ err' = e /\ i' = j /\ stack' = <<>> /\ ret' = NoString
      /\ b' = b /\ op' = op /\ start' = start
  BY DEF Fail
<1>2. err = "nil" /\ items <= MaxTotalItems /\ items <= i
  BY DEF Framed, BudgetKept, TypeOK
<1>3. TypeOK'
  BY <1>1, NoStringType DEF TypeOK
<1>4. CursorInBounds'
  BY <1>1 DEF CursorInBounds, TypeOK
<1>5. BudgetKept'
  BY <1>1, <1>2 DEF BudgetKept, TypeOK
<1>6. PresizeBounded' /\ Deep'
  BY <1>1 DEF PresizeBounded, Deep
<1>7. Framed'
  BY <1>1 DEF Framed
<1>8. Paid'
  BY <1>1 DEF Paid, CursorInBounds, TypeOK
<1> QED BY <1>3, <1>4, <1>5, <1>6, <1>7, <1>8

\* So does a call that returns, to the frame it came from or from the frame
\* that made it.
LEMMA YieldKeeps ==
  ASSUME IInv, pc # "done", UNCHANGED <<b, op, start>>,
         NEW v \in [t : {"other", "bytes", "text"}, s : Seq(Byte)],
         NEW j \in Nat, i <= j, j <= Len(b),
         NEW rest, rest = stack \/ (stack # <<>> /\ rest = Front(stack)),
         \/ items' = items
         \/ items' = items + 1 /\ items < MaxTotalItems /\ i + 1 <= j,
         Yield(v, j, rest)
  PROVE  IInv'
<1> USE LimitsAssumption DEF IInv
<1>1. /\ pc' = "return" /\ err' = err /\ i' = j /\ stack' = rest /\ ret' = v
      /\ b' = b /\ op' = op /\ start' = start
  BY DEF Yield
<1>2. err = "nil" /\ items <= MaxTotalItems /\ items <= i
  BY DEF Framed, BudgetKept, TypeOK
<1>3. /\ rest \in Seq(Frames)
      /\ Len(rest) <= Len(stack)
      /\ \A k \in 1 .. Len(rest) : k \in 1 .. Len(stack) /\ rest[k] = stack[k]
  <2>1. stack \in Seq(Frames)
    BY DEF TypeOK
  <2>2. CASE rest = stack
    BY <2>1, <2>2
  <2>3. CASE stack # <<>> /\ rest = Front(stack)
    <3>1. Len(stack) \in Nat
      BY <2>1
    <3>2. /\ rest \in Seq(Frames)
          /\ Len(rest) = Len(stack) - 1
          /\ \A k \in 1 .. Len(stack) - 1 : rest[k] = stack[k]
      BY <2>1, <2>3, FrontOf
    <3> QED BY <3>1, <3>2
  <2> QED BY <2>2, <2>3
<1>4. TypeOK'
  BY <1>1, <1>3 DEF TypeOK
<1>5. CursorInBounds'
  BY <1>1 DEF CursorInBounds, TypeOK
<1>6. BudgetKept'
  BY <1>1, <1>2 DEF BudgetKept, TypeOK
<1>7. PresizeBounded'
  <2>1. pc' \notin {"call", "loop"}
    BY <1>1
  <2>2. \A k \in 1 .. Len(stack') : start' + k + stack'[k].want <= Len(b')
    BY <1>1, <1>3 DEF PresizeBounded
  <2> QED BY <2>1, <2>2 DEF PresizeBounded
<1>8. Deep'
  BY <1>1, <1>3 DEF Deep, FrameDeep
<1>9. Framed'
  BY <1>1, <1>2 DEF Framed
<1>10. Paid'
  BY <1>1, <1>3 DEF Paid, TypeOK
<1> QED BY <1>4, <1>5, <1>6, <1>7, <1>8, <1>9, <1>10

\* So does a call that opens a frame, when the head paid for what it reserves.
LEMMA PushKeeps ==
  ASSUME IInv, pc = "call", UNCHANGED <<b, op, start>>,
         items' = items + 1, items < MaxTotalItems, h.err = "nil",
         NEW f \in Frames, FrameDeep(f, Len(stack) + 1, op),
         h.next + f.want <= Len(b),
         NEW where \in {"call", "chunk", "loop"},
         where = "chunk" => f.kind \in {"bytes", "text"},
         Push(f, where)
  PROVE  IInv'
<1> USE LimitsAssumption, HeadHere DEF IInv
<1>1. /\ pc' = where /\ err' = err /\ i' = h.next /\ stack' = Append(stack, f)
      /\ ret' = ret /\ b' = b /\ op' = op /\ start' = start
  BY DEF Push
<1>2. err = "nil" /\ items <= i
  BY DEF Framed, BudgetKept, TypeOK
<1>3. h.next \in Nat /\ i + 1 <= h.next /\ h.next <= Len(b)
  BY DEF HeadOK, TypeOK
<1>4. /\ stack' \in Seq(Frames)
      /\ Len(stack') = Len(stack) + 1
      /\ \A k \in 1 .. Len(stack) + 1 :
           stack'[k] = IF k = Len(stack) + 1 THEN f ELSE stack[k]
  <2>1. stack \in Seq(Frames)
    BY DEF TypeOK
  <2> QED BY <1>1, <2>1, Appended
<1>5. TypeOK'
  BY <1>1, <1>3, <1>4 DEF TypeOK
<1>6. CursorInBounds'
  BY <1>1, <1>3 DEF CursorInBounds, TypeOK
<1>7. BudgetKept'
  BY <1>1, <1>2, <1>3 DEF BudgetKept, TypeOK
<1>8. PresizeBounded'
  <2>1. f.want \in Nat
    BY DEF Frames
  <2>2. start \in Nat /\ Len(stack) \in Nat /\ i \in Nat /\ Len(b) \in Nat
    BY DEF TypeOK
  <2>3. start + (Len(stack) + 1) + f.want <= Len(b)
    BY <1>3, <2>1, <2>2 DEF Paid
  <2>4. Top'.want <= Len(b') - i'
    <3>1. Top' = f
      BY <1>4, <2>2 DEF Top, Last
    <3> QED BY <3>1, <1>1, <1>3, <2>1, <2>2
  <2>5. ASSUME NEW k \in 1 .. Len(stack) + 1
        PROVE  start + k + stack'[k].want <= Len(b)
    <3>1. CASE k = Len(stack) + 1
      BY <1>4, <2>3, <3>1
    <3>2. CASE k # Len(stack) + 1
      BY <1>4, <2>2, <3>2 DEF PresizeBounded
    <3> QED BY <3>1, <3>2
  <2> QED BY <1>1, <1>4, <2>4, <2>5 DEF PresizeBounded
<1>9. Deep'
  <2>1. Len(stack) \in Nat
    BY DEF TypeOK
  <2> SUFFICES ASSUME NEW k \in 1 .. Len(stack) + 1
               PROVE  FrameDeep(stack'[k], k, op)
    BY <1>1, <1>4 DEF Deep
  <2>2. CASE k = Len(stack) + 1
    BY <1>4, <2>2
  <2>3. CASE k # Len(stack) + 1
    BY <1>4, <2>1, <2>3 DEF Deep
  <2> QED BY <2>2, <2>3
<1>10. Framed'
  <2>1. Len(stack) + 1 \in 1 .. Len(stack) + 1
    BY DEF TypeOK
  <2>2. stack' # <<>> /\ stack'[Len(stack')] = f
    BY <1>4, <2>1
  <2> QED BY <1>1, <1>2, <2>2 DEF Framed
<1>11. Paid'
  BY <1>1, <1>3, <1>4 DEF Paid, TypeOK
<1> QED BY <1>5, <1>6, <1>7, <1>8, <1>9, <1>10, <1>11

\* So does a frame that takes in a chunk or an element.
LEMMA GrowKeeps ==
  ASSUME IInv, pc # "done", UNCHANGED <<b, op, start, items, err>>,
         stack # <<>>,
         NEW f \in Frames,
         f.kind = Top.kind, f.depth = Top.depth, f.want = Top.want,
         stack' = [stack EXCEPT ![Len(stack)] = f],
         NEW j \in Nat, i <= j, j <= Len(b), i' = j,
         (pc' = "loop" /\ f.got # 0) \/ (pc = "chunk" /\ pc' = "chunk"),
         ret' \in [t : {"other", "bytes", "text"}, s : Seq(Byte)]
  PROVE  IInv'
<1> USE LimitsAssumption DEF IInv
<1>1. /\ stack' \in Seq(Frames)
      /\ Len(stack') = Len(stack)
      /\ stack' # <<>>
      /\ \A k \in 1 .. Len(stack) : /\ stack'[k].kind = stack[k].kind
                                    /\ stack'[k].depth = stack[k].depth
                                    /\ stack'[k].want = stack[k].want
      /\ stack'[Len(stack')] = f
  <2>1. stack \in Seq(Frames) /\ Len(stack) \in Nat
    BY DEF TypeOK
  <2>2. /\ stack' \in Seq(Frames)
        /\ Len(stack') = Len(stack)
        /\ \A k \in 1 .. Len(stack) :
             stack'[k] = IF k = Len(stack) THEN f ELSE stack[k]
    BY <2>1, LastReplaced
  <2>3. Len(stack) # 0 /\ stack' # <<>>
    BY <2>1, <2>2
  <2>4. stack'[Len(stack')] = f
    BY <2>1, <2>2, <2>3
  <2> QED BY <2>2, <2>3, <2>4 DEF Last, Top
<1>2. err = "nil"
  BY DEF Framed
<1>3. TypeOK'
  BY <1>1 DEF TypeOK
<1>4. CursorInBounds'
  BY DEF CursorInBounds, TypeOK
<1>5. BudgetKept'
  BY <1>2 DEF BudgetKept, TypeOK
<1>6. PresizeBounded'
  <2>1. pc' \in {"call", "loop"} => Top'.got # 0
    BY <1>1 DEF Top, Last
  <2>2. \A k \in 1 .. Len(stack') : start' + k + stack'[k].want <= Len(b')
    BY <1>1 DEF PresizeBounded
  <2> QED BY <2>1, <2>2 DEF PresizeBounded
<1>7. Deep'
  BY <1>1 DEF Deep, FrameDeep
<1>8. Framed'
  <2>1. Len(stack) \in 1 .. Len(stack)
    BY InnermostFrame
  <2>2. stack'[Len(stack')].kind = stack[Len(stack)].kind
    BY <1>1, <2>1
  <2> QED BY <1>1, <1>2, <2>2 DEF Framed
<1>9. Paid'
  <2>1. Len(stack) \in Nat /\ start \in Nat /\ i \in Nat /\ start' = start
    BY DEF TypeOK
  <2>2. start + Len(stack) <= i
    BY DEF Paid
  <2>3. Len(stack') = Len(stack)
    BY <1>1
  <2>4. start' + Len(stack') <= i'
    BY <2>1, <2>2, <2>3
  <2> QED BY <2>4 DEF Paid
<1> QED BY <1>3, <1>4, <1>5, <1>6, <1>7, <1>8, <1>9

-----------------------------------------------------------------------------
\* The depth of a call is an integer, negative when the call is refused.
LEMMA CallDepthInt ==
  ASSUME IInv PROVE CallDepth \in Int
<1>1. stack \in Seq(Frames) /\ MaxDepth \in Int
  BY LimitsAssumption DEF IInv, TypeOK
<1>2. CASE stack = <<>>
  BY <1>1, <1>2 DEF CallDepth
<1>3. CASE stack # <<>>
  <2>1. Top \in Frames
    BY <1>1, <1>3 DEF Top, Last
  <2>2. Top.depth \in Int
    BY <2>1 DEF Frames
  <2> QED BY <1>3, <2>2 DEF CallDepth
<1> QED BY <1>2, <1>3

\* A call that is not refused gets a depth its frame may have.
LEMMA CallFrame ==
  ASSUME IInv, CallDepth >= 0,
         NEW kind \in Kinds, NEW indef \in BOOLEAN, NEW want \in Nat
  PROVE  /\ Frame(kind, CallDepth, indef, want) \in Frames
         /\ FrameDeep(Frame(kind, CallDepth, indef, want), Len(stack) + 1, op)
<1> USE LimitsAssumption DEF IInv
<1>1. stack \in Seq(Frames) /\ Len(stack) \in Nat
  BY DEF TypeOK
<1>2. CASE stack = <<>>
  <2>1. CallDepth = MaxDepth /\ Len(stack) = 0
    BY <1>2 DEF CallDepth
  <2> QED BY <2>1 DEF Frame, Frames, FrameDeep
<1>3. CASE stack # <<>>
  <2>1. Len(stack) \in 1 .. Len(stack)
    BY <1>1, <1>3
  <2>2. Top = stack[Len(stack)] /\ Top \in Frames
    BY <1>1, <2>1 DEF Top, Last
  <2>3. Top.depth \in Int
    BY <2>2 DEF Frames
  <2>4. FrameDeep(Top, Len(stack), op)
    BY <2>1, <2>2 DEF Deep
  <2>5. CallDepth = Top.depth - 1
    BY <1>3 DEF CallDepth
  <2>6. Frame(kind, CallDepth, indef, want) \in Frames
    BY <2>5, <2>3 DEF Frame, Frames
  <2> HIDE DEF Top, CallDepth
  <2>7. /\ 2 * CallDepth + (Len(stack) + 1) <= 2 * MaxDepth + 1
        /\ op # "json" => CallDepth = MaxDepth - Len(stack)
    BY <1>1, <2>4, <2>5, <2>3 DEF FrameDeep
  <2>8. /\ Frame(kind, CallDepth, indef, want).depth = CallDepth
        /\ MaxDepth - ((Len(stack) + 1) - 1) = MaxDepth - Len(stack)
    BY <1>1 DEF Frame
  <2> QED BY <2>6, <2>7, <2>8, <1>1, <2>5, <2>3 DEF FrameDeep
<1> QED BY <1>2, <1>3

\* The tag jsonPair reads before a key runs at the depth of its map.
LEMMA KeyTagFrame ==
  ASSUME IInv, AtJsonKey
  PROVE  /\ Frame("keytag", Top.depth, FALSE, 0) \in Frames
         /\ FrameDeep(Frame("keytag", Top.depth, FALSE, 0), Len(stack) + 1, op)
<1> USE LimitsAssumption DEF IInv
<1>1. stack \in Seq(Frames) /\ Len(stack) \in Nat /\ stack # <<>>
  BY DEF TypeOK, AtJsonKey
<1>2. Len(stack) \in 1 .. Len(stack)
  BY <1>1
<1>3. Top = stack[Len(stack)] /\ Top \in Frames
  BY <1>1, <1>2 DEF Top, Last
<1>4. Top.depth \in Int /\ Top.kind = "map" /\ op = "json"
  BY <1>3 DEF Frames, AtJsonKey, AtKey
<1>5. FrameDeep(Top, Len(stack), op)
  BY <1>2, <1>3 DEF Deep
<1>6. Frame("keytag", Top.depth, FALSE, 0) \in Frames
  BY <1>4 DEF Frame, Frames, Kinds
<1> QED BY <1>1, <1>4, <1>5, <1>6 DEF Frame, FrameDeep

\* A chunk that is not refused lies inside the buffer (Decoder.chunk).
LEMMA ChunkFits ==
  ASSUME IInv
  PROVE  /\ ChunkError \in Verdicts
         /\ h.next \in Nat /\ h.arg \in Nat
         /\ ChunkError = "nil" => /\ h.next + h.arg \in Nat
                                 /\ h.next + h.arg <= Len(b)
                                 /\ ChunkBytes \in Seq(Byte)
<1>1. h.next \in Nat /\ h.arg \in Nat /\ h.next <= Len(b) /\ b \in Seq(Byte)
  BY HeadHere DEF HeadOK, IInv, TypeOK
<1>2. ChunkError \in Verdicts
  BY DEF ChunkError, Verdicts
<1>3. ChunkError = "nil" => ~(h.next + h.arg > Len(b))
  BY <1>1, LimitsAssumption DEF ChunkError
<1> HIDE DEF ChunkError
<1>4. ASSUME ChunkError = "nil" PROVE ChunkBytes \in Seq(Byte)
  BY <1>1, <1>3, <1>4 DEF ChunkBytes
<1> QED BY <1>1, <1>2, <1>3, <1>4

-----------------------------------------------------------------------------
\* An item that is admitted has a head of at least one byte, which pays for it.
LEMMA HeadRead ==
  ASSUME IInv, Admitted
  PROVE  /\ pc = "call" /\ UNCHANGED <<b, op, start>>
         /\ items' = items + 1 /\ items < MaxTotalItems
         /\ h.err = "nil"
         /\ h.next \in Nat /\ i + 1 <= h.next /\ h.next <= Len(b)
BY HeadHere DEF Admitted, Counted, HeadOK

\* The three ways out of an item that is admitted.
LEMMA FailAfterHead ==
  ASSUME IInv, Admitted, NEW e \in Verdicts, e # "nil",
         NEW j \in Nat, h.next <= j, j <= Len(b), Fail(e, j)
  PROVE  IInv'
<1>1. i \in Nat /\ Len(b) \in Nat
  BY DEF IInv, TypeOK
<1>2. i <= j /\ pc # "done"
  BY <1>1, HeadRead
<1> QED BY <1>2, HeadRead, FailKeeps

LEMMA YieldAfterHead ==
  ASSUME IInv, Admitted, NEW v \in [t : {"other", "bytes", "text"}, s : Seq(Byte)],
         NEW j \in Nat, h.next <= j, j <= Len(b), Yield(v, j, stack)
  PROVE  IInv'
<1>1. i \in Nat /\ Len(b) \in Nat
  BY DEF IInv, TypeOK
<1>2. i <= j /\ i + 1 <= j /\ pc # "done"
  BY <1>1, HeadRead
<1> QED BY <1>2, HeadRead, YieldKeeps

LEMMA PushAfterHead ==
  ASSUME IInv, Admitted, NEW f \in Frames, FrameDeep(f, Len(stack) + 1, op),
         h.next + f.want <= Len(b),
         NEW where \in {"call", "chunk", "loop"}, Push(f, where),
         where = "chunk" => f.kind \in {"bytes", "text"}
  PROVE  IInv'
BY HeadRead, PushKeeps

\* A string carried to a JSON map is typed.
LEMMA StringType ==
  ASSUME NEW t \in {"bytes", "text"}, NEW s \in Seq(Byte)
  PROVE  String(t, s) \in [t : {"other", "bytes", "text"}, s : Seq(Byte)]
BY NoStringType DEF String

-----------------------------------------------------------------------------
\* One lemma per action of the walk that reads an item.
LEMMA TooDeepKeeps == ASSUME IInv, TooDeep PROVE IInv'
<1>1. i \in Nat /\ i <= i /\ i <= Len(b) /\ items' = items
  BY DEF IInv, TypeOK, CursorInBounds, TooDeep
<1> QED BY <1>1, FailKeeps DEF TooDeep, Verdicts

LEMMA OverBudgetKeeps == ASSUME IInv, OverBudget PROVE IInv'
<1>1. i \in Nat /\ i <= i /\ i <= Len(b)
  BY DEF IInv, TypeOK, CursorInBounds
<1> QED BY <1>1, FailKeeps DEF OverBudget, Counted, Verdicts

LEMMA BadHeadKeeps == ASSUME IInv, BadHead PROVE IInv'
<1>1. h.next \in Nat /\ i <= h.next /\ h.next <= Len(b)
  BY HeadHere DEF HeadOK
<1>2. h.err \in Verdicts /\ h.err # "nil"
  BY HeadHere DEF HeadOK, BadHead, Verdicts
<1> QED BY <1>1, <1>2, FailKeeps DEF BadHead, Counted

LEMMA KeyNotStringKeeps == ASSUME IInv, KeyNotString PROVE IInv'
<1>1. Admitted /\ Fail("ErrMalformed", h.next)
  BY DEF KeyNotString
<1>2. h.next \in Nat /\ h.next <= h.next /\ h.next <= Len(b)
  BY <1>1, HeadRead
<1> QED BY <1>1, <1>2, FailAfterHead DEF Verdicts

LEMMA IntegerKeeps == ASSUME IInv, Integer PROVE IInv'
<1>1. Admitted /\ (Fail("ErrMalformed", h.next) \/ Yield(NoString, h.next, stack))
  BY DEF Integer
<1>2. h.next \in Nat /\ h.next <= h.next /\ h.next <= Len(b)
  BY <1>1, HeadRead
<1> QED BY <1>1, <1>2, FailAfterHead, YieldAfterHead, NoStringType DEF Verdicts

LEMMA SimpleKeeps == ASSUME IInv, Simple PROVE IInv'
<1>1. Admitted /\ (Fail("ErrMalformed", h.next) \/ Yield(NoString, h.next, stack))
  BY DEF Simple
<1>2. h.next \in Nat /\ h.next <= h.next /\ h.next <= Len(b)
  BY <1>1, HeadRead
<1> QED BY <1>1, <1>2, FailAfterHead, YieldAfterHead, NoStringType DEF Verdicts

LEMMA DefiniteStringKeeps == ASSUME IInv, DefiniteString PROVE IInv'
<1>1. Admitted
  BY DEF DefiniteString
<1>2. h.next \in Nat /\ h.arg \in Nat /\ h.next <= h.next /\ h.next <= Len(b)
  BY <1>1, HeadRead, ChunkFits
<1>3. CASE ChunkError # "nil"
  <2>1. Fail(ChunkError, h.next)
    BY <1>3 DEF DefiniteString
  <2> QED BY <1>1, <1>2, <1>3, <2>1, ChunkFits, FailAfterHead
<1>4. CASE ChunkError = "nil"
  <2>1. /\ h.next + h.arg \in Nat
        /\ h.next <= h.next + h.arg
        /\ h.next + h.arg <= Len(b)
        /\ ChunkBytes \in Seq(Byte)
    BY <1>2, <1>4, ChunkFits
  <2>2. StringKind(h.mt) \in {"bytes", "text"}
    BY DEF StringKind
  <2>3. \/ Fail("ErrMalformed", h.next + h.arg)
        \/ Yield(String(StringKind(h.mt), ChunkBytes), h.next + h.arg, stack)
    BY <1>4 DEF DefiniteString, ChunkEnd
  <2>4. CASE Fail("ErrMalformed", h.next + h.arg)
    BY <1>1, <2>1, <2>4, FailAfterHead DEF Verdicts
  <2>5. CASE Yield(String(StringKind(h.mt), ChunkBytes), h.next + h.arg, stack)
    BY <1>1, <2>1, <2>2, <2>5, StringType, YieldAfterHead
  <2> QED BY <2>3, <2>4, <2>5
<1> QED BY <1>3, <1>4

LEMMA OpenStringKeeps == ASSUME IInv, OpenString PROVE IInv'
<1>1. Admitted
  BY DEF OpenString
<1>2. h.next \in Nat /\ h.next <= h.next /\ h.next <= Len(b)
  BY <1>1, HeadRead
<1>3. CASE CallDepth < 0
  <2>1. Fail("ErrDepth", h.next)
    BY <1>3 DEF OpenString
  <2> QED BY <1>1, <1>2, <2>1, FailAfterHead DEF Verdicts
<1>4. CASE ~(CallDepth < 0)
  <2> DEFINE f == Frame(StringKind(h.mt), CallDepth, TRUE, 0)
  <2>1. StringKind(h.mt) \in Kinds
    BY DEF StringKind, Kinds
  <2>2. CallDepth >= 0
    BY <1>4, CallDepthInt
  <2>3. f \in Frames /\ FrameDeep(f, Len(stack) + 1, op)
    BY <2>1, <2>2, CallFrame
  <2>4. /\ f.want = 0 /\ h.next + f.want <= Len(b)
        /\ f.kind \in {"bytes", "text"}
    BY <1>2 DEF Frame, StringKind
  <2>5. Push(f, "chunk")
    BY <1>4 DEF OpenString
  <2> HIDE DEF f
  <2> QED BY <1>1, <2>3, <2>4, <2>5, PushAfterHead
<1> QED BY <1>3, <1>4

LEMMA OpenContainerKeeps == ASSUME IInv, OpenContainer PROVE IInv'
<1>1. Admitted /\ ~AtJsonKey
  BY DEF OpenContainer
<1>2. h.next \in Nat /\ h.next <= h.next /\ h.next <= Len(b)
  BY <1>1, HeadRead
<1>3. h.arg \in Nat /\ h.indef \in BOOLEAN /\ (h.indef => h.arg = 0) /\ Len(b) \in Nat
  BY HeadHere DEF HeadOK
<1> DEFINE f == Frame(IF h.mt = mtArray THEN "array" ELSE "map",
                      CallDepth, h.indef, PerElement * h.arg)
<1>4. IF CountError # "nil" THEN Fail(CountError, h.next) ELSE Push(f, "loop")
  BY DEF OpenContainer
<1>5. CASE CountError # "nil"
  <2>1. CountError \in Verdicts
    BY DEF CountError, Verdicts
  <2> QED BY <1>1, <1>2, <1>4, <1>5, <2>1, FailAfterHead
<1>6. CASE CountError = "nil"
  <2>1. PerElement = 1 \/ PerElement = 2
    BY DEF PerElement
  <2>2. h.indef \/ ~(h.arg > (Len(b) - h.next) \div PerElement)
    BY <1>6 DEF CountError
  <2>3. PerElement * h.arg \in Nat /\ h.next + PerElement * h.arg <= Len(b)
    BY <1>2, <1>3, <2>1, <2>2
  <2>4. CallDepth >= 0
    BY <1>1, CallDepthInt DEF Admitted, Counted
  <2>5. (IF h.mt = mtArray THEN "array" ELSE "map") \in Kinds
    BY DEF Kinds
  <2>6. f \in Frames /\ FrameDeep(f, Len(stack) + 1, op)
    BY <1>3, <2>3, <2>4, <2>5, CallFrame
  <2>7. h.next + f.want <= Len(b)
    BY <2>3 DEF Frame
  <2> HIDE DEF f
  <2> QED BY <1>1, <1>4, <1>6, <2>6, <2>7, PushAfterHead
<1> QED BY <1>5, <1>6

LEMMA OpenTagKeeps == ASSUME IInv, OpenTag PROVE IInv'
<1>1. Admitted
  BY DEF OpenTag
<1>2. h.next \in Nat /\ h.next <= h.next /\ h.next <= Len(b)
  BY <1>1, HeadRead
<1> DEFINE f == IF AtJsonKey THEN Frame("keytag", Top.depth, FALSE, 0)
                             ELSE Frame("tag", CallDepth, FALSE, 0)
<1>3. Fail("ErrMalformed", h.next) \/ Push(f, "call")
  BY DEF OpenTag
<1>4. CASE Fail("ErrMalformed", h.next)
  BY <1>1, <1>2, <1>4, FailAfterHead DEF Verdicts
<1>5. CASE Push(f, "call")
  <2>1. f \in Frames /\ FrameDeep(f, Len(stack) + 1, op)
    <3>1. CASE AtJsonKey
      BY <3>1, KeyTagFrame
    <3>2. CASE ~AtJsonKey
      <4>1. CallDepth >= 0
        BY <1>1, <3>2 DEF Admitted, Counted
      <4> QED BY <3>2, <4>1, CallFrame DEF Kinds
    <3> QED BY <3>1, <3>2
  <2>2. f.want = 0 /\ h.next + f.want <= Len(b)
    BY <1>2 DEF Frame
  <2> HIDE DEF f
  <2> QED BY <1>1, <1>5, <2>1, <2>2, PushAfterHead
<1> QED BY <1>3, <1>4, <1>5

-----------------------------------------------------------------------------
\* One lemma per action of a call already open, which counts no item.
LEMMA InsideOf ==
  ASSUME IInv, NEW where, where # "done", Inside(where)
  PROVE  /\ pc = where /\ pc # "done"
         /\ UNCHANGED <<b, op, start>> /\ items' = items
         /\ i \in Nat /\ i <= i /\ i <= Len(b) /\ Len(b) \in Nat
BY DEF Inside, IInv, TypeOK, CursorInBounds

LEMMA BadChunkKeeps == ASSUME IInv, BadChunk PROVE IInv'
<1>1. Inside("chunk")
  BY DEF BadChunk
<1>2. h.next \in Nat /\ i <= h.next /\ h.next <= Len(b)
  BY HeadHere DEF HeadOK
<1>3. \/ h.err # "nil" /\ Fail(h.err, h.next)
      \/ Fail("ErrMalformed", h.next)
  BY DEF BadChunk
<1>4. h.err \in Verdicts
  BY HeadHere DEF HeadOK, Verdicts
<1>5. "ErrMalformed" \in Verdicts
  BY DEF Verdicts
<1> QED BY <1>1, <1>2, <1>3, <1>4, <1>5, InsideOf, FailKeeps

LEMMA TakeChunkKeeps == ASSUME IInv, TakeChunk PROVE IInv'
<1>1. Inside("chunk") /\ pc = "chunk"
  BY DEF TakeChunk, Inside
<1>2. stack # <<>>
  BY <1>1 DEF IInv, Framed
<1>3. h.next \in Nat /\ h.arg \in Nat /\ i <= h.next /\ h.next <= Len(b)
  BY HeadHere DEF HeadOK
<1>4. CASE ChunkError # "nil"
  <2>1. Fail(ChunkError, h.next)
    BY <1>4 DEF TakeChunk
  <2> QED BY <1>1, <1>3, <1>4, <2>1, InsideOf, ChunkFits, FailKeeps
<1>5. CASE ChunkError = "nil"
  <2>1. /\ h.next + h.arg \in Nat
        /\ i <= h.next + h.arg
        /\ h.next + h.arg <= Len(b)
        /\ ChunkBytes \in Seq(Byte)
    BY <1>1, <1>3, <1>5, ChunkFits, InsideOf
  <2> DEFINE f == [Top EXCEPT !.part = @ \o ChunkBytes]
  <2>2. CASE Fail("ErrTooLarge", h.next + h.arg)
    BY <1>1, <2>1, <2>2, InsideOf, FailKeeps DEF Verdicts
  <2>3. CASE /\ stack' = [stack EXCEPT ![Len(stack)].part = @ \o ChunkBytes]
             /\ i' = h.next + h.arg
             /\ UNCHANGED <<pc, ret, err>>
    <3>1. Top \in Frames /\ Top = stack[Len(stack)]
      BY <1>2, InnermostFrame
    <3>2. Top.part \o ChunkBytes \in Seq(Byte)
      BY <2>1, <3>1 DEF Frames
    <3>3. f \in Frames
      BY <3>1, <3>2 DEF Frames
    <3>4. f.kind = Top.kind /\ f.depth = Top.depth /\ f.want = Top.want
      BY <3>1 DEF Frames
    <3>5. stack' = [stack EXCEPT ![Len(stack)] = f]
      BY <2>3, <3>1
    <3>6. pc = "chunk" /\ pc' = "chunk"
      BY <1>1, <2>3
    <3>7. ret' \in [t : {"other", "bytes", "text"}, s : Seq(Byte)]
      BY <2>3 DEF IInv, TypeOK
    <3> HIDE DEF f
    <3> QED BY <1>1, <1>2, <2>1, <2>3, <3>3, <3>4, <3>5, <3>6, <3>7, InsideOf, GrowKeeps
  <2> QED BY <1>5, <2>2, <2>3 DEF TakeChunk, ChunkEnd
<1> QED BY <1>4, <1>5

LEMMA CloseStringKeeps == ASSUME IInv, CloseString PROVE IInv'
<1>1. Inside("chunk") /\ pc = "chunk" /\ i < Len(b)
  BY DEF CloseString, Inside, AtBreak
<1>2. stack # <<>>
  BY <1>1 DEF IInv, Framed
<1>3. i + 1 \in Nat /\ i <= i + 1 /\ i + 1 <= Len(b)
  BY <1>1, InsideOf
<1>4. CASE Fail("ErrMalformed", i + 1)
  BY <1>1, <1>3, <1>4, InsideOf, FailKeeps DEF Verdicts
<1>5. CASE Yield(String(Top.kind, Top.part), i + 1, Front(stack))
  <2>1. Top.part \in Seq(Byte) /\ Top.kind \in Kinds
    BY <1>2, InnermostFrame DEF Frames
  <2>2. Top.kind \in {"bytes", "text"}
    BY <1>1, <1>2, InnermostFrame DEF IInv, Framed
  <2>3. String(Top.kind, Top.part) \in [t : {"other", "bytes", "text"}, s : Seq(Byte)]
    BY <2>1, <2>2, StringType
  <2> QED BY <1>1, <1>2, <1>3, <1>5, <2>3, InsideOf, YieldKeeps
<1> QED BY <1>4, <1>5 DEF CloseString

LEMMA CutContainerKeeps == ASSUME IInv, CutContainer PROVE IInv'
BY InsideOf, FailKeeps DEF CutContainer, Verdicts

LEMMA CloseContainerKeeps == ASSUME IInv, CloseContainer PROVE IInv'
<1>1. Inside("loop") /\ pc = "loop"
  BY DEF CloseContainer, Inside
<1>2. stack # <<>>
  BY <1>1 DEF IInv, Framed
<1>3. CASE AtBreak /\ Yield(NoString, i + 1, Front(stack))
  <2>1. i + 1 \in Nat /\ i <= i + 1 /\ i + 1 <= Len(b)
    BY <1>1, <1>3, InsideOf DEF AtBreak
  <2> QED BY <1>1, <1>2, <1>3, <2>1, InsideOf, NoStringType, YieldKeeps
<1>4. CASE Yield(NoString, i, Front(stack))
  BY <1>1, <1>2, <1>4, InsideOf, NoStringType, YieldKeeps
<1> QED BY <1>3, <1>4 DEF CloseContainer

LEMMA NextItemKeeps == ASSUME IInv, NextItem PROVE IInv'
<1>1. /\ pc = "loop" /\ pc' = "call"
      /\ UNCHANGED <<b, i, items, op, start, stack, ret, err>>
  BY DEF NextItem, Inside
<1>2. TypeOK'
  BY <1>1 DEF IInv, TypeOK
<1>3. CursorInBounds' /\ BudgetKept'
  BY <1>1 DEF IInv, CursorInBounds, BudgetKept
<1>4. PresizeBounded' /\ Deep' /\ Paid'
  BY <1>1 DEF IInv, PresizeBounded, Top, Last, Deep, FrameDeep, Paid
<1>5. Framed'
  BY <1>1 DEF IInv, Framed
<1> QED BY <1>2, <1>3, <1>4, <1>5 DEF IInv

LEMMA ThroughTagKeeps == ASSUME IInv, ThroughTag PROVE IInv'
<1>1. Inside("return") /\ stack # <<>>
  BY DEF ThroughTag
<1>2. CASE Fail("ErrMalformed", i)
  BY <1>1, <1>2, InsideOf, FailKeeps DEF Verdicts
<1>3. CASE Yield(ret, i, Front(stack))
  <2>1. ret \in [t : {"other", "bytes", "text"}, s : Seq(Byte)]
    BY DEF IInv, TypeOK
  <2> QED BY <1>1, <1>3, <2>1, InsideOf, YieldKeeps
<1> QED BY <1>2, <1>3 DEF ThroughTag

LEMMA IntoContainerKeeps == ASSUME IInv, IntoContainer PROVE IInv'
<1>1. Inside("return") /\ stack # <<>>
  BY DEF IntoContainer
<1>2. CASE Fail("ErrTooLarge", i)
  BY <1>1, <1>2, InsideOf, FailKeeps DEF Verdicts
<1>3. CASE /\ stack' = [stack EXCEPT ![Len(stack)].got = @ + 1,
                                      ![Len(stack)].keys = @ \cup NewKeys]
           /\ pc' = "loop"
           /\ ret' = NoString
           /\ UNCHANGED <<i, err>>
  <2>1. Top \in Frames /\ Top = stack[Len(stack)] /\ Len(stack) \in 1 .. Len(stack)
    BY <1>1, InnermostFrame
  <2>2. stack \in Seq(Frames)
    BY <1>1, InnermostFrame
  <2>3. NewKeys \in SUBSET Seq(Byte)
    BY DEF NewKeys, IInv, TypeOK
  <2>4. Top.got + 1 \in Nat /\ Top.keys \cup NewKeys \in SUBSET Seq(Byte)
    BY <2>1, <2>3 DEF Frames
  <2> DEFINE f == [Top EXCEPT !.got = @ + 1, !.keys = @ \cup NewKeys]
  <2>5. f \in Frames
    BY <2>1, <2>4 DEF Frames
  <2>6. f.kind = Top.kind /\ f.depth = Top.depth /\ f.want = Top.want
    BY <2>1 DEF Frames
  <2>7. stack' = [stack EXCEPT ![Len(stack)] = f]
    BY <1>3, <2>1, <2>2
  <2>8. UNCHANGED <<b, op, start, items, err>> /\ i' = i
    BY <1>1, <1>3, InsideOf
  <2>9. f.got # 0
    BY <2>1 DEF Frames
  <2> HIDE DEF f
  <2> QED BY <1>1, <1>3, <2>5, <2>6, <2>7, <2>8, <2>9, InsideOf, NoStringType, GrowKeeps
<1> QED BY <1>2, <1>3 DEF IntoContainer

LEMMA FinishKeeps == ASSUME IInv, Finish PROVE IInv'
<1>1. /\ pc = "return" /\ stack = <<>> /\ pc' = "done" /\ err' = "nil"
      /\ UNCHANGED <<b, i, items, op, start, stack, ret>>
  BY DEF Finish, Inside
<1>2. err = "nil"
  BY <1>1 DEF IInv, Framed
<1>3. TypeOK' /\ CursorInBounds' /\ BudgetKept'
  BY <1>1, <1>2 DEF IInv, TypeOK, CursorInBounds, BudgetKept
<1>4. PresizeBounded' /\ Deep' /\ Paid'
  BY <1>1 DEF IInv, PresizeBounded, Top, Last, Deep, FrameDeep, Paid
<1>5. Framed'
  BY <1>1 DEF IInv, Framed
<1> QED BY <1>3, <1>4, <1>5 DEF IInv

\* The next call starts with no frame open and the budget as it was left.
LEMMA AgainKeeps == ASSUME IInv, Again PROVE IInv'
<1>1. /\ pc = "done" /\ err = "nil" /\ pc' = "call" /\ op' \in Ops
      /\ start' = i /\ ret' = NoString
      /\ UNCHANGED <<b, i, items, stack, err>>
  BY DEF Again
<1>2. stack = <<>> /\ i \in Nat /\ i <= Len(b)
  BY <1>1 DEF IInv, Framed, TypeOK, CursorInBounds
<1>3. TypeOK'
  BY <1>1, NoStringType DEF IInv, TypeOK
<1>4. CursorInBounds' /\ BudgetKept'
  BY <1>1, <1>2 DEF IInv, CursorInBounds, BudgetKept
<1>5. PresizeBounded' /\ Deep' /\ Paid' /\ Framed'
  BY <1>1, <1>2 DEF PresizeBounded, Deep, Paid, Framed
<1> QED BY <1>3, <1>4, <1>5 DEF IInv

LEMMA StutterKeeps == ASSUME IInv, UNCHANGED vars PROVE IInv'
<1>1. UNCHANGED <<b, i, items, op, start, pc, stack, ret, err>>
  BY DEF vars
<1>2. TypeOK' /\ CursorInBounds' /\ BudgetKept'
  BY <1>1 DEF IInv, TypeOK, CursorInBounds, BudgetKept
<1>3. PresizeBounded' /\ Deep' /\ Paid' /\ Framed'
  BY <1>1 DEF IInv, PresizeBounded, Top, Last, Deep, FrameDeep, Paid, Framed
<1> QED BY <1>2, <1>3 DEF IInv

-----------------------------------------------------------------------------
LEMMA InitEstablishes == Init => IInv
<1> SUFFICES ASSUME Init PROVE IInv
  OBVIOUS
<1> USE LimitsAssumption, InputsAssumption, OpsAssumption
<1>1. /\ b \in Seq(Byte) /\ Len(b) \in Nat /\ i = 0 /\ items = 0 /\ op \in Ops
      /\ start = 0 /\ pc = "call" /\ stack = <<>> /\ ret = NoString /\ err = "nil"
  BY DEF Init
<1>2. TypeOK
  BY <1>1, NoStringType DEF TypeOK, Verdicts
<1>3. CursorInBounds /\ BudgetKept
  BY <1>1 DEF CursorInBounds, BudgetKept
<1>4. PresizeBounded /\ Deep /\ Paid /\ Framed
  BY <1>1 DEF PresizeBounded, Deep, Paid, Framed
<1> QED BY <1>2, <1>3, <1>4 DEF IInv

LEMMA NextKeeps == IInv /\ [Next]_vars => IInv'
<1> SUFFICES ASSUME IInv, [Next]_vars PROVE IInv'
  OBVIOUS
<1>1. CASE TooDeep \/ OverBudget \/ BadHead
  BY <1>1, TooDeepKeeps, OverBudgetKeeps, BadHeadKeeps
<1>2. CASE KeyNotString \/ Integer \/ Simple
  BY <1>2, KeyNotStringKeeps, IntegerKeeps, SimpleKeeps
<1>3. CASE DefiniteString \/ OpenString \/ OpenContainer \/ OpenTag
  BY <1>3, DefiniteStringKeeps, OpenStringKeeps, OpenContainerKeeps, OpenTagKeeps
<1>4. CASE BadChunk \/ TakeChunk \/ CloseString
  BY <1>4, BadChunkKeeps, TakeChunkKeeps, CloseStringKeeps
<1>5. CASE CutContainer \/ CloseContainer \/ NextItem
  BY <1>5, CutContainerKeeps, CloseContainerKeeps, NextItemKeeps
<1>6. CASE ThroughTag \/ IntoContainer \/ Finish
  BY <1>6, ThroughTagKeeps, IntoContainerKeeps, FinishKeeps
<1>7. CASE Again
  BY <1>7, AgainKeeps
<1>8. CASE UNCHANGED vars
  BY <1>8, StutterKeeps
<1> QED BY <1>1, <1>2, <1>3, <1>4, <1>5, <1>6, <1>7, <1>8 DEF Next, Step

\* No stack of calls is deeper than its deepest frame allows.
LEMMA DeepBounds == IInv => RecursionBounded
<1> SUFFICES ASSUME IInv PROVE RecursionBounded
  OBVIOUS
<1> USE LimitsAssumption
<1>1. stack \in Seq(Frames) /\ Len(stack) \in Nat
  BY DEF IInv, TypeOK
<1>2. \A k \in 1 .. Len(stack) : stack[k].depth \in Int
  <2>1. \A k \in 1 .. Len(stack) : stack[k] \in Frames
    BY <1>1
  <2> QED BY <2>1 DEF Frames
<1>3. Deep
  BY DEF IInv
<1>4. Len(stack) <= 2 * (MaxDepth + 1)
  <2>1. CASE Len(stack) = 0
    BY <2>1
  <2>2. CASE Len(stack) # 0
    <3>1. Len(stack) \in 1 .. Len(stack)
      BY <1>1, <2>2
    <3>2. FrameDeep(stack[Len(stack)], Len(stack), op)
      BY <1>3, <3>1 DEF Deep
    <3>3. stack[Len(stack)].depth \in Int
      BY <1>2, <3>1
    <3> QED BY <1>1, <3>2, <3>3 DEF FrameDeep
  <2> QED BY <2>1, <2>2
<1>5. op # "json" => Len(stack) <= MaxDepth + 1
  <2> SUFFICES ASSUME op # "json" PROVE Len(stack) <= MaxDepth + 1
    OBVIOUS
  <2>1. CASE Len(stack) = 0
    BY <2>1
  <2>2. CASE Len(stack) # 0
    <3>1. Len(stack) \in 1 .. Len(stack)
      BY <1>1, <2>2
    <3>2. FrameDeep(stack[Len(stack)], Len(stack), op)
      BY <1>3, <3>1 DEF Deep
    <3>3. stack[Len(stack)].depth \in Int
      BY <1>2, <3>1
    <3> QED BY <1>1, <3>2, <3>3 DEF FrameDeep
  <2> QED BY <2>1, <2>2
<1>6. op # "json" => \A k \in 1 .. Len(stack) : stack[k].depth = MaxDepth - (k - 1)
  BY <1>3 DEF Deep, FrameDeep
<1> QED BY <1>1, <1>4, <1>5, <1>6 DEF RecursionBounded

-----------------------------------------------------------------------------
(***************************************************************************)
(* Progress.  A byte read is worth four steps: one for the call that reads *)
(* it, one for its return, and two for the frame it may open.              *)
(***************************************************************************)
\* The work left is a number, in each state of the invariant.
LEMMA WorkNat ==
  ASSUME IInv
  PROVE  /\ Work = 4 * (Len(b) - i) + 2 * Len(stack) + StepsLeft[pc]
         /\ StepsLeft[pc] \in 0 .. 3
         /\ i \in Nat /\ Len(b) \in Nat /\ i <= Len(b) /\ Len(stack) \in Nat
<1>1. i \in Nat /\ Len(b) \in Nat /\ i <= Len(b) /\ Len(stack) \in Nat
  BY DEF IInv, TypeOK, CursorInBounds
<1>2. pc \in {"call", "chunk", "loop", "return", "done"}
  BY DEF IInv, TypeOK
<1>3. StepsLeft[pc] \in 0 .. 3
  BY <1>2 DEF StepsLeft
<1> HIDE DEF StepsLeft
<1> QED BY <1>1, <1>3 DEF Work

\* Work in numbers: L bytes, the cursor at x and then at y, n frames and then
\* k, s steps left and then t.
LEMMA Cheaper ==
  ASSUME NEW L \in Nat, NEW x \in Nat, NEW y \in Nat, x <= y, y <= L,
         NEW n \in Nat, NEW k \in Nat, NEW s \in 0 .. 3, NEW t \in 0 .. 3,
         4 * x + 2 * k + t < 4 * y + 2 * n + s
  PROVE  4 * (L - y) + 2 * k + t \in 0 .. (4 * (L - x) + 2 * n + s) - 1
OBVIOUS

\* A failure ends the method at once.
LEMMA FailShrinks ==
  ASSUME IInv, IInv', pc # "done", b' = b, NEW e, NEW j \in Nat, i <= j, Fail(e, j)
  PROVE  Work' \in 0 .. Work - 1
<1>1. i' = j /\ pc' = "done" /\ Len(stack') = 0
  BY DEF Fail
<1>2. StepsLeft[pc'] = 0
  BY <1>1 DEF StepsLeft
<1>3. pc \in {"call", "chunk", "loop", "return"}
  BY DEF IInv, TypeOK
<1>4. StepsLeft[pc] \in 1 .. 3
  BY <1>3 DEF StepsLeft
<1>5. Work' = 4 * (Len(b) - j) + 2 * 0 + 0
  BY <1>1, <1>2 DEF Work
<1>6. j <= Len(b)
  BY <1>1 DEF IInv, CursorInBounds
<1> HIDE DEF StepsLeft
<1> QED BY <1>4, <1>5, <1>6, WorkNat

\* A return has read a byte, or leaves the frame it returns from behind, unless
\* that return is only passed on.
LEMMA YieldShrinks ==
  ASSUME IInv, IInv', pc # "done", b' = b, NEW v, NEW j \in Nat, NEW rest,
         Yield(v, j, rest),
         \/ i + 1 <= j /\ rest = stack
         \/ i <= j /\ stack # <<>> /\ rest = Front(stack) /\ pc \in {"loop", "return"}
         \/ i + 1 <= j /\ stack # <<>> /\ rest = Front(stack)
  PROVE  Work' \in 0 .. Work - 1
<1>1. i' = j /\ pc' = "return" /\ stack' = rest
  BY DEF Yield
<1>2. StepsLeft[pc'] = 3
  BY <1>1 DEF StepsLeft
<1>3. pc \in {"call", "chunk", "loop", "return"}
  BY DEF IInv, TypeOK
<1>4. StepsLeft[pc] \in 1 .. 3 /\ (pc \in {"loop", "return"} => StepsLeft[pc] >= 2)
  BY <1>3 DEF StepsLeft
<1>5. stack # <<>> => Len(Front(stack)) = Len(stack) - 1
  BY FrontOf DEF IInv, TypeOK
<1>6. Work' = 4 * (Len(b) - j) + 2 * Len(rest) + 3
  BY <1>1, <1>2 DEF Work
<1>7. j <= Len(b)
  BY <1>1 DEF IInv, CursorInBounds
<1> HIDE DEF StepsLeft
<1>8. CASE i + 1 <= j /\ rest = stack
  BY <1>4, <1>6, <1>7, <1>8, WorkNat
<1>9. CASE i <= j /\ stack # <<>> /\ rest = Front(stack) /\ pc \in {"loop", "return"}
  <2>1. Len(rest) = Len(stack) - 1 /\ Len(rest) \in Nat
    BY <1>1, <1>5, <1>9 DEF IInv, TypeOK
  <2> QED BY <1>4, <1>6, <1>7, <1>9, <2>1, WorkNat
<1>10. CASE i + 1 <= j /\ stack # <<>> /\ rest = Front(stack)
  <2>1. Len(rest) = Len(stack) - 1 /\ Len(rest) \in Nat
    BY <1>1, <1>5, <1>10 DEF IInv, TypeOK
  <2> QED BY <1>4, <1>6, <1>7, <1>10, <2>1, WorkNat
<1> QED BY <1>8, <1>9, <1>10

\* A frame is opened by a head, which has read a byte.
LEMMA PushShrinks ==
  ASSUME IInv, IInv', Admitted, NEW f, NEW where \in {"call", "chunk", "loop"},
         Push(f, where)
  PROVE  Work' \in 0 .. Work - 1
<1>1. pc = "call" /\ b' = b /\ h.next \in Nat /\ i + 1 <= h.next
  BY HeadRead
<1>2. i' = h.next /\ pc' = where /\ stack' = Append(stack, f)
  BY DEF Push
<1>3. Len(stack') = Len(stack) + 1
  BY <1>2 DEF IInv, TypeOK
<1>4. StepsLeft[pc'] \in 1 .. 2 /\ StepsLeft[pc] = 1
  BY <1>1, <1>2 DEF StepsLeft
<1>5. h.next <= Len(b)
  BY <1>1, <1>2 DEF IInv, CursorInBounds
<1>6. Work' = 4 * (Len(b) - h.next) + 2 * (Len(stack) + 1) + StepsLeft[pc']
  BY <1>1, <1>2, <1>3 DEF Work
<1> DEFINE n == Len(stack)
           j == h.next
           t == StepsLeft[pc']
<1>7. Work = 4 * (Len(b) - i) + 2 * n + 1 /\ Work' = 4 * (Len(b) - j) + 2 * (n + 1) + t
  BY <1>4, <1>6, WorkNat
<1>8. n \in Nat /\ i \in Nat /\ j \in Nat /\ Len(b) \in Nat /\ i + 1 <= j /\ j <= Len(b)
  BY <1>1, <1>5, WorkNat
<1>9. t \in 1 .. 2
  BY <1>4
<1> HIDE DEF n, j, t
<1>10. 4 * i + 2 * (n + 1) + t < 4 * j + 2 * n + 1 /\ i <= j
  BY <1>8, <1>9
<1>11. t \in 0 .. 3 /\ 1 \in 0 .. 3 /\ n + 1 \in Nat
  BY <1>8, <1>9
<1> QED BY <1>7, <1>8, <1>10, <1>11, Cheaper

\* A frame that takes something in has read a byte, or a call has returned to it.
LEMMA GrowShrinks ==
  ASSUME IInv, IInv', b' = b, Len(stack') = Len(stack),
         NEW j \in Nat, i' = j,
         \/ pc = "chunk" /\ pc' = "chunk" /\ i + 1 <= j
         \/ pc = "loop" /\ pc' = "call" /\ i <= j
         \/ pc = "return" /\ pc' = "loop" /\ i <= j
         \/ pc = "return" /\ pc' = "done" /\ i <= j
  PROVE  Work' \in 0 .. Work - 1
<1>1. i <= j /\ (i + 1 <= j \/ StepsLeft[pc'] < StepsLeft[pc])
      /\ StepsLeft[pc'] <= StepsLeft[pc]
  BY WorkNat DEF StepsLeft
<1>2. StepsLeft[pc'] \in 0 .. 3 /\ StepsLeft[pc] \in 0 .. 3
  <2>1. pc \in {"call", "chunk", "loop", "return", "done"}
    BY DEF IInv, TypeOK
  <2>2. pc' \in {"call", "chunk", "loop", "return", "done"}
    BY DEF IInv, TypeOK
  <2> QED BY <2>1, <2>2 DEF StepsLeft
<1>3. j <= Len(b)
  BY DEF IInv, CursorInBounds
<1>4. Work' = 4 * (Len(b) - j) + 2 * Len(stack) + StepsLeft[pc']
  BY DEF Work
<1> DEFINE n == Len(stack)
           s == StepsLeft[pc]
           t == StepsLeft[pc']
<1>5. Work = 4 * (Len(b) - i) + 2 * n + s /\ Work' = 4 * (Len(b) - j) + 2 * n + t
  BY <1>4, WorkNat
<1>6. /\ n \in Nat /\ i \in Nat /\ Len(b) \in Nat /\ s \in 0 .. 3 /\ t \in 0 .. 3
      /\ i <= j /\ (i + 1 <= j \/ t < s) /\ t <= s
  BY <1>1, <1>2, WorkNat
<1> HIDE DEF n, s, t
<1>7. 4 * i + 2 * n + t < 4 * j + 2 * n + s
  BY <1>6
<1> QED BY <1>3, <1>5, <1>6, <1>7, Cheaper

\* One step for each way an action of the walk can end.
LEMMA StepShrinks ==
  ASSUME IInv, IInv', pc # "done", Step
  PROVE  Work' \in 0 .. Work - 1
<1>1. /\ i \in Nat /\ h.next \in Nat /\ i <= h.next /\ h.arg \in Nat
      /\ Len(b) \in Nat
      /\ h.err = "nil" => i + 1 <= h.next
  BY HeadHere, WorkNat DEF HeadOK
<1> HIDE DEF h
<1>2. ASSUME Admitted PROVE b' = b /\ pc = "call" /\ i + 1 <= h.next
  BY <1>1, <1>2 DEF Admitted, Counted
<1>3. ASSUME NEW where, Inside(where) PROVE b' = b /\ pc = where
  BY <1>3 DEF Inside
<1>4. CASE TooDeep \/ OverBudget \/ BadHead
  BY <1>1, <1>4, FailShrinks DEF TooDeep, OverBudget, BadHead, Counted
<1>5. CASE KeyNotString
  BY <1>1, <1>2, <1>5, FailShrinks DEF KeyNotString
<1>6. CASE Integer \/ Simple
  <2>1. Admitted /\ (Fail("ErrMalformed", h.next) \/ Yield(NoString, h.next, stack))
    BY <1>6 DEF Integer, Simple
  <2> QED BY <1>1, <1>2, <2>1, FailShrinks, YieldShrinks
<1>7. CASE DefiniteString
  <2>1. Admitted /\ h.next + h.arg \in Nat /\ i <= h.next + h.arg
        /\ (Admitted => i + 1 <= h.next + h.arg)
    BY <1>1, <1>7 DEF DefiniteString, Admitted
  <2>2. CASE Fail(ChunkError, h.next)
    BY <1>1, <1>2, <2>1, <2>2, FailShrinks
  <2>3. CASE Fail("ErrMalformed", h.next + h.arg)
    BY <1>1, <1>2, <2>1, <2>3, FailShrinks
  <2>4. CASE Yield(String(StringKind(h.mt), ChunkBytes), h.next + h.arg, stack)
    BY <1>1, <1>2, <2>1, <2>4, YieldShrinks
  <2> QED BY <1>7, <2>2, <2>3, <2>4 DEF DefiniteString, ChunkEnd
<1>8. CASE OpenString \/ OpenContainer \/ OpenTag
  <2>1. Admitted
    BY <1>8 DEF OpenString, OpenContainer, OpenTag
  <2>2. \/ \E e \in Verdicts : Fail(e, h.next)
        \/ \E f, where : where \in {"call", "chunk", "loop"} /\ Push(f, where)
    <3>1. CASE OpenString
      BY <3>1 DEF OpenString, Verdicts
    <3>2. CASE OpenContainer
      BY <3>2 DEF OpenContainer, CountError, Verdicts
    <3>3. CASE OpenTag
      BY <3>3 DEF OpenTag, Verdicts
    <3> QED BY <1>8, <3>1, <3>2, <3>3
  <2> QED BY <1>1, <1>2, <2>1, <2>2, FailShrinks, PushShrinks
<1>9. CASE BadChunk
  <2>1. Inside("chunk") /\ \E e : Fail(e, h.next)
    BY <1>9 DEF BadChunk
  <2> QED BY <1>1, <1>3, <2>1, FailShrinks
<1>10. CASE TakeChunk
  <2>1. /\ Inside("chunk") /\ h.next + h.arg \in Nat
        /\ i + 1 <= h.next + h.arg /\ i <= h.next + h.arg
    BY <1>1, <1>10 DEF TakeChunk
  <2>2. CASE Fail(ChunkError, h.next) \/ Fail("ErrTooLarge", h.next + h.arg)
    BY <1>1, <1>3, <2>1, <2>2, FailShrinks
  <2>3. CASE /\ stack' = [stack EXCEPT ![Len(stack)].part = @ \o ChunkBytes]
             /\ i' = h.next + h.arg
             /\ UNCHANGED <<pc, ret, err>>
    <3>1. Len(stack') = Len(stack)
      BY <2>3 DEF IInv, TypeOK
    <3>2. pc = "chunk" /\ pc' = "chunk" /\ b' = b
      BY <1>3, <2>1, <2>3
    <3> QED BY <2>1, <2>3, <3>1, <3>2, GrowShrinks
  <2> QED BY <1>10, <2>2, <2>3 DEF TakeChunk, ChunkEnd
<1>11. CASE CloseString
  <2>1. Inside("chunk") /\ stack # <<>> /\ i + 1 \in Nat /\ i <= i + 1 /\ i + 1 <= i + 1
    BY <1>1, <1>11 DEF CloseString, Inside, IInv, Framed
  <2> QED BY <1>3, <1>11, <2>1, FailShrinks, YieldShrinks DEF CloseString
<1>12. CASE CutContainer
  BY <1>1, <1>3, <1>12, FailShrinks DEF CutContainer
<1>13. CASE CloseContainer
  <2>1. /\ Inside("loop") /\ pc = "loop" /\ stack # <<>>
        /\ i + 1 \in Nat /\ i <= i + 1 /\ i <= i
    BY <1>1, <1>13 DEF CloseContainer, Inside, IInv, Framed
  <2>2. Yield(NoString, i + 1, Front(stack)) \/ Yield(NoString, i, Front(stack))
    BY <1>13 DEF CloseContainer
  <2> QED BY <1>1, <1>3, <2>1, <2>2, YieldShrinks
<1>14. CASE NextItem
  <2>1. pc = "loop" /\ pc' = "call" /\ b' = b /\ i' = i /\ stack' = stack
    BY <1>14 DEF NextItem, Inside
  <2> QED BY <1>1, <2>1, GrowShrinks
<1>15. CASE ThroughTag
  <2>1. Inside("return") /\ pc = "return" /\ stack # <<>> /\ i <= i
    BY <1>1, <1>15 DEF ThroughTag, Inside
  <2>2. Fail("ErrMalformed", i) \/ Yield(ret, i, Front(stack))
    BY <1>15 DEF ThroughTag
  <2> QED BY <1>1, <1>3, <2>1, <2>2, FailShrinks, YieldShrinks
<1>16. CASE IntoContainer
  <2>1. Inside("return") /\ pc = "return" /\ i <= i
    BY <1>1, <1>16 DEF IntoContainer, Inside
  <2>2. CASE Fail("ErrTooLarge", i)
    BY <1>1, <1>3, <2>1, <2>2, FailShrinks
  <2>3. CASE /\ stack' = [stack EXCEPT ![Len(stack)].got = @ + 1,
                                        ![Len(stack)].keys = @ \cup NewKeys]
             /\ pc' = "loop"
             /\ UNCHANGED i
    <3>1. Len(stack') = Len(stack)
      BY <2>3 DEF IInv, TypeOK
    <3> QED BY <1>1, <1>3, <2>1, <2>3, <3>1, GrowShrinks
  <2> QED BY <1>16, <2>2, <2>3 DEF IntoContainer
<1>17. CASE Finish
  <2>1. pc = "return" /\ pc' = "done" /\ b' = b /\ i' = i /\ stack' = stack
    BY <1>17 DEF Finish, Inside
  <2> QED BY <1>1, <2>1, GrowShrinks
<1> QED BY <1>4, <1>5, <1>6, <1>7, <1>8, <1>9, <1>10, <1>11, <1>12, <1>13, <1>14,
           <1>15, <1>16, <1>17 DEF Step

-----------------------------------------------------------------------------
\* The invariant holds in every state of every run of a Decoder.
THEOREM Invariance == Spec => []IInv
<1> QED BY InitEstablishes, NextKeeps, PTL DEF Spec

\* The state a Decoder and its walk keep is always of its type.
THEOREM TypeCorrect == Spec => []TypeOK
<1>1. IInv => TypeOK
  BY DEF IInv
<1> QED BY <1>1, Invariance, PTL

\* No walk, over any bytes, moves the cursor past the end of the buffer.
THEOREM CursorSafe == Spec => []CursorInBounds
<1>1. IInv => CursorInBounds
  BY DEF IInv
<1> QED BY <1>1, Invariance, PTL

\* No sequence of calls on one Decoder reads past its budget of items.
THEOREM BudgetSafe == Spec => []BudgetKept
<1>1. IInv => BudgetKept
  BY DEF IInv
<1> QED BY <1>1, Invariance, PTL

\* No nesting of containers, tags and keys recurses deeper than MaxDepth allows.
THEOREM RecursionSafe == Spec => []RecursionBounded
<1> QED BY DeepBounds, Invariance, PTL

\* For every buffer, a container reserves no more elements than there are bytes
\* left behind its head, and each one open has claimed less than the bytes of
\* the item, by one for every head it is nested in (array, mapValue).
THEOREM PresizeSafe == Spec => []PresizeBounded
<1>1. IInv => PresizeBounded
  BY DEF IInv
<1> QED BY <1>1, Invariance, PTL

\* Every method returns, over any bytes, within 4 * Len(b) + 1 steps.
THEOREM WalkProgress == Spec => Progress
<1>1. IInv /\ IInv' /\ [Next]_vars => [pc # "done" => Work' \in 0 .. Work - 1]_vars
  <2> SUFFICES ASSUME IInv, IInv', Next, pc # "done"
               PROVE  Work' \in 0 .. Work - 1
    OBVIOUS
  <2>1. Step
    BY DEF Next, Again
  <2> QED BY <2>1, StepShrinks
<1> QED BY <1>1, Invariance, PTL DEF Spec, Progress
=============================================================================
