---------------------------- MODULE GrammarProofs ----------------------------
(***************************************************************************)
(* For every buffer, every choice of limits and every method, a walk       *)
(* succeeds exactly on an item of the grammar: the mutual recursion of     *)
(* decoder.go, skip.go and json.go, its stack of calls in progress and its *)
(* cursor, accept nothing that the rules do not derive (WalkSound) and     *)
(* refuse nothing that they do (WalkComplete).  The invariant behind the   *)
(* first says of every call in progress what it has read so far: the head  *)
(* that opened it and the row, the chunks or the tag behind it.  The       *)
(* second reads the same stack the other way, from the outermost call in:  *)
(* where the rules derive the whole item, they derive the part that each   *)
(* call has still to read.                                                 *)
(***************************************************************************)
EXTENDS RulesProofs, WalkProofs, FiniteSetTheorems

-----------------------------------------------------------------------------
(***************************************************************************)
(* What the calls in progress have read.  at[k] is where the call with     *)
(* frame k found its head, at[Len(stack) + 1] the end of what the          *)
(* innermost has read so far.                                              *)
(***************************************************************************)
\* The depth of the calls that frame k makes, 0 standing for the caller, and
\* whether the next one reads the key of a JSON map.
DepthIn(st, k) == IF k = 0 THEN MaxDepth ELSE st[k].depth - 1
KeyIn(o, st, k) == o = "json" /\ k # 0 /\ AtKey(st[k])

\* Only jsonPair reads a tag at the depth of its map, in front of a key, and
\* only strings and such tags are read as keys.
Linked(o, st, k) ==
  /\ st[k].kind = "keytag" => KeyIn(o, st, k - 1) /\ st[k].depth = DepthIn(st, k - 1) + 1
  /\ st[k].kind # "keytag" => st[k].depth = DepthIn(st, k - 1)
  /\ st[k].kind \in {"array", "map", "tag"} => ~KeyIn(o, st, k - 1)

StringReads(o, s, f, g, q) ==
  f.kind \in {"bytes", "text"} =>
    /\ g.mt \in {mtBytes, mtText} /\ g.indef /\ StringKind(g.mt) = f.kind
    /\ Len(f.part) <= MaxStringBytes
    /\ \E n \in Nat : Derived(o, s, Run(g.mt, g.next, q, n, f.part))

TagReads(f, g, q) ==
  f.kind \in {"tag", "keytag"} => g.mt = mtTag /\ ~g.indef /\ q = g.next

CountOf(f, g) == IF ~f.indef THEN g.arg ELSE IF f.kind = "map" THEN f.got \div 2 ELSE f.got

ContainerReads(o, s, f, g, q) ==
  f.kind \in {"array", "map"} =>
    /\ g.mt = (IF f.kind = "map" THEN mtMap ELSE mtArray)
    /\ g.indef = f.indef
    /\ ~f.indef => f.want = (IF f.kind = "map" THEN 2 ELSE 1) * g.arg
    /\ GoodCount(o, g.mt, f.indef, CountOf(f, g))
    /\ Derived(o, s, Row(g.next, q, f.got, f.depth - 1, f.kind = "map"))

\* The frame f was opened by the head at p and has read up to q.
FrameReads(o, s, f, p, q) ==
  /\ HeadAt(s, p).err = "nil"
  /\ StringReads(o, s, f, HeadAt(s, p), q)
  /\ TagReads(f, HeadAt(s, p), q)
  /\ ContainerReads(o, s, f, HeadAt(s, p), q)

Reads(o, s, st, from, at) ==
  /\ at[1] = from
  /\ \A k \in 1 .. Len(st) + 1 : at[k] \in 0 .. Len(s)
  /\ \A k \in 1 .. Len(st) : Linked(o, st, k) /\ FrameReads(o, s, st[k], at[k], at[k + 1])

\* v is a text string when there is one, under its tags, from p to q; only
\* DecodeJSON looks.
ReadsText(o, s, p, q, v) ==
  /\ v.t = "text" => Derived(o, s, Text(p, q))
  /\ o = "json" /\ v.t # "text" => \A e : ~Derived(o, s, Text(p, e))

\* The call that returned v to the innermost frame has read from p to q.
Returns(o, s, st, p, q, v) ==
  /\ KeyIn(o, st, Len(st)) => Derived(o, s, Key(p, q, DepthIn(st, Len(st))))
  /\ ~KeyIn(o, st, Len(st)) => /\ Derived(o, s, Item(p, q, DepthIn(st, Len(st))))
                               /\ ReadsText(o, s, p, q, v)

InProgress(at) ==
  /\ Reads(op, b, stack, start, at)
  /\ pc = "loop" => Top.kind \in {"array", "map"}
  /\ IF pc = "return" THEN Returns(op, b, stack, at[Len(stack) + 1], i, ret)
                      ELSE at[Len(stack) + 1] = i

\* A method that has succeeded has stepped over exactly one item that the
\* rules derive, wherever in the buffer it started.
AcceptsDerived == pc = "done" /\ err = "nil" => Derived(op, b, Item(start, i, MaxDepth))

GInv == AcceptsDerived /\ (pc # "done" => \E at : InProgress(at))

-----------------------------------------------------------------------------
\* The offsets read so far, and one more.
Extended(at, n, q) == [k \in Nat |-> IF k = n + 1 THEN q ELSE at[k]]

LEMMA OffsetAdded ==
  ASSUME NEW at, NEW n \in Nat, NEW m \in Nat, NEW q \in 0 .. m,
         \A k \in 1 .. n : at[k] \in 0 .. m
  PROVE  /\ Extended(at, n, q)[n + 1] = q
         /\ \A k \in 1 .. n : Extended(at, n, q)[k] = at[k]
         /\ \A k \in 1 .. n + 1 : Extended(at, n, q)[k] \in 0 .. m
<1> DEFINE to == Extended(at, n, q)
<1>1. to[n + 1] = q /\ \A k \in 1 .. n : to[k] = at[k]
  BY DEF Extended
<1> HIDE DEF to
<1>2. \A k \in 1 .. n + 1 : to[k] \in 0 .. m
  BY <1>1
<1> QED BY <1>1, <1>2 DEF to

\* What a frame is linked to are its own kind and depth and the frame below it.
LEMMA LinkKept ==
  ASSUME NEW o, NEW st, NEW st2, NEW k \in Nat, k # 0, Linked(o, st, k),
         st2[k].kind = st[k].kind, st2[k].depth = st[k].depth,
         k # 1 => st2[k - 1] = st[k - 1]
  PROVE  Linked(o, st2, k)
<1>1. k - 1 # 0 => st2[k - 1] = st[k - 1]
  OBVIOUS
<1>2. DepthIn(st2, k - 1) = DepthIn(st, k - 1) /\ (KeyIn(o, st2, k - 1) <=> KeyIn(o, st, k - 1))
  BY <1>1 DEF DepthIn, KeyIn
<1> QED BY <1>2 DEF Linked

\* A call that opens a frame.
LEMMA PushReads ==
  ASSUME NEW o, NEW s \in Seq(Byte), NEW st \in Seq(Frames), NEW from,
         NEW at, Reads(o, s, st, from, at),
         NEW f \in Frames, NEW q \in 0 .. Len(s),
         f.kind = "keytag" => KeyIn(o, st, Len(st)) /\ f.depth = DepthIn(st, Len(st)) + 1,
         f.kind # "keytag" => f.depth = DepthIn(st, Len(st)),
         f.kind \in {"array", "map", "tag"} => ~KeyIn(o, st, Len(st)),
         FrameReads(o, s, f, at[Len(st) + 1], q)
  PROVE  \E to :
           Reads(o, s, Append(st, f), from, to) /\ to[Len(Append(st, f)) + 1] = q
<1>1. Len(st) \in Nat /\ Len(st) + 1 \in Nat /\ Len(s) \in Nat /\ q \in 0 .. Len(s)
  OBVIOUS
<1>2. \A k \in 1 .. Len(st) + 1 : at[k] \in 0 .. Len(s)
  BY DEF Reads
<1> DEFINE to == Extended(at, Len(st) + 1, q)
<1>3. /\ to[(Len(st) + 1) + 1] = q
      /\ \A k \in 1 .. Len(st) + 1 : to[k] = at[k]
      /\ \A k \in 1 .. (Len(st) + 1) + 1 : to[k] \in 0 .. Len(s)
  BY <1>1, <1>2, OffsetAdded
<1> HIDE DEF to
<1> DEFINE n == Len(st)
           st2 == Append(st, f)
<1>4. /\ Len(st2) = n + 1 /\ st2[n + 1] = f
      /\ \A k \in 1 .. n : st2[k] = st[k]
  <2>1. \A k \in 1 .. n + 1 : st2[k] = IF k = n + 1 THEN f ELSE st[k]
    BY Appended
  <2>2. Len(st2) = n + 1
    BY Appended
  <2> HIDE DEF n, st2
  <2>3. n \in Nat
    BY <1>1 DEF n
  <2> QED BY <2>1, <2>2, <2>3
<1>5. to[1] = from
  <2>1. 1 \in 1 .. Len(st) + 1
    BY <1>1
  <2> QED BY <1>3, <2>1 DEF Reads
<1>6. ASSUME NEW k \in 1 .. n
      PROVE  Linked(o, st2, k) /\ FrameReads(o, s, st2[k], to[k], to[k + 1])
  <2>1. k \in Nat /\ k # 0 /\ k \in 1 .. n + 1 /\ k + 1 \in 1 .. n + 1 /\ (k # 1 => k - 1 \in 1 .. n)
    BY <1>1
  <2> HIDE DEF st2
  <2>2. st2[k] = st[k] /\ to[k] = at[k] /\ to[k + 1] = at[k + 1] /\ (k # 1 => st2[k - 1] = st[k - 1])
    BY <1>3, <1>4, <2>1
  <2>3. Linked(o, st, k) /\ FrameReads(o, s, st[k], at[k], at[k + 1])
    BY DEF Reads
  <2> QED BY <2>1, <2>2, <2>3, LinkKept
<1>7. Linked(o, st2, n + 1) /\ FrameReads(o, s, st2[n + 1], to[n + 1], to[(n + 1) + 1])
  <2> HIDE DEF st2
  <2>1. n + 1 \in 1 .. n + 1 /\ (n + 1) - 1 = n /\ (n # 0 => n \in 1 .. n)
    BY <1>1
  <2>2. st2[n + 1] = f /\ to[n + 1] = at[n + 1] /\ (n # 0 => st2[n] = st[n])
    BY <1>3, <1>4, <2>1
  <2>3. DepthIn(st2, n) = DepthIn(st, n) /\ (KeyIn(o, st2, n) <=> KeyIn(o, st, n))
    BY <2>2 DEF DepthIn, KeyIn
  <2>4. FrameReads(o, s, st2[n + 1], to[n + 1], to[(n + 1) + 1])
    BY <1>3, <2>2
  <2>5. /\ f.kind = "keytag" => KeyIn(o, st, n) /\ f.depth = DepthIn(st, n) + 1
        /\ f.kind # "keytag" => f.depth = DepthIn(st, n)
        /\ f.kind \in {"array", "map", "tag"} => ~KeyIn(o, st, n)
    OBVIOUS
  <2> HIDE DEF n
  <2>6. Linked(o, st2, n + 1)
    BY <2>1, <2>2, <2>3, <2>5 DEF Linked
  <2> QED BY <2>4, <2>6
<1>8. \A k \in 1 .. n + 1 : Linked(o, st2, k) /\ FrameReads(o, s, st2[k], to[k], to[k + 1])
  <2> HIDE DEF st2
  <2> SUFFICES ASSUME NEW k \in 1 .. n + 1
               PROVE  Linked(o, st2, k) /\ FrameReads(o, s, st2[k], to[k], to[k + 1])
    OBVIOUS
  <2>1. k \in 1 .. n \/ k = n + 1
    BY <1>1
  <2> QED BY <1>6, <1>7, <2>1, Zenon
<1> HIDE DEF st2
<1>9. Reads(o, s, st2, from, to) /\ to[Len(st2) + 1] = q
  BY <1>3, <1>4, <1>5, <1>8, Zenon DEF Reads
<1> QED BY <1>9, Zenon DEF st2

\* A call that returns leaves what the frames below have read.
LEMMA PopReads ==
  ASSUME NEW o, NEW s \in Seq(Byte), NEW st \in Seq(Frames), st # <<>>, NEW from,
         NEW at, Reads(o, s, st, from, at)
  PROVE  /\ Reads(o, s, Front(st), from, at)
         /\ Len(Front(st)) = Len(st) - 1
         /\ DepthIn(Front(st), Len(st) - 1) = DepthIn(st, Len(st) - 1)
         /\ KeyIn(o, Front(st), Len(st) - 1) <=> KeyIn(o, st, Len(st) - 1)
<1> DEFINE n == Len(st)
           st2 == Front(st)
<1>1. n \in Nat /\ n # 0
  OBVIOUS
<1>2. Len(st2) = n - 1 /\ \A k \in 1 .. n - 1 : st2[k] = st[k]
  BY FrontOf
<1>3. at[1] = from /\ \A k \in 1 .. n + 1 : at[k] \in 0 .. Len(s)
  BY DEF Reads
<1>4. \A k \in 1 .. n : Linked(o, st, k) /\ FrameReads(o, s, st[k], at[k], at[k + 1])
  BY DEF Reads
<1> HIDE DEF n, st2
<1>5. ASSUME NEW k \in 1 .. n - 1
      PROVE  Linked(o, st2, k) /\ FrameReads(o, s, st2[k], at[k], at[k + 1])
  <2>1. k \in Nat /\ k # 0 /\ k \in 1 .. n /\ (k # 1 => k - 1 \in 1 .. n - 1)
    BY <1>1
  <2>2. st2[k] = st[k] /\ (k # 1 => st2[k - 1] = st[k - 1])
    BY <1>2, <2>1
  <2>3. Linked(o, st, k) /\ FrameReads(o, s, st[k], at[k], at[k + 1])
    BY <1>4, <2>1
  <2> QED BY <2>1, <2>2, <2>3, LinkKept
<1>6. \A k \in 1 .. (n - 1) + 1 : at[k] \in 0 .. Len(s)
  BY <1>1, <1>3
<1>7. n - 1 # 0 => st2[n - 1] = st[n - 1]
  BY <1>1, <1>2
<1>8. /\ DepthIn(st2, n - 1) = DepthIn(st, n - 1)
      /\ KeyIn(o, st2, n - 1) <=> KeyIn(o, st, n - 1)
  BY <1>7 DEF DepthIn, KeyIn
<1>9. Reads(o, s, st2, from, at)
  BY <1>2, <1>3, <1>5, <1>6, Zenon DEF Reads
<1> QED BY <1>2, <1>8, <1>9 DEF n, st2

\* st2 is st with another innermost frame, on the same call.
Replaced(st, st2) ==
  /\ Len(st2) = Len(st)
  /\ \A k \in 1 .. Len(st) - 1 : st2[k] = st[k]
  /\ st2[Len(st)].kind = st[Len(st)].kind
  /\ st2[Len(st)].depth = st[Len(st)].depth

\* A frame that takes in a chunk or an element reads on.
LEMMA GrowReads ==
  ASSUME NEW o, NEW s \in Seq(Byte), NEW st \in Seq(Frames), st # <<>>, NEW from,
         NEW at, Reads(o, s, st, from, at),
         NEW st2, Replaced(st, st2),
         NEW q \in 0 .. Len(s),
         FrameReads(o, s, st2[Len(st)], at[Len(st)], q)
  PROVE  \E to : Reads(o, s, st2, from, to) /\ to[Len(st2) + 1] = q
<1> DEFINE n == Len(st)
<1>1. n \in Nat /\ n # 0 /\ Len(s) \in Nat /\ q \in 0 .. Len(s)
  BY DEF Replaced
<1>2. at[1] = from /\ \A k \in 1 .. n + 1 : at[k] \in 0 .. Len(s)
  BY DEF Reads
<1>3. \A k \in 1 .. n : Linked(o, st, k) /\ FrameReads(o, s, st[k], at[k], at[k + 1])
  BY DEF Reads
<1>4. /\ Len(st2) = n
      /\ \A k \in 1 .. n - 1 : st2[k] = st[k]
      /\ st2[n].kind = st[n].kind /\ st2[n].depth = st[n].depth
  BY DEF Replaced
<1>5. FrameReads(o, s, st2[n], at[n], q)
  OBVIOUS
<1> HIDE DEF n
<1>6. \A k \in 1 .. n : at[k] \in 0 .. Len(s)
  BY <1>1, <1>2
<1> DEFINE to == Extended(at, n, q)
<1>7. /\ to[n + 1] = q
      /\ \A k \in 1 .. n : to[k] = at[k]
      /\ \A k \in 1 .. n + 1 : to[k] \in 0 .. Len(s)
  BY <1>1, <1>6, OffsetAdded
<1> HIDE DEF to
<1>8. ASSUME NEW k \in 1 .. n
      PROVE  Linked(o, st2, k) /\ FrameReads(o, s, st2[k], to[k], to[k + 1])
  <2>1. k \in Nat /\ k # 0 /\ (k # 1 => k - 1 \in 1 .. n - 1) /\ (k = n \/ k \in 1 .. n - 1)
    BY <1>1
  <2>2. st2[k].kind = st[k].kind /\ st2[k].depth = st[k].depth /\ (k # 1 => st2[k - 1] = st[k - 1])
    BY <1>4, <2>1
  <2>3. Linked(o, st, k) /\ FrameReads(o, s, st[k], at[k], at[k + 1])
    BY <1>3
  <2>4. Linked(o, st2, k)
    BY <2>1, <2>2, <2>3, LinkKept
  <2>5. CASE k = n
    BY <1>5, <1>7, <2>4, <2>5
  <2>6. CASE k \in 1 .. n - 1
    <3>1. k + 1 \in 1 .. n /\ st2[k] = st[k]
      BY <1>1, <1>4, <2>6
    <3>2. to[k] = at[k] /\ to[k + 1] = at[k + 1]
      BY <1>7, <3>1
    <3> QED BY <2>3, <2>4, <3>1, <3>2
  <2> QED BY <2>1, <2>5, <2>6
<1>9. to[1] = from
  BY <1>1, <1>2, <1>7
<1>10. Reads(o, s, st2, from, to) /\ to[Len(st2) + 1] = q
  BY <1>4, <1>7, <1>8, <1>9, Zenon DEF Reads
<1> QED BY <1>10

-----------------------------------------------------------------------------
\* The call about to be made, or that has returned, is one that the innermost
\* frame makes.
LEMMA HereLevel ==
  ASSUME IInv
  PROVE  /\ CallDepth = DepthIn(stack, Len(stack))
         /\ AtJsonKey <=> KeyIn(op, stack, Len(stack))
<1>1. stack \in Seq(Frames) /\ Len(stack) \in Nat /\ (stack = <<>> <=> Len(stack) = 0)
  BY DEF IInv, TypeOK
<1>2. stack # <<>> => Top = stack[Len(stack)]
  BY InnermostFrame
<1> QED BY <1>1, <1>2 DEF CallDepth, AtJsonKey, DepthIn, KeyIn

\* A frame has a level of the grammar, and its calls have one or are refused.
LEMMA DepthRange ==
  ASSUME IInv, NEW k \in 0 .. Len(stack)
  PROVE  /\ DepthIn(stack, k) \in {-1} \cup Levels
         /\ k # 0 => stack[k].depth \in Levels
<1> USE LimitsAssumption
<1>1. stack \in Seq(Frames)
  BY DEF IInv, TypeOK
<1>2. CASE k = 0
  BY <1>2 DEF DepthIn, Levels
<1>3. CASE k # 0
  <2>1. k \in 1 .. Len(stack) /\ k \in Nat
    BY <1>1, <1>3
  <2>2. stack[k] \in Frames
    BY <1>1, <2>1
  <2>3. stack[k].depth \in Int
    BY <2>2 DEF Frames
  <2>4. FrameDeep(stack[k], k, op)
    BY <2>1 DEF IInv, Deep
  <2> DEFINE d == stack[k].depth
  <2>5. 2 * d + k <= 2 * MaxDepth + 2 /\ d >= 0 /\ d \in Int
    BY <2>1, <2>3, <2>4 DEF FrameDeep
  <2> HIDE DEF d
  <2>6. d \in 0 .. MaxDepth
    BY <2>1, <2>5
  <2> QED BY <1>3, <2>6 DEF DepthIn, Levels, d
<1> QED BY <1>2, <1>3

\* A call that is not refused has a level.
LEMMA CallLevel ==
  ASSUME IInv
  PROVE  /\ CallDepth \in {-1} \cup Levels
         /\ CallDepth >= 0 => CallDepth \in Levels
<1>1. Len(stack) \in 0 .. Len(stack)
  BY DEF IInv, TypeOK
<1>2. CallDepth \in {-1} \cup Levels
  BY <1>1, HereLevel, DepthRange
<1> HIDE DEF CallDepth
<1> QED BY <1>2

-----------------------------------------------------------------------------
\* A walk that fails promises nothing.
LEMMA FailHolds == ASSUME NEW e, e # "nil", NEW j, Fail(e, j) PROVE GInv'
BY DEF Fail, GInv, AcceptsDerived

\* A call that returns has read an item, or a key, up to where it leaves the
\* cursor.
LEMMA YieldHolds ==
  ASSUME UNCHANGED <<b, op, start>>, NEW v, NEW j, NEW rest, Yield(v, j, rest),
         NEW at, Reads(op, b, rest, start, at),
         Returns(op, b, rest, at[Len(rest) + 1], j, v)
  PROVE  GInv'
<1>1. pc' = "return" /\ i' = j /\ stack' = rest /\ ret' = v
      /\ b' = b /\ op' = op /\ start' = start
  BY DEF Yield
<1>2. InProgress(at)'
  BY <1>1 DEF InProgress
<1> QED BY <1>1, <1>2 DEF GInv, AcceptsDerived

\* A call that opens a frame goes on behind its head.
LEMMA PushHolds ==
  ASSUME IInv, UNCHANGED <<b, op, start>>, NEW f \in Frames, NEW where, Push(f, where),
         where \in {"call", "chunk", "loop"}, where = "loop" => f.kind \in {"array", "map"},
         h.err = "nil",
         NEW at, Reads(op, b, stack, start, at), at[Len(stack) + 1] = i,
         f.kind = "keytag" => AtJsonKey /\ f.depth = CallDepth + 1,
         f.kind # "keytag" => f.depth = CallDepth,
         f.kind \in {"array", "map", "tag"} => ~AtJsonKey,
         StringReads(op, b, f, h, h.next), TagReads(f, h, h.next),
         ContainerReads(op, b, f, h, h.next)
  PROVE  GInv'
<1>1. pc' = where /\ i' = h.next /\ stack' = Append(stack, f)
      /\ b' = b /\ op' = op /\ start' = start
  BY DEF Push
<1>2. b \in Seq(Byte) /\ stack \in Seq(Frames) /\ h.next \in 0 .. Len(b)
  BY HeadHere DEF IInv, TypeOK, HeadOK
<1>3. FrameReads(op, b, f, at[Len(stack) + 1], h.next)
  BY DEF FrameReads, h
<1>4. CallDepth = DepthIn(stack, Len(stack)) /\ (AtJsonKey <=> KeyIn(op, stack, Len(stack)))
  BY HereLevel
<1>5. PICK to : Reads(op, b, Append(stack, f), start, to) /\ to[Len(Append(stack, f)) + 1] = h.next
  <2> HIDE DEF CallDepth, AtJsonKey, h
  <2> QED BY <1>2, <1>3, <1>4, PushReads
<1>6. Top' = f
  BY <1>1, <1>2, Appended DEF Top, Last
<1>7. InProgress(to)'
  BY <1>1, <1>5, <1>6 DEF InProgress
<1> QED BY <1>1, <1>7 DEF GInv, AcceptsDerived

-----------------------------------------------------------------------------
\* What is known when an item is admitted: its head, and where it stands.
LEMMA AtHead ==
  ASSUME IInv, GInv, Admitted
  PROVE  /\ UNCHANGED <<b, op, start>> /\ h = HeadAt(b, i) /\ h.err = "nil"
         /\ HeadOK(h, i, Len(b))
         /\ i \in 0 .. Len(b) /\ h.next \in 0 .. Len(b)
         /\ ~AtJsonKey => CallDepth \in Levels
         /\ \E at : Reads(op, b, stack, start, at) /\ at[Len(stack) + 1] = i
<1>1. pc = "call" /\ h.err = "nil" /\ UNCHANGED <<b, op, start>> /\ (~AtJsonKey => CallDepth >= 0)
  BY DEF Admitted, Counted
<1>2. HeadOK(h, i, Len(b)) /\ Len(b) \in Nat /\ i \in Nat /\ i <= Len(b)
  BY HeadHere DEF IInv, TypeOK, CursorInBounds
<1>3. i \in 0 .. Len(b) /\ h.next \in 0 .. Len(b)
  BY <1>2 DEF HeadOK
<1>4. ~AtJsonKey => CallDepth \in Levels
  BY <1>1, CallLevel
<1>5. \E at : Reads(op, b, stack, start, at) /\ at[Len(stack) + 1] = i
  BY <1>1 DEF GInv, InProgress
<1> QED BY <1>1, <1>2, <1>3, <1>4, <1>5 DEF h

\* An item that is its own head, or a string, returns to the frame it is in.
LEMMA ItemReturned ==
  ASSUME IInv, ~AtJsonKey, NEW p, NEW q, Derived(op, b, Item(p, q, CallDepth)),
         NEW v, ReadsText(op, b, p, q, v)
  PROVE  Returns(op, b, stack, p, q, v)
BY HereLevel DEF Returns

\* Only a text string and what is tagged may be read as text.
LEMMA NotText ==
  ASSUME NEW o, NEW s \in Seq(Byte), NEW p, HeadAt(s, p).mt \notin {mtText, mtTag}, NEW q,
         NEW v, v.t # "text"
  PROVE  ReadsText(o, s, p, q, v)
<1>1. \A e : ~Derived(o, s, Text(p, e))
  BY Inversion DEF WhyText
<1> QED BY <1>1 DEF ReadsText

LEMMA IntegerHolds == ASSUME IInv, GInv, Integer PROVE GInv'
<1>1. Admitted /\ ~AtJsonKey /\ h.mt \in {mtUint, mtNegInt}
  BY DEF Integer
<1>2. PICK at : Reads(op, b, stack, start, at) /\ at[Len(stack) + 1] = i
  BY <1>1, AtHead
<1>3. CASE h.indef
  BY <1>3, FailHolds DEF Integer
<1>4. CASE ~h.indef
  <2>1. Yield(NoString, h.next, stack)
    BY <1>4 DEF Integer
  <2>2. Derived(op, b, Item(i, h.next, CallDepth))
    BY <1>1, <1>4, AtHead, AtomDerived DEF Atom
  <2>3. ReadsText(op, b, i, h.next, NoString)
    <3>1. HeadAt(b, i).mt \notin {mtText, mtTag} /\ NoString.t # "text" /\ b \in Seq(Byte)
      BY <1>1 DEF h, mtUint, mtNegInt, mtText, mtTag, NoString, IInv, TypeOK
    <3> QED BY <3>1, NotText
  <2>4. Returns(op, b, stack, i, h.next, NoString)
    BY <1>1, <2>2, <2>3, ItemReturned
  <2> QED BY <1>1, <1>2, <2>1, <2>4, AtHead, YieldHolds
<1> QED BY <1>3, <1>4

LEMMA SimpleHolds == ASSUME IInv, GInv, Simple PROVE GInv'
<1>1. Admitted /\ ~AtJsonKey /\ h.mt = mtSimple
  BY DEF Simple
<1>2. PICK at : Reads(op, b, stack, start, at) /\ at[Len(stack) + 1] = i
  BY <1>1, AtHead
<1>3. CASE ~SimpleAllowed
  BY <1>3, FailHolds DEF Simple
<1>4. CASE SimpleAllowed
  <2>1. Yield(NoString, h.next, stack)
    BY <1>4 DEF Simple
  <2>2. GoodSimple(op, h.ai, h.arg)
    <3>1. h.ai \notin 28 .. 30 /\ h.ai \in 0 .. 31 /\ h.arg \in Nat
      BY <1>1, AtHead, HeadWidth DEF HeadOK
    <3> QED BY <1>4, <3>1 DEF SimpleAllowed, GoodSimple
  <2>3. Derived(op, b, Item(i, h.next, CallDepth))
    BY <1>1, <2>2, AtHead, AtomDerived DEF Atom
  <2>4. ReadsText(op, b, i, h.next, NoString)
    <3>1. HeadAt(b, i).mt \notin {mtText, mtTag} /\ NoString.t # "text" /\ b \in Seq(Byte)
      BY <1>1 DEF h, mtSimple, mtText, mtTag, NoString, IInv, TypeOK
    <3> QED BY <3>1, NotText
  <2>5. Returns(op, b, stack, i, h.next, NoString)
    BY <1>1, <2>3, <2>4, ItemReturned
  <2> QED BY <1>1, <1>2, <2>1, <2>5, AtHead, YieldHolds
<1> QED BY <1>3, <1>4

\* The check of a string is the check of what the grammar calls its content.
LEMMA ContentChecked ==
  ASSUME NEW mt \in {mtBytes, mtText}, NEW s, Len(s) <= MaxStringBytes,
         ~InvalidText(StringKind(mt), s)
  PROVE  GoodContent(op, mt, s)
BY DEF GoodContent, InvalidText, StringKind, mtText, mtBytes

\* What a string returns is text if its head is, for DecodeJSON.
LEMMA StringReadsText ==
  ASSUME NEW p, NEW q, NEW d, Derived(op, b, Item(p, q, d)), b \in Seq(Byte),
         HeadAt(b, p).mt \in {mtBytes, mtText}, NEW s
  PROVE  ReadsText(op, b, p, q, String(StringKind(HeadAt(b, p).mt), s))
<1> DEFINE g == HeadAt(b, p)
           v == String(StringKind(g.mt), s)
<1>1. v.t = "text" <=> op = "json" /\ g.mt = mtText
  BY DEF String, NoString, StringKind
<1> SUFFICES ReadsText(op, b, p, q, v)
  OBVIOUS
<1> HIDE DEF v
<1>2. g.mt = mtText => Derived(op, b, Text(p, q))
  BY KeyDerived
<1>3. g.mt # mtText => g.mt \notin {mtText, mtTag}
  BY DEF mtBytes, mtText, mtTag
<1>4. CASE v.t = "text"
  BY <1>1, <1>2, <1>4 DEF ReadsText
<1>5. CASE v.t # "text" /\ g.mt = mtText
  BY <1>1, <1>5 DEF ReadsText
<1>6. CASE v.t # "text" /\ g.mt # mtText
  BY <1>3, <1>6, NotText
<1> QED BY <1>4, <1>5, <1>6

LEMMA DefiniteStringHolds == ASSUME IInv, GInv, DefiniteString PROVE GInv'
<1>1. Admitted /\ h.mt \in {mtBytes, mtText} /\ ~h.indef
  BY DEF DefiniteString
<1>2. PICK at : Reads(op, b, stack, start, at) /\ at[Len(stack) + 1] = i
  BY <1>1, AtHead
<1>3. CASE ChunkError # "nil"
  BY <1>3, FailHolds DEF DefiniteString
<1>4. CASE ChunkError = "nil" /\ InvalidText(StringKind(h.mt), ChunkBytes)
  BY <1>4, FailHolds DEF DefiniteString
<1>5. CASE ChunkError = "nil" /\ ~InvalidText(StringKind(h.mt), ChunkBytes)
  <2> DEFINE v == String(StringKind(h.mt), ChunkBytes)
             end == h.next + h.arg
  <2>1. Yield(v, end, stack)
    BY <1>5 DEF DefiniteString, ChunkEnd
  <2>2. h.next \in Nat /\ h.arg \in Nat /\ b \in Seq(Byte) /\ end <= Len(b) /\ h.arg <= MaxStringBytes
    <3>1. h.next \in Nat /\ h.arg \in Nat /\ end <= Len(b)
      BY <1>5, ChunkFits
    <3>2. ~(h.arg > MaxStringBytes)
      BY <1>5 DEF ChunkError
    <3> QED BY <3>1, <3>2, LimitsAssumption DEF IInv, TypeOK
  <2>3. StringIn(b, h) /\ ChunkBytes = Content(b, h)
    BY <1>1, <2>2, AtHead DEF StringIn, Content, ChunkBytes
  <2>4. Len(ChunkBytes) <= MaxStringBytes
    BY <2>2, SliceLength DEF ChunkBytes
  <2>5. GoodContent(op, h.mt, Content(b, h))
    BY <1>1, <1>5, <2>3, <2>4, ContentChecked
  <2>6. /\ \A d \in Levels : Derived(op, b, Item(i, end, d))
        /\ op = "json" => \A d \in {-1} \cup Levels : Derived(op, b, Key(i, end, d))
    BY <1>1, <2>3, <2>5, AtHead, StringDerived
  <2>7. Returns(op, b, stack, i, end, v)
    <3>1. CASE AtJsonKey
      <4>1. op = "json" /\ CallDepth \in {-1} \cup Levels
        BY <3>1, CallLevel DEF AtJsonKey
      <4> HIDE DEF AtJsonKey, end
      <4>2. Derived(op, b, Key(i, end, CallDepth))
        BY <2>6, <4>1
      <4> QED BY <3>1, <4>2, HereLevel DEF Returns
    <3>2. CASE ~AtJsonKey
      <4>1. CallDepth \in Levels
        BY <1>1, <3>2, AtHead
      <4> HIDE DEF AtJsonKey, end
      <4>2. Derived(op, b, Item(i, end, CallDepth))
        BY <2>6, <4>1
      <4>3. ReadsText(op, b, i, end, v)
        BY <1>1, <2>2, <4>2, StringReadsText DEF h
      <4> HIDE DEF v
      <4> QED BY <3>2, <4>2, <4>3, ItemReturned
    <3> QED BY <3>1, <3>2
  <2> HIDE DEF v, end
  <2> QED BY <1>1, <1>2, <2>1, <2>7, AtHead, YieldHolds
<1> QED BY <1>3, <1>4, <1>5

LEMMA OpenStringHolds == ASSUME IInv, GInv, OpenString PROVE GInv'
<1>1. Admitted /\ h.mt \in {mtBytes, mtText} /\ h.indef
  BY DEF OpenString
<1>2. PICK at : Reads(op, b, stack, start, at) /\ at[Len(stack) + 1] = i
  BY <1>1, AtHead
<1>3. CASE CallDepth < 0
  BY <1>3, FailHolds DEF OpenString
<1>4. CASE ~(CallDepth < 0)
  <2> DEFINE f == Frame(StringKind(h.mt), CallDepth, TRUE, 0)
  <2>1. Push(f, "chunk")
    BY <1>4 DEF OpenString
  <2>2. /\ f.kind = StringKind(h.mt) /\ f.depth = CallDepth /\ f.part = <<>>
        /\ f.kind \in {"bytes", "text"}
    BY DEF Frame, StringKind
  <2>3. f \in Frames
    <3>1. StringKind(h.mt) \in Kinds /\ CallDepth >= 0
      BY <1>4, CallDepthInt DEF StringKind, Kinds
    <3> QED BY <3>1, CallFrame
  <2>4. Derived(op, b, Run(h.mt, h.next, h.next, 0, <<>>))
    BY <1>1, AtHead, EmptyDerived
  <2> HIDE DEF f
  <2>5. TagReads(f, h, h.next) /\ ContainerReads(op, b, f, h, h.next)
    BY <2>2 DEF TagReads, ContainerReads
  <2>6. StringReads(op, b, f, h, h.next)
    <3>1. Len(f.part) = 0 /\ 0 <= MaxStringBytes
      BY <2>2, LimitsAssumption
    <3> QED BY <1>1, <2>2, <2>4, <3>1 DEF StringReads
  <2> QED BY <1>1, <1>2, <2>1, <2>2, <2>3, <2>5, <2>6, AtHead, PushHolds
<1> QED BY <1>3, <1>4

LEMMA OpenContainerHolds == ASSUME IInv, GInv, OpenContainer PROVE GInv'
<1>1. Admitted /\ ~AtJsonKey /\ h.mt \in {mtArray, mtMap}
  BY DEF OpenContainer
<1>2. PICK at : Reads(op, b, stack, start, at) /\ at[Len(stack) + 1] = i
  BY <1>1, AtHead
<1>3. CASE CountError # "nil"
  BY <1>3, FailHolds DEF OpenContainer
<1>4. CASE CountError = "nil"
  <2> DEFINE kind == IF h.mt = mtArray THEN "array" ELSE "map"
             f == Frame(kind, CallDepth, h.indef, PerElement * h.arg)
  <2>1. Push(f, "loop")
    BY <1>4 DEF OpenContainer
  <2>2. /\ f.kind = kind /\ f.depth = CallDepth /\ f.indef = h.indef /\ f.got = 0
        /\ f.want = PerElement * h.arg /\ f.kind \in {"array", "map"}
    BY DEF Frame
  <2>3. h.arg \in Nat /\ h.indef \in BOOLEAN /\ CallDepth \in Levels
    BY <1>1, AtHead DEF HeadOK
  <2>4. f \in Frames
    <3>1. CallDepth >= 0 /\ PerElement * h.arg \in Nat
      BY <2>3 DEF Levels, PerElement
    <3>2. kind \in Kinds
      BY DEF Kinds
    <3> QED BY <2>3, <3>1, <3>2, CallFrame
  <2>5. /\ kind = "map" <=> h.mt = mtMap
        /\ PerElement = (IF kind = "map" THEN 2 ELSE 1)
    BY <1>1 DEF PerElement, mtArray, mtMap
  <2>6. ~h.indef => h.arg <= (IF h.mt = mtMap THEN MaxMapPairs ELSE MaxArrayElements)
    <3>1. ~h.indef => ~(h.arg > CountLimit)
      BY <1>4 DEF CountError
    <3>2. CountLimit = (IF h.mt = mtMap THEN MaxMapPairs ELSE MaxArrayElements)
      BY <1>1 DEF CountLimit, mtArray, mtMap
    <3> QED BY <2>3, <3>1, <3>2, LimitsAssumption
  <2>7. GoodCount(op, h.mt, h.indef, CountOf(f, h))
    <3>1. CASE ~h.indef
      BY <2>2, <2>6, <3>1 DEF CountOf, GoodCount
    <3>2. CASE h.indef
      <4>1. f.got \div 2 = 0
        BY <2>2
      <4> HIDE DEF f
      <4>2. CountOf(f, h) = 0
        BY <2>2, <3>2, <4>1 DEF CountOf
      <4> QED BY <4>2, LimitsAssumption DEF GoodCount
    <3> QED BY <3>1, <3>2
  <2>8. Derived(op, b, Row(h.next, h.next, 0, CallDepth - 1, kind = "map"))
    <3>1. CallDepth - 1 \in {-1} \cup Levels
      BY <2>3, LimitsAssumption DEF Levels
    <3>2. (kind = "map") \in BOOLEAN /\ h.next \in 0 .. Len(b)
      BY <1>1, AtHead
    <3> HIDE DEF kind, CallDepth
    <3> QED BY <3>1, <3>2, EmptyDerived
  <2> HIDE DEF f
  <2>9. ContainerReads(op, b, f, h, h.next)
    BY <1>1, <2>2, <2>5, <2>7, <2>8 DEF ContainerReads
  <2>10. StringReads(op, b, f, h, h.next) /\ TagReads(f, h, h.next)
    BY <2>2 DEF StringReads, TagReads
  <2> QED BY <1>1, <1>2, <2>1, <2>2, <2>4, <2>9, <2>10, AtHead, PushHolds
<1> QED BY <1>3, <1>4

LEMMA OpenTagHolds == ASSUME IInv, GInv, OpenTag PROVE GInv'
<1>1. Admitted /\ h.mt = mtTag
  BY DEF OpenTag
<1>2. PICK at : Reads(op, b, stack, start, at) /\ at[Len(stack) + 1] = i
  BY <1>1, AtHead
<1>3. CASE h.indef
  BY <1>3, FailHolds DEF OpenTag
<1>4. CASE ~h.indef
  <2> DEFINE f == IF AtJsonKey THEN Frame("keytag", Top.depth, FALSE, 0)
                               ELSE Frame("tag", CallDepth, FALSE, 0)
  <2>1. Push(f, "call")
    BY <1>4 DEF OpenTag
  <2>2. /\ f.kind = "keytag" => AtJsonKey /\ f.depth = CallDepth + 1
        /\ f.kind # "keytag" => f.depth = CallDepth
        /\ f.kind \in {"tag", "keytag"}
        /\ f.kind \in {"array", "map", "tag"} => ~AtJsonKey
        /\ f \in Frames
    <3>1. CASE AtJsonKey
      <4>1. f = Frame("keytag", Top.depth, FALSE, 0) /\ f \in Frames
        BY <3>1, KeyTagFrame
      <4>2. f.kind = "keytag" /\ f.depth = Top.depth
        BY <4>1 DEF Frame
      <4>3. CallDepth = Top.depth - 1 /\ Top.depth \in Int
        BY <3>1, InnermostFrame DEF CallDepth, AtJsonKey, Frames
      <4> HIDE DEF f, CallDepth, AtJsonKey
      <4>4. f.depth = CallDepth + 1
        BY <4>2, <4>3
      <4> QED BY <3>1, <4>1, <4>2, <4>4, Zenon
    <3>2. CASE ~AtJsonKey
      <4>1. f = Frame("tag", CallDepth, FALSE, 0)
        BY <3>2
      <4>2. CallDepth >= 0
        BY <1>1, <3>2 DEF Admitted, Counted
      <4>3. f \in Frames
        BY <4>1, <4>2, CallFrame DEF Kinds
      <4>4. f.kind = "tag" /\ f.depth = CallDepth
        BY <4>1 DEF Frame
      <4> HIDE DEF f, CallDepth, AtJsonKey
      <4> QED BY <3>2, <4>3, <4>4
    <3> QED BY <3>1, <3>2
  <2> HIDE DEF f
  <2>3. StringReads(op, b, f, h, h.next) /\ ContainerReads(op, b, f, h, h.next)
    BY <2>2 DEF StringReads, ContainerReads
  <2>4. TagReads(f, h, h.next)
    BY <1>1, <1>4 DEF TagReads
  <2> QED BY <1>1, <1>2, <2>1, <2>2, <2>3, <2>4, AtHead, PushHolds
<1> QED BY <1>3, <1>4

-----------------------------------------------------------------------------
\* What is known of the innermost call from what it has read.
LEMMA AtTop ==
  ASSUME IInv, stack # <<>>, NEW at, Reads(op, b, stack, start, at)
  PROVE  /\ b \in Seq(Byte) /\ stack \in Seq(Frames) /\ Top \in Frames
         /\ Len(stack) \in Nat /\ Top = stack[Len(stack)]
         /\ Linked(op, stack, Len(stack))
         /\ FrameReads(op, b, Top, at[Len(stack)], at[Len(stack) + 1])
         /\ at[Len(stack)] \in 0 .. Len(b)
         /\ Top.depth \in Levels
         /\ DepthIn(stack, Len(stack)) = Top.depth - 1
<1>1. b \in Seq(Byte) /\ stack \in Seq(Frames) /\ Top \in Frames /\ Top = stack[Len(stack)]
  BY InnermostFrame DEF IInv, TypeOK
<1>2. Len(stack) \in Nat /\ Len(stack) # 0
  BY <1>1
<1>3. Len(stack) \in 1 .. Len(stack) /\ Len(stack) \in 1 .. Len(stack) + 1 /\ Len(stack) \in 0 .. Len(stack)
  BY <1>2
<1>4. /\ Linked(op, stack, Len(stack))
      /\ FrameReads(op, b, Top, at[Len(stack)], at[Len(stack) + 1])
      /\ at[Len(stack)] \in 0 .. Len(b)
  BY <1>1, <1>3 DEF Reads
<1>5. Top.depth \in Levels
  BY <1>1, <1>2, <1>3, DepthRange
<1>6. DepthIn(stack, Len(stack)) = Top.depth - 1
  BY <1>1, <1>2 DEF DepthIn
<1> QED BY <1>1, <1>2, <1>4, <1>5, <1>6

\* A call that returns to the frame that made it.
LEMMA PopHolds ==
  ASSUME IInv, stack # <<>>, UNCHANGED <<b, op, start>>,
         NEW at, Reads(op, b, stack, start, at),
         NEW v, NEW q, Yield(v, q, Front(stack)),
         KeyIn(op, stack, Len(stack) - 1) =>
           Derived(op, b, Key(at[Len(stack)], q, DepthIn(stack, Len(stack) - 1))),
         ~KeyIn(op, stack, Len(stack) - 1) =>
           /\ Derived(op, b, Item(at[Len(stack)], q, DepthIn(stack, Len(stack) - 1)))
           /\ ReadsText(op, b, at[Len(stack)], q, v)
  PROVE  GInv'
<1>1. b \in Seq(Byte) /\ stack \in Seq(Frames) /\ Len(stack) \in Nat
  BY AtTop
<1>2. /\ Reads(op, b, Front(stack), start, at)
      /\ Len(Front(stack)) = Len(stack) - 1
      /\ DepthIn(Front(stack), Len(stack) - 1) = DepthIn(stack, Len(stack) - 1)
      /\ KeyIn(op, Front(stack), Len(stack) - 1) <=> KeyIn(op, stack, Len(stack) - 1)
  BY <1>1, PopReads
<1>3. Len(Front(stack)) + 1 = Len(stack)
  BY <1>1, <1>2
<1>4. Returns(op, b, Front(stack), at[Len(Front(stack)) + 1], q, v)
  BY <1>2, <1>3 DEF Returns
<1> QED BY <1>2, <1>4, YieldHolds

\* A frame that takes in a chunk or an element.
LEMMA GrowHolds ==
  ASSUME IInv, stack # <<>>, UNCHANGED <<b, op, start>>,
         NEW at, Reads(op, b, stack, start, at),
         NEW f \in Frames, f.kind = Top.kind, f.depth = Top.depth,
         stack' = [stack EXCEPT ![Len(stack)] = f],
         NEW q \in 0 .. Len(b), i' = q,
         pc' \in {"chunk", "loop"}, pc' = "loop" => f.kind \in {"array", "map"},
         FrameReads(op, b, f, at[Len(stack)], q)
  PROVE  GInv'
<1>1. b \in Seq(Byte) /\ stack \in Seq(Frames) /\ Len(stack) \in Nat /\ Top = stack[Len(stack)]
  BY AtTop
<1>2. /\ Len(stack') = Len(stack)
      /\ \A k \in 1 .. Len(stack) : stack'[k] = IF k = Len(stack) THEN f ELSE stack[k]
  BY <1>1, LastReplaced
<1>3. /\ Len(stack) # 0 /\ Len(stack) \in 1 .. Len(stack)
      /\ \A k \in 1 .. Len(stack) - 1 : k \in 1 .. Len(stack) /\ k # Len(stack)
  BY <1>1
<1>4. /\ stack'[Len(stack)] = f
      /\ \A k \in 1 .. Len(stack) - 1 : stack'[k] = stack[k]
  BY <1>2, <1>3
<1>5. Replaced(stack, stack') /\ FrameReads(op, b, stack'[Len(stack)], at[Len(stack)], q)
  BY <1>1, <1>2, <1>4 DEF Replaced
<1>6. PICK to : Reads(op, b, stack', start, to) /\ to[Len(stack') + 1] = q
  <2>1. /\ b \in Seq(Byte) /\ stack \in Seq(Frames) /\ stack # <<>>
        /\ Reads(op, b, stack, start, at) /\ q \in 0 .. Len(b)
    BY <1>1
  <2> QED BY ONLY <1>5, <2>1, GrowReads
<1>7. Top' = f
  BY <1>2, <1>3, <1>4 DEF Top, Last
<1>8. InProgress(to)'
  BY <1>6, <1>7 DEF InProgress
<1> QED BY <1>8 DEF GInv, AcceptsDerived

-----------------------------------------------------------------------------
\* The chunks of an indefinite string.
LEMMA TakeChunkHolds == ASSUME IInv, GInv, TakeChunk PROVE GInv'
<1>1. /\ pc = "chunk" /\ h.err = "nil" /\ ~h.indef /\ h.mt \in {mtBytes, mtText}
      /\ StringKind(h.mt) = Top.kind /\ UNCHANGED <<b, op, start>>
  BY DEF TakeChunk, Inside
<1>2. PICK at : Reads(op, b, stack, start, at) /\ at[Len(stack) + 1] = i
  BY <1>1 DEF GInv, InProgress
<1>3. CASE ChunkError # "nil"
  BY <1>3, FailHolds DEF TakeChunk
<1>4. CASE ChunkError = "nil" /\ Len(Top.part) + h.arg > MaxStringBytes
  BY <1>4, FailHolds DEF TakeChunk
<1>5. CASE ChunkError = "nil" /\ ~(Len(Top.part) + h.arg > MaxStringBytes)
  <2> DEFINE f == [Top EXCEPT !.part = @ \o ChunkBytes]
             end == h.next + h.arg
             g == HeadAt(b, at[Len(stack)])
  <2>1. /\ stack' = [stack EXCEPT ![Len(stack)].part = @ \o ChunkBytes]
        /\ i' = end /\ pc' = pc
    BY <1>5 DEF TakeChunk, ChunkEnd
  <2>2. stack # <<>>
    BY <1>1 DEF IInv, Framed
  <2>3. /\ Top \in Frames /\ Top = stack[Len(stack)] /\ b \in Seq(Byte) /\ Len(b) \in Nat
        /\ FrameReads(op, b, Top, at[Len(stack)], i)
    BY <1>2, <2>2, AtTop
  <2>4. /\ h.next \in Nat /\ h.arg \in Nat /\ end \in Nat /\ end <= Len(b)
        /\ ChunkBytes \in Seq(Byte)
    BY <1>5, ChunkFits
  <2>5. StringIn(b, h) /\ ChunkBytes = Content(b, h)
    BY <1>1, <2>4 DEF StringIn, Content, ChunkBytes
  <2>6. Top.part \in Seq(Byte) /\ Top.kind \in {"bytes", "text"}
    BY <1>1, <2>3 DEF Frames, StringKind
  <2>7. /\ f \in Frames /\ f.kind = Top.kind /\ f.depth = Top.depth
        /\ f.part = Top.part \o ChunkBytes
    <3>1. Top.part \o ChunkBytes \in Seq(Byte)
      BY <2>4, <2>6
    <3> QED BY <2>3, <3>1 DEF Frames
  <2>8. Len(f.part) <= MaxStringBytes
    <3>1. Len(ChunkBytes) = h.arg
      BY <2>3, <2>4, SliceLength DEF ChunkBytes
    <3>2. Len(Top.part \o ChunkBytes) = Len(Top.part) + h.arg
      BY <2>4, <2>6, <3>1, JoinLength
    <3>3. Len(Top.part) + h.arg \in Nat
      BY <2>4, <2>6
    <3> HIDE DEF f
    <3> QED BY <1>5, <2>7, <3>2, <3>3, LimitsAssumption
  <2>9. stack' = [stack EXCEPT ![Len(stack)] = f]
    BY <2>1, <2>3
  <2> HIDE DEF f, g
  <2>10. /\ g.err = "nil" /\ g.mt \in {mtBytes, mtText} /\ g.indef /\ StringKind(g.mt) = Top.kind
         /\ \E n \in Nat : Derived(op, b, Run(g.mt, g.next, i, n, Top.part))
    BY <2>3, <2>6 DEF FrameReads, StringReads, g
  <2>11. g.mt = h.mt
    BY <1>1, <2>10 DEF StringKind, mtBytes, mtText
  <2>12. \E n \in Nat : Derived(op, b, Run(g.mt, g.next, end, n, f.part))
    <3>1. PICK n \in Nat : Derived(op, b, Run(g.mt, g.next, i, n, Top.part))
      BY <2>10
    <3>2. Derived(op, b, Run(g.mt, g.next, end, n + 1, f.part))
      BY <2>5, <2>7, <2>11, <3>1, RunDerived DEF h
    <3> QED BY <3>1, <3>2
  <2>13. FrameReads(op, b, f, at[Len(stack)], end)
    <3>1. StringReads(op, b, f, g, end)
      BY <2>7, <2>8, <2>10, <2>12 DEF StringReads
    <3>2. TagReads(f, g, end) /\ ContainerReads(op, b, f, g, end)
      BY <2>6, <2>7 DEF TagReads, ContainerReads
    <3> QED BY <2>10, <3>1, <3>2 DEF FrameReads, g
  <2>14. end \in 0 .. Len(b) /\ pc' = "chunk"
    BY <1>1, <2>1, <2>3, <2>4
  <2> HIDE DEF end
  <2> QED BY <1>1, <1>2, <2>1, <2>2, <2>7, <2>9, <2>13, <2>14, GrowHolds
<1> QED BY <1>3, <1>4, <1>5

LEMMA CloseStringHolds == ASSUME IInv, GInv, CloseString PROVE GInv'
<1>1. pc = "chunk" /\ AtBreak /\ UNCHANGED <<b, op, start>>
  BY DEF CloseString, Inside
<1>2. PICK at : Reads(op, b, stack, start, at) /\ at[Len(stack) + 1] = i
  BY <1>1 DEF GInv, InProgress
<1>3. CASE InvalidText(Top.kind, Top.part)
  BY <1>3, FailHolds DEF CloseString
<1>4. CASE ~InvalidText(Top.kind, Top.part)
  <2> DEFINE v == String(Top.kind, Top.part)
             p == at[Len(stack)]
             g == HeadAt(b, p)
             d == DepthIn(stack, Len(stack) - 1)
  <2>1. Yield(v, i + 1, Front(stack))
    BY <1>4 DEF CloseString
  <2>2. stack # <<>> /\ stack[Len(stack)].kind \in {"bytes", "text"}
    BY <1>1 DEF IInv, Framed
  <2>3. /\ Top = stack[Len(stack)] /\ FrameReads(op, b, Top, p, i) /\ Linked(op, stack, Len(stack))
        /\ p \in 0 .. Len(b) /\ Top.depth \in Levels
    BY <1>2, <2>2, AtTop
  <2>4. Top.kind \in {"bytes", "text"}
    BY <2>2, <2>3
  <2> HIDE DEF v, g, p, d
  <2>5. /\ g.err = "nil" /\ g.mt \in {mtBytes, mtText} /\ g.indef /\ StringKind(g.mt) = Top.kind
        /\ Len(Top.part) <= MaxStringBytes
        /\ \E n \in Nat : Derived(op, b, Run(g.mt, g.next, i, n, Top.part))
    BY <2>3, <2>4 DEF FrameReads, StringReads, g
  <2>6. GoodContent(op, g.mt, Top.part)
    BY <1>4, <2>5, ContentChecked
  <2>7. BreakAt(b, i)
    <3>1. i \in Nat /\ i < Len(b) /\ b[i + 1] = Break /\ b \in Seq(Byte)
      BY <1>1 DEF AtBreak, IInv, TypeOK
    <3>2. i \in 0 .. Len(b) - 1
      BY <3>1
    <3> QED BY <3>1, <3>2 DEF BreakAt
  <2>8. Top.depth = d
    BY <2>3, <2>4 DEF Linked, d
  <2>9. Derived(op, b, Item(p, i + 1, d))
    BY <2>3, <2>5, <2>6, <2>7, <2>8, ChunksDerived DEF g
  <2>10. Derived(op, b, Key(p, i + 1, d))
    BY <2>5, <2>9, KeyDerived DEF g
  <2>11. ReadsText(op, b, p, i + 1, v)
    <3>1. b \in Seq(Byte)
      BY DEF IInv, TypeOK
    <3> QED BY <2>5, <2>9, <3>1, StringReadsText DEF g, v
  <2> QED BY <1>1, <1>2, <2>1, <2>2, <2>9, <2>10, <2>11, PopHolds DEF p, d
<1> QED BY <1>3, <1>4

-----------------------------------------------------------------------------
\* The innermost container: the row it has read, of its own kind of head.
LEMMA ContainerAt ==
  ASSUME IInv, stack # <<>>, Top.kind \in {"array", "map"},
         NEW at, Reads(op, b, stack, start, at),
         NEW g, g = HeadAt(b, at[Len(stack)])
  PROVE  /\ g.err = "nil" /\ g.mt \in {mtArray, mtMap} /\ g.indef = Top.indef
         /\ Top.kind = "map" <=> g.mt = mtMap
         /\ ~Top.indef => Top.want = (IF Top.kind = "map" THEN 2 ELSE 1) * g.arg
         /\ GoodCount(op, g.mt, g.indef, CountOf(Top, g))
         /\ Derived(op, b, Row(g.next, at[Len(stack) + 1], Top.got, Top.depth - 1, g.mt = mtMap))
         /\ g.arg \in Nat /\ Top.got \in Nat
<1>1. /\ Top \in Frames
      /\ FrameReads(op, b, Top, at[Len(stack)], at[Len(stack) + 1])
      /\ at[Len(stack)] \in 0 .. Len(b) /\ b \in Seq(Byte)
  BY AtTop
<1>2. /\ g.err = "nil"
      /\ ContainerReads(op, b, Top, g, at[Len(stack) + 1])
  BY <1>1 DEF FrameReads
<1>3. g.arg \in Nat
  BY <1>1, HeadType DEF HeadOK
<1>4. Top.got \in Nat
  BY <1>1 DEF Frames
<1>5. /\ g.mt = (IF Top.kind = "map" THEN mtMap ELSE mtArray)
      /\ g.indef = Top.indef
      /\ ~Top.indef => Top.want = (IF Top.kind = "map" THEN 2 ELSE 1) * g.arg
      /\ GoodCount(op, g.mt, Top.indef, CountOf(Top, g))
      /\ Derived(op, b, Row(g.next, at[Len(stack) + 1], Top.got, Top.depth - 1, Top.kind = "map"))
  BY <1>2, Zenon DEF ContainerReads
<1>6. (Top.kind = "map" <=> g.mt = mtMap) /\ g.mt \in {mtArray, mtMap}
  BY <1>5 DEF mtArray, mtMap
<1>7. (Top.kind = "map") = (g.mt = mtMap)
  BY <1>6
<1> QED BY <1>2, <1>3, <1>4, <1>5, <1>6, <1>7, Zenon

LEMMA CloseContainerHolds == ASSUME IInv, GInv, CloseContainer PROVE GInv'
<1>1. pc = "loop" /\ UNCHANGED <<b, op, start>>
  BY DEF CloseContainer, Inside
<1>2. PICK at : /\ Reads(op, b, stack, start, at) /\ at[Len(stack) + 1] = i
                /\ Top.kind \in {"array", "map"}
  BY <1>1 DEF GInv, InProgress
<1>3. stack # <<>>
  BY <1>1 DEF IInv, Framed
<1> DEFINE p == at[Len(stack)]
           g == HeadAt(b, p)
           d == DepthIn(stack, Len(stack) - 1)
           map == Top.kind = "map"
           got == Top.got
           size == CountOf(Top, g)
<1>4. /\ g.err = "nil" /\ g.mt \in {mtArray, mtMap} /\ g.indef = Top.indef
      /\ map <=> g.mt = mtMap
      /\ ~Top.indef => Top.want = (IF map THEN 2 ELSE 1) * g.arg
      /\ GoodCount(op, g.mt, g.indef, size)
      /\ Derived(op, b, Row(g.next, i, got, Top.depth - 1, g.mt = mtMap))
      /\ g.arg \in Nat /\ got \in Nat
  BY <1>2, <1>3, ContainerAt
<1>5. /\ p \in 0 .. Len(b) /\ b \in Seq(Byte) /\ Top.depth = d /\ d \in Levels
      /\ ~KeyIn(op, stack, Len(stack) - 1)
  BY <1>2, <1>3, AtTop DEF Linked
<1>6. (Top.depth - 1) + 1 = d /\ (Top.depth - 1) + 1 \in Levels
  BY <1>5 DEF Levels
<1>7. ASSUME NEW j,
             \/ Top.indef /\ ~MidPair(Top) /\ BreakAt(b, i) /\ j = i + 1
             \/ ~Top.indef /\ got = Top.want /\ j = i,
             Yield(NoString, j, Front(stack))
      PROVE  GInv'
  <2>1. (g.mt = mtMap => got % 2 = 0) /\ size = (IF g.mt = mtMap THEN got \div 2 ELSE got)
    <3>1. CASE Top.indef
      <4>1. map => got % 2 # 1
        BY <1>7, <3>1 DEF MidPair
      <4>2. size = (IF map THEN got \div 2 ELSE got)
        BY <3>1 DEF CountOf
      <4> HIDE DEF map, got, size, g
      <4> QED BY <1>4, <4>1, <4>2
    <3>2. CASE ~Top.indef
      <4>1. size = g.arg
        BY <3>2 DEF CountOf
      <4>2. got = (IF map THEN 2 ELSE 1) * g.arg
        BY <1>4, <1>7, <3>2
      <4> HIDE DEF map, got, size, g
      <4> QED BY <1>4, <4>1, <4>2
    <3> QED BY <3>1, <3>2
  <2>2. ~g.indef => size = g.arg
    BY <1>4 DEF CountOf
  <2> HIDE DEF map, got, size, g, p, d
  <2>3. /\ g.indef /\ BreakAt(b, i) => Derived(op, b, Item(p, i + 1, d))
        /\ ~g.indef => Derived(op, b, Item(p, i, d))
    <3>1. ASSUME NEW k, k = Top.depth - 1, k + 1 = d, k + 1 \in Levels
          PROVE  /\ g.indef /\ BreakAt(b, i) => Derived(op, b, Item(p, i + 1, d))
                 /\ ~g.indef => Derived(op, b, Item(p, i, d))
      <4>1. Derived(op, b, Row(g.next, i, got, k, g.mt = mtMap))
        BY <1>4, <3>1
      <4>2. /\ g.indef /\ BreakAt(b, i) => Derived(op, b, Item(p, i + 1, k + 1))
            /\ ~g.indef /\ size = g.arg => Derived(op, b, Item(p, i, k + 1))
        BY ONLY <1>4, <1>5, <2>1, <3>1, <4>1, ContainerDerived, Zenon DEF g
      <4> QED BY <2>2, <3>1, <4>2
    <3> QED BY <1>6, <3>1
  <2>4. Derived(op, b, Item(p, j, d))
    BY <1>4, <1>7, <2>3
  <2>5. ReadsText(op, b, p, j, NoString)
    <3>1. HeadAt(b, p).mt \notin {mtText, mtTag} /\ NoString.t # "text"
      BY <1>4 DEF g, mtArray, mtMap, mtText, mtTag, NoString
    <3> QED BY <1>5, <3>1, NotText
  <2> QED BY <1>1, <1>2, <1>3, <1>5, <1>7, <2>4, <2>5, PopHolds DEF p, d
<1>8. CASE Top.indef /\ ~MidPair(Top) /\ AtBreak /\ Yield(NoString, i + 1, Front(stack))
  <2>1. BreakAt(b, i)
    <3>1. i \in Nat /\ i < Len(b) /\ b[i + 1] = Break /\ b \in Seq(Byte)
      BY <1>8 DEF AtBreak, IInv, TypeOK
    <3>2. i \in 0 .. Len(b) - 1
      BY <3>1
    <3> QED BY <3>1, <3>2 DEF BreakAt
  <2> QED BY <1>7, <1>8, <2>1
<1>9. CASE ~Top.indef /\ got = Top.want /\ Yield(NoString, i, Front(stack))
  BY <1>7, <1>9
<1> QED BY <1>8, <1>9 DEF CloseContainer

LEMMA NextItemHolds == ASSUME IInv, GInv, NextItem PROVE GInv'
<1>1. /\ pc = "loop" /\ pc' = "call"
      /\ UNCHANGED <<b, op, start, i, stack>>
  BY DEF NextItem, Inside
<1>2. PICK at : Reads(op, b, stack, start, at) /\ at[Len(stack) + 1] = i
  BY <1>1 DEF GInv, InProgress
<1>3. InProgress(at)'
  BY <1>1, <1>2 DEF InProgress
<1> QED BY <1>1, <1>3 DEF GInv, AcceptsDerived

-----------------------------------------------------------------------------
\* A tag stands in front of the item, or the text, that was read behind it.
LEMMA ThroughTagHolds == ASSUME IInv, GInv, ThroughTag PROVE GInv'
<1>1. /\ pc = "return" /\ stack # <<>> /\ Top.kind \in {"tag", "keytag"}
      /\ UNCHANGED <<b, op, start>>
  BY DEF ThroughTag, Inside
<1>2. PICK at : /\ Reads(op, b, stack, start, at)
                /\ Returns(op, b, stack, at[Len(stack) + 1], i, ret)
  BY <1>1 DEF GInv, InProgress
<1>3. CASE Top.kind = "keytag" /\ ret.t # "text"
  BY <1>3, FailHolds DEF ThroughTag
<1>4. CASE ~(Top.kind = "keytag" /\ ret.t # "text")
  <2> DEFINE p == at[Len(stack)]
             g == HeadAt(b, p)
             d == DepthIn(stack, Len(stack) - 1)
             mid == at[Len(stack) + 1]
             k == Top.depth - 1
  <2>1. Yield(ret, i, Front(stack))
    BY <1>4 DEF ThroughTag
  <2>2. /\ Top = stack[Len(stack)] /\ FrameReads(op, b, Top, p, mid) /\ Linked(op, stack, Len(stack))
        /\ p \in 0 .. Len(b) /\ Top.depth \in Levels /\ DepthIn(stack, Len(stack)) = k
        /\ Top \in Frames
    BY <1>1, <1>2, AtTop
  <2>3. g.err = "nil" /\ g.mt = mtTag /\ ~g.indef /\ mid = g.next
    BY <1>1, <2>2 DEF FrameReads, TagReads
  <2>4. ~KeyIn(op, stack, Len(stack))
    BY <1>1, <2>2 DEF KeyIn, AtKey
  <2>5. /\ Derived(op, b, Item(g.next, i, k))
        /\ ReadsText(op, b, g.next, i, ret)
    BY <1>2, <2>2, <2>3, <2>4 DEF Returns
  <2>6. k + 1 = Top.depth /\ k + 1 \in Levels
    BY <2>2 DEF Levels
  <2>7. ReadsText(op, b, p, i, ret)
    <3>1. ret.t = "text" => Derived(op, b, Text(p, i))
      BY <2>2, <2>3, <2>5, TextTagDerived DEF ReadsText
    <3>2. ASSUME op = "json", ret.t # "text", NEW e PROVE ~Derived(op, b, Text(p, e))
      <4>1. ~Derived(op, b, Text(g.next, e)) /\ b \in Seq(Byte)
        BY <2>5, <3>2 DEF ReadsText, IInv, TypeOK
      <4>2. Derived(op, b, Text(p, e)) => WhyText(op, b, p, e)
        BY <4>1, Inversion
      <4>3. g.mt # mtText
        BY <2>3 DEF mtText, mtTag
      <4> QED BY <4>1, <4>2, <4>3 DEF WhyText
    <3> QED BY <3>1, <3>2 DEF ReadsText
  <2>8. /\ Derived(op, b, Item(p, i, k + 1))
        /\ op = "json" /\ Derived(op, b, Text(g.next, i)) => Derived(op, b, Key(p, i, k))
    <3> HIDE DEF k
    <3> QED BY ONLY <2>2, <2>3, <2>5, <2>6, TagDerived
  <2>9. CASE Top.kind = "tag"
    <3>1. ~KeyIn(op, stack, Len(stack) - 1) /\ Top.depth = d
      BY <2>2, <2>9 DEF Linked
    <3>2. Derived(op, b, Item(p, i, d))
      BY <2>6, <2>8, <3>1
    <3> QED BY <1>1, <1>2, <2>1, <2>7, <3>1, <3>2, PopHolds
  <2>10. CASE Top.kind = "keytag"
    <3>1. KeyIn(op, stack, Len(stack) - 1) /\ Top.depth = d + 1
      BY <2>2, <2>10 DEF Linked
    <3>2. op = "json" /\ ret.t = "text"
      BY <1>4, <2>10, <3>1 DEF KeyIn
    <3>3. Derived(op, b, Key(p, i, k))
      BY <2>5, <2>8, <3>2 DEF ReadsText
    <3>4. d \in Int
      <4>1. Len(stack) - 1 \in 0 .. Len(stack)
        BY <1>1 DEF IInv, TypeOK
      <4>2. d \in {-1} \cup Levels
        BY <4>1, DepthRange
      <4> HIDE DEF d
      <4> QED BY <4>2 DEF Levels
    <3>5. k = d
      <4>1. Top.depth \in Int
        BY <2>2 DEF Levels
      <4> HIDE DEF d
      <4> QED BY <3>1, <3>4, <4>1
    <3> HIDE DEF k
    <3>6. Derived(op, b, Key(p, i, d))
      BY <3>3, <3>5
    <3> QED BY <1>1, <1>2, <2>1, <3>1, <3>6, PopHolds
  <2> QED BY <1>1, <2>9, <2>10
<1> QED BY <1>3, <1>4

\* The caps of decode and json keep the count of a container good; the element
\* or key just read is the next of its row.
LEMMA CountKept ==
  ASSUME IInv, stack # <<>>, Top.kind \in {"array", "map"}, ~OverCap(Top),
         NEW at, Reads(op, b, stack, start, at),
         NEW g, g = HeadAt(b, at[Len(stack)]),
         NEW f, f.kind = Top.kind, f.indef = Top.indef, f.got = Top.got + 1
  PROVE  GoodCount(op, g.mt, g.indef, CountOf(f, g))
<1>1. /\ g.mt \in {mtArray, mtMap} /\ g.indef = Top.indef
      /\ Top.kind = "map" <=> g.mt = mtMap
      /\ GoodCount(op, g.mt, g.indef, CountOf(Top, g))
      /\ Top.got \in Nat
  BY ContainerAt
<1>2. op \in {"decode", "json", "strict", "skip"}
  BY OpsAssumption DEF IInv, TypeOK
<1>3. CASE ~Top.indef
  <2>1. CountOf(f, g) = CountOf(Top, g)
    BY <1>3 DEF CountOf
  <2> QED BY <1>1, <2>1
<1>4. CASE Top.indef /\ op \in {"strict", "skip"}
  BY <1>1, <1>4 DEF GoodCount
<1>5. CASE Top.indef /\ op = "json" /\ Top.kind = "map"
  BY <1>1, <1>5 DEF GoodCount
<1>6. CASE Top.indef /\ op \in {"decode", "json"} /\ Top.kind = "array"
  <2>1. ~(Top.got >= MaxArrayElements)
    BY <1>6 DEF OverCap
  <2>2. CountOf(f, g) = Top.got + 1
    BY <1>6 DEF CountOf
  <2>3. g.mt # mtMap
    BY <1>1, <1>6
  <2>4. Top.got + 1 <= MaxArrayElements
    BY <1>1, <2>1, LimitsAssumption
  <2> QED BY <2>2, <2>3, <2>4 DEF GoodCount
<1>7. CASE Top.indef /\ op = "decode" /\ Top.kind = "map"
  <2> DEFINE n == Top.got
  <2>1. n % 2 = 1 => ~(n \div 2 >= MaxMapPairs)
    BY <1>7 DEF OverCap, MidPair
  <2>2. CountOf(f, g) = (n + 1) \div 2 /\ CountOf(Top, g) = n \div 2
    BY <1>7 DEF CountOf
  <2>3. g.mt = mtMap /\ mtMap # mtArray
    BY <1>1, <1>7 DEF mtMap, mtArray
  <2>4. n \div 2 <= MaxMapPairs
    BY <1>1, <1>7, <2>2, <2>3 DEF GoodCount
  <2>5. n \in Nat
    BY <1>1
  <2> HIDE DEF n
  <2>6. (n + 1) \div 2 <= MaxMapPairs
    BY <2>1, <2>4, <2>5, LimitsAssumption
  <2> QED BY <2>2, <2>3, <2>6 DEF GoodCount
<1> QED BY <1>2, <1>3, <1>4, <1>5, <1>6, <1>7

LEMMA RowGrows ==
  ASSUME IInv, stack # <<>>, Top.kind \in {"array", "map"},
         NEW at, Reads(op, b, stack, start, at),
         Returns(op, b, stack, at[Len(stack) + 1], i, ret)
  PROVE  LET g == HeadAt(b, at[Len(stack)])
         IN  Derived(op, b, Row(g.next, i, Top.got + 1, Top.depth - 1, g.mt = mtMap))
<1> DEFINE g == HeadAt(b, at[Len(stack)])
           mid == at[Len(stack) + 1]
           d == Top.depth - 1
           map == g.mt = mtMap
<1>1. /\ Top.kind = "map" <=> map
      /\ Derived(op, b, Row(g.next, mid, Top.got, d, map))
  BY ContainerAt
<1>2. DepthIn(stack, Len(stack)) = d /\ Len(stack) # 0 /\ Top = stack[Len(stack)]
  BY AtTop
<1>3. KeyIn(op, stack, Len(stack)) <=> op = "json" /\ map /\ Top.got % 2 = 0
  BY <1>1, <1>2 DEF KeyIn, AtKey
<1>4. i \in 0 .. Len(b)
  BY DEF IInv, TypeOK, CursorInBounds
<1> HIDE DEF g, mid, d, map
<1>5. IF map /\ Top.got % 2 = 0 THEN Derived(op, b, Key(mid, i, d)) ELSE Derived(op, b, Item(mid, i, d))
  <2>1. CASE KeyIn(op, stack, Len(stack))
    BY <1>2, <1>3, <2>1 DEF Returns, mid
  <2>2. CASE ~KeyIn(op, stack, Len(stack))
    <3>1. Derived(op, b, Item(mid, i, d))
      BY <1>2, <2>2 DEF Returns, mid
    <3>2. op # "json" => Derived(op, b, Key(mid, i, d))
      BY <3>1, KeyDerived
    <3> QED BY <1>3, <2>2, <3>1, <3>2
  <2> QED BY <2>1, <2>2
<1>6. Derived(op, b, Row(g.next, i, Top.got + 1, d, map))
  BY ONLY <1>1, <1>4, <1>5, RowDerived
<1> QED BY <1>6 DEF g, d, map

LEMMA IntoContainerHolds == ASSUME IInv, GInv, IntoContainer PROVE GInv'
<1>1. /\ pc = "return" /\ stack # <<>> /\ Top.kind \in {"array", "map"}
      /\ UNCHANGED <<b, op, start>>
  BY DEF IntoContainer, Inside
<1>2. PICK at : /\ Reads(op, b, stack, start, at)
                /\ Returns(op, b, stack, at[Len(stack) + 1], i, ret)
  BY <1>1 DEF GInv, InProgress
<1>3. CASE OverCap(Top)
  BY <1>3, FailHolds DEF IntoContainer
<1>4. CASE ~OverCap(Top)
  <2> DEFINE f == [Top EXCEPT !.got = @ + 1, !.keys = @ \cup NewKeys]
             g == HeadAt(b, at[Len(stack)])
  <2>1. /\ stack' = [stack EXCEPT ![Len(stack)].got = @ + 1,
                                  ![Len(stack)].keys = @ \cup NewKeys]
        /\ i' = i /\ pc' = "loop"
    BY <1>4 DEF IntoContainer
  <2>2. /\ Top \in Frames /\ Top = stack[Len(stack)] /\ stack \in Seq(Frames)
        /\ b \in Seq(Byte)
    BY <1>1, <1>2, AtTop
  <2>3. stack' = [stack EXCEPT ![Len(stack)] = f]
    BY <2>1, <2>2
  <2>4. Top.got + 1 \in Nat /\ Top.keys \cup NewKeys \in SUBSET Seq(Byte)
    BY <2>2 DEF Frames, NewKeys, IInv, TypeOK
  <2>5. f \in Frames
    BY <2>2, <2>4 DEF Frames
  <2>6. /\ f.kind = Top.kind /\ f.depth = Top.depth /\ f.want = Top.want
        /\ f.indef = Top.indef /\ f.got = Top.got + 1
    BY <2>2 DEF Frames
  <2> HIDE DEF f, g
  <2>7. /\ g.err = "nil" /\ g.mt \in {mtArray, mtMap} /\ g.indef = Top.indef
        /\ Top.kind = "map" <=> g.mt = mtMap
        /\ ~Top.indef => Top.want = (IF Top.kind = "map" THEN 2 ELSE 1) * g.arg
    BY <1>1, <1>2, ContainerAt DEF g
  <2>8. GoodCount(op, g.mt, g.indef, CountOf(f, g))
    BY <1>1, <1>2, <1>4, <2>6, CountKept DEF g
  <2>9. Derived(op, b, Row(g.next, i, Top.got + 1, Top.depth - 1, g.mt = mtMap))
    BY <1>1, <1>2, RowGrows DEF g
  <2>10. ContainerReads(op, b, f, g, i)
    <3>1. (f.kind = "map") = (g.mt = mtMap)
      BY <2>6, <2>7
    <3>2. Derived(op, b, Row(g.next, i, f.got, f.depth - 1, f.kind = "map"))
      BY <2>6, <2>9, <3>1
    <3>3. g.mt = (IF f.kind = "map" THEN mtMap ELSE mtArray)
      BY <2>6, <2>7
    <3>4. f.indef = g.indef /\ (~f.indef => f.want = (IF f.kind = "map" THEN 2 ELSE 1) * g.arg)
      BY <2>6, <2>7
    <3>5. GoodCount(op, g.mt, f.indef, CountOf(f, g))
      BY <2>8, <3>4
    <3> QED BY <3>2, <3>3, <3>4, <3>5 DEF ContainerReads
  <2>11. FrameReads(op, b, f, at[Len(stack)], i)
    <3>1. StringReads(op, b, f, g, i) /\ TagReads(f, g, i)
      BY <1>1, <2>6 DEF StringReads, TagReads
    <3> QED BY <2>7, <2>10, <3>1 DEF FrameReads, g
  <2>12. i \in 0 .. Len(b)
    BY DEF IInv, TypeOK, CursorInBounds
  <2> QED BY <1>1, <1>2, <2>1, <2>3, <2>5, <2>6, <2>11, <2>12, GrowHolds
<1> QED BY <1>3, <1>4

-----------------------------------------------------------------------------
\* The outermost call returns to the caller, who may ask for the next item.
LEMMA FinishHolds == ASSUME IInv, GInv, Finish PROVE GInv'
<1>1. /\ pc = "return" /\ stack = <<>> /\ pc' = "done"
      /\ UNCHANGED <<b, op, start, i>>
  BY DEF Finish, Inside
<1>2. PICK at : /\ Reads(op, b, stack, start, at)
                /\ Returns(op, b, stack, at[Len(stack) + 1], i, ret)
  BY <1>1 DEF GInv, InProgress
<1>3. Len(stack) = 0 /\ Len(stack) + 1 = 1
  BY <1>1
<1>4. at[Len(stack) + 1] = start
  BY <1>2, <1>3 DEF Reads
<1>5. ~KeyIn(op, stack, Len(stack)) /\ DepthIn(stack, Len(stack)) = MaxDepth
  BY <1>3 DEF KeyIn, DepthIn
<1>6. Derived(op, b, Item(start, i, MaxDepth))
  BY <1>2, <1>4, <1>5 DEF Returns
<1> QED BY <1>1, <1>6 DEF GInv, AcceptsDerived

\* Before a first byte is read, the walk stands where its item starts.
LEMMA FreshReads ==
  ASSUME NEW o, NEW s, NEW j \in 0 .. Len(s)
  PROVE  /\ Reads(o, s, <<>>, j, [k \in Nat |-> j])
         /\ [k \in Nat |-> j][Len(<<>>) + 1] = j
<1> DEFINE at == [k \in Nat |-> j]
<1>1. at[1] = j /\ \A k \in 1 .. 1 : at[k] \in 0 .. Len(s)
  OBVIOUS
<1>2. Len(<<>>) = 0 /\ 1 .. 0 = {} /\ 0 + 1 = 1
  OBVIOUS
<1> HIDE DEF at
<1>3. Reads(o, s, <<>>, j, at) /\ at[Len(<<>>) + 1] = j
  BY <1>1, <1>2 DEF Reads
<1> QED BY <1>3 DEF at

\* A call of any method on any item starts with nothing read.
LEMMA CallHolds ==
  ASSUME IInv, pc = "done", pc' = "call", start' = i, UNCHANGED <<b, i, stack>>
  PROVE  GInv'
<1>1. stack' = <<>> /\ i' \in 0 .. Len(b') /\ start' = i'
  BY DEF IInv, Framed, TypeOK, CursorInBounds
<1>2. PICK at : Reads(op', b', <<>>, start', at) /\ at[Len(<<>>) + 1] = i'
  BY <1>1, FreshReads
<1>3. InProgress(at)'
  BY <1>1, <1>2 DEF InProgress
<1> QED BY <1>3 DEF GInv, AcceptsDerived

LEMMA AgainHolds == ASSUME IInv, Again PROVE GInv'
BY CallHolds DEF Again

LEMMA InitReads == Init => GInv
<1> SUFFICES ASSUME Init PROVE GInv
  OBVIOUS
<1>1. b \in Seq(Byte) /\ i = 0 /\ start = 0 /\ pc = "call" /\ stack = <<>>
  BY InputsAssumption DEF Init
<1>2. i \in 0 .. Len(b)
  BY <1>1
<1>3. PICK at : Reads(op, b, <<>>, start, at) /\ at[Len(<<>>) + 1] = i
  BY <1>1, <1>2, FreshReads
<1>4. InProgress(at)
  BY <1>1, <1>3 DEF InProgress
<1> QED BY <1>1, <1>4 DEF GInv, AcceptsDerived

LEMMA NextReads == IInv /\ GInv /\ [Next]_vars => GInv'
<1> SUFFICES ASSUME IInv, GInv, [Next]_vars PROVE GInv'
  OBVIOUS
<1>1. CASE TooDeep \/ OverBudget \/ BadHead \/ KeyNotString \/ BadChunk \/ CutContainer
  <2>1. \E e, j : e # "nil" /\ Fail(e, j)
    BY <1>1 DEF TooDeep, OverBudget, BadHead, KeyNotString, BadChunk, CutContainer
  <2> QED BY <2>1, FailHolds
<1>2. CASE Integer \/ Simple \/ DefiniteString
  BY <1>2, IntegerHolds, SimpleHolds, DefiniteStringHolds
<1>3. CASE OpenString \/ OpenContainer \/ OpenTag
  BY <1>3, OpenStringHolds, OpenContainerHolds, OpenTagHolds
<1>4. CASE TakeChunk \/ CloseString
  BY <1>4, TakeChunkHolds, CloseStringHolds
<1>5. CASE CloseContainer \/ NextItem
  BY <1>5, CloseContainerHolds, NextItemHolds
<1>6. CASE ThroughTag \/ IntoContainer
  BY <1>6, ThroughTagHolds, IntoContainerHolds
<1>7. CASE Finish \/ Again
  BY <1>7, FinishHolds, AgainHolds
<1>8. CASE UNCHANGED vars
  <2>1. UNCHANGED <<b, i, op, start, pc, stack, ret, err>>
    BY <1>8 DEF vars
  <2> QED BY <2>1 DEF GInv, AcceptsDerived, InProgress, Top
<1> QED BY <1>1, <1>2, <1>3, <1>4, <1>5, <1>6, <1>7, <1>8 DEF Next, Step

-----------------------------------------------------------------------------
\* Whatever the bytes and the limits, Decode, DecodeJSON, SkipStrict and Skip
\* succeed only by stepping over exactly one item of their grammar: no walk of
\* decoder.go, skip.go or json.go ends early, late, or on bytes that no rule
\* derives, however its calls nest.
THEOREM WalkSound == Spec => []AcceptsDerived
<1>1. Init => IInv /\ GInv
  BY InitEstablishes, InitReads
<1>2. (IInv /\ GInv) /\ [Next]_vars => (IInv /\ GInv)'
  BY NextKeeps, NextReads
<1>3. IInv /\ GInv => AcceptsDerived
  BY DEF GInv
<1> QED BY <1>1, <1>2, <1>3, PTL DEF Spec

-----------------------------------------------------------------------------
(***************************************************************************)
(* The other way round: where the rules derive an item, no call on the way *)
(* through it finds a reason to refuse.                                    *)
(***************************************************************************)
\* What frame k of st calls for stands at p: the item or the key it expects.
Called(o, s, st, k, p, q) ==
  IF KeyIn(o, st, k) THEN Derived(o, s, Key(p, q, DepthIn(st, k)))
                     ELSE Derived(o, s, Item(p, q, DepthIn(st, k)))

Hoped(o, s, st, k, p) == \E q : Called(o, s, st, k, p, q)

\* A container that has read up to q is not at its end.
Expecting(s, f, q) ==
  /\ ~f.indef => f.got < f.want
  /\ f.indef => MidPair(f) \/ ~BreakAt(s, q)

\* A row of the grammar behind the head g that goes on where f has read up to q.
LongerRow(o, s, f, g, q, n, end) ==
  /\ Opens(o, s, g, n, end, f.depth - 1) /\ f.got < n
  /\ g.indef => BreakAt(s, end)
  /\ \E e : Member(o, s, q, e, f.got, f.depth - 1, g.mt = mtMap)

\* Only the key of a JSON map may stand one level deeper than its calls.
LEMMA HopedItem ==
  ASSUME NEW o, NEW s \in Seq(Byte), NEW st, NEW k, NEW p, NEW g, g = HeadAt(s, p),
         Hoped(o, s, st, k, p), g.mt # mtTag, ~StringIn(s, g)
  PROVE  \E q : Derived(o, s, Item(p, q, DepthIn(st, k)))
<1>1. PICK q : Called(o, s, st, k, p, q)
  BY DEF Hoped
<1>2. CASE KeyIn(o, st, k)
  <2>1. Derived(o, s, Key(p, q, DepthIn(st, k)))
    BY <1>1, <1>2 DEF Called
  <2>2. WhyKey(o, s, p, q, DepthIn(st, k))
    BY <2>1, Inversion
  <2> QED BY <2>2 DEF WhyKey
<1>3. CASE ~KeyIn(o, st, k)
  BY <1>1, <1>3 DEF Called
<1> QED BY <1>2, <1>3

LEMMA HopedRow ==
  ASSUME NEW o, NEW s \in Seq(Byte), NEW st \in Seq(Frames), NEW k \in 1 .. Len(st),
         NEW p \in 0 .. Len(s), NEW q, Linked(o, st, k), FrameReads(o, s, st[k], p, q),
         st[k].kind \in {"array", "map"}, Expecting(s, st[k], q),
         Hoped(o, s, st, k - 1, p),
         NEW g, g = HeadAt(s, p)
  PROVE  \E n \in Nat, end \in Offsets(s) : LongerRow(o, s, st[k], g, q, n, end)
<1> DEFINE f == st[k]
<1>1. f \in Frames /\ f.got \in Nat /\ f.depth \in Int
  <2>1. f \in Frames
    OBVIOUS
  <2> QED BY <2>1 DEF Frames
<1>2. /\ ~KeyIn(o, st, k - 1) /\ f.depth = DepthIn(st, k - 1)
      /\ f.kind \in {"array", "map"}
  BY DEF Linked
<1>3. PICK e : Derived(o, s, Item(p, e, f.depth))
  BY <1>2 DEF Hoped, Called
<1> HIDE DEF f
<1>4. g.err = "nil" /\ ContainerReads(o, s, f, g, q)
  BY DEF FrameReads, f
<1>5. /\ g.mt = (IF f.kind = "map" THEN mtMap ELSE mtArray) /\ g.indef = f.indef
      /\ ~f.indef => f.want = (IF f.kind = "map" THEN 2 ELSE 1) * g.arg
      /\ Derived(o, s, Row(g.next, q, f.got, f.depth - 1, f.kind = "map"))
  BY <1>2, <1>4, Zenon DEF ContainerReads
<1>6. (f.kind = "map") = (g.mt = mtMap) /\ g.mt \in {mtArray, mtMap} /\ g.arg \in Nat
  <2>1. g.arg \in Nat
    BY <1>4, HeadInside DEF Offsets
  <2> QED BY <1>5, <2>1 DEF mtArray, mtMap
<1>7. Contained(o, s, g, e, f.depth)
  BY <1>3, <1>6, ItemByHead
<1>8. ~g.indef => f.got < Declared(g)
  BY <1>5, <1>6 DEF Expecting, Declared, f
<1>9. g.indef => (g.mt = mtMap /\ f.got % 2 = 1) \/ ~BreakAt(s, q)
  BY <1>5, <1>6 DEF Expecting, MidPair, f
<1>10. Derived(o, s, Row(g.next, q, f.got, f.depth - 1, g.mt = mtMap))
  BY <1>5, <1>6
<1>11. \E n \in Nat, end \in Offsets(s) :
           /\ Opens(o, s, g, n, end, f.depth - 1) /\ f.got < n
           /\ g.indef => BreakAt(s, end)
           /\ \E x : Member(o, s, q, x, f.got, f.depth - 1, g.mt = mtMap)
  BY <1>1, <1>6, <1>7, <1>8, <1>9, <1>10, ContainerGoesOn
<1> QED BY <1>11 DEF LongerRow, f

\* If what the frame below called for is there, so is what frame k calls for.
LEMMA HopeGoesOn ==
  ASSUME NEW o, NEW s \in Seq(Byte), NEW st \in Seq(Frames), NEW k \in 1 .. Len(st),
         NEW p \in 0 .. Len(s), NEW q, Linked(o, st, k), FrameReads(o, s, st[k], p, q),
         st[k].kind \notin {"bytes", "text"},
         st[k].kind \in {"array", "map"} => Expecting(s, st[k], q),
         DepthIn(st, k - 1) \in Int,
         Hoped(o, s, st, k - 1, p)
  PROVE  Hoped(o, s, st, k, q)
<1> DEFINE f == st[k]
           g == HeadAt(s, p)
           d == DepthIn(st, k - 1)
<1>1. f \in Frames /\ f.kind \in Kinds /\ f.depth \in Int /\ DepthIn(st, k) = f.depth - 1
  <2>1. f \in Frames /\ k # 0
    OBVIOUS
  <2> QED BY <2>1 DEF Frames, DepthIn
<1>2. PICK e : Called(o, s, st, k - 1, p, e)
  BY DEF Hoped
<1>3. g.err = "nil" /\ TagReads(f, g, q)
  BY DEF FrameReads
<1>4. CASE f.kind = "tag"
  <2>1. ~KeyIn(o, st, k - 1) /\ f.depth = d /\ ~KeyIn(o, st, k)
    BY <1>4 DEF Linked, KeyIn, AtKey
  <2>2. g.mt = mtTag /\ q = g.next
    BY <1>3, <1>4 DEF TagReads
  <2>3. Derived(o, s, Item(p, e, d))
    BY <1>2, <2>1 DEF Called
  <2>4. Derived(o, s, Item(q, e, d - 1))
    BY <2>2, <2>3, ItemByHead
  <2> QED BY <1>1, <2>1, <2>4 DEF Hoped, Called
<1>5. CASE f.kind = "keytag"
  <2>1. KeyIn(o, st, k - 1) /\ f.depth = d + 1 /\ ~KeyIn(o, st, k)
    BY <1>5 DEF Linked, KeyIn, AtKey
  <2>2. g.mt = mtTag /\ q = g.next
    BY <1>3, <1>5 DEF TagReads
  <2>3. WhyKey(o, s, p, e, d)
    <3>1. Derived(o, s, Key(p, e, d))
      BY <1>2, <2>1 DEF Called
    <3> QED BY <3>1, Inversion
  <2>4. ~StringIn(s, g) /\ g.mt \notin {mtBytes, mtText} /\ o = "json"
    BY <2>1, <2>2 DEF StringIn, mtTag, mtBytes, mtText, KeyIn
  <2>5. Derived(o, s, Item(q, e, d))
    BY <2>2, <2>3, <2>4 DEF WhyKey
  <2>6. DepthIn(st, k) = d
    <3> HIDE DEF d
    <3> QED BY <1>1, <2>1 DEF d
  <2> QED BY <2>1, <2>5, <2>6 DEF Hoped, Called
<1>6. CASE f.kind \in {"array", "map"}
  <2>1. PICK n \in Nat, end \in Offsets(s) : LongerRow(o, s, f, g, q, n, end)
    BY <1>6, HopedRow
  <2>2. PICK x : Member(o, s, q, x, f.got, f.depth - 1, g.mt = mtMap)
    BY <2>1 DEF LongerRow
  <2>3. (f.kind = "map") <=> (g.mt = mtMap)
    <3>1. ContainerReads(o, s, f, g, q)
      BY DEF FrameReads
    <3>2. g.mt = (IF f.kind = "map" THEN mtMap ELSE mtArray)
      BY <1>6, <3>1, Zenon DEF ContainerReads
    <3> QED BY <1>6, <3>2 DEF mtArray, mtMap
  <2>4. KeyIn(o, st, k) <=> o = "json" /\ g.mt = mtMap /\ f.got % 2 = 0
    BY <2>3 DEF KeyIn, AtKey
  <2> HIDE DEF f, g
  <2>5. ASSUME o # "json", Derived(o, s, Key(q, x, f.depth - 1))
        PROVE  Derived(o, s, Item(q, x, f.depth - 1))
    <3>1. WhyKey(o, s, q, x, f.depth - 1)
      BY <2>5, Inversion
    <3> QED BY <2>5, <3>1 DEF WhyKey
  <2>6. Called(o, s, st, k, q, x)
    BY <1>1, <2>2, <2>4, <2>5 DEF Member, Called
  <2> QED BY <2>6 DEF Hoped
<1> QED BY <1>1, <1>4, <1>5, <1>6 DEF Kinds

-----------------------------------------------------------------------------
(***************************************************************************)
(* What a walk must remember for that: a container with calls in progress  *)
(* is not at its end, and the keys a map holds are no more than it read.   *)
(***************************************************************************)
Unfilled(f) ==
  /\ f.kind \notin {"bytes", "text"}
  /\ f.kind \in {"array", "map"} /\ ~f.indef => f.got < f.want

FewKeys(f) == IsFiniteSet(f.keys) /\ 2 * Cardinality(f.keys) <= f.got + 1

Waiting ==
  /\ \A k \in 1 .. Len(stack) :
       /\ FewKeys(stack[k])
       /\ k < Len(stack) \/ pc \in {"call", "return"} => Unfilled(stack[k])
  /\ pc = "call" /\ stack # <<>> /\ Top.kind \in {"array", "map"} /\ Top.indef =>
       MidPair(Top) \/ ~AtBreak

LEMMA FailWaits == ASSUME NEW e, NEW j, Fail(e, j) PROVE Waiting'
<1>1. stack' = <<>> /\ pc' = "done"
  BY DEF Fail
<1>2. \A k \in 1 .. Len(stack') : FALSE
  BY <1>1
<1> QED BY <1>1, <1>2 DEF Waiting

LEMMA YieldWaits ==
  ASSUME IInv, Waiting, pc = "call", NEW v, NEW j, Yield(v, j, stack)
  PROVE  Waiting'
<1>1. stack' = stack /\ pc' = "return"
  BY DEF Yield
<1> QED BY <1>1 DEF Waiting

LEMMA PopWaits ==
  ASSUME IInv, Waiting, stack # <<>>, NEW v, NEW j, Yield(v, j, Front(stack))
  PROVE  Waiting'
<1>1. stack' = Front(stack) /\ pc' = "return" /\ stack \in Seq(Frames)
  BY DEF Yield, IInv, TypeOK
<1>2. Len(stack') = Len(stack) - 1 /\ \A k \in 1 .. Len(stack) - 1 : stack'[k] = stack[k]
  BY <1>1, FrontOf
<1>3. \A k \in 1 .. Len(stack) - 1 : k \in 1 .. Len(stack) /\ k < Len(stack)
  BY <1>1
<1>4. \A k \in 1 .. Len(stack') : FewKeys(stack'[k]) /\ Unfilled(stack'[k])
  BY <1>2, <1>3 DEF Waiting
<1> QED BY <1>1, <1>4 DEF Waiting

LEMMA PushWaits ==
  ASSUME IInv, Waiting, pc = "call", NEW f, NEW where, Push(f, where), f.got = 0, f.keys = {},
         where # "return", where = "call" => f.kind \in {"tag", "keytag"}
  PROVE  Waiting'
<1>1. stack' = Append(stack, f) /\ pc' = where /\ stack \in Seq(Frames)
  BY DEF Push, IInv, TypeOK
<1>2. /\ Len(stack') = Len(stack) + 1
      /\ \A k \in 1 .. Len(stack) + 1 : stack'[k] = IF k = Len(stack) + 1 THEN f ELSE stack[k]
  BY <1>1, Appended
<1>3. FewKeys(f)
  BY FS_EmptySet DEF FewKeys
<1>4. where = "call" => Unfilled(f)
  BY DEF Unfilled
<1>5. Len(stack) \in Nat
  BY <1>1
<1>6. ASSUME NEW k \in 1 .. Len(stack')
      PROVE  /\ FewKeys(stack'[k])
             /\ k < Len(stack') \/ where = "call" => Unfilled(stack'[k])
  <2>1. CASE k = Len(stack) + 1
    BY <1>2, <1>3, <1>4, <1>5, <2>1
  <2>2. CASE k # Len(stack) + 1
    <3>1. k \in 1 .. Len(stack) /\ stack'[k] = stack[k]
      BY <1>2, <1>5, <2>2
    <3> QED BY <3>1 DEF Waiting
  <2> QED BY <2>1, <2>2
<1>7. Top' = f
  BY <1>1, <1>2, <1>5 DEF Top, Last
<1> QED BY <1>1, <1>6, <1>7 DEF Waiting

LEMMA GrowWaits ==
  ASSUME IInv, Waiting, stack # <<>>, NEW f, stack' = [stack EXCEPT ![Len(stack)] = f],
         FewKeys(f), pc' \in {"chunk", "loop"}
  PROVE  Waiting'
<1>1. stack \in Seq(Frames) /\ Len(stack) \in Nat
  BY DEF IInv, TypeOK
<1>2. /\ Len(stack') = Len(stack)
      /\ \A k \in 1 .. Len(stack) : stack'[k] = IF k = Len(stack) THEN f ELSE stack[k]
  BY <1>1, LastReplaced
<1>3. ASSUME NEW k \in 1 .. Len(stack')
      PROVE  FewKeys(stack'[k]) /\ (k < Len(stack') => Unfilled(stack'[k]))
  <2>1. k \in 1 .. Len(stack)
    BY <1>2
  <2>2. CASE k = Len(stack)
    BY <1>1, <1>2, <2>1, <2>2
  <2>3. CASE k # Len(stack)
    <3>1. stack'[k] = stack[k]
      BY <1>2, <2>1, <2>3
    <3> QED BY <1>2, <2>1, <3>1 DEF Waiting
  <2> QED BY <2>2, <2>3
<1> QED BY <1>3 DEF Waiting

\* A map takes in a key before every value.
LEMMA KeyTaken ==
  ASSUME NEW K, NEW n \in Nat, IsFiniteSet(K), 2 * Cardinality(K) <= n + 1, NEW x
  PROVE  /\ IsFiniteSet(K \cup {}) /\ 2 * Cardinality(K \cup {}) <= (n + 1) + 1
         /\ n % 2 = 0 => IsFiniteSet(K \cup {x}) /\ 2 * Cardinality(K \cup {x}) <= (n + 1) + 1
<1>1. Cardinality(K) \in Nat /\ K \cup {} = K
  BY FS_CardinalityType
<1>2. IsFiniteSet(K \cup {x}) /\ Cardinality(K \cup {x}) \in {Cardinality(K), Cardinality(K) + 1}
  BY <1>1, FS_AddElement
<1> DEFINE c == Cardinality(K)
           e == Cardinality(K \cup {x})
<1>3. c \in Nat /\ e \in {c, c + 1} /\ 2 * c <= n + 1
  BY <1>1, <1>2
<1> HIDE DEF c, e
<1>4. n % 2 = 0 => 2 * e <= (n + 1) + 1
  BY <1>3
<1>5. 2 * c <= (n + 1) + 1
  BY <1>3
<1> QED BY <1>1, <1>2, <1>4, <1>5 DEF c, e

LEMMA IntoContainerWaits == ASSUME IInv, Waiting, IntoContainer PROVE Waiting'
<1>1. pc = "return" /\ stack # <<>>
  BY DEF IntoContainer, Inside
<1>2. CASE OverCap(Top)
  BY <1>2, FailWaits DEF IntoContainer
<1>3. CASE ~OverCap(Top)
  <2> DEFINE f == [Top EXCEPT !.got = @ + 1, !.keys = @ \cup NewKeys]
  <2>1. /\ stack' = [stack EXCEPT ![Len(stack)].got = @ + 1,
                                  ![Len(stack)].keys = @ \cup NewKeys]
        /\ pc' = "loop"
    BY <1>3 DEF IntoContainer
  <2>2. /\ Top \in Frames /\ Top = stack[Len(stack)] /\ stack \in Seq(Frames)
        /\ Len(stack) \in 1 .. Len(stack)
    BY <1>1, InnermostFrame
  <2>3. stack' = [stack EXCEPT ![Len(stack)] = f]
    BY <2>1, <2>2
  <2>4. f.got = Top.got + 1 /\ f.keys = Top.keys \cup NewKeys /\ Top.got \in Nat
    BY <2>2 DEF Frames
  <2> HIDE DEF f
  <2>5. IsFiniteSet(Top.keys) /\ 2 * Cardinality(Top.keys) <= Top.got + 1
    BY <2>2 DEF Waiting, FewKeys
  <2>6. FewKeys(f)
    <3>1. CASE AtJsonKey
      <4>1. NewKeys = {ret.s} /\ Top.got % 2 = 0
        BY <3>1 DEF NewKeys, AtJsonKey, AtKey
      <4>2. /\ IsFiniteSet(Top.keys \cup {ret.s})
            /\ 2 * Cardinality(Top.keys \cup {ret.s}) <= (Top.got + 1) + 1
        BY ONLY <2>4, <2>5, <4>1, KeyTaken
      <4> QED BY ONLY <2>4, <4>1, <4>2 DEF FewKeys
    <3>2. CASE ~AtJsonKey
      <4>1. NewKeys = {}
        BY <3>2 DEF NewKeys
      <4> QED BY <2>4, <2>5, <4>1, KeyTaken DEF FewKeys
    <3> QED BY <3>1, <3>2
  <2> QED BY <1>1, <2>1, <2>3, <2>6, GrowWaits
<1> QED BY <1>2, <1>3

LEMMA TakeChunkWaits == ASSUME IInv, Waiting, TakeChunk PROVE Waiting'
<1>1. pc = "chunk" /\ stack # <<>>
  BY DEF TakeChunk, Inside, IInv, Framed
<1>2. CASE \E e, j : Fail(e, j)
  BY <1>2, FailWaits
<1>3. CASE ~\E e, j : Fail(e, j)
  <2> DEFINE f == [Top EXCEPT !.part = @ \o ChunkBytes]
  <2>1. stack' = [stack EXCEPT ![Len(stack)].part = @ \o ChunkBytes] /\ pc' = pc
    BY <1>3 DEF TakeChunk
  <2>2. /\ Top \in Frames /\ Top = stack[Len(stack)] /\ stack \in Seq(Frames)
        /\ Len(stack) \in 1 .. Len(stack)
    BY <1>1, InnermostFrame
  <2>3. stack' = [stack EXCEPT ![Len(stack)] = f]
    BY <2>1, <2>2
  <2>4. f.got = Top.got /\ f.keys = Top.keys
    BY <2>2 DEF Frames
  <2> HIDE DEF f
  <2>5. FewKeys(f)
    BY <2>2, <2>4 DEF Waiting, FewKeys
  <2> QED BY <1>1, <2>1, <2>3, <2>5, GrowWaits
<1> QED BY <1>2, <1>3

LEMMA OpensWait == ASSUME IInv, Waiting, OpenString \/ OpenContainer \/ OpenTag PROVE Waiting'
<1>1. pc = "call"
  BY DEF OpenString, OpenContainer, OpenTag, Admitted, Counted
<1>2. CASE \E e, j : Fail(e, j)
  BY <1>2, FailWaits
<1>3. CASE ~\E e, j : Fail(e, j)
  <2>1. ASSUME NEW kind, NEW d, NEW indef, NEW want, NEW where \in {"call", "chunk", "loop"},
               Push(Frame(kind, d, indef, want), where),
               where = "call" => kind \in {"tag", "keytag"}
        PROVE  Waiting'
    <3> DEFINE f == Frame(kind, d, indef, want)
    <3>1. f.got = 0 /\ f.keys = {} /\ f.kind = kind /\ Push(f, where)
      BY <2>1 DEF Frame
    <3> HIDE DEF f
    <3> QED BY <1>1, <2>1, <3>1, PushWaits
  <2>2. CASE OpenString
    <3>1. Push(Frame(StringKind(h.mt), CallDepth, TRUE, 0), "chunk")
      BY <1>3, <2>2 DEF OpenString
    <3> QED BY <2>1, <3>1
  <2>3. CASE OpenContainer
    <3>1. Push(Frame(IF h.mt = mtArray THEN "array" ELSE "map", CallDepth, h.indef,
                     PerElement * h.arg), "loop")
      BY <1>3, <2>3 DEF OpenContainer
    <3> QED BY <2>1, <3>1
  <2>4. CASE OpenTag
    <3>1. Push(IF AtJsonKey THEN Frame("keytag", Top.depth, FALSE, 0)
                            ELSE Frame("tag", CallDepth, FALSE, 0), "call")
      BY <1>3, <2>4 DEF OpenTag
    <3>2. CASE AtJsonKey
      <4>1. Push(Frame("keytag", Top.depth, FALSE, 0), "call")
        BY <3>1, <3>2
      <4> QED BY <2>1, <4>1
    <3>3. CASE ~AtJsonKey
      <4>1. Push(Frame("tag", CallDepth, FALSE, 0), "call")
        BY <3>1, <3>3
      <4> QED BY <2>1, <4>1
    <3> QED BY <3>2, <3>3
  <2> QED BY <2>2, <2>3, <2>4
<1> QED BY <1>2, <1>3

LEMMA NextItemWaits == ASSUME IInv, GInv, Waiting, NextItem PROVE Waiting'
<1>1. /\ pc = "loop" /\ pc' = "call" /\ UNCHANGED <<b, i, stack>> /\ stack # <<>>
      /\ IF Top.indef THEN MidPair(Top) \/ ~AtBreak ELSE Top.got < Top.want
  BY DEF NextItem, Inside, IInv, Framed
<1>2. Top = stack[Len(stack)] /\ stack \in Seq(Frames)
  BY <1>1, InnermostFrame
<1>3. Unfilled(Top)
  <2>1. Top.kind \in {"array", "map"}
    BY <1>1 DEF GInv, InProgress
  <2> QED BY <1>1, <2>1 DEF Unfilled
<1>4. ASSUME NEW k \in 1 .. Len(stack) PROVE FewKeys(stack[k]) /\ Unfilled(stack[k])
  <2>1. k < Len(stack) \/ k = Len(stack)
    BY <1>2
  <2> QED BY <1>2, <1>3, <2>1 DEF Waiting
<1>5. /\ Top' = Top /\ AtBreak' = AtBreak
  BY <1>1 DEF Top, AtBreak
<1> QED BY <1>1, <1>4, <1>5 DEF Waiting, MidPair

LEMMA InitWaits == Init => Waiting
<1> SUFFICES ASSUME Init PROVE Waiting
  OBVIOUS
<1>1. stack = <<>>
  BY DEF Init
<1>2. \A k \in 1 .. Len(stack) : FALSE
  BY <1>1
<1> QED BY <1>1, <1>2 DEF Waiting

LEMMA NextWaits == IInv /\ GInv /\ Waiting /\ [Next]_vars => Waiting'
<1> SUFFICES ASSUME IInv, GInv, Waiting, [Next]_vars PROVE Waiting'
  OBVIOUS
<1>1. CASE TooDeep \/ OverBudget \/ BadHead \/ KeyNotString \/ BadChunk \/ CutContainer
  <2>1. \E e, j : Fail(e, j)
    BY <1>1 DEF TooDeep, OverBudget, BadHead, KeyNotString, BadChunk, CutContainer
  <2> QED BY <2>1, FailWaits
<1>2. CASE Integer \/ Simple \/ DefiniteString
  <2>1. pc = "call" /\ \/ \E e, j : Fail(e, j)
                       \/ \E v, j : Yield(v, j, stack)
    BY <1>2 DEF Integer, Simple, DefiniteString, Admitted, Counted
  <2> QED BY <2>1, FailWaits, YieldWaits
<1>3. CASE OpenString \/ OpenContainer \/ OpenTag
  BY <1>3, OpensWait
<1>4. CASE TakeChunk \/ IntoContainer \/ NextItem
  BY <1>4, TakeChunkWaits, IntoContainerWaits, NextItemWaits
<1>5. CASE CloseString \/ CloseContainer \/ ThroughTag
  <2>1. stack # <<>> /\ \/ \E e, j : Fail(e, j)
                        \/ \E v, j : Yield(v, j, Front(stack))
    BY <1>5 DEF CloseString, CloseContainer, ThroughTag, Inside, IInv, Framed
  <2> QED BY <2>1, FailWaits, PopWaits
<1>6. CASE Finish \/ Again
  <2>1. stack' = <<>>
    BY <1>6 DEF Finish, Again, IInv, Framed
  <2>2. \A k \in 1 .. Len(stack') : FALSE
    BY <2>1
  <2> QED BY <2>1, <2>2 DEF Waiting
<1>7. CASE UNCHANGED vars
  <2>1. UNCHANGED <<b, i, pc, stack>>
    BY <1>7 DEF vars
  <2>2. Top' = Top /\ AtBreak' = AtBreak
    BY <2>1 DEF Top, AtBreak
  <2> QED BY <2>1, <2>2 DEF Waiting, MidPair
<1> QED BY <1>1, <1>2, <1>3, <1>4, <1>5, <1>6, <1>7 DEF Next, Step

-----------------------------------------------------------------------------
(***************************************************************************)
(* Where the rules derive an item from where the method started, the call  *)
(* about to be made stands at the item or the key it is to read, and every *)
(* container that made one of the calls in progress has more to read.      *)
(***************************************************************************)
\* The head that opened a frame is not a break.
LEMMA OpenedByHead ==
  ASSUME NEW o, NEW s, NEW f \in Frames, NEW p, NEW q, FrameReads(o, s, f, p, q)
  PROVE  ~BreakAt(s, p)
<1> DEFINE g == HeadAt(s, p)
<1>1. f.kind \in Kinds
  BY DEF Frames
<1>2. StringReads(o, s, f, g, q) /\ TagReads(f, g, q) /\ ContainerReads(o, s, f, g, q)
  BY DEF FrameReads
<1>3. g.mt # mtSimple
  BY <1>1, <1>2 DEF StringReads, TagReads, ContainerReads, Kinds, mtSimple, mtBytes, mtText,
                    mtTag, mtMap, mtArray
<1> QED BY <1>3, BreakHead

LEMMA LowerExpects ==
  ASSUME IInv, Waiting, NEW at, Reads(op, b, stack, start, at),
         NEW k \in 1 .. Len(stack), k < Len(stack)
  PROVE  /\ stack[k].kind \notin {"bytes", "text"}
         /\ stack[k].kind \in {"array", "map"} => Expecting(b, stack[k], at[k + 1])
<1>1. stack \in Seq(Frames) /\ Len(stack) \in Nat
  BY DEF IInv, TypeOK
<1>2. k + 1 \in 1 .. Len(stack)
  BY <1>1
<1>3. Unfilled(stack[k])
  BY DEF Waiting
<1>4. ~BreakAt(b, at[k + 1])
  <2>1. FrameReads(op, b, stack[k + 1], at[k + 1], at[(k + 1) + 1]) /\ stack[k + 1] \in Frames
    BY <1>1, <1>2 DEF Reads
  <2> QED BY <2>1, OpenedByHead
<1> QED BY <1>3, <1>4 DEF Unfilled, Expecting

LEMMA HopeBelow ==
  ASSUME IInv, Waiting, NEW at, Reads(op, b, stack, start, at),
         NEW to, Derived(op, b, Item(start, to, MaxDepth)),
         NEW n \in 0 .. Len(stack),
         \A k \in 1 .. n :
           /\ stack[k].kind \notin {"bytes", "text"}
           /\ stack[k].kind \in {"array", "map"} => Expecting(b, stack[k], at[k + 1])
  PROVE  Hoped(op, b, stack, n, at[n + 1])
<1> DEFINE T == {k \in 0 .. n : Hoped(op, b, stack, k, at[k + 1])}
<1>1. b \in Seq(Byte) /\ stack \in Seq(Frames) /\ n \in Nat /\ Len(stack) \in Nat
  BY DEF IInv, TypeOK
<1>2. Hoped(op, b, stack, 0, at[0 + 1])
  BY DEF Hoped, Called, KeyIn, DepthIn, Reads
<1>3. 0 \in T
  BY <1>1, <1>2
<1>4. ASSUME NEW k \in 0 .. n - 1, k \in T PROVE k + 1 \in T
  <2> DEFINE l == k + 1
  <2>1. l \in 1 .. n /\ l \in 1 .. Len(stack) /\ l - 1 = k /\ l \in 1 .. Len(stack) + 1 /\ k \in 0 .. Len(stack)
        /\ l \in 0 .. n
    BY <1>1
  <2>2. Hoped(op, b, stack, k, at[l])
    BY <1>4
  <2> HIDE DEF l
  <2>3. at[l] \in 0 .. Len(b) /\ Linked(op, stack, l) /\ FrameReads(op, b, stack[l], at[l], at[l + 1])
    BY <2>1 DEF Reads
  <2>4. DepthIn(stack, l - 1) \in Int
    <3>1. DepthIn(stack, k) \in {-1} \cup Levels
      BY <2>1, DepthRange
    <3> QED BY <2>1, <3>1 DEF Levels
  <2>5. Hoped(op, b, stack, l, at[l + 1])
    BY <1>1, <2>1, <2>2, <2>3, <2>4, HopeGoesOn
  <2>6. l \in T
    BY <2>1, <2>5
  <2> QED BY <2>6 DEF l
<1> HIDE DEF T
<1>5. n \in T
  <2>1. n \in 0 .. n
    BY <1>1
  <2> QED BY <1>1, <1>3, <1>4, <2>1, UpToN
<1> QED BY <1>5 DEF T

\* Inside a call, the call itself was hoped for.
LEMMA HopeInside ==
  ASSUME IInv, Waiting, NEW at, Reads(op, b, stack, start, at), stack # <<>>,
         NEW to, Derived(op, b, Item(start, to, MaxDepth))
  PROVE  Hoped(op, b, stack, Len(stack) - 1, at[Len(stack)])
<1> DEFINE n == Len(stack) - 1
<1>1. Len(stack) \in Nat /\ Len(stack) # 0
  BY DEF IInv, TypeOK
<1>2. n \in 0 .. Len(stack) /\ n + 1 = Len(stack)
      /\ \A k \in 1 .. n : k \in 1 .. Len(stack) /\ k < Len(stack)
  BY <1>1
<1> HIDE DEF n
<1>3. \A k \in 1 .. n :
           /\ stack[k].kind \notin {"bytes", "text"}
           /\ stack[k].kind \in {"array", "map"} => Expecting(b, stack[k], at[k + 1])
  BY <1>2, LowerExpects
<1>4. Hoped(op, b, stack, n, at[n + 1])
  BY <1>2, <1>3, HopeBelow
<1> QED BY <1>2, <1>4 DEF n

\* A call is made where what it is to read stands.
LEMMA HopeAtCall ==
  ASSUME IInv, GInv, Waiting, pc = "call", NEW to, Derived(op, b, Item(start, to, MaxDepth))
  PROVE  \E q : IF AtJsonKey THEN Derived(op, b, Key(i, q, CallDepth))
                             ELSE Derived(op, b, Item(i, q, CallDepth))
<1>1. PICK at : Reads(op, b, stack, start, at) /\ at[Len(stack) + 1] = i
  BY DEF GInv, InProgress
<1>2. Len(stack) \in Nat /\ stack \in Seq(Frames)
  BY DEF IInv, TypeOK
<1>3. ASSUME NEW k \in 1 .. Len(stack)
      PROVE  /\ stack[k].kind \notin {"bytes", "text"}
             /\ stack[k].kind \in {"array", "map"} => Expecting(b, stack[k], at[k + 1])
  <2>1. CASE k < Len(stack)
    BY <1>1, <2>1, LowerExpects
  <2>2. CASE ~(k < Len(stack))
    <3>1. k = Len(stack) /\ stack # <<>>
      BY <1>2, <2>2
    <3>2. Top = stack[k]
      BY <3>1, InnermostFrame
    <3>3. Unfilled(Top)
      BY <3>2 DEF Waiting
    <3>4. Top.kind \in {"array", "map"} /\ Top.indef => MidPair(Top) \/ ~AtBreak
      BY <3>1 DEF Waiting
    <3>5. at[k + 1] = i
      BY <1>1, <3>1
    <3>6. BreakAt(b, i) => AtBreak
      <4>1. i \in Nat /\ Len(b) \in Nat
        BY DEF IInv, TypeOK
      <4> QED BY <4>1 DEF BreakAt, AtBreak
    <3> QED BY <3>2, <3>3, <3>4, <3>5, <3>6 DEF Unfilled, Expecting
  <2> QED BY <2>1, <2>2
<1>4. Len(stack) \in 0 .. Len(stack)
  BY <1>2
<1>5. Hoped(op, b, stack, Len(stack), i)
  BY <1>1, <1>3, <1>4, HopeBelow
<1>6. PICK q : Called(op, b, stack, Len(stack), i, q)
  BY <1>5 DEF Hoped
<1>7. CallDepth = DepthIn(stack, Len(stack)) /\ (AtJsonKey <=> KeyIn(op, stack, Len(stack)))
  BY HereLevel
<1> HIDE DEF CallDepth, AtJsonKey
<1> QED BY <1>6, <1>7 DEF Called

-----------------------------------------------------------------------------
(***************************************************************************)
(* So no call refuses what the rules derive.                               *)
(***************************************************************************)
Promised == \E to : Derived(op, b, Item(start, to, MaxDepth))

\* What is known at a call: the head it is to read, and why.
LEMMA CallPromised ==
  ASSUME IInv, GInv, Waiting, pc = "call", Promised
  PROVE  /\ b \in Seq(Byte) /\ h = HeadAt(b, i) /\ h.err = "nil"
         /\ h.arg \in Nat /\ h.next \in Nat /\ Len(b) \in Nat /\ h.ai \in 0 .. 31
         /\ ~AtJsonKey => /\ CallDepth \in Levels
                          /\ \E q : Derived(op, b, Item(i, q, CallDepth))
         /\ AtJsonKey => /\ op = "json"
                         /\ \E q : WhyKey(op, b, i, q, CallDepth)
<1>1. b \in Seq(Byte) /\ h = HeadAt(b, i) /\ Len(b) \in Nat
      /\ h.arg \in Nat /\ h.next \in Nat /\ h.ai \in 0 .. 31
  BY HeadHere DEF IInv, TypeOK, h, HeadOK
<1>2. PICK q : IF AtJsonKey THEN Derived(op, b, Key(i, q, CallDepth))
                            ELSE Derived(op, b, Item(i, q, CallDepth))
  BY HopeAtCall DEF Promised
<1> HIDE DEF h, CallDepth
<1>3. CASE AtJsonKey
  <2>1. WhyKey(op, b, i, q, CallDepth)
    BY <1>1, <1>2, <1>3, Inversion
  <2>2. Derived(op, b, Item(i, q, CallDepth)) => h.err = "nil"
    BY <1>1, ItemByHead
  <2>3. h.err = "nil"
    BY <1>1, <2>1, <2>2 DEF WhyKey, StringIn
  <2>4. op = "json"
    BY <1>3 DEF AtJsonKey
  <2> QED BY <1>1, <1>3, <2>1, <2>3, <2>4
<1>4. CASE ~AtJsonKey
  <2>1. Derived(op, b, Item(i, q, CallDepth))
    BY <1>2, <1>4
  <2>2. h.err = "nil"
    BY <1>1, <2>1, ItemByHead
  <2>3. CallDepth \in Levels
    BY <1>1, <2>1, DerivedStated, StatedItem
  <2> QED BY <1>1, <1>4, <2>1, <2>2, <2>3
<1> QED BY <1>3, <1>4

LEMMA TooDeepRefuses == ASSUME IInv, GInv, Waiting, TooDeep PROVE ~Promised
<1>1. pc = "call" /\ ~AtJsonKey /\ CallDepth < 0
  BY DEF TooDeep
<1>2. ~(CallDepth \in Levels)
  <2> HIDE DEF CallDepth
  <2> QED BY <1>1 DEF Levels
<1> QED BY <1>1, <1>2, CallPromised

LEMMA BadHeadRefuses == ASSUME IInv, GInv, Waiting, BadHead PROVE ~Promised
<1>1. pc = "call" /\ h.err # "nil"
  BY DEF BadHead, Counted
<1> QED BY <1>1, CallPromised

LEMMA KeyNotStringRefuses == ASSUME IInv, GInv, Waiting, KeyNotString PROVE ~Promised
<1>1. pc = "call" /\ AtJsonKey /\ h.mt \notin {mtBytes, mtText, mtTag}
  BY DEF KeyNotString, Admitted, Counted
<1> SUFFICES ASSUME Promised PROVE FALSE
  OBVIOUS
<1>2. op = "json" /\ h = HeadAt(b, i) /\ \E q : WhyKey(op, b, i, q, CallDepth)
  BY <1>1, CallPromised
<1> HIDE DEF h
<1> QED BY <1>1, <1>2 DEF WhyKey, StringIn

LEMMA IntegerRefuses == ASSUME IInv, GInv, Waiting, Integer, Promised PROVE pc' # "done"
<1>1. pc = "call" /\ ~AtJsonKey /\ h.mt \in {mtUint, mtNegInt}
  BY DEF Integer, Admitted, Counted
<1>2. PICK q : Derived(op, b, Item(i, q, CallDepth))
  BY <1>1, CallPromised
<1>3. h = HeadAt(b, i) /\ b \in Seq(Byte)
  BY <1>1, CallPromised
<1>4. ~h.indef
  <2> HIDE DEF h, CallDepth
  <2> QED BY <1>1, <1>2, <1>3, ItemByHead
<1> QED BY <1>4 DEF Integer, Yield

LEMMA SimpleRefuses == ASSUME IInv, GInv, Waiting, Simple, Promised PROVE pc' # "done"
<1>1. pc = "call" /\ ~AtJsonKey /\ h.mt = mtSimple
  BY DEF Simple, Admitted, Counted
<1>2. PICK q : Derived(op, b, Item(i, q, CallDepth))
  BY <1>1, CallPromised
<1>3. h = HeadAt(b, i) /\ b \in Seq(Byte) /\ h.arg \in Nat /\ h.ai \in 0 .. 31
  BY <1>1, CallPromised
<1>4. GoodSimple(op, h.ai, h.arg)
  <2> HIDE DEF h, CallDepth
  <2> QED BY <1>1, <1>2, <1>3, ItemByHead
<1>5. SimpleAllowed
  <2>1. ASSUME NEW ai \in 0 .. 31, NEW arg \in Nat, GoodSimple(op, ai, arg)
        PROVE  IF op = "json" THEN ai \in 20 .. 23 \cup 25 .. 27
                              ELSE ai # 31 /\ ~(ai = 24 /\ arg < 32)
    BY <2>1 DEF GoodSimple
  <2> HIDE DEF h
  <2> QED BY <1>3, <1>4, <2>1 DEF SimpleAllowed
<1> QED BY <1>5 DEF Simple, Yield

\* The content of a promised string passes its checks.
LEMMA ContentPasses ==
  ASSUME NEW mt \in {mtBytes, mtText}, NEW s, GoodContent(op, mt, s)
  PROVE  Len(s) <= MaxStringBytes /\ ~InvalidText(StringKind(mt), s)
BY DEF GoodContent, InvalidText, StringKind, mtText, mtBytes

LEMMA DefiniteStringRefuses ==
  ASSUME IInv, GInv, Waiting, DefiniteString, Promised PROVE pc' # "done"
<1>1. pc = "call" /\ h.mt \in {mtBytes, mtText} /\ ~h.indef
  BY DEF DefiniteString, Admitted, Counted
<1>2. h = HeadAt(b, i) /\ b \in Seq(Byte) /\ h.arg \in Nat /\ h.next \in Nat /\ Len(b) \in Nat
  BY <1>1, CallPromised
<1>3. StringIn(b, h) /\ GoodContent(op, h.mt, Content(b, h))
  <2>1. h.mt # mtTag
    BY <1>1 DEF mtBytes, mtText, mtTag
  <2>2. ASSUME NEW q, Derived(op, b, Item(i, q, CallDepth))
        PROVE  StringIn(b, h) /\ GoodContent(op, h.mt, Content(b, h))
    <3> HIDE DEF h, CallDepth
    <3> QED BY <1>1, <1>2, <2>2, ItemByHead
  <2>3. CASE AtJsonKey
    <3>1. PICK q : WhyKey(op, b, i, q, CallDepth)
      BY <1>1, <2>3, CallPromised
    <3> HIDE DEF h, CallDepth
    <3> QED BY <1>2, <2>1, <2>2, <3>1 DEF WhyKey
  <2>4. CASE ~AtJsonKey
    BY <1>1, <2>2, <2>4, CallPromised
  <2> QED BY <2>3, <2>4
<1>4. ChunkBytes = Content(b, h) /\ h.next + h.arg <= Len(b)
  BY <1>3 DEF ChunkBytes, Content, StringIn
<1>5. Len(ChunkBytes) = h.arg
  <2> HIDE DEF h
  <2> QED BY <1>2, <1>4, SliceLength DEF Content
<1>6. h.arg <= MaxStringBytes /\ ~InvalidText(StringKind(h.mt), ChunkBytes)
  <2> HIDE DEF h, ChunkBytes
  <2> QED BY <1>1, <1>3, <1>4, <1>5, ContentPasses
<1>7. ChunkError = "nil"
  <2> HIDE DEF h
  <2> QED BY <1>2, <1>4, <1>6, LimitsAssumption DEF ChunkError
<1> QED BY <1>6, <1>7 DEF DefiniteString, Yield

LEMMA OpenStringRefuses == ASSUME IInv, GInv, Waiting, OpenString, Promised PROVE pc' # "done"
<1>1. /\ pc = "call" /\ h.mt \in {mtBytes, mtText} /\ h.indef
      /\ AtJsonKey \/ CallDepth >= 0
  BY DEF OpenString, Admitted, Counted
<1>2. h = HeadAt(b, i) /\ b \in Seq(Byte)
  BY <1>1, CallPromised
<1>3. CallDepth \in Levels
  <2>1. CASE AtJsonKey
    <3>1. PICK q : WhyKey(op, b, i, q, CallDepth)
      BY <1>1, <2>1, CallPromised
    <3> HIDE DEF h, CallDepth
    <3>2. ~StringIn(b, h) /\ h.mt # mtTag
      BY <1>1 DEF StringIn, mtBytes, mtText, mtTag
    <3>3. Derived(op, b, Item(i, q, CallDepth))
      BY <1>2, <3>1, <3>2 DEF WhyKey
    <3> QED BY <1>2, <3>3, DerivedStated, StatedItem
  <2>2. CASE ~AtJsonKey
    BY <1>1, <2>2, CallPromised
  <2> QED BY <2>1, <2>2
<1>4. ~(CallDepth < 0)
  <2> HIDE DEF CallDepth
  <2> QED BY <1>3 DEF Levels
<1> QED BY <1>4 DEF OpenString, Push

LEMMA OpenTagRefuses == ASSUME IInv, GInv, Waiting, OpenTag, Promised PROVE pc' # "done"
<1>1. pc = "call" /\ h.mt = mtTag
  BY DEF OpenTag, Admitted, Counted
<1>2. h = HeadAt(b, i) /\ b \in Seq(Byte)
  BY <1>1, CallPromised
<1>3. ~h.indef
  <2>1. CASE AtJsonKey
    <3>1. /\ op = "json"
          /\ \E q : WhyKey(op, b, i, q, CallDepth)
      BY <1>1, <2>1, CallPromised
    <3> HIDE DEF h, CallDepth
    <3>2. ~StringIn(b, h) /\ h.mt \notin {mtBytes, mtText}
      BY <1>1 DEF StringIn, mtBytes, mtText, mtTag
    <3> QED BY <1>2, <3>1, <3>2 DEF WhyKey
  <2>2. CASE ~AtJsonKey
    <3>1. PICK q : Derived(op, b, Item(i, q, CallDepth))
      BY <1>1, <2>2, CallPromised
    <3> HIDE DEF h, CallDepth
    <3> QED BY <1>1, <1>2, <3>1, ItemByHead
  <2> QED BY <2>1, <2>2
<1> QED BY <1>3 DEF OpenTag, Push

LEMMA OpenContainerRefuses ==
  ASSUME IInv, GInv, Waiting, OpenContainer, Promised PROVE pc' # "done"
<1>1. pc = "call" /\ ~AtJsonKey /\ h.mt \in {mtArray, mtMap}
  BY DEF OpenContainer, Admitted, Counted
<1>2. PICK q : Derived(op, b, Item(i, q, CallDepth))
  BY <1>1, CallPromised
<1>3. h = HeadAt(b, i) /\ b \in Seq(Byte) /\ h.arg \in Nat /\ h.next \in Nat /\ Len(b) \in Nat
  BY <1>1, CallPromised
<1>4. CountError = "nil"
  <2>1. CASE h.indef
    BY <2>1 DEF CountError
  <2>2. CASE ~h.indef
    <3> HIDE DEF h, CallDepth
    <3>1. Contained(op, b, h, q, CallDepth)
      BY <1>1, <1>2, <1>3, ItemByHead
    <3>2. PICK n \in Nat, end \in Offsets(b) :
             Opens(op, b, h, n, end, CallDepth - 1) /\ Pairs(h, n) = h.arg
      BY <2>2, <3>1 DEF Contained
    <3>3. h.next + n <= end /\ end <= Len(b) /\ end \in Nat
      <4>1. Derived(op, b, Row(h.next, end, n, CallDepth - 1, h.mt = mtMap))
        BY <3>2 DEF Opens
      <4> HIDE DEF CallDepth
      <4> QED BY <1>3, <4>1, DerivedStated, StatedRow DEF Offsets
    <3>4. (h.mt = mtMap => n % 2 = 0) /\ GoodCount(op, h.mt, h.indef, h.arg)
      BY <2>2, <3>2 DEF Opens
    <3>5. h.arg <= CountLimit
      BY <1>1, <2>2, <3>4 DEF GoodCount, CountLimit, mtArray, mtMap
    <3>6. n = PerElement * h.arg /\ PerElement \in {1, 2}
      BY <1>1, <1>3, <3>2, <3>4 DEF Pairs, PerElement, mtArray, mtMap
    <3>7. h.arg <= (Len(b) - h.next) \div PerElement
      <4>1. PerElement * h.arg <= Len(b) - h.next
        BY <1>3, <3>3, <3>6
      <4>2. CASE PerElement = 1
        BY <1>3, <4>1, <4>2
      <4>3. CASE PerElement = 2
        <5> DEFINE m == Len(b) - h.next
                   a == h.arg
        <5>1. m \in Int /\ a \in Nat /\ 2 * a <= m
          BY <1>3, <4>1, <4>3
        <5> HIDE DEF m, a
        <5>2. a <= m \div 2
          BY <5>1
        <5> QED BY <4>3, <5>2 DEF m, a
      <4> QED BY <3>6, <4>2, <4>3
    <3>8. CountLimit \in Nat
      BY LimitsAssumption DEF CountLimit
    <3>9. (Len(b) - h.next) \div PerElement \in Int
      BY <1>3, <3>6
    <3> QED BY <1>3, <3>5, <3>7, <3>8, <3>9 DEF CountError
  <2> QED BY <2>1, <2>2
<1> QED BY <1>4 DEF OpenContainer, Push

-----------------------------------------------------------------------------
\* The chunks of a promised string: the run the rules derive, and its break.
LEMMA ChunksPromised ==
  ASSUME IInv, GInv, Waiting, pc = "chunk", Promised
  PROVE  \E mt \in {mtBytes, mtText}, c \in Seq(Byte) :
           /\ StringKind(mt) = Top.kind
           /\ Len(c) <= MaxStringBytes /\ ~InvalidText(Top.kind, c)
           /\ ~AtBreak => Chunk(b, mt, i) /\ Len(Top.part) + h.arg <= Len(c)
           /\ AtBreak => c = Top.part
<1>1. PICK at : Reads(op, b, stack, start, at) /\ at[Len(stack) + 1] = i
  BY DEF GInv, InProgress
<1>2. stack # <<>> /\ stack[Len(stack)].kind \in {"bytes", "text"}
  BY DEF IInv, Framed
<1> DEFINE p == at[Len(stack)]
           g == HeadAt(b, p)
           d == DepthIn(stack, Len(stack) - 1)
<1>3. /\ Top = stack[Len(stack)] /\ FrameReads(op, b, Top, p, i) /\ b \in Seq(Byte)
      /\ p \in 0 .. Len(b)
  BY <1>1, <1>2, AtTop
<1>4. PICK to : Derived(op, b, Item(start, to, MaxDepth))
  BY DEF Promised
<1>5. Hoped(op, b, stack, Len(stack) - 1, p)
  BY <1>1, <1>2, <1>4, HopeInside
<1> HIDE DEF p, g, d
<1>6. /\ g.mt \in {mtBytes, mtText} /\ g.indef /\ StringKind(g.mt) = Top.kind
      /\ \E n \in Nat : Derived(op, b, Run(g.mt, g.next, i, n, Top.part))
  BY <1>2, <1>3 DEF FrameReads, StringReads, g
<1>7. g.mt # mtTag /\ ~StringIn(b, g)
  BY <1>6 DEF StringIn, mtTag, mtBytes, mtText
<1>8. PICK q : Derived(op, b, Item(p, q, d))
  BY <1>3, <1>5, <1>7, HopedItem DEF g, d
<1>9. Chunked(op, b, g, q)
  BY <1>3, <1>6, <1>8, ItemByHead DEF g
<1>10. PICK n \in Nat, c \in Seq(Byte), e \in Offsets(b) :
         Derived(op, b, Run(g.mt, g.next, e, n, c)) /\ BreakAt(b, e) /\ GoodContent(op, g.mt, c)
  BY <1>9 DEF Chunked
<1>11. PICK m \in Nat : Derived(op, b, Run(g.mt, g.next, i, m, Top.part))
  BY <1>6
<1>12. Len(c) <= MaxStringBytes /\ ~InvalidText(Top.kind, c)
  BY <1>6, <1>10, ContentPasses
<1>13. AtBreak <=> BreakAt(b, i)
  <2>1. i \in Nat /\ Len(b) \in Nat
    BY DEF IInv, TypeOK
  <2> QED BY <2>1 DEF AtBreak, BreakAt
<1>14. ASSUME ~AtBreak PROVE Chunk(b, g.mt, i) /\ Len(Top.part) + h.arg <= Len(c)
  BY <1>3, <1>10, <1>11, <1>13, <1>14, RunGoesOn DEF h
<1>15. ASSUME AtBreak PROVE c = Top.part
  <2>1. OneRun(op, b, g.mt, g.next, n)
    BY <1>3, <1>10, Uniqueness
  <2> QED BY <1>3, <1>10, <1>11, <1>13, <1>15, <2>1, RunsEnd
<1> QED BY <1>6, <1>12, <1>14, <1>15

LEMMA BadChunkRefuses == ASSUME IInv, GInv, Waiting, BadChunk PROVE ~Promised
<1> SUFFICES ASSUME Promised PROVE FALSE
  OBVIOUS
<1>1. /\ pc = "chunk" /\ ~AtBreak
      /\ h.err # "nil" \/ h.indef \/ h.mt \notin {mtBytes, mtText} \/ StringKind(h.mt) # Top.kind
  BY DEF BadChunk, Inside
<1>2. PICK mt \in {mtBytes, mtText} : StringKind(mt) = Top.kind /\ Chunk(b, mt, i)
  BY <1>1, ChunksPromised
<1>3. StringIn(b, h) /\ h.mt = mt
  BY <1>2 DEF Chunk, h
<1> HIDE DEF h
<1> QED BY <1>1, <1>2, <1>3 DEF StringIn

LEMMA TakeChunkRefuses == ASSUME IInv, GInv, Waiting, TakeChunk, Promised PROVE pc' # "done"
<1>1. pc = "chunk" /\ ~AtBreak
  BY DEF TakeChunk, Inside
<1>2. PICK mt \in {mtBytes, mtText}, c \in Seq(Byte) :
        /\ Len(c) <= MaxStringBytes /\ Chunk(b, mt, i) /\ Len(Top.part) + h.arg <= Len(c)
  BY <1>1, ChunksPromised
<1>3. h.next + h.arg <= Len(b)
  BY <1>2 DEF Chunk, StringIn, h
<1>4. h.arg \in Nat /\ h.next \in Nat /\ Len(b) \in Nat
  BY HeadHere DEF HeadOK
<1>5. Len(Top.part) \in Nat
  <2>1. Top \in Frames
    BY <1>1, InnermostFrame DEF IInv, Framed
  <2>2. Top.part \in Seq(Byte)
    BY <2>1 DEF Frames
  <2> QED BY <2>2
<1> HIDE DEF h
<1>6. Len(Top.part) + h.arg <= MaxStringBytes
  <2>1. Len(c) \in Nat
    OBVIOUS
  <2> QED BY <1>2, <1>4, <1>5, <2>1, LimitsAssumption
<1>7. ChunkError = "nil" /\ ~(Len(Top.part) + h.arg > MaxStringBytes)
  BY <1>3, <1>4, <1>5, <1>6, LimitsAssumption DEF ChunkError
<1> QED BY <1>1, <1>7 DEF TakeChunk

LEMMA CloseStringRefuses == ASSUME IInv, GInv, Waiting, CloseString, Promised PROVE pc' # "done"
<1>1. pc = "chunk" /\ AtBreak
  BY DEF CloseString, Inside
<1>2. ~InvalidText(Top.kind, Top.part)
  BY <1>1, ChunksPromised
<1> QED BY <1>2 DEF CloseString, Yield

-----------------------------------------------------------------------------
\* The innermost container of a promised item, if it is not at its end.
LEMMA RowPromised ==
  ASSUME IInv, GInv, Waiting, stack # <<>>, Promised,
         NEW at, Reads(op, b, stack, start, at),
         Top.kind \in {"array", "map"}, Expecting(b, Top, at[Len(stack) + 1]),
         NEW g, g = HeadAt(b, at[Len(stack)])
  PROVE  \E n \in Nat, end \in Offsets(b) :
           LongerRow(op, b, Top, g, at[Len(stack) + 1], n, end)
<1>1. PICK to : Derived(op, b, Item(start, to, MaxDepth))
  BY DEF Promised
<1>2. Hoped(op, b, stack, Len(stack) - 1, at[Len(stack)])
  BY <1>1, HopeInside
<1>3. /\ Top = stack[Len(stack)] /\ FrameReads(op, b, Top, at[Len(stack)], at[Len(stack) + 1])
      /\ Linked(op, stack, Len(stack)) /\ at[Len(stack)] \in 0 .. Len(b)
      /\ b \in Seq(Byte) /\ stack \in Seq(Frames)
  BY AtTop
<1>4. Len(stack) \in 1 .. Len(stack)
  BY InnermostFrame
<1> QED BY <1>2, <1>3, <1>4, HopedRow

\* Nothing is derived where the buffer ends.
LEMMA NothingAtEnd ==
  ASSUME NEW o, NEW s \in Seq(Byte), NEW j, j >= Len(s), NEW q, NEW n, NEW d, NEW map
  PROVE  ~Member(o, s, j, q, n, d, map)
<1>1. Derived(o, s, Item(j, q, d)) => j \in Offsets(s) /\ q \in Offsets(s) /\ j < q
  BY DerivedStated, StatedItem
<1>2. Derived(o, s, Key(j, q, d)) => j \in Offsets(s) /\ q \in Offsets(s) /\ j < q
  BY DerivedStated, StatedKey
<1>3. ~(j \in Offsets(s) /\ q \in Offsets(s) /\ j < q)
  BY DEF Offsets
<1> QED BY <1>1, <1>2, <1>3 DEF Member

LEMMA CutContainerRefuses == ASSUME IInv, GInv, Waiting, CutContainer PROVE ~Promised
<1> SUFFICES ASSUME Promised PROVE FALSE
  OBVIOUS
<1>1. pc = "loop" /\ Top.indef /\ ~MidPair(Top) /\ i >= Len(b)
  BY DEF CutContainer, Inside
<1>2. PICK at : /\ Reads(op, b, stack, start, at) /\ at[Len(stack) + 1] = i
                /\ Top.kind \in {"array", "map"}
  BY <1>1 DEF GInv, InProgress
<1>3. stack # <<>> /\ b \in Seq(Byte) /\ i \in Nat
  BY <1>1 DEF IInv, Framed, TypeOK
<1>4. ~BreakAt(b, i)
  BY <1>1, <1>3 DEF BreakAt
<1>5. Expecting(b, Top, at[Len(stack) + 1])
  BY <1>1, <1>2, <1>4 DEF Expecting
<1>6. \E n, end : LongerRow(op, b, Top, HeadAt(b, at[Len(stack)]), i, n, end)
  BY <1>2, <1>3, <1>5, RowPromised
<1>7. \E e, n, d, map : Member(op, b, i, e, n, d, map)
  BY <1>6 DEF LongerRow
<1> QED BY <1>1, <1>3, <1>7, NothingAtEnd

LEMMA ThroughTagRefuses == ASSUME IInv, GInv, Waiting, ThroughTag, Promised PROVE pc' # "done"
<1>1. pc = "return" /\ stack # <<>> /\ Top.kind \in {"tag", "keytag"}
  BY DEF ThroughTag, Inside
<1>2. CASE ~(Top.kind = "keytag" /\ ret.t # "text")
  BY <1>2 DEF ThroughTag, Yield
<1>3. CASE Top.kind = "keytag" /\ ret.t # "text"
  <2>1. PICK at : /\ Reads(op, b, stack, start, at)
                  /\ Returns(op, b, stack, at[Len(stack) + 1], i, ret)
    BY <1>1 DEF GInv, InProgress
  <2> DEFINE p == at[Len(stack)]
             g == HeadAt(b, p)
             d == DepthIn(stack, Len(stack) - 1)
  <2>2. /\ Top = stack[Len(stack)] /\ FrameReads(op, b, Top, p, at[Len(stack) + 1])
        /\ Linked(op, stack, Len(stack)) /\ b \in Seq(Byte)
    BY <1>1, <2>1, AtTop
  <2>3. KeyIn(op, stack, Len(stack) - 1) /\ ~KeyIn(op, stack, Len(stack)) /\ op = "json"
    BY <1>3, <2>2 DEF Linked, KeyIn, AtKey
  <2>4. g.mt = mtTag /\ at[Len(stack) + 1] = g.next
    BY <1>3, <2>2 DEF FrameReads, TagReads
  <2>5. \A e : ~Derived(op, b, Text(g.next, e))
    BY <1>3, <2>1, <2>3, <2>4 DEF Returns, ReadsText
  <2>6. Hoped(op, b, stack, Len(stack) - 1, p)
    BY <1>1, <2>1, HopeInside DEF Promised
  <2> HIDE DEF p, g, d
  <2>7. PICK e : Derived(op, b, Key(p, e, d))
    BY <2>3, <2>6 DEF Hoped, Called, d
  <2>8. WhyKey(op, b, p, e, d)
    BY <2>2, <2>7, Inversion
  <2>9. ~StringIn(b, g) /\ g.mt \notin {mtBytes, mtText}
    BY <2>4 DEF StringIn, mtTag, mtBytes, mtText
  <2> QED BY <2>3, <2>5, <2>8, <2>9 DEF WhyKey, g
<1> QED BY <1>2, <1>3

\* A cap refuses what the rules derive only for a map of DecodeJSON, which
\* then is a long one.
LEMMA IntoContainerRefuses ==
  ASSUME IInv, GInv, Waiting, IntoContainer, Promised
  PROVE  pc' # "done" \/ (op = "json" /\ err' = "ErrTooLarge" /\ Len(b) >= 2 * MaxMapPairs + 2)
<1>1. pc = "return" /\ stack # <<>> /\ Top.kind \in {"array", "map"}
  BY DEF IntoContainer, Inside
<1>2. CASE ~OverCap(Top)
  BY <1>2 DEF IntoContainer
<1>3. CASE OverCap(Top)
  <2>1. PICK at : /\ Reads(op, b, stack, start, at)
                  /\ Returns(op, b, stack, at[Len(stack) + 1], i, ret)
    BY <1>1 DEF GInv, InProgress
  <2> DEFINE g == HeadAt(b, at[Len(stack)])
             mid == at[Len(stack) + 1]
  <2>2. b \in Seq(Byte) /\ Len(b) \in Nat /\ Top.got \in Nat /\ Top.indef /\ Top = stack[Len(stack)]
        /\ Len(stack) \in 1 .. Len(stack) /\ at[Len(stack)] \in 0 .. Len(b)
    <3>1. Top \in Frames /\ b \in Seq(Byte)
      BY <1>1, <2>1, AtTop
    <3> QED BY <1>1, <1>3, <2>1, <3>1, AtTop, InnermostFrame DEF OverCap, Frames
  <2>3. /\ g.err = "nil" /\ g.indef = Top.indef
        /\ Top.kind = "map" <=> g.mt = mtMap
    BY <1>1, <2>1, ContainerAt
  <2>4. g.next \in Nat /\ g.next >= 1
    BY <2>2, <2>3, HeadInside DEF Offsets
  <2>5. ~BreakAt(b, mid)
    BY <2>1, <2>2, NothingAtBreak DEF Returns
  <2>6. Expecting(b, Top, mid)
    BY <2>2, <2>5 DEF Expecting
  <2>7. PICK n \in Nat, end \in Offsets(b) : LongerRow(op, b, Top, g, mid, n, end)
    BY <1>1, <2>1, <2>6, RowPromised
  <2> HIDE DEF g, mid
  <2>8. /\ Opens(op, b, g, n, end, Top.depth - 1) /\ Top.got < n /\ BreakAt(b, end)
    BY <2>2, <2>3, <2>7 DEF LongerRow
  <2>9. /\ (g.mt = mtMap => n % 2 = 0) /\ GoodCount(op, g.mt, g.indef, Pairs(g, n))
        /\ Derived(op, b, Row(g.next, end, n, Top.depth - 1, g.mt = mtMap))
    BY <2>8 DEF Opens
  <2>10. CASE Top.kind = "array" /\ op \in {"decode", "json"} /\ Top.got >= MaxArrayElements
    <3>1. g.mt # mtMap
      BY <2>3, <2>10
    <3>2. n <= MaxArrayElements
      BY <2>9, <2>10, <3>1 DEF GoodCount, Pairs
    <3> QED BY <2>2, <2>8, <2>10, <3>2, LimitsAssumption
  <2>11. CASE MidPair(Top) /\ op = "decode" /\ Top.got \div 2 >= MaxMapPairs
    <3>1. g.mt = mtMap /\ Top.got % 2 = 1
      BY <2>3, <2>11 DEF MidPair
    <3>2. n \div 2 <= MaxMapPairs /\ n % 2 = 0
      BY <2>9, <2>11, <3>1 DEF GoodCount, Pairs
    <3> DEFINE k == Top.got
    <3>3. k \in Nat /\ k < n /\ k % 2 = 1 /\ k \div 2 >= MaxMapPairs
      BY <2>2, <2>8, <2>11, <3>1
    <3> HIDE DEF k
    <3> QED BY <3>2, <3>3, LimitsAssumption
  <2>12. CASE MidPair(Top) /\ op = "json" /\ Cardinality(Top.keys) >= MaxMapPairs
    <3>1. FewKeys(Top)
      BY <2>2 DEF Waiting
    <3>2. g.next + n <= end
      BY <2>2, <2>9, DerivedStated, StatedRow
    <3>3. end + 1 <= Len(b) /\ end \in Nat
      BY <2>2, <2>8 DEF BreakAt
    <3>4. 2 * MaxMapPairs <= Top.got + 1
      <4> DEFINE c == Cardinality(Top.keys)
                 k == Top.got
      <4>1. c \in Nat /\ 2 * c <= k + 1 /\ c >= MaxMapPairs /\ k \in Nat
        BY <2>2, <2>12, <3>1, FS_CardinalityType DEF FewKeys
      <4> HIDE DEF c, k
      <4>2. 2 * MaxMapPairs <= k + 1
        BY <4>1, LimitsAssumption
      <4> QED BY <4>2 DEF k
    <3>5. Len(b) >= 2 * MaxMapPairs + 2
      BY <2>2, <2>4, <2>8, <3>2, <3>3, <3>4, LimitsAssumption
    <3>6. err' = "ErrTooLarge"
      BY <1>3 DEF IntoContainer, Fail
    <3> QED BY <2>12, <3>5, <3>6
  <2> QED BY <1>3, <2>10, <2>11, <2>12 DEF OverCap
<1> QED BY <1>2, <1>3

-----------------------------------------------------------------------------
\* A method that fails does not stand at an item that the rules derive, unless
\* its budget is spent, or a cap of DecodeJSON cut short a map of at least as
\* many pairs.
RefusesDerived ==
  pc = "done" /\ err # "nil" /\ items <= MaxTotalItems =>
    \/ \A to : ~Derived(op, b, Item(start, to, MaxDepth))
    \/ op = "json" /\ err = "ErrTooLarge" /\ Len(b) >= 2 * MaxMapPairs + 2

LEMMA GoesOnRefuses == ASSUME pc' # "done" \/ err' = "nil" PROVE RefusesDerived'
BY DEF RefusesDerived

LEMMA FailRefuses == ASSUME UNCHANGED <<b, op, start>>, ~Promised PROVE RefusesDerived'
BY DEF RefusesDerived, Promised

LEMMA NextRefuses ==
  IInv /\ GInv /\ Waiting /\ RefusesDerived /\ [Next]_vars => RefusesDerived'
<1> SUFFICES ASSUME IInv, GInv, Waiting, RefusesDerived, [Next]_vars PROVE RefusesDerived'
  OBVIOUS
<1>1. CASE TooDeep \/ BadHead \/ KeyNotString \/ BadChunk \/ CutContainer
  <2>1. UNCHANGED <<b, op, start>>
    BY <1>1 DEF TooDeep, BadHead, KeyNotString, BadChunk, CutContainer, Counted, Admitted, Inside
  <2>2. ~Promised
    BY <1>1, TooDeepRefuses, BadHeadRefuses, KeyNotStringRefuses, BadChunkRefuses,
       CutContainerRefuses
  <2> QED BY <2>1, <2>2, FailRefuses
<1>2. CASE OverBudget
  <2>1. items' = items + 1 /\ items >= MaxTotalItems /\ items \in Nat
    BY <1>2 DEF OverBudget, Counted, IInv, TypeOK
  <2>2. ~(items' <= MaxTotalItems)
    BY <2>1, LimitsAssumption
  <2> QED BY <2>2 DEF RefusesDerived
<1>3. CASE Integer \/ Simple \/ DefiniteString \/ OpenString \/ OpenContainer \/ OpenTag
  <2>1. UNCHANGED <<b, op, start>>
    BY <1>3 DEF Integer, Simple, DefiniteString, OpenString, OpenContainer, OpenTag, Admitted, Counted
  <2>2. Promised => pc' # "done"
    BY <1>3, IntegerRefuses, SimpleRefuses, DefiniteStringRefuses, OpenStringRefuses,
       OpenContainerRefuses, OpenTagRefuses
  <2> QED BY <2>1, <2>2, FailRefuses, GoesOnRefuses
<1>4. CASE TakeChunk \/ CloseString \/ ThroughTag
  <2>1. UNCHANGED <<b, op, start>>
    BY <1>4 DEF TakeChunk, CloseString, ThroughTag, Inside
  <2>2. Promised => pc' # "done"
    BY <1>4, TakeChunkRefuses, CloseStringRefuses, ThroughTagRefuses
  <2> QED BY <2>1, <2>2, FailRefuses, GoesOnRefuses
<1>5. CASE IntoContainer
  <2>1. UNCHANGED <<b, op, start>>
    BY <1>5 DEF IntoContainer, Inside
  <2>2. Promised => \/ pc' # "done"
                    \/ op = "json" /\ err' = "ErrTooLarge" /\ Len(b) >= 2 * MaxMapPairs + 2
    BY <1>5, IntoContainerRefuses
  <2>3. CASE op = "json" /\ err' = "ErrTooLarge" /\ Len(b) >= 2 * MaxMapPairs + 2
    BY <2>1, <2>3 DEF RefusesDerived
  <2> QED BY <2>1, <2>2, <2>3, FailRefuses, GoesOnRefuses
<1>6. CASE CloseContainer \/ NextItem \/ Finish \/ Again
  <2>1. pc' # "done" \/ err' = "nil"
    BY <1>6 DEF CloseContainer, NextItem, Finish, Again, Yield
  <2> QED BY <2>1, GoesOnRefuses
<1>7. CASE UNCHANGED vars
  BY <1>7 DEF vars, RefusesDerived
<1> QED BY <1>1, <1>2, <1>3, <1>4, <1>5, <1>6, <1>7 DEF Next, Step

\* Whatever the bytes and the limits, a method that fails had no item of its
\* grammar to step over: none of the refusals of decoder.go, skip.go and
\* json.go, at whatever depth of their calls, is of bytes that the rules
\* derive, but for the budget of items and the cap on the keys of a JSON map.
THEOREM WalkComplete == Spec => []RefusesDerived
<1>1. Init => IInv /\ GInv /\ Waiting /\ RefusesDerived
  BY InitEstablishes, InitReads, InitWaits DEF Init, RefusesDerived
<1>2. (IInv /\ GInv /\ Waiting /\ RefusesDerived) /\ [Next]_vars =>
        (IInv /\ GInv /\ Waiting /\ RefusesDerived)'
  BY NextKeeps, NextReads, NextWaits, NextRefuses
<1> QED BY <1>1, <1>2, PTL DEF Spec
=============================================================================
