----------------------------- MODULE RawProofs ------------------------------
(***************************************************************************)
(* RawArray among the other methods keeps everything a Decoder promises,   *)
(* and its messages tile the array.  The walk's own steps are taken from   *)
(* WalkProofs; what is added is where the cursor and the last message      *)
(* stand while no walk is running (Between, Behind).  The messages are     *)
(* items of the grammar (RawReads), since GrammarProofs shows it of every  *)
(* walk that ends well.                                                    *)
(***************************************************************************)
EXTENDS Raw, GrammarProofs

\* RawArray has control only between walks.
Between ==
  /\ array.state \in {"on", "failed"} => pc = "done"
  /\ array.state = "on" => err = "nil"

\* No message reaches into the item being read.
Behind ==
  \A k \in 1 .. Len(raws) :
    raws[k].to <= (IF array.state \in {"on", "failed"} THEN i ELSE start)

Tiled ==
  /\ \A k \in 1 .. Len(raws) : raws[k].from <= raws[k].to
  /\ \A k \in 1 .. Len(raws) - 1 : raws[k].to = raws[k + 1].from
  /\ array.state \in {"on", "framing", "closed"} /\ raws # <<>> => raws[1].from = array.body

\* The cursor follows the last message.
Followed ==
  /\ array.state = "on" => i = MessagesEnd
  /\ array.state = "framing" => start = MessagesEnd
  /\ array.state = "closed" /\ pc = "done" =>
       i = MessagesEnd + (IF array.indef THEN 1 ELSE 0)
  /\ array.state = "closed" => pc = "done"

RawInv ==
  /\ IInv
  /\ RawTypeOK
  /\ Between
  /\ Behind
  /\ Tiled
  /\ Followed

-----------------------------------------------------------------------------
\* A step of a walk belongs to one call: it is not over, and its buffer,
\* method and start stay what they are.
LEMMA StepInside == ASSUME Step PROVE pc # "done" /\ UNCHANGED <<b, op, start>>
<1>1. CASE TooDeep \/ OverBudget \/ BadHead
  BY <1>1 DEF TooDeep, OverBudget, BadHead, Counted
<1>2. CASE KeyNotString \/ Integer \/ Simple
  BY <1>2 DEF KeyNotString, Integer, Simple, Admitted, Counted
<1>3. CASE DefiniteString \/ OpenString \/ OpenContainer \/ OpenTag
  BY <1>3 DEF DefiniteString, OpenString, OpenContainer, OpenTag, Admitted, Counted
<1>4. CASE BadChunk \/ TakeChunk \/ CloseString
  BY <1>4 DEF BadChunk, TakeChunk, CloseString, Inside
<1>5. CASE CutContainer \/ CloseContainer \/ NextItem
  BY <1>5 DEF CutContainer, CloseContainer, NextItem, Inside
<1>6. CASE ThroughTag \/ IntoContainer \/ Finish
  BY <1>6 DEF ThroughTag, IntoContainer, Finish, Inside
<1> QED BY <1>1, <1>2, <1>3, <1>4, <1>5, <1>6 DEF Step

LEMMA WalkStepKeeps == ASSUME RawInv, WalkStep PROVE RawInv'
<1>1. Step /\ pc # "done" /\ UNCHANGED <<b, op, start, array, raws>>
  BY StepInside DEF WalkStep, rawVars
<1>2. IInv'
  BY <1>1, NextKeeps DEF RawInv, Next
<1>3. array.state \notin {"on", "failed", "closed"}
  BY <1>1 DEF RawInv, Between, Followed
<1>4. RawTypeOK' /\ Between' /\ Behind'
  BY <1>1, <1>3 DEF RawInv, RawTypeOK, Between, Behind
<1>5. Tiled' /\ Followed'
  BY <1>1, <1>3 DEF RawInv, Tiled, Followed, MessagesEnd
<1> QED BY <1>2, <1>4, <1>5 DEF RawInv

\* Between two walks the decoder's own invariant follows from where the cursor
\* is put, as long as it is put no further back and inside the buffer.
LEMMA MovedKeeps ==
  ASSUME IInv, pc = "done", err = "nil", stack = <<>>,
         UNCHANGED <<b, items, stack, ret, err>>,
         op' \in Ops, pc' \in {"call", "done"},
         NEW j \in Nat, i' = j, NEW k \in Nat, start' = k,
         i <= j, j <= Len(b), k <= j
  PROVE  IInv'
<1> USE LimitsAssumption
<1>1. b' = b /\ items' = items /\ stack' = stack /\ ret' = ret /\ err' = err
  OBVIOUS
<1>2. TypeOK /\ i \in Nat /\ items \in Nat /\ items <= i /\ items <= MaxTotalItems /\ Len(stack) = 0
  BY DEF IInv, TypeOK, BudgetKept
<1>3. TypeOK'
  BY <1>1, <1>2 DEF TypeOK
<1>4. CursorInBounds' /\ BudgetKept'
  BY <1>1, <1>2 DEF CursorInBounds, BudgetKept
<1>5. PresizeBounded' /\ Deep' /\ Paid'
  BY <1>1, <1>2 DEF PresizeBounded, Deep, Paid
<1>6. Framed'
  BY <1>1 DEF Framed
<1> QED BY <1>3, <1>4, <1>5, <1>6 DEF IInv

\* While no walk runs, none is open.
LEMMA AtRest ==
  ASSUME RawInv, pc = "done"
  PROVE  /\ stack = <<>> /\ i \in Nat /\ start \in Nat /\ Len(b) \in Nat
         /\ start <= i /\ i <= Len(b) /\ op \in Ops /\ IInv
BY DEF RawInv, IInv, Framed, TypeOK, CursorInBounds

\* A message is appended behind the last.
LEMMA LastMessage ==
  ASSUME RawTypeOK
  PROVE  /\ Len(raws) \in Nat
         /\ raws # <<>> => Len(raws) \in 1 .. Len(raws)
         /\ raws = <<>> => Len(raws) = 0
         /\ \A k \in 1 .. Len(raws) : raws[k].from \in Nat /\ raws[k].to \in Nat
         /\ array.body \in Nat /\ array.from \in Nat /\ array.indef \in BOOLEAN
<1>1. raws \in Seq(Spans) /\ array \in Arrays
  BY DEF RawTypeOK
<1>2. Len(raws) \in Nat /\ \A k \in 1 .. Len(raws) : raws[k] \in Spans
  BY <1>1
<1> QED BY <1>1, <1>2 DEF Spans, Arrays

LEMMA RawStartKeeps == ASSUME RawInv, RawStart PROVE RawInv'
<1>1. pc = "done" /\ err = "nil" /\ array.state \in {"off", "closed"}
  BY DEF RawStart, Idle
<1>2. /\ i' = h.next /\ start' = h.next
      /\ UNCHANGED <<b, items, op, pc, stack, ret, err>>
      /\ raws' = raws \/ raws' = <<>>
      /\ array'.state = "on" => raws' = <<>>
      /\ array'.state \in {"on", "failed"} /\ array'.body = h.next
  BY DEF RawStart, Array, ArrayError
<1>3. h.next \in Nat /\ i <= h.next /\ h.next <= Len(b) /\ h.indef \in BOOLEAN /\ h.arg \in Nat
  BY <1>1, AtRest, HeadHere DEF HeadOK
<1>4. IInv'
  BY <1>1, <1>2, <1>3, AtRest, MovedKeeps
<1>5. RawTypeOK'
  BY <1>1, <1>2, <1>3, AtRest DEF RawStart, RawInv, RawTypeOK, Arrays, Array
<1>6. Between'
  BY <1>1, <1>2 DEF Between
<1>7. \A k \in 1 .. Len(raws) : raws[k].to <= i'
  BY <1>1, <1>2, <1>3, AtRest, LastMessage DEF RawInv, Behind
<1>8. Behind'
  BY <1>2, <1>7 DEF Behind
<1>9. Tiled'
  BY <1>2 DEF RawInv, Tiled
<1>10. Followed'
  BY <1>2 DEF Followed, MessagesEnd
<1> QED BY <1>4, <1>5, <1>6, <1>8, <1>9, <1>10 DEF RawInv

LEMMA RawMoreKeeps == ASSUME RawInv, RawMore PROVE RawInv'
<1>1. array.state = "on" /\ pc = "done" /\ err = "nil"
  BY DEF RawMore, In, RawInv, Between
<1>2. /\ op' = "skip" /\ start' = i /\ pc' = "call" /\ i' = i
      /\ UNCHANGED <<b, items, ret, stack, err, raws>>
      /\ array' = [array EXCEPT !.state = "framing"]
  BY DEF RawMore, In
<1>3. IInv'
  BY <1>1, <1>2, AtRest, MovedKeeps, RawAssumption
<1>4. RawTypeOK' /\ array'.state = "framing" /\ array'.body = array.body
  BY <1>2 DEF RawInv, RawTypeOK, Arrays
<1>5. Between' /\ Behind'
  BY <1>1, <1>2, <1>4 DEF RawInv, Between, Behind
<1>6. Tiled' /\ Followed'
  BY <1>1, <1>2, <1>4 DEF RawInv, Tiled, Followed, MessagesEnd
<1> QED BY <1>3, <1>4, <1>5, <1>6 DEF RawInv

LEMMA RawAppendKeeps == ASSUME RawInv, RawAppend PROVE RawInv'
<1>1. /\ array.state = "framing" /\ pc = "done"
      /\ UNCHANGED <<b, items, ret, stack, i, op, start, pc, err>>
  BY DEF RawAppend, In
<1>2. IInv'
  BY <1>1, StutterKeeps DEF RawInv, vars
<1>3. CASE /\ err = "nil"
           /\ raws' = Append(raws, Message)
           /\ array' = [array EXCEPT !.state = "on"]
  <2>1. Message \in Spans /\ Message.from = start /\ Message.to = i /\ start <= i
    BY <1>1, AtRest DEF Message, Spans
  <2>2. RawTypeOK' /\ array'.state = "on" /\ array'.body = array.body
    BY <1>3, <2>1 DEF RawInv, RawTypeOK, Arrays
  <2>3. /\ Len(raws) \in Nat /\ Len(raws') = Len(raws) + 1 /\ raws' # <<>>
        /\ \A k \in 1 .. Len(raws) + 1 :
             raws'[k] = IF k = Len(raws) + 1 THEN Message ELSE raws[k]
    BY <1>3, <2>1, Appended DEF RawInv, RawTypeOK
  <2>4. \A k \in 1 .. Len(raws) : raws[k].to <= start
    BY <1>1 DEF RawInv, Behind
  <2>5. Behind'
    <3> SUFFICES ASSUME NEW k \in 1 .. Len(raws) + 1 PROVE raws'[k].to <= i
      BY <1>1, <2>2, <2>3 DEF Behind
    <3>1. CASE k = Len(raws) + 1
      BY <1>1, <2>1, <2>3, <3>1, AtRest
    <3>2. CASE k # Len(raws) + 1
      BY <1>1, <2>1, <2>3, <2>4, <3>2, AtRest, LastMessage DEF RawInv
    <3> QED BY <3>1, <3>2
  <2>6. start = MessagesEnd
    BY <1>1 DEF RawInv, Followed
  <2>7. Tiled'
    <3>1. \A k \in 1 .. Len(raws) + 1 : raws'[k].from <= raws'[k].to
      BY <2>1, <2>3 DEF RawInv, Tiled
    <3>2. \A k \in 1 .. Len(raws) : raws'[k].to = raws'[k + 1].from
      <4> SUFFICES ASSUME NEW k \in 1 .. Len(raws) PROVE raws'[k].to = raws'[k + 1].from
        OBVIOUS
      <4>1. CASE k = Len(raws)
        BY <2>1, <2>3, <2>6, <4>1 DEF MessagesEnd
      <4>2. CASE k # Len(raws)
        <5>1. k \in 1 .. Len(raws) - 1 /\ k + 1 # Len(raws) + 1 /\ k + 1 \in 1 .. Len(raws) + 1
          BY <2>3, <4>2
        <5>2. raws'[k] = raws[k] /\ raws'[k + 1] = raws[k + 1]
          BY <2>3, <5>1
        <5> QED BY <5>1, <5>2 DEF RawInv, Tiled
      <4> QED BY <4>1, <4>2
    <3>3. raws'[1].from = array.body
      <4>1. CASE raws = <<>>
        BY <2>1, <2>3, <2>6, <4>1 DEF MessagesEnd
      <4>2. CASE raws # <<>>
        <5>1. 1 \in 1 .. Len(raws) + 1 /\ 1 # Len(raws) + 1
          BY <2>3, <4>2, LastMessage DEF RawInv
        <5> QED BY <1>1, <2>3, <4>2, <5>1 DEF RawInv, Tiled
      <4> QED BY <4>1, <4>2
    <3> QED BY <2>2, <2>3, <3>1, <3>2, <3>3 DEF Tiled
  <2>8. Followed'
    <3>1. Len(raws) + 1 \in 1 .. Len(raws) + 1
      BY <2>3
    <3>2. MessagesEnd' = i
      BY <2>1, <2>3, <3>1 DEF MessagesEnd
    <3> QED BY <1>1, <2>2, <3>2 DEF Followed
  <2>9. Between'
    BY <1>1, <1>3 DEF Between
  <2> QED BY <1>2, <2>2, <2>5, <2>7, <2>8, <2>9 DEF RawInv
<1>4. CASE array' = [array EXCEPT !.state = "failed"] /\ UNCHANGED raws
  <2>1. RawTypeOK' /\ array'.state = "failed"
    BY <1>4 DEF RawInv, RawTypeOK, Arrays
  <2>2. Behind'
    BY <1>1, <1>4, <2>1, AtRest, LastMessage DEF RawInv, Behind
  <2>3. Between' /\ Tiled' /\ Followed'
    BY <1>1, <1>4, <2>1 DEF RawInv, Between, Tiled, Followed, MessagesEnd
  <2> QED BY <1>2, <2>1, <2>2, <2>3 DEF RawInv
<1> QED BY <1>3, <1>4 DEF RawAppend

LEMMA RawCutKeeps == ASSUME RawInv, RawCut PROVE RawInv'
<1>1. /\ array.state = "on" /\ pc = "done"
      /\ UNCHANGED <<b, items, ret, stack, i, op, start, pc, err, raws>>
      /\ array' = [array EXCEPT !.state = "failed"]
  BY DEF RawCut, In, RawInv, Between
<1>2. IInv'
  BY <1>1, StutterKeeps DEF RawInv, vars
<1>3. RawTypeOK' /\ array'.state = "failed"
  BY <1>1 DEF RawInv, RawTypeOK, Arrays
<1>4. Between' /\ Behind' /\ Tiled' /\ Followed'
  BY <1>1, <1>3 DEF RawInv, Between, Behind, Tiled, Followed, MessagesEnd
<1> QED BY <1>2, <1>3, <1>4 DEF RawInv

LEMMA RawCloseKeeps == ASSUME RawInv, RawClose PROVE RawInv'
<1>1. /\ array.state = "on" /\ pc = "done" /\ err = "nil"
      /\ UNCHANGED <<b, items, ret, stack, op, pc, err, raws>>
      /\ start' = i'
      /\ array' = [array EXCEPT !.state = "closed"]
  BY DEF RawClose, In, RawInv, Between
<1>2. i' = i + (IF array.indef THEN 1 ELSE 0) /\ (array.indef => i < Len(b))
  BY <1>1, AtRest DEF RawClose, AtBreak
<1>3. i' \in Nat /\ i <= i' /\ i' <= Len(b)
  BY <1>1, <1>2, AtRest
<1>4. IInv'
  BY <1>1, <1>3, AtRest, MovedKeeps
<1>5. RawTypeOK' /\ array'.state = "closed" /\ array'.body = array.body
      /\ array'.indef = array.indef
  BY <1>1 DEF RawInv, RawTypeOK, Arrays
<1>6. Behind'
  BY <1>1, <1>3, <1>5, AtRest, LastMessage DEF RawInv, Behind
<1>7. Between' /\ Tiled' /\ Followed'
  BY <1>1, <1>2, <1>5 DEF RawInv, Between, Tiled, Followed, MessagesEnd
<1> QED BY <1>4, <1>5, <1>6, <1>7 DEF RawInv

LEMMA OtherMethodKeeps == ASSUME RawInv, OtherMethod PROVE RawInv'
<1>1. /\ pc = "done" /\ array.state \in {"off", "closed"} /\ pc' = "call"
      /\ start' = i /\ array' = Off /\ raws' = raws /\ i' = i
  BY DEF OtherMethod, Idle, Again
<1>2. IInv'
  BY AgainKeeps DEF OtherMethod, RawInv
<1>3. RawTypeOK' /\ array'.state = "off"
  BY <1>1 DEF RawInv, RawTypeOK, Arrays, Off, Array
<1>4. Behind'
  BY <1>1, <1>3, AtRest, LastMessage DEF RawInv, Behind
<1>5. Between' /\ Tiled' /\ Followed'
  BY <1>1, <1>3 DEF RawInv, Between, Tiled, Followed, MessagesEnd
<1> QED BY <1>2, <1>3, <1>4, <1>5 DEF RawInv

LEMMA RawStutterKeeps == ASSUME RawInv, UNCHANGED allVars PROVE RawInv'
<1>1. UNCHANGED vars /\ UNCHANGED <<array, raws, i, start, pc, err>>
  BY DEF allVars, vars
<1>2. IInv'
  BY <1>1, StutterKeeps DEF RawInv
<1>3. RawTypeOK' /\ Between' /\ Behind' /\ Tiled' /\ Followed'
  BY <1>1 DEF RawInv, RawTypeOK, Between, Behind, Tiled, Followed, MessagesEnd
<1> QED BY <1>2, <1>3 DEF RawInv

-----------------------------------------------------------------------------
LEMMA RawInitEstablishes == RawInit => RawInv
<1> SUFFICES ASSUME RawInit PROVE RawInv
  OBVIOUS
<1> USE LimitsAssumption, InputsAssumption, OpsAssumption
<1>1. /\ b \in Seq(Byte) /\ Len(b) \in Nat /\ i = 0 /\ items = 0 /\ op \in Ops
      /\ start = 0 /\ pc = "done" /\ stack = <<>> /\ ret = NoString /\ err = "nil"
      /\ array = Off /\ raws = <<>>
  BY DEF RawInit
<1>2. TypeOK
  BY <1>1, NoStringType DEF TypeOK, Verdicts
<1>3. CursorInBounds /\ BudgetKept /\ PresizeBounded /\ Deep /\ Paid /\ Framed
  BY <1>1 DEF CursorInBounds, BudgetKept, PresizeBounded, Deep, Paid, Framed
<1>4. RawTypeOK /\ array.state = "off" /\ Len(raws) = 0
  BY <1>1 DEF RawTypeOK, Arrays, Off, Array
<1>5. Between /\ Behind /\ Tiled /\ Followed
  BY <1>1, <1>4 DEF Between, Behind, Tiled, Followed
<1> QED BY <1>2, <1>3, <1>4, <1>5 DEF RawInv, IInv

LEMMA RawNextKeeps == RawInv /\ [RawNext]_allVars => RawInv'
BY WalkStepKeeps, RawMoreKeeps, RawAppendKeeps, RawCutKeeps, RawCloseKeeps, RawStartKeeps,
   OtherMethodKeeps, RawStutterKeeps
   DEF RawNext, RawWork

\* The messages are the elements, in order and without gaps.
LEMMA TiledMessages == RawInv => MessagesTile
<1> SUFFICES ASSUME RawInv PROVE MessagesTile
  OBVIOUS
<1>1. i \in Nat /\ start \in Nat /\ start <= i
  BY DEF RawInv, IInv, TypeOK, CursorInBounds
<1>2. \A k \in 1 .. Len(raws) : raws[k].from <= raws[k].to /\ raws[k].to <= i
  BY <1>1, LastMessage DEF RawInv, Behind, Tiled
<1> QED BY <1>2 DEF RawInv, Tiled, Followed, MessagesTile

\* The invariant holds of every run of a Decoder with all of its methods.
THEOREM RawInvariance == RawSpec => []RawInv
<1> QED BY RawInitEstablishes, RawNextKeeps, PTL DEF RawSpec

\* RawArray or not, the state a Decoder keeps is of its type, the cursor stays
\* in the buffer, and the budget, the depth and every reservation are kept.
THEOREM RawDecoderSafe ==
  RawSpec => [](TypeOK /\ CursorInBounds /\ BudgetKept /\ RecursionBounded /\ PresizeBounded)
<1>1. RawInv => TypeOK /\ CursorInBounds /\ BudgetKept /\ RecursionBounded /\ PresizeBounded
  BY DeepBounds DEF RawInv, IInv
<1> QED BY <1>1, RawInvariance, PTL

\* For every buffer and every sequence of calls, the messages of RawArray tile
\* the array: no byte of it is lost between two, none is in two of them.
THEOREM MessagesSafe == RawSpec => []MessagesTile
<1> QED BY TiledMessages, RawInvariance, PTL

\* With RawArray among the methods, every walk still gets nearer its end at each
\* step: the loop of RawArray has control only between two walks.
THEOREM RawProgress == RawSpec => Progress
<1>1. RawInv /\ RawInv' /\ [RawNext]_allVars => [pc # "done" => Work' \in 0 .. Work - 1]_vars
  <2> SUFFICES ASSUME RawInv, RawInv', [RawNext]_allVars, pc # "done", ~ UNCHANGED vars
               PROVE  Work' \in 0 .. Work - 1
    OBVIOUS
  <2>1. RawNext
    BY DEF allVars, vars
  <2>2. ~RawStart /\ ~OtherMethod
    BY DEF RawStart, OtherMethod, Idle
  <2>3. ~RawMore /\ ~RawAppend /\ ~RawCut /\ ~RawClose
    BY DEF RawMore, RawAppend, RawCut, RawClose, In, RawInv, Between
  <2>4. Step
    BY <2>1, <2>2, <2>3 DEF RawNext, RawWork, WalkStep
  <2> QED BY <2>4, StepShrinks DEF RawInv
<1> QED BY <1>1, RawInvariance, PTL DEF RawSpec, Progress

-----------------------------------------------------------------------------
(***************************************************************************)
(* What RawArray frames: a row of items of the framing walk behind the     *)
(* head of an array, of the length it declares or up to its break.         *)
(***************************************************************************)
FramesItems ==
  \A k \in 1 .. Len(raws) : Derived("skip", b, Item(raws[k].from, raws[k].to, MaxDepth))

\* What the head at array.from said.
HeadKept ==
  LET g == HeadAt(b, array.from)
  IN  /\ g.err = "nil" /\ g.mt = mtArray
      /\ array = Array(array.state, array.from, g.next, g.indef, g.arg)
      /\ ~g.indef => g.arg <= MaxArrayElements

FramesRow ==
  Derived("skip", b, Row(array.body, MessagesEnd, Len(raws), MaxDepth, FALSE))

\* A closed array has been framed from its head to its end: as many items as it
\* declares, or all of them up to its break.
ClosesArray ==
  array.state = "closed" =>
    /\ HeadKept
    /\ FramesRow
    /\ IF array.indef THEN BreakAt(b, MessagesEnd) /\ i = MessagesEnd + 1
                      ELSE Len(raws) = array.want /\ i = MessagesEnd

\* The walk that frames an element is a plain skip of it.
Framing ==
  /\ pc # "done" => GInv
  /\ array.state = "framing" => op = "skip" /\ AcceptsDerived

RawReads ==
  /\ Framing
  /\ FramesItems
  /\ array.state \in {"on", "framing"} => HeadKept /\ FramesRow
  /\ ClosesArray

\* What has been framed is of the buffer, and stays.
LEMMA FramedStays ==
  ASSUME RawReads, UNCHANGED <<b, raws>>, NEW state, array' = [array EXCEPT !.state = state],
         array \in Arrays, array.state \in {"on", "framing"}
  PROVE  FramesItems' /\ HeadKept' /\ FramesRow'
<1>1. /\ array'.from = array.from /\ array'.body = array.body
      /\ array'.indef = array.indef /\ array'.want = array.want /\ array'.state = state
      /\ array' = Array(state, array.from, array.body, array.indef, array.want)
  BY DEF Arrays, Array
<1>2. HeadKept /\ FramesRow /\ FramesItems
  BY DEF RawReads
<1>3. FramesItems'
  BY <1>2 DEF FramesItems
<1>4. FramesRow'
  BY <1>1, <1>2 DEF FramesRow, MessagesEnd
<1>5. array = Array(array.state, array.from, HeadAt(b, array.from).next,
                    HeadAt(b, array.from).indef, HeadAt(b, array.from).arg)
  BY <1>2 DEF HeadKept
<1>6. /\ array.body = HeadAt(b, array.from).next /\ array.indef = HeadAt(b, array.from).indef
      /\ array.want = HeadAt(b, array.from).arg
  BY <1>5 DEF Array
<1>7. HeadKept'
  BY <1>1, <1>2, <1>6 DEF HeadKept
<1> QED BY <1>3, <1>4, <1>7

LEMMA WalkStepReads == ASSUME RawInv, RawReads, WalkStep PROVE RawReads'
<1>1. Step /\ pc # "done" /\ UNCHANGED <<b, op, start, array, raws>>
  BY StepInside DEF WalkStep, rawVars
<1>2. GInv'
  BY <1>1, NextReads DEF RawInv, RawReads, Framing, Next
<1>3. Framing'
  BY <1>1, <1>2 DEF RawReads, Framing, GInv
<1>4. array.state # "closed"
  BY <1>1 DEF RawInv, Followed
<1>5. FramesItems' /\ (array.state \in {"on", "framing"} => HeadKept' /\ FramesRow')
  BY <1>1 DEF RawReads, FramesItems, HeadKept, FramesRow, MessagesEnd
<1>6. ClosesArray'
  BY <1>1, <1>4 DEF ClosesArray
<1> QED BY <1>1, <1>3, <1>5, <1>6 DEF RawReads

LEMMA RawStartReads == ASSUME RawInv, RawReads, RawStart PROVE RawReads'
<1>1. pc = "done" /\ pc' = "done" /\ b' = b /\ raws' \in {raws, <<>>}
  BY DEF RawStart, Idle
<1>2. /\ array' = Array(IF ArrayError = "nil" THEN "on" ELSE "failed", i, h.next, h.indef, h.arg)
      /\ raws' = IF h.err = "nil" /\ h.mt = mtArray THEN <<>> ELSE raws
  BY DEF RawStart
<1>3. /\ array'.state = (IF ArrayError = "nil" THEN "on" ELSE "failed")
      /\ array'.from = i /\ array'.body = h.next
  BY <1>2 DEF Array
<1>4. FramesItems'
  BY <1>1 DEF RawReads, FramesItems
<1>5. ASSUME array'.state = "on" PROVE HeadKept' /\ FramesRow'
  <2>1. h.err = "nil" /\ h.mt = mtArray /\ ~(~h.indef /\ h.arg > MaxArrayElements)
    BY <1>3, <1>5 DEF ArrayError
  <2>2. h.next \in 0 .. Len(b) /\ h.arg \in Nat
    BY <1>1, AtRest, HeadHere DEF HeadOK
  <2>3. ~h.indef => h.arg <= MaxArrayElements
    BY <2>1, <2>2, LimitsAssumption
  <2>4. HeadKept'
    BY <1>1, <1>2, <1>3, <1>5, <2>1, <2>3 DEF HeadKept, h
  <2>5. MaxDepth \in {-1} \cup Levels
    BY LimitsAssumption DEF Levels
  <2>6. Derived("skip", b, Row(h.next, h.next, 0, MaxDepth, FALSE))
    BY <2>2, <2>5, EmptyDerived
  <2>7. raws' = <<>> /\ Len(raws') = 0
    BY <1>2, <2>1
  <2> QED BY <1>1, <1>3, <2>4, <2>6, <2>7 DEF FramesRow, MessagesEnd
<1>6. Framing' /\ ClosesArray'
  BY <1>1, <1>3 DEF Framing, ClosesArray
<1> QED BY <1>3, <1>4, <1>5, <1>6 DEF RawReads

LEMMA RawMoreReads == ASSUME RawInv, RawReads, RawMore PROVE RawReads'
<1>1. array.state = "on" /\ pc = "done" /\ array \in Arrays /\ IInv
  BY DEF RawMore, In, RawInv, Between, RawTypeOK
<1>2. /\ op' = "skip" /\ start' = i /\ pc' = "call"
      /\ UNCHANGED <<b, i, stack, raws>>
      /\ array' = [array EXCEPT !.state = "framing"]
  BY DEF RawMore, In
<1>3. array'.state = "framing"
  BY <1>1, <1>2 DEF Arrays
<1>4. FramesItems' /\ HeadKept' /\ FramesRow'
  BY <1>1, <1>2, FramedStays
<1>5. Framing'
  BY <1>1, <1>2, CallHolds DEF Framing, GInv
<1> QED BY <1>3, <1>4, <1>5 DEF RawReads, ClosesArray

LEMMA RawAppendReads == ASSUME RawInv, RawReads, RawAppend PROVE RawReads'
<1>1. /\ array.state = "framing" /\ pc = "done" /\ array \in Arrays
      /\ UNCHANGED <<b, i, op, start, pc, err>>
  BY DEF RawAppend, In, RawInv, RawTypeOK
<1>2. CASE /\ err = "nil"
           /\ raws' = Append(raws, Message)
           /\ array' = [array EXCEPT !.state = "on"]
  <2>1. /\ array'.state = "on" /\ array'.from = array.from /\ array'.body = array.body
        /\ array' = Array("on", array.from, array.body, array.indef, array.want)
    BY <1>1, <1>2 DEF Arrays, Array
  <2>2. /\ Message \in Spans /\ Message.from = start /\ Message.to = i
        /\ i \in 0 .. Len(b)
    BY <1>1, AtRest DEF Message, Spans
  <2>3. /\ Len(raws) \in Nat /\ Len(raws') = Len(raws) + 1 /\ raws' # <<>>
        /\ \A k \in 1 .. Len(raws) + 1 :
             raws'[k] = IF k = Len(raws) + 1 THEN Message ELSE raws[k]
    BY <1>2, <2>2, Appended DEF RawInv, RawTypeOK
  <2>4. Derived("skip", b, Item(start, i, MaxDepth))
    BY <1>1, <1>2 DEF RawReads, Framing, AcceptsDerived
  <2>5. FramesItems'
    <3> SUFFICES ASSUME NEW k \in 1 .. Len(raws) + 1
                 PROVE  Derived("skip", b, Item(raws'[k].from, raws'[k].to, MaxDepth))
      BY <1>1, <2>3 DEF FramesItems
    <3>1. CASE k = Len(raws) + 1
      BY <2>2, <2>3, <2>4, <3>1
    <3>2. CASE k # Len(raws) + 1
      <4>1. k \in 1 .. Len(raws) /\ raws'[k] = raws[k]
        BY <2>3, <3>2
      <4> QED BY <4>1 DEF RawReads, FramesItems
    <3> QED BY <3>1, <3>2
  <2>6. HeadKept'
    <3>1. HeadKept /\ array.body = HeadAt(b, array.from).next
          /\ array.indef = HeadAt(b, array.from).indef /\ array.want = HeadAt(b, array.from).arg
      BY <1>1 DEF RawReads, HeadKept, Array
    <3> QED BY <1>1, <2>1, <3>1 DEF HeadKept
  <2>7. FramesRow'
    <3>1. Len(raws) + 1 \in 1 .. Len(raws) + 1
      BY <2>3
    <3>2. MessagesEnd' = i
      BY <2>2, <2>3, <3>1 DEF MessagesEnd
    <3>3. start = MessagesEnd
      BY <1>1 DEF RawInv, Followed
    <3>4. Derived("skip", b, Row(array.body, start, Len(raws), MaxDepth, FALSE))
      BY <1>1, <3>3 DEF RawReads, FramesRow
    <3>5. Derived("skip", b, Row(array.body, i, Len(raws) + 1, MaxDepth, FALSE))
      BY ONLY <2>2, <2>4, <3>4, RowDerived
    <3> QED BY <1>1, <2>1, <2>3, <3>2, <3>5 DEF FramesRow
  <2>8. Framing' /\ ClosesArray'
    BY <1>1, <2>1 DEF Framing, ClosesArray
  <2> QED BY <2>5, <2>6, <2>7, <2>8 DEF RawReads
<1>3. CASE array' = [array EXCEPT !.state = "failed"] /\ UNCHANGED raws
  <2>1. array'.state = "failed"
    BY <1>1, <1>3 DEF Arrays
  <2>2. FramesItems'
    BY <1>1, <1>3 DEF RawReads, FramesItems
  <2> QED BY <1>1, <2>1, <2>2 DEF RawReads, Framing, ClosesArray
<1> QED BY <1>2, <1>3 DEF RawAppend

LEMMA RawCutReads == ASSUME RawInv, RawReads, RawCut PROVE RawReads'
<1>1. /\ pc = "done" /\ array \in Arrays /\ UNCHANGED <<b, pc, raws>>
      /\ array' = [array EXCEPT !.state = "failed"]
  BY DEF RawCut, In, RawInv, RawTypeOK, Between
<1>2. array'.state = "failed"
  BY <1>1 DEF Arrays
<1>3. FramesItems'
  BY <1>1 DEF RawReads, FramesItems
<1> QED BY <1>1, <1>2, <1>3 DEF RawReads, Framing, ClosesArray

LEMMA RawCloseReads == ASSUME RawInv, RawReads, RawClose PROVE RawReads'
<1>1. /\ array.state = "on" /\ pc = "done" /\ array \in Arrays
      /\ UNCHANGED <<b, pc, raws>>
      /\ array' = [array EXCEPT !.state = "closed"]
  BY DEF RawClose, In, RawInv, RawTypeOK, Between
<1>2. /\ array'.state = "closed" /\ array'.indef = array.indef /\ array'.want = array.want
      /\ array'.body = array.body
  BY <1>1 DEF Arrays
<1>3. FramesItems' /\ HeadKept' /\ FramesRow'
  BY <1>1, FramedStays
<1>4. i = MessagesEnd /\ MessagesEnd' = MessagesEnd
  BY <1>1, <1>2 DEF RawInv, Followed, MessagesEnd
<1>5. IF array.indef THEN BreakAt(b, MessagesEnd) /\ i' = MessagesEnd + 1
                     ELSE Len(raws) = array.want /\ i' = MessagesEnd
  <2>1. CASE array.indef
    <3>1. i \in Nat /\ i < Len(b) /\ b[i + 1] = Break /\ i' = i + 1 /\ Len(b) \in Nat
      BY <1>1, <2>1, AtRest DEF RawClose, AtBreak
    <3>2. i \in 0 .. Len(b) - 1
      BY <3>1
    <3> QED BY <1>4, <2>1, <3>1, <3>2 DEF BreakAt
  <2>2. CASE ~array.indef
    BY <1>4, <2>2 DEF RawClose
  <2> QED BY <2>1, <2>2
<1>6. ClosesArray'
  BY <1>1, <1>2, <1>3, <1>4, <1>5 DEF ClosesArray
<1> QED BY <1>1, <1>2, <1>3, <1>6 DEF RawReads, Framing

LEMMA OtherMethodReads == ASSUME RawInv, RawReads, OtherMethod PROVE RawReads'
<1>1. pc = "done" /\ pc' = "call" /\ start' = i /\ array' = Off /\ UNCHANGED <<b, i, stack, raws>>
  BY DEF OtherMethod, Idle, Again
<1>2. array'.state = "off"
  BY <1>1 DEF Off, Array
<1>3. FramesItems'
  BY <1>1 DEF RawReads, FramesItems
<1>4. GInv'
  BY <1>1, CallHolds DEF RawInv
<1> QED BY <1>2, <1>3, <1>4 DEF RawReads, Framing, ClosesArray

LEMMA RawNextReads == RawInv /\ RawReads /\ [RawNext]_allVars => RawReads'
<1> SUFFICES ASSUME RawInv, RawReads, [RawNext]_allVars PROVE RawReads'
  OBVIOUS
<1>1. CASE RawNext
  BY <1>1, WalkStepReads, RawStartReads, RawMoreReads, RawAppendReads, RawCutReads,
     RawCloseReads, OtherMethodReads DEF RawNext, RawWork
<1>2. CASE UNCHANGED allVars
  <2>1. UNCHANGED <<b, i, op, start, pc, stack, ret, err, array, raws>>
    BY <1>2 DEF allVars
  <2>2. Framing'
    BY <2>1 DEF RawReads, Framing, GInv, AcceptsDerived, InProgress, Top
  <2>3. FramesItems' /\ ClosesArray'
    BY <2>1 DEF RawReads, FramesItems, ClosesArray, HeadKept, FramesRow, MessagesEnd
  <2>4. array'.state \in {"on", "framing"} => HeadKept' /\ FramesRow'
    BY <2>1 DEF RawReads, HeadKept, FramesRow, MessagesEnd
  <2> QED BY <2>2, <2>3, <2>4 DEF RawReads
<1> QED BY <1>1, <1>2

\* Every message of RawArray is one item of the framing walk's grammar, and an
\* array that is closed has been framed from its head to its end: as many
\* messages as it declares, or all up to its break, whatever methods were
\* called between (RawArray, RawNext).
THEOREM RawSound == RawSpec => [](FramesItems /\ ClosesArray)
<1>1. RawInit => RawInv /\ RawReads
  <2> SUFFICES ASSUME RawInit PROVE RawReads
    BY RawInitEstablishes
  <2>1. pc = "done" /\ array.state = "off" /\ Len(raws) = 0
    BY DEF RawInit, Off, Array
  <2> QED BY <2>1 DEF RawReads, Framing, FramesItems, ClosesArray
<1>2. (RawInv /\ RawReads) /\ [RawNext]_allVars => (RawInv /\ RawReads)'
  BY RawNextKeeps, RawNextReads
<1>3. RawReads => FramesItems /\ ClosesArray
  BY DEF RawReads
<1> QED BY <1>1, <1>2, <1>3, PTL DEF RawSpec

-----------------------------------------------------------------------------
(***************************************************************************)
(* The other way round: an array that can be framed to its end is.         *)
(***************************************************************************)
\* An array begins at from: as many items as it declares, or up to a break.
WholeArray(from) ==
  LET g == HeadAt(b, from)
  IN  /\ g.err = "nil" /\ g.mt = mtArray
      /\ \E n \in Nat, end \in Offsets(b) :
           /\ Derived("skip", b, Row(g.next, end, n, MaxDepth, FALSE))
           /\ IF g.indef THEN BreakAt(b, end) ELSE n = g.arg /\ n <= MaxArrayElements

\* RawArray fails only if no such array begins where it was called, or the
\* budget is spent.
RawRefusesOthers ==
  array.state = "failed" /\ items <= MaxTotalItems => ~WholeArray(array.from)

\* The walk in progress may not refuse an item, and the array has one more.
RawWaits ==
  /\ pc # "done" => Waiting
  /\ array.state = "framing" =>
       /\ RefusesDerived
       /\ IF array.indef THEN start < Len(b) /\ ~BreakAt(b, start) ELSE Len(raws) < array.want

\* Where the messages end and the array does not, it has another item.
LEMMA ArrayGoesOn ==
  ASSUME RawInv, RawReads, array.state \in {"on", "framing"}, WholeArray(array.from),
         IF array.indef THEN ~BreakAt(b, MessagesEnd) ELSE Len(raws) < array.want
  PROVE  \E e : Derived("skip", b, Item(MessagesEnd, e, MaxDepth))
<1> DEFINE g == HeadAt(b, array.from)
<1>1. /\ HeadKept /\ FramesRow
      /\ array.body = g.next /\ array.indef = g.indef /\ array.want = g.arg
  BY DEF RawReads, HeadKept, Array
<1>2. b \in Seq(Byte) /\ Len(raws) \in Nat
  BY DEF RawInv, IInv, TypeOK, RawTypeOK
<1>3. PICK n \in Nat, end \in Offsets(b) :
         /\ Derived("skip", b, Row(g.next, end, n, MaxDepth, FALSE))
         /\ IF g.indef THEN BreakAt(b, end) ELSE n = g.arg /\ n <= MaxArrayElements
  BY DEF WholeArray
<1>4. Derived("skip", b, Row(g.next, MessagesEnd, Len(raws), MaxDepth, FALSE))
  BY <1>1 DEF FramesRow
<1> HIDE DEF g
<1>5. Len(raws) < n
  <2>1. CASE g.indef
    BY <1>1, <1>2, <1>3, <1>4, <2>1, RowAhead
  <2>2. CASE ~g.indef
    BY <1>1, <1>3, <2>2
  <2> QED BY <2>1, <2>2
<1>6. \E e : Member("skip", b, MessagesEnd, e, Len(raws), MaxDepth, FALSE)
  BY <1>2, <1>3, <1>4, <1>5, RowGoesOn
<1> QED BY <1>6 DEF Member

LEMMA WalkStepWaits ==
  ASSUME RawInv, RawReads, RawWaits, RawRefusesOthers, WalkStep
  PROVE  RawWaits' /\ RawRefusesOthers'
<1>1. Step /\ pc # "done" /\ UNCHANGED <<b, op, start, array, raws>>
  BY StepInside DEF WalkStep, rawVars
<1>2. IInv /\ GInv /\ Waiting /\ [Next]_vars
  BY <1>1 DEF RawInv, RawReads, Framing, RawWaits, Next
<1>3. RefusesDerived
  BY <1>1 DEF RefusesDerived
<1>4. Waiting' /\ RefusesDerived'
  BY <1>2, <1>3, NextWaits, NextRefuses
<1>5. RawWaits'
  BY <1>1, <1>4 DEF RawWaits, BreakAt
<1>6. array.state # "failed"
  BY <1>1 DEF RawInv, Between
<1> QED BY <1>1, <1>5, <1>6 DEF RawRefusesOthers

LEMMA RawStartWaits ==
  ASSUME RawInv, RawReads, RawWaits, RawRefusesOthers, RawStart
  PROVE  RawWaits' /\ RawRefusesOthers'
<1>1. pc = "done" /\ pc' = "done" /\ b' = b
  BY DEF RawStart, Idle
<1>2. array' = Array(IF ArrayError = "nil" THEN "on" ELSE "failed", i, h.next, h.indef, h.arg)
  BY DEF RawStart
<1>3. array'.state = (IF ArrayError = "nil" THEN "on" ELSE "failed") /\ array'.from = i
  BY <1>2 DEF Array
<1>4. RawWaits'
  BY <1>1, <1>3 DEF RawWaits
<1>5. ASSUME ArrayError # "nil", WholeArray(i) PROVE FALSE
  <2>1. h = HeadAt(b, i) /\ h.err = "nil" /\ h.mt = mtArray
    BY <1>5 DEF WholeArray, h
  <2>2. b \in Seq(Byte) /\ h.next \in Nat /\ h.arg \in Nat /\ Len(b) \in Nat
    BY <1>1, AtRest, HeadHere DEF HeadOK, IInv, TypeOK
  <2>3. PICK n \in Nat, end \in Offsets(b) :
           /\ Derived("skip", b, Row(h.next, end, n, MaxDepth, FALSE))
           /\ IF h.indef THEN BreakAt(b, end) ELSE n = h.arg /\ n <= MaxArrayElements
    BY <1>5, <2>1 DEF WholeArray
  <2> HIDE DEF h
  <2>4. h.next + n <= end /\ end <= Len(b) /\ end \in Nat
    <3>1. Row(h.next, end, n, MaxDepth, FALSE) \in Stated(b)
      BY <2>2, <2>3, DerivedStated
    <3>2. h.next + n <= end
      BY <3>1, StatedRow
    <3> QED BY <2>2, <3>2 DEF Offsets
  <2>5. h.indef \/ (h.arg <= MaxArrayElements /\ h.next + h.arg <= Len(b))
    BY <2>2, <2>3, <2>4
  <2>6. ~h.indef /\ (h.arg > MaxArrayElements \/ h.arg > Len(b) - h.next)
    BY <1>5, <2>1 DEF ArrayError
  <2> QED BY <2>2, <2>5, <2>6, LimitsAssumption
<1>6. RawRefusesOthers'
  <2> SUFFICES ASSUME array'.state = "failed", WholeArray(array.from)' PROVE FALSE
    BY DEF RawRefusesOthers
  <2>1. WholeArray(i)
    BY <1>1, <1>3 DEF WholeArray
  <2> QED BY <1>3, <1>5, <2>1
<1> QED BY <1>4, <1>6

LEMMA RawMoreWaits ==
  ASSUME RawInv, RawReads, RawWaits, RawRefusesOthers, RawMore
  PROVE  RawWaits' /\ RawRefusesOthers'
<1>1. array.state = "on" /\ pc = "done" /\ array \in Arrays
  BY DEF RawMore, In, RawInv, Between, RawTypeOK
<1>2. /\ start' = i /\ pc' = "call" /\ UNCHANGED <<b, i, stack, raws>>
      /\ array' = [array EXCEPT !.state = "framing"]
      /\ IF array.indef THEN i < Len(b) /\ ~AtBreak ELSE Len(raws) < array.want
  BY DEF RawMore, In
<1>3. /\ array'.state = "framing" /\ array'.indef = array.indef /\ array'.want = array.want
  BY <1>1, <1>2 DEF Arrays
<1>4. stack = <<>> /\ i \in Nat /\ Len(b) \in Nat
  BY <1>1, AtRest
<1>5. Waiting'
  BY <1>2, <1>4 DEF Waiting, Top
<1>6. RefusesDerived'
  BY <1>2 DEF RefusesDerived
<1>7. ~AtBreak => ~BreakAt(b, i)
  BY <1>4 DEF AtBreak, BreakAt
<1> QED BY <1>2, <1>3, <1>5, <1>6, <1>7 DEF RawWaits, RawRefusesOthers, BreakAt

LEMMA RawAppendWaits ==
  ASSUME RawInv, RawReads, RawWaits, RawRefusesOthers, RawAppend
  PROVE  RawWaits' /\ RawRefusesOthers'
<1>1. /\ array.state = "framing" /\ pc = "done" /\ array \in Arrays
      /\ UNCHANGED <<b, i, items, op, start, pc, err>>
  BY DEF RawAppend, In, RawInv, RawTypeOK
<1>2. CASE err = "nil" /\ array' = [array EXCEPT !.state = "on"]
  <2>1. array'.state = "on"
    BY <1>1, <1>2 DEF Arrays
  <2> QED BY <1>1, <2>1 DEF RawWaits, RawRefusesOthers
<1>3. CASE err # "nil" /\ array' = [array EXCEPT !.state = "failed"]
  <2>1. array'.state = "failed" /\ array'.from = array.from
    BY <1>1, <1>3 DEF Arrays
  <2>2. RawWaits'
    BY <1>1, <2>1 DEF RawWaits
  <2>3. ASSUME items <= MaxTotalItems, WholeArray(array.from) PROVE FALSE
    <3>1. start = MessagesEnd /\ op = "skip"
      BY <1>1 DEF RawInv, Followed, RawReads, Framing
    <3>2. IF array.indef THEN ~BreakAt(b, MessagesEnd) ELSE Len(raws) < array.want
      BY <1>1, <3>1 DEF RawWaits
    <3>3. PICK e : Derived("skip", b, Item(MessagesEnd, e, MaxDepth))
      BY <1>1, <2>3, <3>2, ArrayGoesOn
    <3>4. \A to : ~Derived("skip", b, Item(start, to, MaxDepth))
      BY <1>1, <1>3, <2>3, <3>1 DEF RawWaits, RefusesDerived
    <3> QED BY <3>1, <3>3, <3>4
  <2>4. RawRefusesOthers'
    BY <1>1, <2>1, <2>3 DEF RawRefusesOthers, WholeArray
  <2> QED BY <2>2, <2>4
<1> QED BY <1>2, <1>3 DEF RawAppend

LEMMA RawCutWaits ==
  ASSUME RawInv, RawReads, RawWaits, RawRefusesOthers, RawCut
  PROVE  RawWaits' /\ RawRefusesOthers'
<1>1. /\ array.state = "on" /\ pc = "done" /\ array \in Arrays /\ array.indef /\ i >= Len(b)
      /\ UNCHANGED <<b, pc>> /\ array' = [array EXCEPT !.state = "failed"]
  BY DEF RawCut, In, RawInv, RawTypeOK, Between
<1>2. array'.state = "failed" /\ array'.from = array.from
  BY <1>1 DEF Arrays
<1>3. b \in Seq(Byte) /\ i \in Nat /\ Len(b) \in Nat /\ i = MessagesEnd
  BY <1>1, AtRest DEF IInv, TypeOK, RawInv, Followed
<1>4. ASSUME WholeArray(array.from) PROVE FALSE
  <2>1. ~BreakAt(b, MessagesEnd)
    BY <1>1, <1>3 DEF BreakAt
  <2>2. PICK e : Derived("skip", b, Item(MessagesEnd, e, MaxDepth))
    BY <1>1, <1>4, <2>1, ArrayGoesOn
  <2>3. Member("skip", b, MessagesEnd, e, 0, MaxDepth, FALSE)
    BY <2>2 DEF Member
  <2> QED BY <1>1, <1>3, <2>3, NothingAtEnd
<1>5. RawRefusesOthers'
  BY <1>1, <1>2, <1>4 DEF RawRefusesOthers, WholeArray
<1> QED BY <1>1, <1>2, <1>5 DEF RawWaits

LEMMA RawCloseWaits ==
  ASSUME RawInv, RawReads, RawWaits, RawRefusesOthers, RawClose
  PROVE  RawWaits' /\ RawRefusesOthers'
<1>1. /\ pc = "done" /\ pc' = pc /\ array \in Arrays
      /\ array' = [array EXCEPT !.state = "closed"]
  BY DEF RawClose, In, RawInv, RawTypeOK, Between
<1>2. array'.state = "closed"
  BY <1>1 DEF Arrays
<1> QED BY <1>1, <1>2 DEF RawWaits, RawRefusesOthers

LEMMA OtherMethodWaits ==
  ASSUME RawInv, RawReads, RawWaits, RawRefusesOthers, OtherMethod
  PROVE  RawWaits' /\ RawRefusesOthers'
<1>1. pc = "done" /\ pc' = "call" /\ array' = Off /\ UNCHANGED <<b, i, stack>>
  BY DEF OtherMethod, Idle, Again
<1>2. array'.state = "off"
  BY <1>1 DEF Off, Array
<1>3. Waiting'
  BY <1>1, AtRest DEF Waiting, Top
<1> QED BY <1>2, <1>3 DEF RawWaits, RawRefusesOthers

LEMMA RawNextWaits ==
  RawInv /\ RawReads /\ RawWaits /\ RawRefusesOthers /\ [RawNext]_allVars =>
    RawWaits' /\ RawRefusesOthers'
<1> SUFFICES ASSUME RawInv, RawReads, RawWaits, RawRefusesOthers, [RawNext]_allVars
             PROVE  RawWaits' /\ RawRefusesOthers'
  OBVIOUS
<1>1. CASE RawNext
  BY <1>1, WalkStepWaits, RawStartWaits, RawMoreWaits, RawAppendWaits, RawCutWaits,
     RawCloseWaits, OtherMethodWaits DEF RawNext, RawWork
<1>2. CASE UNCHANGED allVars
  <2>1. UNCHANGED <<b, i, items, op, start, pc, stack, ret, err, array, raws>>
    BY <1>2 DEF allVars
  <2>2. Waiting => Waiting'
    BY <2>1 DEF Waiting, Top, AtBreak
  <2>3. RefusesDerived => RefusesDerived'
    BY <2>1 DEF RefusesDerived
  <2>4. RawWaits'
    BY <2>1, <2>2, <2>3 DEF RawWaits, BreakAt
  <2>5. RawRefusesOthers'
    BY <2>1 DEF RawRefusesOthers, WholeArray
  <2> QED BY <2>4, <2>5
<1> QED BY <1>1, <1>2

\* RawArray fails, within the budget, only where no array begins, its count is
\* beyond the cap, or its items do not go on to that count or to a break: none
\* of its own refusals or of RawNext's loses an array it could frame.
THEOREM RawComplete == RawSpec => []RawRefusesOthers
<1>1. RawInit => RawInv /\ RawReads /\ RawWaits /\ RawRefusesOthers
  <2> SUFFICES ASSUME RawInit PROVE RawReads /\ RawWaits /\ RawRefusesOthers
    BY RawInitEstablishes
  <2>1. pc = "done" /\ array.state = "off" /\ Len(raws) = 0
    BY DEF RawInit, Off, Array
  <2> QED BY <2>1 DEF RawReads, Framing, FramesItems, ClosesArray, RawWaits, RawRefusesOthers
<1>2. (RawInv /\ RawReads /\ RawWaits /\ RawRefusesOthers) /\ [RawNext]_allVars =>
        (RawInv /\ RawReads /\ RawWaits /\ RawRefusesOthers)'
  BY RawNextKeeps, RawNextReads, RawNextWaits
<1> QED BY <1>1, <1>2, PTL DEF RawSpec
=============================================================================
