------------------------------- MODULE Stream -------------------------------
(***************************************************************************)
(* Stream (internal/codec/stream.go): items from a reader, through one     *)
(* buffer that is compacted and refilled.                                  *)
(*                                                                         *)
(* The bytes of the source are numbered from 1, and a cell of the buffer   *)
(* holds the number of the byte it holds (0: none yet), so that what a     *)
(* compaction or a refill does to delivered memory is visible.  A walk     *)
(* over the window buf[off:end] is a verdict about the item the window     *)
(* starts with: "nil" or "ErrMalformed" once the whole item is there,      *)
(* "ErrTruncated" before (Parity!Stable: more bytes do not change a        *)
(* verdict other than truncation).                                         *)
(***************************************************************************)
EXTENDS Integers, Sequences, FiniteSets, SequencesExt

CONSTANTS
  Sources,      \* the byte sources, as the items they hold
  Methods,      \* item methods the caller uses: "next", "raw", "skip"
  FirstGrow,    \* the size a stream's first buffer gets (4096)
  MaxBuffer,    \* DefaultMaxBuffer
  Caps,         \* what SetMaxBuffer may be called with
  MayFail,      \* the reader may fail with an error of its own
  MaxStalls     \* BOUND: how often the reader returns no byte and no error

\* kinds: "copied" an item whose value owns its memory, "borrowed" a byte
\* string (value.FromBytes keeps the slice), "bad" bytes found malformed at
\* their end, "cut" an item the source ends in the middle of.
ItemKinds == {"copied", "borrowed", "bad", "cut"}

IsSource(src) ==
  /\ src \in [ends : Seq(Nat \ {0}), kinds : Seq(ItemKinds)]
  /\ Len(src.kinds) = Len(src.ends)
  /\ \A m, n \in 1 .. Len(src.ends) : m < n => src.ends[m] < src.ends[n]
  /\ \A n \in 1 .. Len(src.ends) - 1 : src.kinds[n] \in {"copied", "borrowed"}

ASSUME SourcesAssumption == \A src \in Sources : IsSource(src)
ASSUME MethodsAssumption == Methods \subseteq {"next", "raw", "skip"}
ASSUME BufferAssumption ==
  FirstGrow \in Nat \ {0} /\ MaxBuffer \in Nat \ {0} /\ Caps \subseteq Int
ASSUME ReaderAssumption ==
  MayFail \in BOOLEAN /\ MaxStalls \in Nat

VARIABLES
  src,      \* the source behind the reader
  read,     \* how many of its bytes the reader has handed over
  stalls,   \* how often it handed over nothing
  buf,      \* Stream.buf[:len], as byte numbers
  off,      \* Stream.off: where the next item starts
  end,      \* Stream.end: how much of buf holds data
  err,      \* Stream.err: "nil", "eof" or "failed"
  done,     \* Stream.done
  pin,      \* Stream.pin
  max,      \* Stream.max
  pc,       \* "idle", "try" (top of a method's loop) or "fill"
  method,   \* the method running, "more" included
  next,     \* how many items have been handed over
  answer,   \* what the last call returned; "none" while one is running
  views     \* memory of the current buffer that delivered values borrow

reader == <<src, read, stalls>>
window == <<buf, off, end, views>>
options == <<pin, max>>
vars == <<reader, window, err, done, options, pc, method, next, answer>>

Start(n) == IF n = 0 THEN 0 ELSE src.ends[n]
Total == Start(Len(src.ends))
Kind == src.kinds[next + 1]
Size == src.ends[next + 1] - Start(next)

\* Mutant: an item that ends where the window ends is not whole yet.
VerdictAtEdge ==
  IF end - off <= Size \/ Kind = "cut" THEN "ErrTruncated"
  ELSE IF Kind = "bad" THEN "ErrMalformed" ELSE "nil"

\* What a walk over buf[off:end] says.
Verdict ==
  IF end - off < Size \/ Kind = "cut" THEN "ErrTruncated"
  ELSE IF Kind = "bad" THEN "ErrMalformed" ELSE "nil"

Return(a) ==
  /\ pc' = "idle"
  /\ answer' = a

-----------------------------------------------------------------------------
(***************************************************************************)
(* The caller.                                                             *)
(***************************************************************************)
More ==
  /\ pc = "idle"
  /\ method' = "more"
  /\ IF off < end THEN Return("true")
     ELSE IF done THEN Return("false")
     ELSE pc' = "fill" /\ answer' = "none"
  /\ UNCHANGED <<reader, window, err, done, options, next>>

Call(m) ==
  /\ pc = "idle"
  /\ method' = m
  /\ pc' = "try"
  /\ answer' = "none"
  /\ UNCHANGED <<reader, window, err, done, options, next>>

SetPinCopy(on) ==
  /\ pc = "idle"
  /\ pin' = on
  /\ UNCHANGED <<reader, window, err, done, max, pc, method, next, answer>>

SetMaxBuffer(n) ==
  /\ pc = "idle"
  /\ max' = n
  /\ UNCHANGED <<reader, window, err, done, pin, pc, method, next, answer>>

-----------------------------------------------------------------------------
(***************************************************************************)
(* The loop of Next, RawNext and SkipNext, up to its refill.               *)
(***************************************************************************)
Trying ==
  /\ pc = "try"
  /\ UNCHANGED <<reader, buf, end, err, done, options, method>>

Deliver ==
  /\ Trying
  /\ off < end
  /\ Verdict = "nil"
  /\ method = "raw" => pin
  /\ off' = off + Size
  /\ next' = next + 1
  /\ views' = IF method = "next" /\ Kind = "borrowed"
                THEN views \cup {[item |-> next + 1, at |-> off]} ELSE views
  /\ Return("item")

\* The decoder RawNext makes is marked borrowUnsafe.
RefuseBorrow ==
  /\ Trying
  /\ off < end
  /\ Verdict = "nil"
  /\ method = "raw" /\ ~pin
  /\ Return("lazy")
  /\ UNCHANGED <<off, next, views>>

Malformed ==
  /\ Trying
  /\ off < end
  /\ Verdict = "ErrMalformed"
  /\ Return("malformed")
  /\ UNCHANGED <<off, next, views>>

AtTheEnd ==
  /\ Trying
  /\ done
  /\ \/ off < end /\ Verdict = "ErrTruncated" /\ Return("truncated")
     \/ off >= end /\ Return("eof")
  /\ UNCHANGED <<off, next, views>>

NeedMore ==
  /\ Trying
  /\ ~done
  /\ off < end => Verdict = "ErrTruncated"
  /\ pc' = "fill"
  /\ UNCHANGED <<off, next, views, answer>>

-----------------------------------------------------------------------------
(***************************************************************************)
(* fill, and what its caller does with the error e it returns: More looks  *)
(* at the window alone, the others give up only if the window is empty.    *)
(***************************************************************************)
\* Mutant: the callers of fill return its error whether there is one or not.
FilledGivesUp(e) ==
  IF method = "more" THEN Return(IF off' < end' THEN "true" ELSE "false")
  ELSE IF off' >= end' THEN Return(e)
  ELSE pc' = "try" /\ UNCHANGED answer

Filled(e) ==
  IF method = "more" THEN Return(IF off' < end' THEN "true" ELSE "false")
  ELSE IF e # "nil" /\ off' >= end' THEN Return(e)
  ELSE pc' = "try" /\ UNCHANGED answer

Filling ==
  /\ pc = "fill"
  /\ UNCHANGED <<src, options, method, next>>

\* Mutant: a sticky error does not end the stream.
FillStickyOn ==
  /\ Filling
  /\ err # "nil"
  /\ UNCHANGED <<read, stalls, window, err, done>>
  /\ Filled(err)

FillSticky ==
  /\ Filling
  /\ err # "nil"
  /\ done' = TRUE
  /\ UNCHANGED <<read, stalls, window, err>>
  /\ Filled(err)

\* Mutant: the offsets are reset and the bytes are left where they are.
CompactedNothing == buf

\* copy(s.buf, s.buf[s.off:s.end]): the cells behind the window keep theirs.
Compacted == SubSeq(buf, off + 1, end) \o SubSeq(buf, end - off + 1, Len(buf))

Full == end - off = Len(buf)

FillTooLarge ==
  /\ Filling
  /\ err = "nil"
  /\ Full
  /\ Len(buf) >= max
  /\ buf' = Compacted
  /\ end' = end - off
  /\ off' = 0
  /\ UNCHANGED <<read, stalls, err, done, views>>
  /\ Filled("toolarge")

\* Mutant: the doubled size is not cut down to the cap.
GrownPastCap == IF Len(buf) = 0 THEN FirstGrow ELSE 2 * Len(buf)

Grown ==
  LET double == IF Len(buf) = 0 THEN FirstGrow ELSE 2 * Len(buf)
  IN  IF double > max THEN max ELSE double

Room == IF Full THEN [k \in 1 .. Grown |-> IF k <= Len(buf) THEN Compacted[k] ELSE 0]
                ELSE Compacted

\* One Read of n bytes with the error e beside them.  Values that borrowed
\* from a buffer that was replaced keep it to themselves.
FillRead(n, e) ==
  /\ Filling
  /\ err = "nil"
  /\ Full => Len(buf) < max
  /\ n <= Total - read
  /\ n <= Len(Room) - (end - off)
  /\ e = "eof" => read + n = Total
  /\ n = 0 /\ e = "nil" => stalls < MaxStalls
  /\ buf' = [k \in 1 .. Len(Room) |->
               IF k \in end - off + 1 .. end - off + n
                 THEN read + (k - (end - off)) ELSE Room[k]]
  /\ end' = end - off + n
  /\ off' = 0
  /\ read' = read + n
  /\ stalls' = IF n = 0 /\ e = "nil" THEN stalls + 1 ELSE stalls
  /\ views' = IF Full THEN {} ELSE views
  /\ err' = e
  /\ done' = (done \/ (e # "nil" /\ n = 0))
  /\ Filled(IF n = 0 THEN e ELSE "nil")

-----------------------------------------------------------------------------
Init ==
  /\ src \in Sources
  /\ read = 0 /\ stalls = 0
  /\ buf = <<>> /\ off = 0 /\ end = 0 /\ views = {}
  /\ err = "nil" /\ done = FALSE /\ pin = FALSE /\ max = MaxBuffer
  /\ pc = "idle" /\ method = "more"
  /\ next = 0 /\ answer = "none"

Read ==
  \E n \in 0 .. Total - read, e \in {"nil", "eof"} \cup (IF MayFail THEN {"failed"} ELSE {}) :
    FillRead(n, e)

\* What runs inside a call, the reader's part included.
Work ==
  \/ Deliver \/ RefuseBorrow \/ Malformed \/ AtTheEnd \/ NeedMore
  \/ FillSticky \/ FillTooLarge \/ Read

Next ==
  \/ More
  \/ \E m \in Methods : Call(m)
  \/ "raw" \in Methods /\ \E on \in BOOLEAN : SetPinCopy(on)
  \/ \E n \in Caps : SetMaxBuffer(n)
  \/ Work

Spec == Init /\ [][Next]_vars

\* A call runs until it returns, and a Read returns.
FairSpec == Spec /\ WF_vars(Work)

-----------------------------------------------------------------------------
\* Every variable has its type.
TypeOK ==
  /\ src \in [ends : Seq(Nat), kinds : Seq(ItemKinds)]
  /\ read \in Nat /\ stalls \in Nat
  /\ buf \in Seq(Nat) /\ off \in Nat /\ end \in Nat
  /\ views \subseteq [item : Nat, at : Nat]
  /\ err \in {"nil", "eof", "failed"} /\ done \in BOOLEAN /\ pin \in BOOLEAN /\ max \in Caps \cup {MaxBuffer}
  /\ pc \in {"idle", "try", "fill"}
  /\ method \in Methods \cup {"more"}
  /\ next \in Nat
  /\ answer \in {"none", "item", "malformed", "truncated", "eof", "failed",
                 "lazy", "toolarge", "true", "false"}

\* buf[off:end] is what the reader handed over and no item has taken yet,
\* in order and without a gap: compaction and growth move bytes, they never
\* lose, repeat or reorder one, and off always stands at an item (fill).
WindowHolds ==
  /\ off <= end /\ end <= Len(buf)
  /\ Start(next) + (end - off) = read
  /\ \A k \in off + 1 .. end : buf[k] = Start(next) + (k - off)

\* The buffer grows for the item at its front and not with the stream:
\* "holding them would grow the buffer for the length of the stream rather
\* than the length of an item" (fill).  A buffer that grows stays within the cap
\* in force, whatever caps there were before, and beyond its first size it is at
\* most doubled for the item that does not fit.  (A cap lowered below what is
\* allocated already takes nothing back.)
BufferFollowsItem ==
  [][Len(buf') # Len(buf) =>
       /\ Len(buf) < Len(buf') /\ Len(buf') <= max
       /\ \/ Len(buf') <= FirstGrow
          \/ next < Len(src.ends) /\ Len(buf') <= 2 * Size]_vars

\* A stream implements its promise: the same items, and answers with the same
\* reasons, for every way of cutting the source into reads.
A == INSTANCE ItemStream WITH
       stalled <- stalls > 0, broken <- err = "failed", closed <- max <= 0
Promise == A!Spec

\* The item at the front can never be judged within the buffer.
Capacity == IF Len(buf) > max THEN Len(buf) ELSE max
Oversize ==
  /\ next < Len(src.ends)
  /\ Size > Capacity \/ (Kind = "cut" /\ Size = Capacity)

\* Every call returns, however the bytes arrive and the reader ends, unless it
\* meets an item that is too large for the buffer (Next, RawNext, SkipNext).
CallsReturn == (pc # "idle" /\ ~Oversize) ~> (pc = "idle")

\* What is ahead of a stream: the bytes and the pauses of its reader, the
\* reader's error, the end, and within a round of a method's loop its steps.
StepsLeft == [idle |-> 0, fill |-> 1, try |-> 2]
ToDo ==
  4 * (Total - read + MaxStalls - stalls
       + (IF err = "nil" THEN 1 ELSE 0) + (IF done THEN 0 ELSE 1)) + StepsLeft[pc]

\* No step of a call gets nowhere, whatever the reader does, but the refusal to
\* grow for an item that cannot fit (Next, RawNext, SkipNext, More, fill): a
\* call takes no more rounds than its reader has bytes, pauses and errors.
MovesOn ==
  [][pc # "idle" => ToDo' \in 0 .. ToDo - 1 \/ (FillTooLarge /\ Oversize)]_vars

\* A value handed over keeps its bytes; a byte string's content starts behind
\* its one-byte head.  lld/decoder.md:112 "string and bytes values copy ...
\* default copied".
DeliveredKept ==
  \A v \in views : \A k \in 2 .. src.ends[v.item] - Start(v.item - 1) :
    buf[v.at + k] = Start(v.item - 1) + k

\* stream.go:25 "sticky read error, delivered after the buffered items": the
\* end of the stream is not reported for a reader that failed.
EofMeansEof == answer = "eof" => err = "eof"

\* stream.go:31 "An item larger than this cannot be decoded from a stream at
\* all, which is the point": the call that meets one is refused.
OversizeRefused ==
  (pc = "fill" /\ Full /\ Len(buf) >= max) ~> (pc = "idle")
=============================================================================
