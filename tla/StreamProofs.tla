---------------------------- MODULE StreamProofs ----------------------------
(***************************************************************************)
(* What holds of a Stream for every source, every cap and every way the    *)
(* reader cuts, stalls and fails: the window is the unread part of the     *)
(* source, the buffer grows for the item at its front and within the cap,  *)
(* and the stream implements ItemStream.  None of it depends on fairness.                            *)
(***************************************************************************)
EXTENDS Stream, SequenceTheorems, TLAPS

\* The reader hands over no more than there is, and an end is not invented.
Honest ==
  /\ src \in Sources
  /\ next <= Len(src.ends)
  /\ read <= Total
  /\ err = "eof" => read = Total
  /\ done => err # "nil"

\* More is asked for only if the item at the front is not whole.
Hungry ==
  pc = "fill" /\ off < end => next < Len(src.ends) /\ (end - off < Size \/ Kind = "cut")

SInv ==
  /\ TypeOK
  /\ Honest
  /\ WindowHolds
  /\ Hungry

-----------------------------------------------------------------------------
\* Where items start and end.
LEMMA Positions ==
  ASSUME src \in Sources
  PROVE  /\ src.ends \in Seq(Nat \ {0}) /\ src.kinds \in Seq(ItemKinds)
         /\ Len(src.kinds) = Len(src.ends) /\ Len(src.ends) \in Nat
         /\ Total \in Nat
         /\ \A n \in 0 .. Len(src.ends) : Start(n) \in Nat /\ Start(n) <= Total
         /\ \A n \in 0 .. Len(src.ends) - 1 :
              /\ src.ends[n + 1] = Start(n + 1)
              /\ Start(n) < Start(n + 1)
              /\ Start(n) < Total
              /\ src.kinds[n + 1] \in ItemKinds
              /\ src.kinds[n + 1] \in {"copied", "borrowed"} \/ n + 1 = Len(src.ends)
<1>1. IsSource(src)
  BY SourcesAssumption
<1>2. /\ src.ends \in Seq(Nat \ {0}) /\ src.kinds \in Seq(ItemKinds)
      /\ Len(src.kinds) = Len(src.ends) /\ Len(src.ends) \in Nat
  BY <1>1 DEF IsSource
<1> DEFINE len == Len(src.ends)
<1>3. \A n \in 1 .. len : src.ends[n] \in Nat \ {0} /\ src.kinds[n] \in ItemKinds
  BY <1>2, ElementOfSeq
<1>4. \A m, n \in 1 .. len : m < n => src.ends[m] < src.ends[n]
  BY <1>1 DEF IsSource
<1>5. \A n \in 1 .. len - 1 : src.kinds[n] \in {"copied", "borrowed"}
  BY <1>1 DEF IsSource
<1>6. \A n \in 1 .. len : src.ends[n] <= src.ends[len]
  BY <1>2, <1>3, <1>4
<1>7. Total \in Nat
  BY <1>2, <1>3 DEF Total, Start
<1>8. \A n \in 0 .. len : Start(n) \in Nat /\ Start(n) <= Total
  BY <1>2, <1>3, <1>6 DEF Total, Start
<1>9. ASSUME NEW n \in 0 .. len - 1
      PROVE  /\ src.ends[n + 1] = Start(n + 1)
             /\ Start(n) < Start(n + 1)
             /\ Start(n) < Total
             /\ src.kinds[n + 1] \in ItemKinds
             /\ src.kinds[n + 1] \in {"copied", "borrowed"} \/ n + 1 = len
  <2>1. n + 1 \in 1 .. len /\ n + 1 # 0
    BY <1>2
  <2>2. src.ends[n + 1] = Start(n + 1)
    BY <2>1 DEF Start
  <2>3. Start(n) < Start(n + 1)
    BY <2>1, <1>2, <1>3, <1>4 DEF Start
  <2>4. Start(n) < Total
    BY <2>1, <2>3, <1>2, <1>7, <1>8
  <2> QED BY <2>1, <2>2, <2>3, <2>4, <1>2, <1>3, <1>5
<1> QED BY <1>2, <1>7, <1>8, <1>9

\* A non-empty window begins with an item of the source.
LEMMA ItemThere ==
  ASSUME SInv, off < end
  PROVE  /\ next \in 0 .. Len(src.ends) - 1
         /\ Kind \in ItemKinds
         /\ Size \in Nat \ {0}
         /\ Start(next + 1) = Start(next) + Size
         /\ read = Total => end - off >= Size
<1>1. /\ next \in Nat /\ next <= Len(src.ends) /\ src \in Sources /\ read <= Total
      /\ read \in Nat /\ off \in Nat /\ end \in Nat /\ Start(next) + (end - off) = read
  BY DEF SInv, TypeOK, Honest, WindowHolds
<1>2. next # Len(src.ends)
  BY <1>1, Positions DEF Total
<1>3. next \in 0 .. Len(src.ends) - 1
  BY <1>1, <1>2, Positions
<1>4. /\ src.ends[next + 1] = Start(next + 1) /\ Start(next) < Start(next + 1)
      /\ src.kinds[next + 1] \in ItemKinds
  BY <1>1, <1>3, Positions
<1>5. next + 1 \in 0 .. Len(src.ends) /\ next \in 0 .. Len(src.ends)
  BY <1>1, <1>3, Positions
<1>6. Start(next) \in Nat /\ Start(next + 1) \in Nat /\ Start(next + 1) <= Total
  BY <1>1, <1>5, Positions
<1> QED BY <1>1, <1>3, <1>4, <1>6 DEF Size, Kind

-----------------------------------------------------------------------------
(***************************************************************************)
(* The buffer: compaction and growth move the window to the front.         *)
(***************************************************************************)
LEMMA CompactedKeeps ==
  ASSUME buf \in Seq(Nat), off \in Nat, end \in Nat, off <= end, end <= Len(buf)
  PROVE  /\ Compacted \in Seq(Nat)
         /\ Len(Compacted) = Len(buf)
         /\ \A k \in 1 .. end - off : Compacted[k] = buf[off + k]
<1> DEFINE kept == SubSeq(buf, off + 1, end)
           rest == SubSeq(buf, end - off + 1, Len(buf))
<1>1. Len(buf) \in Nat /\ \A k \in 1 .. Len(buf) : buf[k] \in Nat
  BY ElementOfSeq
<1>2. /\ kept \in Seq(Nat) /\ Len(kept) = end - off
      /\ \A k \in 1 .. end - off : kept[k] = buf[off + k]
  <2>1. off + 1 \in Int /\ end \in Int /\ \A k \in off + 1 .. end : buf[k] \in Nat
    BY <1>1
  <2>2. /\ kept \in Seq(Nat)
        /\ Len(kept) = IF off + 1 <= end THEN end - (off + 1) + 1 ELSE 0
        /\ \A k \in 1 .. end - (off + 1) + 1 : kept[k] = buf[off + 1 + k - 1]
    BY <2>1, SubSeqProperties
  <2> HIDE DEF kept
  <2>3. Len(kept) = end - off
    BY <2>2
  <2>4. ASSUME NEW k \in 1 .. end - off
        PROVE  kept[k] = buf[off + k]
    <3>1. k \in 1 .. end - (off + 1) + 1 /\ off + 1 + k - 1 = off + k
      OBVIOUS
    <3> QED BY <3>1, <2>2
  <2> QED BY <2>2, <2>3, <2>4
<1>3. rest \in Seq(Nat) /\ Len(rest) = Len(buf) - (end - off)
  <2>1. end - off + 1 \in Int /\ Len(buf) \in Int
        /\ \A k \in end - off + 1 .. Len(buf) : buf[k] \in Nat
    BY <1>1
  <2>2. /\ rest \in Seq(Nat)
        /\ Len(rest) = IF end - off + 1 <= Len(buf)
                         THEN Len(buf) - (end - off + 1) + 1 ELSE 0
    BY <2>1, SubSeqProperties
  <2> HIDE DEF rest
  <2> QED BY <2>2, <1>1
<1> HIDE DEF kept, rest
<1>4. /\ kept \o rest \in Seq(Nat)
      /\ Len(kept \o rest) = Len(kept) + Len(rest)
      /\ \A k \in 1 .. Len(kept) + Len(rest) :
           (kept \o rest)[k] = IF k <= Len(kept) THEN kept[k] ELSE rest[k - Len(kept)]
  BY <1>2, <1>3, ConcatProperties
<1>5. Compacted = kept \o rest
  BY DEF Compacted, kept, rest
<1> QED BY <1>1, <1>2, <1>3, <1>4, <1>5

\* The buffer as a Read finds it: as long as it was, or grown, with the window
\* at its front.
LEMMA RoomKeeps ==
  ASSUME TypeOK, off <= end, end <= Len(buf), Full => Len(buf) < max
  PROVE  /\ Room \in Seq(Nat)
         /\ Len(Room) = IF Full THEN Grown ELSE Len(buf)
         /\ end - off <= Len(Room)
         /\ Full => /\ Grown \in Nat /\ Len(buf) < Grown /\ Grown <= max
                    /\ Grown <= FirstGrow \/ Grown <= 2 * Len(buf)
         /\ \A k \in 1 .. end - off : Room[k] = buf[off + k]
<1>1. /\ buf \in Seq(Nat) /\ off \in Nat /\ end \in Nat /\ Len(buf) \in Nat
      /\ max \in Int /\ FirstGrow \in Nat \ {0}
  BY BufferAssumption DEF TypeOK
<1>2. /\ Compacted \in Seq(Nat) /\ Len(Compacted) = Len(buf)
      /\ \A k \in 1 .. end - off : Compacted[k] = buf[off + k]
  BY <1>1, CompactedKeeps
<1>3. Full => /\ Grown \in Nat /\ Len(buf) < Grown /\ Grown <= max
              /\ Grown <= FirstGrow \/ Grown <= 2 * Len(buf)
  BY <1>1 DEF Grown
<1>4. CASE ~Full
  BY <1>1, <1>2, <1>3, <1>4 DEF Room
<1>5. CASE Full
  <2>1. Room = [k \in 1 .. Grown |-> IF k <= Len(buf) THEN Compacted[k] ELSE 0]
    BY <1>5 DEF Room
  <2>2. \A k \in 1 .. Len(buf) : Compacted[k] \in Nat
    BY <1>2, ElementOfSeq
  <2>3. \A k \in 1 .. Grown : (IF k <= Len(buf) THEN Compacted[k] ELSE 0) \in Nat
    BY <2>2, <1>1
  <2>5. Room \in Seq(Nat) /\ Len(Room) = Grown
    BY <2>1, <2>3, <1>3, <1>5
  <2>6. end - off = Len(buf)
    BY <1>5 DEF Full
  <2>7. \A k \in 1 .. end - off : Room[k] = buf[off + k]
    BY <2>1, <2>6, <1>1, <1>2, <1>3, <1>5
  <2> QED BY <2>5, <2>6, <2>7, <1>3, <1>5
<1> QED BY <1>4, <1>5

-----------------------------------------------------------------------------
(***************************************************************************)
(* The steps of a refill keep the invariant.                               *)
(***************************************************************************)
\* A buffer that grows does so within the cap, past its first size only for the
\* item at its front, and to no more than twice that item.
LEMMA GrownFollowsItem ==
  ASSUME SInv, pc = "fill", Full, Len(buf) < max
  PROVE  /\ Grown \in Nat /\ Len(buf) < Grown /\ Grown <= max
         /\ \/ Grown <= FirstGrow
            \/ next < Len(src.ends) /\ Grown <= 2 * Size
<1>1. /\ TypeOK /\ off <= end /\ end <= Len(buf) /\ off \in Nat /\ end \in Nat
      /\ read \in Nat /\ read <= Total /\ src \in Sources
      /\ Start(next) + (end - off) = read
  BY DEF SInv, TypeOK, WindowHolds, Honest
<1>2. /\ Grown \in Nat /\ Len(buf) < Grown /\ Grown <= max
      /\ Grown <= FirstGrow \/ Grown <= 2 * Len(buf)
  BY <1>1, RoomKeeps
<1>3. FirstGrow \in Nat
  BY BufferAssumption
<1>4. Len(buf) \in Nat /\ Len(buf) = end - off
  BY <1>1 DEF TypeOK, Full
<1>5. CASE Len(buf) = 0
  BY <1>2, <1>3, <1>5
<1>6. CASE Len(buf) # 0
  <2>1. off < end
    BY <1>1, <1>4, <1>6
  <2>2. /\ next \in 0 .. Len(src.ends) - 1 /\ Size \in Nat \ {0}
        /\ Start(next + 1) = Start(next) + Size
    BY <2>1, ItemThere
  <2>3. next < Len(src.ends)
    BY <2>2, <1>1, Positions
  <2>5. end - off <= Size
    <3>1. CASE end - off < Size
      BY <3>1, <1>1, <2>2
    <3>2. CASE Kind = "cut"
      <4>1. next + 1 = Len(src.ends)
        BY <2>2, <3>2, <1>1, Positions DEF Kind
      <4>2. Total = Start(next) + Size
        BY <4>1, <2>2 DEF Total
      <4>3. next \in 0 .. Len(src.ends)
        BY <2>2, <1>1, Positions
      <4>4. Start(next) \in Nat
        BY <4>3, <1>1, Positions
      <4> QED BY <4>2, <4>4, <1>1, <2>2
    <3> QED BY <3>1, <3>2, <2>1 DEF SInv, Hungry
  <2>6. Grown <= FirstGrow \/ Grown <= 2 * Size
    BY <1>2, <1>3, <1>4, <2>2, <2>5
  <2> QED BY <2>3, <2>6, <1>2
<1> QED BY <1>5, <1>6

LEMMA TooLargeKeeps ==
  ASSUME SInv, FillTooLarge
  PROVE  SInv'
<1>1. /\ TypeOK /\ Honest /\ WindowHolds /\ Hungry
      /\ off \in Nat /\ end \in Nat /\ off <= end /\ end <= Len(buf) /\ buf \in Seq(Nat)
  BY DEF SInv, TypeOK, WindowHolds
<1>2. /\ Compacted \in Seq(Nat) /\ Len(Compacted) = Len(buf)
      /\ \A k \in 1 .. end - off : Compacted[k] = buf[off + k]
  BY <1>1, CompactedKeeps
<1>3. /\ buf' = Compacted /\ end' = end - off /\ off' = 0
      /\ UNCHANGED <<src, options, method, next, read, stalls, err, done, views>>
      /\ pc' \in {"idle", "try"}
      /\ answer' \in {"toolarge", answer, "true", "false"}
  BY DEF FillTooLarge, Filling, Filled, Return
<1>4. TypeOK'
  BY <1>1, <1>2, <1>3 DEF TypeOK, options
<1>5. Honest'
  BY <1>1, <1>3 DEF Honest, Total, Start
<1>6. WindowHolds'
  <2>1. off' <= end' /\ end' <= Len(buf') /\ end' - off' = end - off
    BY <1>1, <1>2, <1>3
  <2>2. Start(next)' = Start(next)
    BY <1>3 DEF Start
  <2>3. ASSUME NEW k \in 1 .. end - off
        PROVE  buf'[k] = Start(next) + k
    <3>1. off + k \in off + 1 .. end /\ off + k - off = k
      BY <1>1
    <3>2. buf[off + k] = Start(next) + (off + k - off)
      BY <3>1, <1>1 DEF WindowHolds
    <3> QED BY <3>1, <3>2, <1>2, <1>3
  <2>4. \A k \in off' + 1 .. end' : buf'[k] = Start(next)' + (k - off')
    BY <1>1, <1>3, <2>2, <2>3
  <2> QED BY <2>1, <2>2, <2>4, <1>1, <1>3 DEF WindowHolds
<1>7. Hungry'
  BY <1>3 DEF Hungry
<1> QED BY <1>4, <1>5, <1>6, <1>7 DEF SInv

LEMMA ReadKeeps ==
  ASSUME SInv, NEW n \in 0 .. Total - read, NEW e \in {"nil", "eof", "failed"}, FillRead(n, e)
  PROVE  SInv'
<1>1. /\ TypeOK /\ Honest /\ WindowHolds /\ Hungry
      /\ off \in Nat /\ end \in Nat /\ off <= end /\ end <= Len(buf)
      /\ Len(buf) \in Nat /\ read \in Nat /\ n \in Nat /\ next <= Len(src.ends)
      /\ Start(next) + (end - off) = read /\ next \in Nat /\ src \in Sources
  BY Positions DEF SInv, TypeOK, WindowHolds, Honest
<1>2. /\ pc = "fill" /\ err = "nil"
      /\ Full => Len(buf) < max
      /\ n <= Total - read /\ n <= Len(Room) - (end - off)
      /\ e = "eof" => read + n = Total
      /\ UNCHANGED <<src, options, method, next>>
      /\ end' = end - off + n /\ off' = 0 /\ read' = read + n
      /\ stalls' \in {stalls, stalls + 1}
      /\ views' \in {{}, views}
      /\ err' = e /\ done' = (done \/ (e # "nil" /\ n = 0))
  BY DEF FillRead, Filling
<1>3. buf' = [k \in 1 .. Len(Room) |->
               IF k \in end - off + 1 .. end - off + n
                 THEN read + (k - (end - off)) ELSE Room[k]]
  BY DEF FillRead
<1>4. /\ pc' \in {"idle", "try"}
      /\ answer' \in {e, answer, "true", "false"}
      /\ answer' = e => answer' # "nil" \/ answer' = answer
  BY DEF FillRead, Filled, Return
<1>5. /\ Room \in Seq(Nat)
      /\ Len(Room) = IF Full THEN Grown ELSE Len(buf)
      /\ end - off <= Len(Room)
      /\ \A k \in 1 .. end - off : Room[k] = buf[off + k]
  <2>1. TypeOK /\ off <= end /\ end <= Len(buf) /\ (Full => Len(buf) < max)
    BY <1>1, <1>2
  <2> QED BY ONLY <2>1, RoomKeeps
<1>6. Len(Room) \in Nat /\ \A k \in 1 .. Len(Room) : Room[k] \in Nat
  BY <1>5, ElementOfSeq
<1>7. /\ buf' \in Seq(Nat) /\ Len(buf') = Len(Room)
  <2>1. \A k \in 1 .. Len(Room) :
          (IF k \in end - off + 1 .. end - off + n
             THEN read + (k - (end - off)) ELSE Room[k]) \in Nat
    BY <1>1, <1>6
  <2> QED BY <2>1, <1>3, <1>6
<1>8. /\ end' \in Nat /\ off' \in Nat /\ read' \in Nat /\ off' <= end' /\ end' <= Len(buf')
  BY <1>1, <1>2, <1>5, <1>6, <1>7
<1>9. Total \in Nat /\ Total' = Total /\ Start(next)' = Start(next) /\ Start(next) \in Nat
  <2>1. next \in 0 .. Len(src.ends) /\ Total \in Nat
    BY <1>1, Positions
  <2>2. Start(next) \in Nat
    BY <2>1, <1>1, Positions
  <2> QED BY <2>1, <2>2, <1>2 DEF Total, Start
<1>10. TypeOK'
  <2>1. stalls' \in Nat
    BY <1>1, <1>2 DEF TypeOK
  <2>2. answer' \in {"none", "item", "malformed", "truncated", "eof", "failed",
                    "lazy", "toolarge", "true", "false"}
    BY <1>1, <1>4 DEF TypeOK
  <2> QED BY <2>1, <2>2, <1>1, <1>2, <1>4, <1>7, <1>8 DEF TypeOK, options
<1>11. Honest'
  <2>1. e = "eof" => read' = Total
    BY <1>2
  <2>2. done' => err' # "nil"
    <3>1. ~done
      BY <1>1, <1>2 DEF Honest
    <3>2. done' => e # "nil"
      BY <3>1, <1>2
    <3> QED BY <3>2, <1>2
  <2> QED BY <2>1, <2>2, <1>1, <1>2, <1>9 DEF Honest
<1>12. WindowHolds'
  <2>1. ASSUME NEW k \in 1 .. end - off + n
        PROVE  buf'[k] = Start(next) + k
    <3>1. k \in 1 .. Len(Room)
      BY <1>1, <1>2, <1>6
    <3>2. CASE k <= end - off
      <4>1. /\ k \in 1 .. end - off /\ off + k \in off + 1 .. end /\ off + k - off = k
            /\ k \notin end - off + 1 .. end - off + n
        BY <1>1, <3>2
      <4>2. buf[off + k] = Start(next) + (off + k - off)
        BY <4>1, <1>1 DEF WindowHolds
      <4>3. buf'[k] = Room[k]
        BY <3>1, <4>1, <1>3
      <4> QED BY <4>1, <4>2, <4>3, <1>5
    <3>3. CASE k > end - off
      <4>1. k \in end - off + 1 .. end - off + n
        BY <1>1, <3>3
      <4>2. buf'[k] = read + (k - (end - off))
        BY <3>1, <4>1, <1>3
      <4> QED BY <4>2, <1>1, <1>9
    <3> QED BY <3>2, <3>3, <1>1
  <2>2. \A k \in off' + 1 .. end' : buf'[k] = Start(next)' + (k - off')
    BY <2>1, <1>1, <1>2, <1>9
  <2>3. Start(next)' + (end' - off') = read'
    BY <1>1, <1>2, <1>9
  <2> QED BY <2>2, <2>3, <1>8 DEF WindowHolds
<1>13. Hungry'
  BY <1>4 DEF Hungry
<1> QED BY <1>10, <1>11, <1>12, <1>13 DEF SInv

-----------------------------------------------------------------------------
(***************************************************************************)
(* The other steps, and the invariant.                                     *)
(***************************************************************************)
\* A step that leaves the window and the reader alone.
LEMMA StillKeeps ==
  ASSUME SInv, UNCHANGED <<src, read, stalls, window, err, next>>,
         done' => err # "nil", done' \in BOOLEAN, pin' \in BOOLEAN, max' \in Caps \cup {MaxBuffer},
         pc' \in {"idle", "try", "fill"}, method' \in Methods \cup {"more"},
         answer' \in {"none", "item", "malformed", "truncated", "eof", "failed",
                     "lazy", "toolarge", "true", "false"},
         pc' = "fill" => off >= end \/ (next < Len(src.ends) /\ Verdict = "ErrTruncated")
  PROVE  SInv'
<1>1. UNCHANGED <<src, read, stalls, buf, off, end, views, err, next>>
  BY DEF window
<1>2. TypeOK'
  BY <1>1 DEF SInv, TypeOK
<1>3. Honest' /\ WindowHolds'
  BY <1>1 DEF SInv, Honest, WindowHolds, Total, Start
<1>4. Hungry'
  <2>1. Verdict = "ErrTruncated" => end - off < Size \/ Kind = "cut"
    BY DEF Verdict
  <2>2. off \in Nat /\ end \in Nat
    BY DEF SInv, TypeOK
  <2> QED BY <2>1, <2>2, <1>1 DEF Hungry, Size, Kind, Start
<1> QED BY <1>2, <1>3, <1>4 DEF SInv

LEMMA DeliverKeeps ==
  ASSUME SInv, Deliver
  PROVE  SInv'
<1>1. /\ off < end /\ Verdict = "nil"
      /\ off' = off + Size /\ next' = next + 1 /\ pc' = "idle" /\ answer' = "item"
      /\ UNCHANGED <<src, read, stalls, buf, end, err, done, pin, max, method>>
      /\ views' = views \/ views' = views \cup {[item |-> next + 1, at |-> off]}
  BY DEF Deliver, Trying, Return, reader, options
<1>2. /\ next \in 0 .. Len(src.ends) - 1 /\ Size \in Nat \ {0}
      /\ Start(next + 1) = Start(next) + Size
  BY <1>1, ItemThere
<1>3. /\ TypeOK /\ src \in Sources /\ next \in Nat /\ off \in Nat /\ end \in Nat
      /\ read \in Nat /\ off <= end /\ end <= Len(buf) /\ Start(next) + (end - off) = read
      /\ views \subseteq [item : Nat, at : Nat] /\ Len(buf) \in Nat
  BY DEF SInv, TypeOK, WindowHolds, Honest
<1>4. Len(src.ends) \in Nat /\ Start(next) \in Nat
  <2>1. Len(src.ends) \in Nat /\ next \in 0 .. Len(src.ends)
    BY <1>2, <1>3, Positions
  <2> QED BY <2>1, <1>3, Positions
<1>5. off' <= end /\ off' \in Nat /\ next' \in Nat /\ next' <= Len(src.ends)
  <2>1. end - off >= Size
    BY <1>1, <1>2, <1>3 DEF Verdict
  <2> QED BY <2>1, <1>1, <1>2, <1>3, <1>4
<1>6. TypeOK'
  <2>1. views' \subseteq [item : Nat, at : Nat]
    <3>1. [item |-> next + 1, at |-> off] \in [item : Nat, at : Nat]
      BY <1>3
    <3> QED BY <3>1, <1>1, <1>3
  <2> QED BY <2>1, <1>1, <1>3, <1>5 DEF TypeOK
<1>7. Honest'
  BY <1>1, <1>5 DEF SInv, Honest, Total, Start
<1>8. WindowHolds'
  <2>1. Start(next)' = Start(next) + Size
    BY <1>1, <1>2 DEF Start
  <2>2. ASSUME NEW k \in off + Size + 1 .. end
        PROVE  buf[k] = Start(next) + Size + (k - (off + Size))
    <3>1. k \in off + 1 .. end
      BY <1>2, <1>3
    <3>2. buf[k] = Start(next) + (k - off)
      BY <3>1 DEF SInv, WindowHolds
    <3> QED BY <3>1, <3>2, <1>2, <1>3, <1>4
  <2>3. off' <= end' /\ end' <= Len(buf') /\ Start(next)' + (end' - off') = read'
    BY <2>1, <1>1, <1>2, <1>3, <1>4, <1>5
  <2>4. \A k \in off' + 1 .. end' : buf'[k] = Start(next)' + (k - off')
    BY <2>1, <2>2, <1>1
  <2> QED BY <2>3, <2>4 DEF WindowHolds
<1>9. Hungry'
  BY <1>1 DEF Hungry
<1> QED BY <1>6, <1>7, <1>8, <1>9 DEF SInv

\* The invariant holds of every run of a stream.
THEOREM StreamInvariance == Spec => []SInv
<1>1. Init => SInv
  <2> SUFFICES ASSUME Init PROVE SInv
    OBVIOUS
  <2>1. /\ src \in Sources /\ read = 0 /\ stalls = 0 /\ buf = <<>> /\ off = 0 /\ end = 0
        /\ views = {} /\ err = "nil" /\ done = FALSE /\ pin = FALSE /\ max = MaxBuffer
        /\ pc = "idle" /\ method = "more" /\ next = 0 /\ answer = "none"
    BY DEF Init
  <2>2. IsSource(src) /\ Len(src.ends) \in Nat /\ Total \in Nat /\ Start(0) = 0
    BY <2>1, SourcesAssumption, Positions DEF Start
  <2>3. src \in [ends : Seq(Nat), kinds : Seq(ItemKinds)]
    BY <2>2 DEF IsSource
  <2>4. TypeOK
    <3>1. buf \in Seq(Nat)
      BY <2>1, EmptySeq
    <3> QED BY <3>1, <2>1, <2>3 DEF TypeOK
  <2>5. Honest /\ Hungry
    BY <2>1, <2>2 DEF Honest, Hungry
  <2>6. WindowHolds
    BY <2>1, <2>2 DEF WindowHolds
  <2> QED BY <2>4, <2>5, <2>6 DEF SInv
<1>2. SInv /\ [Next]_vars => SInv'
  <2> SUFFICES ASSUME SInv, [Next]_vars PROVE SInv'
    OBVIOUS
  <2> USE DEF Return, reader, options
  <2>1. ASSUME More PROVE SInv'
    BY <2>1, StillKeeps DEF More, SInv, TypeOK, Honest
  <2>2. ASSUME NEW m \in Methods, Call(m) PROVE SInv'
    BY <2>2, StillKeeps DEF Call, SInv, TypeOK, Honest
  <2>3. ASSUME NEW on \in BOOLEAN, SetPinCopy(on) PROVE SInv'
    BY <2>3, StillKeeps DEF SetPinCopy, SInv, TypeOK, Honest
  <2>4. ASSUME NEW n \in Caps, SetMaxBuffer(n) PROVE SInv'
    BY <2>4, StillKeeps DEF SetMaxBuffer, SInv, TypeOK, Honest
  <2>5. ASSUME Deliver PROVE SInv'
    BY <2>5, DeliverKeeps
  <2>6. ASSUME RefuseBorrow PROVE SInv'
    BY <2>6, StillKeeps DEF RefuseBorrow, Trying, window, SInv, TypeOK, Honest
  <2>7. ASSUME Malformed PROVE SInv'
    BY <2>7, StillKeeps DEF Malformed, Trying, window, SInv, TypeOK, Honest
  <2>8. ASSUME AtTheEnd PROVE SInv'
    BY <2>8, StillKeeps DEF AtTheEnd, Trying, window, SInv, TypeOK, Honest
  <2>9. ASSUME NeedMore PROVE SInv'
    <3>1. off < end => next < Len(src.ends) /\ Verdict = "ErrTruncated"
      <4>1. next \in Nat
        BY DEF SInv, TypeOK
      <4>2. off < end => next \in 0 .. Len(src.ends) - 1 /\ Len(src.ends) \in Nat
        BY ItemThere, Positions DEF SInv, Honest
      <4> QED BY <4>1, <4>2, <2>9 DEF NeedMore
    <3>2. off \in Nat /\ end \in Nat
      BY DEF SInv, TypeOK
    <3> QED BY <3>1, <3>2, <2>9, StillKeeps DEF NeedMore, Trying, window, SInv, TypeOK, Honest
  <2>10. ASSUME FillSticky PROVE SInv'
    BY <2>10, StillKeeps DEF FillSticky, Filling, Filled, SInv, TypeOK, Honest
  <2>11. ASSUME FillTooLarge PROVE SInv'
    BY <2>11, TooLargeKeeps
  <2>12. ASSUME Read PROVE SInv'
    BY <2>12, ReadKeeps DEF Read
  <2>13. ASSUME UNCHANGED vars PROVE SInv'
    <3>1. /\ UNCHANGED <<src, read, stalls, buf, off, end, views, err, done, pin, max, pc,
                         method, next, answer>>
      BY <2>13 DEF vars, window
    <3> QED BY <3>1 DEF SInv, TypeOK, Honest, WindowHolds, Hungry,
                        Total, Start, Size, Kind
  <2> QED BY <2>1, <2>2, <2>3, <2>4, <2>5, <2>6, <2>7, <2>8, <2>9, <2>10, <2>11, <2>12, <2>13
          DEF Next, Work
<1> QED BY <1>1, <1>2, PTL DEF Spec

\* Every variable of a stream has its type (Stream).
THEOREM StreamTyped == Spec => []TypeOK
<1>1. SInv => TypeOK
  BY DEF SInv
<1> QED BY <1>1, StreamInvariance, PTL

\* buf[off:end] is what was read and not yet handed over, byte for byte, after
\* every compaction, growth and short read (fill).
THEOREM StreamWindow == Spec => []WindowHolds
<1>1. SInv => WindowHolds
  BY DEF SInv
<1> QED BY <1>1, StreamInvariance, PTL

\* The buffer grows only within the cap in force and, past its first size, only
\* for the item at its front and to at most twice that item, whatever caps the
\* caller sets before and after (fill, SetMaxBuffer).
THEOREM StreamBounded == Spec => BufferFollowsItem
<1> DEFINE Follows ==
      Len(buf') # Len(buf) =>
        /\ Len(buf) < Len(buf') /\ Len(buf') <= max
        /\ \/ Len(buf') <= FirstGrow
           \/ next < Len(src.ends) /\ Len(buf') <= 2 * Size
<1>1. SInv /\ [Next]_vars => [Follows]_vars
  <2> SUFFICES ASSUME SInv, Next PROVE Follows
    OBVIOUS
  <2>1. /\ TypeOK /\ off <= end /\ end <= Len(buf) /\ off \in Nat /\ end \in Nat
        /\ buf \in Seq(Nat)
    BY DEF SInv, TypeOK, WindowHolds
  <2>2. ASSUME FillTooLarge PROVE Follows
    BY <2>1, <2>2, CompactedKeeps DEF FillTooLarge
  <2>3. ASSUME NEW n \in 0 .. Total - read, NEW e, FillRead(n, e) PROVE Follows
    <3>1. /\ pc = "fill" /\ (Full => Len(buf) < max)
          /\ buf' = [k \in 1 .. Len(Room) |->
                      IF k \in end - off + 1 .. end - off + n
                        THEN read + (k - (end - off)) ELSE Room[k]]
      BY <2>3 DEF FillRead, Filling
    <3>2. Room \in Seq(Nat) /\ Len(Room) = IF Full THEN Grown ELSE Len(buf)
      BY <2>1, <3>1, RoomKeeps
    <3>3. Len(buf') = Len(Room)
      BY <3>1, <3>2
    <3> QED BY <3>1, <3>2, <3>3, GrownFollowsItem
  <2>4. ASSUME UNCHANGED buf PROVE Follows
    BY <2>4
  <2> QED BY <2>2, <2>3, <2>4
          DEF Next, Work, Read, More, Call, SetPinCopy, SetMaxBuffer, Deliver, RefuseBorrow,
              Malformed, AtTheEnd, NeedMore, Trying, FillSticky, window
<1> QED BY <1>1, StreamInvariance, PTL DEF Spec, BufferFollowsItem

-----------------------------------------------------------------------------
(***************************************************************************)
(* The stream implements its promise: every step of Spec is one of the     *)
(* promise's steps, or changes nothing the promise speaks of.              *)
(***************************************************************************)
\* Bytes are left exactly if an item is.
LEMMA LeftIffBytes ==
  ASSUME SInv
  PROVE  /\ off < end => A!Left
         /\ off >= end /\ read = Total => ~A!Left
         /\ A!Kind = Kind
<1>1. /\ next \in Nat /\ next <= Len(src.ends) /\ src \in Sources /\ off \in Nat /\ end \in Nat
      /\ off <= end /\ Start(next) + (end - off) = read
  BY DEF SInv, TypeOK, Honest, WindowHolds
<1>2. Len(src.ends) \in Nat /\ Total \in Nat
  BY <1>1, Positions
<1>3. ASSUME off < end PROVE A!Left
  BY <1>2, <1>3, ItemThere DEF A!Left
<1>4. ASSUME off >= end, read = Total PROVE ~A!Left
  <2> SUFFICES ASSUME A!Left PROVE FALSE
    OBVIOUS
  <2>1. next \in 0 .. Len(src.ends) - 1 /\ next \in 0 .. Len(src.ends)
    BY <1>1, <1>2 DEF A!Left
  <2>2. Start(next) < Total /\ Start(next) \in Nat
    BY <2>1, <1>1, Positions
  <2> QED BY <2>2, <1>1, <1>4
<1> QED BY <1>3, <1>4 DEF A!Kind, Kind

\* A refill either changes nothing the promise speaks of, or answers: "true"
\* with bytes in the window, and otherwise "false" or the error e beside none.
LEMMA FilledAnswers ==
  ASSUME NEW e, Filled(e), e = "nil" => off' < end',
         off' \in Int, end' \in Int
  PROVE  \/ UNCHANGED answer
         \/ answer' = "true" /\ off' < end'
         \/ answer' = "false" /\ off' >= end'
         \/ answer' = e /\ e # "nil" /\ off' >= end'
BY DEF Filled, Return

\* A stream hands over the items of its source, each once and in order, and
\* answers anything else only for a reason in the source or in its reader,
\* for every cut into reads, cap and reader's error (Next, RawNext, SkipNext,
\* More).
THEOREM StreamKeepsPromise == Spec => Promise
<1>1. Init => A!Init
  BY DEF Init, A!Init
<1>2. SInv /\ SInv' /\ [Next]_vars => [A!Next]_(A!vars)
  <2> SUFFICES ASSUME SInv, SInv', [Next]_vars PROVE [A!Next]_(A!vars)
    OBVIOUS
  <2> USE DEF Return, reader, options
  <2>a. off \in Nat /\ end \in Nat /\ off' \in Nat /\ end' \in Nat /\ stalls \in Nat
    BY DEF SInv, TypeOK
  <2>b. /\ done => err # "nil"
        /\ err \in {"nil", "eof", "failed"}
        /\ err = "eof" => read = Total
    BY DEF SInv, TypeOK, Honest
  <2>c. off >= end /\ done => ~A!Left \/ err = "failed"
    BY <2>b, LeftIffBytes
  <2>1. ASSUME More PROVE [A!Next]_(A!vars)
    <3>1. UNCHANGED <<src, next, err, stalls>>
      BY <2>1 DEF More
    <3>2. CASE off < end
      BY <2>1, <3>1, <3>2, LeftIffBytes DEF More, A!Next, A!Decline, A!Justified
    <3>3. CASE ~(off < end) /\ done
      BY <2>1, <2>a, <2>c, <3>1, <3>3 DEF More, A!Next, A!Decline, A!Justified
    <3>4. CASE ~(off < end) /\ ~done
      BY <2>1, <3>1, <3>4 DEF More, A!Next, A!Ask
    <3> QED BY <3>2, <3>3, <3>4
  <2>2. ASSUME NEW m \in Methods, Call(m) PROVE [A!Next]_(A!vars)
    BY <2>2 DEF Call, A!Next, A!Ask
  <2>3. ASSUME NEW on \in BOOLEAN, SetPinCopy(on) PROVE [A!Next]_(A!vars)
    BY <2>3 DEF SetPinCopy, A!vars
  <2>4. ASSUME NEW n \in Caps, SetMaxBuffer(n) PROVE [A!Next]_(A!vars)
    BY <2>4 DEF SetMaxBuffer, A!Next, A!Surroundings
  <2>5. ASSUME off < end, Verdict = "nil" PROVE A!Left /\ A!Kind \in {"copied", "borrowed"}
    <3>1. Kind \in ItemKinds
      BY <2>5, ItemThere
    <3>2. Kind \notin {"cut", "bad"}
      BY <2>5 DEF Verdict
    <3> QED BY <2>5, <3>1, <3>2, LeftIffBytes DEF ItemKinds
  <2>6. ASSUME Deliver PROVE [A!Next]_(A!vars)
    BY <2>5, <2>6 DEF Deliver, Trying, A!Next, A!Deliver
  <2>7. ASSUME RefuseBorrow PROVE [A!Next]_(A!vars)
    BY <2>5, <2>7 DEF RefuseBorrow, Trying, A!Next, A!Decline, A!Justified
  <2>8. ASSUME Malformed PROVE [A!Next]_(A!vars)
    <3>1. off < end /\ Kind = "bad"
      BY <2>8 DEF Malformed, Verdict
    <3> QED BY <3>1, <2>8, LeftIffBytes DEF Malformed, Trying, A!Next, A!Decline, A!Justified
  <2>9. ASSUME AtTheEnd PROVE [A!Next]_(A!vars)
    <3>1. UNCHANGED <<src, next, err>> /\ done
      BY <2>9 DEF AtTheEnd, Trying
    <3>2. CASE off < end /\ Verdict = "ErrTruncated" /\ answer' = "truncated"
      <4>1. A!Left /\ (Kind = "cut" \/ end - off < Size)
        BY <3>2, LeftIffBytes DEF Verdict
      <4>2. err = "eof" => end - off >= Size /\ Size \in Nat
        BY <3>2, <2>b, ItemThere
      <4>3. Kind = "cut" \/ err = "failed"
        BY <4>1, <4>2, <3>1, <2>a, <2>b
      <4> QED BY <4>1, <4>3, <3>1, <3>2, LeftIffBytes DEF A!Next, A!Decline, A!Justified
    <3>3. CASE off >= end /\ answer' = "eof"
      BY <2>c, <3>1, <3>3 DEF A!Next, A!Decline, A!Justified
    <3> QED BY <3>2, <3>3, <2>9 DEF AtTheEnd
  <2>10. ASSUME NeedMore PROVE [A!Next]_(A!vars)
    BY <2>10 DEF NeedMore, Trying, A!vars
  <2>11. ASSUME FillSticky PROVE [A!Next]_(A!vars)
    <3>1. /\ UNCHANGED <<src, next, err, stalls, off, end>> /\ err # "nil" /\ Filled(err)
      BY <2>11 DEF FillSticky, Filling, window
    <3>2. \/ UNCHANGED answer
          \/ answer' = "true" /\ off' < end'
          \/ answer' = "false" /\ off' >= end'
          \/ answer' = err /\ off' >= end'
      BY <3>1, <2>a, <2>b, FilledAnswers
    <3>3. off >= end => ~A!Left \/ err = "failed"
      BY <3>1, <2>b, LeftIffBytes
    <3>4. CASE UNCHANGED answer
      BY <3>1, <3>4 DEF A!Next, A!Surroundings
    <3>5. CASE answer' = "true" /\ off' < end'
      BY <3>1, <3>5, LeftIffBytes DEF A!Next, A!Decline, A!Justified
    <3>6. CASE answer' = "false" /\ off' >= end'
      BY <3>1, <3>3, <3>6 DEF A!Next, A!Decline, A!Justified
    <3>7. CASE answer' = err /\ off' >= end'
      BY <3>1, <3>3, <3>7, <2>b DEF A!Next, A!Decline, A!Justified
    <3> QED BY <3>2, <3>4, <3>5, <3>6, <3>7
  <2>12. ASSUME FillTooLarge PROVE [A!Next]_(A!vars)
    <3>1. /\ UNCHANGED <<src, next, err, stalls>> /\ off' = 0 /\ end' = end - off
          /\ Filled("toolarge") /\ end - off = Len(buf) /\ Len(buf) >= max
      BY <2>12 DEF FillTooLarge, Filling, Full
    <3>2. UNCHANGED max /\ max \in Int /\ Len(buf) \in Nat
      BY <2>12, BufferAssumption DEF SInv, TypeOK, FillTooLarge, Filling
    <3>3. off' >= end' => max' <= 0
      BY <3>1, <3>2, <2>a
    <3>4. off' < end' => off < end
      BY <3>1, <2>a
    <3>5. \/ UNCHANGED answer
          \/ answer' = "true" /\ off < end
          \/ answer' \in {"false", "toolarge"} /\ max' <= 0
      BY <3>1, <3>3, <3>4, <2>a, FilledAnswers
    <3> QED BY <3>1, <3>5, LeftIffBytes
            DEF A!Next, A!Decline, A!Justified, A!Surroundings, A!vars
  <2>13. ASSUME Read PROVE [A!Next]_(A!vars)
    <3>1. PICK n \in 0 .. Total - read, e \in {"nil", "eof", "failed"} : FillRead(n, e)
      BY <2>13 DEF Read
    <3>2. /\ UNCHANGED <<src, next>> /\ err' = e /\ err = "nil"
          /\ off' = 0 /\ end' = end - off + n
          /\ stalls' = IF n = 0 /\ e = "nil" THEN stalls + 1 ELSE stalls
          /\ Filled(IF n = 0 THEN e ELSE "nil")
      BY <3>1 DEF FillRead, Filling
    <3>3. n \in Nat /\ (off' >= end' => n = 0) /\ end - off >= 0
      BY <3>2, <2>a, <2>b, Positions DEF SInv, WindowHolds, TypeOK, Honest
    <3>4. ASSUME off' < end' PROVE A!Left
      <4>1. CASE off < end
        BY <4>1, LeftIffBytes
      <4>2. CASE ~(off < end)
        <5>1. /\ next \in Nat /\ next <= Len(src.ends) /\ src \in Sources /\ read \in Nat
              /\ off <= end /\ Start(next) + (end - off) = read
          BY DEF SInv, WindowHolds, TypeOK, Honest
        <5>2. n > 0 /\ off = end
          BY <4>2, <5>1, <3>2, <3>3, <3>4, <2>a
        <5>3. n <= Total - read
          BY <3>1 DEF FillRead
        <5>4. /\ Len(src.ends) \in Nat /\ Total \in Nat
              /\ next \in 0 .. Len(src.ends) /\ Len(src.ends) \in 0 .. Len(src.ends)
          BY <5>1, Positions
        <5>5. Start(next) \in Nat
          BY <5>1, <5>4, Positions
        <5>6. next # Len(src.ends)
          BY <5>1, <5>2, <5>3, <5>4, <5>5, <3>3, <2>a DEF Total
        <5> QED BY <5>1, <5>4, <5>6 DEF A!Left
      <4> QED BY <4>1, <4>2
    <3>5. \/ UNCHANGED answer
          \/ answer' = "true" /\ off' < end'
          \/ answer' = "false" /\ off' >= end'
          \/ answer' = e /\ e # "nil" /\ off' >= end'
      <4>1. CASE n = 0
        <5>1. CASE off' < end'
          BY <4>1, <5>1, <3>2, <2>a, FilledAnswers
        <5>2. CASE ~(off' < end')
          BY <4>1, <5>2, <3>2, <2>a DEF Filled
        <5> QED BY <5>1, <5>2
      <4>2. CASE n # 0
        <5>1. off' < end' /\ Filled("nil")
          BY <4>2, <3>2, <3>3, <2>a
        <5> QED BY <5>1, <2>a DEF Filled
      <4> QED BY <4>1, <4>2
    <3>6. ASSUME off' >= end'
          PROVE  \/ err' = "failed"
                 \/ err' = "eof" /\ ~A!Left
                 \/ err' = "nil" /\ stalls' > 0
      <4>1. n = 0 /\ off >= end
        BY <3>6, <3>2, <3>3, <2>a
      <4>2. e = "eof" => read = Total
        BY <4>1, <3>1, <2>a DEF FillRead, SInv, TypeOK
      <4> QED BY <4>1, <4>2, <3>2, <2>a, LeftIffBytes
    <3>7. CASE UNCHANGED answer
      BY <3>2, <3>7 DEF A!Next, A!Surroundings
    <3>8. CASE answer' = "true" /\ off' < end'
      BY <3>2, <3>4, <3>8 DEF A!Next, A!Decline, A!Justified
    <3>9. CASE answer' = "false" /\ off' >= end'
      BY <3>2, <3>6, <3>9 DEF A!Next, A!Decline, A!Justified
    <3>10. CASE answer' = e /\ e # "nil" /\ off' >= end'
      BY <3>2, <3>6, <3>10 DEF A!Next, A!Decline, A!Justified
    <3> QED BY <3>5, <3>7, <3>8, <3>9, <3>10
  <2>14. ASSUME UNCHANGED vars PROVE [A!Next]_(A!vars)
    BY <2>14 DEF vars, A!vars
  <2> QED BY <2>1, <2>2, <2>3, <2>4, <2>6, <2>7, <2>8, <2>9, <2>10, <2>11, <2>12, <2>13, <2>14
          DEF Next, Work
<1> QED BY <1>1, <1>2, StreamInvariance, PTL DEF Spec, Promise, A!Spec
-----------------------------------------------------------------------------
(***************************************************************************)
(* Progress, without fairness: every step of a call but one refusal leaves *)
(* less ahead.                                                             *)
(***************************************************************************)
\* The model's reader pauses MaxStalls times, and no refill follows the end.
Ahead ==
  /\ stalls <= MaxStalls
  /\ pc = "fill" => ~done

LEMMA AheadInvariance == Spec => []Ahead
<1>1. Init => Ahead
  BY ReaderAssumption DEF Init, Ahead
<1>2. TypeOK /\ Ahead /\ [Next]_vars => Ahead'
  <2> SUFFICES ASSUME TypeOK, Ahead, [Next]_vars PROVE Ahead'
    OBVIOUS
  <2> USE DEF Return, reader, options, Ahead
  <2>1. stalls \in Nat /\ MaxStalls \in Nat
    BY ReaderAssumption DEF TypeOK
  <2>2. ASSUME More PROVE Ahead'
    BY <2>2 DEF More
  <2>3. ASSUME (\E m \in Methods : Call(m)) \/ (\E on \in BOOLEAN : SetPinCopy(on))
               \/ (\E n \in Caps : SetMaxBuffer(n))
        PROVE  Ahead'
    BY <2>3 DEF Call, SetPinCopy, SetMaxBuffer
  <2>4. ASSUME Deliver \/ RefuseBorrow \/ Malformed \/ AtTheEnd \/ NeedMore PROVE Ahead'
    BY <2>4 DEF Deliver, RefuseBorrow, Malformed, AtTheEnd, NeedMore, Trying
  <2>5. ASSUME FillSticky \/ FillTooLarge PROVE Ahead'
    BY <2>5 DEF FillSticky, FillTooLarge, Filling, Filled
  <2>6. ASSUME NEW n \in 0 .. Total - read, NEW e, FillRead(n, e) PROVE Ahead'
    <3>1. pc' \in {"idle", "try"}
      BY <2>6 DEF FillRead, Filled
    <3>2. stalls' <= MaxStalls
      BY <2>1, <2>6 DEF FillRead
    <3> QED BY <3>1, <3>2
  <2>7. ASSUME UNCHANGED vars PROVE Ahead'
    BY <2>7 DEF vars
  <2> QED BY <2>2, <2>3, <2>4, <2>5, <2>6, <2>7 DEF Next, Work, Read
<1> QED BY <1>1, <1>2, StreamTyped, PTL DEF Spec

\* The terms of ToDo are natural numbers.
LEMMA AheadCounted ==
  ASSUME SInv, Ahead
  PROVE  /\ read \in Nat /\ Total \in Nat /\ read <= Total
         /\ stalls \in Nat /\ MaxStalls \in Nat /\ stalls <= MaxStalls
         /\ pc \in {"idle", "try", "fill"} /\ StepsLeft[pc] \in 0 .. 2
         /\ StepsLeft["idle"] = 0 /\ StepsLeft["fill"] = 1 /\ StepsLeft["try"] = 2
<1>1. pc \in {"idle", "try", "fill"} /\ read \in Nat /\ stalls \in Nat
  BY DEF SInv, TypeOK
<1>2. Total \in Nat /\ read <= Total
  BY Positions DEF SInv, Honest
<1>3. StepsLeft["idle"] = 0 /\ StepsLeft["fill"] = 1 /\ StepsLeft["try"] = 2
  BY DEF StepsLeft
<1> QED BY <1>1, <1>2, <1>3, ReaderAssumption DEF Ahead

\* The arithmetic of a step: less is ahead of the reader or the stream, or the
\* same and fewer steps of the round are left.
LEMMA LessAhead ==
  ASSUME NEW t \in Nat, NEW m \in Nat,
         NEW r1 \in Nat, NEW s1 \in Nat, NEW e1 \in {0, 1}, NEW d1 \in {0, 1}, NEW p1 \in 0 .. 2,
         NEW r2 \in Nat, NEW s2 \in Nat, NEW e2 \in {0, 1}, NEW d2 \in {0, 1}, NEW p2 \in 0 .. 2,
         r1 <= r2, r2 <= t, s1 <= s2, s2 <= m, e2 <= e1, d2 <= d1,
         r1 < r2 \/ s1 < s2 \/ e2 < e1 \/ d2 < d1 \/ p2 < p1
  PROVE  4 * (t - r2 + m - s2 + e2 + d2) + p2
           \in 0 .. (4 * (t - r1 + m - s1 + e1 + d1) + p1) - 1
OBVIOUS

\* The buffer is full of one item's bytes, and the item has more.
LEMMA FullMeansOversize ==
  ASSUME SInv, FillTooLarge, pc' = "try"
  PROVE  Oversize
<1>1. /\ Full /\ Len(buf) >= max /\ pc = "fill" /\ off \in Nat /\ end \in Nat
      /\ off <= end /\ src \in Sources /\ read \in Nat /\ read <= Total
      /\ Start(next) + (end - off) = read
  BY DEF FillTooLarge, Filling, SInv, TypeOK, WindowHolds, Honest
<1>2. max \in Int /\ Len(buf) \in Nat
  BY BufferAssumption DEF SInv, TypeOK
<1>3. end - off = Len(buf) /\ Capacity = Len(buf) /\ off < end
  <2>1. off' = 0 /\ end' = end - off /\ Filled("toolarge")
    BY DEF FillTooLarge
  <2>2. ~(off' >= end')
    BY <2>1 DEF Filled, Return
  <2> QED BY <2>1, <2>2, <1>1, <1>2 DEF Full, Capacity
<1>4. next < Len(src.ends) /\ (end - off < Size \/ Kind = "cut")
  BY <1>1, <1>3 DEF SInv, Hungry
<1>5. /\ next \in 0 .. Len(src.ends) - 1 /\ Size \in Nat \ {0}
      /\ Start(next + 1) = Start(next) + Size
  BY <1>3, ItemThere
<1>6. CASE end - off < Size
  BY <1>2, <1>3, <1>4, <1>5, <1>6 DEF Oversize
<1>7. CASE Kind = "cut"
  <2>1. next + 1 = Len(src.ends)
    BY <1>1, <1>5, <1>7, Positions DEF Kind
  <2>2. Total = Start(next) + Size
    BY <2>1, <1>5 DEF Total
  <2>3. next \in 0 .. Len(src.ends)
    BY <1>1, <1>5, Positions
  <2>4. Start(next) \in Nat
    BY <2>3, <1>1, Positions
  <2>5. Len(buf) <= Size
    BY <2>2, <2>4, <1>1, <1>2, <1>3, <1>5
  <2> QED BY <2>5, <1>2, <1>3, <1>4, <1>5, <1>7 DEF Oversize
<1> QED BY <1>4, <1>6, <1>7

\* No step of a call gets nowhere, for every cap, cut and reader, unless it
\* refuses an item that cannot fit (Next, RawNext, SkipNext, More, fill).
THEOREM StreamMovesOn == Spec => MovesOn
<1> DEFINE Moves == pc # "idle" => ToDo' \in 0 .. ToDo - 1 \/ (FillTooLarge /\ Oversize)
<1>1. SInv /\ SInv' /\ Ahead /\ Ahead' /\ [Next]_vars => [Moves]_vars
  <2> SUFFICES ASSUME SInv, SInv', Ahead, Ahead', Next, pc # "idle"
               PROVE  ToDo' \in 0 .. ToDo - 1 \/ (FillTooLarge /\ Oversize)
    OBVIOUS
  <2> USE DEF Return, reader, options
  <2> DEFINE ErrLeft == IF err = "nil" THEN 1 ELSE 0
             DoneLeft == IF done THEN 0 ELSE 1
  <2>1. UNCHANGED src
    BY DEF Next, Work, More, Call, SetPinCopy, SetMaxBuffer, Deliver, RefuseBorrow, Malformed,
           AtTheEnd, NeedMore, Trying, FillSticky, FillTooLarge, Read, FillRead, Filling
  <2>2. /\ read \in Nat /\ Total \in Nat /\ MaxStalls \in Nat /\ stalls \in Nat
        /\ StepsLeft[pc] \in 0 .. 2 /\ ErrLeft \in {0, 1} /\ DoneLeft \in {0, 1}
    BY AheadCounted
  <2>3. /\ read' \in Nat /\ Total' = Total /\ read' <= Total
        /\ stalls' \in Nat /\ stalls' <= MaxStalls
    BY <2>1 DEF SInv, TypeOK, Honest, Ahead, Total, Start
  <2>4. pc' \in {"idle", "try", "fill"} /\ StepsLeft[pc'] \in 0 .. 2
    <3>1. pc' \in {"idle", "try", "fill"}
      BY DEF SInv, TypeOK
    <3> QED BY <3>1 DEF StepsLeft
  <2>5. ErrLeft' \in {0, 1} /\ DoneLeft' \in {0, 1}
    OBVIOUS
  <2>6. ASSUME read <= read', stalls <= stalls', ErrLeft' <= ErrLeft, DoneLeft' <= DoneLeft,
               \/ read < read' \/ stalls < stalls' \/ ErrLeft' < ErrLeft
               \/ DoneLeft' < DoneLeft \/ StepsLeft[pc'] < StepsLeft[pc]
        PROVE  ToDo' \in 0 .. ToDo - 1
    <3>1. /\ ToDo = 4 * (Total - read + MaxStalls - stalls + ErrLeft + DoneLeft) + StepsLeft[pc]
          /\ ToDo' = 4 * (Total - read' + MaxStalls - stalls' + ErrLeft' + DoneLeft')
                       + StepsLeft[pc']
      BY <2>3 DEF ToDo
    <3> HIDE DEF ErrLeft, DoneLeft
    <3>2. 4 * (Total - read' + MaxStalls - stalls' + ErrLeft' + DoneLeft') + StepsLeft[pc']
            \in 0 .. (4 * (Total - read + MaxStalls - stalls + ErrLeft + DoneLeft)
                       + StepsLeft[pc]) - 1
      BY <2>2, <2>3, <2>4, <2>5, <2>6, LessAhead
    <3> QED BY <3>1, <3>2
  <2>7. ASSUME Deliver \/ RefuseBorrow \/ Malformed \/ AtTheEnd \/ NeedMore
        PROVE  ToDo' \in 0 .. ToDo - 1
    <3>1. /\ UNCHANGED <<read, stalls, err, done>> /\ pc = "try" /\ pc' \in {"idle", "fill"}
      BY <2>7 DEF Deliver, RefuseBorrow, Malformed, AtTheEnd, NeedMore, Trying
    <3>2. StepsLeft[pc'] < StepsLeft[pc]
      BY <3>1, AheadCounted
    <3> QED BY <3>1, <3>2, <2>2, <2>6
  <2>8. ASSUME FillSticky PROVE ToDo' \in 0 .. ToDo - 1
    <3>1. UNCHANGED <<read, stalls, err>> /\ ~done /\ done'
      BY <2>8 DEF FillSticky, Filling, Ahead
    <3> QED BY <3>1, <2>2, <2>6
  <2>9. ASSUME FillTooLarge PROVE ToDo' \in 0 .. ToDo - 1 \/ (FillTooLarge /\ Oversize)
    <3>1. /\ UNCHANGED <<read, stalls, err, done>> /\ pc = "fill" /\ pc' \in {"idle", "try"}
      BY <2>9 DEF FillTooLarge, Filling, Filled
    <3>2. CASE pc' = "try"
      BY <2>9, <3>2, FullMeansOversize
    <3>3. CASE pc' = "idle"
      <4>1. StepsLeft[pc'] < StepsLeft[pc]
        BY <3>1, <3>3, AheadCounted
      <4> QED BY <3>1, <4>1, <2>2, <2>6
    <3> QED BY <3>1, <3>2, <3>3
  <2>10. ASSUME NEW n \in 0 .. Total - read, NEW e, FillRead(n, e)
         PROVE  ToDo' \in 0 .. ToDo - 1
    <3>1. /\ read' = read + n /\ n \in Nat
          /\ stalls' = IF n = 0 /\ e = "nil" THEN stalls + 1 ELSE stalls
          /\ err = "nil" /\ err' = e
          /\ done' = (done \/ (e # "nil" /\ n = 0))
      BY <2>10, BufferAssumption DEF FillRead
    <3>2. read <= read' /\ stalls <= stalls' /\ ErrLeft' <= ErrLeft /\ DoneLeft' <= DoneLeft
      <4>1. read <= read' /\ stalls <= stalls'
        BY <3>1, <2>2
      <4>2. ErrLeft' <= ErrLeft
        BY <3>1
      <4>3. done => done'
        BY <3>1, Zenon
      <4>4. DoneLeft' <= DoneLeft
        BY <4>3
      <4> QED BY <4>1, <4>2, <4>4
    <3>3. CASE n > 0
      <4>1. read < read'
        BY <3>1, <3>3, <2>2
      <4> QED BY <3>2, <4>1, <2>6
    <3>4. CASE n = 0 /\ e = "nil"
      <4>1. stalls < stalls'
        BY <3>1, <3>4, <2>2
      <4> QED BY <3>2, <4>1, <2>6
    <3>5. CASE e # "nil"
      <4>1. ErrLeft' < ErrLeft
        BY <3>1, <3>5
      <4> QED BY <3>2, <4>1, <2>6
    <3> QED BY <3>1, <3>3, <3>4, <3>5
  <2> QED BY <2>7, <2>8, <2>9, <2>10
          DEF Next, Work, Read, More, Call, SetPinCopy, SetMaxBuffer
<1> QED BY <1>1, StreamInvariance, AheadInvariance, PTL DEF Spec, MovesOn

=============================================================================
