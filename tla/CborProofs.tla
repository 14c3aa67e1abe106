----------------------------- MODULE CborProofs -----------------------------
(* What the head reader (Decoder.head) returns for every buffer, and what   *)
(* the stacks of calls do that the walks and the encoder keep.              *)
EXTENDS Cbor, Integers, SequencesExt, WellFoundedInduction, TLAPS

\* A byte is a number.
LEMMA ByteRange ==
  ASSUME NEW c \in Byte PROVE c \in Nat /\ c <= 255
BY DEF Byte

\* A byte of the argument, or the zero that stands before its first byte.
LEMMA FromEndType ==
  ASSUME NEW s \in Seq(Byte), NEW k \in Nat
  PROVE  FromEnd(s, k) \in Byte
<1>1. CASE k < Len(s)
  <2>1. Len(s) - k \in 1 .. Len(s)
    BY <1>1
  <2> QED BY <1>1, <2>1 DEF FromEnd
<1>2. CASE ~(k < Len(s))
  BY <1>2 DEF FromEnd, Byte
<1> QED BY <1>1, <1>2

\* The argument of a head is a number, whatever its bytes are.
LEMMA ArgumentType ==
  ASSUME NEW s \in Seq(Byte) PROVE Argument(s) \in Nat
<1>1. FromEnd(s, 0) \in Byte /\ FromEnd(s, 1) \in Byte /\ FromEnd(s, 2) \in Byte
  BY FromEndType
<1>2. FromEnd(s, 0) \in Nat /\ FromEnd(s, 1) \in Nat /\ FromEnd(s, 2) \in Nat
  BY <1>1, ByteRange
<1> QED BY <1>2 DEF Argument, ArgMax

\* The two parts of an initial byte, and what its low part announces.
LEMMA InitialByte ==
  ASSUME NEW c \in Byte
  PROVE  /\ c % 32 \in 0 .. 31
         /\ c \div 32 \in 0 .. 7
         /\ ArgWidth(c % 32) \in {0, 1, 2, 4, 8}
         /\ c % 32 = 31 => ArgWidth(c % 32) = 0
<1>1. c \in Int /\ 0 <= c /\ c <= 255
  BY DEF Byte
<1>2. c % 32 \in 0 .. 31
  BY <1>1
<1>3. c \div 32 \in 0 .. 7
  BY <1>1
<1> QED BY <1>2, <1>3 DEF ArgWidth

\* The shape of what the head reader returns for a cursor at j of a buffer
\* with n bytes: a head that is read leaves the cursor past it, one that is
\* refused leaves it inside the buffer.
HeadOK(r, j, n) ==
  /\ r.err \in {"nil", "ErrTruncated", "ErrMalformed"}
  /\ r.mt \in 0 .. 7
  /\ r.ai \in 0 .. 31
  /\ r.arg \in Nat
  /\ r.indef \in BOOLEAN
  /\ r.indef => r.arg = 0
  /\ r.next \in Nat
  /\ j <= r.next /\ r.next <= n
  /\ r.err = "nil" => j + 1 <= r.next

LEMMA RefusedHeadOK ==
  ASSUME NEW e \in {"ErrTruncated", "ErrMalformed"},
         NEW j \in Nat, NEW k \in Nat, NEW n \in Nat, j <= k, k <= n
  PROVE  HeadOK(RefusedHead(e, k), j, n)
BY DEF HeadOK, RefusedHead

LEMMA ReadHeadOK ==
  ASSUME NEW c \in Byte, NEW rest \in Seq(Byte),
         NEW j \in Nat, NEW k \in Nat, NEW n \in Nat, j + 1 <= k, k <= n,
         c % 32 = 31 => rest = <<>>
  PROVE  HeadOK(ReadHead(c, rest, k), j, n)
<1>1. c % 32 \in 0 .. 31 /\ c \div 32 \in 0 .. 7
  BY InitialByte
<1>2. Argument(rest) \in Nat
  BY ArgumentType
<1>3. c % 32 = 31 => Argument(rest) = 0
  BY DEF Argument, FromEnd
<1> DEFINE r == ReadHead(c, rest, k)
<1>4. /\ r.arg = IF c % 32 < 24 THEN c % 32 ELSE Argument(rest)
      /\ r.indef <=> c % 32 = 31
  BY Zenon DEF ReadHead
<1>5. /\ r.err = "nil" /\ r.mt = c \div 32 /\ r.ai = c % 32
      /\ r.indef \in BOOLEAN /\ r.next = k
  BY DEF ReadHead
<1> HIDE DEF r
<1>6. r.arg \in Nat /\ (r.indef => r.arg = 0)
  BY <1>1, <1>2, <1>3, <1>4
<1>7. HeadOK(r, j, n)
  BY <1>1, <1>5, <1>6 DEF HeadOK
<1> QED BY <1>7 DEF r

\* Decoder.head never leaves the buffer, and makes progress when it succeeds.
LEMMA HeadType ==
  ASSUME NEW s \in Seq(Byte), NEW j \in Nat, j <= Len(s)
  PROVE  HeadOK(HeadAt(s, j), j, Len(s))
<1> DEFINE c == s[j + 1]
           end == j + 1 + ArgWidth(c % 32)
<1>1. CASE j >= Len(s)
  <2>1. HeadAt(s, j) = RefusedHead("ErrTruncated", j)
    BY <1>1 DEF HeadAt
  <2> QED BY <2>1, RefusedHeadOK
<1>2. CASE j < Len(s)
  <2>1. c \in Byte
    BY <1>2
  <2>2. end \in Nat /\ j + 1 <= end /\ (c % 32 = 31 => end = j + 1)
    BY <2>1, InitialByte
  <2>3. CASE c % 32 \in 28 .. 30
    <3>1. HeadAt(s, j) = RefusedHead("ErrMalformed", j + 1)
      BY <1>2, <2>3 DEF HeadAt
    <3> QED BY <1>2, <3>1, RefusedHeadOK
  <2>4. CASE c % 32 \notin 28 .. 30 /\ end > Len(s)
    <3>1. HeadAt(s, j) = RefusedHead("ErrTruncated", j + 1)
      BY <1>2, <2>4 DEF HeadAt
    <3> QED BY <1>2, <3>1, RefusedHeadOK
  <2>5. CASE c % 32 \notin 28 .. 30 /\ end <= Len(s)
    <3>1. HeadAt(s, j) = ReadHead(c, SubSeq(s, j + 2, end), end)
      BY <1>2, <2>2, <2>5 DEF HeadAt
    <3> HIDE DEF c, end
    <3>2. SubSeq(s, j + 2, end) \in Seq(Byte)
      BY <2>2, <2>5
    <3>3. c % 32 = 31 => SubSeq(s, j + 2, end) = <<>>
      BY <2>2
    <3>4. Len(s) \in Nat
      OBVIOUS
    <3> DEFINE rest == SubSeq(s, j + 2, end)
    <3> HIDE DEF rest
    <3>5. rest \in Seq(Byte) /\ (c % 32 = 31 => rest = <<>>)
      BY <3>2, <3>3 DEF rest
    <3>6. HeadOK(ReadHead(c, rest, end), j, Len(s))
      BY <2>1, <2>2, <2>5, <3>4, <3>5, ReadHeadOK
    <3> QED BY <3>1, <3>6 DEF rest
  <2> HIDE DEF c, end
  <2> QED BY <2>2, <2>3, <2>4, <2>5
<1> QED BY <1>1, <1>2

-----------------------------------------------------------------------------
(***************************************************************************)
(* Sequences as stacks, innermost last: what a call that returns, a call   *)
(* that is made and a change of the innermost frame leave of those below.  *)
(***************************************************************************)
\* Returning from a call leaves the frames below as they were.
LEMMA FrontOf ==
  ASSUME NEW S, NEW s \in Seq(S), s # <<>>
  PROVE  /\ Front(s) \in Seq(S)
         /\ Len(Front(s)) = Len(s) - 1
         /\ \A k \in 1 .. Len(s) - 1 : Front(s)[k] = s[k]
<1>1. Len(s) \in Nat /\ Len(s) # 0
  OBVIOUS
<1>2. Front(s) = SubSeq(s, 1, Len(s) - 1)
  BY DEF Front
<1>3. SubSeq(s, 1, Len(s) - 1) \in Seq(S)
  BY <1>1
<1>4. Len(SubSeq(s, 1, Len(s) - 1)) = Len(s) - 1
  <2> DEFINE n == Len(s) - 1
  <2>1. n \in Nat /\ n <= Len(s)
    BY <1>1
  <2> HIDE DEF n
  <2>2. Len(SubSeq(s, 1, n)) = n
    BY <2>1
  <2> QED BY <2>2 DEF n
<1>5. \A k \in 1 .. Len(s) - 1 : SubSeq(s, 1, Len(s) - 1)[k] = s[k]
  BY <1>1
<1> QED BY <1>2, <1>3, <1>4, <1>5

\* Making a call leaves the frames below as they were.
LEMMA Appended ==
  ASSUME NEW S, NEW s \in Seq(S), NEW f \in S
  PROVE  /\ Append(s, f) \in Seq(S)
         /\ Len(Append(s, f)) = Len(s) + 1
         /\ \A k \in 1 .. Len(s) + 1 :
              Append(s, f)[k] = IF k = Len(s) + 1 THEN f ELSE s[k]
  OBVIOUS

\* Replacing the innermost frame leaves the frames below as they were.
LEMMA LastReplaced ==
  ASSUME NEW S, NEW s \in Seq(S), s # <<>>, NEW f \in S
  PROVE  /\ [s EXCEPT ![Len(s)] = f] \in Seq(S)
         /\ Len([s EXCEPT ![Len(s)] = f]) = Len(s)
         /\ \A k \in 1 .. Len(s) :
              [s EXCEPT ![Len(s)] = f][k] = IF k = Len(s) THEN f ELSE s[k]
  OBVIOUS

-----------------------------------------------------------------------------
\* The first of some places: the order of the naturals is well founded.
LEMMA FirstOf ==
  ASSUME NEW T \in SUBSET Nat, T # {}
  PROVE  \E x \in T : \A y \in T : x <= y
<1> DEFINE R == OpToRel(<, Nat)
<1>1. IsWellFoundedOn(R, Nat)
  BY NatLessThanWellFounded
<1>2. R = {ss \in Nat \X Nat : ss[1] < ss[2]}
  BY DEF OpToRel
<1> HIDE DEF R
<1>3. PICK x \in T : \A y \in T : ~ (<<y, x>> \in R)
  BY <1>1, WFMin
<1>4. \A y \in T : ~ (y < x)
  BY <1>2, <1>3
<1> QED BY <1>3, <1>4

\* A set that has 0 and, up to n, the successor of each of its numbers.
LEMMA UpToN ==
  ASSUME NEW n \in Nat, NEW T, 0 \in T, \A k \in 0 .. n - 1 : k \in T => k + 1 \in T
  PROVE  \A k \in 0 .. n : k \in T
<1> SUFFICES ASSUME NEW j \in 0 .. n, j \notin T PROVE FALSE
  OBVIOUS
<1> DEFINE F == {k \in Nat : k <= n /\ k \notin T}
<1>1. F \in SUBSET Nat /\ F # {}
  <2>1. j \in F
    OBVIOUS
  <2> QED BY <2>1
<1>2. PICK x \in F : \A y \in F : x <= y
  BY ONLY <1>1, FirstOf
<1>3. x \in Nat /\ x <= n /\ x \notin T /\ x # 0
  BY <1>2
<1>4. x - 1 \in 0 .. n - 1 /\ (x - 1) + 1 = x /\ ~(x <= x - 1)
  BY <1>3
<1>5. x - 1 \notin F /\ x - 1 \in Nat /\ x - 1 <= n
  BY <1>2, <1>4
<1>6. x - 1 \in T
  BY <1>5
<1> QED BY <1>3, <1>4, <1>6
=============================================================================
