-------------------------------- MODULE Cbor --------------------------------
(***************************************************************************)
(* The wire format as the walks read it: one item head (Decoder.head) and  *)
(* the UTF-8 check the walks hand a text string to (an external kernel).   *)
(* Bytes are 0..255 and offsets are 0-based as in the Go code, so the byte *)
(* at offset i of the input s is s[i + 1].                                 *)
(***************************************************************************)
EXTENDS Naturals, Sequences

Byte == 0 .. 255

Break == 255

\* Major types (decoder.go:18-27).
mtUint   == 0
mtNegInt == 1
mtBytes  == 2
mtText   == 3
mtArray  == 4
mtMap    == 5
mtTag    == 6
mtSimple == 7

Verdicts == {"nil", "ErrTruncated", "ErrMalformed", "ErrDepth", "ErrTooLarge"}

\* BOUND: arguments of ArgMax and more are one value.  An argument is only
\* compared with the limits and with the input's length, all below ArgMax.
ArgMax == 16777216

\* The byte k places before the last, if there is one.
FromEnd(s, k) == IF k < Len(s) THEN s[Len(s) - k] ELSE 0

Argument(s) ==
  IF \E k \in 1 .. Len(s) - 3 : s[k] # 0
    THEN ArgMax
    ELSE 65536 * FromEnd(s, 2) + 256 * FromEnd(s, 1) + FromEnd(s, 0)

\* Bytes of argument after the initial byte.
ArgWidth(ai) ==
  CASE ai = 24 -> 1 [] ai = 25 -> 2 [] ai = 26 -> 4 [] ai = 27 -> 8 [] OTHER -> 0

\* What head() returns at offset i of s, and the offset it leaves behind:
\* an argument cut short has already consumed the initial byte.
RefusedHead(e, j) ==
  [err |-> e, mt |-> 0, ai |-> 0, arg |-> 0, indef |-> FALSE, next |-> j]

ReadHead(c, rest, j) ==
  [err   |-> "nil",
   mt    |-> c \div 32,
   ai    |-> c % 32,
   arg   |-> IF c % 32 < 24 THEN c % 32 ELSE Argument(rest),
   indef |-> c % 32 = 31,
   next  |-> j]

HeadAt(s, i) ==
  LET c == s[i + 1]
      end == i + 1 + ArgWidth(c % 32)
  IN  IF i >= Len(s) THEN RefusedHead("ErrTruncated", i)
      ELSE IF c % 32 \in 28 .. 30 THEN RefusedHead("ErrMalformed", i + 1)
      ELSE IF end > Len(s) THEN RefusedHead("ErrTruncated", i + 1)
      ELSE ReadHead(c, SubSeq(s, i + 2, end), end)

\* What Encoder.head() appends: the shortest form.  BOUND: arguments below 2^16.
HeadBytes(major, arg) ==
  IF arg < 24 THEN <<32 * major + arg>>
  ELSE IF arg <= 255 THEN <<32 * major + 24, arg>>
  ELSE <<32 * major + 25, (arg \div 256) % 256, arg % 256>>

-----------------------------------------------------------------------------
(***************************************************************************)
(* simd.ValidUTF8: every byte that is not a continuation opens a rune of   *)
(* the length its value announces, and the continuations belong to one.    *)
(***************************************************************************)
Continuation == 128 .. 191

RuneLen(c) ==
  CASE c < 128         -> 1
    [] c \in 194 .. 223 -> 2
    [] c \in 224 .. 239 -> 3
    [] c \in 240 .. 244 -> 4
    [] OTHER           -> 0

\* Second bytes that would spell an overlong form, a surrogate or a rune
\* beyond the last plane.
BadSecond(c, d) ==
  \/ c = 224 /\ d < 160
  \/ c = 237 /\ d > 159
  \/ c = 240 /\ d < 144
  \/ c = 244 /\ d > 143

ValidUTF8(s) ==
  \A k \in 1 .. Len(s) :
    IF s[k] \in Continuation
      THEN \E j \in 1 .. k - 1 :
             /\ k < j + RuneLen(s[j])
             /\ \A m \in j + 1 .. k : s[m] \in Continuation
      ELSE /\ RuneLen(s[k]) > 0
           /\ k + RuneLen(s[k]) - 1 <= Len(s)
           /\ \A m \in k + 1 .. k + RuneLen(s[k]) - 1 : s[m] \in Continuation
           /\ RuneLen(s[k]) > 1 => ~BadSecond(s[k], s[k + 1])
=============================================================================
