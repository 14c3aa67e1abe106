------------------------------- MODULE Parity -------------------------------
(***************************************************************************)
(* Two walks side by side.  The methods of a Decoder promise things about  *)
(* each other (decoder.go, skip.go, json.go, raw.go: "an item it accepts   *)
(* is an item Decode would build"), and a stream relies on what a walk     *)
(* over a cut-off buffer says about the same walk over more of it.  Each   *)
(* side reads one item over a buffer of its own.                           *)
(***************************************************************************)
EXTENDS Cbor, Limits, Integers

CONSTANTS
  Buffers,   \* buffers two methods read
  Cuts,      \* buffers one method reads whole and cut short
  Methods    \* pairs <<the left walk's method, the right walk's method>>

ASSUME BuffersAssumption == Buffers \subseteq Seq(Byte) /\ Cuts \subseteq Seq(Byte)

Ops == {"decode", "json", "strict", "skip"}

\* Nothing promises that DecodeJSON, which takes text keys only, accepts what
\* another method does.
ASSUME MethodsAssumption ==
  /\ Methods \subseteq Ops \X Ops
  /\ \A m \in Methods : m[2] = "json" => m[1] = "json"

VARIABLES
  lb, li, litems, lop, lstart, lpc, lstack, lret, lerr,
  rb, ri, ritems, rop, rstart, rpc, rstack, rret, rerr

L == INSTANCE Walk WITH
       Inputs <- Seq(Byte), Ops <- Ops,
       b <- lb, i <- li, items <- litems, op <- lop, start <- lstart,
       pc <- lpc, stack <- lstack, ret <- lret, err <- lerr

R == INSTANCE Walk WITH
       Inputs <- Seq(Byte), Ops <- Ops,
       b <- rb, i <- ri, items <- ritems, op <- rop, start <- rstart,
       pc <- rpc, stack <- rstack, ret <- rret, err <- rerr

lvars == <<lb, li, litems, lop, lstart, lpc, lstack, lret, lerr>>
rvars == <<rb, ri, ritems, rop, rstart, rpc, rstack, rret, rerr>>
vars == <<lvars, rvars>>

Init ==
  /\ \/ /\ rb \in Buffers /\ lb = rb
        /\ \E m \in Methods : lop = m[1] /\ rop = m[2]
     \/ /\ rb \in Cuts /\ lop \in Ops /\ rop = lop
        /\ \E k \in 0 .. Len(rb) - 1 : lb = SubSeq(rb, 1, k)
  /\ L!Init
  /\ R!Init

Both == L!Step /\ R!Step
LeftOn == L!Step /\ rpc = "done" /\ UNCHANGED rvars
RightOn == R!Step /\ lpc = "done" /\ UNCHANGED lvars

Next == Both \/ LeftOn \/ RightOn

Spec == Init /\ [][Next]_vars

-----------------------------------------------------------------------------
BothDone == lpc = "done" /\ rpc = "done"

\* The ways in which a method is known to accept more than another one.
\* DecodeJSON reads on inside a tagged key at the depth of the tag
\* (json.go:201); the framing walks have no cap for an indefinite container
\* (skip.go:119), nor DecodeJSON for pairs whose keys repeat (json.go:158);
\* the walk of Skip and RawNext does not look at text (raw.go:59).
Excused(l, r) ==
  (IF l = "json" THEN {"ErrDepth"} ELSE {})
    \cup (IF r = "decode" THEN {"ErrTooLarge"} ELSE {})
    \cup (IF l = "skip" THEN {"ErrMalformed"} ELSE {})

\* What the left method accepts, the right one accepts with the same span, or
\* refuses for a reason the two are known to differ in (the root
\* package's skip.go:15, json.go:20 and decoder.go:91 promise it of their pairs).  decode asks no excuse.
Covered ==
  BothDone /\ lb = rb /\ lerr = "nil" =>
    \/ rerr = "nil" /\ ri = li
    \/ lop # "decode" /\ rerr \in Excused(lop, rop)

\* A method, a method that accepts all it does, and a method itself on more.
Narrower ==
  {<<"decode", "strict">>, <<"decode", "skip">>, <<"strict", "skip">>}
    \cup {<<o, o>> : o \in Ops}

\* While the narrower walk has not failed the other one is in the same state:
\* the walks share one grammar, one limit check and one budget, step by step,
\* so that neither can drift into another reading of the same bytes.
InStep ==
  <<lop, rop>> \in Narrower /\ (lpc # "done" \/ lerr = "nil") =>
    /\ rpc = lpc /\ ri = li /\ ritems = litems
    /\ rstack = lstack /\ rerr = lerr

\* More input never changes a verdict other than ErrTruncated, nor the span
\* it is about: limits.go:14 "More bytes might complete it, which is what
\* separates it from ErrMalformed".  A stream that retries on ErrTruncated
\* alone therefore neither loses nor splits an item.
Stable ==
  BothDone /\ lop = rop /\ lerr # "ErrTruncated" =>
    rerr = lerr /\ ri = li /\ ritems = litems
=============================================================================
