----------------------------- MODULE ItemStream -----------------------------
(***************************************************************************)
(* What a stream promises its caller: the items of the source, each once   *)
(* and in order, and an answer other than an item only for a reason found  *)
(* in the source or in its reader -- however the bytes were cut into reads.*)
(***************************************************************************)
EXTENDS Naturals, Sequences

VARIABLES
  src,      \* the source: [ends |-> where each item ends, kinds |-> its kind]
  broken,   \* the reader has failed with an error of its own
  stalled,  \* the reader has once returned neither a byte nor an error
  closed,   \* the cap on the buffer leaves room for no byte
  next,     \* how many items have been handed over
  answer    \* what the last call returned; "none" while one is running

Left == next < Len(src.ends)
Kind == src.kinds[next + 1]

Init ==
  /\ next = 0
  /\ answer = "none"

Ask ==
  /\ answer' = "none"
  /\ UNCHANGED <<src, next>>

Deliver ==
  /\ Left
  /\ Kind \in {"copied", "borrowed"}
  /\ next' = next + 1
  /\ answer' = "item"
  /\ UNCHANGED src

\* Answers that hand nothing over, with the reason each one needs.
Justified(a) ==
  \/ a = "malformed" /\ Left /\ Kind = "bad"
  \/ a = "truncated" /\ Left /\ (Kind = "cut" \/ broken')
  \/ a = "eof" /\ (~Left \/ broken')
  \/ a = "failed" /\ broken'
  \/ a = "toolarge" /\ closed'
  \/ a = "lazy" /\ Left /\ Kind \in {"copied", "borrowed"}
  \/ a = "true" /\ Left
  \/ a = "false" /\ (~Left \/ broken' \/ stalled' \/ closed')

Decline ==
  /\ \E a \in {"malformed", "truncated", "eof", "failed", "toolarge", "lazy",
              "true", "false"} :
       answer' = a /\ Justified(a)
  /\ UNCHANGED <<src, next>>

\* The reader and the cap are the caller's: they fail, stall and change freely.
Surroundings == UNCHANGED <<src, next, answer>>

Next == Ask \/ Deliver \/ Decline \/ Surroundings

vars == <<src, broken, stalled, closed, next, answer>>

Spec == Init /\ [][Next]_vars
=============================================================================
