-------------------------------- MODULE Raw ---------------------------------
(***************************************************************************)
(* RawArray (internal/codec/raw.go) next to the other methods of a Decoder *)
(* over one buffer: the array's own head is read outside any walk, and     *)
(* each element is framed by a walk of its own (RawNext).                  *)
(***************************************************************************)
EXTENDS Walk

\* RawNext is one of the methods in use.
ASSUME RawAssumption == "skip" \in Ops

VARIABLES
  array,  \* the call of RawArray in progress, or the last one
  raws    \* Decoder.raws: what it has framed, as offsets of the buffer

rawVars == <<array, raws>>
allVars == <<b, i, items, op, start, pc, stack, ret, err, array, raws>>

\* state: "off", "on" in the loop, "framing" in RawNext, "closed", "failed".
Arrays == [state : {"off", "on", "framing", "closed", "failed"},
           from : Nat, body : Nat, indef : BOOLEAN, want : Nat]

Array(state, from, body, indef, want) ==
  [state |-> state, from |-> from, body |-> body, indef |-> indef, want |-> want]

Off == Array("off", 0, 0, FALSE, 0)

Spans == [from : Nat, to : Nat]

\* The caller has control: no method is running, and none has failed.
Idle ==
  /\ pc = "done"
  /\ err = "nil"
  /\ array.state \in {"off", "closed"}

In(state) ==
  /\ array.state = state
  /\ UNCHANGED <<b, items, ret, stack>>

-----------------------------------------------------------------------------
\* Mutant: a claim of all that is left is taken for one beyond it.
ArrayErrorAtEnd ==
  IF h.err # "nil" THEN h.err
  ELSE IF h.mt # mtArray THEN "ErrMalformed"
  ELSE IF h.indef THEN "nil"
  ELSE IF h.arg > MaxArrayElements THEN "ErrTooLarge"
  ELSE IF h.arg >= Len(b) - h.next THEN "ErrTruncated"
  ELSE "nil"

\* What RawArray refuses before it frames anything.
ArrayError ==
  IF h.err # "nil" THEN h.err
  ELSE IF h.mt # mtArray THEN "ErrMalformed"
  ELSE IF h.indef THEN "nil"
  ELSE IF h.arg > MaxArrayElements THEN "ErrTooLarge"
  ELSE IF h.arg > Len(b) - h.next THEN "ErrTruncated"
  ELSE "nil"

\* The head is not counted as an item, and takes no level of depth.
RawStart ==
  /\ Idle
  /\ array' = Array(IF ArrayError = "nil" THEN "on" ELSE "failed", i, h.next, h.indef, h.arg)
  /\ raws' = IF h.err = "nil" /\ h.mt = mtArray THEN <<>> ELSE raws
  /\ i' = h.next
  /\ start' = h.next
  /\ UNCHANGED <<b, items, op, pc, stack, ret, err>>

\* RawNext, for one more element.
RawMore ==
  /\ In("on")
  /\ IF array.indef THEN i < Len(b) /\ ~AtBreak ELSE Len(raws) < array.want
  /\ op' = "skip"
  /\ start' = i
  /\ pc' = "call"
  /\ array' = [array EXCEPT !.state = "framing"]
  /\ UNCHANGED <<i, err, raws>>

\* Mutant: the message begins at the array's head.
MessageFromHead == [from |-> array.from, to |-> i]

Message == [from |-> start, to |-> i]

\* It has returned.
RawAppend ==
  /\ In("framing")
  /\ pc = "done"
  /\ IF err = "nil"
       THEN /\ raws' = Append(raws, Message)
            /\ array' = [array EXCEPT !.state = "on"]
       ELSE /\ array' = [array EXCEPT !.state = "failed"]
            /\ UNCHANGED raws
  /\ UNCHANGED <<i, op, start, pc, err>>

\* atBreak at the end of the input.
RawCut ==
  /\ In("on")
  /\ array.indef
  /\ i >= Len(b)
  /\ array' = [array EXCEPT !.state = "failed"]
  /\ UNCHANGED <<i, op, start, pc, err, raws>>

RawClose ==
  /\ In("on")
  /\ IF array.indef THEN AtBreak /\ i' = i + 1
                    ELSE Len(raws) = array.want /\ i' = i
  /\ start' = i'
  /\ array' = [array EXCEPT !.state = "closed"]
  /\ UNCHANGED <<op, pc, err, raws>>

-----------------------------------------------------------------------------
\* Another method reads the next item.
OtherMethod ==
  /\ Idle
  /\ Again
  /\ array' = Off
  /\ UNCHANGED raws

WalkStep ==
  /\ Step
  /\ UNCHANGED rawVars

RawInit ==
  /\ b \in Inputs
  /\ i = 0
  /\ items = 0
  /\ op \in Ops
  /\ start = 0
  /\ pc = "done"
  /\ stack = <<>>
  /\ ret = NoString
  /\ err = "nil"
  /\ array = Off
  /\ raws = <<>>

\* What runs to its end once called.
RawWork == WalkStep \/ RawMore \/ RawAppend \/ RawCut \/ RawClose

RawNext == RawWork \/ RawStart \/ OtherMethod

RawSpec == RawInit /\ [][RawNext]_allVars

\* A call runs to its return; nothing obliges a caller to make another.
RawFairSpec == RawSpec /\ WF_allVars(RawWork)

-----------------------------------------------------------------------------
\* The two variables have their types.
RawTypeOK ==
  /\ array \in Arrays
  /\ raws \in Seq(Spans)

\* Where the framed elements end.
MessagesEnd == IF raws = <<>> THEN array.body ELSE raws[Len(raws)].to

\* The messages tile the array: they lie within what has been read, each begins
\* where the one before it ends, the first behind the array's head, and while
\* the call runs nothing is left out between the last and the cursor.
MessagesTile ==
  /\ \A k \in 1 .. Len(raws) : raws[k].from <= raws[k].to /\ raws[k].to <= i
  /\ \A k \in 1 .. Len(raws) - 1 : raws[k].to = raws[k + 1].from
  /\ array.state \in {"on", "framing", "closed"} =>
       /\ raws # <<>> => raws[1].from = array.body
       /\ array.state = "on" => i = MessagesEnd
       /\ array.state = "framing" => start = MessagesEnd
       /\ array.state = "closed" => i = MessagesEnd + (IF array.indef THEN 1 ELSE 0)

\* The walk of every input ends, whatever its heads claim, and so does RawArray.
AllReturn == <>[](pc = "done" /\ array.state \notin {"on", "framing"})
=============================================================================
