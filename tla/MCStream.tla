------------------------------ MODULE MCStream ------------------------------
(* Model-checking instances of Stream.                                      *)
EXTENDS Stream

CONSTANTS
  Longest,  \* BOUND: how many bytes a source has at most
  Clients   \* which of the clients below there are

VARIABLE client

\* Every source of at most three items of these kinds within Longest bytes.
SourcesOf(kinds) ==
  {[ends |-> <<>>, kinds |-> <<>>]} \cup
  UNION {{s \in [ends : [1 .. n -> 1 .. Longest], kinds : [1 .. n -> kinds]] :
           IsSource(s)} : n \in 1 .. 3}

PlainSources == SourcesOf(ItemKinds \ {"borrowed"})
ByteSources == SourcesOf({"borrowed", "copied"})

\* The first item needs more than the largest buffer.
OversizeSources == {[ends |-> <<Longest>>, kinds |-> <<"copied">>]}

-----------------------------------------------------------------------------
\* Any sequence of calls.
AnyClient == client = "any" /\ Next /\ UNCHANGED client

\* The loop the documentation of More describes, for s.More() { s.Next() }: it
\* ends where More is false or Next hands over no item.
LoopClient ==
  /\ client = "loop"
  /\ \/ answer \in {"none", "item"} /\ More
     \/ answer = "true" /\ Call("next")
     \/ Work
  /\ UNCHANGED client

\* One Next behind the loop, to learn why it ended.
LastNext ==
  /\ client = "loop"
  /\ answer = "false"
  /\ Call("next")
  /\ client' = "last"

LastClient == client = "last" /\ Work /\ UNCHANGED client

ClientInit == Init /\ client \in Clients

\* A call runs to its return, and the loop goes on.
ClientSpec ==
  /\ ClientInit
  /\ [][AnyClient \/ LoopClient \/ LastNext \/ LastClient]_<<vars, client>>
  /\ WF_vars(Work /\ UNCHANGED client)
  /\ WF_vars(LoopClient)

\* The loop More is documented for (stream.go:44) ends with More false and every
\* item of a whole source handed over, or at the item that stops it, unless the
\* reader fails or stalls or an item is too large for the buffer.
Drained ==
  client = "loop" /\ [](err # "failed" /\ stalls = 0 /\ ~Oversize) =>
    <>(/\ pc = "idle"
       /\ \/ answer = "false" /\ next = Len(src.ends)
          \/ answer = "malformed" /\ Kind = "bad"
          \/ answer = "truncated" /\ Kind = "cut")
=============================================================================
