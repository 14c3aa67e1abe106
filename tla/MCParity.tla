------------------------------ MODULE MCParity ------------------------------
(* Model-checking instances of Parity: which buffers and which methods the  *)
(* two walks of a run have.                                                 *)
EXTENDS Parity, FiniteSets, Families

\* BOUND: buffers of three heads of every kind, and of a chunked text, a map
\* or an array with four more bytes: keys of every kind, nesting, breaks.
Samples ==
  UpTo({0, 28, 65, 95, 97, 129, 159, 161, 191, 193, 224, 248, 255}, 3)
    \cup Starting({127}, {96, 97, 129, 255}, 4)
    \cup Starting({161, 162, 191}, {0, 96, 193, 255}, 4)
    \cup Starting({129, 159}, {0, 159, 193, 255}, 4)

\* BOUND: fewer heads, since every sample is read once for every cut of it.
CutSamples ==
  UpTo({0, 25, 28, 66, 97, 130, 161, 193, 255}, 3)
    \cup Starting({95, 127, 191}, {64, 97, 193, 255}, 4)

\* Every pair of which one is said to accept what the other does.
Pairs ==
  {<<"decode", "strict">>, <<"decode", "skip">>, <<"strict", "skip">>,
   <<"json", "decode">>, <<"json", "strict">>, <<"json", "skip">>,
   <<"strict", "decode">>, <<"skip", "decode">>}
=============================================================================
