------------------------------- MODULE MCWalk -------------------------------
(* Model-checking instances of Walk: small families of inputs, and the      *)
(* properties of one Decoder that its runs check.                           *)
EXTENDS Walk, Grammar, Families

\* A head of every kind: integers of each width, a reserved argument, strings,
\* containers and tags of each form, simple values, floats, the break.
Heads == {0, 24, 25, 28, 32, 65, 95, 97, 127, 128, 129, 130, 159, 160, 161,
          191, 193, 223, 224, 244, 246, 248, 249, 255}

\* BOUND: three arbitrary bytes; text chunks around a two-byte rune (195 129);
\* maps of up to two pairs with string, tagged and other keys, in an array too.
GrammarInputs ==
  UpTo(Heads, 3)
    \cup Starting({127}, {96, 97, 98, 195, 129, 255}, 5)
    \cup Starting({161, 162, 191}, {0, 64, 96, 97, 193, 255}, 4)
    \cup Starting({129, 159, 191}, {0, 129, 159, 193, 255}, 4)
    \cup Starting({129}, {96, 161, 191, 193, 255}, 5)

\* BOUND: indefinite JSON maps of up to two one-byte pairs.
FullMapInputs == Starting({191}, {0, 64, 96, 255}, 5)

\* BOUND: five bytes, of chunks, containers, tags and strings.
RuleInputs == Starting({127, 159, 161, 191, 193}, {0, 96, 97, 193, 255}, 3)
                \cup Starting({161, 191}, {0, 96, 193, 255}, 4)

\* What the grammar accepts is closed under the rules: a fact they derive is
\* one that it finds.
ASSUME RulesAssumption ==
  \A o \in Ops : \A s \in RuleInputs : RulesHold(o, s, Facts(o, s))

-----------------------------------------------------------------------------
Span == SubSeq(b, start + 1, i)

\* A method that succeeds has stepped over exactly one item of the grammar
\* it stands for, wherever in the buffer it started.
AcceptsItems ==
  pc = "done" /\ err = "nil" => IsItem(op, Span, MaxDepth)

\* A method that fails was not standing at an item it promises to accept.
\* (The budget of MaxTotalItems is the one other reason to refuse.)
RefusesOthers ==
  pc = "done" /\ err # "nil" /\ items <= MaxTotalItems =>
    \A j \in start + 1 .. Len(b) : ~IsItem(op, SubSeq(b, start + 1, j), MaxDepth)

\* limits.go:38 "MaxMapPairs caps one map's pair count", and the other caps
\* their counts: no cap refuses an item too short for a map of more pairs.
CapAllowsItsCount ==
  pc = "done" /\ err = "ErrTooLarge" =>
    \A j \in start + 1 .. start + 2 + 2 * MaxMapPairs :
      j <= Len(b) => ~IsItem(op, SubSeq(b, start + 1, j), MaxDepth)
=============================================================================
