------------------------------- MODULE Rules --------------------------------
(***************************************************************************)
(* The grammar a walk stands for, as rules: what makes bytes an item that  *)
(* method o accepts (RFC 8949 section 3, narrowed by what each method's    *)
(* builder can hold) under the limits other than MaxTotalItems.  A fact    *)
(* says that the bytes of s between two offsets are an item, a key, n      *)
(* items in a row, ...; Derived are the facts that the rules force, the    *)
(* least set that is closed under them.  Grammar computes the same facts   *)
(* by recursion, for TLC.                                                  *)
(***************************************************************************)
EXTENDS Cbor, Limits, Integers

\* The content of a string: only text is validated, and not by a plain skip.
GoodContent(o, mt, s) ==
  /\ Len(s) <= MaxStringBytes
  /\ mt = mtText /\ o # "skip" => ValidUTF8(s)

\* The elements or pairs of a container.  Framing counts declared ones only,
\* and DecodeJSON counts the distinct keys of an indefinite map, not its pairs.
GoodCount(o, mt, indef, n) ==
  \/ n <= (IF mt = mtMap THEN MaxMapPairs ELSE MaxArrayElements)
  \/ indef /\ o \in {"skip", "strict"}
  \/ indef /\ o = "json" /\ mt = mtMap

GoodSimple(o, ai, arg) ==
  IF o = "json" THEN ai \in 20 .. 23 \cup 25 .. 27
                ELSE ai \in 0 .. 23 \cup 25 .. 27 \/ (ai = 24 /\ arg >= 32)

From(s, k) == SubSeq(s, k, Len(s))

-----------------------------------------------------------------------------
\* The facts, each about the bytes of a buffer from one offset to another.

\* One item, read by a call at depth d.
Item(from, to, d) == [t |-> "item", from |-> from, to |-> to, d |-> d]

\* One key of a map whose items are read at depth d.
Key(from, to, d) == [t |-> "key", from |-> from, to |-> to, d |-> d]

\* A text string, or tags around one.
Text(from, to) == [t |-> "text", from |-> from, to |-> to]

\* n items in a row; in a map every second one, from the first, is a key.
Row(from, to, n, d, map) ==
  [t |-> "row", from |-> from, to |-> to, n |-> n, d |-> d, map |-> map]

\* n definite strings of type mt in a row, and what they hold together.
Run(mt, from, to, n, c) ==
  [t |-> "run", mt |-> mt, from |-> from, to |-> to, n |-> n, c |-> c]

Those(X, t) == {x \in X : x.t = t}

Levels == 0 .. MaxDepth

\* g is the head of a definite string that lies in s.
StringIn(s, g) ==
  /\ g.err = "nil" /\ g.mt \in {mtBytes, mtText} /\ ~g.indef
  /\ g.next + g.arg <= Len(s)

Content(s, g) == SubSeq(s, g.next + 1, g.next + g.arg)

BreakAt(s, j) == j \in 0 .. Len(s) - 1 /\ s[j + 1] = Break

-----------------------------------------------------------------------------
\* Integers, simple values and floats are their heads.
Atom(o, g) ==
  \/ g.mt \in {mtUint, mtNegInt} /\ ~g.indef
  \/ g.mt = mtSimple /\ GoodSimple(o, g.ai, g.arg)

AtomRule(o, s, j, g, X) == Atom(o, g) => \A d \in Levels : Item(j, g.next, d) \in X

\* A definite string; jsonPair takes one for a key at any depth.
StringRule(o, s, j, g, X) ==
  StringIn(s, g) /\ GoodContent(o, g.mt, Content(s, g)) =>
    /\ \A d \in Levels : Item(j, g.next + g.arg, d) \in X
    /\ o = "json" => \A d \in {-1} \cup Levels : Key(j, g.next + g.arg, d) \in X

\* An indefinite string: a run of chunks, then a break.
ChunksRule(o, s, j, g, X) ==
  g.mt \in {mtBytes, mtText} /\ g.indef =>
    \A x \in Those(X, "run"), d \in Levels :
      x.mt = g.mt /\ x.from = g.next /\ BreakAt(s, x.to) /\ GoodContent(o, g.mt, x.c) =>
        Item(j, x.to + 1, d) \in X

\* A tag takes a level of its own, except in front of the key of a JSON map.
TagRule(o, s, j, g, X) ==
  g.mt = mtTag /\ ~g.indef =>
    /\ \A x \in Those(X, "item") :
         x.from = g.next =>
           /\ x.d + 1 \in Levels => Item(j, x.to, x.d + 1) \in X
           /\ o = "json" /\ Text(x.from, x.to) \in X => Key(j, x.to, x.d) \in X
    /\ \A x \in Those(X, "text") : x.from = g.next => Text(j, x.to) \in X

\* A container: a row of its declared length, or one up to a break.
ContainerRule(o, s, j, g, X) ==
  g.mt \in {mtArray, mtMap} =>
    \A x \in Those(X, "row") :
      LET map   == g.mt = mtMap
          pairs == IF map THEN x.n \div 2 ELSE x.n
      IN  /\ x.from = g.next /\ x.map = map /\ x.d + 1 \in Levels
          /\ map => x.n % 2 = 0
          /\ GoodCount(o, g.mt, g.indef, pairs)
          => IF g.indef THEN BreakAt(s, x.to) => Item(j, x.to + 1, x.d + 1) \in X
                        ELSE pairs = g.arg => Item(j, x.to, x.d + 1) \in X

\* A row and a run begin anywhere, with nothing.
EmptyRule(s, X) ==
  \A j \in 0 .. Len(s) :
    /\ \A mt \in {mtBytes, mtText} : Run(mt, j, j, 0, <<>>) \in X
    /\ \A d \in {-1} \cup Levels, map \in BOOLEAN : Row(j, j, 0, d, map) \in X

\* A run takes in a chunk of its own type.
RunRule(s, X) ==
  \A x \in Those(X, "run") :
    LET g == HeadAt(s, x.to)
    IN  StringIn(s, g) /\ g.mt = x.mt =>
          Run(x.mt, x.from, g.next + g.arg, x.n + 1, x.c \o Content(s, g)) \in X

\* A row takes in an item, or a key.
RowRule(s, X) ==
  \A x \in Those(X, "row"), to \in 0 .. Len(s) :
    (IF x.map /\ x.n % 2 = 0 THEN Key(x.to, to, x.d) ELSE Item(x.to, to, x.d)) \in X =>
      Row(x.from, to, x.n + 1, x.d, x.map) \in X

\* Go's map[string]any has strings for keys; the other methods take any item.
ItemRule(o, s, X) ==
  \A x \in Those(X, "item") :
    LET g == HeadAt(s, x.from)
    IN  /\ o # "json" \/ g.mt \in {mtBytes, mtText} => Key(x.from, x.to, x.d) \in X
        /\ g.mt = mtText => Text(x.from, x.to) \in X

\* X has every fact that the rules derive from those it has.
RulesHold(o, s, X) ==
  /\ \A j \in 0 .. Len(s) :
       LET g == HeadAt(s, j)
       IN  g.err = "nil" => /\ AtomRule(o, s, j, g, X)
                            /\ StringRule(o, s, j, g, X)
                            /\ ChunksRule(o, s, j, g, X)
                            /\ TagRule(o, s, j, g, X)
                            /\ ContainerRule(o, s, j, g, X)
  /\ EmptyRule(s, X)
  /\ RunRule(s, X)
  /\ RowRule(s, X)
  /\ ItemRule(o, s, X)

\* The facts that hold of s for method o: no more than the rules force.
Derived(o, s, fact) == \A X : RulesHold(o, s, X) => fact \in X
=============================================================================
