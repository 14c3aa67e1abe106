----------------------------- MODULE RulesProofs -----------------------------
(***************************************************************************)
(* What the rules derive: by which rule (Just), and no more than one item  *)
(* at an offset (Unique), which is what reading from left to right, with   *)
(* no way back, relies on.                                                 *)
(***************************************************************************)
EXTENDS Rules, CborProofs

-----------------------------------------------------------------------------
\* The length of a piece of a buffer.
LEMMA SliceLength ==
  ASSUME NEW s \in Seq(Byte), NEW j \in Nat, NEW n \in Nat, j + n <= Len(s)
  PROVE  Len(SubSeq(s, j + 1, j + n)) = n
<1>1. j + n - (j + 1) + 1 = n /\ j + n \in 0 .. Len(s) /\ j + 1 \in 1 .. Len(s) + 1
  OBVIOUS
<1> QED BY <1>1

LEMMA JoinLength ==
  ASSUME NEW s \in Seq(Byte), NEW t \in Seq(Byte)
  PROVE  Len(s \o t) = Len(s) + Len(t)
  OBVIOUS

\* A head that is read has none of the reserved lengths.
LEMMA HeadWidth ==
  ASSUME NEW s, NEW j, HeadAt(s, j).err = "nil"
  PROVE  HeadAt(s, j).ai \notin 28 .. 30
BY DEF HeadAt, RefusedHead, ReadHead

-----------------------------------------------------------------------------
\* Each rule, as a fact about what is derived.
LEMMA AtomDerived ==
  ASSUME NEW o, NEW s, NEW j \in 0 .. Len(s), HeadAt(s, j).err = "nil",
         Atom(o, HeadAt(s, j)), NEW d \in Levels
  PROVE  Derived(o, s, Item(j, HeadAt(s, j).next, d))
BY DEF Derived, RulesHold, AtomRule

LEMMA StringDerived ==
  ASSUME NEW o, NEW s, NEW j \in 0 .. Len(s), HeadAt(s, j).err = "nil",
         StringIn(s, HeadAt(s, j)),
         GoodContent(o, HeadAt(s, j).mt, Content(s, HeadAt(s, j)))
  PROVE  LET end == HeadAt(s, j).next + HeadAt(s, j).arg
         IN  /\ \A d \in Levels : Derived(o, s, Item(j, end, d))
             /\ o = "json" => \A d \in {-1} \cup Levels : Derived(o, s, Key(j, end, d))
BY DEF Derived, RulesHold, StringRule

LEMMA ChunksDerived ==
  ASSUME NEW o, NEW s, NEW j \in 0 .. Len(s), HeadAt(s, j).err = "nil",
         HeadAt(s, j).mt \in {mtBytes, mtText}, HeadAt(s, j).indef,
         NEW to, NEW n, NEW c,
         Derived(o, s, Run(HeadAt(s, j).mt, HeadAt(s, j).next, to, n, c)),
         BreakAt(s, to), GoodContent(o, HeadAt(s, j).mt, c),
         NEW d \in Levels
  PROVE  Derived(o, s, Item(j, to + 1, d))
<1> SUFFICES ASSUME NEW X, RulesHold(o, s, X) PROVE Item(j, to + 1, d) \in X
  BY DEF Derived
<1> DEFINE g == HeadAt(s, j)
           x == Run(g.mt, g.next, to, n, c)
<1>1. x \in Those(X, "run") /\ x.mt = g.mt /\ x.from = g.next /\ x.to = to /\ x.c = c
  BY DEF Derived, Run, Those
<1>2. ChunksRule(o, s, j, g, X)
  BY DEF RulesHold
<1> HIDE DEF x, g
<1>3. g.mt \in {mtBytes, mtText} /\ g.indef /\ GoodContent(o, g.mt, c)
  BY DEF g
<1> QED BY <1>1, <1>2, <1>3 DEF ChunksRule

LEMMA TagDerived ==
  ASSUME NEW o, NEW s, NEW j \in 0 .. Len(s), HeadAt(s, j).err = "nil",
         HeadAt(s, j).mt = mtTag, ~HeadAt(s, j).indef,
         NEW to, NEW d, Derived(o, s, Item(HeadAt(s, j).next, to, d))
  PROVE  /\ d + 1 \in Levels => Derived(o, s, Item(j, to, d + 1))
         /\ o = "json" /\ Derived(o, s, Text(HeadAt(s, j).next, to)) =>
              Derived(o, s, Key(j, to, d))
<1> DEFINE g == HeadAt(s, j)
           x == Item(g.next, to, d)
<1>1. ASSUME NEW X, RulesHold(o, s, X)
      PROVE  /\ x \in Those(X, "item") /\ x.from = g.next /\ x.to = to /\ x.d = d
             /\ TagRule(o, s, j, g, X)
  BY <1>1 DEF Derived, RulesHold, Item, Those
<1>2. g.mt = mtTag /\ ~g.indef
  OBVIOUS
<1> HIDE DEF g, x
<1>3. ASSUME d + 1 \in Levels PROVE Derived(o, s, Item(j, to, d + 1))
  BY <1>1, <1>2, <1>3 DEF Derived, TagRule
<1>4. ASSUME o = "json", Derived(o, s, Text(g.next, to)) PROVE Derived(o, s, Key(j, to, d))
  BY <1>1, <1>2, <1>4 DEF Derived, TagRule
<1> QED BY <1>3, <1>4 DEF g

LEMMA TextTagDerived ==
  ASSUME NEW o, NEW s, NEW j \in 0 .. Len(s), HeadAt(s, j).err = "nil",
         HeadAt(s, j).mt = mtTag, ~HeadAt(s, j).indef,
         NEW to, Derived(o, s, Text(HeadAt(s, j).next, to))
  PROVE  Derived(o, s, Text(j, to))
<1> SUFFICES ASSUME NEW X, RulesHold(o, s, X) PROVE Text(j, to) \in X
  BY DEF Derived
<1> DEFINE x == Text(HeadAt(s, j).next, to)
<1>1. x \in Those(X, "text") /\ x.from = HeadAt(s, j).next /\ x.to = to
  BY DEF Derived, Text, Those
<1>2. TagRule(o, s, j, HeadAt(s, j), X)
  BY DEF RulesHold
<1> HIDE DEF x
<1> QED BY <1>1, <1>2 DEF TagRule

LEMMA ContainerDerived ==
  ASSUME NEW o, NEW s, NEW j \in 0 .. Len(s), HeadAt(s, j).err = "nil",
         HeadAt(s, j).mt \in {mtArray, mtMap},
         NEW to, NEW n, NEW d,
         Derived(o, s, Row(HeadAt(s, j).next, to, n, d, HeadAt(s, j).mt = mtMap)),
         d + 1 \in Levels,
         HeadAt(s, j).mt = mtMap => n % 2 = 0,
         NEW size, size = (IF HeadAt(s, j).mt = mtMap THEN n \div 2 ELSE n),
         GoodCount(o, HeadAt(s, j).mt, HeadAt(s, j).indef, size)
  PROVE  /\ HeadAt(s, j).indef /\ BreakAt(s, to) => Derived(o, s, Item(j, to + 1, d + 1))
         /\ ~HeadAt(s, j).indef /\ size = HeadAt(s, j).arg => Derived(o, s, Item(j, to, d + 1))
<1> DEFINE g == HeadAt(s, j)
           x == Row(g.next, to, n, d, g.mt = mtMap)
<1>1. ASSUME NEW X, RulesHold(o, s, X)
      PROVE  /\ x \in Those(X, "row") /\ x.from = g.next /\ x.to = to /\ x.n = n /\ x.d = d
             /\ x.map = (g.mt = mtMap)
             /\ ContainerRule(o, s, j, g, X)
  BY <1>1 DEF Derived, RulesHold, Row, Those
<1>2. /\ g.mt \in {mtArray, mtMap} /\ (g.mt = mtMap => n % 2 = 0)
      /\ size = (IF g.mt = mtMap THEN n \div 2 ELSE n)
      /\ GoodCount(o, g.mt, g.indef, size)
  OBVIOUS
<1> HIDE DEF g, x
<1>3. ASSUME NEW X, RulesHold(o, s, X)
      PROVE  IF g.indef THEN BreakAt(s, to) => Item(j, to + 1, d + 1) \in X
                        ELSE size = g.arg => Item(j, to, d + 1) \in X
  <2>1. /\ x \in Those(X, "row") /\ x.from = g.next /\ x.to = to /\ x.n = n /\ x.d = d
        /\ x.map = (g.mt = mtMap) /\ ContainerRule(o, s, j, g, X)
    BY <1>1, <1>3
  <2>2. /\ x.from = g.next /\ x.map = (g.mt = mtMap) /\ x.d + 1 \in Levels
        /\ g.mt = mtMap => x.n % 2 = 0
        /\ size = (IF g.mt = mtMap THEN x.n \div 2 ELSE x.n)
        /\ GoodCount(o, g.mt, g.indef, size)
    BY <1>2, <2>1
  <2>3. IF g.indef THEN BreakAt(s, x.to) => Item(j, x.to + 1, x.d + 1) \in X
                   ELSE size = g.arg => Item(j, x.to, x.d + 1) \in X
    BY <1>2, <2>1, <2>2, Zenon DEF ContainerRule
  <2> QED BY <2>1, <2>3
<1>4. ASSUME g.indef, BreakAt(s, to) PROVE Derived(o, s, Item(j, to + 1, d + 1))
  BY <1>3, <1>4, Zenon DEF Derived
<1>5. ASSUME ~g.indef, size = g.arg PROVE Derived(o, s, Item(j, to, d + 1))
  BY <1>3, <1>5, Zenon DEF Derived
<1> QED BY <1>4, <1>5 DEF g

LEMMA EmptyDerived ==
  ASSUME NEW o, NEW s, NEW j \in 0 .. Len(s)
  PROVE  /\ \A mt \in {mtBytes, mtText} : Derived(o, s, Run(mt, j, j, 0, <<>>))
         /\ \A d \in {-1} \cup Levels, map \in BOOLEAN : Derived(o, s, Row(j, j, 0, d, map))
BY DEF Derived, RulesHold, EmptyRule

LEMMA RunDerived ==
  ASSUME NEW o, NEW s, NEW mt, NEW from, NEW to, NEW n, NEW c,
         Derived(o, s, Run(mt, from, to, n, c)),
         StringIn(s, HeadAt(s, to)), HeadAt(s, to).mt = mt
  PROVE  Derived(o, s, Run(mt, from, HeadAt(s, to).next + HeadAt(s, to).arg, n + 1,
                           c \o Content(s, HeadAt(s, to))))
<1> DEFINE x == Run(mt, from, to, n, c)
<1> SUFFICES ASSUME NEW X, RulesHold(o, s, X)
             PROVE  Run(mt, from, HeadAt(s, to).next + HeadAt(s, to).arg, n + 1,
                        c \o Content(s, HeadAt(s, to))) \in X
  BY DEF Derived
<1>1. x \in Those(X, "run") /\ x.mt = mt /\ x.from = from /\ x.to = to /\ x.n = n /\ x.c = c
  BY DEF Derived, Run, Those
<1>2. RunRule(s, X)
  BY DEF RulesHold
<1> HIDE DEF x
<1> QED BY <1>1, <1>2 DEF RunRule

LEMMA RowDerived ==
  ASSUME NEW o, NEW s, NEW from, NEW mid, NEW n, NEW d, NEW map,
         Derived(o, s, Row(from, mid, n, d, map)),
         NEW to \in 0 .. Len(s),
         IF map /\ n % 2 = 0 THEN Derived(o, s, Key(mid, to, d)) ELSE Derived(o, s, Item(mid, to, d))
  PROVE  Derived(o, s, Row(from, to, n + 1, d, map))
<1> DEFINE x == Row(from, mid, n, d, map)
<1> SUFFICES ASSUME NEW X, RulesHold(o, s, X) PROVE Row(from, to, n + 1, d, map) \in X
  BY DEF Derived
<1>1. /\ x \in Those(X, "row") /\ x.from = from /\ x.to = mid /\ x.n = n /\ x.d = d
      /\ x.map = map
  BY DEF Derived, Row, Those
<1>2. RowRule(s, X)
  BY DEF RulesHold
<1>3. (IF map /\ n % 2 = 0 THEN Key(mid, to, d) ELSE Item(mid, to, d)) \in X
  BY DEF Derived
<1> HIDE DEF x
<1> QED BY <1>1, <1>2, <1>3 DEF RowRule

LEMMA KeyDerived ==
  ASSUME NEW o, NEW s, NEW from, NEW to, NEW d, Derived(o, s, Item(from, to, d))
  PROVE  /\ o # "json" \/ HeadAt(s, from).mt \in {mtBytes, mtText} =>
              Derived(o, s, Key(from, to, d))
         /\ HeadAt(s, from).mt = mtText => Derived(o, s, Text(from, to))
<1> DEFINE x == Item(from, to, d)
<1>1. ASSUME NEW X, RulesHold(o, s, X)
      PROVE  /\ x \in Those(X, "item") /\ x.from = from /\ x.to = to /\ x.d = d
             /\ ItemRule(o, s, X)
  BY <1>1 DEF Derived, RulesHold, Item, Those
<1> HIDE DEF x
<1>2. ASSUME o # "json" \/ HeadAt(s, from).mt \in {mtBytes, mtText}
      PROVE  Derived(o, s, Key(from, to, d))
  BY <1>1, <1>2 DEF Derived, ItemRule
<1>3. ASSUME HeadAt(s, from).mt = mtText PROVE Derived(o, s, Text(from, to))
  BY <1>1, <1>3 DEF Derived, ItemRule
<1> QED BY <1>2, <1>3

-----------------------------------------------------------------------------
(***************************************************************************)
(* The facts that can be derived at all lie in the buffer: an item takes a *)
(* byte and a level, a row a byte for each of its items.                   *)
(***************************************************************************)
Offsets(s) == 0 .. Len(s)

Stated(s) ==
  {x \in [t : {"item"}, from : Offsets(s), to : Offsets(s), d : Levels] : x.from < x.to}
    \cup {x \in [t : {"key"}, from : Offsets(s), to : Offsets(s), d : {-1} \cup Levels] :
            x.from < x.to}
    \cup [t : {"text"}, from : Offsets(s), to : Offsets(s)]
    \cup {x \in [t : {"row"}, from : Offsets(s), to : Offsets(s), n : Nat,
                 d : {-1} \cup Levels, map : BOOLEAN] : x.from + x.n <= x.to}
    \cup {x \in [t : {"run"}, mt : {mtBytes, mtText}, from : Offsets(s), to : Offsets(s),
                 n : Nat, c : Seq(Byte)] : x.from + x.n <= x.to}

\* The same, fact by fact.
LEMMA StatedItem ==
  ASSUME NEW s, NEW from, NEW to, NEW d
  PROVE  Item(from, to, d) \in Stated(s) <=>
           from \in Offsets(s) /\ to \in Offsets(s) /\ d \in Levels /\ from < to
BY DEF Stated, Item

LEMMA StatedKey ==
  ASSUME NEW s, NEW from, NEW to, NEW d
  PROVE  Key(from, to, d) \in Stated(s) <=>
           from \in Offsets(s) /\ to \in Offsets(s) /\ d \in {-1} \cup Levels /\ from < to
BY DEF Stated, Key

LEMMA StatedText ==
  ASSUME NEW s, NEW from, NEW to
  PROVE  Text(from, to) \in Stated(s) <=> from \in Offsets(s) /\ to \in Offsets(s)
BY DEF Stated, Text

LEMMA StatedRow ==
  ASSUME NEW s, NEW from, NEW to, NEW n, NEW d, NEW map
  PROVE  Row(from, to, n, d, map) \in Stated(s) <=>
           /\ from \in Offsets(s) /\ to \in Offsets(s) /\ n \in Nat /\ from + n <= to
           /\ d \in {-1} \cup Levels /\ map \in BOOLEAN
BY DEF Stated, Row

LEMMA StatedRun ==
  ASSUME NEW s, NEW mt, NEW from, NEW to, NEW n, NEW c
  PROVE  Run(mt, from, to, n, c) \in Stated(s) <=>
           /\ from \in Offsets(s) /\ to \in Offsets(s) /\ n \in Nat /\ from + n <= to
           /\ mt \in {mtBytes, mtText} /\ c \in Seq(Byte)
BY DEF Stated, Run

LEMMA StatedKinds ==
  ASSUME NEW s, NEW x \in Stated(s)
  PROVE  /\ x.t = "item" => x = Item(x.from, x.to, x.d)
         /\ x.t = "key" => x = Key(x.from, x.to, x.d)
         /\ x.t = "text" => x = Text(x.from, x.to)
         /\ x.t = "row" => x = Row(x.from, x.to, x.n, x.d, x.map)
         /\ x.t = "run" => x = Run(x.mt, x.from, x.to, x.n, x.c)
BY DEF Stated, Item, Key, Text, Row, Run

LEMMA HeadInside ==
  ASSUME NEW s \in Seq(Byte), NEW j \in Offsets(s), NEW g, g = HeadAt(s, j), g.err = "nil"
  PROVE  /\ j \in Nat /\ g.next \in Offsets(s) /\ j < g.next /\ j < Len(s)
         /\ g.arg \in Nat /\ g.mt \in 0 .. 7 /\ g.ai \in 0 .. 31 /\ g.indef \in BOOLEAN
         /\ StringIn(s, g) =>
              /\ g.next + g.arg \in Offsets(s) /\ j < g.next + g.arg
              /\ Content(s, g) \in Seq(Byte) /\ Len(Content(s, g)) = g.arg
<1>1. HeadOK(g, j, Len(s)) /\ Len(s) \in Nat /\ j \in Nat
  BY HeadType DEF Offsets
<1>2. /\ g.next \in Offsets(s) /\ j < g.next /\ j < Len(s) /\ g.next \in Nat
      /\ g.arg \in Nat /\ g.mt \in 0 .. 7 /\ g.ai \in 0 .. 31 /\ g.indef \in BOOLEAN
  BY <1>1 DEF HeadOK, Offsets
<1>3. ASSUME StringIn(s, g)
      PROVE  /\ g.next + g.arg \in Offsets(s) /\ j < g.next + g.arg
             /\ Content(s, g) \in Seq(Byte) /\ Len(Content(s, g)) = g.arg
  <2>1. g.next + g.arg <= Len(s)
    BY <1>3 DEF StringIn
  <2>2. Len(Content(s, g)) = g.arg
    BY <1>2, <2>1, SliceLength DEF Content
  <2>3. Content(s, g) \in Seq(Byte)
    <3>1. \A a \in Nat, e \in Nat : e <= Len(s) => SubSeq(s, a + 1, e) \in Seq(Byte)
      OBVIOUS
    <3> QED BY <1>2, <2>1, <3>1 DEF Content
  <2> QED BY <1>1, <1>2, <2>1, <2>2, <2>3 DEF Offsets
<1> QED BY <1>1, <1>2, <1>3

LEMMA BreakInside ==
  ASSUME NEW s \in Seq(Byte), NEW j, BreakAt(s, j)
  PROVE  j \in Offsets(s) /\ j + 1 \in Offsets(s)
BY DEF BreakAt, Offsets

LEMMA StatedClosed ==
  ASSUME NEW o, NEW s \in Seq(Byte)
  PROVE  RulesHold(o, s, Stated(s))
<1> DEFINE X == Stated(s)
<1>1. ASSUME NEW j \in 0 .. Len(s), NEW g, g = HeadAt(s, j), g.err = "nil"
      PROVE  /\ AtomRule(o, s, j, g, X) /\ StringRule(o, s, j, g, X)
             /\ ChunksRule(o, s, j, g, X) /\ TagRule(o, s, j, g, X)
             /\ ContainerRule(o, s, j, g, X)
  <2>1. /\ j \in Offsets(s) /\ j \in Nat /\ g.next \in Offsets(s) /\ j < g.next
        /\ StringIn(s, g) => g.next + g.arg \in Offsets(s) /\ j < g.next + g.arg
    BY <1>1, HeadInside DEF Offsets
  <2>2. AtomRule(o, s, j, g, X)
    BY <2>1, StatedItem DEF AtomRule
  <2>3. StringRule(o, s, j, g, X)
    BY <2>1, StatedItem, StatedKey DEF StringRule
  <2>4. ChunksRule(o, s, j, g, X)
    <3> SUFFICES ASSUME NEW x \in Those(X, "run"), NEW d \in Levels, x.from = g.next,
                        BreakAt(s, x.to)
                 PROVE  Item(j, x.to + 1, d) \in X
      BY DEF ChunksRule
    <3>1. x.to \in Offsets(s) /\ x.from + x.n <= x.to /\ x.n \in Nat
      BY DEF Those, Stated
    <3>2. x.to + 1 \in Offsets(s) /\ j < x.to + 1
      BY <2>1, <3>1, BreakInside DEF Offsets
    <3> QED BY <2>1, <3>2, StatedItem
  <2>5. TagRule(o, s, j, g, X)
    <3>1. ASSUME NEW x \in Those(X, "item"), x.from = g.next
          PROVE  /\ x.d + 1 \in Levels => Item(j, x.to, x.d + 1) \in X
                 /\ Key(j, x.to, x.d) \in X
      <4>1. x.to \in Offsets(s) /\ x.from < x.to /\ x.d \in Levels
        BY DEF Those, Stated
      <4>2. j < x.to
        BY <2>1, <3>1, <4>1 DEF Offsets
      <4> QED BY <2>1, <4>1, <4>2, StatedItem, StatedKey
    <3>2. ASSUME NEW x \in Those(X, "text") PROVE Text(j, x.to) \in X
      <4>1. x.to \in Offsets(s)
        BY DEF Those, Stated
      <4> QED BY <2>1, <4>1, StatedText
    <3> QED BY <3>1, <3>2 DEF TagRule
  <2>6. ContainerRule(o, s, j, g, X)
    <3>1. ASSUME NEW x \in Those(X, "row"), x.from = g.next, x.d + 1 \in Levels
          PROVE  /\ BreakAt(s, x.to) => Item(j, x.to + 1, x.d + 1) \in X
                 /\ Item(j, x.to, x.d + 1) \in X
      <4>1. x.to \in Offsets(s) /\ x.from + x.n <= x.to /\ x.n \in Nat
        BY DEF Those, Stated
      <4>2. j < x.to
        BY <2>1, <3>1, <4>1 DEF Offsets
      <4>3. BreakAt(s, x.to) => x.to + 1 \in Offsets(s) /\ j < x.to + 1
        BY <4>1, <4>2, <2>1, BreakInside DEF Offsets
      <4> QED BY <2>1, <3>1, <4>1, <4>2, <4>3, StatedItem
    <3> HIDE DEF X
    <3> QED BY <3>1 DEF ContainerRule
  <2> QED BY <2>2, <2>3, <2>4, <2>5, <2>6
<1>2. EmptyRule(s, X)
  <2>1. <<>> \in Seq(Byte) /\ \A j \in 0 .. Len(s) : j + 0 <= j
    OBVIOUS
  <2> QED BY <2>1, StatedRow, StatedRun DEF EmptyRule, Offsets
<1>3. RunRule(s, X)
  <2> SUFFICES ASSUME NEW x \in Those(X, "run"), NEW g, g = HeadAt(s, x.to), StringIn(s, g)
               PROVE  Run(x.mt, x.from, g.next + g.arg, x.n + 1, x.c \o Content(s, g)) \in X
    BY DEF RunRule
  <2>1. /\ x.from \in Offsets(s) /\ x.to \in Offsets(s) /\ x.n \in Nat /\ x.from + x.n <= x.to
        /\ x.mt \in {mtBytes, mtText} /\ x.c \in Seq(Byte)
    BY DEF Those, Stated
  <2>2. g.err = "nil"
    BY DEF StringIn
  <2>3. g.next + g.arg \in Offsets(s) /\ x.to < g.next + g.arg /\ Content(s, g) \in Seq(Byte)
    BY <2>1, <2>2, HeadInside
  <2>4. x.from + (x.n + 1) <= g.next + g.arg
    BY <2>1, <2>3 DEF Offsets
  <2>5. x.c \o Content(s, g) \in Seq(Byte)
    BY <2>1, <2>3
  <2>6. x.n + 1 \in Nat
    BY <2>1
  <2>7. ASSUME NEW e \in Offsets(s), NEW m \in Nat, x.from + m <= e, NEW c \in Seq(Byte)
        PROVE  Run(x.mt, x.from, e, m, c) \in X
    BY <2>1, <2>7, StatedRun
  <2> HIDE DEF X
  <2> QED BY <2>3, <2>4, <2>5, <2>6, <2>7, Zenon
<1>4. RowRule(s, X)
  <2> SUFFICES ASSUME NEW x \in Those(X, "row"), NEW to \in 0 .. Len(s),
                      Key(x.to, to, x.d) \in X \/ Item(x.to, to, x.d) \in X
               PROVE  Row(x.from, to, x.n + 1, x.d, x.map) \in X
    BY DEF RowRule
  <2>1. /\ x.from \in Offsets(s) /\ x.to \in Offsets(s) /\ x.n \in Nat /\ x.from + x.n <= x.to
        /\ x.d \in {-1} \cup Levels /\ x.map \in BOOLEAN
    BY DEF Those, Stated
  <2>2. x.to < to
    BY StatedItem, StatedKey
  <2>3. x.from + (x.n + 1) <= to
    BY <2>1, <2>2 DEF Offsets
  <2> QED BY <2>1, <2>3, StatedRow DEF Offsets
<1>5. ItemRule(o, s, X)
  <2> SUFFICES ASSUME NEW x \in Those(X, "item")
               PROVE  Key(x.from, x.to, x.d) \in X /\ Text(x.from, x.to) \in X
    BY DEF ItemRule
  <2>1. x.from \in Offsets(s) /\ x.to \in Offsets(s) /\ x.from < x.to /\ x.d \in Levels
    BY DEF Those, Stated
  <2> QED BY <2>1, StatedKey, StatedText
<1> QED BY <1>1, <1>2, <1>3, <1>4, <1>5 DEF RulesHold

LEMMA DerivedStated ==
  ASSUME NEW o, NEW s \in Seq(Byte), NEW x, Derived(o, s, x)
  PROVE  x \in Stated(s)
BY StatedClosed DEF Derived

-----------------------------------------------------------------------------
(***************************************************************************)
(* A fact is derived only if one of its rules derives it.                  *)
(***************************************************************************)
\* The n-th of a row, counted from 0, lies between p and q.
Member(o, s, p, q, n, d, map) ==
  IF map /\ n % 2 = 0 THEN Derived(o, s, Key(p, q, d)) ELSE Derived(o, s, Item(p, q, d))

Chunked(o, s, g, to) ==
  /\ g.mt \in {mtBytes, mtText} /\ g.indef
  /\ \E n \in Nat, c \in Seq(Byte), end \in Offsets(s) :
       /\ Derived(o, s, Run(g.mt, g.next, end, n, c))
       /\ BreakAt(s, end) /\ GoodContent(o, g.mt, c) /\ to = end + 1

Pairs(g, n) == IF g.mt = mtMap THEN n \div 2 ELSE n

\* The head g opens a container of n items and keys at depth d, which end at end.
Opens(o, s, g, n, end, d) ==
  /\ g.mt \in {mtArray, mtMap} /\ n \in Nat /\ end \in Offsets(s)
  /\ Derived(o, s, Row(g.next, end, n, d, g.mt = mtMap))
  /\ g.mt = mtMap => n % 2 = 0
  /\ GoodCount(o, g.mt, g.indef, Pairs(g, n))

Contained(o, s, g, to, d) ==
  \E n \in Nat, end \in Offsets(s) :
    /\ Opens(o, s, g, n, end, d - 1)
    /\ IF g.indef THEN BreakAt(s, end) /\ to = end + 1 ELSE Pairs(g, n) = g.arg /\ to = end

WhyItem(o, s, from, to, d) ==
  LET g == HeadAt(s, from)
  IN  /\ g.err = "nil"
      /\ \/ Atom(o, g) /\ to = g.next
         \/ StringIn(s, g) /\ GoodContent(o, g.mt, Content(s, g)) /\ to = g.next + g.arg
         \/ Chunked(o, s, g, to)
         \/ g.mt = mtTag /\ ~g.indef /\ Derived(o, s, Item(g.next, to, d - 1))
         \/ Contained(o, s, g, to, d)

WhyKey(o, s, from, to, d) ==
  LET g == HeadAt(s, from)
  IN  \/ /\ o = "json" /\ StringIn(s, g) /\ GoodContent(o, g.mt, Content(s, g))
         /\ to = g.next + g.arg
      \/ /\ o = "json" /\ g.err = "nil" /\ g.mt = mtTag /\ ~g.indef
         /\ Derived(o, s, Item(g.next, to, d)) /\ Derived(o, s, Text(g.next, to))
      \/ (o # "json" \/ g.mt \in {mtBytes, mtText}) /\ Derived(o, s, Item(from, to, d))

WhyText(o, s, from, to) ==
  LET g == HeadAt(s, from)
  IN  \/ g.mt = mtText
      \/ g.err = "nil" /\ g.mt = mtTag /\ ~g.indef /\ Derived(o, s, Text(g.next, to))

\* With what comes before the last of a row or a run, also what came before that.
WhyRow(o, s, from, to, n, d, map) ==
  /\ n = 0 => to = from
  /\ n > 0 => \E mid \in Offsets(s) :
                Derived(o, s, Row(from, mid, n - 1, d, map)) /\ Member(o, s, mid, to, n - 1, d, map)
  /\ \A m \in 0 .. n - 1 :
       \E mid \in Offsets(s), e \in Offsets(s) :
         Derived(o, s, Row(from, mid, m, d, map)) /\ Member(o, s, mid, e, m, d, map)

Chunk(s, mt, j) == StringIn(s, HeadAt(s, j)) /\ HeadAt(s, j).mt = mt

WhyRun(o, s, mt, from, to, n, c) ==
  /\ n = 0 => to = from /\ c = <<>>
  /\ n > 0 => \E mid \in Offsets(s), part \in Seq(Byte) :
                LET g == HeadAt(s, mid)
                IN  /\ Derived(o, s, Run(mt, from, mid, n - 1, part))
                    /\ Chunk(s, mt, mid)
                    /\ to = g.next + g.arg /\ c = part \o Content(s, g)
  /\ \A m \in 0 .. n - 1 :
       \E mid \in Offsets(s), part \in Seq(Byte) :
         /\ Derived(o, s, Run(mt, from, mid, m, part))
         /\ Chunk(s, mt, mid) /\ Len(part) + HeadAt(s, mid).arg <= Len(c)

Explained(o, s) ==
  {x \in Stated(s) :
     /\ Derived(o, s, x)
     /\ x.t = "item" => WhyItem(o, s, x.from, x.to, x.d)
     /\ x.t = "key" => WhyKey(o, s, x.from, x.to, x.d)
     /\ x.t = "text" => WhyText(o, s, x.from, x.to)
     /\ x.t = "row" => WhyRow(o, s, x.from, x.to, x.n, x.d, x.map)
     /\ x.t = "run" => WhyRun(o, s, x.mt, x.from, x.to, x.n, x.c)}

LEMMA ExplainedItem ==
  ASSUME NEW o, NEW s \in Seq(Byte), NEW from, NEW to, NEW d
  PROVE  Item(from, to, d) \in Explained(o, s) <=>
           Derived(o, s, Item(from, to, d)) /\ WhyItem(o, s, from, to, d)
<1> DEFINE x == Item(from, to, d)
<1>1. x.t = "item" /\ x.from = from /\ x.to = to /\ x.d = d
  BY DEF Item
<1>2. Derived(o, s, x) => x \in Stated(s)
  BY DerivedStated
<1> HIDE DEF x
<1> QED BY <1>1, <1>2 DEF Explained, x

LEMMA ExplainedKey ==
  ASSUME NEW o, NEW s \in Seq(Byte), NEW from, NEW to, NEW d
  PROVE  Key(from, to, d) \in Explained(o, s) <=>
           Derived(o, s, Key(from, to, d)) /\ WhyKey(o, s, from, to, d)
<1> DEFINE x == Key(from, to, d)
<1>1. x.t = "key" /\ x.from = from /\ x.to = to /\ x.d = d
  BY DEF Key
<1>2. Derived(o, s, x) => x \in Stated(s)
  BY DerivedStated
<1> HIDE DEF x
<1> QED BY <1>1, <1>2 DEF Explained, x

LEMMA ExplainedText ==
  ASSUME NEW o, NEW s \in Seq(Byte), NEW from, NEW to
  PROVE  Text(from, to) \in Explained(o, s) <=>
           Derived(o, s, Text(from, to)) /\ WhyText(o, s, from, to)
<1> DEFINE x == Text(from, to)
<1>1. x.t = "text" /\ x.from = from /\ x.to = to
  BY DEF Text
<1>2. Derived(o, s, x) => x \in Stated(s)
  BY DerivedStated
<1> HIDE DEF x
<1> QED BY <1>1, <1>2 DEF Explained, x

LEMMA ExplainedRow ==
  ASSUME NEW o, NEW s \in Seq(Byte), NEW from, NEW to, NEW n, NEW d, NEW map
  PROVE  Row(from, to, n, d, map) \in Explained(o, s) <=>
           Derived(o, s, Row(from, to, n, d, map)) /\ WhyRow(o, s, from, to, n, d, map)
<1> DEFINE x == Row(from, to, n, d, map)
<1>1. x.t = "row" /\ x.from = from /\ x.to = to /\ x.n = n /\ x.d = d /\ x.map = map
  BY DEF Row
<1>2. Derived(o, s, x) => x \in Stated(s)
  BY DerivedStated
<1> HIDE DEF x
<1> QED BY <1>1, <1>2 DEF Explained, x

LEMMA ExplainedRun ==
  ASSUME NEW o, NEW s \in Seq(Byte), NEW mt, NEW from, NEW to, NEW n, NEW c
  PROVE  Run(mt, from, to, n, c) \in Explained(o, s) <=>
           Derived(o, s, Run(mt, from, to, n, c)) /\ WhyRun(o, s, mt, from, to, n, c)
<1> DEFINE x == Run(mt, from, to, n, c)
<1>1. x.t = "run" /\ x.mt = mt /\ x.from = from /\ x.to = to /\ x.n = n /\ x.c = c
  BY DEF Run
<1>2. Derived(o, s, x) => x \in Stated(s)
  BY DerivedStated
<1> HIDE DEF x
<1> QED BY <1>1, <1>2 DEF Explained, x

LEMMA MakesContained ==
  ASSUME NEW o, NEW s, NEW g, NEW n, NEW end, NEW d \in Int, Opens(o, s, g, n, end, d)
  PROVE  /\ g.indef /\ BreakAt(s, end) => Contained(o, s, g, end + 1, d + 1)
         /\ ~g.indef /\ Pairs(g, n) = g.arg => Contained(o, s, g, end, d + 1)
<1> DEFINE e == d + 1
<1>1. e - 1 = d
  OBVIOUS
<1> HIDE DEF e
<1>2. Opens(o, s, g, n, end, e - 1) /\ n \in Nat /\ end \in Offsets(s)
  BY <1>1 DEF Opens
<1>3. ASSUME g.indef, BreakAt(s, end) PROVE Contained(o, s, g, end + 1, e)
  BY <1>2, <1>3, Zenon DEF Contained
<1>4. ASSUME ~g.indef, Pairs(g, n) = g.arg PROVE Contained(o, s, g, end, e)
  BY <1>2, <1>4, Zenon DEF Contained
<1> QED BY <1>3, <1>4 DEF e

\* Every fact the rules derive is explained.
LEMMA ExplainedClosed ==
  ASSUME NEW o, NEW s \in Seq(Byte)
  PROVE  RulesHold(o, s, Explained(o, s))
<1> DEFINE X == Explained(o, s)
<1>0. ASSUME NEW x \in X PROVE Derived(o, s, x) /\ x \in Stated(s)
  BY DEF Explained
<1>1. ASSUME NEW j \in 0 .. Len(s), NEW g, g = HeadAt(s, j), g.err = "nil"
      PROVE  /\ AtomRule(o, s, j, g, X) /\ StringRule(o, s, j, g, X)
             /\ ChunksRule(o, s, j, g, X) /\ TagRule(o, s, j, g, X)
             /\ ContainerRule(o, s, j, g, X)
  <2>1. AtomRule(o, s, j, g, X)
    <3> SUFFICES ASSUME Atom(o, g), NEW d \in Levels PROVE Item(j, g.next, d) \in X
      BY DEF AtomRule
    <3>1. Derived(o, s, Item(j, g.next, d))
      BY <1>1, AtomDerived
    <3>2. WhyItem(o, s, j, g.next, d)
      BY <1>1 DEF WhyItem
    <3> QED BY <3>1, <3>2, ExplainedItem
  <2>2. StringRule(o, s, j, g, X)
    <3> SUFFICES ASSUME StringIn(s, g), GoodContent(o, g.mt, Content(s, g))
                 PROVE  /\ \A d \in Levels : Item(j, g.next + g.arg, d) \in X
                        /\ o = "json" =>
                             \A d \in {-1} \cup Levels : Key(j, g.next + g.arg, d) \in X
      BY DEF StringRule
    <3>1. /\ \A d \in Levels : Derived(o, s, Item(j, g.next + g.arg, d))
          /\ o = "json" => \A d \in {-1} \cup Levels : Derived(o, s, Key(j, g.next + g.arg, d))
      BY <1>1, StringDerived
    <3>2. \A d : WhyItem(o, s, j, g.next + g.arg, d)
      BY <1>1 DEF WhyItem
    <3>3. o = "json" => \A d : WhyKey(o, s, j, g.next + g.arg, d)
      BY <1>1 DEF WhyKey
    <3> QED BY <3>1, <3>2, <3>3, ExplainedItem, ExplainedKey
  <2>3. ChunksRule(o, s, j, g, X)
    <3> SUFFICES ASSUME g.mt \in {mtBytes, mtText}, g.indef,
                        NEW x \in Those(X, "run"), NEW d \in Levels, x.mt = g.mt, x.from = g.next,
                        BreakAt(s, x.to), GoodContent(o, g.mt, x.c)
                 PROVE  Item(j, x.to + 1, d) \in X
      BY DEF ChunksRule
    <3>1. /\ x.n \in Nat /\ x.c \in Seq(Byte) /\ x.to \in Offsets(s)
          /\ Derived(o, s, Run(g.mt, g.next, x.to, x.n, x.c))
      <4>1. x \in X /\ x.t = "run"
        BY DEF Those
      <4>2. x \in Stated(s) /\ Derived(o, s, x)
        BY <1>0, <4>1
      <4>3. x = Run(x.mt, x.from, x.to, x.n, x.c)
        BY <4>1, <4>2, StatedKinds
      <4>4. x.n \in Nat /\ x.c \in Seq(Byte) /\ x.to \in Offsets(s)
        BY <4>1, <4>2 DEF Stated
      <4> QED BY <4>2, <4>3, <4>4
    <3>2. Derived(o, s, Item(j, x.to + 1, d))
      BY <1>1, <3>1, ChunksDerived
    <3>3. Chunked(o, s, g, x.to + 1)
      BY <3>1 DEF Chunked
    <3>4. WhyItem(o, s, j, x.to + 1, d)
      BY <1>1, <3>3 DEF WhyItem
    <3> QED BY <3>2, <3>4, ExplainedItem
  <2>4. TagRule(o, s, j, g, X)
    <3> SUFFICES ASSUME g.mt = mtTag, ~g.indef
                 PROVE  /\ \A x \in Those(X, "item") :
                             x.from = g.next =>
                               /\ x.d + 1 \in Levels => Item(j, x.to, x.d + 1) \in X
                               /\ o = "json" /\ Text(x.from, x.to) \in X => Key(j, x.to, x.d) \in X
                        /\ \A x \in Those(X, "text") : x.from = g.next => Text(j, x.to) \in X
      BY DEF TagRule
    <3>1. ASSUME NEW x \in Those(X, "item"), x.from = g.next
          PROVE  /\ x.d + 1 \in Levels => Item(j, x.to, x.d + 1) \in X
                 /\ o = "json" /\ Text(x.from, x.to) \in X => Key(j, x.to, x.d) \in X
      <4>1. x \in X /\ x.t = "item"
        BY DEF Those
      <4>2. x \in Stated(s) /\ Derived(o, s, x)
        BY <1>0, <4>1
      <4>3. Derived(o, s, Item(g.next, x.to, x.d)) /\ x.d \in Int
        <5>1. x = Item(x.from, x.to, x.d)
          BY <4>1, <4>2, StatedKinds
        <5>2. x.d \in Levels
          BY <4>1, <4>2 DEF Stated
        <5> QED BY <3>1, <4>2, <5>1, <5>2 DEF Levels
      <4>4. ASSUME x.d + 1 \in Levels PROVE Item(j, x.to, x.d + 1) \in X
        <5>1. Derived(o, s, Item(j, x.to, x.d + 1))
          BY <1>1, <4>3, <4>4, TagDerived
        <5>2. x.d + 1 - 1 = x.d
          BY <4>3
        <5>3. WhyItem(o, s, j, x.to, x.d + 1)
          BY <1>1, <4>3, <5>2 DEF WhyItem
        <5> QED BY <5>1, <5>3, ExplainedItem
      <4>5. ASSUME o = "json", Text(x.from, x.to) \in X PROVE Key(j, x.to, x.d) \in X
        <5>1. Derived(o, s, Text(g.next, x.to))
          BY <3>1, <4>5, ExplainedText
        <5>2. Derived(o, s, Key(j, x.to, x.d))
          BY <1>1, <4>3, <4>5, <5>1, TagDerived
        <5>3. WhyKey(o, s, j, x.to, x.d)
          BY <1>1, <4>3, <4>5, <5>1 DEF WhyKey
        <5> QED BY <5>2, <5>3, ExplainedKey
      <4> QED BY <4>4, <4>5
    <3>2. ASSUME NEW x \in Those(X, "text"), x.from = g.next PROVE Text(j, x.to) \in X
      <4>1. x \in X /\ x.t = "text"
        BY DEF Those
      <4>2. x \in Stated(s) /\ Derived(o, s, x)
        BY <1>0, <4>1
      <4>3. Derived(o, s, Text(g.next, x.to))
        BY <3>2, <4>1, <4>2, StatedKinds
      <4>4. Derived(o, s, Text(j, x.to))
        BY <1>1, <4>3, TextTagDerived
      <4>5. WhyText(o, s, j, x.to)
        BY <1>1, <4>3 DEF WhyText
      <4> QED BY <4>4, <4>5, ExplainedText
    <3> QED BY <3>1, <3>2
  <2>5. ASSUME NEW n, NEW end, NEW d \in Int, d + 1 \in Levels, Opens(o, s, g, n, end, d)
        PROVE  IF g.indef THEN BreakAt(s, end) => Item(j, end + 1, d + 1) \in X
                          ELSE Pairs(g, n) = g.arg => Item(j, end, d + 1) \in X
    <3>1. /\ g.indef /\ BreakAt(s, end) => Derived(o, s, Item(j, end + 1, d + 1))
          /\ ~g.indef /\ Pairs(g, n) = g.arg => Derived(o, s, Item(j, end, d + 1))
      BY <1>1, <2>5, ContainerDerived DEF Pairs, Opens
    <3>2. /\ g.indef /\ BreakAt(s, end) => WhyItem(o, s, j, end + 1, d + 1)
          /\ ~g.indef /\ Pairs(g, n) = g.arg => WhyItem(o, s, j, end, d + 1)
      BY <1>1, <2>5, MakesContained DEF WhyItem
    <3> QED BY <3>1, <3>2, ExplainedItem
  <2>6. ContainerRule(o, s, j, g, X)
    <3> SUFFICES ASSUME g.mt \in {mtArray, mtMap}, NEW x \in Those(X, "row"),
                        x.from = g.next, x.map = (g.mt = mtMap), x.d + 1 \in Levels,
                        g.mt = mtMap => x.n % 2 = 0,
                        GoodCount(o, g.mt, g.indef, Pairs(g, x.n))
                 PROVE  IF g.indef THEN BreakAt(s, x.to) => Item(j, x.to + 1, x.d + 1) \in X
                                   ELSE Pairs(g, x.n) = g.arg => Item(j, x.to, x.d + 1) \in X
      BY Zenon DEF ContainerRule, Pairs
    <3>1. /\ x.n \in Nat /\ x.to \in Offsets(s) /\ x.d \in Int
          /\ Derived(o, s, Row(g.next, x.to, x.n, x.d, g.mt = mtMap))
      <4>1. x \in X /\ x.t = "row"
        BY DEF Those
      <4>2. x \in Stated(s) /\ Derived(o, s, x)
        BY <1>0, <4>1
      <4>3. x = Row(x.from, x.to, x.n, x.d, x.map)
        BY <4>1, <4>2, StatedKinds
      <4>4. x.n \in Nat /\ x.d \in {-1} \cup Levels /\ x.to \in Offsets(s)
        BY <4>1, <4>2 DEF Stated
      <4>5. x.d \in Int
        BY <4>4 DEF Levels
      <4> QED BY <4>2, <4>3, <4>4, <4>5, Zenon
    <3>2. Opens(o, s, g, x.n, x.to, x.d)
      BY <3>1 DEF Opens
    <3> QED BY <2>5, <3>1, <3>2
  <2> QED BY <2>1, <2>2, <2>3, <2>4, <2>6
<1>2. EmptyRule(s, X)
  <2>1. ASSUME NEW j \in 0 .. Len(s), NEW mt \in {mtBytes, mtText} PROVE Run(mt, j, j, 0, <<>>) \in X
    <3>1. WhyRun(o, s, mt, j, j, 0, <<>>)
      BY DEF WhyRun
    <3> QED BY <3>1, EmptyDerived, ExplainedRun
  <2>2. ASSUME NEW j \in 0 .. Len(s), NEW d \in {-1} \cup Levels, NEW map \in BOOLEAN
        PROVE  Row(j, j, 0, d, map) \in X
    <3>1. WhyRow(o, s, j, j, 0, d, map)
      BY DEF WhyRow
    <3> QED BY <3>1, EmptyDerived, ExplainedRow
  <2> QED BY <2>1, <2>2 DEF EmptyRule
<1>3. RunRule(s, X)
  <2> SUFFICES ASSUME NEW x \in Those(X, "run"), NEW g, g = HeadAt(s, x.to), StringIn(s, g),
                      g.mt = x.mt
               PROVE  Run(x.mt, x.from, g.next + g.arg, x.n + 1, x.c \o Content(s, g)) \in X
    BY DEF RunRule
  <2> DEFINE c == x.c \o Content(s, g)
  <2>1. x \in X /\ x.t = "run"
    BY DEF Those
  <2>2. x \in Stated(s) /\ Derived(o, s, x) /\ x = Run(x.mt, x.from, x.to, x.n, x.c)
    BY <1>0, <2>1, StatedKinds
  <2>3. x.n \in Nat /\ x.c \in Seq(Byte) /\ x.to \in Offsets(s)
    BY <2>1, <2>2 DEF Stated
  <2>4. Derived(o, s, Run(x.mt, x.from, x.to, x.n, x.c))
    BY <2>2
  <2>5. WhyRun(o, s, x.mt, x.from, x.to, x.n, x.c)
    BY <2>1 DEF Explained
  <2>6. Derived(o, s, Run(x.mt, x.from, g.next + g.arg, x.n + 1, c))
    BY <2>4, RunDerived
  <2>7. Chunk(s, x.mt, x.to)
    BY DEF Chunk
  <2>8. Len(c) = Len(x.c) + g.arg /\ g.arg \in Nat /\ Len(x.c) \in Nat
    <3>1. g.err = "nil"
      BY DEF StringIn
    <3>2. Content(s, g) \in Seq(Byte) /\ Len(Content(s, g)) = g.arg /\ g.arg \in Nat
      BY <2>3, <3>1, HeadInside
    <3>3. Len(x.c \o Content(s, g)) = Len(x.c) + Len(Content(s, g))
      BY <2>3, <3>2, JoinLength, Zenon
    <3>4. Len(x.c) \in Nat
      BY <2>3
    <3> QED BY <3>2, <3>3, <3>4
  <2> HIDE DEF c
  <2>9. WhyRun(o, s, x.mt, x.from, g.next + g.arg, x.n + 1, c)
    <3>1. x.n + 1 > 0 /\ x.n + 1 - 1 = x.n /\ x.n + 1 # 0
      BY <2>3
    <3>3. ASSUME NEW m \in 0 .. x.n
          PROVE  \E mid \in Offsets(s), part \in Seq(Byte) :
                   /\ Derived(o, s, Run(x.mt, x.from, mid, m, part))
                   /\ Chunk(s, x.mt, mid) /\ Len(part) + HeadAt(s, mid).arg <= Len(c)
      <4>1. CASE m = x.n
        BY <2>3, <2>4, <2>7, <2>8, <4>1
      <4>2. CASE m # x.n
        <5>1. m \in 0 .. x.n - 1
          BY <2>3, <4>2
        <5>2. PICK mid \in Offsets(s), part \in Seq(Byte) :
                 /\ Derived(o, s, Run(x.mt, x.from, mid, m, part))
                 /\ Chunk(s, x.mt, mid) /\ Len(part) + HeadAt(s, mid).arg <= Len(x.c)
          BY <2>5, <5>1 DEF WhyRun
        <5>3. HeadAt(s, mid).arg \in Nat /\ Len(part) \in Nat
          <6>1. HeadAt(s, mid).err = "nil"
            BY <5>2 DEF Chunk, StringIn
          <6> QED BY <6>1, HeadInside
        <5>4. Len(part) + HeadAt(s, mid).arg <= Len(c)
          BY <2>8, <5>2, <5>3
        <5> QED BY <5>2, <5>4
      <4> QED BY <4>1, <4>2
    <3> DEFINE n == x.n + 1
    <3>4. n > 0 /\ n - 1 = x.n /\ n # 0
      BY <2>3
    <3>5. /\ \E mid \in Offsets(s), part \in Seq(Byte) :
               LET e == HeadAt(s, mid)
               IN  /\ Derived(o, s, Run(x.mt, x.from, mid, n - 1, part))
                   /\ Chunk(s, x.mt, mid)
                   /\ g.next + g.arg = e.next + e.arg /\ c = part \o Content(s, e)
      BY <2>3, <2>4, <2>7, <3>4 DEF c
    <3> HIDE DEF n
    <3>6. WhyRun(o, s, x.mt, x.from, g.next + g.arg, n, c)
      BY <3>3, <3>4, <3>5 DEF WhyRun
    <3> QED BY <3>6 DEF n
  <2>10. Run(x.mt, x.from, g.next + g.arg, x.n + 1, c) \in X
    BY <2>6, <2>9, ExplainedRun
  <2> QED BY <2>10 DEF c
<1>4. RowRule(s, X)
  <2> SUFFICES ASSUME NEW x \in Those(X, "row"), NEW to \in 0 .. Len(s),
                      (IF x.map /\ x.n % 2 = 0 THEN Key(x.to, to, x.d)
                                               ELSE Item(x.to, to, x.d)) \in X
               PROVE  Row(x.from, to, x.n + 1, x.d, x.map) \in X
    BY DEF RowRule
  <2>1. x \in X /\ x.t = "row"
    BY DEF Those
  <2>2. x \in Stated(s) /\ Derived(o, s, x) /\ x = Row(x.from, x.to, x.n, x.d, x.map)
    BY <1>0, <2>1, StatedKinds
  <2>3. x.n \in Nat /\ x.to \in Offsets(s) /\ to \in Offsets(s)
    BY <2>1, <2>2 DEF Stated, Offsets
  <2>4. Derived(o, s, Row(x.from, x.to, x.n, x.d, x.map))
    BY <2>2
  <2>5. WhyRow(o, s, x.from, x.to, x.n, x.d, x.map)
    BY <2>1 DEF Explained
  <2>6. Member(o, s, x.to, to, x.n, x.d, x.map)
    BY <1>0 DEF Member
  <2>7. Derived(o, s, Row(x.from, to, x.n + 1, x.d, x.map))
    BY <2>4, <2>6, RowDerived DEF Member
  <2>8. WhyRow(o, s, x.from, to, x.n + 1, x.d, x.map)
    <3>1. x.n + 1 > 0 /\ x.n + 1 - 1 = x.n /\ x.n + 1 # 0
      BY <2>3
    <3>2. ASSUME NEW m \in 0 .. x.n
          PROVE  \E mid \in Offsets(s), e \in Offsets(s) :
                   /\ Derived(o, s, Row(x.from, mid, m, x.d, x.map))
                   /\ Member(o, s, mid, e, m, x.d, x.map)
      <4>1. CASE m = x.n
        BY <2>3, <2>4, <2>6, <4>1
      <4>2. CASE m # x.n
        <5>1. m \in 0 .. x.n - 1
          BY <2>3, <4>2
        <5> QED BY <2>5, <5>1 DEF WhyRow
      <4> QED BY <4>1, <4>2
    <3> DEFINE n == x.n + 1
    <3>3. n > 0 /\ n - 1 = x.n /\ n # 0
      BY <2>3
    <3> HIDE DEF n
    <3>4. WhyRow(o, s, x.from, to, n, x.d, x.map)
      BY <2>3, <2>4, <2>6, <3>2, <3>3 DEF WhyRow
    <3> QED BY <3>4 DEF n
  <2> QED BY <2>7, <2>8, ExplainedRow
<1>5. ItemRule(o, s, X)
  <2> SUFFICES ASSUME NEW x \in Those(X, "item"), NEW g, g = HeadAt(s, x.from)
               PROVE  /\ o # "json" \/ g.mt \in {mtBytes, mtText} => Key(x.from, x.to, x.d) \in X
                      /\ g.mt = mtText => Text(x.from, x.to) \in X
    BY DEF ItemRule
  <2>1. x \in X /\ x.t = "item"
    BY DEF Those
  <2>2. Derived(o, s, Item(x.from, x.to, x.d))
    BY <1>0, <2>1, StatedKinds
  <2>3. /\ o # "json" \/ g.mt \in {mtBytes, mtText} => Derived(o, s, Key(x.from, x.to, x.d))
        /\ g.mt = mtText => Derived(o, s, Text(x.from, x.to))
    BY <2>2, KeyDerived
  <2>4. /\ o # "json" \/ g.mt \in {mtBytes, mtText} => WhyKey(o, s, x.from, x.to, x.d)
        /\ g.mt = mtText => WhyText(o, s, x.from, x.to)
    BY <2>2 DEF WhyKey, WhyText
  <2> QED BY <2>3, <2>4, ExplainedKey, ExplainedText
<1> QED BY <1>1, <1>2, <1>3, <1>4, <1>5 DEF RulesHold

\* What derived a fact.
LEMMA Inversion ==
  ASSUME NEW o, NEW s \in Seq(Byte)
  PROVE  /\ \A from, to, d :
              /\ Derived(o, s, Item(from, to, d)) => WhyItem(o, s, from, to, d)
              /\ Derived(o, s, Key(from, to, d)) => WhyKey(o, s, from, to, d)
         /\ \A from, to : Derived(o, s, Text(from, to)) => WhyText(o, s, from, to)
         /\ \A from, to, n, d, map :
              Derived(o, s, Row(from, to, n, d, map)) => WhyRow(o, s, from, to, n, d, map)
         /\ \A mt, from, to, n, c :
              Derived(o, s, Run(mt, from, to, n, c)) => WhyRun(o, s, mt, from, to, n, c)
<1>1. \A x : Derived(o, s, x) => x \in Explained(o, s)
  BY ExplainedClosed DEF Derived
<1> QED BY <1>1, ExplainedItem, ExplainedKey, ExplainedText, ExplainedRow, ExplainedRun

-----------------------------------------------------------------------------
(***************************************************************************)
(* No two items, keys, rows of one length or runs of one length begin at   *)
(* the same place, so the first way to read a buffer is the only one.      *)
(***************************************************************************)
\* An item, by the kind of its head.
LEMMA ItemByHead ==
  ASSUME NEW o, NEW s \in Seq(Byte), NEW from, NEW to, NEW d,
         Derived(o, s, Item(from, to, d)), NEW g, g = HeadAt(s, from)
  PROVE  /\ g.err = "nil"
         /\ g.mt \in {mtUint, mtNegInt} => ~g.indef /\ to = g.next
         /\ g.mt = mtSimple => GoodSimple(o, g.ai, g.arg) /\ to = g.next
         /\ g.mt \in {mtBytes, mtText} /\ ~g.indef =>
              StringIn(s, g) /\ GoodContent(o, g.mt, Content(s, g)) /\ to = g.next + g.arg
         /\ g.mt \in {mtBytes, mtText} /\ g.indef => Chunked(o, s, g, to)
         /\ g.mt = mtTag => ~g.indef /\ Derived(o, s, Item(g.next, to, d - 1))
         /\ g.mt \in {mtArray, mtMap} => Contained(o, s, g, to, d)
<1>1. WhyItem(o, s, from, to, d)
  BY Inversion
<1>2. Chunked(o, s, g, to) => g.mt \in {mtBytes, mtText} /\ g.indef
  BY DEF Chunked
<1>3. Contained(o, s, g, to, d) => g.mt \in {mtArray, mtMap}
  BY DEF Contained, Opens
<1> QED BY <1>1, <1>2, <1>3 DEF WhyItem, Atom, StringIn, mtUint, mtNegInt, mtBytes, mtText,
           mtArray, mtMap, mtTag, mtSimple

\* The break is the head of nothing.
LEMMA BreakHead ==
  ASSUME NEW s, NEW j, BreakAt(s, j)
  PROVE  /\ HeadAt(s, j).mt = mtSimple /\ HeadAt(s, j).ai = 31 /\ HeadAt(s, j).indef
<1> DEFINE c == s[j + 1]
           end == j + 1 + ArgWidth(c % 32)
<1>1. c = 255 /\ ~(j >= Len(s)) /\ j \in Int /\ j + 1 <= Len(s)
  BY DEF BreakAt, Break
<1>2. c % 32 = 31 /\ c \div 32 = 7
  BY <1>1
<1>3. ArgWidth(31) = 0
  BY DEF ArgWidth
<1>4. ~(end > Len(s))
  BY <1>1, <1>2, <1>3
<1>5. HeadAt(s, j) = ReadHead(c, SubSeq(s, j + 2, end), end)
  BY <1>1, <1>2, <1>4 DEF HeadAt
<1> HIDE DEF c, end
<1> DEFINE g == ReadHead(c, SubSeq(s, j + 2, end), end)
<1>6. g.mt = c \div 32 /\ g.ai = c % 32 /\ g.indef = (c % 32 = 31)
  BY Zenon DEF ReadHead
<1> HIDE DEF g
<1> QED BY <1>2, <1>5, <1>6 DEF mtSimple, g

LEMMA NothingAtBreak ==
  ASSUME NEW o, NEW s \in Seq(Byte), NEW j, BreakAt(s, j), NEW to, NEW d
  PROVE  /\ ~Derived(o, s, Item(j, to, d)) /\ ~Derived(o, s, Key(j, to, d))
         /\ \A mt : ~Chunk(s, mt, j)
<1> DEFINE g == HeadAt(s, j)
<1>1. g.mt = mtSimple /\ g.ai = 31 /\ g.indef
  BY BreakHead
<1>2. ~GoodSimple(o, g.ai, g.arg)
  BY <1>1 DEF GoodSimple
<1>3. ~Derived(o, s, Item(j, to, d))
  BY <1>1, <1>2, ItemByHead
<1> HIDE DEF g
<1>4. ~StringIn(s, g) /\ g.mt # mtTag /\ g.mt \notin {mtBytes, mtText}
  BY <1>1 DEF StringIn, mtSimple, mtBytes, mtText, mtTag
<1>5. ~Derived(o, s, Key(j, to, d))
  BY <1>3, <1>4, Inversion DEF WhyKey, g
<1>6. \A mt : ~Chunk(s, mt, j)
  BY <1>4 DEF Chunk, g
<1> QED BY <1>3, <1>5, <1>6

OneItem(o, s, from, to, d) == \A e : Derived(o, s, Item(from, e, d)) => e = to

OneKey(o, s, from, to, d) == \A e : Derived(o, s, Key(from, e, d)) => e = to

OneRow(o, s, from, n, d, map) ==
  \A m \in 0 .. n : \A e1, e2 :
    Derived(o, s, Row(from, e1, m, d, map)) /\ Derived(o, s, Row(from, e2, m, d, map)) => e1 = e2

OneRun(o, s, mt, from, n) ==
  \A m \in 0 .. n : \A e1, e2, c1, c2 :
    Derived(o, s, Run(mt, from, e1, m, c1)) /\ Derived(o, s, Run(mt, from, e2, m, c2)) =>
      e1 = e2 /\ c1 = c2

\* Of two rows that begin together and end at a break neither is longer.
LEMMA RowsEnd ==
  ASSUME NEW o, NEW s \in Seq(Byte), NEW from, NEW d, NEW map,
         NEW n \in Nat, NEW e1, Derived(o, s, Row(from, e1, n, d, map)),
         NEW m \in Nat, NEW e2, Derived(o, s, Row(from, e2, m, d, map)),
         BreakAt(s, e1), BreakAt(s, e2), OneRow(o, s, from, n, d, map)
  PROVE  e1 = e2 /\ n = m
<1>1. WhyRow(o, s, from, e1, n, d, map) /\ WhyRow(o, s, from, e2, m, d, map)
  BY Inversion
<1>2. \A p, e, k : BreakAt(s, p) => ~Member(o, s, p, e, k, d, map)
  BY NothingAtBreak DEF Member
<1>3. CASE m < n
  <2>1. m \in 0 .. n - 1 /\ m \in 0 .. n
    BY <1>3
  <2>2. PICK mid : Derived(o, s, Row(from, mid, m, d, map)) /\ \E e : Member(o, s, mid, e, m, d, map)
    BY <1>1, <2>1 DEF WhyRow
  <2>3. mid = e2
    BY <2>1, <2>2 DEF OneRow
  <2> QED BY <1>2, <2>2, <2>3
<1>4. CASE n < m
  <2>1. n \in 0 .. m - 1 /\ n \in 0 .. n
    BY <1>4
  <2>2. PICK mid : Derived(o, s, Row(from, mid, n, d, map)) /\ \E e : Member(o, s, mid, e, n, d, map)
    BY <1>1, <2>1 DEF WhyRow
  <2>3. mid = e1
    BY <2>1, <2>2 DEF OneRow
  <2> QED BY <1>2, <2>2, <2>3
<1>5. CASE n = m
  <2>1. m \in 0 .. n
    BY <1>5
  <2> QED BY <1>5, <2>1 DEF OneRow
<1> QED BY <1>3, <1>4, <1>5

LEMMA RunsEnd ==
  ASSUME NEW o, NEW s \in Seq(Byte), NEW mt, NEW from,
         NEW n \in Nat, NEW e1, NEW c1, Derived(o, s, Run(mt, from, e1, n, c1)),
         NEW m \in Nat, NEW e2, NEW c2, Derived(o, s, Run(mt, from, e2, m, c2)),
         BreakAt(s, e1), BreakAt(s, e2), OneRun(o, s, mt, from, n)
  PROVE  e1 = e2 /\ c1 = c2
<1>1. WhyRun(o, s, mt, from, e1, n, c1) /\ WhyRun(o, s, mt, from, e2, m, c2)
  BY Inversion
<1>2. \A p : BreakAt(s, p) => ~Chunk(s, mt, p)
  BY NothingAtBreak
<1>3. CASE m < n
  <2>1. m \in 0 .. n - 1 /\ m \in 0 .. n
    BY <1>3
  <2>2. PICK mid, part : Derived(o, s, Run(mt, from, mid, m, part)) /\ Chunk(s, mt, mid)
    BY <1>1, <2>1 DEF WhyRun
  <2>3. mid = e2
    BY <2>1, <2>2 DEF OneRun
  <2> QED BY <1>2, <2>2, <2>3
<1>4. CASE n < m
  <2>1. n \in 0 .. m - 1 /\ n \in 0 .. n
    BY <1>4
  <2>2. PICK mid, part : Derived(o, s, Run(mt, from, mid, n, part)) /\ Chunk(s, mt, mid)
    BY <1>1, <2>1 DEF WhyRun
  <2>3. mid = e1
    BY <2>1, <2>2 DEF OneRun
  <2> QED BY <1>2, <2>2, <2>3
<1>5. CASE n = m
  <2>1. m \in 0 .. n
    BY <1>5
  <2> QED BY <1>5, <2>1 DEF OneRun
<1> QED BY <1>3, <1>4, <1>5

UniqueFacts(o, s) ==
  {x \in Stated(s) :
     /\ Derived(o, s, x)
     /\ x.t = "item" => OneItem(o, s, x.from, x.to, x.d)
     /\ x.t = "key" => OneKey(o, s, x.from, x.to, x.d)
     /\ x.t = "row" => OneRow(o, s, x.from, x.n, x.d, x.map)
     /\ x.t = "run" => OneRun(o, s, x.mt, x.from, x.n)}

LEMMA UniqueItem ==
  ASSUME NEW o, NEW s \in Seq(Byte), NEW from, NEW to, NEW d
  PROVE  /\ Item(from, to, d) \in UniqueFacts(o, s) <=>
              Derived(o, s, Item(from, to, d)) /\ OneItem(o, s, from, to, d)
         /\ Key(from, to, d) \in UniqueFacts(o, s) <=>
              Derived(o, s, Key(from, to, d)) /\ OneKey(o, s, from, to, d)
         /\ Text(from, to) \in UniqueFacts(o, s) <=> Derived(o, s, Text(from, to))
<1> DEFINE x == Item(from, to, d)
           y == Key(from, to, d)
           z == Text(from, to)
<1>1. /\ x.t = "item" /\ x.from = from /\ x.to = to /\ x.d = d
      /\ y.t = "key" /\ y.from = from /\ y.to = to /\ y.d = d
      /\ z.t = "text"
  BY DEF Item, Key, Text
<1>2. \A f : Derived(o, s, f) => f \in Stated(s)
  BY DerivedStated
<1> HIDE DEF x, y, z
<1> QED BY <1>1, <1>2 DEF UniqueFacts, x, y, z

LEMMA UniqueRow ==
  ASSUME NEW o, NEW s \in Seq(Byte), NEW from, NEW to, NEW n, NEW d, NEW map
  PROVE  Row(from, to, n, d, map) \in UniqueFacts(o, s) <=>
           Derived(o, s, Row(from, to, n, d, map)) /\ OneRow(o, s, from, n, d, map)
<1> DEFINE x == Row(from, to, n, d, map)
<1>1. x.t = "row" /\ x.from = from /\ x.to = to /\ x.n = n /\ x.d = d /\ x.map = map
  BY DEF Row
<1>2. Derived(o, s, x) => x \in Stated(s)
  BY DerivedStated
<1> HIDE DEF x
<1> QED BY <1>1, <1>2 DEF UniqueFacts, x

LEMMA UniqueRun ==
  ASSUME NEW o, NEW s \in Seq(Byte), NEW mt, NEW from, NEW to, NEW n, NEW c
  PROVE  Run(mt, from, to, n, c) \in UniqueFacts(o, s) <=>
           Derived(o, s, Run(mt, from, to, n, c)) /\ OneRun(o, s, mt, from, n)
<1> DEFINE x == Run(mt, from, to, n, c)
<1>1. x.t = "run" /\ x.mt = mt /\ x.from = from /\ x.to = to /\ x.n = n /\ x.c = c
  BY DEF Run
<1>2. Derived(o, s, x) => x \in Stated(s)
  BY DerivedStated
<1> HIDE DEF x
<1> QED BY <1>1, <1>2 DEF UniqueFacts, x

LEMMA UniqueClosed ==
  ASSUME NEW o, NEW s \in Seq(Byte)
  PROVE  RulesHold(o, s, UniqueFacts(o, s))
<1> DEFINE X == UniqueFacts(o, s)
<1>0. ASSUME NEW x \in X PROVE Derived(o, s, x) /\ x \in Stated(s)
  BY DEF UniqueFacts
<1>1. ASSUME NEW j \in 0 .. Len(s), NEW g, g = HeadAt(s, j), g.err = "nil"
      PROVE  /\ AtomRule(o, s, j, g, X) /\ StringRule(o, s, j, g, X)
             /\ ChunksRule(o, s, j, g, X) /\ TagRule(o, s, j, g, X)
             /\ ContainerRule(o, s, j, g, X)
  <2>1. AtomRule(o, s, j, g, X)
    <3> SUFFICES ASSUME Atom(o, g), NEW d \in Levels PROVE Item(j, g.next, d) \in X
      BY DEF AtomRule
    <3>1. Derived(o, s, Item(j, g.next, d))
      BY <1>1, AtomDerived
    <3>2. g.mt \in {mtUint, mtNegInt, mtSimple}
      BY DEF Atom
    <3>3. OneItem(o, s, j, g.next, d)
      BY <1>1, <3>2, ItemByHead DEF OneItem
    <3> QED BY <3>1, <3>3, UniqueItem
  <2>2. StringRule(o, s, j, g, X)
    <3> SUFFICES ASSUME StringIn(s, g), GoodContent(o, g.mt, Content(s, g))
                 PROVE  /\ \A d \in Levels : Item(j, g.next + g.arg, d) \in X
                        /\ o = "json" =>
                             \A d \in {-1} \cup Levels : Key(j, g.next + g.arg, d) \in X
      BY DEF StringRule
    <3> DEFINE end == g.next + g.arg
    <3>1. /\ \A d \in Levels : Derived(o, s, Item(j, end, d))
          /\ o = "json" => \A d \in {-1} \cup Levels : Derived(o, s, Key(j, end, d))
      BY <1>1, StringDerived
    <3>2. g.mt \in {mtBytes, mtText} /\ ~g.indef
      BY DEF StringIn
    <3>3. \A d : OneItem(o, s, j, end, d)
      BY <1>1, <3>2, ItemByHead DEF OneItem
    <3> HIDE DEF end
    <3>4. o = "json" => \A d : OneKey(o, s, j, end, d)
      <4> SUFFICES ASSUME o = "json", NEW d, NEW e, Derived(o, s, Key(j, e, d)) PROVE e = end
        BY DEF OneKey
      <4>1. WhyKey(o, s, j, e, d)
        BY Inversion
      <4>2. g.mt # mtTag
        BY <3>2 DEF mtBytes, mtText, mtTag
      <4> QED BY <1>1, <3>3, <4>1, <4>2 DEF WhyKey, OneItem, end
    <3> QED BY <3>1, <3>3, <3>4, UniqueItem DEF end
  <2>3. ChunksRule(o, s, j, g, X)
    <3>1. ASSUME g.mt \in {mtBytes, mtText}, g.indef,
                 NEW n \in Nat, NEW end, NEW c, Derived(o, s, Run(g.mt, g.next, end, n, c)),
                 OneRun(o, s, g.mt, g.next, n),
                 BreakAt(s, end), GoodContent(o, g.mt, c), NEW d \in Levels
          PROVE  Item(j, end + 1, d) \in X
      <4>1. Derived(o, s, Item(j, end + 1, d))
        BY <1>1, <3>1, ChunksDerived
      <4>2. ASSUME NEW e, Derived(o, s, Item(j, e, d)) PROVE e = end + 1
        <5>1. Chunked(o, s, g, e)
          BY <1>1, <3>1, <4>2, ItemByHead
        <5>2. PICK m, part, e2 :
                 /\ m \in Nat
                 /\ Derived(o, s, Run(g.mt, g.next, e2, m, part)) /\ BreakAt(s, e2) /\ e = e2 + 1
          BY <5>1 DEF Chunked
        <5>3. e2 = end
          BY <3>1, <5>2, RunsEnd
        <5> QED BY <5>2, <5>3
      <4> QED BY <4>1, <4>2, UniqueItem DEF OneItem
    <3> SUFFICES ASSUME g.mt \in {mtBytes, mtText}, g.indef,
                        NEW x \in Those(X, "run"), NEW d \in Levels, x.mt = g.mt, x.from = g.next,
                        BreakAt(s, x.to), GoodContent(o, g.mt, x.c)
                 PROVE  Item(j, x.to + 1, d) \in X
      BY DEF ChunksRule
    <3>2. x \in X /\ x.t = "run"
      BY DEF Those
    <3>3. x \in Stated(s) /\ Derived(o, s, x)
      BY <1>0, <3>2
    <3>4. Derived(o, s, Run(g.mt, g.next, x.to, x.n, x.c)) /\ x.n \in Nat
      <4>1. x = Run(x.mt, x.from, x.to, x.n, x.c)
        BY <3>2, <3>3, StatedKinds
      <4>2. x.n \in Nat
        BY <3>2, <3>3 DEF Stated
      <4> QED BY <3>3, <4>1, <4>2
    <3>5. OneRun(o, s, g.mt, g.next, x.n)
      BY <3>2 DEF UniqueFacts
    <3> QED BY <3>1, <3>4, <3>5
  <2>4. TagRule(o, s, j, g, X)
    <3>1. ASSUME g.mt = mtTag, ~g.indef, NEW to, NEW d \in Int,
                 Derived(o, s, Item(g.next, to, d)), OneItem(o, s, g.next, to, d)
          PROVE  /\ d + 1 \in Levels => Item(j, to, d + 1) \in X
                 /\ o = "json" /\ Derived(o, s, Text(g.next, to)) => Key(j, to, d) \in X
      <4>1. OneItem(o, s, j, to, d + 1)
        <5> DEFINE e == d + 1
        <5>1. e - 1 = d
          OBVIOUS
        <5> HIDE DEF e
        <5>2. OneItem(o, s, j, to, e)
          BY <1>1, <3>1, <5>1, ItemByHead DEF OneItem
        <5> QED BY <5>2 DEF e
      <4>2. d + 1 \in Levels => Derived(o, s, Item(j, to, d + 1))
        BY <1>1, <3>1, TagDerived
      <4>3. ASSUME o = "json", Derived(o, s, Text(g.next, to)) PROVE Key(j, to, d) \in X
        <5>1. Derived(o, s, Key(j, to, d))
          BY <1>1, <3>1, <4>3, TagDerived
        <5>2. ASSUME NEW e, Derived(o, s, Key(j, e, d)) PROVE e = to
          <6>1. WhyKey(o, s, j, e, d)
            BY <5>2, Inversion
          <6>2. ~StringIn(s, g) /\ g.mt \notin {mtBytes, mtText}
            BY <3>1 DEF StringIn, mtTag, mtBytes, mtText
          <6> QED BY <1>1, <3>1, <4>3, <6>1, <6>2 DEF WhyKey, OneItem
        <5> QED BY <5>1, <5>2, UniqueItem DEF OneKey
      <4> QED BY <4>1, <4>2, <4>3, UniqueItem
    <3>2. ASSUME g.mt = mtTag, ~g.indef, NEW x \in Those(X, "item"), x.from = g.next
          PROVE  /\ x.d + 1 \in Levels => Item(j, x.to, x.d + 1) \in X
                 /\ o = "json" /\ Text(x.from, x.to) \in X => Key(j, x.to, x.d) \in X
      <4>1. x \in X /\ x.t = "item"
        BY DEF Those
      <4>2. x \in Stated(s) /\ Derived(o, s, x)
        BY <1>0, <4>1
      <4>3. x = Item(x.from, x.to, x.d)
        BY <4>1, <4>2, StatedKinds
      <4>4. x.d \in Int
        BY <4>1, <4>2 DEF Stated, Levels
      <4>5. OneItem(o, s, g.next, x.to, x.d) /\ Derived(o, s, Item(g.next, x.to, x.d))
        BY <3>2, <4>1, <4>2, <4>3 DEF UniqueFacts
      <4>6. Text(x.from, x.to) \in X => Derived(o, s, Text(g.next, x.to))
        BY <1>0, <3>2
      <4> QED BY <3>1, <3>2, <4>4, <4>5, <4>6
    <3>3. ASSUME g.mt = mtTag, ~g.indef, NEW x \in Those(X, "text"), x.from = g.next
          PROVE  Text(j, x.to) \in X
      <4>1. x \in X /\ x.t = "text"
        BY DEF Those
      <4>2. x \in Stated(s) /\ Derived(o, s, x)
        BY <1>0, <4>1
      <4>3. Derived(o, s, Text(g.next, x.to))
        BY <3>3, <4>1, <4>2, StatedKinds
      <4>4. Derived(o, s, Text(j, x.to))
        BY <1>1, <3>3, <4>3, TextTagDerived
      <4> QED BY <4>4, UniqueItem
    <3> QED BY <3>2, <3>3 DEF TagRule
  <2>5. ASSUME NEW n, NEW end, NEW d \in Int, d + 1 \in Levels, Opens(o, s, g, n, end, d),
               OneRow(o, s, g.next, n, d, g.mt = mtMap)
        PROVE  IF g.indef THEN BreakAt(s, end) => Item(j, end + 1, d + 1) \in X
                          ELSE Pairs(g, n) = g.arg => Item(j, end, d + 1) \in X
    <3>1. /\ g.indef /\ BreakAt(s, end) => Derived(o, s, Item(j, end + 1, d + 1))
          /\ ~g.indef /\ Pairs(g, n) = g.arg => Derived(o, s, Item(j, end, d + 1))
      BY <1>1, <2>5, ContainerDerived DEF Pairs, Opens
    <3>2. /\ g.mt \in {mtArray, mtMap} /\ n \in Nat
          /\ Derived(o, s, Row(g.next, end, n, d, g.mt = mtMap))
          /\ g.mt = mtMap => n % 2 = 0
      BY <2>5 DEF Opens
    <3>3. ASSUME NEW to, Derived(o, s, Item(j, to, d + 1))
          PROVE  \E m \in Nat : \E e :
                   /\ Derived(o, s, Row(g.next, e, m, d, g.mt = mtMap))
                   /\ g.mt = mtMap => m % 2 = 0
                   /\ IF g.indef THEN BreakAt(s, e) /\ to = e + 1 ELSE Pairs(g, m) = g.arg /\ to = e
      <4> DEFINE l == d + 1
      <4>1. l - 1 = d
        OBVIOUS
      <4> HIDE DEF l
      <4>2. Contained(o, s, g, to, l)
        BY <1>1, <3>2, <3>3, ItemByHead DEF l
      <4>3. PICK m \in Nat, e \in Offsets(s) :
               /\ Opens(o, s, g, m, e, d)
               /\ IF g.indef THEN BreakAt(s, e) /\ to = e + 1 ELSE Pairs(g, m) = g.arg /\ to = e
        BY <4>1, <4>2 DEF Contained
      <4> QED BY <4>3 DEF Opens
    <3>4. ASSUME g.indef, BreakAt(s, end), NEW to, Derived(o, s, Item(j, to, d + 1))
          PROVE  to = end + 1
      <4>1. PICK m, e :
               /\ m \in Nat
               /\ Derived(o, s, Row(g.next, e, m, d, g.mt = mtMap)) /\ BreakAt(s, e) /\ to = e + 1
        BY <3>3, <3>4
      <4>2. e = end
        BY <2>5, <3>2, <3>4, <4>1, RowsEnd
      <4> QED BY <4>1, <4>2
    <3>5. ASSUME ~g.indef, Pairs(g, n) = g.arg, NEW to, Derived(o, s, Item(j, to, d + 1))
          PROVE  to = end
      <4>1. PICK m, e :
               /\ m \in Nat
               /\ Derived(o, s, Row(g.next, e, m, d, g.mt = mtMap)) /\ to = e
               /\ g.mt = mtMap => m % 2 = 0
               /\ Pairs(g, m) = g.arg
        BY <3>3, <3>5
      <4>2. m = n /\ n \in 0 .. n
        BY <3>2, <3>5, <4>1 DEF Pairs
      <4> QED BY <2>5, <3>2, <4>1, <4>2 DEF OneRow
    <3> QED BY <3>1, <3>4, <3>5, UniqueItem DEF OneItem
  <2>6. ContainerRule(o, s, j, g, X)
    <3> SUFFICES ASSUME g.mt \in {mtArray, mtMap}, NEW x \in Those(X, "row"),
                        x.from = g.next, x.map = (g.mt = mtMap), x.d + 1 \in Levels,
                        g.mt = mtMap => x.n % 2 = 0,
                        GoodCount(o, g.mt, g.indef, Pairs(g, x.n))
                 PROVE  IF g.indef THEN BreakAt(s, x.to) => Item(j, x.to + 1, x.d + 1) \in X
                                   ELSE Pairs(g, x.n) = g.arg => Item(j, x.to, x.d + 1) \in X
      BY Zenon DEF ContainerRule, Pairs
    <3>1. x \in X /\ x.t = "row"
      BY DEF Those
    <3>2. x \in Stated(s) /\ Derived(o, s, x)
      BY <1>0, <3>1
    <3>3. x = Row(x.from, x.to, x.n, x.d, x.map)
      BY <3>1, <3>2, StatedKinds
    <3>4. x.n \in Nat /\ x.d \in Int /\ x.to \in Offsets(s)
      BY <3>1, <3>2 DEF Stated, Levels
    <3>5. /\ Derived(o, s, Row(g.next, x.to, x.n, x.d, g.mt = mtMap))
          /\ OneRow(o, s, g.next, x.n, x.d, g.mt = mtMap)
      <4>1. OneRow(o, s, x.from, x.n, x.d, x.map)
        BY <3>1 DEF UniqueFacts
      <4> QED BY <3>2, <3>3, <4>1, Zenon
    <3>6. Opens(o, s, g, x.n, x.to, x.d)
      BY <3>4, <3>5 DEF Opens
    <3> QED BY <2>5, <3>4, <3>5, <3>6
  <2> QED BY <2>1, <2>2, <2>3, <2>4, <2>6
<1>2. EmptyRule(s, X)
  <2>1. ASSUME NEW j \in 0 .. Len(s), NEW mt \in {mtBytes, mtText} PROVE Run(mt, j, j, 0, <<>>) \in X
    <3>1. ASSUME NEW e, NEW c, Derived(o, s, Run(mt, j, e, 0, c)) PROVE e = j /\ c = <<>>
      <4>1. WhyRun(o, s, mt, j, e, 0, c)
        BY <3>1, Inversion
      <4> QED BY <4>1 DEF WhyRun
    <3>2. OneRun(o, s, mt, j, 0)
      BY <3>1 DEF OneRun
    <3> QED BY <3>2, EmptyDerived, UniqueRun
  <2>2. ASSUME NEW j \in 0 .. Len(s), NEW d \in {-1} \cup Levels, NEW map \in BOOLEAN
        PROVE  Row(j, j, 0, d, map) \in X
    <3>1. ASSUME NEW e, Derived(o, s, Row(j, e, 0, d, map)) PROVE e = j
      <4>1. WhyRow(o, s, j, e, 0, d, map)
        BY <3>1, Inversion
      <4> QED BY <4>1 DEF WhyRow
    <3>2. OneRow(o, s, j, 0, d, map)
      BY <3>1 DEF OneRow
    <3> QED BY <3>2, EmptyDerived, UniqueRow
  <2> QED BY <2>1, <2>2 DEF EmptyRule
<1>3. RunRule(s, X)
  <2>1. ASSUME NEW mt, NEW from, NEW to, NEW n \in Nat, NEW c,
               Derived(o, s, Run(mt, from, to, n, c)), OneRun(o, s, mt, from, n),
               StringIn(s, HeadAt(s, to)), HeadAt(s, to).mt = mt
        PROVE  Run(mt, from, HeadAt(s, to).next + HeadAt(s, to).arg, n + 1,
                   c \o Content(s, HeadAt(s, to))) \in X
    <3> DEFINE k == n + 1
    <3>1. k > 0 /\ k - 1 = n /\ n \in 0 .. n /\ \A m \in 0 .. k : m # k => m \in 0 .. n
      OBVIOUS
    <3> HIDE DEF k
    <3>2. ASSUME NEW e, NEW part, Derived(o, s, Run(mt, from, e, k, part))
          PROVE  /\ e = HeadAt(s, to).next + HeadAt(s, to).arg
                 /\ part = c \o Content(s, HeadAt(s, to))
      <4>1. WhyRun(o, s, mt, from, e, k, part)
        BY <3>2, Inversion
      <4>2. PICK mid, before :
               /\ Derived(o, s, Run(mt, from, mid, n, before))
               /\ e = HeadAt(s, mid).next + HeadAt(s, mid).arg
               /\ part = before \o Content(s, HeadAt(s, mid))
        BY <3>1, <4>1 DEF WhyRun
      <4>3. mid = to /\ before = c
        BY <2>1, <3>1, <4>2 DEF OneRun
      <4> QED BY <4>2, <4>3
    <3>3. OneRun(o, s, mt, from, k)
      <4> SUFFICES ASSUME NEW m \in 0 .. k, NEW e1, NEW e2, NEW c1, NEW c2,
                          Derived(o, s, Run(mt, from, e1, m, c1)),
                          Derived(o, s, Run(mt, from, e2, m, c2))
                   PROVE  e1 = e2 /\ c1 = c2
        BY DEF OneRun
      <4>1. CASE m = k
        <5>1. Derived(o, s, Run(mt, from, e1, k, c1)) /\ Derived(o, s, Run(mt, from, e2, k, c2))
          BY <4>1
        <5>2. /\ e1 = HeadAt(s, to).next + HeadAt(s, to).arg
              /\ c1 = c \o Content(s, HeadAt(s, to))
          BY ONLY <3>2, <5>1
        <5>3. /\ e2 = HeadAt(s, to).next + HeadAt(s, to).arg
              /\ c2 = c \o Content(s, HeadAt(s, to))
          BY ONLY <3>2, <5>1
        <5> QED BY ONLY <5>2, <5>3
      <4>2. CASE m # k
        BY <2>1, <3>1, <4>2 DEF OneRun
      <4> QED BY <4>1, <4>2
    <3>4. Derived(o, s, Run(mt, from, HeadAt(s, to).next + HeadAt(s, to).arg, k,
                            c \o Content(s, HeadAt(s, to))))
      BY <2>1, RunDerived DEF k
    <3> QED BY <3>3, <3>4, UniqueRun DEF k
  <2> SUFFICES ASSUME NEW x \in Those(X, "run"), NEW g, g = HeadAt(s, x.to), StringIn(s, g),
                      g.mt = x.mt
               PROVE  Run(x.mt, x.from, g.next + g.arg, x.n + 1, x.c \o Content(s, g)) \in X
    BY DEF RunRule
  <2>2. x \in X /\ x.t = "run"
    BY DEF Those
  <2>3. x \in Stated(s) /\ Derived(o, s, x) /\ x = Run(x.mt, x.from, x.to, x.n, x.c)
    BY <1>0, <2>2, StatedKinds
  <2>4. x.n \in Nat
    BY <2>2, <2>3 DEF Stated
  <2>5. Derived(o, s, Run(x.mt, x.from, x.to, x.n, x.c)) /\ OneRun(o, s, x.mt, x.from, x.n)
    BY <2>2, <2>3 DEF UniqueFacts
  <2> QED BY <2>1, <2>4, <2>5
<1>4. RowRule(s, X)
  <2>1. ASSUME NEW from, NEW mid, NEW n \in Nat, NEW d, NEW map, NEW to \in 0 .. Len(s),
               Derived(o, s, Row(from, mid, n, d, map)), OneRow(o, s, from, n, d, map),
               Member(o, s, mid, to, n, d, map),
               \A e : Member(o, s, mid, e, n, d, map) => e = to
        PROVE  Row(from, to, n + 1, d, map) \in X
    <3>1. Derived(o, s, Row(from, to, n + 1, d, map))
      BY <2>1, RowDerived DEF Member
    <3> DEFINE k == n + 1
    <3>2. k > 0 /\ k - 1 = n /\ n \in 0 .. n /\ \A m \in 0 .. k : m # k => m \in 0 .. n
      OBVIOUS
    <3> HIDE DEF k
    <3>3. ASSUME NEW e, Derived(o, s, Row(from, e, k, d, map)) PROVE e = to
      <4>1. WhyRow(o, s, from, e, k, d, map)
        BY <3>3, Inversion
      <4>2. PICK p : Derived(o, s, Row(from, p, n, d, map)) /\ Member(o, s, p, e, n, d, map)
        BY <3>2, <4>1 DEF WhyRow
      <4>3. p = mid
        BY <2>1, <3>2, <4>2 DEF OneRow
      <4> QED BY <2>1, <4>2, <4>3
    <3>4. OneRow(o, s, from, k, d, map)
      BY <2>1, <3>2, <3>3 DEF OneRow
    <3> QED BY <3>1, <3>4, UniqueRow DEF k
  <2> SUFFICES ASSUME NEW x \in Those(X, "row"), NEW to \in 0 .. Len(s),
                      (IF x.map /\ x.n % 2 = 0 THEN Key(x.to, to, x.d)
                                               ELSE Item(x.to, to, x.d)) \in X
               PROVE  Row(x.from, to, x.n + 1, x.d, x.map) \in X
    BY DEF RowRule
  <2>2. x \in X /\ x.t = "row"
    BY DEF Those
  <2>3. x \in Stated(s) /\ Derived(o, s, x) /\ x = Row(x.from, x.to, x.n, x.d, x.map)
    BY <1>0, <2>2, StatedKinds
  <2>4. x.n \in Nat
    BY <2>2, <2>3 DEF Stated
  <2>5. Derived(o, s, Row(x.from, x.to, x.n, x.d, x.map)) /\ OneRow(o, s, x.from, x.n, x.d, x.map)
    BY <2>2, <2>3 DEF UniqueFacts
  <2>6. /\ Member(o, s, x.to, to, x.n, x.d, x.map)
        /\ \A e : Member(o, s, x.to, e, x.n, x.d, x.map) => e = to
    BY UniqueItem DEF Member, OneItem, OneKey
  <2> QED BY <2>1, <2>4, <2>5, <2>6
<1>5. ItemRule(o, s, X)
  <2>1. ASSUME NEW from, NEW to, NEW d, Derived(o, s, Item(from, to, d)), OneItem(o, s, from, to, d),
               NEW g, g = HeadAt(s, from)
        PROVE  /\ o # "json" \/ g.mt \in {mtBytes, mtText} => Key(from, to, d) \in X
               /\ g.mt = mtText => Text(from, to) \in X
    <3>1. /\ o # "json" \/ g.mt \in {mtBytes, mtText} => Derived(o, s, Key(from, to, d))
          /\ g.mt = mtText => Derived(o, s, Text(from, to))
      BY <2>1, KeyDerived
    <3>2. ASSUME o # "json" \/ g.mt \in {mtBytes, mtText}, NEW e, Derived(o, s, Key(from, e, d))
          PROVE  e = to
      <4>1. WhyKey(o, s, from, e, d)
        BY <3>2, Inversion
      <4>2. StringIn(s, g) => to = g.next + g.arg
        BY <2>1, ItemByHead DEF StringIn
      <4>3. g.mt = mtTag => o # "json"
        BY <3>2 DEF mtBytes, mtText, mtTag
      <4> QED BY <2>1, <4>1, <4>2, <4>3 DEF WhyKey, OneItem
    <3> QED BY <3>1, <3>2, UniqueItem DEF OneKey
  <2> SUFFICES ASSUME NEW x \in Those(X, "item"), NEW g, g = HeadAt(s, x.from)
               PROVE  /\ o # "json" \/ g.mt \in {mtBytes, mtText} => Key(x.from, x.to, x.d) \in X
                      /\ g.mt = mtText => Text(x.from, x.to) \in X
    BY DEF ItemRule
  <2>2. x \in X /\ x.t = "item"
    BY DEF Those
  <2>3. Derived(o, s, Item(x.from, x.to, x.d)) /\ OneItem(o, s, x.from, x.to, x.d)
    BY <1>0, <2>2, StatedKinds DEF UniqueFacts
  <2> QED BY <2>1, <2>3
<1> QED BY <1>1, <1>2, <1>3, <1>4, <1>5 DEF RulesHold

\* Where something begins, it has one end.
LEMMA Uniqueness ==
  ASSUME NEW o, NEW s \in Seq(Byte)
  PROVE  /\ \A from, to, d :
              /\ Derived(o, s, Item(from, to, d)) => OneItem(o, s, from, to, d)
              /\ Derived(o, s, Key(from, to, d)) => OneKey(o, s, from, to, d)
         /\ \A from, to, n, d, map :
              Derived(o, s, Row(from, to, n, d, map)) => OneRow(o, s, from, n, d, map)
         /\ \A mt, from, to, n, c :
              Derived(o, s, Run(mt, from, to, n, c)) => OneRun(o, s, mt, from, n)
<1>1. \A x : Derived(o, s, x) => x \in UniqueFacts(o, s)
  BY UniqueClosed DEF Derived
<1> QED BY <1>1, UniqueItem, UniqueRow, UniqueRun

\* No two items of a grammar begin at one offset and end at different ones:
\* the framing of decoder.go, skip.go and json.go has one reading of a buffer,
\* so walks that look ahead by one head and never go back lose nothing.
THEOREM ItemEndsOnce ==
  ASSUME NEW o, NEW s \in Seq(Byte), NEW from, NEW d, NEW e1, NEW e2,
         Derived(o, s, Item(from, e1, d)), Derived(o, s, Item(from, e2, d))
  PROVE  e1 = e2
<1>1. OneItem(o, s, from, e1, d)
  BY Uniqueness
<1> QED BY <1>1 DEF OneItem

-----------------------------------------------------------------------------
(***************************************************************************)
(* A row or a run that was read so far, and the one the rules derive.      *)
(***************************************************************************)
\* What ends at a break is the longest, and a shorter one goes on.
LEMMA RowAhead ==
  ASSUME NEW o, NEW s \in Seq(Byte), NEW from, NEW d, NEW map,
         NEW n \in Nat, NEW e1, Derived(o, s, Row(from, e1, n, d, map)), BreakAt(s, e1),
         NEW m \in Nat, NEW e2, Derived(o, s, Row(from, e2, m, d, map)),
         n # m \/ ~BreakAt(s, e2)
  PROVE  m < n
<1>1. WhyRow(o, s, from, e2, m, d, map)
  BY Inversion
<1>2. OneRow(o, s, from, n, d, map)
  BY Uniqueness
<1>3. CASE m = n
  <2>1. n \in 0 .. n
    OBVIOUS
  <2>2. e1 = e2
    BY <1>2, <1>3, <2>1 DEF OneRow
  <2> QED BY <1>3, <2>2
<1>4. CASE n < m
  <2>1. n \in 0 .. m - 1 /\ n \in 0 .. n
    BY <1>4
  <2>2. PICK mid : Derived(o, s, Row(from, mid, n, d, map)) /\ \E e : Member(o, s, mid, e, n, d, map)
    BY <1>1, <2>1 DEF WhyRow
  <2>3. mid = e1
    BY <1>2, <2>1, <2>2 DEF OneRow
  <2>4. \A e : ~Member(o, s, e1, e, n, d, map)
    BY NothingAtBreak DEF Member
  <2> QED BY <2>2, <2>3, <2>4
<1> QED BY <1>3, <1>4

LEMMA RowGoesOn ==
  ASSUME NEW o, NEW s \in Seq(Byte), NEW from, NEW d, NEW map,
         NEW n \in Nat, NEW e1, Derived(o, s, Row(from, e1, n, d, map)),
         NEW m \in Nat, NEW e2, Derived(o, s, Row(from, e2, m, d, map)), m < n
  PROVE  \E e : Member(o, s, e2, e, m, d, map)
<1>1. WhyRow(o, s, from, e1, n, d, map)
  BY Inversion
<1>2. OneRow(o, s, from, n, d, map)
  BY Uniqueness
<1>3. m \in 0 .. n - 1 /\ m \in 0 .. n
  OBVIOUS
<1>4. PICK mid : Derived(o, s, Row(from, mid, m, d, map)) /\ \E e : Member(o, s, mid, e, m, d, map)
  BY <1>1, <1>3 DEF WhyRow
<1>5. mid = e2
  BY <1>2, <1>3, <1>4 DEF OneRow
<1> QED BY <1>4, <1>5

LEMMA RunGoesOn ==
  ASSUME NEW o, NEW s \in Seq(Byte), NEW mt, NEW from,
         NEW n \in Nat, NEW e1, NEW c1, Derived(o, s, Run(mt, from, e1, n, c1)), BreakAt(s, e1),
         NEW m \in Nat, NEW e2, NEW c2, Derived(o, s, Run(mt, from, e2, m, c2)), ~BreakAt(s, e2)
  PROVE  Chunk(s, mt, e2) /\ Len(c2) + HeadAt(s, e2).arg <= Len(c1)
<1>1. WhyRun(o, s, mt, from, e1, n, c1) /\ WhyRun(o, s, mt, from, e2, m, c2)
  BY Inversion
<1>2. OneRun(o, s, mt, from, n)
  BY Uniqueness
<1>3. CASE m < n
  <2>1. m \in 0 .. n - 1 /\ m \in 0 .. n
    BY <1>3
  <2>2. PICK mid, part : /\ Derived(o, s, Run(mt, from, mid, m, part)) /\ Chunk(s, mt, mid)
                         /\ Len(part) + HeadAt(s, mid).arg <= Len(c1)
    BY <1>1, <2>1 DEF WhyRun
  <2>3. mid = e2 /\ part = c2
    BY <1>2, <2>1, <2>2 DEF OneRun
  <2> QED BY <2>2, <2>3
<1>4. CASE m = n
  <2>1. n \in 0 .. n
    OBVIOUS
  <2>2. e1 = e2
    BY <1>2, <1>4, <2>1 DEF OneRun
  <2> QED BY <2>2
<1>5. CASE n < m
  <2>1. n \in 0 .. m - 1 /\ n \in 0 .. n
    BY <1>5
  <2>2. PICK mid, part : Derived(o, s, Run(mt, from, mid, n, part)) /\ Chunk(s, mt, mid)
    BY <1>1, <2>1 DEF WhyRun
  <2>3. mid = e1
    BY <1>2, <2>1, <2>2 DEF OneRun
  <2>4. ~Chunk(s, mt, e1)
    BY NothingAtBreak
  <2> QED BY <2>2, <2>3, <2>4
<1> QED BY <1>3, <1>4, <1>5

\* The items and keys a container of declared length has.
Declared(g) == IF g.mt = mtMap THEN 2 * g.arg ELSE g.arg

\* A container of which a row up to q was read, and which is not at its end,
\* goes on with one more.
LEMMA ContainerGoesOn ==
  ASSUME NEW o, NEW s \in Seq(Byte), NEW g, g.arg \in Nat, NEW to, NEW d, Contained(o, s, g, to, d),
         NEW q, NEW got \in Nat, Derived(o, s, Row(g.next, q, got, d - 1, g.mt = mtMap)),
         ~g.indef => got < Declared(g),
         g.indef => (g.mt = mtMap /\ got % 2 = 1) \/ ~BreakAt(s, q)
  PROVE  \E n \in Nat, end \in Offsets(s) :
           /\ Opens(o, s, g, n, end, d - 1) /\ got < n
           /\ g.indef => BreakAt(s, end)
           /\ \E e : Member(o, s, q, e, got, d - 1, g.mt = mtMap)
<1>1. PICK n \in Nat, end \in Offsets(s) :
         /\ Opens(o, s, g, n, end, d - 1)
         /\ IF g.indef THEN BreakAt(s, end) /\ to = end + 1 ELSE Pairs(g, n) = g.arg /\ to = end
  BY DEF Contained
<1> DEFINE k == d - 1
           map == g.mt = mtMap
<1>2. Derived(o, s, Row(g.next, end, n, k, map)) /\ (map => n % 2 = 0)
  BY <1>1 DEF Opens
<1>3. Derived(o, s, Row(g.next, q, got, k, map))
  OBVIOUS
<1>4. got < n
  <2>1. CASE g.indef
    <3>1. n # got \/ ~BreakAt(s, q)
      BY <1>2, <2>1
    <3> HIDE DEF k, map
    <3> QED BY <1>1, <1>2, <1>3, <2>1, <3>1, RowAhead
  <2>2. CASE ~g.indef
    <3>1. n = Declared(g)
      BY <1>1, <1>2, <2>2 DEF Pairs, Declared
    <3> QED BY <2>2, <3>1
  <2> QED BY <2>1, <2>2
<1>5. \E e : Member(o, s, q, e, got, k, map)
  <2> HIDE DEF k, map
  <2> QED BY <1>2, <1>3, <1>4, RowGoesOn
<1> QED BY <1>1, <1>4, <1>5
=============================================================================
