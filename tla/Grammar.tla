------------------------------ MODULE Grammar -------------------------------
(***************************************************************************)
(* What a walk promises to accept, stated over whole encodings and without *)
(* a cursor: IsItem(o, s, d) says that the bytes s are exactly one item    *)
(* that method o accepts with a nesting budget of d, under the limits      *)
(* other than MaxTotalItems.  Splitting s in every way replaces the walk's *)
(* left-to-right reading; the facts it finds are closed under Rules.       *)
(***************************************************************************)
EXTENDS Rules

RECURSIVE Joined(_, _)
\* How many definite strings of type mt s is a run of, and what they hold.
Joined(mt, s) ==
  IF s = <<>> THEN {<<0, <<>>>>}
  ELSE LET g == HeadAt(s, 0)
       IN  IF StringIn(s, g) /\ g.mt = mt
             THEN {<<x[1] + 1, Content(s, g) \o x[2]>> :
                      x \in Joined(mt, From(s, g.next + g.arg + 1))}
             ELSE {}

RECURSIVE Peeled(_)
\* s without the tags in front of it.
Peeled(s) == LET g == HeadAt(s, 0)
               IN  IF g.mt = mtTag THEN Peeled(From(s, g.next + 1)) ELSE s

IsText(s) == LET u == Peeled(s) IN u # <<>> /\ u[1] \div 32 = mtText

RECURSIVE IsItem(_, _, _), IsMapKey(_, _, _), AreItems(_, _, _, _, _)

\* s is n items in a row; in a map every second one, from the first, is a key.
AreItems(o, s, n, d, map) ==
  IF n = 0 THEN s = <<>>
  ELSE \E k \in n - 1 .. Len(s) - 1 :
         /\ IF map /\ n % 2 = 1 THEN IsMapKey(o, From(s, k + 1), d)
                                ELSE IsItem(o, From(s, k + 1), d)
         /\ AreItems(o, SubSeq(s, 1, k), n - 1, d, map)

IsMapKey(o, s, d) ==
  LET g == HeadAt(s, 0)
  IN  \/ o # "json" /\ IsItem(o, s, d)
      \/ /\ o = "json" /\ StringIn(s, g) /\ g.next + g.arg = Len(s)
         /\ GoodContent(o, g.mt, Content(s, g))
      \/ o = "json" /\ g.mt \in {mtBytes, mtText} /\ IsItem(o, s, d)
      \/ /\ o = "json" /\ g.mt = mtTag /\ ~g.indef
         /\ IsText(s) /\ IsItem(o, From(s, g.next + 1), d)

IsItem(o, s, d) ==
  LET g     == HeadAt(s, 0)
      body  == From(s, g.next + 1)
      inner == SubSeq(body, 1, Len(body) - 1)
      map   == g.mt = mtMap
      size  == IF map THEN 2 ELSE 1
  IN  /\ d >= 0
      /\ g.err = "nil"
      /\ \/ g.mt \in {mtUint, mtNegInt} /\ ~g.indef /\ body = <<>>
         \/ g.mt = mtSimple /\ GoodSimple(o, g.ai, g.arg) /\ body = <<>>
         \/ /\ StringIn(s, g) /\ Len(body) = g.arg
            /\ GoodContent(o, g.mt, body)
         \/ /\ g.mt \in {mtBytes, mtText} /\ g.indef /\ BreakAt(body, Len(body) - 1)
            /\ \E x \in Joined(g.mt, inner) : GoodContent(o, g.mt, x[2])
         \/ g.mt = mtTag /\ ~g.indef /\ IsItem(o, body, d - 1)
         \/ /\ g.mt \in {mtArray, mtMap} /\ ~g.indef
            /\ GoodCount(o, g.mt, FALSE, g.arg)
            /\ size * g.arg <= Len(body)
            /\ AreItems(o, body, size * g.arg, d - 1, map)
         \/ /\ g.mt \in {mtArray, mtMap} /\ g.indef /\ BreakAt(body, Len(body) - 1)
            /\ \E n \in 0 .. Len(inner) :
                 /\ n % size = 0
                 /\ GoodCount(o, g.mt, TRUE, n \div size)
                 /\ AreItems(o, inner, n, d - 1, map)

\* The facts about s that the recursion finds.
Facts(o, s) ==
  LET Spans == {e \in (0 .. Len(s)) \X (0 .. Len(s)) : e[1] <= e[2]}
      At(e) == SubSeq(s, e[1] + 1, e[2])
  IN  {Item(e[1], e[2], d) :
         <<e, d>> \in {x \in Spans \X Levels : IsItem(o, At(x[1]), x[2])}}
        \cup {Key(e[1], e[2], d) :
                <<e, d>> \in {x \in Spans \X ({-1} \cup Levels) :
                                At(x[1]) # <<>> /\ IsMapKey(o, At(x[1]), x[2])}}
        \cup {Text(e[1], e[2]) :
                e \in {x \in Spans : IsText(At(x)) /\ IsItem(o, Peeled(At(x)), MaxDepth)}}
        \cup {Row(e[1], e[2], n, d, map) :
                <<e, n, d, map>> \in
                  {x \in Spans \X (0 .. Len(s)) \X ({-1} \cup Levels) \X BOOLEAN :
                     AreItems(o, At(x[1]), x[2], x[3], x[4])}}
        \cup UNION {{Run(mt, e[1], e[2], x[1], x[2]) : x \in Joined(mt, At(e))} :
                      <<mt, e>> \in {mtBytes, mtText} \X Spans}
=============================================================================
