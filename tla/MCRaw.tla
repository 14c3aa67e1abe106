------------------------------- MODULE MCRaw --------------------------------
(* One Decoder used through all of its methods, RawArray among them, under  *)
(* limits that small inputs reach.                                          *)
EXTENDS Raw, Grammar, Families

Span(f, t) == SubSeq(b, f + 1, t)

\* No limit is off by one: under limits the inputs reach, Decode, SkipStrict,
\* Skip and RawNext accept exactly the items that stay within them, the counts
\* of definite and indefinite containers and the totals of chunks included,
\* wherever in the buffer the methods before them have left the cursor.
LimitsExact ==
  pc = "done" /\ op # "json" /\ items <= MaxTotalItems /\ (err = "nil" => start < i) =>
    (err = "nil" <=> \E j \in start + 1 .. Len(b) : IsItem(op, Span(start, j), MaxDepth))

\* s is an array RawArray promises to frame: its elements are items for Skip,
\* each with the whole of MaxDepth, and only a declared count has a cap.
IsRawArray(s) ==
  LET g == HeadAt(s, 0)
      body == From(s, g.next + 1)
  IN  /\ g.err = "nil" /\ g.mt = mtArray
      /\ \/ /\ ~g.indef
            /\ g.arg <= MaxArrayElements /\ g.arg <= Len(body)
            /\ AreItems("skip", body, g.arg, MaxDepth, FALSE)
         \/ /\ g.indef
            /\ body # <<>> /\ Last(body) = Break
            /\ \E n \in 0 .. Len(body) - 1 : AreItems("skip", Front(body), n, MaxDepth, FALSE)

\* RawArray returns every element of the array it stands at and nothing else,
\* or fails, with its budget of items spent or not standing at such an array.
RawExact ==
  /\ array.state = "closed" =>
       /\ IsRawArray(Span(array.from, IF raws = <<>> /\ ~array.indef THEN array.body
                                      ELSE MessagesEnd + (IF array.indef THEN 1 ELSE 0)))
       /\ ~array.indef => Len(raws) = array.want
       /\ \A k \in 1 .. Len(raws) : IsItem("skip", Span(raws[k].from, raws[k].to), MaxDepth)
  /\ array.state = "failed" /\ items <= MaxTotalItems =>
       \A j \in array.from + 1 .. Len(b) : ~IsRawArray(Span(array.from, j))
=============================================================================
