------------------------------ MODULE KeyOrder ------------------------------
(***************************************************************************)
(* The orders of encoded map keys (value/order.go), and the stable sort    *)
(* that SortMap and the encoder's sortPairs do with them.                  *)
(***************************************************************************)
EXTENDS Naturals, FiniteSets, SequencesExt

Lexicographic(a, c) ==
  \/ IsStrictPrefix(a, c)
  \/ \E k \in 1 .. Len(a) :
       /\ k <= Len(c) /\ a[k] < c[k]
       /\ \A j \in 1 .. k - 1 : a[j] = c[j]

\* Mutant: both orders put the shorter key first.
KeyBeforeShorter(order, a, c) ==
  IF Len(a) # Len(c) THEN Len(a) < Len(c) ELSE Lexicographic(a, c)

\* CompareKeys(a, c, order) < 0
KeyBefore(order, a, c) ==
  IF order = "LengthFirst" /\ Len(a) # Len(c) THEN Len(a) < Len(c)
                                              ELSE Lexicographic(a, c)

\* The positions of keys, in the order of the keys; equal keys stay in place.
SortedPositions(order, keys) ==
  LET before(j, k) == \/ KeyBefore(order, keys[j], keys[k])
                      \/ keys[j] = keys[k] /\ j < k
      rank(k) == Cardinality({j \in DOMAIN keys : before(j, k)}) + 1
  IN  [r \in DOMAIN keys |-> CHOOSE k \in DOMAIN keys : rank(k) = r]
=============================================================================
