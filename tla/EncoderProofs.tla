--------------------------- MODULE EncoderProofs ----------------------------
(***************************************************************************)
(* What holds of an encoder for every content, count, mode and order of    *)
(* calls.  Its errors: a refused operation writes nothing, and nothing is  *)
(* written after one until Reset.  Its offsets: the marks sortPairs slices *)
(* with stay in the buffer and in order (EInv), and what they point at     *)
(* stays where it is.                                                      *)
(***************************************************************************)
EXTENDS Encoder, CborProofs, SequenceTheorems, FiniteSetTheorems

-----------------------------------------------------------------------------
(***************************************************************************)
(* CompareKeys orders all encoded keys, of any length: both of its orders  *)
(* are strict and total, so equal positions mean equal keys, and a sorted  *)
(* map has one form.                                                       *)
(***************************************************************************)
\* Keys differ first at one place, if neither is the beginning of the other.
SplitAt(a, c, k) ==
  /\ k \in 1 .. Len(a) /\ k \in 1 .. Len(c)
  /\ a[k] # c[k]
  /\ \A j \in 1 .. k - 1 : a[j] = c[j]

Begins(a, c) == Len(a) <= Len(c) /\ \A k \in 1 .. Len(a) : a[k] = c[k]

LEMMA PrefixBegins ==
  ASSUME NEW S, NEW a \in Seq(S), NEW c \in Seq(S)
  PROVE  /\ IsStrictPrefix(a, c) <=> Begins(a, c) /\ a # c
         /\ Begins(a, c) /\ a # c => Len(a) < Len(c)
<1>1. Len(a) \in Nat /\ Len(c) \in Nat
  BY LenProperties
<1>2. /\ SubSeq(a, 1, Len(a)) = a
  BY SubSeqFull
<1>3. ASSUME Len(a) <= Len(c)
      PROVE  /\ SubSeq(c, 1, Len(a)) \in Seq(S)
             /\ Len(SubSeq(c, 1, Len(a))) = Len(a)
             /\ \A k \in 1 .. Len(a) : SubSeq(c, 1, Len(a))[k] = c[k]
  <2>1. \A k \in 1 .. Len(a) : c[k] \in S
    BY <1>1, <1>3, ElementOfSeq
  <2> QED BY <1>1, <1>3, <2>1, SubSeqProperties
<1>4. ASSUME Len(a) <= Len(c)
      PROVE  a = SubSeq(c, 1, Len(a)) <=> \A k \in 1 .. Len(a) : a[k] = c[k]
  BY <1>3, <1>4, SeqEqual
<1>5. IsStrictPrefix(a, c) <=> Begins(a, c) /\ a # c
  BY <1>2, <1>4 DEF IsStrictPrefix, IsPrefix, Begins
<1>6. Begins(a, c) /\ Len(a) = Len(c) => a = c
  BY <1>1, SeqEqual DEF Begins
<1> QED BY <1>1, <1>5, <1>6 DEF Begins

\* Two keys are equal, or one begins the other, or they split.
LEMMA Compared ==
  ASSUME NEW a \in Seq(Nat), NEW c \in Seq(Nat)
  PROVE  Begins(a, c) \/ Begins(c, a) \/ \E k \in Nat : SplitAt(a, c, k)
<1>1. Len(a) \in Nat /\ Len(c) \in Nat
  BY LenProperties
<1> DEFINE T == {k \in Nat : k \in 1 .. Len(a) /\ k \in 1 .. Len(c) /\ a[k] # c[k]}
<1>2. CASE T = {}
  <2>1. \A k \in 1 .. Len(a) : k \in 1 .. Len(c) => a[k] = c[k]
    BY <1>1, <1>2
  <2>2. \A k \in 1 .. Len(c) : k \in 1 .. Len(a) => a[k] = c[k]
    BY <1>1, <1>2
  <2> QED BY <1>1, <2>1, <2>2 DEF Begins
<1>3. CASE T # {}
  <2>1. PICK k \in T : \A j \in T : k <= j
    BY <1>3, FirstOf
  <2>2. ASSUME NEW j \in 1 .. k - 1
        PROVE  a[j] = c[j]
    <3>1. j \in Nat /\ j \in 1 .. Len(a) /\ j \in 1 .. Len(c) /\ ~ (k <= j)
      BY <1>1, <2>1
    <3> QED BY <2>1, <3>1
  <2>3. SplitAt(a, c, k)
    BY <2>1, <2>2 DEF SplitAt
  <2> QED BY <2>1, <2>3
<1> QED BY <1>2, <1>3

\* Lexicographic order, by where the keys split.
LEMMA ByTheSplit ==
  ASSUME NEW a \in Seq(Nat), NEW c \in Seq(Nat)
  PROVE  Lexicographic(a, c) <=> \/ Begins(a, c) /\ a # c
                                 \/ \E k \in Nat : SplitAt(a, c, k) /\ a[k] < c[k]
<1>1. Len(a) \in Nat /\ Len(c) \in Nat
  BY LenProperties
<1>2. \A k \in 1 .. Len(a) : a[k] \in Nat
  BY ElementOfSeq
<1>3. \A k \in 1 .. Len(c) : c[k] \in Nat
  BY ElementOfSeq
<1>4. ASSUME NEW k \in 1 .. Len(a), k <= Len(c), a[k] < c[k],
             \A j \in 1 .. k - 1 : a[j] = c[j]
      PROVE  k \in Nat /\ SplitAt(a, c, k) /\ a[k] < c[k]
  <2>1. k \in Nat /\ k \in 1 .. Len(c)
    BY <1>1, <1>4
  <2>2. a[k] # c[k]
    BY <2>1, <1>2, <1>3, <1>4
  <2> QED BY <1>4, <2>1, <2>2 DEF SplitAt
<1>5. ASSUME NEW k \in Nat, SplitAt(a, c, k), a[k] < c[k]
      PROVE  /\ k \in 1 .. Len(a) /\ k <= Len(c) /\ a[k] < c[k]
             /\ \A j \in 1 .. k - 1 : a[j] = c[j]
  BY <1>1, <1>5 DEF SplitAt
<1>6. IsStrictPrefix(a, c) <=> Begins(a, c) /\ a # c
  BY PrefixBegins
<1> QED BY <1>4, <1>5, <1>6 DEF Lexicographic

-----------------------------------------------------------------------------
\* No two keys come before each other.
LEMMA LexicographicStrict ==
  ASSUME NEW a \in Seq(Nat), NEW c \in Seq(Nat), Lexicographic(a, c)
  PROVE  ~ Lexicographic(c, a)
<1>1. Len(a) \in Nat /\ Len(c) \in Nat
  BY LenProperties
<1>2. /\ \A k \in 1 .. Len(a) : a[k] \in Nat
      /\ \A k \in 1 .. Len(c) : c[k] \in Nat
  BY ElementOfSeq
<1> SUFFICES ASSUME Lexicographic(c, a) PROVE FALSE
  OBVIOUS
<1>3. /\ Begins(a, c) /\ a # c => Len(a) < Len(c)
      /\ Begins(c, a) /\ a # c => Len(c) < Len(a)
  BY PrefixBegins
<1>4. CASE Begins(a, c) /\ a # c
  <2>1. ~ Begins(c, a)
    BY <1>1, <1>3, <1>4
  <2>2. PICK k \in Nat : SplitAt(c, a, k)
    BY <2>1, ByTheSplit
  <2> QED BY <2>2, <1>4 DEF SplitAt, Begins
<1>5. ASSUME NEW k \in Nat, SplitAt(a, c, k), a[k] < c[k]
      PROVE  FALSE
  <2>1. ~ Begins(c, a)
    BY <1>5 DEF SplitAt, Begins
  <2>2. PICK m \in Nat : SplitAt(c, a, m) /\ c[m] < a[m]
    BY <2>1, ByTheSplit
  <2>3. CASE k < m
    BY <2>2, <2>3, <1>5 DEF SplitAt
  <2>4. CASE m < k
    BY <2>2, <2>4, <1>5 DEF SplitAt
  <2>5. CASE k = m
    BY <2>2, <2>5, <1>2, <1>5 DEF SplitAt
  <2> QED BY <2>3, <2>4, <2>5
<1> QED BY <1>4, <1>5, ByTheSplit

LEMMA LexicographicTotal ==
  ASSUME NEW a \in Seq(Nat), NEW c \in Seq(Nat)
  PROVE  a = c \/ Lexicographic(a, c) \/ Lexicographic(c, a)
<1>1. CASE Begins(a, c) \/ Begins(c, a)
  BY <1>1, ByTheSplit
<1>2. ASSUME NEW k \in Nat, SplitAt(a, c, k)
      PROVE  Lexicographic(a, c) \/ Lexicographic(c, a)
  <2>1. a[k] \in Nat /\ c[k] \in Nat /\ a[k] # c[k]
    BY <1>2, ElementOfSeq DEF SplitAt
  <2>2. SplitAt(c, a, k)
    BY <1>2 DEF SplitAt
  <2>3. CASE a[k] < c[k]
    BY <2>3, <1>2, ByTheSplit
  <2>4. CASE c[k] < a[k]
    BY <2>2, <2>4, ByTheSplit
  <2> QED BY <2>1, <2>3, <2>4
<1> QED BY <1>1, <1>2, Compared

LEMMA LexicographicTransitive ==
  ASSUME NEW a \in Seq(Nat), NEW b \in Seq(Nat), NEW c \in Seq(Nat),
         Lexicographic(a, b), Lexicographic(b, c)
  PROVE  Lexicographic(a, c)
<1>1. Len(a) \in Nat /\ Len(b) \in Nat /\ Len(c) \in Nat
  BY LenProperties
<1>2. /\ \A k \in 1 .. Len(a) : a[k] \in Nat
      /\ \A k \in 1 .. Len(b) : b[k] \in Nat
      /\ \A k \in 1 .. Len(c) : c[k] \in Nat
  BY ElementOfSeq
<1>3. ASSUME Begins(a, b), a # b, Begins(b, c)
      PROVE  Begins(a, c) /\ a # c
  <2>1. Len(a) < Len(b)
    BY <1>3, PrefixBegins
  <2> QED BY <2>1, <1>1, <1>3 DEF Begins
<1>4. ASSUME Begins(a, b), a # b, NEW k \in Nat, SplitAt(b, c, k), b[k] < c[k]
      PROVE  Lexicographic(a, c)
  <2>1. CASE k <= Len(a)
    <3>1. SplitAt(a, c, k) /\ a[k] < c[k]
      BY <2>1, <1>1, <1>4 DEF SplitAt, Begins
    <3> QED BY <3>1, ByTheSplit
  <2>2. CASE ~(k <= Len(a))
    <3>1. Begins(a, c) /\ Len(a) < Len(c)
      BY <2>2, <1>1, <1>4 DEF SplitAt, Begins
    <3> QED BY <3>1, <1>1, ByTheSplit
  <2> QED BY <2>1, <2>2
<1>5. ASSUME NEW k \in Nat, SplitAt(a, b, k), a[k] < b[k], Begins(b, c)
      PROVE  Lexicographic(a, c)
  <2>1. SplitAt(a, c, k) /\ a[k] < c[k]
    BY <1>1, <1>5 DEF SplitAt, Begins
  <2> QED BY <2>1, ByTheSplit
<1>6. ASSUME NEW k \in Nat, SplitAt(a, b, k), a[k] < b[k],
             NEW m \in Nat, SplitAt(b, c, m), b[m] < c[m]
      PROVE  Lexicographic(a, c)
  <2>1. CASE k < m
    <3>1. k \in 1 .. Len(a) /\ k \in 1 .. Len(b) /\ b[k] = c[k] /\ k \in 1 .. Len(c)
      BY <2>1, <1>1, <1>6 DEF SplitAt
    <3>2. ASSUME NEW j \in 1 .. k - 1 PROVE a[j] = b[j] /\ b[j] = c[j]
      <4>1. j \in 1 .. k - 1 /\ j \in 1 .. m - 1
        BY <2>1, <1>6
      <4> QED BY <4>1, <1>6 DEF SplitAt
    <3>3. SplitAt(a, c, k) /\ a[k] < c[k]
      BY <3>1, <3>2, <1>6 DEF SplitAt
    <3> QED BY <3>3, ByTheSplit
  <2>2. CASE m < k
    <3>1. m \in 1 .. Len(a) /\ m \in 1 .. Len(c) /\ a[m] = b[m]
      BY <2>2, <1>1, <1>6 DEF SplitAt
    <3>2. ASSUME NEW j \in 1 .. m - 1 PROVE a[j] = b[j] /\ b[j] = c[j]
      <4>1. j \in 1 .. k - 1 /\ j \in 1 .. m - 1
        BY <2>2, <1>6
      <4> QED BY <4>1, <1>6 DEF SplitAt
    <3>3. SplitAt(a, c, m) /\ a[m] < c[m]
      BY <3>1, <3>2, <1>6 DEF SplitAt
    <3> QED BY <3>3, ByTheSplit
  <2>3. CASE k = m
    <3>1. a[k] < c[k] /\ a[k] # c[k]
      <4>1. a[k] \in Nat /\ b[k] \in Nat /\ c[k] \in Nat
        BY <2>3, <1>2, <1>6 DEF SplitAt
      <4> QED BY <4>1, <2>3, <1>6
    <3>2. SplitAt(a, c, k)
      BY <3>1, <2>3, <1>6 DEF SplitAt
    <3> QED BY <3>1, <3>2, ByTheSplit
  <2> QED BY <2>1, <2>2, <2>3
<1>7. CASE Begins(a, b) /\ a # b /\ Begins(b, c)
  BY <1>3, <1>7, ByTheSplit
<1> QED BY <1>4, <1>5, <1>6, <1>7, ByTheSplit

-----------------------------------------------------------------------------
\* Two different keys always have an order, and only one: no two writers sort
\* a map differently, and a duplicate is the only tie (CompareKeys).
THEOREM KeyOrderTotal ==
  ASSUME NEW a \in Seq(Nat), NEW c \in Seq(Nat), NEW order
  PROVE  /\ KeyBefore(order, a, c) \/ KeyBefore(order, c, a) \/ a = c
         /\ ~(KeyBefore(order, a, c) /\ KeyBefore(order, c, a))
<1>1. Len(a) \in Nat /\ Len(c) \in Nat
  BY LenProperties
<1>2. CASE order = "LengthFirst" /\ Len(a) # Len(c)
  BY <1>1, <1>2 DEF KeyBefore
<1>3. CASE ~(order = "LengthFirst" /\ Len(a) # Len(c))
  BY <1>3, LexicographicTotal, LexicographicStrict DEF KeyBefore
<1> QED BY <1>2, <1>3

\* A key before a second before a third is before the third: the sort of a map
\* does not depend on which pairs it compares (CompareKeys).
THEOREM KeyOrderTransitive ==
  ASSUME NEW a \in Seq(Nat), NEW b \in Seq(Nat), NEW c \in Seq(Nat), NEW order,
         KeyBefore(order, a, b), KeyBefore(order, b, c)
  PROVE  KeyBefore(order, a, c)
<1>1. Len(a) \in Nat /\ Len(b) \in Nat /\ Len(c) \in Nat
  BY LenProperties
<1>2. CASE order = "LengthFirst"
  <2>1. CASE Len(a) = Len(b) /\ Len(b) = Len(c)
    BY <2>1, LexicographicTransitive DEF KeyBefore
  <2>2. CASE ~(Len(a) = Len(b) /\ Len(b) = Len(c))
    BY <1>1, <1>2, <2>2 DEF KeyBefore
  <2> QED BY <2>1, <2>2
<1>3. CASE order # "LengthFirst"
  BY <1>3, LexicographicTransitive DEF KeyBefore
<1> QED BY <1>2, <1>3

-----------------------------------------------------------------------------
(***************************************************************************)
(* The sort: ranking keys by how many of them go before puts every one of  *)
(* them somewhere, and no two in one place.                                *)
(***************************************************************************)
\* Position j goes before position k: by its key, or by where it was.
Before(order, keys, j, k) ==
  \/ KeyBefore(order, keys[j], keys[k])
  \/ keys[j] = keys[k] /\ j < k

Earlier(order, keys, k) == {j \in DOMAIN keys : Before(order, keys, j, k)}

Rank(order, keys, k) == Cardinality(Earlier(order, keys, k)) + 1

LEMMA Places ==
  ASSUME NEW n \in Nat
  PROVE  IsFiniteSet(1 .. n) /\ Cardinality(1 .. n) = n
<1>1. /\ IsFiniteSet(1 .. n)
      /\ Cardinality(1 .. n) = IF 1 > n THEN 0 ELSE n - 1 + 1
  BY FS_Interval
<1> QED BY <1>1

LEMMA BeforeOrders ==
  ASSUME NEW order, NEW keys \in Seq(Seq(Nat)),
         NEW j \in DOMAIN keys, NEW k \in DOMAIN keys, NEW m \in DOMAIN keys
  PROVE  /\ ~Before(order, keys, k, k)
         /\ j = k \/ Before(order, keys, j, k) \/ Before(order, keys, k, j)
         /\ Before(order, keys, j, k) /\ Before(order, keys, k, m) => Before(order, keys, j, m)
<1>1. j \in Nat /\ k \in Nat /\ m \in Nat
  BY LenProperties
<1>2. keys[j] \in Seq(Nat) /\ keys[k] \in Seq(Nat) /\ keys[m] \in Seq(Nat)
  BY ElementOfSeq
<1>3. ~KeyBefore(order, keys[k], keys[k])
  BY <1>2, KeyOrderTotal
<1>4. KeyBefore(order, keys[j], keys[k]) \/ KeyBefore(order, keys[k], keys[j]) \/ keys[j] = keys[k]
  BY <1>2, KeyOrderTotal
<1>5. KeyBefore(order, keys[j], keys[k]) /\ KeyBefore(order, keys[k], keys[m])
        => KeyBefore(order, keys[j], keys[m])
  BY <1>2, KeyOrderTransitive
<1> QED BY <1>1, <1>3, <1>4, <1>5 DEF Before

LEMMA Ranked ==
  ASSUME NEW order, NEW keys \in Seq(Seq(Nat)), NEW k \in DOMAIN keys
  PROVE  /\ IsFiniteSet(Earlier(order, keys, k))
         /\ Rank(order, keys, k) \in 1 .. Len(keys)
<1> DEFINE D == DOMAIN keys
           E == Earlier(order, keys, k)
<1>1. D = 1 .. Len(keys) /\ Len(keys) \in Nat
  BY LenProperties
<1>2. IsFiniteSet(D) /\ Cardinality(D) = Len(keys)
  BY <1>1, Places
<1>3. IsFiniteSet(D \ {k}) /\ Cardinality(D \ {k}) = Len(keys) - 1
  BY <1>2, FS_RemoveElement
<1>4. E \in SUBSET (D \ {k})
  BY BeforeOrders DEF Earlier
<1>5. IsFiniteSet(E) /\ Cardinality(E) <= Len(keys) - 1
  BY <1>3, <1>4, FS_Subset
<1>6. Cardinality(E) \in Nat
  BY <1>5, FS_CardinalityType
<1> QED BY <1>1, <1>5, <1>6 DEF Rank

LEMMA RankGrows ==
  ASSUME NEW order, NEW keys \in Seq(Seq(Nat)),
         NEW j \in DOMAIN keys, NEW k \in DOMAIN keys, Before(order, keys, j, k)
  PROVE  Rank(order, keys, j) < Rank(order, keys, k)
<1> DEFINE A == Earlier(order, keys, j)
           B == Earlier(order, keys, k)
<1>1. IsFiniteSet(A) /\ IsFiniteSet(B)
  BY Ranked
<1>2. A \in SUBSET B
  BY BeforeOrders DEF Earlier
<1>3. j \in B /\ j \notin A
  BY BeforeOrders DEF Earlier
<1>4. Cardinality(A) <= Cardinality(B) /\ Cardinality(A) # Cardinality(B)
  BY <1>1, <1>2, <1>3, FS_Subset
<1>5. Cardinality(A) \in Nat /\ Cardinality(B) \in Nat
  BY <1>1, FS_CardinalityType
<1> HIDE DEF A, B
<1>6. Cardinality(A) + 1 < Cardinality(B) + 1
  BY <1>4, <1>5
<1> QED BY <1>6 DEF Rank, A, B

\* Every place is some position's rank: there are as many places as positions.
LEMMA RankOnto ==
  ASSUME NEW order, NEW keys \in Seq(Seq(Nat)), NEW r \in 1 .. Len(keys)
  PROVE  \E k \in DOMAIN keys : Rank(order, keys, k) = r
<1> DEFINE D == 1 .. Len(keys)
           rank == [k \in D |-> Rank(order, keys, k)]
<1>1. DOMAIN keys = D /\ Len(keys) \in Nat
  BY LenProperties
<1>2. IsFiniteSet(D)
  BY <1>1, Places
<1>3. rank \in [D -> D]
  BY <1>1, Ranked
<1>4. ASSUME NEW j \in D, NEW k \in D, j # k PROVE rank[j] # rank[k]
  <2>1. Before(order, keys, j, k) \/ Before(order, keys, k, j)
    BY <1>1, <1>4, BeforeOrders
  <2>2. /\ Rank(order, keys, j) \in Int /\ Rank(order, keys, k) \in Int
        /\ \/ Rank(order, keys, j) < Rank(order, keys, k)
           \/ Rank(order, keys, k) < Rank(order, keys, j)
    BY <1>1, <2>1, Ranked, RankGrows
  <2> QED BY <2>2
<1> HIDE DEF rank, D
<1>5. rank \in Injection(D, D)
  BY <1>3, <1>4 DEF Injection, IsInjective
<1>6. rank \in Surjection(D, D)
  BY <1>2, <1>5, FS_Injection
<1>7. \A s \in D : \E k \in D : rank[k] = s
  BY <1>6 DEF Surjection
<1> QED BY <1>1, <1>7 DEF rank, D

\* What sortPairs and SortMap put where: each position goes to one place, and
\* places are in the order of the keys, of equal keys in the order they were
\* written.  No pair of a map is lost or written twice.
THEOREM SortPermutes ==
  ASSUME NEW order, NEW keys \in Seq(Seq(Nat))
  PROVE  LET at == SortedPositions(order, keys)
         IN  /\ at \in [DOMAIN keys -> DOMAIN keys]
             /\ \A k \in DOMAIN keys : \E r \in DOMAIN keys : at[r] = k
             /\ \A r \in DOMAIN keys, s \in DOMAIN keys :
                  r < s => \/ KeyBefore(order, keys[at[r]], keys[at[s]])
                           \/ keys[at[r]] = keys[at[s]] /\ at[r] < at[s]
<1> DEFINE D == DOMAIN keys
           at == SortedPositions(order, keys)
<1>1. D = 1 .. Len(keys) /\ Len(keys) \in Nat
  BY LenProperties
<1>2. at = [r \in D |-> CHOOSE k \in D : Rank(order, keys, k) = r]
  BY DEF SortedPositions, Rank, Earlier, Before
<1> HIDE DEF at
<1>3. ASSUME NEW r \in D PROVE at[r] \in D /\ Rank(order, keys, at[r]) = r
  <2>1. \E k \in D : Rank(order, keys, k) = r
    BY <1>1, RankOnto
  <2>2. at[r] = CHOOSE k \in D : Rank(order, keys, k) = r
    BY <1>2
  <2> QED BY <2>1, <2>2
<1>4. at \in [D -> D]
  BY <1>2, <1>3
<1>5. ASSUME NEW j \in D, NEW k \in D, Rank(order, keys, j) = Rank(order, keys, k) PROVE j = k
  <2>1. Rank(order, keys, j) \in Int
    BY <1>1, Ranked
  <2>2. ~Before(order, keys, j, k) /\ ~Before(order, keys, k, j)
    BY <1>5, <2>1, RankGrows
  <2> QED BY <2>2, BeforeOrders
<1>6. ASSUME NEW k \in D PROVE \E r \in D : at[r] = k
  <2>1. Rank(order, keys, k) \in D
    BY <1>1, Ranked
  <2>2. at[Rank(order, keys, k)] = k
    BY <2>1, <1>3, <1>5
  <2> QED BY <2>1, <2>2
<1>7. ASSUME NEW r \in D, NEW s \in D, r < s PROVE Before(order, keys, at[r], at[s])
  <2>1. /\ at[r] \in D /\ Rank(order, keys, at[r]) = r
        /\ at[s] \in D /\ Rank(order, keys, at[s]) = s
    BY <1>3
  <2>2. ~Before(order, keys, at[s], at[r])
    <3>1. r \in Int /\ s \in Int /\ ~(s < r)
      BY <1>1, <1>7
    <3> QED BY <2>1, <3>1, RankGrows
  <2>3. at[r] # at[s]
    BY <1>1, <1>7, <2>1
  <2> QED BY <2>1, <2>2, <2>3, BeforeOrders
<1> QED BY <1>4, <1>6, <1>7 DEF Before, at

-----------------------------------------------------------------------------
(***************************************************************************)
(* The encoder's errors and its offsets.                                   *)
(***************************************************************************)
\* How an operation may touch the buffer and the error.
Discipline ==
  \/ buf' = buf /\ (err # "nil" => err' # "nil")
  \/ err = "nil" /\ err' \in {"nil", "ErrNotWellFormed"}
  \/ Reset

LEMMA WholeDisciplined ==
  ASSUME NEW bytes, Whole(bytes)
  PROVE  Discipline
<1>1. CASE ItemError # "nil"
  BY <1>1 DEF Whole, Refuse, Discipline
<1>2. CASE ItemError = "nil"
  <2>1. err = "nil"
    BY <1>2 DEF ItemError
  <2> QED BY <1>2, <2>1 DEF Whole, Discipline
<1> QED BY <1>1, <1>2

LEMMA OpeningDisciplined ==
  ASSUME NEW bytes, NEW f, Opening(bytes, f)
  PROVE  Discipline
<1>1. CASE ItemError # "nil"
  BY <1>1 DEF Opening, Refuse, Discipline
<1>2. CASE ItemError = "nil"
  <2>1. err = "nil"
    BY <1>2 DEF ItemError
  <2> QED BY <1>2, <2>1 DEF Opening, Discipline
<1> QED BY <1>1, <1>2

LEMMA RefuseDisciplined ==
  ASSUME NEW e, Refuse(e), e # "nil"
  PROVE  Discipline
BY DEF Refuse, Discipline

LEMMA EndDisciplined ==
  ASSUME NEW major, End(major)
  PROVE  Discipline
<1>1. CASE err # "nil"
  BY <1>1, RefuseDisciplined DEF End
<1>2. CASE err = "nil" /\ (~Open \/ Top.major # major)
  BY <1>2, RefuseDisciplined DEF End
<1>3. CASE err = "nil" /\ ~(~Open \/ Top.major # major) /\ ~Top.indef /\ Top.got # Top.want
  BY <1>3, RefuseDisciplined DEF End
<1>4. CASE err = "nil" /\ ~(~Open \/ Top.major # major) /\ ~(~Top.indef /\ Top.got # Top.want)
  <2>1. CASE major = mtMap /\ deterministic /\ SortError(Top) # "nil"
    BY <1>4, <2>1 DEF End, Discipline
  <2>2. CASE ~(major = mtMap /\ deterministic /\ SortError(Top) # "nil")
    <3>1. err' = "ErrNotWellFormed" \/ UNCHANGED err
      BY <1>4, <2>2 DEF End
    <3> QED BY <1>4, <3>1 DEF Discipline
  <2> QED BY <2>1, <2>2
<1> QED BY <1>1, <1>2, <1>3, <1>4

LEMMA ChunkDisciplined ==
  ASSUME NEW c, WriteChunk(c)
  PROVE  Discipline
<1>1. CASE err # "nil"
  BY <1>1, RefuseDisciplined DEF WriteChunk
<1>2. CASE err = "nil" /\ ~(Open /\ Top.indef /\ IsString(Top))
  BY <1>2, RefuseDisciplined DEF WriteChunk
<1>3. CASE err = "nil" /\ Open /\ Top.indef /\ IsString(Top)
  BY <1>3 DEF WriteChunk, Discipline
<1> QED BY <1>1, <1>2, <1>3

\* Every operation keeps to the discipline, SetMode included.
LEMMA StepDisciplined ==
  ASSUME [Next]_vars
  PROVE  Discipline
<1>1. ASSUME NEW s, WriteScalar(s) PROVE Discipline
  BY <1>1, WholeDisciplined DEF WriteScalar
<1>2. ASSUME NEW f, WriteFloatBits(f) \/ WriteFloat64(f.num) PROVE Discipline
  BY <1>2, WholeDisciplined DEF WriteFloatBits, WriteFloat64
<1>3. ASSUME NEW c, WriteBytes(c) PROVE Discipline
  BY <1>3, WholeDisciplined DEF WriteBytes
<1>4. ASSUME NEW c, WriteText(c) PROVE Discipline
  <2>1. CASE ValidUTF8(c)
    BY <1>4, <2>1, WholeDisciplined DEF WriteText
  <2>2. CASE ~ValidUTF8(c)
    BY <1>4, <2>2, RefuseDisciplined DEF WriteText
  <2> QED BY <2>1, <2>2
<1>5. ASSUME WriteReserved PROVE Discipline
  BY <1>5, RefuseDisciplined DEF WriteReserved
<1>6. ASSUME NEW n, WriteTag(n) \/ StartArray(n) \/ StartMap(n) PROVE Discipline
  BY <1>6, OpeningDisciplined DEF WriteTag, StartArray, StartMap
<1>7. ASSUME NEW major, StartIndefinite(major) PROVE Discipline
  BY <1>7, OpeningDisciplined DEF StartIndefinite
<1>8. ASSUME Reset PROVE Discipline
  BY <1>8 DEF Discipline
<1>9. ASSUME NEW m, SetMode(m) PROVE Discipline
  BY <1>9 DEF SetMode, Discipline
<1>10. ASSUME UNCHANGED vars PROVE Discipline
  BY <1>10 DEF vars, Discipline
<1> QED
  BY <1>1, <1>2, <1>3, <1>4, <1>5, <1>6, <1>7, <1>8, <1>9, <1>10,
     ChunkDisciplined, EndDisciplined DEF Next, Writing

\* A misuse writes nothing: "are all refused before a byte is written"
\* (encoder.go:14).
THEOREM EncoderRefuses == Spec => RefusedBeforeWriting
<1>1. [Next]_vars => [err' \in {"ErrContainerMismatch", "ErrCountOverrun"} => buf' = buf]_vars
  BY StepDisciplined DEF Discipline, Reset
<1> QED BY <1>1, PTL DEF Spec, RefusedBeforeWriting

\* After an error nothing is written until Reset, which alone clears it
\* (Encoder.err).
THEOREM EncoderPoisoned == Spec => Poisoned
<1>1. [Next]_vars => [err # "nil" => \/ buf' = buf /\ err' # "nil"
                                     \/ Reset]_vars
  BY StepDisciplined DEF Discipline
<1> QED BY <1>1, PTL DEF Spec, Poisoned

-----------------------------------------------------------------------------
(***************************************************************************)
(* Sequences of bytes.                                                     *)
(***************************************************************************)
\* Joining encoded pairs gives bytes, however many there are (sortPairs).
LEMMA FlattenType ==
  ASSUME NEW S, NEW n \in Nat \ {0}, NEW seqs \in [1 .. n -> Seq(S)]
  PROVE  FlattenSeq(seqs) \in Seq(S)
<1> DEFINE Join(f, k) == [i \in 1 .. k |-> IF i = 1 THEN seqs[i] ELSE f[i - 1] \o seqs[i]]
           Bad == {k \in Nat : k <= n /\ ~ \E f : f = Join(f, k)}
<1>1. Len(seqs) = n /\ seqs \in Seq(Seq(S))
  OBVIOUS
<1>2. Bad = {}
  <2> SUFFICES ASSUME Bad # {} PROVE FALSE
    OBVIOUS
  <2>1. PICK k \in Bad : \A j \in Bad : k <= j
    BY FirstOf
  <2>2. CASE k = 0
    <3> DEFINE f == [i \in 1 .. 0 |-> 0]
    <3>1. f = Join(f, 0)
      OBVIOUS
    <3> QED BY <2>1, <2>2, <3>1
  <2>3. CASE k # 0
    <3>1. k - 1 \in Nat /\ k - 1 <= n /\ ~(k <= k - 1)
      BY <2>1, <2>3
    <3>2. PICK f : f = Join(f, k - 1)
      BY <2>1, <3>1
    <3> DEFINE g == [i \in 1 .. k |-> IF i = k THEN IF k = 1 THEN seqs[k] ELSE f[k - 1] \o seqs[k]
                                                ELSE f[i]]
    <3>3. ASSUME NEW i \in 1 .. k
          PROVE  g[i] = IF i = 1 THEN seqs[i] ELSE g[i - 1] \o seqs[i]
      <4>1. CASE i = k
        BY <3>1, <3>3, <4>1
      <4>2. CASE i # k
        <5>1. i \in 1 .. k - 1 /\ i # k /\ (i # 1 => i - 1 \in 1 .. k /\ i - 1 # k)
          BY <2>1, <3>1, <3>3, <4>2
        <5>2. f[i] = IF i = 1 THEN seqs[i] ELSE f[i - 1] \o seqs[i]
          BY <3>2, <5>1
        <5> QED BY <3>3, <5>1, <5>2
      <4> QED BY <4>1, <4>2
    <3>4. g = Join(g, k)
      BY <3>3
    <3> QED BY <2>1, <3>4
  <2> QED BY <2>2, <2>3
<1>3. \E f : f = Join(f, n)
  <2> HIDE DEF Join
  <2>1. n \in Nat /\ n <= n
    OBVIOUS
  <2>2. n \notin Bad
    <3> HIDE DEF Bad
    <3> QED BY <1>2
  <2> QED BY <2>1, <2>2
<1> DEFINE whole == CHOOSE f : f = Join(f, n)
<1>4. whole = Join(whole, n)
  BY <1>3
<1> HIDE DEF whole
<1> DEFINE Wrong == {k \in Nat : k \in 1 .. n /\ whole[k] \notin Seq(S)}
<1>5. Wrong = {}
  <2> SUFFICES ASSUME Wrong # {} PROVE FALSE
    OBVIOUS
  <2>1. PICK k \in Wrong : \A j \in Wrong : k <= j
    BY FirstOf
  <2>2. whole[k] = IF k = 1 THEN seqs[k] ELSE whole[k - 1] \o seqs[k]
    BY <1>4, <2>1
  <2>3. seqs[k] \in Seq(S)
    BY <2>1
  <2>4. CASE k = 1
    BY <2>1, <2>2, <2>3, <2>4
  <2>5. CASE k # 1
    <3>1. k - 1 \in Nat /\ k - 1 \in 1 .. n /\ ~(k <= k - 1)
      BY <2>1, <2>5
    <3>2. whole[k - 1] \in Seq(S)
      BY <2>1, <3>1
    <3>3. whole[k - 1] \o seqs[k] \in Seq(S)
      BY <2>3, <3>2
    <3> QED BY <2>1, <2>2, <2>5, <3>3
  <2> QED BY <2>4, <2>5
<1>6. whole[n] \in Seq(S)
  BY <1>5
<1>7. FlattenSeq(seqs) = whole[n]
  BY <1>1 DEF FlattenSeq, whole
<1> QED BY <1>6, <1>7

\* What is appended leaves what was there.
LEMMA Joined ==
  ASSUME NEW S, NEW s \in Seq(S), NEW t \in Seq(S)
  PROVE  /\ s \o t \in Seq(S)
         /\ Len(s \o t) = Len(s) + Len(t)
         /\ \A n \in 0 .. Len(s) : SubSeq(s \o t, 1, n) = SubSeq(s, 1, n)
<1>1. s \o t \in Seq(S) /\ Len(s \o t) = Len(s) + Len(t)
  OBVIOUS
<1>2. ASSUME NEW n \in 0 .. Len(s) PROVE SubSeq(s \o t, 1, n) = SubSeq(s, 1, n)
  <2>1. /\ SubSeq(s, 1, n) \in Seq(S) /\ Len(SubSeq(s, 1, n)) = n
        /\ \A i \in 1 .. n : SubSeq(s, 1, n)[i] = s[i]
    OBVIOUS
  <2>2. /\ SubSeq(s \o t, 1, n) \in Seq(S) /\ Len(SubSeq(s \o t, 1, n)) = n
        /\ \A i \in 1 .. n : SubSeq(s \o t, 1, n)[i] = s[i]
    BY <1>1
  <2> QED BY <2>1, <2>2, SeqEqual
<1> QED BY <1>1, <1>2

\* A head is bytes, and at least one (Encoder.head).
LEMMA HeadBytesType ==
  ASSUME NEW major \in 0 .. 7, NEW arg \in Nat
  PROVE  HeadBytes(major, arg) \in Seq(Byte) /\ Len(HeadBytes(major, arg)) >= 1
<1>1. CASE arg < 24
  <2>1. 32 * major + arg \in Byte
    BY <1>1 DEF Byte
  <2> QED BY <1>1, <2>1 DEF HeadBytes
<1>2. CASE ~(arg < 24) /\ arg <= 255
  <2>1. 32 * major + 24 \in Byte /\ arg \in Byte
    BY <1>2 DEF Byte
  <2> QED BY <1>2, <2>1 DEF HeadBytes
<1>3. CASE ~(arg < 24) /\ ~(arg <= 255)
  <2>1. 32 * major + 25 \in Byte /\ arg % 256 \in Byte
    BY DEF Byte
  <2>2. arg \div 256 \in Nat
    OBVIOUS
  <2>3. (arg \div 256) % 256 \in Byte
    BY <2>2 DEF Byte
  <2> QED BY <1>3, <2>1, <2>3 DEF HeadBytes
<1> QED BY <1>1, <1>2, <1>3

-----------------------------------------------------------------------------
(***************************************************************************)
(* The stack and the marks of its maps.                                    *)
(***************************************************************************)
\* The marks of a stack over a buffer of n bytes (MarksInBuffer).
Noting(s, n) ==
  \A l \in 1 .. Len(s) : \A i \in 1 .. Len(s[l].marks) :
    /\ s[l].marks[i] < n
    /\ \A k \in 1 .. l : \A m \in 1 .. Len(s[k].marks) :
         k < l \/ m < i => s[k].marks[m] < s[l].marks[i]

\* The frames t shares with s have the marks they had.
SameMarks(s, t) ==
  \A k \in 1 .. Len(s) : k <= Len(t) =>
    \A m \in 1 .. Len(s[k].marks) :
      m <= Len(t[k].marks) /\ t[k].marks[m] = s[k].marks[m]

EInv == TypeOK /\ MarksInBuffer

\* What the step leaves of what has been noted (NotedStays).
Kept ==
  \A k \in 1 .. Len(stack) : k <= Len(stack') =>
    \A m \in 1 .. Len(stack[k].marks) :
      /\ m <= Len(stack'[k].marks)
      /\ stack'[k].marks[m] = stack[k].marks[m]
      /\ SubSeq(buf', 1, stack[k].marks[m]) = SubSeq(buf, 1, stack[k].marks[m])

\* A stack whose frames are the lowest of t has the marks t has.
LEMMA SameBelow ==
  ASSUME NEW s, NEW t, NEW u, Len(s) \in Nat, Len(t) \in Nat, Len(u) \in 0 .. Len(t),
         SameMarks(s, t), \A j \in 1 .. Len(u) : u[j] = t[j]
  PROVE  SameMarks(s, u)
<1> SUFFICES ASSUME NEW k \in 1 .. Len(s), k <= Len(u), NEW m \in 1 .. Len(s[k].marks)
             PROVE  m <= Len(u[k].marks) /\ u[k].marks[m] = s[k].marks[m]
  BY DEF SameMarks
<1>1. k \in 1 .. Len(u) /\ k <= Len(t)
  OBVIOUS
<1>2. m <= Len(t[k].marks) /\ t[k].marks[m] = s[k].marks[m]
  BY <1>1 DEF SameMarks
<1>3. u[k] = t[k]
  BY <1>1
<1> QED BY <1>2, <1>3

\* Counting an item or noting one leaves a frame.
LEMMA FrameGot ==
  ASSUME NEW f \in Frames
  PROVE  [f EXCEPT !.got = @ + 1] \in Frames /\ [f EXCEPT !.got = @ + 1].marks = f.marks
<1>1. f.got + 1 \in Nat
  BY DEF Frames
<1> DEFINE n == f.got + 1
<1>2. [f EXCEPT !.got = @ + 1] = [f EXCEPT !.got = n]
  OBVIOUS
<1> HIDE DEF n
<1>3. n \in Nat
  BY <1>1 DEF n
<1>4. [f EXCEPT !.got = n] \in Frames /\ [f EXCEPT !.got = n].marks = f.marks
  BY <1>3 DEF Frames
<1> QED BY <1>2, <1>4

LEMMA FrameNotes ==
  ASSUME NEW f \in Frames, NEW marks \in Seq(Nat)
  PROVE  [f EXCEPT !.marks = marks] \in Frames /\ [f EXCEPT !.marks = marks].marks = marks
BY DEF Frames

\* The frames up to some frame are a stack themselves.
LEMMA LowerFrames ==
  ASSUME NEW s \in Seq(Frames), NEW k \in 0 .. Len(s)
  PROVE  /\ SubSeq(s, 1, k) \in Seq(Frames)
         /\ Len(SubSeq(s, 1, k)) = k
         /\ \A j \in 1 .. k : SubSeq(s, 1, k)[j] = s[j]
         /\ \A n : Noting(s, n) => Noting(SubSeq(s, 1, k), n)
<1>1. /\ SubSeq(s, 1, k) \in Seq(Frames)
      /\ Len(SubSeq(s, 1, k)) = k
      /\ \A j \in 1 .. k : SubSeq(s, 1, k)[j] = s[j]
  OBVIOUS
<1> DEFINE t == SubSeq(s, 1, k)
<1> HIDE DEF t
<1>2. ASSUME NEW n, Noting(s, n) PROVE Noting(t, n)
  <2>1. \A l \in 1 .. k : l \in 1 .. Len(s) /\ t[l] = s[l]
    BY <1>1 DEF t
  <2>2. Len(t) = k
    BY <1>1 DEF t
  <2>3. \A l \in 1 .. k : \A j \in 1 .. l : j \in 1 .. k
    OBVIOUS
  <2> QED BY <1>2, <2>1, <2>2, <2>3 DEF Noting
<1> QED BY <1>1, <1>2 DEF t

\* popTag leaves lower frames, the last of them no tag.
LEMMA PopTagsStops ==
  ASSUME NEW s \in Seq(Frames)
  PROVE  \E k \in 0 .. Len(s) : PopTags(s) = SubSeq(s, 1, k) /\ (k # 0 => s[k].major # mtTag)
<1> DEFINE untagged == {k \in 1 .. Len(s) : s[k].major # mtTag}
           Last0 == CHOOSE k \in untagged : \A j \in untagged : j <= k
<1>1. CASE untagged = {}
  <2>1. 0 \in 0 .. Len(s)
    OBVIOUS
  <2> QED BY <1>1, <2>1 DEF PopTags
<1>2. CASE untagged # {}
  <2> DEFINE T == {Len(s) - k : k \in untagged}
  <2>1. T \in SUBSET Nat /\ T # {}
    BY <1>2
  <2>2. PICK x \in T : \A y \in T : x <= y
    BY <2>1, FirstOf
  <2>3. PICK k \in untagged : x = Len(s) - k
    BY <2>2
  <2>4. ASSUME NEW j \in untagged PROVE j <= k
    <3>1. Len(s) - k <= Len(s) - j
      BY <2>2, <2>3
    <3> QED BY <3>1, <2>3
  <2>5. Last0 \in untagged
    BY <2>4
  <2>6. Last0 \in 0 .. Len(s) /\ s[Last0].major # mtTag
    BY <2>5
  <2>7. PopTags(s) = SubSeq(s, 1, Last0)
    BY <1>2 DEF PopTags
  <2> QED BY <2>6, <2>7
<1> QED BY <1>1, <1>2

LEMMA PopTagsLeaves ==
  ASSUME NEW s \in Seq(Frames)
  PROVE  \E k \in 0 .. Len(s) : PopTags(s) = SubSeq(s, 1, k)
BY PopTagsStops

\* So does leaving the innermost one.
LEMMA FrontLeaves ==
  ASSUME NEW s \in Seq(Frames), s # <<>>
  PROVE  /\ Len(s) - 1 \in 0 .. Len(s)
         /\ Front(s) = SubSeq(s, 1, Len(s) - 1)
BY DEF Front

\* An item is noted at the end of the buffer, behind everything noted before,
\* once its bytes are there.
LEMMA CountedNotes ==
  ASSUME EInv, NEW n \in Nat, Len(buf) < n
  PROVE  /\ Counted \in Seq(Frames)
         /\ Len(Counted) = Len(stack)
         /\ Noting(Counted, n)
         /\ SameMarks(stack, Counted)
<1>1. buf \in Seq(Byte) /\ stack \in Seq(Frames) /\ Len(buf) \in Nat /\ Len(stack) \in Nat
  BY DEF EInv, TypeOK
<1>2. \A k \in 1 .. Len(stack) : stack[k].marks \in Seq(Nat)
  <2>1. \A k \in 1 .. Len(stack) : stack[k] \in Frames
    BY <1>1
  <2> QED BY <2>1 DEF Frames
<1>3. \A k \in 1 .. Len(stack) : \A m \in 1 .. Len(stack[k].marks) :
        stack[k].marks[m] \in Nat /\ stack[k].marks[m] < Len(buf)
  BY <1>2 DEF EInv, MarksInBuffer
<1>4. Noting(stack, n)
  BY <1>1, <1>3 DEF EInv, MarksInBuffer, Noting
<1>5. CASE ~Open \/ IsString(Top)
  BY <1>1, <1>2, <1>4, <1>5 DEF Counted, SameMarks
<1>6. CASE ~(~Open \/ IsString(Top))
  <2> DEFINE L == Len(stack)
             marks == IF Top.major = mtMap /\ deterministic
                        THEN Append(Top.marks, Len(buf)) ELSE Top.marks
             f == [Top EXCEPT !.got = @ + 1, !.marks = marks]
  <2>1. L \in 1 .. Len(stack) /\ Top = stack[L] /\ Top \in Frames /\ stack # <<>>
    BY <1>1, <1>6 DEF Open, Top, Last
  <2>2. Top.marks \in Seq(Nat) /\ Top.got \in Nat
    BY <2>1 DEF Frames
  <2>3. /\ marks \in Seq(Nat)
        /\ Len(marks) \in {Len(Top.marks), Len(Top.marks) + 1}
        /\ \A m \in 1 .. Len(Top.marks) : m <= Len(marks) /\ marks[m] = Top.marks[m]
        /\ \A m \in 1 .. Len(marks) :
             \/ m \in 1 .. Len(Top.marks) /\ marks[m] = Top.marks[m]
             \/ m = Len(Top.marks) + 1 /\ marks[m] = Len(buf)
    BY <1>1, <2>2
  <2> HIDE DEF marks
  <2>4. f \in Frames /\ f.marks = marks
    <3> DEFINE g == [Top EXCEPT !.got = @ + 1]
    <3>1. g \in Frames
      <4> HIDE DEF Top
      <4> QED BY <2>1, FrameGot
    <3>2. f = [g EXCEPT !.marks = marks]
      OBVIOUS
    <3> HIDE DEF g, f
    <3> QED BY <2>3, <3>1, <3>2, FrameNotes
  <2>5. Counted = [stack EXCEPT ![Len(stack)] = f]
    BY <1>1, <1>6, <2>1 DEF Counted, marks
  <2> HIDE DEF f
  <2>6. /\ Counted \in Seq(Frames) /\ Len(Counted) = L
        /\ \A k \in 1 .. L : Counted[k] = IF k = L THEN f ELSE stack[k]
    BY <1>1, <2>1, <2>4, <2>5, LastReplaced
  <2>7. SameMarks(stack, Counted)
    BY <2>1, <2>3, <2>4, <2>6 DEF SameMarks
  <2>8. Noting(Counted, n)
    <3> SUFFICES ASSUME NEW l \in 1 .. L, NEW i \in 1 .. Len(Counted[l].marks),
                        NEW k \in 1 .. l, NEW m \in 1 .. Len(Counted[k].marks)
                 PROVE  /\ Counted[l].marks[i] < n
                        /\ k < l \/ m < i => Counted[k].marks[m] < Counted[l].marks[i]
      <4>1. ASSUME NEW l \in 1 .. L, NEW i \in 1 .. Len(Counted[l].marks)
            PROVE  l \in 1 .. l
        OBVIOUS
      <4> QED BY <2>6, <4>1 DEF Noting
    <3>1. k \in 1 .. L /\ l \in Nat /\ k \in Nat /\ L \in Nat
      BY <2>1
    <3>2. \A j \in 1 .. L : j # L => Counted[j].marks = stack[j].marks
      BY <2>6
    <3>3. Counted[L].marks = marks
      BY <2>1, <2>4, <2>6
    <3>4. \/ i \in 1 .. Len(stack[l].marks) /\ Counted[l].marks[i] = stack[l].marks[i]
          \/ l = L /\ i = Len(stack[l].marks) + 1 /\ Counted[l].marks[i] = Len(buf)
      BY <2>1, <2>3, <3>2, <3>3
    <3>5. \/ m \in 1 .. Len(stack[k].marks) /\ Counted[k].marks[m] = stack[k].marks[m]
          \/ k = L /\ m = Len(stack[k].marks) + 1 /\ Counted[k].marks[m] = Len(buf)
      BY <2>1, <2>3, <3>1, <3>2, <3>3
    <3>6. Len(stack[l].marks) \in Nat /\ Len(stack[k].marks) \in Nat
      BY <1>2, <3>1
    <3>7. CASE /\ i \in 1 .. Len(stack[l].marks) /\ Counted[l].marks[i] = stack[l].marks[i]
               /\ m \in 1 .. Len(stack[k].marks) /\ Counted[k].marks[m] = stack[k].marks[m]
      BY <1>3, <1>4, <3>1, <3>7 DEF Noting
    <3>8. CASE l = L /\ i = Len(stack[l].marks) + 1 /\ Counted[l].marks[i] = Len(buf)
      <4>1. k < l \/ m < i => m \in 1 .. Len(stack[k].marks) /\ Counted[k].marks[m] = stack[k].marks[m]
        BY <3>1, <3>5, <3>6, <3>8
      <4> QED BY <1>3, <3>1, <3>8, <4>1
    <3>9. CASE /\ i \in 1 .. Len(stack[l].marks) /\ Counted[l].marks[i] = stack[l].marks[i]
               /\ k = L /\ m = Len(stack[k].marks) + 1 /\ Counted[k].marks[m] = Len(buf)
      <4>1. k = l /\ ~(m < i)
        BY <3>1, <3>6, <3>9
      <4>2. Counted[l].marks[i] < n
        BY <1>4, <3>9 DEF Noting
      <4> QED BY <3>1, <4>1, <4>2
    <3> QED BY <3>4, <3>5, <3>7, <3>8, <3>9
  <2> QED BY <2>6, <2>7, <2>8
<1> QED BY <1>5, <1>6

-----------------------------------------------------------------------------
(***************************************************************************)
(* What the ways an operation ends do to the marks.                        *)
(***************************************************************************)
\* The marks of a state of the invariant.
LEMMA MarksHere ==
  ASSUME EInv
  PROVE  /\ buf \in Seq(Byte) /\ stack \in Seq(Frames)
         /\ Len(buf) \in Nat /\ Len(stack) \in Nat
         /\ Noting(stack, Len(buf))
         /\ \A k \in 1 .. Len(stack) :
              /\ stack[k] \in Frames
              /\ stack[k].marks \in Seq(Nat)
              /\ \A m \in 1 .. Len(stack[k].marks) :
                   stack[k].marks[m] \in Nat /\ stack[k].marks[m] < Len(buf)
<1>1. buf \in Seq(Byte) /\ stack \in Seq(Frames) /\ Len(buf) \in Nat /\ Len(stack) \in Nat
  BY DEF EInv, TypeOK
<1>2. Noting(stack, Len(buf))
  BY DEF EInv, MarksInBuffer, Noting
<1>3. \A k \in 1 .. Len(stack) : stack[k] \in Frames
  BY <1>1
<1>4. \A k \in 1 .. Len(stack) : stack[k].marks \in Seq(Nat)
  BY <1>3 DEF Frames
<1>5. \A k \in 1 .. Len(stack) : \A m \in 1 .. Len(stack[k].marks) :
        stack[k].marks[m] \in Nat /\ stack[k].marks[m] < Len(buf)
  BY <1>2, <1>4 DEF Noting
<1> QED BY <1>1, <1>2, <1>3, <1>4, <1>5

\* A step that keeps the marks and the bytes in front of some offset beyond
\* every one that stays keeps what was noted.
LEMMA KeptUpTo ==
  ASSUME EInv, SameMarks(stack, stack'), NEW n \in Nat,
         \A j \in 0 .. n : SubSeq(buf', 1, j) = SubSeq(buf, 1, j),
         \A k \in 1 .. Len(stack) : k <= Len(stack') =>
           \A m \in 1 .. Len(stack[k].marks) : stack[k].marks[m] <= n
  PROVE  Kept
<1>1. \A k \in 1 .. Len(stack) : k <= Len(stack') =>
        \A m \in 1 .. Len(stack[k].marks) : stack[k].marks[m] \in 0 .. n
  BY MarksHere
<1> QED BY <1>1 DEF Kept, SameMarks

\* An operation that appends keeps all of it.
LEMMA KeptAppending ==
  ASSUME EInv, SameMarks(stack, stack'), NEW bytes \in Seq(Byte), buf' = buf \o bytes
  PROVE  Kept
<1>1. \A j \in 0 .. Len(buf) : SubSeq(buf', 1, j) = SubSeq(buf, 1, j)
  BY MarksHere, Joined
<1>2. \A k \in 1 .. Len(stack) : \A m \in 1 .. Len(stack[k].marks) :
        stack[k].marks[m] <= Len(buf)
  BY MarksHere
<1> QED BY <1>1, <1>2, MarksHere, KeptUpTo

LEMMA RefuseKeeps ==
  ASSUME EInv, NEW e \in Errors, Refuse(e), mode' \in Modes
  PROVE  EInv' /\ Kept
<1>1. buf' = buf /\ stack' = stack /\ err' = e
  BY DEF Refuse
<1>2. EInv'
  BY <1>1 DEF EInv, TypeOK, MarksInBuffer
<1>3. Kept
  BY <1>1 DEF Kept
<1> QED BY <1>2, <1>3

LEMMA ItemErrorType == ASSUME EInv PROVE ItemError \in Errors
BY DEF ItemError, Errors, EInv, TypeOK

LEMMA WholeKeeps ==
  ASSUME EInv, NEW bytes \in Seq(Byte), Len(bytes) >= 1, Whole(bytes), UNCHANGED mode
  PROVE  EInv' /\ Kept
<1>1. CASE ItemError # "nil"
  <2>1. mode' \in Modes
    BY DEF EInv, TypeOK
  <2> QED BY <1>1, <2>1, ItemErrorType, RefuseKeeps DEF Whole
<1>2. CASE ItemError = "nil"
  <2>1. buf' = buf \o bytes /\ stack' = PopTags(Counted) /\ err' = err
    BY <1>2 DEF Whole
  <2>2. buf' \in Seq(Byte) /\ Len(buf') = Len(buf) + Len(bytes) /\ Len(bytes) \in Nat
    BY <2>1, MarksHere, Joined
  <2>3. Len(buf') \in Nat /\ Len(buf) < Len(buf')
    BY <2>2, MarksHere
  <2>4. /\ Counted \in Seq(Frames) /\ Len(Counted) = Len(stack)
        /\ Noting(Counted, Len(buf')) /\ SameMarks(stack, Counted)
    BY <2>3, CountedNotes
  <2>5. PICK k \in 0 .. Len(Counted) : stack' = SubSeq(Counted, 1, k)
    BY <2>1, <2>4, PopTagsLeaves
  <2>6. /\ stack' \in Seq(Frames) /\ Len(stack') = k /\ Noting(stack', Len(buf'))
        /\ \A j \in 1 .. k : stack'[j] = Counted[j]
    BY <2>4, <2>5, LowerFrames
  <2>7. SameMarks(stack, stack')
    <3>1. Len(Counted) \in Nat /\ Len(stack) \in Nat /\ Len(stack') \in 0 .. Len(Counted)
      BY <2>4, <2>6, MarksHere
    <3>2. \A j \in 1 .. Len(stack') : stack'[j] = Counted[j]
      BY <2>6
    <3> QED BY <2>4, <3>1, <3>2, SameBelow
  <2>8. EInv'
    BY <2>1, <2>2, <2>6 DEF EInv, TypeOK, MarksInBuffer, Noting
  <2> QED BY <2>1, <2>7, <2>8, KeptAppending
<1> QED BY <1>1, <1>2

LEMMA OpeningKeeps ==
  ASSUME EInv, NEW bytes \in Seq(Byte), Len(bytes) >= 1,
         NEW f \in Frames, f.marks = <<>>, Opening(bytes, f), UNCHANGED mode
  PROVE  EInv' /\ Kept
<1>1. CASE ItemError # "nil"
  <2>1. mode' \in Modes
    BY DEF EInv, TypeOK
  <2> QED BY <1>1, <2>1, ItemErrorType, RefuseKeeps DEF Opening
<1>2. CASE ItemError = "nil"
  <2>1. buf' = buf \o bytes /\ stack' = Append(Counted, f) /\ err' = err
    BY <1>2 DEF Opening
  <2>2. buf' \in Seq(Byte) /\ Len(buf') = Len(buf) + Len(bytes) /\ Len(bytes) \in Nat
    BY <2>1, MarksHere, Joined
  <2>3. Len(buf') \in Nat /\ Len(buf) < Len(buf')
    BY <2>2, MarksHere
  <2>4. /\ Counted \in Seq(Frames) /\ Len(Counted) = Len(stack)
        /\ Noting(Counted, Len(buf')) /\ SameMarks(stack, Counted)
    BY <2>3, CountedNotes
  <2> DEFINE L == Len(stack)
  <2>5. /\ stack' \in Seq(Frames) /\ Len(stack') = L + 1
        /\ \A k \in 1 .. L + 1 : stack'[k] = IF k = L + 1 THEN f ELSE Counted[k]
    BY <2>1, <2>4, Appended
  <2>6. L \in Nat /\ Len(f.marks) = 0
    BY MarksHere
  <2> HIDE DEF L
  <2>7. Noting(stack', Len(buf'))
    <3> SUFFICES ASSUME NEW l \in 1 .. L + 1, NEW i \in 1 .. Len(stack'[l].marks)
                 PROVE  /\ stack'[l].marks[i] < Len(buf')
                        /\ \A k \in 1 .. l : \A m \in 1 .. Len(stack'[k].marks) :
                             k < l \/ m < i => stack'[k].marks[m] < stack'[l].marks[i]
      BY <2>5 DEF Noting
    <3>1. l \in 1 .. L
      BY <2>5, <2>6
    <3>2. \A k \in 1 .. L : stack'[k] = Counted[k]
      BY <2>5, <2>6
    <3>3. \A k \in 1 .. l : k \in 1 .. L
      BY <2>6, <3>1
    <3>4. Len(Counted) = L
      BY <2>4 DEF L
    <3> QED BY <2>4, <3>1, <3>2, <3>3, <3>4 DEF Noting
  <2>8. SameMarks(stack, stack')
    BY <2>4, <2>5, <2>6 DEF SameMarks, L
  <2>9. EInv'
    BY <2>1, <2>2, <2>5, <2>7 DEF EInv, TypeOK, MarksInBuffer, Noting
  <2> QED BY <2>1, <2>8, <2>9, KeptAppending
<1> QED BY <1>1, <1>2

LEMMA ChunkKeeps ==
  ASSUME EInv, NEW c \in Seq(Byte), WriteChunk(c), UNCHANGED mode
  PROVE  EInv' /\ Kept
<1>1. CASE err # "nil" \/ ~(Open /\ Top.indef /\ IsString(Top))
  <2>1. mode' \in Modes /\ err \in Errors /\ "ErrContainerMismatch" \in Errors
    BY DEF EInv, TypeOK, Errors
  <2> QED BY <1>1, <2>1, RefuseKeeps DEF WriteChunk
<1>2. CASE err = "nil" /\ Open /\ Top.indef /\ IsString(Top)
  <2> DEFINE bytes == HeadBytes(Top.major, Len(c)) \o c
             f == [Top EXCEPT !.got = @ + 1]
             L == Len(stack)
  <2>1. stack # <<>> /\ L \in 1 .. Len(stack) /\ Top = stack[L] /\ Top \in Frames
    BY <1>2, MarksHere DEF Open, Top, Last
  <2>2. Top.major \in 0 .. 7 /\ Len(c) \in Nat
    BY <2>1 DEF Frames
  <2>3. HeadBytes(Top.major, Len(c)) \in Seq(Byte)
    BY <2>2, HeadBytesType
  <2>4. bytes \in Seq(Byte)
    BY <2>3, Joined
  <2>5. buf' = buf \o bytes
    <3>1. buf' = buf \o HeadBytes(Top.major, Len(c)) \o c
      BY <1>2 DEF WriteChunk
    <3> QED BY <2>3, <3>1, MarksHere
  <2>6. stack' = [stack EXCEPT ![Len(stack)] = f] /\ err' = err
    BY <1>2, <2>1 DEF WriteChunk
  <2>7. f \in Frames /\ f.marks = Top.marks
    <3> HIDE DEF Top
    <3> QED BY <2>1, FrameGot
  <2> HIDE DEF f, bytes
  <2>8. /\ stack' \in Seq(Frames) /\ Len(stack') = L
        /\ \A k \in 1 .. L : stack'[k] = IF k = L THEN f ELSE stack[k]
    BY <2>1, <2>6, <2>7, MarksHere, LastReplaced
  <2>9. \A k \in 1 .. L : stack'[k].marks = stack[k].marks
    BY <2>1, <2>7, <2>8
  <2>10. buf' \in Seq(Byte) /\ Len(buf') = Len(buf) + Len(bytes) /\ Len(bytes) \in Nat
    BY <2>4, <2>5, MarksHere, Joined
  <2>11. Noting(stack', Len(buf'))
    <3> HIDE DEF L
    <3>1. \A l \in 1 .. L : \A k \in 1 .. l : k \in 1 .. L
      BY <2>1, MarksHere
    <3>2. \A k \in 1 .. L : \A m \in 1 .. Len(stack[k].marks) : stack[k].marks[m] < Len(buf')
      BY <2>10, MarksHere DEF L
    <3>3. Noting(stack, Len(buf)) /\ Len(stack) = L
      BY MarksHere DEF L
    <3> QED BY <2>8, <2>9, <3>1, <3>2, <3>3 DEF Noting
  <2>12. SameMarks(stack, stack')
    BY <2>8, <2>9, MarksHere DEF SameMarks
  <2>13. EInv'
    BY <2>6, <2>8, <2>10, <2>11 DEF EInv, TypeOK, MarksInBuffer, Noting
  <2> QED BY <2>4, <2>5, <2>12, <2>13, KeptAppending
<1> QED BY <1>1, <1>2

-----------------------------------------------------------------------------
(***************************************************************************)
(* What closing a container leaves of the buffer.                          *)
(***************************************************************************)
\* Behind some offset s may differ from the buffer, and every mark of a
\* container around the innermost is in front of it.
AgreesAround(s) ==
  \E n \in Nat :
    /\ n <= Len(s)
    /\ \A j \in 0 .. n : SubSeq(s, 1, j) = SubSeq(buf, 1, j)
    /\ \A k \in 1 .. Len(stack) - 1 : \A m \in 1 .. Len(stack[k].marks) :
         stack[k].marks[m] < n

LEMMA BufferAgrees == ASSUME EInv PROVE AgreesAround(buf)
<1> DEFINE n == Len(buf)
<1>1. n \in Nat
  BY MarksHere
<1>2. n <= Len(buf) /\ \A j \in 0 .. n : SubSeq(buf, 1, j) = SubSeq(buf, 1, j)
  BY <1>1
<1>3. \A k \in 1 .. Len(stack) - 1 : k \in 1 .. Len(stack)
  BY MarksHere
<1>4. \A k \in 1 .. Len(stack) - 1 : \A m \in 1 .. Len(stack[k].marks) :
        stack[k].marks[m] < n
  BY <1>3, MarksHere
<1> HIDE DEF n
<1> QED BY <1>1, <1>2, <1>4 DEF AgreesAround

\* The bytes of a pair are a part of the buffer (sortPairs).
LEMMA PairType ==
  ASSUME EInv, stack # <<>>, NEW k \in Nat \ {0}, 2 * k <= Len(Top.marks)
  PROVE  PairOf(Top, k).key \in Seq(Byte) /\ PairOf(Top, k).whole \in Seq(Byte)
<1> DEFINE L == Len(stack)
           marks == Top.marks
           from == marks[2 * k - 1]
           mid == marks[2 * k]
           to == IF 2 * k < Len(marks) THEN marks[2 * k + 1] ELSE Len(buf)
<1>1. L \in 1 .. Len(stack) /\ Top = stack[L]
  BY MarksHere DEF Top, Last
<1>2. marks \in Seq(Nat) /\ \A m \in 1 .. Len(marks) : marks[m] \in Nat /\ marks[m] < Len(buf)
  BY <1>1, MarksHere
<1> HIDE DEF marks
<1>3. 2 * k - 1 \in 1 .. Len(marks) /\ 2 * k \in 1 .. Len(marks)
  BY <1>2 DEF marks
<1>4. 2 * k < Len(marks) => 2 * k + 1 \in 1 .. Len(marks)
  BY <1>2
<1>5. from \in Nat /\ mid \in Nat /\ mid <= Len(buf) /\ to \in Nat /\ to <= Len(buf)
  BY <1>2, <1>3, <1>4, MarksHere
<1> HIDE DEF from, mid, to
<1>6. SubSeq(buf, from + 1, mid) \in Seq(Byte) /\ SubSeq(buf, from + 1, to) \in Seq(Byte)
  BY <1>5, MarksHere
<1> QED BY <1>6 DEF PairOf, from, mid, to, marks

\* The sorted pairs stand where the pairs stood: the bytes in front of the
\* first of them are as they were.
LEMMA SortedAgrees ==
  ASSUME EInv, stack # <<>>, SortError(Top) = "nil"
  PROVE  Sorted(Top) \in Seq(Byte) /\ AgreesAround(Sorted(Top))
<1> DEFINE L == Len(stack)
           marks == Top.marks
           first == marks[1]
<1>1. L \in 1 .. Len(stack) /\ Top = stack[L] /\ L \in Nat
  BY MarksHere DEF Top, Last
<1>2. /\ marks \in Seq(Nat) /\ Len(marks) \in Nat
      /\ \A m \in 1 .. Len(marks) : marks[m] \in Nat /\ marks[m] < Len(buf)
  BY <1>1, MarksHere
<1>3. CASE Len(marks) < 4
  <2>1. Sorted(Top) = buf
    BY <1>3 DEF Sorted
  <2> QED BY <2>1, BufferAgrees, MarksHere
<1>4. CASE ~(Len(marks) < 4)
  <2>1. Len(marks) >= 4 /\ Len(marks) % 2 # 1
    <3>1. Len(marks) >= 4
      <4> DEFINE N == Len(marks)
      <4>1. N \in Nat /\ ~(N < 4)
        BY <1>2, <1>4
      <4> HIDE DEF N
      <4>2. N >= 4
        BY <4>1
      <4> QED BY <4>2 DEF N
    <3>2. "ErrCountOverrun" # "nil"
      OBVIOUS
    <3> QED BY <3>1, <3>2, Zenon DEF SortError
  <2> DEFINE n == Len(marks) \div 2
             pairs == [k \in 1 .. n |-> PairOf(Top, k)]
             keys == [k \in 1 .. n |-> pairs[k].key]
             order == SortedPositions(KeyRule, keys)
             wholes == [r \in 1 .. n |-> pairs[order[r]].whole]
  <2>2. n \in Nat \ {0} /\ 2 * n <= Len(marks)
    <3> DEFINE N == Len(marks)
    <3>1. N \in Nat /\ N >= 4
      BY <1>2, <2>1
    <3> HIDE DEF N
    <3>2. N \div 2 \in Nat \ {0} /\ 2 * (N \div 2) <= N
      BY <3>1
    <3> QED BY <3>2 DEF N
  <2> HIDE DEF n
  <2>3. \A k \in 1 .. n : PairOf(Top, k).key \in Seq(Byte) /\ PairOf(Top, k).whole \in Seq(Byte)
    <3> SUFFICES ASSUME NEW k \in 1 .. n
                 PROVE  PairOf(Top, k).key \in Seq(Byte) /\ PairOf(Top, k).whole \in Seq(Byte)
      OBVIOUS
    <3>1. k \in Nat \ {0} /\ 2 * k <= Len(marks)
      BY <1>2, <2>2
    <3> QED BY <3>1, PairType
  <2>4. keys \in Seq(Seq(Nat)) /\ DOMAIN keys = 1 .. n
    <3>1. ASSUME NEW s \in Seq(Byte) PROVE s \in Seq(Nat)
      <4> HIDE DEF keys
      <4>1. \A c \in Byte : c \in Nat
        BY DEF Byte
      <4>2. \A i \in 1 .. Len(s) : s[i] \in Byte
        OBVIOUS
      <4> QED BY <4>1, <4>2
    <3>2. keys \in [1 .. n -> Seq(Nat)]
      BY <2>3, <3>1
    <3> QED BY <2>2, <3>2
  <2>5. order \in [1 .. n -> 1 .. n]
    <3> HIDE DEF keys
    <3> QED BY <2>4, SortPermutes
  <2>6. wholes \in [1 .. n -> Seq(Byte)]
    <3> HIDE DEF order
    <3> QED BY <2>3, <2>5
  <2>7. FlattenSeq(wholes) \in Seq(Byte)
    <3> HIDE DEF wholes
    <3> QED BY <2>2, <2>6, FlattenType
  <2>8. first \in 0 .. Len(buf)
    <3>1. 1 \in 1 .. Len(marks)
      BY <1>2, <1>4
    <3>2. first \in Nat /\ first < Len(buf)
      BY <1>2, <3>1
    <3>3. Len(buf) \in Nat
      BY MarksHere
    <3> HIDE DEF first
    <3> QED BY <3>2, <3>3
  <2>9. Sorted(Top) = SubSeq(buf, 1, first) \o FlattenSeq(wholes)
    BY <1>4 DEF Sorted, n
  <2> DEFINE head == SubSeq(buf, 1, first)
  <2> HIDE DEF wholes, first
  <2>10. head \in Seq(Byte) /\ Len(head) = first
    BY <2>8, MarksHere
  <2>11. ASSUME NEW j \in 0 .. first PROVE SubSeq(head, 1, j) = SubSeq(buf, 1, j)
    <3>1. /\ SubSeq(buf, 1, j) \in Seq(Byte) /\ Len(SubSeq(buf, 1, j)) = j
          /\ \A i \in 1 .. j : SubSeq(buf, 1, j)[i] = buf[i]
      BY <2>8, MarksHere
    <3>2. \A i \in 1 .. first : head[i] = buf[i]
      BY <2>8, MarksHere
    <3>3. /\ SubSeq(head, 1, j) \in Seq(Byte) /\ Len(SubSeq(head, 1, j)) = j
          /\ \A i \in 1 .. j : SubSeq(head, 1, j)[i] = head[i]
      BY <2>10
    <3>4. \A i \in 1 .. j : i \in 1 .. first
      BY <2>8
    <3> QED BY <3>1, <3>2, <3>3, <3>4, SeqEqual
  <2> HIDE DEF head
  <2>12. /\ Sorted(Top) \in Seq(Byte) /\ Len(Sorted(Top)) >= first
         /\ \A j \in 0 .. first : SubSeq(Sorted(Top), 1, j) = SubSeq(head, 1, j)
    <3>1. Sorted(Top) = head \o FlattenSeq(wholes)
      BY <2>9 DEF head
    <3>2. Len(FlattenSeq(wholes)) \in Nat
      BY <2>7
    <3> QED BY <2>7, <2>8, <2>10, <3>1, <3>2, Joined
  <2>13. \A k \in 1 .. Len(stack) - 1 : \A m \in 1 .. Len(stack[k].marks) :
           stack[k].marks[m] < first
    <3>1. 1 \in 1 .. Len(marks)
      BY <1>2, <1>4
    <3>2. Noting(stack, Len(buf))
      BY MarksHere
    <3>3. \A k \in 1 .. L - 1 : k \in 1 .. L /\ k < L
      BY <1>1
    <3> QED BY <1>1, <3>1, <3>2, <3>3 DEF Noting, first
  <2>14. first \in Nat
    BY <2>8
  <2> QED BY <2>11, <2>12, <2>13, <2>14 DEF AgreesAround
<1> QED BY <1>3, <1>4

LEMMA ClosedAgrees ==
  ASSUME EInv, stack # <<>>, Top.major = mtMap /\ deterministic => SortError(Top) = "nil"
  PROVE  Closed(Top) \in Seq(Byte) /\ AgreesAround(Closed(Top))
<1> DEFINE s == IF Top.major = mtMap /\ deterministic THEN Sorted(Top) ELSE buf
           t == IF Top.indef THEN <<Break>> ELSE <<>>
<1>1. s \in Seq(Byte) /\ AgreesAround(s)
  <2>1. CASE Top.major = mtMap /\ deterministic
    BY <2>1, SortedAgrees
  <2>2. CASE ~(Top.major = mtMap /\ deterministic)
    BY <2>2, BufferAgrees, MarksHere
  <2> QED BY <2>1, <2>2
<1>2. t \in Seq(Byte) /\ Len(t) \in Nat
  <2>1. Break \in Byte
    BY DEF Break, Byte
  <2>2. <<Break>> \in Seq(Byte) /\ Len(<<Break>>) \in Nat
    BY <2>1
  <2> QED BY <2>2
<1>3. Closed(Top) = s \o t
  BY DEF Closed
<1> HIDE DEF s, t
<1>4. /\ s \o t \in Seq(Byte) /\ Len(s \o t) = Len(s) + Len(t) /\ Len(s) \in Nat
      /\ \A j \in 0 .. Len(s) : SubSeq(s \o t, 1, j) = SubSeq(s, 1, j)
  BY <1>1, <1>2, Joined
<1>5. PICK n \in Nat :
        /\ n <= Len(s)
        /\ \A j \in 0 .. n : SubSeq(s, 1, j) = SubSeq(buf, 1, j)
        /\ \A k \in 1 .. Len(stack) - 1 : \A m \in 1 .. Len(stack[k].marks) :
             stack[k].marks[m] < n
  BY <1>1 DEF AgreesAround
<1>6. n <= Len(s \o t) /\ \A j \in 0 .. n : j \in 0 .. Len(s)
  BY <1>2, <1>4, <1>5
<1>7. AgreesAround(s \o t)
  BY <1>4, <1>5, <1>6 DEF AgreesAround
<1> QED BY <1>3, <1>4, <1>7

\* A container that is closed leaves the ones around it as they were.
LEMMA LeaveKeeps ==
  ASSUME EInv, stack # <<>>, UNCHANGED mode, err' \in Errors,
         buf' \in Seq(Byte), AgreesAround(buf'),
         NEW k \in 0 .. Len(stack) - 1, stack' = SubSeq(stack, 1, k)
  PROVE  EInv' /\ Kept
<1>1. k \in 0 .. Len(stack) /\ k \in Nat /\ Len(buf') \in Nat
  BY MarksHere
<1>2. /\ stack' \in Seq(Frames) /\ Len(stack') = k
      /\ \A j \in 1 .. k : stack'[j] = stack[j]
      /\ Noting(stack', Len(buf))
  BY <1>1, MarksHere, LowerFrames
<1>3. PICK n \in Nat :
        /\ n <= Len(buf')
        /\ \A j \in 0 .. n : SubSeq(buf', 1, j) = SubSeq(buf, 1, j)
        /\ \A l \in 1 .. Len(stack) - 1 : \A m \in 1 .. Len(stack[l].marks) :
             stack[l].marks[m] < n
  BY DEF AgreesAround
<1>4. \A l \in 1 .. k : l \in 1 .. Len(stack) - 1 /\ l \in 1 .. Len(stack)
  BY <1>1, MarksHere
<1>5. \A l \in 1 .. k : \A m \in 1 .. Len(stack[l].marks) :
        stack[l].marks[m] <= n /\ stack[l].marks[m] < Len(buf')
  <2> SUFFICES ASSUME NEW l \in 1 .. k, NEW m \in 1 .. Len(stack[l].marks)
               PROVE  stack[l].marks[m] <= n /\ stack[l].marks[m] < Len(buf')
    OBVIOUS
  <2> DEFINE x == stack[l].marks[m]
  <2>1. x < n /\ x \in Nat
    BY <1>3, <1>4, MarksHere
  <2> HIDE DEF x
  <2>2. x <= n /\ x < Len(buf')
    BY <1>1, <1>3, <2>1
  <2> QED BY <2>2 DEF x
<1>6. Noting(stack', Len(buf'))
  BY <1>2, <1>5 DEF Noting
<1>7. EInv'
  BY <1>2, <1>6 DEF EInv, TypeOK, MarksInBuffer, Noting
<1>8. SameMarks(stack, stack')
  BY <1>2, MarksHere DEF SameMarks
<1>9. \A l \in 1 .. Len(stack) : l <= Len(stack') => l \in 1 .. k
  BY <1>1, <1>2
<1> QED BY <1>3, <1>5, <1>7, <1>8, <1>9, KeptUpTo

LEMMA EndKeeps ==
  ASSUME EInv, NEW major, End(major), UNCHANGED mode
  PROVE  EInv' /\ Kept
<1>1. /\ mode' \in Modes /\ err \in Errors
      /\ "ErrContainerMismatch" \in Errors /\ "ErrCountOverrun" \in Errors
      /\ "ErrNotWellFormed" \in Errors
  BY DEF EInv, TypeOK, Errors
<1>2. CASE err # "nil"
  BY <1>1, <1>2, RefuseKeeps DEF End
<1>3. CASE err = "nil" /\ (~Open \/ Top.major # major)
  BY <1>1, <1>3, RefuseKeeps DEF End
<1>4. CASE err = "nil" /\ Open /\ Top.major = major /\ ~Top.indef /\ Top.got # Top.want
  BY <1>1, <1>4, RefuseKeeps DEF End
<1>5. CASE err = "nil" /\ Open /\ Top.major = major /\ ~(~Top.indef /\ Top.got # Top.want)
  <2>1. stack # <<>> /\ stack \in Seq(Frames) /\ Len(stack) \in Nat
    BY <1>5, MarksHere DEF Open
  <2>2. Len(stack) - 1 \in 0 .. Len(stack) /\ Front(stack) = SubSeq(stack, 1, Len(stack) - 1)
    BY <2>1, FrontLeaves
  <2>3. Len(stack) - 1 \in 0 .. Len(stack) - 1
    BY <2>1, <2>2
  <2>4. CASE major = mtMap /\ deterministic /\ SortError(Top) # "nil"
    <3>1. err' = SortError(Top) /\ stack' = Front(stack) /\ buf' = buf
      BY <1>5, <2>4 DEF End
    <3>2. SortError(Top) \in Errors
      BY DEF SortError, Errors
    <3>3. buf' \in Seq(Byte) /\ AgreesAround(buf')
      BY <3>1, MarksHere, BufferAgrees
    <3> QED BY <2>1, <2>2, <2>3, <3>1, <3>2, <3>3, LeaveKeeps
  <2>5. CASE ~(major = mtMap /\ deterministic /\ SortError(Top) # "nil")
    <3>1. /\ buf' = Closed(Top)
          /\ \/ err' = "ErrNotWellFormed" /\ stack' = Front(stack)
             \/ stack' = PopTags(Front(stack)) /\ err' = err
      BY <1>5, <2>5 DEF End
    <3>2. err' \in Errors
      BY <1>1, <3>1
    <3>3. buf' \in Seq(Byte) /\ AgreesAround(buf')
      <4>1. Closed(Top) \in Seq(Byte) /\ AgreesAround(Closed(Top))
        BY <1>5, <2>1, <2>5, ClosedAgrees
      <4> QED BY <3>1, <4>1
    <3>4. \E k \in 0 .. Len(stack) - 1 : stack' = SubSeq(stack, 1, k)
      <4>1. CASE stack' = Front(stack)
        BY <2>2, <2>3, <4>1
      <4>2. CASE stack' = PopTags(Front(stack))
        <5> DEFINE s == Front(stack)
        <5>1. s \in Seq(Frames) /\ Len(s) = Len(stack) - 1
          BY <2>1, FrontOf
        <5>2. PICK k \in 0 .. Len(s) : PopTags(s) = SubSeq(s, 1, k)
          BY <5>1, PopTagsLeaves
        <5>3. k \in 0 .. Len(stack) - 1
          BY <5>1
        <5>4. SubSeq(s, 1, k) = SubSeq(stack, 1, k)
          <6>1. \A j \in 1 .. Len(stack) - 1 : s[j] = stack[j]
            BY <2>1, FrontOf
          <6> HIDE DEF s
          <6>2. /\ SubSeq(s, 1, k) \in Seq(Frames) /\ Len(SubSeq(s, 1, k)) = k
                /\ \A j \in 1 .. k : SubSeq(s, 1, k)[j] = s[j]
            BY <5>1, LowerFrames
          <6>3. k \in 0 .. Len(stack)
            BY <2>1, <5>3
          <6>4. /\ SubSeq(stack, 1, k) \in Seq(Frames) /\ Len(SubSeq(stack, 1, k)) = k
                /\ \A j \in 1 .. k : SubSeq(stack, 1, k)[j] = stack[j]
            BY <2>1, <6>3, LowerFrames
          <6>5. \A j \in 1 .. k : j \in 1 .. Len(stack) - 1
            BY <2>1, <5>3
          <6> QED BY <6>1, <6>2, <6>4, <6>5, SeqEqual
        <5> QED BY <4>2, <5>2, <5>3, <5>4
      <4> QED BY <3>1, <4>1, <4>2
    <3> QED BY <2>1, <3>2, <3>3, <3>4, LeaveKeeps
  <2> QED BY <2>4, <2>5
<1> QED BY <1>2, <1>3, <1>4, <1>5

-----------------------------------------------------------------------------
(***************************************************************************)
(* The operations.                                                         *)
(***************************************************************************)
LEMMA EInit == Init => EInv
<1> SUFFICES ASSUME Init PROVE EInv
  OBVIOUS
<1>1. /\ buf = <<>> /\ stack = <<>> /\ err = "nil" /\ mode = "Adapter"
      /\ Len(stack) = 0
  BY DEF Init
<1>2. TypeOK
  BY <1>1 DEF TypeOK, Errors, Modes
<1>3. MarksInBuffer
  BY <1>1 DEF MarksInBuffer
<1> QED BY <1>2, <1>3 DEF EInv

\* Reset leaves nothing noted, and a stutter or SetMode all of it.
LEMMA ResetKeeps ==
  ASSUME EInv, Reset, UNCHANGED mode
  PROVE  EInv' /\ Kept
<1>1. /\ buf' = <<>> /\ stack' = <<>> /\ err' = "nil" /\ mode' = mode
      /\ Len(stack') = 0
  BY DEF Reset
<1>2. TypeOK'
  BY <1>1 DEF EInv, TypeOK, Errors
<1>3. MarksInBuffer'
  BY <1>1 DEF MarksInBuffer
<1>4. Kept
  BY <1>1 DEF Kept
<1> QED BY <1>2, <1>3, <1>4 DEF EInv

LEMMA UnchangedKeeps ==
  ASSUME EInv, UNCHANGED <<buf, stack, err>>, mode' \in Modes
  PROVE  EInv' /\ Kept
<1>1. EInv'
  BY DEF EInv, TypeOK, MarksInBuffer
<1>2. Kept
  BY DEF Kept
<1> QED BY <1>1, <1>2

\* A new container or tag has noted nothing.
LEMMA FrameType ==
  ASSUME NEW major \in 0 .. 7, NEW indef \in BOOLEAN, NEW want \in Nat
  PROVE  Frame(major, indef, want) \in Frames /\ Frame(major, indef, want).marks = <<>>
BY DEF Frame, Frames

\* A string or text item: its head and its content.
LEMMA StringType ==
  ASSUME NEW major \in 0 .. 7, NEW c \in Seq(Byte)
  PROVE  /\ HeadBytes(major, Len(c)) \o c \in Seq(Byte)
         /\ Len(HeadBytes(major, Len(c)) \o c) >= 1
<1>1. HeadBytes(major, Len(c)) \in Seq(Byte) /\ Len(HeadBytes(major, Len(c))) >= 1
  <2>1. Len(c) \in Nat
    OBVIOUS
  <2> QED BY <2>1, HeadBytesType
<1> DEFINE h == HeadBytes(major, Len(c))
<1> HIDE DEF h
<1>2. h \in Seq(Byte) /\ Len(h) >= 1
  BY <1>1 DEF h
<1>3. h \o c \in Seq(Byte) /\ Len(h \o c) >= 1
  BY <1>2
<1> QED BY <1>3 DEF h

LEMMA ENext ==
  ASSUME EInv, [Next]_vars
  PROVE  EInv' /\ Kept
<1> DEFINE Majors == {mtBytes, mtText, mtArray, mtMap}
<1>1. /\ \A s \in Scalars : s \in Seq(Byte) /\ Len(s) >= 1
      /\ \A c \in Contents : c \in Seq(Byte)
  BY ContentsAssumption
<1>2. mtBytes \in 0 .. 7 /\ mtText \in 0 .. 7 /\ mtTag \in 0 .. 7 /\ mtArray \in 0 .. 7 /\ mtMap \in 0 .. 7
  BY DEF mtBytes, mtText, mtTag, mtArray, mtMap
<1>3. (\A n \in Tags : n \in Nat) /\ (\A n \in Counts : n \in Nat) /\ Word \in Nat \ {0}
  BY CountsAssumption, FormatsAssumption
<1>4. mode' \in Modes
  BY DEF EInv, TypeOK, Next, SetMode, vars
<1>5. "ErrNotWellFormed" \in Errors
  BY DEF Errors
<1>6. ASSUME NEW s \in Scalars, WriteScalar(s), UNCHANGED mode PROVE EInv' /\ Kept
  BY <1>1, <1>6, WholeKeeps DEF WriteScalar
<1>7. ASSUME NEW f \in Reals, WriteFloatBits(f), UNCHANGED mode PROVE EInv' /\ Kept
  <2> DEFINE bytes == FloatBytes(IF deterministic THEN Shortest(f.kind, f.num) ELSE f)
  <2>1. bytes \in Seq(Byte) \ {<<>>}
    BY RealsAssumption
  <2>2. Whole(bytes)
    BY <1>7 DEF WriteFloatBits
  <2> HIDE DEF bytes
  <2>3. bytes \in Seq(Byte) /\ Len(bytes) >= 1
    BY <2>1
  <2> QED BY <1>7, <2>2, <2>3, WholeKeeps
<1>8. ASSUME NEW f \in Reals, f.kind = "float64", WriteFloat64(f.num), UNCHANGED mode
      PROVE  EInv' /\ Kept
  <2> DEFINE bytes == FloatBytes(IF deterministic THEN Shortest("float64", f.num)
                                                  ELSE Narrowed64(f.num))
  <2>1. bytes \in Seq(Byte) \ {<<>>}
    BY <1>8, RealsAssumption
  <2>2. Whole(bytes)
    BY <1>8 DEF WriteFloat64
  <2> HIDE DEF bytes
  <2>3. bytes \in Seq(Byte) /\ Len(bytes) >= 1
    BY <2>1
  <2> QED BY <1>8, <2>2, <2>3, WholeKeeps
<1>9. ASSUME NEW c \in Contents, WriteBytes(c), UNCHANGED mode PROVE EInv' /\ Kept
  BY <1>1, <1>2, <1>9, StringType, WholeKeeps DEF WriteBytes
<1>10. ASSUME NEW c \in Contents, WriteText(c), UNCHANGED mode PROVE EInv' /\ Kept
  <2>1. CASE ~ValidUTF8(c)
    BY <1>4, <1>5, <1>10, <2>1, RefuseKeeps DEF WriteText
  <2>2. CASE ValidUTF8(c)
    BY <1>1, <1>2, <1>10, <2>2, StringType, WholeKeeps DEF WriteText
  <2> QED BY <2>1, <2>2
<1>11. ASSUME NEW c \in Contents, WriteChunk(c), UNCHANGED mode PROVE EInv' /\ Kept
  BY <1>1, <1>11, ChunkKeeps
<1>12. ASSUME WriteReserved, UNCHANGED mode PROVE EInv' /\ Kept
  BY <1>4, <1>5, <1>12, RefuseKeeps DEF WriteReserved
<1>13. ASSUME NEW n \in Tags, WriteTag(n), UNCHANGED mode PROVE EInv' /\ Kept
  BY <1>2, <1>3, <1>13, HeadBytesType, FrameType, OpeningKeeps DEF WriteTag
<1>14. ASSUME NEW n \in Counts, StartArray(n), UNCHANGED mode PROVE EInv' /\ Kept
  BY <1>2, <1>3, <1>14, HeadBytesType, FrameType, OpeningKeeps DEF StartArray
<1>15. ASSUME NEW n \in Counts, StartMap(n), UNCHANGED mode PROVE EInv' /\ Kept
  <2>1. (2 * n) % Word \in Nat
    BY <1>3
  <2> QED BY <1>2, <1>3, <1>15, <2>1, HeadBytesType, FrameType, OpeningKeeps DEF StartMap
<1>16. ASSUME NEW major \in Majors, StartIndefinite(major), UNCHANGED mode PROVE EInv' /\ Kept
  <2>1. major \in 0 .. 7 /\ 32 * major + 31 \in Byte /\ 0 \in Nat
    BY <1>2 DEF Byte
  <2>2. <<32 * major + 31>> \in Seq(Byte) /\ Len(<<32 * major + 31>>) >= 1
    BY <2>1
  <2>3. Frame(major, TRUE, 0) \in Frames /\ Frame(major, TRUE, 0).marks = <<>>
    BY <2>1, FrameType
  <2> QED BY <1>16, <2>2, <2>3, OpeningKeeps DEF StartIndefinite
<1>17. ASSUME NEW major \in Majors, End(major), UNCHANGED mode PROVE EInv' /\ Kept
  BY <1>17, EndKeeps
<1>18. ASSUME NEW m \in Modes, SetMode(m) PROVE EInv' /\ Kept
  BY <1>4, <1>18, UnchangedKeeps DEF SetMode
<1>19. ASSUME UNCHANGED vars PROVE EInv' /\ Kept
  BY <1>4, <1>19, UnchangedKeeps DEF vars
<1>20. ASSUME Writing, UNCHANGED mode PROVE EInv' /\ Kept
  BY <1>6, <1>7, <1>8, <1>9, <1>10, <1>11, <1>12, <1>13, <1>14, <1>15, <1>16, <1>17,
     <1>20, ResetKeeps DEF Writing
<1> QED BY <1>18, <1>19, <1>20 DEF Next

LEMMA EncoderInvariant == Spec => []EInv
<1>1. EInv /\ [Next]_vars => EInv'
  BY ENext
<1> QED BY EInit, <1>1, PTL DEF Spec

\* The buffer is bytes, and the stack frames (Encoder).
THEOREM EncoderTyped == Spec => []TypeOK
<1>1. EInv => TypeOK
  BY DEF EInv
<1> QED BY <1>1, EncoderInvariant, PTL

\* Every offset sortPairs slices with is in the buffer, and in order, whatever
\* was called before and in whichever modes.
THEOREM EncoderMarks == Spec => []MarksInBuffer
<1>1. EInv => MarksInBuffer
  BY DEF EInv
<1> QED BY <1>1, EncoderInvariant, PTL

\* No operation moves or changes what an open map has noted, the sort of a map
\* inside one of its items included.
THEOREM EncoderNoted == Spec => NotedStays
<1>1. EInv /\ [Next]_vars => [Kept]_vars
  BY ENext
<1>2. Kept <=> \A k \in 1 .. Len(stack) : k <= Len(stack') =>
       \A m \in 1 .. Len(stack[k].marks) :
         /\ m <= Len(stack'[k].marks)
         /\ stack'[k].marks[m] = stack[k].marks[m]
         /\ SubSeq(buf', 1, stack[k].marks[m]) = SubSeq(buf, 1, stack[k].marks[m])
  BY DEF Kept
<1> QED BY <1>1, <1>2, EncoderInvariant, PTL DEF Spec, NotedStays

-----------------------------------------------------------------------------
(***************************************************************************)
(* The counts of an encoder that has made no error (Accounted).            *)
(***************************************************************************)
\* A frame that holds no more than it announced; a tag with n items written.
Fair(f) == ~f.indef => f.got <= f.want
Tagged(f, n) == f.major = mtTag => ~f.indef /\ f.want = 1 /\ f.got = n

\* A stack between two operations, and one whose innermost frame has just been
\* given an item, before popTag.
Settled(s) == \A k \in 1 .. Len(s) : Fair(s[k]) /\ Tagged(s[k], IF k = Len(s) THEN 0 ELSE 1)
Fed(s) == \A k \in 1 .. Len(s) : Fair(s[k]) /\ Tagged(s[k], 1)

AInv == err = "nil" => Settled(stack)

LEMMA PopTagsSettles ==
  ASSUME NEW s \in Seq(Frames), Fed(s)
  PROVE  Settled(PopTags(s))
<1>1. PICK k \in 0 .. Len(s) : PopTags(s) = SubSeq(s, 1, k) /\ (k # 0 => s[k].major # mtTag)
  BY PopTagsStops
<1> DEFINE t == PopTags(s)
<1>2. Len(t) = k /\ \A j \in 1 .. k : t[j] = s[j]
  BY <1>1, LowerFrames
<1> HIDE DEF t
<1>3. ASSUME NEW j \in 1 .. k PROVE Fair(s[j]) /\ Tagged(s[j], IF j = k THEN 0 ELSE 1)
  <2>1. j \in 1 .. Len(s)
    OBVIOUS
  <2>2. Fair(s[j]) /\ Tagged(s[j], 1)
    BY <2>1 DEF Fed
  <2>3. j = k => s[j].major # mtTag
    BY <1>1
  <2> QED BY <2>2, <2>3 DEF Tagged
<1>4. Settled(t)
  BY <1>2, <1>3 DEF Settled
<1> QED BY <1>4 DEF t

\* The item in a frame that is left is whole.
LEMMA FrontFed ==
  ASSUME NEW s \in Seq(Frames), s # <<>>, Settled(s)
  PROVE  Front(s) \in Seq(Frames) /\ Fed(Front(s))
<1> DEFINE t == Front(s)
<1>1. t \in Seq(Frames) /\ Len(t) = Len(s) - 1 /\ \A k \in 1 .. Len(s) - 1 : t[k] = s[k]
  BY FrontOf
<1> HIDE DEF t
<1>2. \A k \in 1 .. Len(t) : k \in 1 .. Len(s) /\ k # Len(s) /\ t[k] = s[k]
  BY <1>1
<1>3. Fed(t)
  BY <1>2 DEF Settled, Fed
<1> QED BY <1>1, <1>3 DEF t

\* A frame that is opened has no item yet.
LEMMA OpenedSettles ==
  ASSUME NEW s \in Seq(Frames), Fed(s), NEW f \in Frames, Fair(f), Tagged(f, 0)
  PROVE  Settled(Append(s, f))
<1> DEFINE t == Append(s, f)
<1>1. Len(t) = Len(s) + 1 /\ \A k \in 1 .. Len(s) + 1 : t[k] = IF k = Len(s) + 1 THEN f ELSE s[k]
  BY Appended
<1> HIDE DEF t
<1>2. ASSUME NEW k \in 1 .. Len(s) + 1
      PROVE  Fair(t[k]) /\ Tagged(t[k], IF k = Len(s) + 1 THEN 0 ELSE 1)
  <2>1. CASE k = Len(s) + 1
    BY <1>1, <2>1
  <2>2. CASE k # Len(s) + 1
    <3>1. k \in 1 .. Len(s) /\ t[k] = s[k]
      BY <1>1, <2>2
    <3>2. Fair(s[k]) /\ Tagged(s[k], 1)
      BY <3>1 DEF Fed
    <3> QED BY <2>2, <3>1, <3>2
  <2> QED BY <2>1, <2>2
<1>3. Settled(t)
  BY <1>1, <1>2 DEF Settled
<1> QED BY <1>3 DEF t

\* An item that is not refused is counted where there is room for it.
LEMMA CountedFed ==
  ASSUME EInv, AInv, ItemError = "nil"
  PROVE  Counted \in Seq(Frames) /\ Fed(Counted)
<1>1. err = "nil" /\ (Open /\ ~IsString(Top) => Top.indef \/ ~(Top.got >= Top.want))
  BY DEF ItemError
<1>2. Settled(stack) /\ stack \in Seq(Frames) /\ Len(buf) \in Nat /\ Len(stack) \in Nat
  BY <1>1, MarksHere DEF AInv
<1>3. Len(buf) + 1 \in Nat /\ Len(buf) < Len(buf) + 1
  BY <1>2
<1>4. Counted \in Seq(Frames) /\ Len(Counted) = Len(stack)
  BY <1>3, CountedNotes
<1>5. CASE ~Open
  <2>1. Counted = stack /\ Len(stack) = 0
    BY <1>2, <1>5 DEF Counted, Open
  <2> QED BY <1>4, <2>1 DEF Fed
<1>6. CASE Open /\ IsString(Top)
  <2>1. Counted = stack /\ Top = stack[Len(stack)] /\ Len(stack) \in 1 .. Len(stack)
    BY <1>2, <1>6 DEF Counted, Open, Top, Last
  <2>2. Top.major # mtTag
    BY <1>6 DEF IsString, mtTag, mtBytes, mtText
  <2>3. ASSUME NEW k \in 1 .. Len(stack) PROVE Fair(stack[k]) /\ Tagged(stack[k], 1)
    <3>1. Fair(stack[k]) /\ Tagged(stack[k], IF k = Len(stack) THEN 0 ELSE 1)
      BY <1>2 DEF Settled
    <3> QED BY <2>1, <2>2, <3>1 DEF Tagged
  <2> QED BY <1>4, <2>1, <2>3 DEF Fed
<1>7. CASE Open /\ ~IsString(Top)
  <2> DEFINE L == Len(stack)
             c == Counted[L]
  <2>1. Top = stack[L] /\ L \in 1 .. L /\ L \in 1 .. Len(stack) /\ Top \in Frames /\ stack # <<>>
    BY <1>2, <1>7 DEF Open, Top, Last
  <2>2. /\ \A k \in 1 .. L : k # L => Counted[k] = stack[k]
        /\ c.got = Top.got + 1 /\ c.indef = Top.indef /\ c.want = Top.want /\ c.major = Top.major
    <3> DEFINE marks == IF Top.major = mtMap /\ deterministic
                          THEN Append(Top.marks, Len(buf)) ELSE Top.marks
               f == [Top EXCEPT !.got = @ + 1, !.marks = marks]
    <3>1. Counted = [stack EXCEPT ![L] = f]
      BY <1>2, <1>7, <2>1 DEF Counted
    <3>2. /\ f.got = Top.got + 1 /\ f.indef = Top.indef /\ f.want = Top.want
          /\ f.major = Top.major
      <4> HIDE DEF marks, Top
      <4> QED BY <2>1 DEF Frames
    <3> HIDE DEF f
    <3>3. \A k \in 1 .. L : Counted[k] = IF k = L THEN f ELSE stack[k]
      BY <1>2, <3>1
    <3> QED BY <2>1, <3>2, <3>3
  <2>3. Top.got \in Nat /\ Top.want \in Nat /\ Fair(Top) /\ Tagged(Top, 0)
    BY <1>2, <2>1 DEF Settled, Frames
  <2>4. Fair(c)
    BY <1>1, <1>7, <2>2, <2>3 DEF Fair
  <2>5. Tagged(c, 1)
    BY <2>2, <2>3 DEF Tagged
  <2>6. ASSUME NEW k \in 1 .. L PROVE Fair(Counted[k]) /\ Tagged(Counted[k], 1)
    <3>1. CASE k = L
      BY <2>4, <2>5, <3>1
    <3>2. CASE k # L
      <4>1. Fair(stack[k]) /\ Tagged(stack[k], 1)
        BY <1>2, <3>2 DEF Settled
      <4> QED BY <2>2, <3>2, <4>1
    <3> QED BY <3>1, <3>2
  <2> QED BY <1>4, <2>6 DEF Fed
<1> QED BY <1>5, <1>6, <1>7

LEMMA WholeAccounts ==
  ASSUME EInv, AInv, NEW bytes, Whole(bytes)
  PROVE  AInv'
<1>1. CASE ItemError # "nil"
  BY <1>1 DEF Whole, Refuse, AInv
<1>2. CASE ItemError = "nil"
  <2>1. stack' = PopTags(Counted)
    BY <1>2 DEF Whole
  <2> QED BY <1>2, <2>1, CountedFed, PopTagsSettles DEF AInv
<1> QED BY <1>1, <1>2

LEMMA OpeningAccounts ==
  ASSUME EInv, AInv, NEW bytes, NEW f \in Frames, Fair(f), Tagged(f, 0), Opening(bytes, f)
  PROVE  AInv'
<1>1. CASE ItemError # "nil"
  BY <1>1 DEF Opening, Refuse, AInv
<1>2. CASE ItemError = "nil"
  <2>1. stack' = Append(Counted, f)
    BY <1>2 DEF Opening
  <2> QED BY <1>2, <2>1, CountedFed, OpenedSettles DEF AInv
<1> QED BY <1>1, <1>2

LEMMA RefuseAccounts ==
  ASSUME NEW e, e # "nil", Refuse(e)
  PROVE  AInv'
BY DEF Refuse, AInv

LEMMA ChunkAccounts ==
  ASSUME EInv, AInv, NEW c, WriteChunk(c)
  PROVE  AInv'
<1>1. CASE err # "nil" \/ ~(Open /\ Top.indef /\ IsString(Top))
  BY <1>1, RefuseAccounts DEF WriteChunk
<1>2. CASE err = "nil" /\ Open /\ Top.indef /\ IsString(Top)
  <2> DEFINE L == Len(stack)
             f == [Top EXCEPT !.got = @ + 1]
  <2>1. stack # <<>> /\ L \in 1 .. L /\ Top = stack[L] /\ Top \in Frames /\ stack \in Seq(Frames)
    BY <1>2, MarksHere DEF Open, Top, Last
  <2>2. stack' = [stack EXCEPT ![L] = f]
    BY <1>2, <2>1 DEF WriteChunk
  <2>3. f \in Frames /\ f.indef /\ f.major = Top.major
    <3>1. Top.indef
      BY <1>2
    <3> HIDE DEF Top
    <3>2. f.indef = Top.indef /\ f.major = Top.major
      BY <2>1 DEF Frames
    <3> QED BY <2>1, <3>1, <3>2, FrameGot
  <2>4. f.major # mtTag
    BY <1>2, <2>3 DEF IsString, mtTag, mtBytes, mtText
  <2> HIDE DEF f
  <2>5. Len(stack') = L /\ \A k \in 1 .. L : stack'[k] = IF k = L THEN f ELSE stack[k]
    BY <2>1, <2>2, <2>3, LastReplaced
  <2>6. Fair(f) /\ Tagged(f, 0)
    BY <2>3, <2>4 DEF Fair, Tagged
  <2>7. \A k \in 1 .. L : Fair(stack[k]) /\ Tagged(stack[k], IF k = L THEN 0 ELSE 1)
    BY <1>2 DEF AInv, Settled
  <2> HIDE DEF L
  <2>8. Settled(stack')
    BY <2>5, <2>6, <2>7 DEF Settled
  <2> QED BY <2>8 DEF AInv
<1> QED BY <1>1, <1>2

LEMMA EndAccounts ==
  ASSUME EInv, AInv, NEW major, End(major)
  PROVE  AInv'
<1>1. CASE err # "nil" \/ ~Open \/ Top.major # major \/ (~Top.indef /\ Top.got # Top.want)
  <2>1. \E e : e # "nil" /\ Refuse(e)
    <3>1. "ErrContainerMismatch" # "nil" /\ "ErrCountOverrun" # "nil"
      OBVIOUS
    <3> QED BY <1>1, <3>1, Zenon DEF End
  <2> QED BY <2>1, RefuseAccounts
<1>2. CASE err = "nil" /\ Open /\ Top.major = major /\ ~(~Top.indef /\ Top.got # Top.want)
  <2>1. stack # <<>> /\ stack \in Seq(Frames) /\ Settled(stack)
    BY <1>2, MarksHere DEF Open, AInv
  <2>2. CASE major = mtMap /\ deterministic /\ SortError(Top) # "nil"
    <3>1. err' # "nil"
      BY <1>2, <2>2 DEF End
    <3> QED BY <3>1 DEF AInv
  <2>3. CASE ~(major = mtMap /\ deterministic /\ SortError(Top) # "nil")
    <3>1. err' # "nil" \/ stack' = PopTags(Front(stack))
      BY <1>2, <2>3 DEF End
    <3>2. Settled(PopTags(Front(stack)))
      BY <2>1, FrontFed, PopTagsSettles
    <3> QED BY <3>1, <3>2 DEF AInv
  <2> QED BY <2>2, <2>3
<1> QED BY <1>1, <1>2

\* A frame that is opened starts at zero.
LEMMA FrameFair ==
  ASSUME NEW major, NEW indef, NEW want \in Nat,
         major = mtTag => ~indef /\ want = 1
  PROVE  Fair(Frame(major, indef, want)) /\ Tagged(Frame(major, indef, want), 0)
BY DEF Fair, Tagged, Frame

LEMMA ANext ==
  ASSUME EInv, AInv, [Next]_vars
  PROVE  AInv'
<1> DEFINE Majors == {mtBytes, mtText, mtArray, mtMap}
<1>1. mtTag \in 0 .. 7 /\ \A m \in Majors : m \in 0 .. 7 /\ m # mtTag
  BY DEF mtBytes, mtText, mtTag, mtArray, mtMap
<1>2. (\A n \in Counts : n \in Nat /\ (2 * n) % Word \in Nat) /\ 0 \in Nat /\ 1 \in Nat
  BY CountsAssumption, FormatsAssumption
<1>3. ASSUME NEW s, WriteScalar(s) PROVE AInv'
  BY <1>3, WholeAccounts DEF WriteScalar
<1>4. ASSUME NEW f, WriteFloatBits(f) \/ WriteFloat64(f.num) PROVE AInv'
  BY <1>4, WholeAccounts DEF WriteFloatBits, WriteFloat64
<1>5. ASSUME NEW c, WriteBytes(c) PROVE AInv'
  BY <1>5, WholeAccounts DEF WriteBytes
<1>6. ASSUME NEW c, WriteText(c) PROVE AInv'
  <2>1. CASE ValidUTF8(c)
    BY <1>6, <2>1, WholeAccounts DEF WriteText
  <2>2. CASE ~ValidUTF8(c)
    BY <1>6, <2>2, RefuseAccounts DEF WriteText
  <2> QED BY <2>1, <2>2
<1>7. ASSUME WriteReserved PROVE AInv'
  BY <1>7, RefuseAccounts DEF WriteReserved
<1>8. ASSUME NEW n \in Tags, WriteTag(n) PROVE AInv'
  BY <1>1, <1>2, <1>8, FrameType, FrameFair, OpeningAccounts DEF WriteTag
<1>9. ASSUME NEW n \in Counts, StartArray(n) \/ StartMap(n) PROVE AInv'
  BY <1>1, <1>2, <1>9, FrameType, FrameFair, OpeningAccounts DEF StartArray, StartMap
<1>10. ASSUME NEW m \in Majors, StartIndefinite(m) PROVE AInv'
  <2> DEFINE f == Frame(m, TRUE, 0)
  <2>1. f \in Frames
    BY <1>1, <1>2, FrameType
  <2>2. Fair(f) /\ Tagged(f, 0)
    BY <1>1, <1>2, FrameFair
  <2>3. Opening(<<32 * m + 31>>, f)
    BY <1>10 DEF StartIndefinite
  <2> HIDE DEF f
  <2> QED BY <2>1, <2>2, <2>3, OpeningAccounts
<1>11. ASSUME Reset PROVE AInv'
  <2>1. Len(stack') = 0
    BY <1>11 DEF Reset
  <2> QED BY <2>1 DEF AInv, Settled
<1>12. ASSUME UNCHANGED <<stack, err>> PROVE AInv'
  BY <1>12 DEF AInv, Settled
<1>13. ASSUME Writing PROVE AInv'
  BY <1>3, <1>4, <1>5, <1>6, <1>7, <1>8, <1>9, <1>10, <1>11, <1>13, ChunkAccounts, EndAccounts
     DEF Writing
<1> QED BY <1>12, <1>13 DEF Next, SetMode, vars

\* No container is ever overfilled, and no tag outlives its content, however the
\* tags, the errors and the open strings around them came about.
THEOREM EncoderAccounted == Spec => []Accounted
<1>1. Init => AInv
  <2>1. Init => Len(stack) = 0
    BY DEF Init
  <2> QED BY <2>1 DEF AInv, Settled
<1>2. EInv /\ AInv /\ [Next]_vars => AInv'
  BY ANext
<1>3. EInv /\ AInv => Accounted
  BY MarksHere DEF AInv, Settled, Fair, Tagged, Accounted
<1> QED BY <1>1, <1>2, <1>3, EncoderInvariant, PTL DEF Spec
=============================================================================
