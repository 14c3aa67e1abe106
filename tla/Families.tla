------------------------------ MODULE Families ------------------------------
(* Families of small inputs that the model-checking instances share.        *)
EXTENDS Naturals, Sequences

\* Sequences of at most n members of A.
UpTo(A, n) == UNION {[1 .. k -> A] : k \in 0 .. n}

\* Those that begin with a member of first.
Starting(first, A, n) == {<<c>> \o s : c \in first, s \in UpTo(A, n)}

\* BOUND: nested, wide and chunked items of up to six bytes, for limits of
\* one or two; the deepest nests four containers, the widest holds two pairs.
LimitInputs ==
  UpTo({0, 129, 130, 131, 159, 193, 191, 255}, 4)
    \cup Starting({95, 159}, {64, 65, 66, 0, 255}, 4)
    \cup Starting({161, 162, 191}, {0, 96, 193, 255}, 5)
=============================================================================
