------------------------------- MODULE Floats -------------------------------
(***************************************************************************)
(* Binary floats of three widths and their conversions (value/keys.go,     *)
(* halfToFloat32bits and AsFloat64 of value/value.go), over formats of any *)
(* size: [e |-> exponent bits, m |-> mantissa bits].  In the code Half is  *)
(* [5, 10], Single [8, 23] and Double [11, 52]; a float is its bits.       *)
(***************************************************************************)
EXTENDS Integers, Sequences

CONSTANTS
  Half, Single, Double,  \* BOUND: the three formats
  Word                   \* a uint64 holds 0 .. Word - 1

Bias(F) == 2 ^ (F.e - 1) - 1
MinExp(F) == 1 - Bias(F)
Ones(F) == 2 ^ F.e - 1
Infinite(F) == Ones(F) * 2 ^ F.m
Bits(F) == 0 .. 2 ^ (1 + F.e + F.m) - 1

\* What the code relies on: the smallest half is a normal single, the smallest
\* single a normal double, and no integer overflows a double.
ASSUME FormatsAssumption ==
  /\ \A F \in {Half, Single, Double} : F.e \in Nat \ {0, 1} /\ F.m \in Nat \ {0}
  /\ Half.m < Single.m /\ MinExp(Half) - Half.m >= MinExp(Single)
  /\ Single.m < Double.m /\ MinExp(Single) - Single.m >= MinExp(Double)
  /\ Word \in Nat \ {0} /\ Word < 2 ^ (Bias(Double) + 1)

SignOf(F, x) == x \div 2 ^ (F.e + F.m)
ExpOf(F, x) == (x \div 2 ^ F.m) % 2 ^ F.e
MantOf(F, x) == x % 2 ^ F.m
Pack(F, sign, exp, mant) == sign * 2 ^ (F.e + F.m) + exp * 2 ^ F.m + mant

IsSpecial(F, x) == ExpOf(F, x) = Ones(F)
IsNaN(F, x) == IsSpecial(F, x) /\ MantOf(F, x) # 0

-----------------------------------------------------------------------------
(***************************************************************************)
(* What the machine's conversions do (float32(f), float64(f), and integers *)
(* to float64): magnitudes are counted in the smallest positive double.    *)
(***************************************************************************)
Unit == 2 ^ (Double.m - MinExp(Double))   \* 1.0

Magnitude(F, x) ==
  LET exp == ExpOf(F, x)
      scale == Double.m - MinExp(Double) - F.m
  IN  IF exp = 0 THEN MantOf(F, x) * 2 ^ (scale + MinExp(F))
                 ELSE (2 ^ F.m + MantOf(F, x)) * 2 ^ (scale + exp - Bias(F))

\* The first float of the binade a magnitude lies in.
Binade(F, mag) ==
  LET first(e) == Magnitude(F, e * 2 ^ F.m)
  IN  2 ^ F.m * CHOOSE e \in 0 .. Ones(F) :
                  first(e) <= mag /\ (e < Ones(F) => mag < first(e + 1))

Distance(F, c, d) == Magnitude(F, d) - Magnitude(F, c)

OfBinade(F, base, mag) ==
  IF base = Infinite(F) THEN base
  ELSE base + (mag - Magnitude(F, base)) \div Distance(F, base, base + 1)

\* The largest float of format F that is not above a magnitude.
Below(F, mag) == OfBinade(F, Binade(F, mag), mag)

\* c or the float behind it, whichever is nearer to a magnitude between the two;
\* of equally near ones the even one.
Rounded(F, c, mag) ==
  LET over == 2 * mag - Magnitude(F, c) - Magnitude(F, c + 1)
  IN  IF c # Infinite(F) /\ over >= 0 /\ (over = 0 => c % 2 = 1) THEN c + 1 ELSE c

\* The float nearest to a magnitude: half a step beyond the largest is infinite.
Nearest(F, sign, mag) == Pack(F, sign, 0, 0) + Rounded(F, Below(F, mag), mag)

\* A NaN keeps the upper bits of its payload and becomes a quiet one.
Quieted(F, G, x) ==
  LET payload == IF F.m < G.m THEN MantOf(F, x) * 2 ^ (G.m - F.m)
                              ELSE MantOf(F, x) \div 2 ^ (F.m - G.m)
      quiet == 2 ^ (G.m - 1)
  IN  Pack(G, SignOf(F, x), Ones(G), quiet + (payload % quiet))

Converted(F, G, x) ==
  IF IsNaN(F, x) THEN Quieted(F, G, x)
  ELSE IF IsSpecial(F, x) THEN Pack(G, SignOf(F, x), Ones(G), 0)
  ELSE Nearest(G, SignOf(F, x), Magnitude(F, x))

AsSingle(x) == Converted(Double, Single, x)
AsDouble(x) == Converted(Single, Double, x)
DoubleOf(n) == Nearest(Double, 0, n * Unit)

\* -1 - f, in double arithmetic.
NegativeOf(n) == Nearest(Double, 1, Unit + Magnitude(Double, DoubleOf(n)))

-----------------------------------------------------------------------------
(***************************************************************************)
(* The code's own conversions, by bit fields.                              *)
(***************************************************************************)
None == -1   \* ok = false

Up == Single.m - Half.m

\* halfToFloat32bits
HalfToSingle(h) ==
  LET sign == SignOf(Half, h)
      exp  == ExpOf(Half, h)
      mant == MantOf(Half, h)
      shift == CHOOSE k \in 1 .. Half.m : 2 ^ Half.m <= mant * 2 ^ k /\ mant * 2 ^ k < 2 ^ (Half.m + 1)
  IN  IF exp = 0 /\ mant = 0 THEN Pack(Single, sign, 0, 0)
      ELSE IF exp = 0
        THEN Pack(Single, sign, Bias(Single) - Bias(Half) + 1 - shift,
                  (mant * 2 ^ shift - 2 ^ Half.m) * 2 ^ Up)
      ELSE IF exp = Ones(Half) THEN Pack(Single, sign, Ones(Single), mant * 2 ^ Up)
      ELSE Pack(Single, sign, exp + Bias(Single) - Bias(Half), mant * 2 ^ Up)

\* float32bitsToHalf
SingleToHalf(b) ==
  LET sign == SignOf(Single, b)
      exp  == ExpOf(Single, b) - Bias(Single)
      mant == MantOf(Single, b)
      drop == Up + MinExp(Half) - exp   \* of a half without an implicit bit
      full == mant + 2 ^ Single.m
  IN  IF ExpOf(Single, b) = Ones(Single)
        THEN IF mant % 2 ^ Up # 0 THEN None
             ELSE Pack(Half, sign, Ones(Half), mant \div 2 ^ Up)
      ELSE IF ExpOf(Single, b) = 0 /\ mant = 0 THEN Pack(Half, sign, 0, 0)
      ELSE IF exp < MinExp(Half) - Half.m \/ exp > Bias(Half) THEN None
      ELSE IF exp < MinExp(Half)
        THEN IF full % 2 ^ drop # 0 THEN None ELSE Pack(Half, sign, 0, full \div 2 ^ drop)
      ELSE IF mant % 2 ^ Up # 0 THEN None
      ELSE Pack(Half, sign, exp + Bias(Half), mant \div 2 ^ Up)

\* float32ToHalfExact: narrowed, and widened back to the same bits.
SameAsHalf(b, h) == IF h # None /\ HalfToSingle(h) = b THEN h ELSE None
HalfExact(b) == SameAsHalf(b, SingleToHalf(b))

\* float64ToFloat32Exact
SameAsSingle(x, b) == IF AsDouble(b) = x THEN b ELSE None
SingleExact(x) == SameAsSingle(x, AsSingle(x))

-----------------------------------------------------------------------------
FormatOf(kind) ==
  CASE kind = "float16" -> Half [] kind = "float32" -> Single [] kind = "float64" -> Double

FloatKinds == {"float16", "float32", "float64"}

Float(kind, bits) == [kind |-> kind, num |-> bits]

OrHalf(b, half) == IF half # None THEN Float("float16", half) ELSE Float("float32", b)
NarrowSingle(b) == OrHalf(b, HalfExact(b))

OrSingle(x, single) == IF single # None THEN NarrowSingle(single) ELSE Float("float64", x)

\* Mutant: a single that fits a double is narrowed to its value, not its bits.
ShortestRounds(kind, bits) ==
  CASE kind = "float16" -> Float(kind, bits)
    [] kind = "float32" -> NarrowSingle(bits)
    [] kind = "float64" -> NarrowSingle(AsSingle(bits))

\* ShortestFloat, and the width appendCanonicalFloat writes a key in.
Shortest(kind, bits) ==
  CASE kind = "float16" -> Float(kind, bits)
    [] kind = "float32" -> NarrowSingle(bits)
    [] kind = "float64" -> OrSingle(bits, SingleExact(bits))

\* WriteFloat64 of the adapter mode stops at singles.
Narrowed64(bits) ==
  IF SingleExact(bits) = None THEN Float("float64", bits)
                              ELSE Float("float32", SingleExact(bits))

\* BOUND: bits fill at most the lower two bytes of an argument.
FloatBytes(f) ==
  LET low == <<f.num \div 256, f.num % 256>>
  IN  CASE f.kind = "float16" -> <<249>> \o low
        [] f.kind = "float32" -> <<250, 0, 0>> \o low
        [] f.kind = "float64" -> <<251, 0, 0, 0, 0, 0, 0>> \o low

\* AsFloat64 of a float, as the bits of the double.
Widened(kind, bits) ==
  CASE kind = "float16" -> AsDouble(HalfToSingle(bits))
    [] kind = "float32" -> AsDouble(bits)
    [] kind = "float64" -> bits

\* AsFloat64 of an integer: the double, and whether it claims to be exact.
UintExact(n) ==
  LET f == Magnitude(Double, DoubleOf(n))
  IN  f \div Unit = n /\ f < Word * Unit

AsFloat64(v) ==
  CASE v.kind = "uint"   -> [bits |-> DoubleOf(v.num), exact |-> UintExact(v.num)]
    [] v.kind = "negint" -> [bits |-> NegativeOf(v.num), exact |-> UintExact(v.num)]
    [] v.kind \in FloatKinds -> [bits |-> Widened(v.kind, v.num), exact |-> TRUE]

-----------------------------------------------------------------------------
\* What a float is, whatever its width: the reference for all of the above.
Meaning(kind, x) ==
  LET F == FormatOf(kind)
  IN  [sign |-> SignOf(F, x),
       special |-> IsSpecial(F, x),
       size |-> IF IsSpecial(F, x) THEN MantOf(F, x) * 2 ^ (Double.m - F.m)
                                   ELSE Magnitude(F, x)]

\* A double whose first payload bit is clear: the machine cannot carry it.
Signalling(kind, x) ==
  kind = "float64" /\ IsNaN(Double, x) /\ MantOf(Double, x) < 2 ^ (Double.m - 1)
=============================================================================
