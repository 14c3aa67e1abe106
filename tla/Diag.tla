-------------------------------- MODULE Diag --------------------------------
(***************************************************************************)
(* Diagnostic notation (diag/diag.go, diag/parse.go), as a sequence of     *)
(* tokens: a run of digits is one token, and so is a keyword; inside a     *)
(* text string every character is one.  White space is left out.           *)
(***************************************************************************)
EXTENDS Values

CONSTANT ParseDepth   \* the nesting Parse allows (64)

ASSUME ParseDepthAssumption == ParseDepth \in Nat

Tok(t, n) == [t |-> t, n |-> n]
Mark(t) == <<Tok(t, 0)>>
Char(c) == Tok("char", c)

QuoteMark == 34
Backslash == 92
LetterU == 117

\* Characters with an escape of one letter: \n, \r, \t, the quote, the backslash.
Letter == (10 :> 110) @@ (13 :> 114) @@ (9 :> 116) @@ (34 :> 34) @@ (92 :> 92)

HexDigit(k) == IF k < 10 THEN 48 + k ELSE 87 + k
HexValue(c) == CHOOSE k \in 0 .. 15 : HexDigit(k) = c

-----------------------------------------------------------------------------
(***************************************************************************)
(* Render.                                                                 *)
(***************************************************************************)
\* Mutant: a backslash stands for itself.
EscapedButBackslash(c) ==
  IF c \in DOMAIN Letter \ {Backslash} THEN <<Char(Backslash), Char(Letter[c])>>
  ELSE <<Char(c)>>

Escaped(c) ==
  IF c \in DOMAIN Letter THEN <<Char(Backslash), Char(Letter[c])>>
  ELSE IF c < 32
    THEN <<Char(Backslash), Char(LetterU), Char(48), Char(48),
           Char(HexDigit(c \div 16)), Char(HexDigit(c % 16))>>
  ELSE <<Char(c)>>

\* quote: of valid text, every byte of a longer rune as it is.
Quoted(s) ==
  <<Char(QuoteMark)>> \o FlattenSeq([k \in DOMAIN s |-> Escaped(s[k])]) \o <<Char(QuoteMark)>>

Hex(s) == Mark("h'") \o [k \in DOMAIN s |-> Tok("byte", s[k])] \o Mark("'")

Group(v, notation) ==
  IF v.indef THEN Mark("(_") \o notation \o Mark(")") ELSE notation

Digits(sign, n) == (IF sign = 1 THEN Mark("-") ELSE <<>>) \o <<Tok("digits", n)>>

\* formatNegative: n + 1 does not fit the width at the end of the range.
FormatNegative(n) ==
  IF n = Word - 1 THEN Digits(1, Word) ELSE Digits(1, (n + 1) % Word)

\* strconv.FormatFloat: no point after a whole number.
Decimal(x) ==
  LET size == Magnitude(Double, x)
  IN  Digits(SignOf(Double, x), size \div Unit)
        \o (IF size % Unit = 0 THEN <<>> ELSE <<Tok("point", size % Unit)>>)

\* formatFloat gives it one.
FormatFloat(x) ==
  IF IsNaN(Double, x) THEN Mark("NaN")
  ELSE IF IsSpecial(Double, x)
    THEN Mark(IF SignOf(Double, x) = 1 THEN "-Infinity" ELSE "Infinity")
  ELSE IF Last(Decimal(x)).t = "point" THEN Decimal(x)
  ELSE Decimal(x) \o <<Tok("point", 0)>>

Name == 20 :> "false" @@ 21 :> "true" @@ 22 :> "null" @@ 23 :> "undefined"

RenderSimple(n) ==
  IF n \in DOMAIN Name THEN Mark(Name[n])
  ELSE Mark("simple(") \o <<Tok("digits", n)>> \o Mark(")")

\* The parts of a container; between stands in front of every second one.
Listed(open, v, parts, close, between) ==
  LET sep(k) == Mark(IF k % 2 = 0 THEN between ELSE ",")
  IN  Mark(open) \o (IF v.indef THEN Mark("_") ELSE <<>>)
        \o FlattenSeq([k \in DOMAIN parts |-> (IF k = 1 THEN <<>> ELSE sep(k)) \o parts[k]])
        \o Mark(close)

RECURSIVE Render(_)
Render(v) ==
  LET parts == [k \in DOMAIN v.a |-> Render(v.a[k])]
  IN  CASE v.kind = "uint"   -> Digits(0, v.num)
        [] v.kind = "negint" -> FormatNegative(v.num)
        [] v.kind = "bytes"  -> Group(v, Hex(v.b))
        [] v.kind = "text"   -> Group(v, Quoted(v.b))
        [] v.kind = "array"  -> Listed("[", v, parts, "]", ",")
        [] v.kind = "map"    -> Listed("{", v, parts, "}", ":")
        [] v.kind = "tag"    -> Digits(0, v.num) \o Mark("(") \o parts[1] \o Mark(")")
        [] v.kind = "simple" -> RenderSimple(v.num)
        [] v.kind \in FloatKinds -> FormatFloat(AsFloat64(v).bits)

-----------------------------------------------------------------------------
(***************************************************************************)
(* Parse, by recursive descent from position p of the tokens s.            *)
(***************************************************************************)
Read(v, p) == [ok |-> TRUE, v |-> v, next |-> p]
Syntax == [ok |-> FALSE, v |-> <<>>, next |-> 0]

At(s, p) == IF p <= Len(s) THEN s[p] ELSE Tok("end", 0)

RECURSIVE HexString(_, _, _), TextString(_, _, _)

HexString(s, p, out) ==
  CASE At(s, p).t = "byte" -> HexString(s, p + 1, Append(out, s[p].n))
    [] At(s, p).t = "'"    -> Read(FromBytes(out), p + 1)
    [] OTHER -> Syntax

\* From behind the opening quote.  BOUND: an escape by number is one that Quoted
\* writes, below 32.
TextString(s, p, out) ==
  LET c == At(s, p).n
      d == At(s, p + 1).n
  IN  CASE At(s, p).t # "char" -> Syntax
        [] At(s, p).t = "char" /\ c = QuoteMark -> Read(FromText(out), p + 1)
        [] At(s, p).t = "char" /\ c = Backslash ->
             IF d = LetterU
               THEN IF p + 4 >= Len(s) THEN Syntax
                    ELSE TextString(s, p + 6,
                           Append(out, 16 * HexValue(s[p + 4].n) + HexValue(s[p + 5].n)))
             ELSE IF \E e \in DOMAIN Letter : Letter[e] = d
               THEN TextString(s, p + 2, Append(out, CHOOSE e \in DOMAIN Letter : Letter[e] = d))
             ELSE Syntax
        [] OTHER -> TextString(s, p + 1, Append(out, c))

String(s, p) ==
  CASE At(s, p).t = "h'" -> HexString(s, p + 1, <<>>)
    [] At(s, p) = Char(QuoteMark) -> TextString(s, p + 1, <<>>)
    [] OTHER -> Syntax

\* chunked
Chunk(s, p) ==
  LET c == String(s, p)
  IN  IF c.ok /\ At(s, c.next).t = ")" THEN Read(AsIndefinite(c.v), c.next + 1) ELSE Syntax

Literal == [false |-> 20, true |-> 21, null |-> 22, undefined |-> 23]

\* math.NaN
GoNaN == Pack(Double, 0, Ones(Double), 2 ^ (Double.m - 1) + 1)

Infinity(sign) == FromFloat("float64", Pack(Double, sign, Ones(Double), 0))

SimpleNumber(s, p) ==
  LET n == At(s, p).n
  IN  IF At(s, p).t = "digits" /\ At(s, p + 1).t = ")" /\ IsSimple(n % 256) /\ n <= 255
        THEN Read(FromSimple(n), p + 2) ELSE Syntax

\* An integer: -1-n is printed as its value.
Integer(sign, n, next) ==
  CASE sign = 1 /\ n = Word -> Read(FromNegMagnitude(Word - 1), next)
    [] sign = 1 /\ n \in 1 .. Word - 1 -> Read(FromNegMagnitude(n - 1), next)
    [] sign = 0 /\ n < Word -> Read(FromUint(n), next)
    [] OTHER -> Syntax

RECURSIVE ParseValue(_, _, _), ParseArray(_, _, _, _), ParseMap(_, _, _, _), ParseNumber(_, _, _)

\* After the opening bracket, and behind the elements out.
ParseArray(s, p, depth, out) ==
  LET q == IF out = <<>> THEN p ELSE p + 1
      e == ParseValue(s, q, depth - 1)
  IN  CASE At(s, p).t = "]" -> Read(FromArray(out), p + 1)
        [] At(s, p).t # "]" /\ (out = <<>> \/ At(s, p).t = ",") /\ e.ok ->
             ParseArray(s, e.next, depth, Append(out, e.v))
        [] OTHER -> Syntax

ParseMap(s, p, depth, out) ==
  LET q == IF out = <<>> THEN p ELSE p + 1
      k == ParseValue(s, q, depth - 1)
      v == ParseValue(s, k.next + 1, depth - 1)
  IN  CASE At(s, p).t = "}" -> Read(FromMap(out), p + 1)
        [] At(s, p).t # "}" /\ (out = <<>> \/ At(s, p).t = ",")
             /\ k.ok /\ At(s, k.next).t = ":" /\ v.ok ->
             ParseMap(s, v.next, depth, out \o <<k.v, v.v>>)
        [] OTHER -> Syntax

\* An integer, a float or a tag: what follows the digits tells them apart.
ParseNumber(s, p, depth) ==
  LET sign == IF At(s, p).t = "-" THEN 1 ELSE 0
      q == p + sign
      n == At(s, q).n
      inner == ParseValue(s, q + 2, depth - 1)
  IN  CASE At(s, q).t # "digits" -> Syntax
        [] At(s, q).t = "digits" /\ At(s, q + 1).t = "(" ->
             IF sign = 0 /\ n < Word /\ inner.ok /\ At(s, inner.next).t = ")"
               THEN Read(FromTag(n, inner.v), inner.next + 1) ELSE Syntax
        [] At(s, q).t = "digits" /\ At(s, q + 1).t = "point" ->
             Read(FromFloat("float64", Nearest(Double, sign, n * Unit + s[q + 1].n)), q + 2)
        [] OTHER -> Integer(sign, n, q + 1)

\* Behind the opening bracket and its underscore.
Inside(s, p) == IF At(s, p + 1).t = "_" THEN p + 2 ELSE p + 1

Container(s, p, r) ==
  IF r.ok /\ At(s, p + 1).t = "_" THEN [r EXCEPT !.v = AsIndefinite(r.v)] ELSE r

Allowed(depth) == depth >= 0

ParseValue(s, p, depth) ==
  LET t == At(s, p).t
  IN  CASE ~Allowed(depth) -> Syntax
        [] Allowed(depth) /\ t \in DOMAIN Literal -> Read(FromSimple(Literal[t]), p + 1)
        [] Allowed(depth) /\ t = "NaN" -> Read(FromFloat("float64", GoNaN), p + 1)
        [] Allowed(depth) /\ t = "Infinity" -> Read(Infinity(0), p + 1)
        [] Allowed(depth) /\ t = "-Infinity" -> Read(Infinity(1), p + 1)
        [] Allowed(depth) /\ t = "simple(" -> SimpleNumber(s, p + 1)
        [] Allowed(depth) /\ t \in {"h'", "char"} -> String(s, p)
        [] Allowed(depth) /\ t = "[" -> Container(s, p, ParseArray(s, Inside(s, p), depth, <<>>))
        [] Allowed(depth) /\ t = "{" -> Container(s, p, ParseMap(s, Inside(s, p), depth, <<>>))
        [] Allowed(depth) /\ t = "(_" -> Chunk(s, p + 1)
        [] OTHER -> ParseNumber(s, p, depth)

Parse(s) ==
  LET r == ParseValue(s, 1, ParseDepth)
  IN  IF r.ok /\ r.next = Len(s) + 1 THEN r ELSE Syntax
=============================================================================
