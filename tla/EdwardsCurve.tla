---------------------------- MODULE EdwardsCurve ----------------------------
(***************************************************************************)
(* The group of src/kernels/ed25519/ge.cu over a small field: its code run *)
(* with numbers modulo P, the tables of precomp_data.h, the conversions to *)
(* and from bytes, and the affine group law they must agree with.          *)
(***************************************************************************)
EXTENDS EdwardsCode, FiniteSets, SequencesExt

CONSTANTS
  P,           \* the field's modulus (2^255 - 19)
  D,           \* the curve's constant
  Sqrtm1,      \* a square root of -1
  BaseX, BaseY,\* the base point
  Order,       \* its order
  YBits,       \* bits of an encoded y (255); the sign follows
  Positions,   \* byte positions of a scalar (32)
  Radix        \* values of a digit of a scalar (16)

CurveFits ==
  /\ P % 8 = 5 /\ 2 ^ YBits > P /\ (Sqrtm1 * Sqrtm1) % P = P - 1
  /\ Radix \in {2, 4, 16}

Field == 0 .. P - 1
PowerOf(a, n) ==
  LET e[k \in 0 .. n] == IF k = 0 THEN 1 ELSE LET h == e[k \div 2] IN
        IF k % 2 = 0 THEN (h * h) % P ELSE (((h * h) % P) * a) % P
  IN e[n]

\* What a line computes of its two operands.
Apply(op, a, b) ==
  CASE op = "add" -> (a + b) % P
    [] op = "sub" -> (a - b) % P
    [] op = "mul" -> (a * b) % P
    [] op = "sq"  -> (a * a) % P
    [] op = "sq2" -> (2 * a * a) % P
    [] op = "neg" -> (-a) % P
    [] op = "copy" -> a
    [] op = "inv" -> PowerOf(a, P - 2)
    [] op = "pow22523" -> PowerOf(a, (P - 5) \div 8)

Step(m, line) == [m EXCEPT ![line.to] = Apply(line.op, m[line.a], m[line.b])]
Run(code, m)  == FoldLeft(Step, m, code)

Memory == [n \in Variables |->
            CASE n = "d" -> D [] n = "d2" -> (2 * D) % P [] n = "sqrtm1" -> Sqrtm1 [] OTHER -> 0]

\* A point in memory: as the first operand, or with a cached second one.
First(p)     == [Memory EXCEPT !.pX = p.X, !.pY = p.Y, !.pZ = p.Z, !.pT = p.T]
Both(p, q)   == [First(p) EXCEPT !.qS = q.S, !.qD = q.D, !.qZ = q.Z, !.qT = q.T]
Result(m)    == [X |-> m["X"], Y |-> m["Y"], Z |-> m["Z"], T |-> m["T"]]
CachedOf(m)  == [S |-> m["qS"], D |-> m["qD"], Z |-> m["qZ"], T |-> m["qT"]]

ToP3(r)      == Result(Run(P1p1ToP3, First(r)))
ToP2(r)      == [Result(Run(P1p1ToP2, First(r))) EXCEPT !.T = 0]
ToCached(p)  == CachedOf(Run(P3ToCached, First(p)))
Doubled(p)   == Result(Run(GeP2Dbl, First([p EXCEPT !.T = 0])))  \* ge_p3_dbl drops T first
Sum(p, q)    == Result(Run(GeAdd, Both(p, q)))
Difference(p, q) == Result(Run(GeSub, Both(p, q)))
MixedSum(p, q)   == Result(Run(GeMadd, Both(p, q)))
MixedDifference(p, q) == Result(Run(GeMsub, Both(p, q)))

P3Zero == [X |-> 0, Y |-> 1, Z |-> 1, T |-> 0]   \* ge_p3_0, ge_p2_0

-----------------------------------------------------------------------------
(* The affine group. *)

OnCurve(x, y) == (y * y - x * x - 1 - D * ((x * x * y) % P) * y) % P = 0
Plus(a, b) ==
  LET xy == (a[1] * b[2] + b[1] * a[2]) % P
      yx == (a[2] * b[2] + a[1] * b[1]) % P
      t  == (D * ((a[1] * b[1]) % P) * ((a[2] * b[2]) % P)) % P
  IN << (xy * PowerOf((1 + t) % P, P - 2)) % P, (yx * PowerOf((1 - t) % P, P - 2)) % P >>
Minus(a) == << (-a[1]) % P, a[2] >>

\* The multiples of the base point, from 0 to Order - 1.
Multiples ==
  LET m[k \in 0 .. Order - 1] ==
        IF k = 0 THEN <<0, 1>> ELSE
        LET h == m[k \div 2] IN IF k % 2 = 0 THEN Plus(h, h) ELSE Plus(Plus(h, h), <<BaseX, BaseY>>)
  IN [k \in 0 .. Order - 1 |-> m[k]]

\* A projective point as an affine one.
Affine(p) == LET z == PowerOf(p.Z, P - 2) IN << (p.X * z) % P, (p.Y * z) % P >>

\* The extra coordinate is the product of the others.
Extended(p) == p.Z # 0 /\ (p.T * p.Z) % P = (p.X * p.Y) % P

\* An affine point with Z = 1.
P3(a) == [X |-> a[1], Y |-> a[2], Z |-> 1, T |-> (a[1] * a[2]) % P]

-----------------------------------------------------------------------------
(* Tables (precomp_data.h). *)

Precomp(a) == [S |-> (a[2] + a[1]) % P, D |-> (a[2] - a[1]) % P, Z |-> 1,
               T |-> (((2 * D * a[1]) % P) * a[2]) % P]

\* base[pos][j]: (j + 1) times 256^pos times the base point.
BaseTable ==
  [pos \in 0 .. Positions - 1 |->
     [j \in 0 .. (Radix \div 2) - 1 |-> Precomp(Multiples[((j + 1) * Radix ^ (2 * pos)) % Order])]]

\* Bi[j]: 2j + 1 times the base point.
Bi == [j \in 0 .. 7 |-> Precomp(Multiples[(2 * j + 1) % Order])]

-----------------------------------------------------------------------------
(* Bytes: y, then the parity of x. *)

Encode(p) ==
  LET m == Run(ToAffine, First(p)) IN [y |-> m["Y"], sign |-> m["X"] % 2]

\* ge_frombytes_negate_vartime: the negative of the point, if there is one.
Decode(s) ==
  LET m     == Run(DecodeX, [Memory EXCEPT !.Y = s.y % P, !.Z = 1])
      other == m["check"] # 0
      n     == IF other THEN Run(TimesSqrtm1, m) ELSE m
      r     == Run(IF n["X"] % 2 = s.sign THEN NegateX \o DecodeT ELSE DecodeT, n)
  IN [ok |-> other => Run(OtherCheck, m)["check"] = 0, point |-> Result(r)]

Encodings == [y : 0 .. 2 ^ YBits - 1, sign : {0, 1}]
=============================================================================
