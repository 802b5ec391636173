----------------------------- MODULE SecpCurve -----------------------------
(***************************************************************************)
(* Points of secp256k1 as src/kernels/secp256k1_mrspike.cu adds them, over *)
(* a small field: affine coordinates, numbers modulo a prime in the place  *)
(* of the limbs, and the group law they must agree with.                   *)
(***************************************************************************)
EXTENDS Integers, Sequences

CONSTANTS
  Prime,       \* the field's modulus
  Order,       \* the order of the generator, a prime
  GX, GY,      \* the generator
  Batch,       \* points of a batch (8, 16 or 32)
  Bits         \* bits of a scalar (256)

ASSUME CurveAssumption ==
  /\ Prime \in Nat \ {0, 1, 2} /\ Order \in Nat /\ Order % 2 = 1 /\ Bits \in Nat
  /\ Batch \in Nat \ {0} /\ Batch < Order
  /\ GX \in 0 .. Prime - 1 /\ GY \in 0 .. Prime - 1 /\ (GY * GY - GX * GX * GX - 7) % Prime = 0

Mul(a, b) == (a * b) % Prime
Sub(a, b) == (a - b) % Prime

\* eeuclid_256_mod_p, which does not end for zero.
Inverted(a) ==
  LET e[k \in 0 .. Prime - 2] == IF k = 0 THEN 1 ELSE LET h == e[k \div 2] IN
        IF k % 2 = 0 THEN Mul(h, h) ELSE Mul(Mul(h, h), a)
  IN e[Prime - 2]

\* Every number of the field but zero has the inverse the code finds: the modulus is a prime.
ASSUME PrimeAssumption ==
  \A a \in 0 .. Prime - 1 : Inverted(a) \in 0 .. Prime - 1 /\ (a # 0 => Mul(a, Inverted(a)) = 1)

G == [x |-> GX, y |-> GY]

-----------------------------------------------------------------------------
(* The group law; the neutral point has no coordinates. *)

Infinity == [x |-> Prime, y |-> Prime]
Plus(a, b) ==
  IF a = Infinity THEN b ELSE IF b = Infinity THEN a
  ELSE IF a.x = b.x /\ (a.y + b.y) % Prime = 0 THEN Infinity
  ELSE LET slope == IF a = b THEN Mul(3 * a.x * a.x, Inverted((2 * a.y) % Prime))
                    ELSE Mul(b.y - a.y, Inverted((b.x - a.x) % Prime))
           x == (slope * slope - a.x - b.x) % Prime
       IN [x |-> x, y |-> (slope * (a.x - x) - a.y) % Prime]

\* The multiples of the generator; the last one is the neutral point.
Multiples ==
  LET m[k \in 0 .. Order] == IF k = 0 THEN Infinity ELSE
        LET h == m[k \div 2]  twice == Plus(h, h) IN IF k % 2 = 0 THEN twice ELSE Plus(twice, G)
  IN [k \in 0 .. Order |-> m[k]]

\* They are a cyclic group of that order, and two of its points that share their x
\* are one point or opposite.
ASSUME GroupAssumption ==
  /\ Multiples[0] = Infinity /\ Multiples[1] = G /\ Multiples[Order] = Infinity
  /\ \A i \in 1 .. Order - 1 : Multiples[i] \in [x : 0 .. Prime - 1, y : 0 .. Prime - 1]
  /\ \A i, j \in 0 .. Order - 1 : Plus(Multiples[i], Multiples[j]) = Multiples[(i + j) % Order]
  /\ \A i, j \in 1 .. Order - 1 : Multiples[i].x = Multiples[j].x => i = j \/ i + j = Order

-----------------------------------------------------------------------------
(* The kernels' additions. *)

PointDoubleLambda(p) == Mul(Mul(3, Mul(p.x, p.x)), Inverted(Mul(2, p.y)))
PointAddLambda(p, q) == Mul(Sub(q.y, p.y), Inverted(Sub(q.x, p.x)))

\* The point a slope leads to from p and q.
Chord(lambda, p, q) ==
  LET x == Sub(Sub(Mul(lambda, lambda), p.x), q.x)
  IN [x |-> x, y |-> Sub(Mul(lambda, Sub(p.x, x)), p.y)]

\* Equal x is taken for equal points.
PointAdd(p, q) == Chord(IF p.x = q.x THEN PointDoubleLambda(p) ELSE PointAddLambda(p, q), p, q)

\* One bit of a scalar, the lowest of rest.
MultiplyBit(s) ==
  LET set == s.rest % 2 = 1
  IN [result |-> IF ~set THEN s.result ELSE IF s.empty THEN s.temp ELSE PointAdd(s.result, s.temp),
      empty  |-> s.empty /\ ~set,
      temp   |-> PointAdd(s.temp, s.temp),
      rest   |-> s.rest \div 2]

\* From the lowest bit on, without a neutral point to start from.
Multiplying(point, scalar) ==
  LET s[i \in 0 .. Bits] ==
        IF i = 0 THEN [result |-> Infinity, empty |-> TRUE, temp |-> point, rest |-> scalar]
        ELSE MultiplyBit(s[i-1])
  IN s

PointMultiply(point, scalar) == Multiplying(point, scalar)[Bits].result

PublicAddGenerator(p) == PointAdd(p, G)

BatchG == [i \in 0 .. Batch - 1 |-> Multiples[i + 1]]

\* One after the other.
AddChain(p) ==
  LET chain[i \in 1 .. Batch] == PublicAddGenerator(IF i = 1 THEN p ELSE chain[i-1]) IN chain

Difference(p, i) == Sub(BatchG[i].x, p.x)

\* The products of the first differences.
Products(p) ==
  LET products[i \in 0 .. Batch - 1] == Mul(IF i = 0 THEN 1 ELSE products[i-1], Difference(p, i))
  IN products

\* The inverses of those products after k turns of the loop back.
Inverses(p) ==
  LET inverse[k \in 0 .. Batch - 1] ==
        IF k = 0 THEN Inverted(Products(p)[Batch-1]) ELSE Mul(inverse[k-1], Difference(p, Batch - k))
  IN inverse

\* Deviation: the inverse of a difference is taken with its own product.
InverseOf_OwnProduct(p, i) ==
  IF i = 0 THEN Inverses(p)[Batch-1] ELSE Mul(Inverses(p)[Batch-1-i], Products(p)[i])

\* The inverse of one difference.
InverseOf(p, i) ==
  IF i = 0 THEN Inverses(p)[Batch-1] ELSE Mul(Inverses(p)[Batch-1-i], Products(p)[i-1])

\* The points p + G to p + Batch * G with one inverse: of the product of all
\* differences, from which each difference's own is had backwards.  A difference
\* of zero has no inverse: then they are added one after the other.
AddBatch(p) ==
  IF \E i \in 0 .. Batch - 1 : Difference(p, i) = 0 THEN AddChain(p)
  ELSE [i \in 1 .. Batch |-> Chord(Mul(Sub(BatchG[i-1].y, p.y), InverseOf(p, i - 1)), p, BatchG[i-1])]
=============================================================================
