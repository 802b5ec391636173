---------------------------- MODULE FieldElement ----------------------------
(***************************************************************************)
(* Field elements of src/kernels/ed25519/fe.cu: signed limbs of            *)
(* alternating widths, carried by rounding, modulo 2^Bits - Gap.  The     *)
(* code has 10 limbs of 26 and 25 bits and the modulus 2^255 - 19.         *)
(***************************************************************************)
EXTENDS Integers, SequencesExt

CONSTANTS
  Limbs,       \* limbs of an element (10)
  Wide,        \* bits of an even limb (26); an odd one has one less
  Gap,        \* the modulus is this much below the power of two (19)
  ByteBits,    \* bits of a byte (8)
  Factor       \* the small factor of fe_mul121666 (121666)

SizesFit ==
  /\ Limbs \in Nat \ {0} /\ Limbs % 2 = 0 /\ Wide \in Nat \ {0, 1}
  /\ Gap \in Nat \ {0} /\ ByteBits \in Nat \ {0} /\ Factor \in Nat

Index     == 0 .. Limbs - 1
Width(i)  == IF i % 2 = 0 THEN Wide ELSE Wide - 1
Offset(i) == (i \div 2) * (2 * Wide - 1) + (IF i % 2 = 0 THEN 0 ELSE Wide)
Bits      == Offset(Limbs)
P         == 2 ^ Bits - Gap
UpTo(a, b, step) == [n \in 1 .. (b - a) \div step + 1 |-> a + (n - 1) * step]

\* The residue an element stands for.
Value(f) ==
  LET v[i \in 0 .. Limbs] == IF i = Limbs THEN 0 ELSE (f[i] + 2 ^ Width(i) * v[i+1]) % P IN v[0]

Fe0 == [i \in Index |-> 0]
Fe1 == [i \in Index |-> IF i = 0 THEN 1 ELSE 0]
FeAdd(f, g) == [i \in Index |-> f[i] + g[i]]
FeSub(f, g) == [i \in Index |-> f[i] - g[i]]
FeNeg(f)    == [i \in Index |-> -f[i]]
\* A masked exclusive or; b is 0 or 1.
FeCmov(f, g, b)  == IF b = 1 THEN g ELSE f
FeCswap(f, g, b) == IF b = 1 THEN <<g, f>> ELSE <<f, g>>

-----------------------------------------------------------------------------
(* Carries. *)

\* To the nearest; what leaves the last limb comes back Gap times.
RoundCarry(h, i) ==
  LET c == (h[i] + 2 ^ (Width(i) - 1)) \div 2 ^ Width(i)
      next == (i + 1) % Limbs
  IN [h EXCEPT ![i] = @ - c * 2 ^ Width(i), ![next] = @ + (IF next = 0 THEN Gap * c ELSE c)]

Carried(h, order) == FoldLeft(RoundCarry, h, order)

\* Deviation: the first limb is not carried again.
MulOrder_Once ==
  LET half == (Limbs - 2) \div 2
  IN [n \in 1 .. 2 * half + 2 |-> IF n % 2 = 1 THEN (n - 1) \div 2 ELSE n \div 2 - 1 + half]
       \o <<Limbs - 1>>

\* Two chains side by side, then the last limb and the first again.
MulOrder ==
  LET half == (Limbs - 2) \div 2
  IN [n \in 1 .. 2 * half + 2 |-> IF n % 2 = 1 THEN (n - 1) \div 2 ELSE n \div 2 - 1 + half]
       \o <<Limbs - 1, 0>>

\* The odd limbs from the last on, then the even ones.
SmallOrder ==
  <<Limbs - 1>> \o (IF Limbs = 2 THEN <<>> ELSE UpTo(1, Limbs - 3, 2)) \o UpTo(0, Limbs - 2, 2)

-----------------------------------------------------------------------------
(* Products. *)

Sum(S, term(_)) == FoldLeft(LAMBDA n, x : n + term(x), 0, SetToSeq(S))

\* The factor of a product of limbs i and j in limb i + j.
Weight(i, j) == (IF i % 2 = 1 /\ j % 2 = 1 THEN 2 ELSE 1) * (IF i + j >= Limbs THEN Gap ELSE 1)

Product(f, g) ==
  [k \in Index |-> Sum(Index, LAMBDA i : LET j == (k - i) % Limbs IN f[i] * g[j] * Weight(i, j))]

\* Each pair of limbs once.
Square(f) ==
  [k \in Index |-> Sum({i \in Index : i <= (k - i) % Limbs}, LAMBDA i : LET j == (k - i) % Limbs IN
     f[i] * f[j] * Weight(i, j) * (IF i = j THEN 1 ELSE 2))]

FeMul(f, g) == Carried(Product(f, g), MulOrder)
FeSq(f)     == Carried(Square(f), MulOrder)
FeSq2(f)    == Carried([i \in Index |-> 2 * Square(f)[i]], MulOrder)
FeMul121666(f) == Carried([i \in Index |-> Factor * f[i]], SmallOrder)

-----------------------------------------------------------------------------
(* Bytes, lowest first. *)

Place(i)  == (Offset(i) + ByteBits - 1) \div ByteBits   \* the first whole byte of limb i
ByteCount == Place(Limbs)

\* load_3 and load_4: some bytes as a number.
Load(s, from, to) ==
  LET n[i \in from .. to] == IF i = to THEN 0 ELSE s[i] + 2 ^ ByteBits * n[i+1] IN n[from]

\* Each limb gets the bytes from its first to the next limb's; the last loses
\* the bits above the modulus.
FeFromBytes(s) ==
  LET bits(i) == Bits - ByteBits * Place(i)
      raw(i)  == Load(s, Place(i), Place(i+1))
  IN Carried([i \in Index |-> (IF i = Limbs - 1 THEN raw(i) % 2 ^ bits(i) ELSE raw(i))
                                 * 2 ^ (ByteBits * Place(i) - Offset(i))], SmallOrder)

\* Deviation: the quotient is of the limbs alone.
Quotient_NoGap(h) ==
  LET q[i \in 0 .. Limbs] == IF i = 0 THEN 0 ELSE (h[i-1] + q[i-1]) \div 2 ^ Width(i-1)
  IN q[Limbs]

\* How often the modulus fits, from the top limb's rounding.
Quotient(h) ==
  LET top == (Gap * h[Limbs - 1] + 2 ^ (Width(Limbs - 1) - 1)) \div 2 ^ Width(Limbs - 1)
      q[i \in 0 .. Limbs] == IF i = 0 THEN top ELSE (h[i-1] + q[i-1]) \div 2 ^ Width(i-1)
  IN q[Limbs]

\* Limbs between 0 and their width, of h less Quotient times the modulus.
Reduced(h) ==
  LET up[i \in 0 .. Limbs] ==
        IF i = 0 THEN h[0] + Gap * Quotient(h) ELSE
        IF i = Limbs THEN 0 ELSE h[i] + up[i-1] \div 2 ^ Width(i-1)
  IN [i \in Index |-> up[i] % 2 ^ Width(i)]

\* The bytes of the limbs put side by side.
FeToBytes(h) ==
  LET r == Reduced(h)
      bit(n) == LET i == CHOOSE l \in Index : Offset(l) <= n /\ n < Offset(l+1)
                IN IF n >= Bits THEN 0 ELSE (r[i] \div 2 ^ (n - Offset(i))) % 2
  IN [j \in 0 .. ByteCount - 1 |->
        FoldLeft(LAMBDA v, k : v + 2 ^ k * (IF ByteBits * j + k < Bits THEN bit(ByteBits * j + k) ELSE 0),
                 0, [k \in 1 .. ByteBits |-> k - 1])]

FeIsNegative(f) == FeToBytes(f)[0] % 2
\* 1 for any element but zero, as its name says and ge.cu takes it; its comment has
\* the two answers the other way round.
FeIsNonzero(f)  == \E j \in 0 .. ByteCount - 1 : FeToBytes(f)[j] # 0
=============================================================================
