---------------------------- MODULE MCSecp_proofs ----------------------------
(***************************************************************************)
(* The walks over Ethereum keys keep the public key the private key's, for *)
(* every prime field, generator, batch and key size that the assumptions   *)
(* of SecpCurve and SecpWalk admit.  From the bottom up: induction and     *)
(* recursive functions; arithmetic modulo the prime; an addition of the    *)
(* kernels is the group's, as long as the sum is not the neutral point; a  *)
(* batch with one inverse, and without; a multiplication bit by bit; the   *)
(* number of a key and its increment; the walks.                           *)
(***************************************************************************)
EXTENDS MCSecp, WellFoundedInduction, TLAPS

-----------------------------------------------------------------------------
(* Induction: the numbers without a property have no least one. *)

LEMMA InductionOnNat ==
  ASSUME NEW S, 0 \in S, \A n \in Nat : n \in S => n + 1 \in S
  PROVE  \A n \in Nat : n \in S
<1> SUFFICES ASSUME NEW n0 \in Nat, n0 \notin S PROVE FALSE
  OBVIOUS
<1> DEFINE R == {ss \in Nat \X Nat : ss[1] < ss[2]}
<1>1. OpToRel(<, Nat) = R
  BY Zenon DEF OpToRel
<1>2. IsWellFoundedOn(R, Nat)
  BY <1>1, NatLessThanWellFounded, Zenon
<1> HIDE DEF R
<1>3. PICK m \in Nat \ S : \A k \in Nat \ S : ~(<<k, m>> \in R)
  <2>1. Nat \ S \subseteq Nat /\ Nat \ S # {}
    OBVIOUS
  <2> QED BY <1>2, <2>1, WFMin, Zenon
<1>4. \A k \in Nat \ S : ~(k < m)
  BY <1>3 DEF R
<1>5. m # 0 /\ m - 1 \in Nat /\ (m - 1) + 1 = m
  BY <1>3
<1>6. m - 1 \in S
  BY <1>4, <1>5
<1> QED BY <1>3, <1>5, <1>6

\* There is a function on 0 .. n that starts with first and whose every value is
\* step's of the one before.
Recursive(T, n, first, step) ==
  \E f \in [0 .. n -> T] : f[0] = first /\ \A i \in 1 .. n : f[i] = step[<<i, f[i - 1]>>]

\* It is built up to n, one value at a time.
LEMMA Recursion ==
  ASSUME NEW T, NEW first \in T, NEW step \in [Nat \X T -> T], NEW n0 \in Nat
  PROVE  Recursive(T, n0, first, step)
<1> DEFINE Is(n, f) == f[0] = first /\ \A i \in 1 .. n : f[i] = step[<<i, f[i - 1]>>]
           S == {n \in Nat : \E f \in [0 .. n -> T] : Is(n, f)}
<1>1. 0 \in S
  <2> DEFINE g == [i \in 0 .. 0 |-> first]
  <2>1. g \in [0 .. 0 -> T] /\ Is(0, g)
    OBVIOUS
  <2> QED BY <2>1
<1>2. ASSUME NEW n \in Nat, n \in S PROVE n + 1 \in S
  <2>1. PICK f \in [0 .. n -> T] : Is(n, f)
    BY <1>2
  <2> DEFINE g == [i \in 0 .. n + 1 |-> IF i = n + 1 THEN step[<<n + 1, f[n]>>] ELSE f[i]]
  <2>2. g \in [0 .. n + 1 -> T]
    <3>1. f[n] \in T /\ <<n + 1, f[n]>> \in Nat \X T
      OBVIOUS
    <3>2. step[<<n + 1, f[n]>>] \in T
      BY <3>1
    <3>3. \A i \in 0 .. n + 1 : i # n + 1 => i \in 0 .. n
      OBVIOUS
    <3> QED BY <3>2, <3>3
  <2>3. g[0] = first
    BY <2>1
  <2>4. ASSUME NEW i \in 1 .. n + 1 PROVE g[i] = step[<<i, g[i - 1]>>]
    <3>1. i \in 0 .. n + 1 /\ i - 1 \in 0 .. n /\ i - 1 \in 0 .. n + 1 /\ i - 1 # n + 1
      OBVIOUS
    <3>2. g[i - 1] = f[i - 1]
      BY <3>1
    <3>3. CASE i = n + 1
      <4>1. i - 1 = n /\ g[i] = step[<<n + 1, f[n]>>]
        BY <3>1, <3>3
      <4> HIDE DEF g
      <4> QED BY <3>2, <3>3, <4>1
    <3>4. CASE i # n + 1
      <4>1. i \in 1 .. n /\ g[i] = f[i]
        BY <3>1, <3>4
      <4> HIDE DEF g
      <4> QED BY <2>1, <3>2, <4>1
    <3> QED BY <3>3, <3>4
  <2> HIDE DEF g
  <2>5. \E f1 \in [0 .. n + 1 -> T] : Is(n + 1, f1)
    BY <2>2, <2>3, <2>4
  <2> HIDE DEF Is
  <2> QED BY <2>5
<1> HIDE DEF S
<1>3. n0 \in S
  BY <1>1, <1>2, InductionOnNat
<1> QED BY <1>3 DEF S, Is, Recursive

-----------------------------------------------------------------------------
(* Numbers. *)

\* A common factor is dropped from both sides, or put there.
LEMMA Cancel ==
  ASSUME NEW p \in Int, NEW q \in Int, NEW d \in Nat \ {0}, p * d < q * d
  PROVE  p < q
<1> SUFFICES ASSUME q <= p PROVE FALSE
  OBVIOUS
<1>1. PICK k \in Nat : p = q + k
  <2>1. p - q \in Nat /\ p = q + (p - q)
    OBVIOUS
  <2> QED BY <2>1
<1>2. p * d = q * d + k * d /\ k * d \in Nat
  BY <1>1
<1> QED BY <1>2

LEMMA Times ==
  ASSUME NEW a \in Nat, NEW b \in Nat, NEW c \in Nat, a <= b
  PROVE  a * c \in Nat /\ b * c \in Nat /\ a * c <= b * c
<1>1. PICK k \in Nat : b = a + k
  <2>1. b - a \in Nat /\ b = a + (b - a)
    OBVIOUS
  <2> QED BY <2>1
<1>2. b * c = a * c + k * c /\ a * c \in Nat /\ k * c \in Nat
  BY <1>1
<1> QED BY <1>2

\* A number from its quotient and remainder.
LEMMA Remainder ==
  ASSUME NEW d \in Nat \ {0}, NEW a \in Int
  PROVE  a % d \in 0 .. d - 1 /\ a \div d \in Int /\ a = (a % d) + (a \div d) * d
OBVIOUS

\* There is one quotient and one remainder.
LEMMA Unique ==
  ASSUME NEW d \in Nat \ {0}, NEW r \in 0 .. d - 1, NEW s \in 0 .. d - 1, NEW k \in Int,
         NEW l \in Int, r + k * d = s + l * d
  PROVE  r = s /\ k = l
<1>1. k * d \in Int /\ l * d \in Int /\ (k + 1) * d = k * d + d /\ (l + 1) * d = l * d + d
  OBVIOUS
<1>2. k * d < (l + 1) * d /\ l * d < (k + 1) * d
  BY <1>1
<1>3. k < l + 1 /\ l < k + 1
  BY <1>2, Cancel
<1>4. k = l
  BY <1>3
<1> QED BY <1>1, <1>4

\* Multiples of the divisor do not change a remainder.
LEMMA Congruent ==
  ASSUME NEW d \in Nat \ {0}, NEW a \in Int, NEW b \in Int, NEW k \in Int, a = b + k * d
  PROVE  a % d = b % d
<1> DEFINE ra == a % d  rb == b % d  qa == a \div d  qb == b \div d
<1>1. /\ ra \in 0 .. d - 1 /\ qa \in Int /\ a = ra + qa * d
      /\ rb \in 0 .. d - 1 /\ qb \in Int /\ b = rb + qb * d
  BY Remainder
<1> HIDE DEF ra, rb, qa, qb
<1> DEFINE l == qb + k
<1>2. ra + qa * d = rb + l * d /\ l \in Int
  BY <1>1
<1>3. ra \in 0 .. d - 1 /\ rb \in 0 .. d - 1 /\ qa \in Int
  BY <1>1
<1> HIDE DEF l
<1>4. ra = rb
  BY <1>2, <1>3, Unique
<1> QED BY <1>4 DEF ra, rb

LEMMA Wrapped ==
  ASSUME NEW d \in Nat \ {0}, NEW a \in 0 .. d - 1
  PROVE  (a + d) % d = a
<1>1. \A k \in Int : a + d = a + k * d => (a + d) % d = a % d
  <2> SUFFICES ASSUME NEW k \in Int, a + d = a + k * d PROVE (a + d) % d = a % d
    OBVIOUS
  <2> DEFINE s == a + d
  <2>1. d \in Nat \ {0} /\ s \in Int /\ a \in Int /\ k \in Int /\ s = a + k * d
    OBVIOUS
  <2> HIDE DEF s
  <2>2. s % d = a % d
    BY <2>1, Congruent
  <2> QED BY <2>2 DEF s
<1>2. (a + d) % d = a % d
  BY <1>1
<1> QED BY <1>2

LEMMA Small ==
  ASSUME NEW d \in Nat \ {0}, NEW a \in 0 .. d - 1
  PROVE  a % d = a
OBVIOUS

-----------------------------------------------------------------------------
(* The field. *)

\* Products and differences are reduced.
LEMMA MulRange ==
  ASSUME NEW a \in Int, NEW b \in Int
  PROVE  Mul(a, b) \in 0 .. Prime - 1 /\ Mul(a, b) \in Int
<1>1. a * b \in Int /\ Prime \in Nat \ {0}
  BY CurveAssumption
<1> QED BY <1>1, Remainder DEF Mul

LEMMA SubRange ==
  ASSUME NEW a \in Int, NEW b \in Int
  PROVE  Sub(a, b) \in 0 .. Prime - 1 /\ Sub(a, b) \in Int
<1>1. a - b \in Int /\ Prime \in Nat \ {0}
  BY CurveAssumption
<1> QED BY <1>1, Remainder DEF Sub

\* Reducing a factor first changes nothing.
LEMMA MulReduced ==
  ASSUME NEW a \in Int, NEW b \in Int
  PROVE  ((a % Prime) * b) % Prime = (a * b) % Prime /\ (a * (b % Prime)) % Prime = (a * b) % Prime
<1> DEFINE ra == a % Prime  rb == b % Prime  qa == a \div Prime  qb == b \div Prime
<1>1. Prime \in Nat \ {0}
  BY CurveAssumption
<1>2. ra \in Int /\ qa \in Int /\ a = ra + qa * Prime /\ rb \in Int /\ qb \in Int /\ b = rb + qb * Prime
  BY <1>1, Remainder
<1> HIDE DEF ra, rb, qa, qb
<1>3. a * b = ra * b + (qa * b) * Prime /\ qa * b \in Int /\ a * b \in Int /\ ra * b \in Int
  BY <1>1, <1>2
<1>4. a * b = a * rb + (qb * a) * Prime /\ qb * a \in Int /\ a * rb \in Int
  BY <1>1, <1>2
<1>5. (a * b) % Prime = (ra * b) % Prime
  BY <1>1, <1>3, Congruent
<1>6. (a * b) % Prime = (a * rb) % Prime
  BY <1>1, <1>3, <1>4, Congruent
<1> QED BY <1>5, <1>6 DEF ra, rb

\* Nor does reducing a term of a difference.
LEMMA SubReduced ==
  ASSUME NEW a \in Int, NEW b \in Int
  PROVE  ((a % Prime) - b) % Prime = (a - b) % Prime /\ (a - (b % Prime)) % Prime = (a - b) % Prime
<1> DEFINE ra == a % Prime  rb == b % Prime  qa == a \div Prime  qb == b \div Prime
<1>1. Prime \in Nat \ {0}
  BY CurveAssumption
<1>2. ra \in Int /\ qa \in Int /\ a = ra + qa * Prime /\ rb \in Int /\ qb \in Int /\ b = rb + qb * Prime
  BY <1>1, Remainder
<1> HIDE DEF ra, rb, qa, qb
<1>3. a - b = (ra - b) + qa * Prime /\ a - b \in Int /\ ra - b \in Int /\ qa \in Int
  BY <1>1, <1>2
<1>4. a - b = (a - rb) + (-qb) * Prime /\ -qb \in Int /\ a - rb \in Int
  BY <1>1, <1>2
<1>5. (a - b) % Prime = (ra - b) % Prime
  BY <1>1, <1>3, Congruent
<1>6. (a - b) % Prime = (a - rb) % Prime
  BY <1>1, <1>3, <1>4, Congruent
<1> QED BY <1>5, <1>6 DEF ra, rb

\* The laws of a ring.
LEMMA MulLaws ==
  ASSUME NEW a \in Int, NEW b \in Int, NEW c \in Int
  PROVE  /\ Mul(a, b) = Mul(b, a)
         /\ Mul(Mul(a, b), c) = Mul(a, Mul(b, c))
         /\ Mul(Mul(a, b), c) = ((a * b) * c) % Prime
         /\ a \in 0 .. Prime - 1 => Mul(1, a) = a
<1>1. a * b \in Int /\ b * c \in Int /\ a * b = b * a /\ (a * b) * c = a * (b * c) /\ 1 * a = a
  OBVIOUS
<1>2. (((a * b) % Prime) * c) % Prime = ((a * b) * c) % Prime /\ (a * ((b * c) % Prime)) % Prime = (a * (b * c)) % Prime
  BY <1>1, MulReduced
<1>3. a \in 0 .. Prime - 1 => a % Prime = a
  BY Small, CurveAssumption
<1> QED BY <1>1, <1>2, <1>3 DEF Mul

\* Modulo a prime a product of numbers other than zero is not zero.
LEMMA NoZeroDivisors ==
  ASSUME NEW a \in 1 .. Prime - 1, NEW b \in 1 .. Prime - 1
  PROVE  Mul(a, b) \in 1 .. Prime - 1
<1>1. Prime \in Nat /\ a \in 0 .. Prime - 1 /\ b \in 0 .. Prime - 1 /\ a \in Int /\ b \in Int /\ a # 0
  BY CurveAssumption
<1> DEFINE i == Inverted(a)
<1>2. i \in Int /\ Mul(a, i) = 1
  BY <1>1, PrimeAssumption
<1>3. Mul(a, b) \in 0 .. Prime - 1
  BY <1>1, MulRange, SubRange
<1>4. ASSUME Mul(a, b) = 0 PROVE FALSE
  <2>1. Mul(i, Mul(a, b)) = Mul(Mul(i, a), b) /\ Mul(i, a) = Mul(a, i) /\ Mul(1, b) = b
    BY <1>1, <1>2, MulLaws
  <2>2. Mul(i, 0) = 0
    <3>1. i * 0 = 0 /\ 0 % Prime = 0
      BY <1>2, CurveAssumption
    <3> QED BY <3>1 DEF Mul
  <2> QED BY <1>2, <1>4, <2>1, <2>2
<1> QED BY <1>1, <1>3, <1>4

\* What makes one with a number is its inverse.
LEMMA OneInverse ==
  ASSUME NEW a \in 1 .. Prime - 1, NEW b \in 0 .. Prime - 1, Mul(b, a) = 1
  PROVE  b = Inverted(a)
<1>1. Prime \in Nat /\ a \in 0 .. Prime - 1 /\ a \in Int /\ b \in Int /\ a # 0
  BY CurveAssumption
<1> DEFINE i == Inverted(a)
<1>2. i \in 0 .. Prime - 1 /\ i \in Int /\ Mul(a, i) = 1
  BY <1>1, PrimeAssumption
<1> HIDE DEF i
<1>3. Mul(Mul(b, a), i) = Mul(b, Mul(a, i))
  BY <1>1, <1>2, MulLaws
<1>4. Mul(1, i) = i /\ Mul(1, b) = b
  BY <1>1, <1>2, MulLaws
<1>5. Mul(b, 1) = Mul(1, b)
  BY <1>1, MulLaws
<1> QED BY <1>2, <1>3, <1>4, <1>5 DEF i

-----------------------------------------------------------------------------
(* The additions. *)

\* Points with reduced coordinates, and any pairs of numbers.
Points == [x : 0 .. Prime - 1, y : 0 .. Prime - 1]
Pairs  == [x : Int, y : Int]

\* A chord in steps of reduced numbers is the formula of the group law.
LEMMA ChordExact ==
  ASSUME NEW p \in Pairs, NEW q \in Pairs, NEW l \in Int
  PROVE  /\ Chord(l, p, q) \in Points
                   /\ Chord(l, p, q) =
               LET X == (l * l - p.x - q.x) % Prime IN [x |-> X, y |-> (l * (p.x - X) - p.y) % Prime]
<1>1. p.x \in Int /\ p.y \in Int /\ q.x \in Int /\ q.y \in Int
  BY DEF Pairs
<1> DEFINE ll == l * l
           X == Sub(Sub(Mul(l, l), p.x), q.x)
           Y == Sub(Mul(l, Sub(p.x, X)), p.y)
<1>2. ll \in Int /\ ll - p.x \in Int /\ Prime \in Nat \ {0}
  BY <1>1, CurveAssumption
<1>3. X = (ll - p.x - q.x) % Prime
  <2> HIDE DEF ll
  <2>1. ((ll % Prime) - p.x) % Prime = (ll - p.x) % Prime
    BY <1>1, <1>2, SubReduced
  <2>2. (((ll - p.x) % Prime) - q.x) % Prime = ((ll - p.x) - q.x) % Prime
    BY <1>1, <1>2, SubReduced
  <2> QED BY <2>1, <2>2 DEF Sub, Mul, ll
<1>4. X \in 0 .. Prime - 1 /\ X \in Int
  BY <1>1, MulRange, SubRange
<1> HIDE DEF X
<1> DEFINE d == p.x - X
           ld == l * d
<1>5. Y = (l * (p.x - X) - p.y) % Prime
  <2>1. d \in Int /\ ld \in Int
    BY <1>1, <1>4
  <2>2. (l * (d % Prime)) % Prime = ld % Prime
    BY <2>1, MulReduced
  <2>3. ((ld % Prime) - p.y) % Prime = (ld - p.y) % Prime
    <3> HIDE DEF ld
    <3> QED BY <1>1, <2>1, SubReduced
  <2> QED BY <2>2, <2>3 DEF Sub, Mul
<1>6. Y \in 0 .. Prime - 1
  <2>1. Sub(p.x, X) \in Int
    BY <1>1, <1>4, MulRange, SubRange
  <2>2. Mul(l, Sub(p.x, X)) \in Int
    BY <2>1, MulRange, SubRange
  <2> QED BY <1>1, <2>2, MulRange, SubRange
<1>7. Chord(l, p, q) = [x |-> X, y |-> Y]
  BY DEF Chord, X
<1> HIDE DEF Y
<1>8. X = (l * l - p.x - q.x) % Prime
  BY <1>3 DEF ll
<1> QED BY <1>4, <1>5, <1>6, <1>7, <1>8 DEF Points

\* Slopes are numbers.
LEMMA InvertedInt ==
  ASSUME NEW a \in Int, NEW b \in Int
  PROVE  Inverted(Sub(a, b)) \in Int
<1>1. Sub(a, b) \in 0 .. Prime - 1
  BY SubRange
<1>2. Inverted(Sub(a, b)) \in 0 .. Prime - 1
  BY <1>1, PrimeAssumption
<1> QED BY <1>2

LEMMA InvertedTwice ==
  ASSUME NEW a \in Int
  PROVE  Inverted(Mul(2, a)) \in Int
<1> DEFINE two == 2
<1>1. two \in Int
  OBVIOUS
<1> HIDE DEF two
<1>2. Mul(two, a) \in 0 .. Prime - 1
  BY <1>1, MulRange
<1>3. Inverted(Mul(two, a)) \in 0 .. Prime - 1
  BY <1>2, PrimeAssumption
<1> QED BY <1>3 DEF two

LEMMA SlopeInt ==
  ASSUME NEW p \in Pairs, NEW q \in Pairs
  PROVE  PointDoubleLambda(p) \in Int /\ PointAddLambda(p, q) \in Int
<1>1. p.x \in Int /\ p.y \in Int /\ q.x \in Int /\ q.y \in Int
  BY DEF Pairs
<1>2. Mul(3, Mul(p.x, p.x)) \in Int /\ Inverted(Mul(2, p.y)) \in Int
  <2>1. Mul(p.x, p.x) \in Int
    BY <1>1, MulRange, SubRange
  <2>2. Mul(3, Mul(p.x, p.x)) \in Int
    BY <2>1, MulRange, SubRange
  <2>3. Inverted(Mul(2, p.y)) \in Int
    BY <1>1, InvertedTwice
  <2> QED BY <2>2, <2>3
<1>3. Sub(q.y, p.y) \in Int /\ Inverted(Sub(q.x, p.x)) \in Int
  BY <1>1, MulRange, SubRange, InvertedInt
<1> QED BY <1>2, <1>3, MulRange, SubRange DEF PointDoubleLambda, PointAddLambda

\* A sum is a point.
LEMMA PointAddIsPoint ==
  ASSUME NEW p \in Pairs, NEW q \in Pairs
  PROVE  PointAdd(p, q) \in Points /\ PointAdd(p, q) \in Pairs
<1>1. PointAdd(p, q) \in Points
  BY SlopeInt, ChordExact DEF PointAdd
<1> QED BY <1>1 DEF Points, Pairs

\* The kernels' addition is the group's, as long as the sum has coordinates: what it takes
\* for equal points is then equal.
LEMMA PointAddIsPlus ==
  ASSUME NEW p \in Points, NEW q \in Points, p.x = q.x => p = q /\ (p.y + q.y) % Prime # 0
  PROVE  PointAdd(p, q) = Plus(p, q)
<1>1. p \in Pairs /\ q \in Pairs /\ p.x \in Int /\ p.y \in Int /\ q.x \in Int /\ q.y \in Int
  BY DEF Points, Pairs
<1>2. p # Infinity /\ q # Infinity
  BY CurveAssumption DEF Points, Infinity
<1>3. p.x = q.x <=> p = q
  OBVIOUS
<1> DEFINE kernel == IF p.x = q.x THEN PointDoubleLambda(p) ELSE PointAddLambda(p, q)
           law == IF p = q THEN Mul(3 * p.x * p.x, Inverted((2 * p.y) % Prime))
                  ELSE Mul(q.y - p.y, Inverted((q.x - p.x) % Prime))
<1>4. kernel \in Int
  BY <1>1, SlopeInt
<1>5. kernel = law
  <2>1. CASE p = q
    <3> DEFINE i == Inverted(Mul(2, p.y))  xx == p.x * p.x
    <3>1. i \in Int /\ xx \in Int /\ 3 * p.x * p.x = 3 * xx /\ 3 * xx \in Int
      <4>1. Inverted(Mul(2, p.y)) \in Int
        BY <1>1, InvertedTwice
      <4>2. xx \in Int /\ 3 * p.x * p.x = 3 * xx /\ 3 * xx \in Int
        BY <1>1
      <4> QED BY <4>1, <4>2
    <3> HIDE DEF i, xx
    <3>2. (3 * (xx % Prime)) % Prime = (3 * xx) % Prime
      BY <3>1, MulReduced
    <3>3. (((3 * xx) % Prime) * i) % Prime = ((3 * xx) * i) % Prime
      BY <3>1, MulReduced
    <3>4. PointDoubleLambda(p) = (((3 * (xx % Prime)) % Prime) * i) % Prime
      BY DEF PointDoubleLambda, Mul, xx, i
    <3>5. law = ((3 * xx) * i) % Prime
      BY <2>1, <3>1 DEF Mul, i
    <3> QED BY <2>1, <3>2, <3>3, <3>4, <3>5
  <2>2. CASE p # q
    <3> DEFINE i == Inverted(Sub(q.x, p.x))  dy == q.y - p.y
    <3>1. i \in Int /\ dy \in Int
      <4>1. Inverted(Sub(q.x, p.x)) \in Int
        BY <1>1, InvertedInt
      <4>2. dy \in Int
        BY <1>1
      <4> QED BY <4>1, <4>2
    <3> HIDE DEF i, dy
    <3>2. ((dy % Prime) * i) % Prime = (dy * i) % Prime
      BY <3>1, MulReduced
    <3>3. PointAddLambda(p, q) = ((dy % Prime) * i) % Prime
      BY DEF PointAddLambda, Mul, Sub, dy, i
    <3>4. law = (dy * i) % Prime
      BY <2>2 DEF Mul, Sub, i, dy
    <3> QED BY <1>3, <2>2, <3>2, <3>3, <3>4
  <2> QED BY <2>1, <2>2
<1>6. Plus(p, q) =
        LET X == (law * law - p.x - q.x) % Prime IN [x |-> X, y |-> (law * (p.x - X) - p.y) % Prime]
  <2>1. ~(p.x = q.x /\ (p.y + q.y) % Prime = 0)
    OBVIOUS
  <2> QED BY <1>2, <2>1 DEF Plus
<1>7. PointAdd(p, q) = Chord(kernel, p, q)
  BY DEF PointAdd
<1> HIDE DEF kernel, law
<1> QED BY <1>1, <1>4, <1>5, <1>6, <1>7, ChordExact

\* Two multiples of the generator add up to the multiple of the sum.
LEMMA SumOfMultiples ==
  ASSUME NEW i \in 1 .. Order - 1, NEW j \in 1 .. Order - 1, i + j # Order
  PROVE  /\ PointAdd(Multiples[i], Multiples[j]) = Multiples[(i + j) % Order]
         /\ (i + j) % Order \in 1 .. Order - 1
<1>1. Order \in Nat \ {0} /\ i \in 0 .. Order - 1 /\ j \in 0 .. Order - 1
  BY CurveAssumption
<1>2. (i + j) % Order \in 1 .. Order - 1
  <2>1. CASE i + j < Order
    BY <1>1, <2>1
  <2>2. CASE i + j > Order
    <3> DEFINE a == i + j - Order
    <3>1. i + j = a + Order /\ a \in 1 .. Order - 1
      BY <1>1, <2>2
    <3> HIDE DEF a
    <3>2. (a + Order) % Order = a
      BY <1>1, <3>1, Wrapped
    <3> QED BY <1>1, <3>1, <3>2
  <2> QED BY <1>1, <2>1, <2>2
<1> DEFINE p == Multiples[i]  q == Multiples[j]  s == Multiples[(i + j) % Order]
<1>3. p \in Points /\ q \in Points /\ s \in Points
  BY <1>2, GroupAssumption DEF Points
<1>4. Plus(p, q) = s
  BY <1>1, GroupAssumption
<1>5. p.x = q.x => i = j
  BY GroupAssumption
<1>6. ASSUME p.x = q.x, (p.y + q.y) % Prime = 0 PROVE FALSE
  <2>1. p # Infinity /\ q # Infinity /\ s # Infinity
    BY <1>3, CurveAssumption DEF Points, Infinity
  <2> HIDE DEF p, q, s
  <2>2. Plus(p, q) = Infinity
    BY <1>6, <2>1 DEF Plus
  <2> QED BY <1>4, <2>1, <2>2
<1>7. p.x = q.x => p = q
  BY <1>5
<1> HIDE DEF p, q, s
<1>8. PointAdd(p, q) = Plus(p, q)
  BY <1>3, <1>6, <1>7, PointAddIsPlus
<1> QED BY <1>2, <1>4, <1>8 DEF p, q, s

-----------------------------------------------------------------------------
(* Batches. *)

LEMMA Generator == G \in Points /\ G = Multiples[1] /\ 1 \in 1 .. Order - 1
<1>1. Order \in Nat /\ Order > 1
  BY CurveAssumption
<1> QED BY <1>1, GroupAssumption DEF Points

\* The additions one after the other, one from the one before.
LEMMA ChainDef ==
  ASSUME NEW p \in Pairs
  PROVE  AddChain(p) = [i \in 1 .. Batch |-> PublicAddGenerator(IF i = 1 THEN p ELSE AddChain(p)[i-1])]
<1> DEFINE Is(chain) == chain = [i \in 1 .. Batch |-> PublicAddGenerator(IF i = 1 THEN p ELSE chain[i-1])]
           step == [it \in Nat \X Pairs |-> PublicAddGenerator(it[2])]
<1>1. G \in Pairs
  BY Generator DEF Points, Pairs
<1>2. step \in [Nat \X Pairs -> Pairs]
  BY <1>1, PointAddIsPoint DEF PublicAddGenerator
<1>3. \A i \in Nat, q \in Pairs : step[<<i, q>>] = PublicAddGenerator(q)
  OBVIOUS
<1> HIDE DEF step
<1>4. PICK f \in [0 .. Batch -> Pairs] : f[0] = p /\ \A i \in 1 .. Batch : f[i] = step[<<i, f[i - 1]>>]
  <2>1. Recursive(Pairs, Batch, p, step)
    BY <1>2, Recursion, CurveAssumption
  <2> QED BY <2>1 DEF Recursive
<1>5. f[0] = p /\ \A i \in 1 .. Batch : f[i] = PublicAddGenerator(f[i - 1])
  <2>1. ASSUME NEW i \in 1 .. Batch PROVE f[i] = PublicAddGenerator(f[i - 1])
    <3>1. i \in Nat /\ i - 1 \in 0 .. Batch
      BY CurveAssumption
    <3>2. f[i - 1] \in Pairs
      BY <3>1
    <3> QED BY <1>3, <1>4, <3>1, <3>2
  <2> QED BY <1>4, <2>1
<1> DEFINE g == [i \in 1 .. Batch |-> f[i]]
<1>6. g = [i \in 1 .. Batch |-> PublicAddGenerator(IF i = 1 THEN p ELSE g[i-1])]
  <2>1. ASSUME NEW i \in 1 .. Batch PROVE f[i] = PublicAddGenerator(IF i = 1 THEN p ELSE g[i-1])
    <3>1. CASE i = 1
      BY <1>5, <3>1
    <3>2. CASE i # 1
      <4>1. i - 1 \in 1 .. Batch
        BY <3>2, CurveAssumption
      <4> QED BY <1>5, <3>2, <4>1
    <3> QED BY <3>1, <3>2
  <2> QED BY <2>1
<1> HIDE DEF g
<1>7. Is(g)
  BY <1>6
<1> HIDE DEF Is
<1>8. Is(CHOOSE chain : Is(chain))
  BY <1>7
<1>9. AddChain(p) = CHOOSE chain : Is(chain)
  BY DEF AddChain, Is
<1>10. Is(AddChain(p))
  BY <1>8, <1>9
<1> QED BY <1>10 DEF Is

\* They are the next multiples.
LEMMA ChainExact ==
  ASSUME NEW n \in 1 .. Order - 1, n + Batch < Order
  PROVE  AddChain(Multiples[n]) = [i \in 1 .. Batch |-> Multiples[n + i]]
<1> DEFINE p == Multiples[n]  c == AddChain(p)
           S == {i \in Nat : i \in 1 .. Batch => c[i] = Multiples[n + i]}
<1>1. Order \in Nat /\ Batch \in Nat \ {0}
  BY CurveAssumption
<1>2. p \in Points /\ p \in Pairs
  BY GroupAssumption DEF Points, Pairs
<1> HIDE DEF p
<1>3. c = [i \in 1 .. Batch |-> PublicAddGenerator(IF i = 1 THEN p ELSE c[i-1])]
  BY <1>2, ChainDef
<1> HIDE DEF c
<1>4. ASSUME NEW k \in 1 .. Order - 1, k + 1 < Order
      PROVE  PublicAddGenerator(Multiples[k]) = Multiples[k + 1]
  <2>1. 1 \in 1 .. Order - 1 /\ k + 1 # Order /\ k + 1 \in 0 .. Order - 1 /\ Order \in Nat \ {0}
    BY <1>1, <1>4
  <2>2. PointAdd(Multiples[k], Multiples[1]) = Multiples[(k + 1) % Order]
    BY <2>1, SumOfMultiples
  <2>3. (k + 1) % Order = k + 1
    BY <2>1, Small
  <2> QED BY <2>2, <2>3, Generator DEF PublicAddGenerator
<1>5. 0 \in S
  BY <1>1
<1>6. ASSUME NEW i \in Nat, i \in S PROVE i + 1 \in S
  <2> SUFFICES ASSUME i + 1 \in 1 .. Batch PROVE c[i + 1] = Multiples[n + (i + 1)]
    OBVIOUS
  <2>1. c[i + 1] = PublicAddGenerator(IF i + 1 = 1 THEN p ELSE c[i])
    <3>1. (i + 1) - 1 = i
      OBVIOUS
    <3> QED BY <1>3, <3>1
  <2>2. (IF i + 1 = 1 THEN p ELSE c[i]) = Multiples[n + i]
    <3>1. CASE i = 0
      <4>1. n + i = n /\ i + 1 = 1
        BY <3>1, <1>1
      <4> QED BY <4>1 DEF p
    <3>2. CASE i # 0
      <4>1. i \in 1 .. Batch /\ i + 1 # 1
        BY <1>1, <3>2
      <4> QED BY <1>6, <4>1
    <3> QED BY <3>1, <3>2
  <2>3. n + i \in 1 .. Order - 1 /\ (n + i) + 1 < Order /\ (n + i) + 1 = n + (i + 1)
    BY <1>1
  <2>4. PublicAddGenerator(Multiples[n + i]) = Multiples[(n + i) + 1]
    BY <1>4, <2>3
  <2> QED BY <2>1, <2>2, <2>3, <2>4
<1> HIDE DEF S
<1>7. \A i \in Nat : i \in S
  BY <1>5, <1>6, InductionOnNat
<1>8. \A i \in 1 .. Batch : c[i] = Multiples[n + i]
  BY <1>7, <1>1 DEF S
<1>9. c = [i \in 1 .. Batch |-> c[i]]
  BY <1>3
<1>10. c = [i \in 1 .. Batch |-> Multiples[n + i]]
  BY <1>8, <1>9
<1> QED BY <1>10 DEF c, p

\* What the batch adds are multiples, and the differences are reduced.
LEMMA DifferenceRange ==
  ASSUME NEW p \in Pairs, NEW i \in 0 .. Batch - 1
  PROVE  /\ Difference(p, i) \in 0 .. Prime - 1 /\ Difference(p, i) \in Int
         /\ BatchG[i] = Multiples[i + 1] /\ BatchG[i] \in Points /\ BatchG[i] \in Pairs
<1>1. BatchG[i] = Multiples[i + 1] /\ i + 1 \in 1 .. Order - 1
  BY CurveAssumption DEF BatchG
<1>2. BatchG[i] \in Points
  BY <1>1, GroupAssumption DEF Points
<1>3. p.x \in Int /\ BatchG[i].x \in Int /\ BatchG[i] \in Pairs
  BY <1>2 DEF Pairs, Points
<1> QED BY <1>1, <1>2, <1>3, SubRange DEF Difference

\* The products, one from the one before.
LEMMA ProductsDef ==
  ASSUME NEW p \in Pairs
  PROVE  /\ Products(p)[0] = Mul(1, Difference(p, 0))
         /\ \A i \in 1 .. Batch - 1 : Products(p)[i] = Mul(Products(p)[i-1], Difference(p, i))
<1> DEFINE Is(f) == f = [i \in 0 .. Batch - 1 |-> Mul(IF i = 0 THEN 1 ELSE f[i-1], Difference(p, i))]
           first == Mul(1, Difference(p, 0))
           step == [it \in Nat \X Int |->
                     IF it[1] \in 1 .. Batch - 1 THEN Mul(it[2], Difference(p, it[1])) ELSE 0]
<1>1. Batch \in Nat \ {0} /\ Batch - 1 \in Nat /\ 0 \in 0 .. Batch - 1
  BY CurveAssumption
<1>2. first \in Int
  <2>1. Difference(p, 0) \in Int
    BY <1>1, DifferenceRange
  <2> QED BY <2>1, MulRange
<1>3. \A i \in Nat, a \in Int : i \in 1 .. Batch - 1 => step[<<i, a>>] = Mul(a, Difference(p, i))
  OBVIOUS
<1>4. step \in [Nat \X Int -> Int]
  <2>1. ASSUME NEW i \in Nat, NEW a \in Int, i \in 1 .. Batch - 1 PROVE Mul(a, Difference(p, i)) \in Int
    <3>1. i \in 0 .. Batch - 1
      BY <1>1, <2>1
    <3>2. Difference(p, i) \in Int
      BY <3>1, DifferenceRange
    <3> QED BY <3>2, MulRange
  <2> QED BY <2>1
<1> HIDE DEF step, first
<1>5. Recursive(Int, Batch - 1, first, step)
  BY <1>1, <1>2, <1>4, Recursion
<1>6. PICK f \in [0 .. Batch - 1 -> Int] :
        f[0] = first /\ \A i \in 1 .. Batch - 1 : f[i] = step[<<i, f[i - 1]>>]
  BY <1>5 DEF Recursive
<1>7. \A i \in 0 .. Batch - 1 : f[i] = Mul(IF i = 0 THEN 1 ELSE f[i-1], Difference(p, i))
  <2> SUFFICES ASSUME NEW i \in 0 .. Batch - 1
               PROVE  f[i] = Mul(IF i = 0 THEN 1 ELSE f[i-1], Difference(p, i))
    OBVIOUS
  <2>1. CASE i = 0
    BY <1>6, <2>1 DEF first
  <2>2. CASE i # 0
    <3>1. i \in 1 .. Batch - 1 /\ i \in Nat /\ i < Batch /\ i - 1 \in 0 .. Batch - 1
      BY <1>1, <2>2
    <3>2. f[i - 1] \in Int
      BY <3>1
    <3>3. step[<<i, f[i - 1]>>] = Mul(f[i - 1], Difference(p, i))
      BY <1>3, <3>1, <3>2
    <3>4. f[i] = step[<<i, f[i - 1]>>]
      BY <1>6, <3>1
    <3> QED BY <2>2, <3>3, <3>4
  <2> QED BY <2>1, <2>2
<1>8. Is(f)
  BY <1>7
<1> HIDE DEF Is
<1>9. Is(CHOOSE g : Is(g))
  BY <1>8
<1>10. Products(p) = CHOOSE g : Is(g)
  BY DEF Products, Is
<1>11. Is(Products(p))
  BY <1>9, <1>10
<1>12. Products(p) = [i \in 0 .. Batch - 1 |-> Mul(IF i = 0 THEN 1 ELSE Products(p)[i-1], Difference(p, i))]
  BY <1>11 DEF Is
<1> QED BY <1>1, <1>12

\* The inverses on the way back, one from the one after.
LEMMA InversesDef ==
  ASSUME NEW p \in Pairs, Products(p)[Batch - 1] \in 0 .. Prime - 1
  PROVE  /\ Inverses(p)[0] = Inverted(Products(p)[Batch - 1])
         /\ \A k \in 1 .. Batch - 1 : Inverses(p)[k] = Mul(Inverses(p)[k-1], Difference(p, Batch - k))
<1> DEFINE first == Inverted(Products(p)[Batch - 1])
           Is(f) == f = [k \in 0 .. Batch - 1 |-> IF k = 0 THEN first
                                                  ELSE Mul(f[k-1], Difference(p, Batch - k))]
           step == [it \in Nat \X Int |-> IF it[1] \in 1 .. Batch THEN Mul(it[2], Difference(p, Batch - it[1]))
                                          ELSE 0]
<1>1. Batch \in Nat \ {0} /\ Batch - 1 \in Nat /\ 0 \in 0 .. Batch - 1
  BY CurveAssumption
<1>2. first \in Int
  <2>1. first \in 0 .. Prime - 1
    BY PrimeAssumption
  <2> QED BY <2>1
<1>3. \A k \in Nat, a \in Int :
        /\ k \in 1 .. Batch => step[<<k, a>>] = Mul(a, Difference(p, Batch - k))
        /\ k \notin 1 .. Batch => step[<<k, a>>] = 0
  OBVIOUS
<1>4. step \in [Nat \X Int -> Int]
  <2>1. ASSUME NEW k \in Nat, NEW a \in Int, k \in 1 .. Batch PROVE Mul(a, Difference(p, Batch - k)) \in Int
    <3>1. Batch - k \in 0 .. Batch - 1
      BY <1>1, <2>1
    <3>2. Difference(p, Batch - k) \in Int
      BY <3>1, DifferenceRange
    <3> QED BY <3>2, MulRange
  <2> QED BY <2>1
<1> HIDE DEF step, first
<1>5. Recursive(Int, Batch - 1, first, step)
  BY <1>1, <1>2, <1>4, Recursion
<1>6. PICK f \in [0 .. Batch - 1 -> Int] :
        f[0] = first /\ \A k \in 1 .. Batch - 1 : f[k] = step[<<k, f[k - 1]>>]
  BY <1>5 DEF Recursive
<1>7. \A k \in 0 .. Batch - 1 : f[k] = IF k = 0 THEN first ELSE Mul(f[k-1], Difference(p, Batch - k))
  <2> SUFFICES ASSUME NEW k \in 0 .. Batch - 1, k # 0
               PROVE  f[k] = Mul(f[k-1], Difference(p, Batch - k))
    BY <1>6
  <2>1. k \in 1 .. Batch - 1 /\ k \in Nat /\ k \in 1 .. Batch /\ k - 1 \in 0 .. Batch - 1
    BY <1>1
  <2>2. f[k - 1] \in Int
    BY <2>1
  <2> QED BY <1>3, <1>6, <2>1, <2>2
<1>8. Is(f)
  BY <1>7
<1> HIDE DEF Is
<1>9. Is(CHOOSE g : Is(g))
  BY <1>8
<1>10. Inverses(p) = CHOOSE g : Is(g)
  BY DEF Inverses, Is, first
<1>11. Is(Inverses(p))
  BY <1>9, <1>10
<1>12. Inverses(p) = [k \in 0 .. Batch - 1 |-> IF k = 0 THEN first
                                               ELSE Mul(Inverses(p)[k-1], Difference(p, Batch - k))]
  BY <1>11 DEF Is
<1> QED BY <1>1, <1>12 DEF first

\* No product is zero when no difference is.
LEMMA ProductsNonZero ==
  ASSUME NEW p \in Pairs, \A i \in 0 .. Batch - 1 : Difference(p, i) # 0
  PROVE  \A i \in 0 .. Batch - 1 : Difference(p, i) \in 1 .. Prime - 1 /\ Products(p)[i] \in 1 .. Prime - 1
<1> DEFINE S == {i \in Nat : i \in 0 .. Batch - 1 => Products(p)[i] \in 1 .. Prime - 1}
<1>1. \A i \in 0 .. Batch - 1 : Difference(p, i) \in 1 .. Prime - 1
  BY DifferenceRange, CurveAssumption
<1>2. 0 \in S
  <2>1. 0 \in 0 .. Batch - 1 /\ Prime \in Nat
    BY CurveAssumption
  <2>2. Difference(p, 0) \in 1 .. Prime - 1 /\ Difference(p, 0) \in 0 .. Prime - 1 /\ Difference(p, 0) \in Int
    BY <1>1, <2>1
  <2>3. Mul(1, Difference(p, 0)) = Difference(p, 0)
    BY <2>2, MulLaws
  <2> QED BY <2>2, <2>3, ProductsDef
<1>3. ASSUME NEW i \in Nat, i \in S PROVE i + 1 \in S
  <2> SUFFICES ASSUME i + 1 \in 0 .. Batch - 1 PROVE Products(p)[i + 1] \in 1 .. Prime - 1
    OBVIOUS
  <2>1. i \in 0 .. Batch - 1 /\ i + 1 \in 1 .. Batch - 1 /\ (i + 1) - 1 = i
    BY CurveAssumption
  <2>2. Products(p)[i] \in 1 .. Prime - 1 /\ Difference(p, i + 1) \in 1 .. Prime - 1
    BY <1>1, <1>3, <2>1
  <2>3. Products(p)[i + 1] = Mul(Products(p)[i], Difference(p, i + 1))
    <3>1. Products(p)[i + 1] = Mul(Products(p)[(i + 1) - 1], Difference(p, i + 1))
      BY <2>1, ProductsDef
    <3> QED BY <2>1, <3>1
  <2> QED BY <2>2, <2>3, NoZeroDivisors
<1> HIDE DEF S
<1>4. \A i \in Nat : i \in S
  BY <1>2, <1>3, InductionOnNat
<1>5. \A i \in 0 .. Batch - 1 : Products(p)[i] \in 1 .. Prime - 1
  <2>1. \A i \in 0 .. Batch - 1 : i \in Nat
    BY CurveAssumption
  <2> QED BY <1>4, <2>1 DEF S
<1> QED BY <1>1, <1>5

\* After k turns back what is left inverts the product of the first differences.
LEMMA InversesExact ==
  ASSUME NEW p \in Pairs, \A i \in 0 .. Batch - 1 : Difference(p, i) # 0
  PROVE  \A k \in 0 .. Batch - 1 : /\ Inverses(p)[k] \in 0 .. Prime - 1
                                   /\ Mul(Inverses(p)[k], Products(p)[Batch - 1 - k]) = 1
<1> DEFINE inv == Inverses(p)
           m == Products(p)
           d(i) == Difference(p, i)
           S == {k \in Nat : k \in 0 .. Batch - 1 => /\ inv[k] \in 0 .. Prime - 1
                                                     /\ Mul(inv[k], m[Batch - 1 - k]) = 1}
<1>1. Batch \in Nat \ {0} /\ Batch - 1 \in 0 .. Batch - 1 /\ Prime \in Nat
  BY CurveAssumption
<1>2. \A i \in 0 .. Batch - 1 : d(i) \in 1 .. Prime - 1 /\ m[i] \in 1 .. Prime - 1
  BY ProductsNonZero
<1>3. m[Batch - 1] \in 0 .. Prime - 1
  BY <1>1, <1>2
<1>4. /\ inv[0] = Inverted(m[Batch - 1])
      /\ \A k \in 1 .. Batch - 1 : inv[k] = Mul(inv[k-1], d(Batch - k))
  BY <1>3, InversesDef
<1>5. \A i \in 1 .. Batch - 1 : m[i] = Mul(m[i-1], d(i))
  BY ProductsDef
<1> HIDE DEF inv, m, d
<1>6. 0 \in S
  <2>1. inv[0] \in 0 .. Prime - 1 /\ inv[0] \in Int /\ Mul(m[Batch - 1], inv[0]) = 1 /\ m[Batch - 1] \in Int
    BY <1>1, <1>2, <1>3, <1>4, PrimeAssumption
  <2>2. Mul(inv[0], m[Batch - 1]) = Mul(m[Batch - 1], inv[0])
    BY <2>1, MulLaws
  <2>3. Batch - 1 - 0 = Batch - 1
    BY <1>1
  <2> QED BY <2>1, <2>2, <2>3
<1>7. ASSUME NEW k \in Nat, k \in S PROVE k + 1 \in S
  <2> SUFFICES ASSUME k + 1 \in 0 .. Batch - 1
               PROVE  inv[k + 1] \in 0 .. Prime - 1 /\ Mul(inv[k + 1], m[Batch - 1 - (k + 1)]) = 1
    OBVIOUS
  <2> DEFINE j == Batch - 1 - k
  <2>1. /\ k \in 0 .. Batch - 1 /\ k + 1 \in 1 .. Batch - 1 /\ (k + 1) - 1 = k
        /\ j \in 1 .. Batch - 1 /\ j - 1 \in 0 .. Batch - 1 /\ j \in 0 .. Batch - 1
        /\ Batch - (k + 1) = j /\ Batch - 1 - (k + 1) = j - 1
    BY <1>1
  <2>2. inv[k] \in 0 .. Prime - 1 /\ Mul(inv[k], m[j]) = 1
    BY <1>7, <2>1
  <2> HIDE DEF j
  <2>3. m[j] = Mul(m[j-1], d(j))
    BY <1>5, <2>1
  <2>4. inv[k + 1] = Mul(inv[k], d(j))
    <3>1. inv[k + 1] = Mul(inv[(k + 1) - 1], d(Batch - (k + 1)))
      BY <1>4, <2>1
    <3> QED BY <2>1, <3>1
  <2>5. inv[k] \in Int /\ d(j) \in Int /\ m[j-1] \in Int
    BY <1>1, <1>2, <2>1, <2>2
  <2>6. inv[k + 1] \in 0 .. Prime - 1
    BY <2>4, <2>5, MulRange
  <2>7. Mul(Mul(inv[k], d(j)), m[j-1]) = Mul(inv[k], Mul(d(j), m[j-1]))
    BY <2>5, MulLaws
  <2>8. Mul(d(j), m[j-1]) = Mul(m[j-1], d(j))
    BY <2>5, MulLaws
  <2>9. Mul(inv[k + 1], m[j-1]) = 1
    BY <2>2, <2>3, <2>4, <2>7, <2>8
  <2> QED BY <2>1, <2>6, <2>9
<1> HIDE DEF S
<1>8. \A k \in Nat : k \in S
  BY <1>6, <1>7, InductionOnNat
<1>9. \A k \in 0 .. Batch - 1 : k \in Nat
  BY <1>1
<1> QED BY <1>8, <1>9 DEF S, inv, m

\* So each difference gets its own inverse.
LEMMA InverseOfExact ==
  ASSUME NEW p \in Pairs, \A i \in 0 .. Batch - 1 : Difference(p, i) # 0, NEW i \in 0 .. Batch - 1
  PROVE  InverseOf(p, i) = Inverted(Difference(p, i))
<1> DEFINE inv == Inverses(p)
           m == Products(p)
           d == Difference(p, i)
           k == Batch - 1 - i
<1>1. /\ Batch \in Nat \ {0} /\ Prime \in Nat /\ k \in 0 .. Batch - 1 /\ Batch - 1 - k = i
      /\ i \in Int
  BY CurveAssumption
<1>2. d \in 1 .. Prime - 1 /\ d \in Int
  BY <1>1, ProductsNonZero
<1>3. inv[k] \in 0 .. Prime - 1 /\ inv[k] \in Int /\ Mul(inv[k], m[i]) = 1
  <2>1. inv[k] \in 0 .. Prime - 1 /\ Mul(inv[k], m[Batch - 1 - k]) = 1
    BY <1>1, InversesExact
  <2> QED BY <1>1, <2>1
<1>4. ASSUME NEW c \in 0 .. Prime - 1, Mul(c, d) = 1 PROVE c = Inverted(d)
  BY <1>2, <1>4, OneInverse
<1>5. CASE i = 0
  <2>1. k = Batch - 1 /\ m[0] = Mul(1, d)
    BY <1>1, <1>5, ProductsDef
  <2>2. Mul(1, d) = d
    <3>1. d \in 0 .. Prime - 1
      BY <1>1, <1>2
    <3> QED BY <1>2, <3>1, MulLaws
  <2>3. InverseOf(p, i) = inv[k]
    BY <1>5, <2>1 DEF InverseOf
  <2>4. Mul(inv[k], d) = 1
    BY <1>3, <1>5, <2>1, <2>2
  <2> HIDE DEF d
  <2>5. inv[k] = Inverted(d)
    BY <1>3, <1>4, <2>4
  <2> QED BY <2>3, <2>5 DEF d
<1>6. CASE i # 0
  <2>1. i \in 1 .. Batch - 1 /\ i - 1 \in 0 .. Batch - 1
    BY <1>1, <1>6
  <2>2. m[i] = Mul(m[i-1], d) /\ m[i-1] \in 1 .. Prime - 1 /\ m[i-1] \in Int
    BY <1>1, <2>1, ProductsDef, ProductsNonZero
  <2>3. InverseOf(p, i) = Mul(inv[k], m[i-1])
    BY <1>6 DEF InverseOf
  <2> DEFINE a == inv[k]  b == m[i-1]
  <2>4. a \in Int /\ b \in Int /\ Mul(a, Mul(b, d)) = 1
    BY <1>3, <2>2
  <2> HIDE DEF a, b, d
  <2>5. Mul(Mul(a, b), d) = Mul(a, Mul(b, d))
    BY <1>2, <2>4, MulLaws
  <2>6. Mul(a, b) \in 0 .. Prime - 1
    BY <2>4, MulRange
  <2>7. Mul(a, b) = Inverted(d)
    BY <1>4, <2>4, <2>5, <2>6
  <2> QED BY <2>3, <2>7 DEF a, b, d
<1> QED BY <1>5, <1>6

\* A batch is the next multiples, on either way.
LEMMA BatchExact ==
  ASSUME NEW n \in 1 .. Order - 1, n + Batch < Order
  PROVE  AddBatch(Multiples[n]) = [i \in 1 .. Batch |-> Multiples[n + i]]
<1> DEFINE p == Multiples[n]
<1>1. Order \in Nat \ {0} /\ Batch \in Nat \ {0}
  BY CurveAssumption
<1>2. p \in Points /\ p \in Pairs
  BY GroupAssumption DEF Points, Pairs
<1>3. CASE \E i \in 0 .. Batch - 1 : Difference(p, i) = 0
  BY <1>3, ChainExact DEF AddBatch
<1>4. CASE ~\E i \in 0 .. Batch - 1 : Difference(p, i) = 0
  <2>1. ASSUME NEW i \in 1 .. Batch
        PROVE  Chord(Mul(Sub(BatchG[i-1].y, p.y), InverseOf(p, i - 1)), p, BatchG[i-1]) = Multiples[n + i]
    <3> DEFINE g == BatchG[i-1]
    <3>1. i - 1 \in 0 .. Batch - 1 /\ (i - 1) + 1 = i /\ i \in 1 .. Order - 1 /\ n + i # Order
      BY <1>1, CurveAssumption
    <3>2. g = Multiples[i] /\ g \in Points /\ g \in Pairs
      <4>1. g = Multiples[(i - 1) + 1] /\ g \in Points /\ g \in Pairs
        BY <1>2, <3>1, DifferenceRange
      <4> QED BY <3>1, <4>1
    <3>3. Difference(p, i - 1) = Sub(g.x, p.x) /\ Difference(p, i - 1) # 0
      BY <1>4, <3>1 DEF Difference
    <3>4. p.x # g.x
      <4>1. SUFFICES ASSUME p.x = g.x PROVE FALSE
        OBVIOUS
      <4>2. p.x \in Int /\ p.x - p.x = 0 /\ 0 % Prime = 0
        BY <1>2, CurveAssumption DEF Pairs
      <4> QED BY <3>3, <4>1, <4>2 DEF Sub
    <3>5. InverseOf(p, i - 1) = Inverted(Sub(g.x, p.x))
      BY <1>2, <1>4, <3>1, <3>3, InverseOfExact
    <3>6. Chord(Mul(Sub(g.y, p.y), InverseOf(p, i - 1)), p, g) = PointAdd(p, g)
      BY <3>4, <3>5 DEF PointAdd, PointAddLambda
    <3>7. PointAdd(p, g) = Multiples[(n + i) % Order]
      BY <3>1, <3>2, SumOfMultiples
    <3>8. (n + i) % Order = n + i
      <4>1. n + i \in 0 .. Order - 1
        BY <1>1
      <4> QED BY <1>1, <4>1, Small
    <3> QED BY <3>6, <3>7, <3>8
  <2> HIDE DEF p
  <2>2. AddBatch(p) = [i \in 1 .. Batch |->
          Chord(Mul(Sub(BatchG[i-1].y, p.y), InverseOf(p, i - 1)), p, BatchG[i-1])]
    BY <1>4 DEF AddBatch
  <2>3. AddBatch(p) = [i \in 1 .. Batch |-> Multiples[n + i]]
    BY <2>1, <2>2
  <2> QED BY <2>3 DEF p
<1> QED BY <1>3, <1>4

-----------------------------------------------------------------------------
(* The multiplication. *)

\* The states of the loop over the bits.
States == [result : Pairs, empty : BOOLEAN, temp : Pairs, rest : Nat]

\* The loop, one state from the one before.
LEMMA MultiplyingDef ==
  ASSUME NEW p \in Pairs, NEW scalar \in Nat
  PROVE  /\ Multiplying(p, scalar)[0] = [result |-> Infinity, empty |-> TRUE, temp |-> p, rest |-> scalar]
         /\ \A i \in 1 .. Bits : Multiplying(p, scalar)[i] = MultiplyBit(Multiplying(p, scalar)[i-1])
         /\ \A i \in 0 .. Bits : Multiplying(p, scalar)[i] \in States
<1> DEFINE first == [result |-> Infinity, empty |-> TRUE, temp |-> p, rest |-> scalar]
           Is(f) == f = [i \in 0 .. Bits |-> IF i = 0 THEN first ELSE MultiplyBit(f[i-1])]
           step == [it \in Nat \X States |-> MultiplyBit(it[2])]
<1>1. Bits \in Nat /\ 0 \in 0 .. Bits
  BY CurveAssumption
<1>2. first \in States
  <2>1. Infinity \in Pairs
    BY CurveAssumption DEF Infinity, Pairs
  <2> QED BY <2>1 DEF States
<1>3. ASSUME NEW s \in States PROVE MultiplyBit(s) \in States
  <2>1. s.result \in Pairs /\ s.temp \in Pairs /\ s.rest \in Nat /\ s.empty \in BOOLEAN
    BY DEF States
  <2>2. PointAdd(s.result, s.temp) \in Pairs /\ PointAdd(s.temp, s.temp) \in Pairs
    BY <2>1, PointAddIsPoint
  <2>3. s.rest \div 2 \in Nat
    BY <2>1
  <2>4. (s.empty /\ ~(s.rest % 2 = 1)) \in BOOLEAN
    OBVIOUS
  <2> QED BY <2>1, <2>2, <2>3, <2>4 DEF MultiplyBit, States
<1>4. step \in [Nat \X States -> States]
  BY <1>3
<1>5. \A i \in Nat, s \in States : step[<<i, s>>] = MultiplyBit(s)
  OBVIOUS
<1> HIDE DEF step, first
<1>6. Recursive(States, Bits, first, step)
  BY <1>1, <1>2, <1>4, Recursion
<1>7. PICK f \in [0 .. Bits -> States] : f[0] = first /\ \A i \in 1 .. Bits : f[i] = step[<<i, f[i - 1]>>]
  BY <1>6 DEF Recursive
<1>8. \A i \in 0 .. Bits : f[i] = IF i = 0 THEN first ELSE MultiplyBit(f[i-1])
  <2> SUFFICES ASSUME NEW i \in 0 .. Bits, i # 0 PROVE f[i] = MultiplyBit(f[i-1])
    BY <1>7
  <2>1. i \in 1 .. Bits /\ i \in Nat /\ i - 1 \in 0 .. Bits
    BY <1>1
  <2>2. f[i - 1] \in States
    BY <2>1
  <2>3. step[<<i, f[i - 1]>>] = MultiplyBit(f[i - 1])
    BY <1>5, <2>1, <2>2
  <2> QED BY <1>7, <2>1, <2>3
<1>9. Is(f)
  BY <1>8
<1> HIDE DEF Is
<1>10. Is(CHOOSE g : Is(g))
  BY <1>9
<1>11. Multiplying(p, scalar) = CHOOSE g : Is(g)
  BY DEF Multiplying, Is, first
<1>12. Is(Multiplying(p, scalar))
  BY <1>10, <1>11
<1> DEFINE m == Multiplying(p, scalar)
           S == {i \in Nat : i \in 0 .. Bits => m[i] \in States}
<1>13. m = [i \in 0 .. Bits |-> IF i = 0 THEN first ELSE MultiplyBit(m[i-1])]
  BY <1>12 DEF Is
<1> HIDE DEF m
<1>14. m[0] = first /\ \A i \in 1 .. Bits : m[i] = MultiplyBit(m[i-1])
  BY <1>1, <1>13
<1>15. 0 \in S
  BY <1>2, <1>14
<1>16. ASSUME NEW i \in Nat, i \in S PROVE i + 1 \in S
  <2> SUFFICES ASSUME i + 1 \in 0 .. Bits PROVE m[i + 1] \in States
    OBVIOUS
  <2>1. i \in 0 .. Bits /\ i + 1 \in 1 .. Bits /\ (i + 1) - 1 = i
    BY <1>1
  <2>2. m[i] \in States
    BY <1>16, <2>1
  <2>3. m[i + 1] = MultiplyBit(m[i])
    <3>1. m[i + 1] = MultiplyBit(m[(i + 1) - 1])
      BY <1>14, <2>1
    <3> QED BY <2>1, <3>1
  <2> QED BY <1>3, <2>2, <2>3
<1> HIDE DEF S
<1>17. \A i \in Nat : i \in S
  BY <1>15, <1>16, InductionOnNat
<1>18. \A i \in 0 .. Bits : m[i] \in States
  <2>1. \A i \in 0 .. Bits : i \in Nat
    BY <1>1
  <2> QED BY <1>17, <2>1 DEF S
<1> QED BY <1>14, <1>18 DEF m, first

\* The powers, one from the one before.
LEMMA PowersDef ==
  ASSUME NEW b \in Nat \ {0}, NEW n \in Nat
  PROVE  /\ Powers(b, n)[0] = 1
         /\ \A i \in 1 .. n : Powers(b, n)[i] = b * Powers(b, n)[i-1]
         /\ \A i \in 0 .. n : Powers(b, n)[i] \in Nat \ {0}
<1> DEFINE T == Nat \ {0}
           Is(f) == f = [i \in 0 .. n |-> IF i = 0 THEN 1 ELSE b * f[i-1]]
           step == [it \in Nat \X T |-> b * it[2]]
<1>1. ASSUME NEW a \in T PROVE b * a \in T
  <2>1. 1 * a <= b * a
    BY Times
  <2> QED BY <2>1
<1>2. step \in [Nat \X T -> T]
  BY <1>1
<1>3. \A i \in Nat, a \in T : step[<<i, a>>] = b * a
  OBVIOUS
<1>4. 1 \in T
  OBVIOUS
<1> HIDE DEF step, T
<1>5. Recursive(T, n, 1, step)
  BY <1>2, <1>4, Recursion
<1>6. PICK f \in [0 .. n -> T] : f[0] = 1 /\ \A i \in 1 .. n : f[i] = step[<<i, f[i - 1]>>]
  BY <1>5 DEF Recursive
<1>7. \A i \in 0 .. n : f[i] = IF i = 0 THEN 1 ELSE b * f[i-1]
  <2> SUFFICES ASSUME NEW i \in 0 .. n, i # 0 PROVE f[i] = b * f[i-1]
    BY <1>6
  <2>1. i \in 1 .. n /\ i \in Nat /\ i - 1 \in 0 .. n
    OBVIOUS
  <2>2. f[i - 1] \in T
    BY <2>1
  <2>3. step[<<i, f[i - 1]>>] = b * f[i - 1]
    BY <1>3, <2>1, <2>2
  <2> QED BY <1>6, <2>1, <2>3
<1>8. Is(f)
  BY <1>7
<1> HIDE DEF Is
<1>9. Is(CHOOSE g : Is(g))
  BY <1>8
<1>10. Powers(b, n) = CHOOSE g : Is(g)
  BY DEF Powers, Is
<1>11. Is(Powers(b, n))
  BY <1>9, <1>10
<1> DEFINE m == Powers(b, n)
           S == {i \in Nat : i \in 0 .. n => m[i] \in T}
<1>12. m = [i \in 0 .. n |-> IF i = 0 THEN 1 ELSE b * m[i-1]]
  BY <1>11 DEF Is
<1> HIDE DEF m
<1>13. m[0] = 1 /\ \A i \in 1 .. n : m[i] = b * m[i-1]
  BY <1>12
<1>14. 0 \in S
  BY <1>4, <1>13
<1>15. ASSUME NEW i \in Nat, i \in S PROVE i + 1 \in S
  <2> SUFFICES ASSUME i + 1 \in 0 .. n PROVE m[i + 1] \in T
    OBVIOUS
  <2>1. i \in 0 .. n /\ i + 1 \in 1 .. n /\ (i + 1) - 1 = i
    OBVIOUS
  <2>2. m[i] \in T
    BY <1>15, <2>1
  <2>3. m[i + 1] = b * m[i]
    <3>1. m[i + 1] = b * m[(i + 1) - 1]
      BY <1>13, <2>1
    <3> QED BY <2>1, <3>1
  <2> QED BY <1>1, <2>2, <2>3
<1> HIDE DEF S
<1>16. \A i \in Nat : i \in S
  BY <1>14, <1>15, InductionOnNat
<1>17. \A i \in 0 .. n : m[i] \in T
  <2>1. \A i \in 0 .. n : i \in Nat
    OBVIOUS
  <2> QED BY <1>16, <2>1 DEF S
<1> QED BY <1>13, <1>17 DEF m, T

\* What the loop has made of the bits below power.
Multiplied(s, scalar, power) ==
  LET low == scalar - s.rest * power
  IN /\ 0 <= low /\ low < power
     /\ power % Order \in 1 .. Order - 1 /\ s.temp = Multiples[power % Order]
     /\ s.empty => low = 0
     /\ ~s.empty => low # 0 /\ s.result = Multiples[low]

\* A turn of the loop doubles that, and takes the bit along: the sum it makes is of two
\* multiples below the order, and the doubling never meets the neutral point, for the order is odd.
LEMMA MultiplyBitExact ==
  ASSUME NEW s \in States, NEW scalar \in 1 .. Order - 1, NEW power \in Nat \ {0},
         Multiplied(s, scalar, power)
  PROVE  Multiplied(MultiplyBit(s), scalar, 2 * power)
<1> DEFINE r == s.rest
           h == r \div 2
           e == r % 2
           low == scalar - r * power
           low2 == scalar - h * (2 * power)
           k == power % Order
           s2 == MultiplyBit(s)
<1>1. Order \in Nat \ {0} /\ Order % 2 = 1 /\ scalar \in Nat /\ scalar < Order
  BY CurveAssumption
<1>2. r \in Nat /\ h \in Nat /\ e \in {0, 1} /\ r = 2 * h + e /\ s.empty \in BOOLEAN
  BY DEF States
<1>3. /\ low \in Nat /\ low < power /\ k \in 1 .. Order - 1 /\ s.temp = Multiples[k]
      /\ s.empty => low = 0
      /\ ~s.empty => low # 0 /\ s.result = Multiples[low]
  <2>1. scalar - r * power \in Int
    BY <1>1, <1>2
  <2> QED BY <2>1 DEF Multiplied
<1>4. /\ s2.rest = h
      /\ s2.temp = PointAdd(s.temp, s.temp)
      /\ s2.empty <=> s.empty /\ e = 0
      /\ e = 0 => s2.result = s.result
      /\ e = 1 /\ s.empty => s2.result = s.temp
      /\ e = 1 /\ ~s.empty => s2.result = PointAdd(s.result, s.temp)
  <2> DEFINE set == r % 2 = 1
  <2>1. s2 = [result |-> IF ~set THEN s.result ELSE IF s.empty THEN s.temp ELSE PointAdd(s.result, s.temp),
              empty  |-> s.empty /\ ~set, temp |-> PointAdd(s.temp, s.temp), rest |-> h]
    BY DEF MultiplyBit
  <2>2. set <=> e = 1
    OBVIOUS
  <2>3. e = 1 <=> ~(e = 0)
    BY <1>2
  <2> HIDE DEF e, s2, set, h
  <2>4. s2.rest = h /\ s2.temp = PointAdd(s.temp, s.temp) /\ s2.empty = (s.empty /\ ~set)
    BY <2>1
  <2>5. s2.result = IF ~set THEN s.result ELSE IF s.empty THEN s.temp ELSE PointAdd(s.result, s.temp)
    BY <2>1
  <2> QED BY <2>2, <2>3, <2>4, <2>5
<1>5. low2 = low + e * power /\ low2 \in Nat /\ low2 < 2 * power /\ low2 <= scalar
  <2> HIDE DEF h, e
  <2>1. r * power = h * (2 * power) + e * power /\ h * (2 * power) \in Nat /\ e * power \in {0, power}
    BY <1>2
  <2> QED BY <1>1, <1>3, <2>1
<1> DEFINE q == power \div Order
<1>6. power = k + q * Order /\ q \in Int
  <2>1. Order \in Nat \ {0} /\ power \in Int
    BY <1>1
  <2>2. power \div Order \in Int /\ power = (power % Order) + (power \div Order) * Order
    BY <2>1, Remainder
  <2> QED BY <2>2
<1> HIDE DEF low, low2, k, r, h, e, s2, q
<1>7. (2 * power) % Order \in 1 .. Order - 1 /\ s2.temp = Multiples[(2 * power) % Order]
  <2>1. k + k # Order
    BY <1>1, <1>3
  <2>2. /\ PointAdd(Multiples[k], Multiples[k]) = Multiples[(k + k) % Order]
        /\ (k + k) % Order \in 1 .. Order - 1
    BY <1>3, <2>1, SumOfMultiples
  <2>3. (2 * power) % Order = (k + k) % Order
    <3> DEFINE a == 2 * power  b == k + k  c == 2 * q
    <3>1. a \in Int /\ b \in Int /\ c \in Int /\ a = b + c * Order
      BY <1>1, <1>3, <1>6
    <3> HIDE DEF a, b, c
    <3>2. a % Order = b % Order
      BY <1>1, <3>1, Congruent
    <3> QED BY <3>2 DEF a, b
  <2> QED BY <1>3, <1>4, <2>2, <2>3
<1>8. s2.empty => low2 = 0
  BY <1>2, <1>3, <1>4, <1>5
<1>9. ASSUME ~s2.empty PROVE low2 # 0 /\ s2.result = Multiples[low2]
  <2>1. CASE e = 0
    BY <1>3, <1>4, <1>5, <1>9, <2>1
  <2>2. CASE e = 1
    <3>1. low2 = low + power /\ power <= scalar /\ power \in 0 .. Order - 1
      BY <1>1, <1>3, <1>5, <2>2
    <3>2. k = power
      BY <1>1, <3>1, Small DEF k
    <3>3. CASE s.empty
      BY <1>3, <1>4, <2>2, <3>1, <3>2, <3>3
    <3>4. CASE ~s.empty
      <4>1. low \in 1 .. Order - 1 /\ low + k # Order /\ low + k = low2 /\ low2 \in 0 .. Order - 1
        BY <1>1, <1>3, <1>5, <3>1, <3>2, <3>4
      <4>2. PointAdd(Multiples[low], Multiples[k]) = Multiples[(low + k) % Order]
        BY <1>3, <4>1, SumOfMultiples
      <4>3. low2 % Order = low2
        BY <1>1, <4>1, Small
      <4> QED BY <1>3, <1>4, <2>2, <3>1, <3>4, <4>1, <4>2, <4>3
    <3> QED BY <3>3, <3>4
  <2> QED BY <1>2, <2>1, <2>2
<1>10. low2 = scalar - s2.rest * (2 * power)
  BY <1>4 DEF low2
<1> QED BY <1>5, <1>7, <1>8, <1>9, <1>10 DEF Multiplied, s2

\* The multiplication is exact for every scalar that fits its bits and is below the order.
LEMMA MultiplyExact ==
  ASSUME NEW scalar \in 1 .. Order - 1, scalar < Powers(2, Bits)[Bits]
  PROVE  PointMultiply(G, scalar) = Multiples[scalar]
<1> DEFINE m == Multiplying(G, scalar)
           power == Powers(2, Bits)
           S == {i \in Nat : i \in 0 .. Bits => Multiplied(m[i], scalar, power[i])}
<1>1. Order \in Nat \ {0} /\ Bits \in Nat /\ scalar \in Nat /\ G \in Pairs /\ Order > 1
  BY CurveAssumption, Generator DEF Points, Pairs
<1>2. /\ m[0] = [result |-> Infinity, empty |-> TRUE, temp |-> G, rest |-> scalar]
      /\ \A i \in 1 .. Bits : m[i] = MultiplyBit(m[i-1])
      /\ \A i \in 0 .. Bits : m[i] \in States
  BY <1>1, MultiplyingDef
<1>3. /\ power[0] = 1 /\ \A i \in 1 .. Bits : power[i] = 2 * power[i-1]
      /\ \A i \in 0 .. Bits : power[i] \in Nat \ {0}
  BY <1>1, PowersDef
<1> HIDE DEF m, power
<1>4. 0 \in S
  <2>1. m[0].empty /\ m[0].temp = G /\ m[0].rest = scalar
    BY <1>2
  <2>2. scalar - scalar * 1 = 0 /\ 1 % Order = 1 /\ 1 \in 1 .. Order - 1
    BY <1>1, Small
  <2>3. Multiplied(m[0], scalar, 1)
    BY <2>1, <2>2, Generator DEF Multiplied
  <2> QED BY <1>3, <2>3
<1>5. ASSUME NEW i \in Nat, i \in S PROVE i + 1 \in S
  <2> SUFFICES ASSUME i + 1 \in 0 .. Bits PROVE Multiplied(m[i + 1], scalar, power[i + 1])
    OBVIOUS
  <2>1. i \in 0 .. Bits /\ i + 1 \in 1 .. Bits /\ (i + 1) - 1 = i
    BY <1>1
  <2>2. Multiplied(m[i], scalar, power[i]) /\ m[i] \in States /\ power[i] \in Nat \ {0}
    BY <1>2, <1>3, <1>5, <2>1
  <2>3. m[i + 1] = MultiplyBit(m[(i + 1) - 1]) /\ power[i + 1] = 2 * power[(i + 1) - 1]
    BY <1>2, <1>3, <2>1
  <2>4. Multiplied(MultiplyBit(m[i]), scalar, 2 * power[i])
    BY <2>2, MultiplyBitExact
  <2> QED BY <2>1, <2>3, <2>4
<1> HIDE DEF S
<1>6. \A i \in Nat : i \in S
  BY <1>4, <1>5, InductionOnNat
<1>7. Multiplied(m[Bits], scalar, power[Bits]) /\ m[Bits].rest \in Nat /\ power[Bits] \in Nat \ {0}
  <2>1. Bits \in 0 .. Bits
    BY <1>1
  <2>2. Multiplied(m[Bits], scalar, power[Bits]) /\ m[Bits] \in States /\ power[Bits] \in Nat \ {0}
    BY <1>1, <1>2, <1>3, <1>6, <2>1 DEF S
  <2> QED BY <2>2 DEF States
<1>8. m[Bits].rest = 0
  <2> DEFINE r == m[Bits].rest  x0 == power[Bits]
  <2>1. r \in Nat /\ x0 \in Nat \ {0} /\ 0 <= scalar - r * x0 /\ scalar < x0
    <3>1. scalar < x0
      BY DEF power
    <3> QED BY <1>7, <3>1 DEF Multiplied
  <2> HIDE DEF r, x0
  <2>2. r * x0 \in Nat /\ r * x0 < 1 * x0
    BY <1>1, <2>1
  <2>3. r < 1
    BY <2>1, <2>2, Cancel
  <2> QED BY <2>1, <2>3 DEF r
<1>9. scalar - m[Bits].rest * power[Bits] = scalar
  BY <1>1, <1>7, <1>8
<1>10. m[Bits].result = Multiples[scalar]
  BY <1>1, <1>7, <1>9 DEF Multiplied
<1> QED BY <1>10 DEF PointMultiply, m

-----------------------------------------------------------------------------
(* The number of a key. *)

\* The keys.
Keys == [1 .. Bytes -> 0 .. ByteBase - 1]

LEMMA Sizes ==
  /\ ByteBase \in Nat /\ ByteBase >= 2 /\ Bytes \in Nat \ {0} /\ Iterations \in Nat
  /\ Batch \in Nat \ {0} /\ Order \in Nat \ {0} /\ Bits \in Nat
BY CurveAssumption, WalkAssumption

\* The numbers of a key, one from the one before.
LEMMA NumbersDef ==
  ASSUME NEW key \in Keys
  PROVE  /\ Numbers(key)[0] = 0
         /\ \A i \in 1 .. Bytes : Numbers(key)[i] = Numbers(key)[i-1] * ByteBase + key[i]
         /\ \A i \in 0 .. Bytes : Numbers(key)[i] \in Nat
<1> DEFINE Is(f) == f = [i \in 0 .. Bytes |-> IF i = 0 THEN 0 ELSE f[i-1] * ByteBase + key[i]]
           step == [it \in Nat \X Nat |-> IF it[1] \in 1 .. Bytes THEN it[2] * ByteBase + key[it[1]] ELSE 0]
<1>1. ASSUME NEW i \in 1 .. Bytes, NEW a \in Nat PROVE a * ByteBase + key[i] \in Nat
  <2>1. a * ByteBase \in Nat /\ key[i] \in Nat
    BY Sizes DEF Keys
  <2> QED BY <2>1
<1>2. step \in [Nat \X Nat -> Nat]
  BY <1>1
<1>3. \A i \in Nat, a \in Nat : i \in 1 .. Bytes => step[<<i, a>>] = a * ByteBase + key[i]
  OBVIOUS
<1> HIDE DEF step
<1>4. Recursive(Nat, Bytes, 0, step)
  BY <1>2, Recursion, Sizes
<1>5. PICK f \in [0 .. Bytes -> Nat] : f[0] = 0 /\ \A i \in 1 .. Bytes : f[i] = step[<<i, f[i - 1]>>]
  BY <1>4 DEF Recursive
<1>6. \A i \in 0 .. Bytes : f[i] = IF i = 0 THEN 0 ELSE f[i-1] * ByteBase + key[i]
  <2> SUFFICES ASSUME NEW i \in 0 .. Bytes, i # 0 PROVE f[i] = f[i-1] * ByteBase + key[i]
    BY <1>5
  <2>1. i \in 1 .. Bytes /\ i \in Nat /\ i - 1 \in 0 .. Bytes
    BY Sizes
  <2>2. f[i - 1] \in Nat
    BY <2>1
  <2>3. step[<<i, f[i - 1]>>] = f[i - 1] * ByteBase + key[i]
    BY <1>3, <2>1, <2>2
  <2>4. f[i] = step[<<i, f[i - 1]>>]
    BY <1>5, <2>1
  <2> QED BY <2>3, <2>4
<1>7. Is(f)
  BY <1>6
<1> HIDE DEF Is
<1>8. Is(CHOOSE g : Is(g))
  BY <1>7
<1>9. Numbers(key) = CHOOSE g : Is(g)
  BY DEF Numbers, Is
<1>10. Is(Numbers(key))
  BY <1>8, <1>9
<1> DEFINE m == Numbers(key)
           S == {i \in Nat : i \in 0 .. Bytes => m[i] \in Nat}
<1>11. m = [i \in 0 .. Bytes |-> IF i = 0 THEN 0 ELSE m[i-1] * ByteBase + key[i]]
  BY <1>10 DEF Is
<1> HIDE DEF m
<1>12. m[0] = 0 /\ \A i \in 1 .. Bytes : m[i] = m[i-1] * ByteBase + key[i]
  BY <1>11, Sizes
<1>13. 0 \in S
  BY <1>12
<1>14. ASSUME NEW i \in Nat, i \in S PROVE i + 1 \in S
  <2> SUFFICES ASSUME i + 1 \in 0 .. Bytes PROVE m[i + 1] \in Nat
    OBVIOUS
  <2>1. i \in 0 .. Bytes /\ i + 1 \in 1 .. Bytes /\ (i + 1) - 1 = i
    BY Sizes
  <2>2. m[i] \in Nat
    BY <1>14, <2>1
  <2>3. m[i + 1] = m[i] * ByteBase + key[i + 1]
    <3>1. m[i + 1] = m[(i + 1) - 1] * ByteBase + key[i + 1]
      BY <1>12, <2>1
    <3> QED BY <2>1, <3>1
  <2> QED BY <1>1, <2>1, <2>2, <2>3
<1> HIDE DEF S
<1>15. \A i \in Nat : i \in S
  BY <1>13, <1>14, InductionOnNat
<1>16. \A i \in 0 .. Bytes : m[i] \in Nat
  <2>1. \A i \in 0 .. Bytes : i \in Nat
    BY Sizes
  <2> QED BY <1>15, <2>1 DEF S
<1> QED BY <1>12, <1>16 DEF m

\* Induction along a key.
LEMMA AlongKey ==
  ASSUME NEW S, NEW k \in Nat, k \in S, \A i \in k .. Bytes - 1 : i \in S => i + 1 \in S
  PROVE  \A i \in k .. Bytes : i \in S
<1> DEFINE R == {n \in Nat : n \in k .. Bytes => n \in S}
<1>1. 0 \in R
  <2> SUFFICES ASSUME 0 \in k .. Bytes PROVE 0 \in S
    OBVIOUS
  <2>1. k = 0
    BY Sizes
  <2> QED BY <2>1
<1>2. ASSUME NEW n \in Nat, n \in R PROVE n + 1 \in R
  <2> SUFFICES ASSUME n + 1 \in k .. Bytes PROVE n + 1 \in S
    OBVIOUS
  <2>1. CASE n + 1 = k
    BY <2>1
  <2>2. CASE n + 1 # k
    <3>1. n \in k .. Bytes /\ n \in k .. Bytes - 1
      BY <2>2, Sizes
    <3> QED BY <1>2, <3>1
  <2> QED BY <2>1, <2>2
<1> HIDE DEF R
<1>3. \A n \in Nat : n \in R
  BY <1>1, <1>2, InductionOnNat
<1>4. \A i \in k .. Bytes : i \in Nat
  BY Sizes
<1> QED BY <1>3, <1>4 DEF R

\* The number of a key that does not start with the last value of a byte.
LEMMA FirstByteBounds ==
  ASSUME NEW key \in Keys, key[1] # ByteBase - 1
  PROVE  /\ Number(key) \in Nat
         /\ Number(key) < (ByteBase - 1) * Powers(ByteBase, Bytes)[Bytes - 1]
<1> DEFINE b == ByteBase
           m == Numbers(key)
           power == Powers(b, Bytes)
           S == {i \in 1 .. Bytes : m[i] < (b - 1) * power[i - 1]}
<1>1. /\ b \in Nat /\ b >= 2 /\ Bytes \in Nat \ {0}
      /\ 1 \in 1 .. Bytes /\ 0 \in 0 .. Bytes /\ Bytes \in 1 .. Bytes /\ Bytes \in 0 .. Bytes
  BY Sizes
<1>2. /\ m[0] = 0 /\ \A i \in 1 .. Bytes : m[i] = m[i-1] * b + key[i]
      /\ \A i \in 0 .. Bytes : m[i] \in Nat
  BY NumbersDef
<1>3. /\ power[0] = 1 /\ \A i \in 1 .. Bytes : power[i] = b * power[i-1]
      /\ \A i \in 0 .. Bytes : power[i] \in Nat \ {0}
  BY <1>1, PowersDef
<1>4. \A i \in 1 .. Bytes : key[i] \in 0 .. b - 1
  BY DEF Keys
<1> HIDE DEF m, power, b
<1>5. 1 \in S
  <2>1. m[1] = m[1 - 1] * b + key[1] /\ key[1] \in 0 .. b - 1
    BY <1>1, <1>2, <1>4
  <2>2. 1 - 1 = 0 /\ 0 * b = 0 /\ (b - 1) * 1 = b - 1
    BY <1>1
  <2>3. m[1] = key[1] /\ key[1] < b - 1
    BY <1>1, <1>2, <2>1, <2>2 DEF b
  <2> QED BY <1>1, <1>3, <2>2, <2>3
<1>6. ASSUME NEW i \in 1 .. Bytes - 1, i \in S PROVE i + 1 \in S
  <2>1. /\ i \in 1 .. Bytes /\ i + 1 \in 1 .. Bytes /\ (i + 1) - 1 = i /\ i \in 0 .. Bytes
        /\ i - 1 \in 0 .. Bytes
    BY <1>1
  <2> DEFINE a == m[i]  unit == power[i-1]  c == key[i+1]
  <2>2. a \in Nat /\ unit \in Nat /\ c \in 0 .. b - 1 /\ a < (b - 1) * unit
    BY <1>2, <1>3, <1>4, <1>6, <2>1
  <2>3. m[i+1] = a * b + c /\ power[i] = b * unit
    <3>1. m[i+1] = m[(i + 1) - 1] * b + key[i+1]
      BY <1>2, <2>1
    <3> QED BY <1>3, <2>1, <3>1
  <2> HIDE DEF a, unit, c
  <2>4. (a + 1) * b <= ((b - 1) * unit) * b
    <3>1. (b - 1) * unit \in Nat /\ a + 1 <= (b - 1) * unit
      BY <1>1, <2>2
    <3> QED BY <1>1, <2>2, <3>1, Times
  <2>5. ((b - 1) * unit) * b = (b - 1) * (b * unit) /\ (a + 1) * b = a * b + b /\ a * b \in Nat
    BY <1>1, <2>2
  <2>6. a * b + c < (b - 1) * (b * unit)
    <3> DEFINE x0 == (b - 1) * (b * unit)  y0 == a * b
    <3>1. x0 \in Int /\ y0 \in Nat /\ y0 + b <= x0
      BY <1>1, <2>2, <2>4, <2>5
    <3> HIDE DEF x0, y0
    <3>2. y0 + c < x0
      BY <1>1, <2>2, <3>1
    <3> QED BY <3>2 DEF x0, y0
  <2> QED BY <2>1, <2>3, <2>6
<1>7. \A i \in 1 .. Bytes : i \in S
  <2> HIDE DEF S
  <2> QED BY <1>5, <1>6, AlongKey
<1>8. Bytes \in S
  BY <1>1, <1>7
<1> QED BY <1>1, <1>2, <1>8 DEF Number, m, power, b

\* A key whose bytes are all at their last value.
LEMMA LastKey ==
  ASSUME NEW key \in Keys, \A i \in 1 .. Bytes : key[i] = ByteBase - 1
  PROVE  Number(key) = Powers(ByteBase, Bytes)[Bytes] - 1
<1> DEFINE b == ByteBase
           m == Numbers(key)
           power == Powers(b, Bytes)
           S == {i \in 0 .. Bytes : m[i] = power[i] - 1}
<1>1. b \in Nat /\ b >= 2 /\ Bytes \in Nat \ {0} /\ 0 \in 0 .. Bytes /\ Bytes \in 0 .. Bytes
  BY Sizes
<1>2. /\ m[0] = 0 /\ \A i \in 1 .. Bytes : m[i] = m[i-1] * b + key[i]
      /\ \A i \in 0 .. Bytes : m[i] \in Nat
  BY NumbersDef
<1>3. /\ power[0] = 1 /\ \A i \in 1 .. Bytes : power[i] = b * power[i-1]
      /\ \A i \in 0 .. Bytes : power[i] \in Nat \ {0}
  BY <1>1, PowersDef
<1>4. \A i \in 1 .. Bytes : key[i] = b - 1
  OBVIOUS
<1> HIDE DEF m, power, b
<1>5. 0 \in S
  BY <1>1, <1>2, <1>3
<1>6. ASSUME NEW i \in 0 .. Bytes - 1, i \in S PROVE i + 1 \in S
  <2>1. i + 1 \in 1 .. Bytes /\ (i + 1) - 1 = i /\ i \in 0 .. Bytes /\ i + 1 \in 0 .. Bytes
    BY <1>1
  <2> DEFINE unit == power[i]
  <2>2. unit \in Nat /\ m[i] = unit - 1
    BY <1>3, <1>6, <2>1
  <2>3. m[i+1] = (unit - 1) * b + (b - 1) /\ power[i+1] = b * unit
    <3>1. m[i+1] = m[(i + 1) - 1] * b + key[i+1] /\ power[i+1] = b * power[(i + 1) - 1]
      BY <1>2, <1>3, <2>1
    <3> QED BY <1>4, <2>1, <2>2, <3>1
  <2> HIDE DEF unit
  <2>4. (unit - 1) * b + (b - 1) = b * unit - 1
    BY <1>1, <2>2
  <2> QED BY <2>1, <2>3, <2>4
<1>7. \A i \in 0 .. Bytes : i \in S
  <2> HIDE DEF S
  <2>1. \A i \in 0 .. Bytes - 1 : i \in S => i + 1 \in S
    BY <1>6
  <2> QED BY <1>5, <2>1, AlongKey
<1>8. Bytes \in S
  BY <1>1, <1>7
<1> QED BY <1>8 DEF Number, m, power, b

\* The increment is the next number, unless every byte is at its last value.
LEMMA IncrementExact ==
  ASSUME NEW key \in Keys, \E i \in 1 .. Bytes : key[i] # ByteBase - 1
  PROVE  Incremented(key) \in Keys /\ Number(Incremented(key)) = Number(key) + 1
<1> DEFINE b == ByteBase
           next == Incremented(key)
           m == Numbers(key)
           sum == Numbers(next)
           Carries(i) == \A j \in i + 1 .. Bytes : key[j] = b - 1
           S == {i \in 0 .. Bytes : sum[i] = m[i] + (IF Carries(i) THEN 1 ELSE 0)}
<1>1. b \in Nat /\ b >= 2 /\ Bytes \in Nat \ {0} /\ 0 \in 0 .. Bytes /\ Bytes \in 0 .. Bytes
  BY Sizes
<1>2. \A i \in 1 .. Bytes : key[i] \in 0 .. b - 1
  BY DEF Keys
<1>3. next = [i \in 1 .. Bytes |-> IF Carries(i) THEN (key[i] + 1) % b ELSE key[i]]
  BY DEF Incremented
<1> HIDE DEF b, next, Carries
<1>4. \A i \in 1 .. Bytes : IF Carries(i) THEN next[i] = (IF key[i] = b - 1 THEN 0 ELSE key[i] + 1)
                                          ELSE next[i] = key[i]
  <2> SUFFICES ASSUME NEW i \in 1 .. Bytes, Carries(i)
               PROVE  (key[i] + 1) % b = IF key[i] = b - 1 THEN 0 ELSE key[i] + 1
    BY <1>3
  <2>1. CASE key[i] = b - 1
    <3>1. key[i] + 1 = 0 + b /\ (0 + b) % b = 0
      BY <1>1, <2>1, Wrapped
    <3> QED BY <2>1, <3>1
  <2>2. CASE key[i] # b - 1
    <3>1. key[i] + 1 \in 0 .. b - 1 /\ b \in Nat \ {0}
      BY <1>1, <1>2, <2>2
    <3> QED BY <2>2, <3>1, Small
  <2> QED BY <2>1, <2>2
<1>5. next \in Keys
  <2>1. \A i \in 1 .. Bytes : next[i] \in 0 .. b - 1
    BY <1>1, <1>2, <1>4
  <2>2. next = [i \in 1 .. Bytes |-> next[i]]
    BY <1>3
  <2> QED BY <2>1, <2>2 DEF Keys, b
<1>6. /\ m[0] = 0 /\ \A i \in 1 .. Bytes : m[i] = m[i-1] * b + key[i]
      /\ \A i \in 0 .. Bytes : m[i] \in Nat
  BY NumbersDef DEF b
<1>7. /\ sum[0] = 0 /\ \A i \in 1 .. Bytes : sum[i] = sum[i-1] * b + next[i]
      /\ \A i \in 0 .. Bytes : sum[i] \in Nat
  BY <1>5, NumbersDef DEF b
<1>8. \A i \in 0 .. Bytes - 1 : Carries(i) <=> Carries(i + 1) /\ key[i + 1] = b - 1
  <2> SUFFICES ASSUME NEW i \in 0 .. Bytes - 1
               PROVE  Carries(i) <=> Carries(i + 1) /\ key[i + 1] = b - 1
    OBVIOUS
  <2>1. \A j : j \in i + 1 .. Bytes <=> j = i + 1 \/ j \in (i + 1) + 1 .. Bytes
    BY <1>1
  <2> QED BY <2>1 DEF Carries
<1>9. Carries(Bytes) /\ ~Carries(0)
  <2>1. \A j \in Bytes + 1 .. Bytes : FALSE
    BY <1>1
  <2>2. ~Carries(0)
    <3>1. 0 + 1 = 1
      OBVIOUS
    <3> QED BY <3>1 DEF Carries, b
  <2> QED BY <2>1, <2>2 DEF Carries
<1> HIDE DEF m, sum
<1>10. 0 \in S
  BY <1>1, <1>6, <1>7, <1>9
<1>11. ASSUME NEW i \in 0 .. Bytes - 1, i \in S PROVE i + 1 \in S
  <2>1. i + 1 \in 1 .. Bytes /\ (i + 1) - 1 = i /\ i \in 0 .. Bytes /\ i + 1 \in 0 .. Bytes
    BY <1>1
  <2> DEFINE a == m[i]  c == key[i+1]  n == next[i+1]
  <2>2. a \in Nat /\ c \in 0 .. b - 1 /\ sum[i] = a + (IF Carries(i) THEN 1 ELSE 0)
    BY <1>2, <1>6, <1>11, <2>1
  <2>3. m[i+1] = a * b + c /\ sum[i+1] = sum[i] * b + n
    <3>1. m[i+1] = m[(i + 1) - 1] * b + key[i+1] /\ sum[i+1] = sum[(i + 1) - 1] * b + next[i+1]
      BY <1>6, <1>7, <2>1
    <3> QED BY <2>1, <3>1
  <2>4. IF Carries(i+1) THEN n = (IF c = b - 1 THEN 0 ELSE c + 1) ELSE n = c
    BY <1>4, <2>1
  <2>5. Carries(i) <=> Carries(i + 1) /\ c = b - 1
    BY <1>8
  <2> HIDE DEF a, c, n
  <2>6. (a + 1) * b = a * b + b /\ a * b \in Nat /\ a + 0 = a
    BY <1>1, <2>2
  <2>7. CASE Carries(i + 1) /\ c = b - 1
    <3>1. sum[i] = a + 1 /\ n = 0
      BY <2>2, <2>4, <2>5, <2>7
    <3>2. sum[i+1] = a * b + c + 1
      BY <1>1, <2>3, <2>6, <2>7, <3>1
    <3> QED BY <2>1, <2>3, <2>7, <3>2
  <2>8. CASE Carries(i + 1) /\ c # b - 1
    <3>1. sum[i] = a /\ n = c + 1
      BY <2>2, <2>4, <2>5, <2>6, <2>8
    <3>2. sum[i+1] = a * b + c + 1
      BY <1>1, <2>2, <2>3, <2>6, <3>1
    <3> QED BY <2>1, <2>3, <2>8, <3>2
  <2>9. CASE ~Carries(i + 1)
    <3>1. sum[i] = a /\ n = c
      BY <2>2, <2>4, <2>5, <2>6, <2>9
    <3>2. sum[i+1] = a * b + c + 0
      BY <1>1, <2>2, <2>3, <2>6, <3>1
    <3> QED BY <2>1, <2>3, <2>9, <3>2
  <2> QED BY <2>7, <2>8, <2>9
<1>12. \A i \in 0 .. Bytes : i \in S
  <2> HIDE DEF S
  <2>1. \A i \in 0 .. Bytes - 1 : i \in S => i + 1 \in S
    BY <1>11
  <2> QED BY <1>10, <2>1, AlongKey
<1>13. sum[Bytes] = m[Bytes] + 1
  BY <1>1, <1>9, <1>12
<1> QED BY <1>5, <1>13 DEF Number, m, sum, next

-----------------------------------------------------------------------------
(* The walks. *)

\* Numbers below this one do not start with the last value of a byte.
TopOnes == (ByteBase - 1) * Powers(ByteBase, Bytes)[Bytes - 1]

\* The number under which a key is drawn, in its bounds.
LEMMA TopOnesBounds ==
  /\ TopOnes \in Nat /\ TopOnes + Iterations + Batch < Order
  /\ TopOnes <= Powers(2, Bits)[Bits]
  /\ TopOnes + Iterations <= Powers(ByteBase, Bytes)[Bytes]
<1> DEFINE b == ByteBase
           power == Powers(b, Bytes)
           unit == power[Bytes - 1]
<1>1. b \in Nat /\ b >= 2 /\ Bytes \in 1 .. Bytes /\ Bytes - 1 \in 0 .. Bytes /\ Bytes \in Nat
  BY Sizes
<1>2. power[Bytes] = b * unit /\ unit \in Nat
  BY <1>1, PowersDef
<1> HIDE DEF b
<1>3. power[Bytes] = Powers(2, Bits)[Bits] /\ Iterations <= unit /\ Iterations \in Nat
      /\ (b - 1) * unit + Iterations + Batch < Order
  BY WalkAssumption DEF b
<1> HIDE DEF unit, power
<1>4. (b - 1) * unit + unit = b * unit /\ (b - 1) * unit \in Nat
  BY <1>1, <1>2
<1> DEFINE top == (b - 1) * unit
<1>5. top \in Nat /\ top + unit = power[Bytes] /\ top + Iterations + Batch < Order
  BY <1>2, <1>3, <1>4
<1>6. TopOnes = top
  BY DEF TopOnes, power, unit, b
<1> HIDE DEF top
<1>7. top <= power[Bytes] /\ top + Iterations <= power[Bytes]
  BY <1>2, <1>3, <1>5
<1>8. power[Bytes] = Powers(ByteBase, Bytes)[Bytes]
  BY DEF power, b
<1> QED BY <1>3, <1>5, <1>6, <1>7, <1>8

\* What a GPU walk keeps: how far the key can have gone, and which multiples of the
\* generator the batch holds while it is not used up.
GpuPaired ==
  /\ private \in Keys /\ Number(private) \in 1 .. TopOnes - 1 + iter
  /\ public = Multiples[Number(private)]
  /\ iter % Batch # 0 =>
       \A j \in 1 .. Batch : batch[j] = Multiples[Number(private) - (iter % Batch) + j]

\* What a CPU walk keeps.
CpuPaired == private \in 1 .. Order - 1 /\ public = Multiples[private]

\* What both keep.
WInv ==
  /\ walk \in {"gpu", "cpu"} /\ iter \in 0 .. Iterations
  /\ walk = "gpu" => GpuPaired
  /\ walk = "cpu" => CpuPaired

\* A key that is drawn, or given, starts its walk paired.
LEMMA InitPaired == WalkInit => WInv
<1> SUFFICES ASSUME WalkInit PROVE WInv
  OBVIOUS
<1>1. iter = 0 /\ 0 \in 0 .. Iterations
  BY Sizes DEF WalkInit
<1>2. CASE GpuStart
  <2>1. private \in Keys /\ Number(private) # 0 /\ private[1] # ByteBase - 1
    BY <1>2 DEF GpuStart, Keys
  <2> DEFINE n == Number(private)
  <2>2. n \in Nat /\ n < TopOnes
    BY <2>1, FirstByteBounds DEF TopOnes
  <2>3. n # 0
    BY <2>1
  <2>4. public = PointMultiply(G, n)
    BY <1>2 DEF GpuStart
  <2> HIDE DEF n
  <2>5. n \in 1 .. Order - 1 /\ n < Powers(2, Bits)[Bits] /\ n \in 1 .. TopOnes - 1 + 0
    <3>1. n < Powers(2, Bits)[Bits]
      <4>1. Powers(2, Bits)[Bits] \in Int
        <5>1. Bits \in 0 .. Bits /\ Bits \in Nat /\ 2 \in Nat \ {0}
          BY Sizes
        <5> QED BY <5>1, PowersDef
      <4> QED BY <2>2, <4>1, TopOnesBounds
    <3> QED BY <2>2, <2>3, <3>1, TopOnesBounds, Sizes
  <2>6. public = Multiples[n]
    BY <2>4, <2>5, MultiplyExact
  <2>7. 0 % Batch = 0
    BY Sizes
  <2>8. GpuPaired
    BY <1>1, <2>1, <2>5, <2>6, <2>7 DEF GpuPaired, n
  <2> QED BY <1>1, <1>2, <2>8 DEF GpuStart, WInv
<1>3. CASE CpuStart
  BY <1>1, <1>3 DEF CpuStart, WInv, CpuPaired
<1> QED BY <1>2, <1>3 DEF WalkInit

\* A candidate on the GPU: the increment and the next point of a batch stay together.
LEMMA GpuNextPaired == WInv /\ GpuNext => WInv'
<1> SUFFICES ASSUME WInv, GpuNext PROVE WInv'
  OBVIOUS
<1> DEFINE n == Number(private)
           r == iter % Batch
           q == iter' % Batch
<1>1. /\ walk = "gpu" /\ walk' = "gpu" /\ iter < Iterations /\ iter' = iter + 1
      /\ private' = Incremented(private)
      /\ batch' = (IF r = 0 THEN AddBatch(public) ELSE batch)
      /\ public' = batch'[r + 1]
  BY DEF GpuNext
<1>2. GpuPaired /\ iter \in 0 .. Iterations
  BY <1>1 DEF WInv
<1>3. private \in Keys /\ n \in 1 .. TopOnes - 1 + iter /\ public = Multiples[n]
  BY <1>2 DEF GpuPaired
<1>4. ASSUME r # 0, NEW j \in 1 .. Batch PROVE batch[j] = Multiples[n - r + j]
  BY <1>2, <1>4 DEF GpuPaired
<1>5. /\ Batch \in Nat \ {0} /\ Iterations \in Nat /\ TopOnes \in Nat /\ Order \in Nat
      /\ iter \in Nat /\ iter + 1 \in 0 .. Iterations
  BY <1>1, <1>2, Sizes, TopOnesBounds
<1>6. r \in 0 .. Batch - 1 /\ q = (IF r + 1 = Batch THEN 0 ELSE r + 1)
  <2>1. r \in 0 .. Batch - 1 /\ iter = Batch * (iter \div Batch) + r /\ iter \div Batch \in Int
    BY <1>5
  <2> DEFINE k == iter \div Batch
             o == IF r + 1 = Batch THEN 0 ELSE r + 1
             e == IF r + 1 = Batch THEN k + 1 ELSE k
  <2>2. k \in Int /\ e \in Int /\ o \in 0 .. Batch - 1 /\ iter = Batch * k + r
    BY <1>5, <2>1
  <2> HIDE DEF k, r
  <2>3. Batch * (k + 1) = Batch * k + Batch /\ Batch * k \in Int
    BY <1>5, <2>2
  <2>4. iter + 1 = e * Batch + o
    <3>1. Batch * k = k * Batch /\ Batch * (k + 1) = (k + 1) * Batch
      BY <1>5, <2>2
    <3> QED BY <1>5, <2>1, <2>2, <2>3, <3>1
  <2> DEFINE next == iter + 1
  <2>5. next \in Int /\ next = o + e * Batch /\ o \in Int
    BY <1>5, <2>2, <2>4
  <2> HIDE DEF e, o, next
  <2>6. next % Batch = o % Batch
    BY <1>5, <2>2, <2>5, Congruent
  <2>7. o % Batch = o
    BY <1>5, <2>2, Small
  <2> QED BY <1>1, <2>1, <2>6, <2>7 DEF o, next, r
<1>7. \E i \in 1 .. Bytes : private[i] # ByteBase - 1
  <2> SUFFICES ASSUME \A i \in 1 .. Bytes : private[i] = ByteBase - 1 PROVE FALSE
    OBVIOUS
  <2>1. n = Powers(ByteBase, Bytes)[Bytes] - 1
    BY <1>3, LastKey
  <2>2. Powers(ByteBase, Bytes)[Bytes] \in Int
    <3>1. Bytes \in 0 .. Bytes /\ Bytes \in Nat /\ ByteBase \in Nat \ {0}
      BY Sizes
    <3> QED BY <3>1, PowersDef
  <2> HIDE DEF n
  <2> QED BY <1>1, <1>3, <1>5, <2>1, <2>2, TopOnesBounds
<1>8. private' \in Keys /\ Number(private') = n + 1
  BY <1>1, <1>3, <1>7, IncrementExact
<1> HIDE DEF n, r, q
<1>9. n \in 1 .. Order - 1 /\ n + Batch < Order /\ n + 1 \in 1 .. TopOnes - 1 + (iter + 1)
  BY <1>1, <1>3, <1>5, TopOnesBounds
<1>10. \A j \in 1 .. Batch : batch'[j] = Multiples[n - r + j]
  <2>1. CASE r = 0
    <3>1. batch' = [j \in 1 .. Batch |-> Multiples[n + j]]
      BY <1>1, <1>3, <1>9, <2>1, BatchExact
    <3>2. \A j \in 1 .. Batch : n - r + j = n + j
      BY <1>5, <1>9, <2>1
    <3> QED BY <3>1, <3>2
  <2>2. CASE r # 0
    BY <1>1, <1>4, <2>2
  <2> QED BY <2>1, <2>2
<1>11. public' = Multiples[n + 1]
  <2>1. r + 1 \in 1 .. Batch /\ n - r + (r + 1) = n + 1
    BY <1>5, <1>6, <1>9
  <2>2. batch'[r + 1] = Multiples[n - r + (r + 1)]
    BY <1>10, <2>1
  <2> QED BY <1>1, <2>1, <2>2
<1>12. ASSUME q # 0, NEW j \in 1 .. Batch PROVE batch'[j] = Multiples[(n + 1) - q + j]
  <2>1. (n + 1) - q + j = n - r + j
    BY <1>5, <1>6, <1>9, <1>12
  <2> QED BY <1>10, <2>1
<1>13. GpuPaired'
  <2>1. Number(private)' = n + 1 /\ iter' = iter + 1
    BY <1>1, <1>8
  <2>2. TopOnes' = TopOnes
    BY DEF TopOnes
  <2>3. Multiples[Number(private)]' = Multiples[n + 1]
    BY <2>1
  <2>4. (iter % Batch # 0)' =>
          \A j \in 1 .. Batch : batch'[j] = Multiples[(Number(private))' - (iter % Batch)' + j]
    BY <1>12, <2>1 DEF q
  <2>5. (private \in Keys /\ Number(private) \in 1 .. TopOnes - 1 + iter)'
    BY <1>8, <1>9, <2>1, <2>2 DEF Keys
  <2> QED BY <1>11, <2>3, <2>4, <2>5 DEF GpuPaired
<1> QED BY <1>1, <1>5, <1>13 DEF WInv

\* A candidate on the CPU, at the end of the order too.
LEMMA CpuNextPaired == WInv /\ CpuNext => WInv'
<1> SUFFICES ASSUME WInv, CpuNext PROVE WInv'
  OBVIOUS
<1>1. /\ walk = "cpu" /\ walk' = "cpu" /\ iter + 1 \in 0 .. Iterations /\ iter' = iter + 1
      /\ private \in 1 .. Order - 1 /\ public = Multiples[private] /\ Order \in Nat \ {0}
  BY Sizes DEF CpuNext, WInv, CpuPaired
<1>2. CASE private + 1 = Order
  BY <1>1, <1>2, Generator DEF CpuNext, WInv, CpuPaired
<1>3. CASE private + 1 # Order
  <2>1. private' = private + 1 /\ public' = Plus(Multiples[private], Multiples[1])
    BY <1>1, <1>3, Generator DEF CpuNext
  <2>2. private \in 0 .. Order - 1 /\ 1 \in 0 .. Order - 1 /\ private + 1 \in 1 .. Order - 1
        /\ private + 1 \in 0 .. Order - 1
    BY <1>1, <1>3
  <2>3. public' = Multiples[(private + 1) % Order]
    BY <2>1, <2>2, GroupAssumption
  <2>4. (private + 1) % Order = private + 1
    BY <1>1, <2>2, Small
  <2> QED BY <1>1, <2>1, <2>2, <2>3, <2>4 DEF WInv, CpuPaired
<1> QED BY <1>2, <1>3

\* Every step.
LEMMA WalkNextPaired == WInv /\ [WalkNext]_vars => WInv'
<1> SUFFICES ASSUME WInv, [WalkNext]_vars PROVE WInv'
  OBVIOUS
<1>1. CASE UNCHANGED vars
  <2>1. UNCHANGED <<walk, private, public, batch, iter>>
    BY <1>1 DEF vars
  <2> QED BY <2>1 DEF WInv, GpuPaired, CpuPaired, Number, Numbers, Keys, TopOnes
<1> QED BY <1>1, GpuNextPaired, CpuNextPaired DEF WalkNext, Finished

\* What is kept is enough.
LEMMA WInvPaired == WInv => Paired
<1> SUFFICES ASSUME WInv PROVE Paired
  OBVIOUS
<1>1. CASE walk = "gpu"
  <2> DEFINE n == Number(private)
  <2>1. n \in 1 .. TopOnes - 1 + iter /\ public = Multiples[n] /\ iter \in 0 .. Iterations
    BY <1>1 DEF WInv, GpuPaired
  <2> HIDE DEF n
  <2>2. n \in 1 .. Order - Batch - 1
    BY <2>1, TopOnesBounds, Sizes
  <2> QED BY <1>1, <2>1, <2>2 DEF Paired, n
<1>2. CASE walk = "cpu"
  BY <1>2 DEF WInv, CpuPaired, Paired
<1> QED BY <1>1, <1>2 DEF WInv

\* Every walk, alone, pairs the keys.
THEOREM WalkPaired == WalkSpec => []Paired
<1>1. WalkInit => WInv
  BY InitPaired
<1>2. WInv /\ [WalkNext]_vars => WInv'
  BY WalkNextPaired
<1>3. WInv => Paired
  BY WInvPaired
<1> QED BY <1>1, <1>2, <1>3, PTL DEF WalkSpec

\* So does a walk in the run that checks it.
THEOREM WalksKeepPaired == Spec => []WalksPaired
<1> DEFINE SInv == part = "walk" => WInv
<1>1. Init => SInv
  BY InitPaired DEF Init
<1>2. SInv /\ [Next]_<<part, x, y, FieldVars, EuclidVars, vars>> => SInv'
  <2> SUFFICES ASSUME SInv, [Next]_<<part, x, y, FieldVars, EuclidVars, vars>>, part' = "walk"
               PROVE  WInv'
    OBVIOUS
  <2>1. part = "walk" /\ [WalkNext]_vars
    BY DEF Next
  <2> QED BY <2>1, WalkNextPaired
<1>3. SInv => WalksPaired
  BY WInvPaired DEF WalksPaired
<1> QED BY <1>1, <1>2, <1>3, PTL DEF Spec
=============================================================================
