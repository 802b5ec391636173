--------------------------- MODULE MCDevice_proofs ---------------------------
(***************************************************************************)
(* What is proved of a device: of its worker, that the size of a round     *)
(* stays in its range, that the limits of an adjustment never cross        *)
(* whatever the device's speeds are, and that at a constant speed tuning   *)
(* reaches the target or a limit; of its rounds, that what                 *)
(* EthRound_proofs and SolRound_proofs show carries over to DeviceSpec,    *)
(* for every size the assumptions of MCDevice admit.                       *)
(***************************************************************************)
EXTENDS MCDevice, WellFoundedInduction, TLAPS

-----------------------------------------------------------------------------
(* Durations. *)

\* What the proofs need of numbers.  A common factor cancels.
LEMMA Cancel ==
  ASSUME NEW p \in Int, NEW q \in Int, NEW d \in Nat \ {0}, p * d < q * d
  PROVE  p < q
<1> SUFFICES ASSUME q <= p PROVE FALSE
  OBVIOUS
<1>1. PICK k \in Nat : p = q + k
  <2>1. p - q \in Nat /\ p = q + (p - q)
    OBVIOUS
  <2> QED BY <2>1
<1>2. p * d = q * d + k * d /\ k * d \in Nat
  BY <1>1
<1> QED BY <1>2

\* The quotient, and between which limits it is.
LEMMA Floor ==
  ASSUME NEW x \in Nat, NEW d \in Nat \ {0}
  PROVE  x \div d \in Nat /\ (x \div d) * d <= x /\ x < (x \div d) * d + d
OBVIOUS

\* A quotient is at most k where the number does not reach the next multiple ...
LEMMA FloorLess ==
  ASSUME NEW x \in Nat, NEW d \in Nat \ {0}, NEW k \in Nat, x < k * d + d
  PROVE  x \div d <= k
<1> DEFINE f == x \div d
<1>1. f \in Nat /\ f * d <= x
  BY Floor
<1> HIDE DEF f
<1>2. f * d < (k + 1) * d
  BY <1>1
<1>3. f < k + 1
  BY <1>1, <1>2, Cancel
<1> QED BY <1>1, <1>3 DEF f

\* ... and at least k where it reaches k times the divisor.
LEMMA FloorMore ==
  ASSUME NEW x \in Nat, NEW d \in Nat \ {0}, NEW k \in Nat, k * d <= x
  PROVE  k <= x \div d
<1> DEFINE f == x \div d
<1>1. f \in Nat /\ x < f * d + d
  BY Floor
<1> HIDE DEF f
<1>2. k * d < (f + 1) * d
  BY <1>1
<1>3. k < f + 1
  BY <1>1, <1>2, Cancel
<1> QED BY <1>1, <1>3 DEF f

\* The whole milliseconds n iterations take, without the overhead.
Ms(n) == (n * speed.num) \div speed.den

\* A larger number is larger after a multiplication.
LEMMA Times ==
  ASSUME NEW a \in Nat, NEW b \in Nat, NEW c \in Nat, a <= b
  PROVE  a * c \in Nat /\ b * c \in Nat /\ a * c <= b * c
<1>1. PICK k \in Nat : b = a + k
  <2>1. b - a \in Nat /\ b = a + (b - a)
    OBVIOUS
  <2> QED BY <2>1
<1>2. b * c = a * c + k * c /\ a * c \in Nat /\ k * c \in Nat
  BY <1>1
<1> QED BY <1>2

\* Ms is a quotient.
LEMMA MsFloor ==
  ASSUME speed \in Speeds, NEW n \in Nat
  PROVE  /\ speed.num \in Nat /\ speed.den \in Nat \ {0} /\ n * speed.num \in Nat
         /\ Ms(n) \in Nat /\ Ms(n) * speed.den <= n * speed.num
         /\ n * speed.num < Ms(n) * speed.den + speed.den
<1>1. speed.num \in Nat /\ speed.den \in Nat \ {0}
  BY SpeedsAssumption
<1>2. n * speed.num \in Nat
  BY <1>1
<1> QED BY <1>1, <1>2, Floor DEF Ms

\* Elapsed is that and the overhead, at least one millisecond (gpu.rs:107).
LEMMA Duration ==
  ASSUME speed \in Speeds, NEW n \in Nat
  PROVE  /\ speed.overhead \in Nat /\ Elapsed(n) \in Nat \ {0} /\ Elapsed(n) >= Ms(n) + speed.overhead
         /\ Elapsed(n) > 1 => Elapsed(n) = Ms(n) + speed.overhead
         /\ Elapsed(n) = 1 \/ Elapsed(n) = Ms(n) + speed.overhead
<1>1. speed.overhead \in Nat /\ Ms(n) \in Nat
  BY SpeedsAssumption, MsFloor
<1>2. Elapsed(n) = IF Ms(n) + speed.overhead < 1 THEN 1 ELSE Ms(n) + speed.overhead
  BY DEF Elapsed, Ms
<1> QED BY <1>1, <1>2

\* A longer round does not take less time,
LEMMA LongerTakesLonger ==
  ASSUME speed \in Speeds, NEW m \in Nat, NEW n \in Nat, m <= n
  PROVE  Ms(m) <= Ms(n) /\ Elapsed(m) <= Elapsed(n)
<1> DEFINE a == speed.num
           x == m * a
           y == n * a
           d == speed.den
<1>1. /\ a \in Nat /\ d \in Nat \ {0} /\ Ms(m) \in Nat /\ Ms(n) \in Nat
      /\ x \in Nat /\ y \in Nat /\ Ms(m) * d <= x /\ y < Ms(n) * d + d
  BY MsFloor
<1> HIDE DEF a, d
<1>2. x <= y
  BY <1>1, Times
<1> HIDE DEF x, y
<1>3. Ms(m) * d \in Nat /\ Ms(n) * d \in Nat
  BY <1>1
<1>4. Ms(m) * d < (Ms(n) + 1) * d
  BY <1>1, <1>2, <1>3
<1>5. Ms(m) < Ms(n) + 1
  BY <1>1, <1>4, Cancel
<1>6. /\ speed.overhead \in Nat
      /\ Elapsed(m) = IF Ms(m) + speed.overhead < 1 THEN 1 ELSE Ms(m) + speed.overhead
      /\ Elapsed(n) = IF Ms(n) + speed.overhead < 1 THEN 1 ELSE Ms(n) + speed.overhead
  BY SpeedsAssumption DEF Elapsed, Ms
<1> QED BY <1>1, <1>5, <1>6

\* and one of twice or three times the iterations hardly more than that much more.
LEMMA MultipleTakes ==
  ASSUME speed \in Speeds, NEW n \in Nat, NEW k \in {2, 3}
  PROVE  Ms(k * n) + 1 <= k * Ms(n) + k
<1> DEFINE a == speed.num
           x == n * a
           d == speed.den
           f == Ms(n)
<1>1. a \in Nat /\ d \in Nat \ {0} /\ f \in Nat /\ x \in Nat /\ x < f * d + d
  BY MsFloor
<1>2. Ms(k * n) = (k * x) \div d
  <2>1. (k * n) * a = k * (n * a)
    <3> HIDE DEF a
    <3> QED BY <1>1
  <2> QED BY <2>1 DEF Ms
<1> HIDE DEF a, x, d, f
<1>3. f * d \in Nat
  BY <1>1
<1>4. k * x + 1 <= (k * f + k) * d
  <2>1. CASE k = 2
    BY <1>1, <1>3, <2>1
  <2>2. CASE k = 3
    BY <1>1, <1>3, <2>2
  <2> QED BY <2>1, <2>2
<1>5. k * f + k - 1 \in Nat /\ k * x \in Nat /\ ((k * f + k - 1) * d) + d = (k * f + k) * d
  <2>1. CASE k = 2
    BY <1>1, <1>3, <2>1
  <2>2. CASE k = 3
    BY <1>1, <1>3, <2>2
  <2> QED BY <2>1, <2>2
<1>6. (k * x) \div d <= k * f + k - 1
  <2> DEFINE y == k * x
             j == k * f + k - 1
  <2>1. y \in Nat /\ j \in Nat /\ y < j * d + d
    BY <1>1, <1>4, <1>5
  <2> HIDE DEF y, j
  <2>2. y \div d <= j
    BY <1>1, <2>1, FloorLess
  <2> QED BY <2>2 DEF y, j
<1>7. (k * x) \div d \in Nat
  BY <1>1, <1>5, Floor
<1> QED BY <1>1, <1>2, <1>6, <1>7 DEF f

\* The times of two sizes are as the sizes, but for a millisecond.
LEMMA Across ==
  ASSUME speed \in Speeds, NEW q \in Nat, NEW n \in Nat \ {0}
  PROVE  q * Ms(n) < (Ms(q) + 1) * n
<1> DEFINE a == speed.num
           d == speed.den
           f == Ms(n)
           g == Ms(q)
<1>1. /\ a \in Nat /\ d \in Nat \ {0} /\ f \in Nat /\ g \in Nat
      /\ f * d <= n * a /\ q * a < g * d + d
  BY MsFloor
<1> HIDE DEF a, d, f, g
<1>2. (f * d) * q <= (n * a) * q
  <2> DEFINE x == f * d
             y == n * a
  <2>1. x \in Nat /\ y \in Nat /\ x <= y
    BY <1>1
  <2> HIDE DEF x, y
  <2>2. x * q <= y * q
    BY <2>1, Times
  <2> QED BY <2>2 DEF x, y
<1>3. (q * a) * n < ((g + 1) * d) * n
  <2> DEFINE x == q * a
             y == (g + 1) * d
  <2>1. x \in Nat /\ y \in Nat /\ x + 1 <= y
    BY <1>1
  <2> HIDE DEF x, y
  <2>2. (x + 1) * n <= y * n
    BY <2>1, Times
  <2>3. (x + 1) * n = x * n + n /\ x * n \in Nat
    BY <2>1
  <2>4. x * n < y * n
    BY <2>1, <2>2, <2>3
  <2> QED BY <2>4 DEF x, y
<1>4. (q * f) * d < ((g + 1) * n) * d
  <2>1. (q * f) * d = (f * d) * q /\ (n * a) * q = (q * a) * n /\ ((g + 1) * d) * n = ((g + 1) * n) * d
    BY <1>1
  <2>2. /\ q * f \in Nat /\ (g + 1) * n \in Nat /\ (n * a) * q \in Nat
      /\ (f * d) * q \in Nat /\ ((g + 1) * d) * n \in Nat
    BY <1>1
  <2> QED BY <1>2, <1>3, <2>1, <2>2
<1>5. q * f \in Int /\ (g + 1) * n \in Int
  BY <1>1
<1>6. q * f < (g + 1) * n
  <2> DEFINE x == q * f
             y == (g + 1) * n
  <2> HIDE DEF x, y
  <2>1. x \in Int /\ y \in Int /\ x * d < y * d
    BY <1>4, <1>5 DEF x, y
  <2>2. x < y
    BY <1>1, <2>1, Cancel
  <2> QED BY <2>2 DEF x, y
<1> QED BY <1>6 DEF f, g

\* A round of n iterations takes more than twice, less than half the target.
Hot(n)  == Elapsed(n) > 2 * Target
Cold(n) == 2 * Elapsed(n) < Target

\* What a round of half the size shows: after a round above twice the target it is
\* not below half of it,
LEMMA Halving ==
  ASSUME speed \in Speeds, NEW n \in Nat, n >= 2, Hot(n)
  PROVE  ~Cold(n \div 2)
<1> DEFINE m == n \div 2
<1>1. m \in Nat /\ n <= 3 * m /\ 3 * m \in Nat
  OBVIOUS
<1> HIDE DEF m
<1>2. Ms(n) <= Ms(3 * m) /\ Ms(3 * m) + 1 <= 3 * Ms(m) + 3
  BY <1>1, LongerTakesLonger, MultipleTakes
<1>3. /\ Ms(n) \in Nat /\ Ms(m) \in Nat /\ Ms(3 * m) \in Nat
      /\ Elapsed(n) \in Nat /\ Elapsed(m) \in Nat /\ speed.overhead \in Nat
      /\ Elapsed(n) > 1 => Elapsed(n) = Ms(n) + speed.overhead
      /\ Elapsed(m) >= Ms(m) + speed.overhead
  BY <1>1, MsFloor, Duration
<1>4. ~Cold(m)
  BY <1>2, <1>3, TargetAssumption DEF Hot, Cold
<1> QED BY <1>4 DEF m

\* and after a round below half the target one of double size is not above twice it.
LEMMA Doubling ==
  ASSUME speed \in Speeds, NEW n \in Nat, Cold(n)
  PROVE  ~Hot(2 * n)
<1>1. 2 * n \in Nat /\ Ms(2 * n) + 1 <= 2 * Ms(n) + 2
  BY MultipleTakes
<1>2. /\ Ms(n) \in Nat /\ Ms(2 * n) \in Nat /\ speed.overhead \in Nat
      /\ Elapsed(n) \in Nat \ {0} /\ Elapsed(2 * n) \in Nat
      /\ Elapsed(2 * n) = 1 \/ Elapsed(2 * n) = Ms(2 * n) + speed.overhead
      /\ Elapsed(n) >= Ms(n) + speed.overhead
  BY <1>1, MsFloor, Duration
<1> QED BY <1>1, <1>2, TargetAssumption DEF Hot, Cold

\* A size that was within the target is raised to one that is not above twice it.
LEMMA Raising ==
  ASSUME speed \in Speeds, NEW n \in Nat \ {0}, Elapsed(n) <= Target
  PROVE  ~Hot((n * Target) \div Elapsed(n)) /\ n <= (n * Target) \div Elapsed(n)
<1> DEFINE T == Target
           e == Elapsed(n)
           q == (n * T) \div e
           f == Ms(n)
           g == Ms(q)
           o == speed.overhead
<1>1. T \in Nat \ {0} /\ e \in Nat \ {0} /\ e <= T /\ f \in Nat /\ o \in Nat
      /\ (e = 1 \/ e = f + o) /\ e >= f + o
  BY TargetAssumption, MsFloor, Duration
<1>2. n * T \in Nat /\ n * e \in Nat /\ n * e <= n * T
  <2> HIDE DEF T, e
  <2>1. e * n <= T * n
    BY <1>1, Times
  <2> QED BY <1>1, <2>1
<1>3. q \in Nat /\ q * e <= n * T /\ n <= q
  <2> HIDE DEF e
  <2> DEFINE x == n * T
  <2>1. x \in Nat /\ n * e <= x
    BY <1>2
  <2> HIDE DEF x
  <2>2. x \div e \in Nat /\ (x \div e) * e <= x /\ n <= x \div e
    BY <1>1, <2>1, Floor, FloorMore
  <2> QED BY <2>2 DEF x
<1>4. g \in Nat /\ q * f < (g + 1) * n
  BY <1>3, MsFloor, Across
<1>5. g * e < T * (f + 1)
  <2> DEFINE a == speed.num
             d == speed.den
  <2>1. /\ a \in Nat /\ d \in Nat \ {0} /\ g * d <= q * a /\ n * a < f * d + d
    BY <1>3, MsFloor
  <2> HIDE DEF T, e, q, f, g, a, d
  <2>2. (g * d) * e <= (q * a) * e
    <3> DEFINE x == g * d
               y == q * a
    <3>1. x \in Nat /\ y \in Nat /\ x <= y
      BY <1>3, <1>4, <2>1
    <3> HIDE DEF x, y
    <3>2. x * e <= y * e
      BY <1>1, <3>1, Times
    <3> QED BY <3>2 DEF x, y
  <2>3. (q * e) * a <= (n * T) * a
    <3> DEFINE x == q * e
               y == n * T
    <3>1. x \in Nat /\ y \in Nat /\ x <= y
      BY <1>1, <1>2, <1>3
    <3> HIDE DEF x, y
    <3>2. x * a <= y * a
      BY <2>1, <3>1, Times
    <3> QED BY <3>2 DEF x, y
  <2>4. (n * a) * T < ((f + 1) * d) * T
    <3> DEFINE x == n * a
               y == (f + 1) * d
    <3>1. x \in Nat /\ y \in Nat /\ x + 1 <= y
      BY <1>1, <2>1
    <3> HIDE DEF x, y
    <3>2. (x + 1) * T <= y * T
      BY <1>1, <3>1, Times
    <3>3. (x + 1) * T = x * T + T /\ x * T \in Nat
      BY <1>1, <3>1
    <3>4. x * T < y * T
      BY <1>1, <3>1, <3>2, <3>3
    <3> QED BY <3>4 DEF x, y
  <2>5. /\ (g * d) * e = (g * e) * d /\ (q * a) * e = (q * e) * a
        /\ (n * T) * a = (n * a) * T /\ ((f + 1) * d) * T = (T * (f + 1)) * d
    BY <1>1, <1>3, <1>4, <2>1
  <2>6. g * e \in Int /\ T * (f + 1) \in Int /\ (g * e) * d \in Int /\ (q * e) * a \in Int
        /\ (n * a) * T \in Int /\ (T * (f + 1)) * d \in Int
    BY <1>1, <1>3, <1>4, <2>1
  <2>7. (g * e) * d < (T * (f + 1)) * d
    BY <2>2, <2>3, <2>4, <2>5, <2>6
  <2> DEFINE x == g * e
             y == T * (f + 1)
  <2> HIDE DEF x, y
  <2>8. x \in Int /\ y \in Int /\ x * d < y * d
    BY <2>6, <2>7 DEF x, y
  <2>9. x < y
    BY <2>1, <2>8, Cancel
  <2> QED BY <2>9 DEF x, y
<1>6. g + o <= 2 * T
  <2> HIDE DEF T, e, f, g, o, q
  <2>1. CASE e = f + o
    <3>1. ASSUME g + o > 2 * T PROVE FALSE
      <4>1. (2 * T + 1) * e <= (g + o) * e
        BY <1>1, <1>4, <3>1, Times
      <4>2. (g + o) * e = g * e + o * e /\ (2 * T + 1) * e = 2 * (T * e) + e
        BY <1>1, <1>4
      <4>3. T * (f + 1) = T * e - T * o + T
        BY <1>1, <2>1
      <4>4. /\ T * e \in Nat /\ T * o \in Nat /\ o * e \in Nat /\ g * e \in Nat
          /\ o * e <= T * o /\ T <= T * e
        <5>1. e * o <= T * o /\ 1 * T <= e * T
          BY <1>1, Times
        <5> QED BY <1>1, <1>4, <5>1
      <4> QED BY <1>1, <1>4, <1>5, <4>1, <4>2, <4>3, <4>4
    <3> QED BY <1>1, <1>4, <3>1
  <2>2. CASE e # f + o
    <3>1. e = 1 /\ f = 0 /\ o = 0
      BY <1>1, <2>2
    <3>2. g * 1 < T * 1
      BY <1>5, <3>1
    <3> QED BY <1>1, <1>4, <3>1, <3>2
  <2> QED BY <2>1, <2>2
<1>7. Elapsed(q) \in Nat /\ (Elapsed(q) = 1 \/ Elapsed(q) = g + o)
  BY <1>3, Duration
<1>8. ~(Elapsed(q) > 2 * T)
  <2> HIDE DEF T, g, o, q
  <2> QED BY <1>1, <1>4, <1>6, <1>7
<1> QED BY <1>3, <1>8 DEF Hot

\* A size above the target and within twice it is lowered by less than half, to one
\* that is not below half the target - unless it is a single iteration.
LEMMA Lowering ==
  ASSUME speed \in Speeds, NEW n \in Nat \ {0}, Elapsed(n) > Target, Elapsed(n) <= 2 * Target,
         NEW q, q = (n * Target) \div Elapsed(n)
  PROVE  /\ q \in Nat /\ n \div 2 <= q /\ q <= n
         /\ q >= 2 => ~Cold(q)
         /\ q < 2 => ~Cold(1) \/ ~Cold(2)
<1> DEFINE T == Target
           e == Elapsed(n)
           f == Ms(n)
           o == speed.overhead
<1>1. T \in Nat \ {0} /\ e \in Nat \ {0} /\ T < e /\ e <= 2 * T /\ f \in Nat /\ o \in Nat /\ e = f + o
  BY TargetAssumption, MsFloor, Duration
<1>2. n * T \in Nat /\ n * e \in Nat /\ n * T <= n * e /\ n * e <= 2 * (n * T)
  <2> HIDE DEF T, e
  <2>1. T * n <= e * n /\ e * n <= (2 * T) * n
    BY <1>1, Times
  <2> QED BY <1>1, <2>1
<1>3. q \in Nat /\ q * e <= n * T /\ n * T < q * e + e
  <2> HIDE DEF e
  <2> DEFINE x == n * T
  <2>1. x \in Nat /\ q = x \div e
    BY <1>2 DEF e
  <2> HIDE DEF x
  <2>2. q \in Nat /\ q * e <= x /\ x < q * e + e
    BY <1>1, <2>1, Floor
  <2> QED BY <2>2 DEF x
<1> HIDE DEF T, e, f, o
<1>4. q <= n
  <2>1. q * e < (n + 1) * e
    BY <1>1, <1>2, <1>3
  <2>2. q < n + 1
    BY <1>1, <1>3, <2>1, Cancel
  <2> QED BY <1>3, <2>2
<1>5. n \div 2 <= q
  <2> DEFINE m == n \div 2
  <2>1. m \in Nat /\ 2 * m <= n
    OBVIOUS
  <2> HIDE DEF m
  <2>2. (2 * m) * e <= n * e /\ (2 * m) * e = 2 * (m * e) /\ m * e \in Nat
    BY <1>1, <2>1, Times
  <2>3. q * e \in Nat /\ (q + 1) * e = q * e + e /\ m * e < (q + 1) * e
    BY <1>1, <1>2, <1>3, <2>2
  <2>4. m < q + 1
    <3>1. m \in Int /\ q + 1 \in Int /\ m * e < (q + 1) * e
      BY <1>3, <2>1, <2>3
    <3> QED BY <1>1, <3>1, Cancel
  <2> QED BY <1>3, <2>1, <2>4 DEF m
<1>6. ASSUME q >= 2, Cold(q) PROVE FALSE
  <2> DEFINE g == Ms(q)
  <2>1. g \in Nat /\ q * f < (g + 1) * n
    BY <1>3, MsFloor, Across DEF f
  <2>2. Elapsed(q) \in Nat \ {0} /\ Elapsed(q) >= g + o /\ 2 * Elapsed(q) < T
    BY <1>3, <1>6, Duration DEF Cold, T, o
  <2> HIDE DEF g
  <2>3. T >= 3 /\ 2 * (g + 1) <= T + 1 - 2 * o
    BY <1>1, <2>1, <2>2
  <2> DEFINE c == T + 1 - 2 * o
  <2>4. c \in Nat /\ 2 * (g + 1) <= c /\ c <= T + 1
    BY <1>1, <2>1, <2>3
  <2> HIDE DEF c
  <2>5. 2 * (q * f) + 2 <= c * n
    <3>1. (2 * (g + 1)) * n <= c * n /\ (2 * (g + 1)) * n = 2 * ((g + 1) * n) /\ (g + 1) * n \in Nat
      BY <2>1, <2>4, Times
    <3>2. q * f \in Nat /\ c * n \in Nat
      BY <1>1, <1>3, <2>4
    <3> QED BY <2>1, <3>1, <3>2
  <2>6. (c * n) * T + c <= (c * (q + 1)) * e
    <3> DEFINE x == n * T
               y == q * e
    <3>1. x \in Nat /\ y \in Nat /\ x + 1 <= y + e
      BY <1>1, <1>2, <1>3
    <3>2. (c * n) * T = c * x /\ (c * (q + 1)) * e = c * (y + e)
      BY <1>1, <1>3, <2>4
    <3> HIDE DEF x, y
    <3>3. (x + 1) * c <= (y + e) * c
      BY <1>1, <2>4, <3>1, Times
    <3>4. (x + 1) * c = c * x + c /\ (y + e) * c = c * (y + e)
      BY <1>1, <2>4, <3>1
    <3> QED BY <3>2, <3>3, <3>4
  <2>7. (2 * (q * f) + 2) * T <= (c * n) * T
    <3> DEFINE x == 2 * (q * f) + 2
               y == c * n
    <3>1. x \in Nat /\ y \in Nat /\ x <= y
      BY <1>1, <1>3, <2>4, <2>5
    <3> HIDE DEF x, y
    <3>2. x * T <= y * T
      BY <1>1, <3>1, Times
    <3> QED BY <3>2 DEF x, y
  <2>8. (2 * (q * f) + 2) * T + c <= (c * (q + 1)) * e
    <3>1. (c * n) * T \in Int /\ (2 * (q * f) + 2) * T \in Int /\ (c * (q + 1)) * e \in Int /\ c \in Int
      BY <1>1, <1>3, <2>4
    <3> QED BY <2>6, <2>7, <3>1
  <2> DEFINE A == (T * q) * e
             B == (o * q) * e
             C == (T * o) * q
             D == o * e
             F == T * e
             H == q * e
             I == o * T
             J == o * q
  <2>9. /\ A \in Nat /\ B \in Nat /\ C \in Nat /\ D \in Nat
        /\ F \in Nat /\ H \in Nat /\ I \in Nat /\ J \in Nat
    BY <1>1, <1>3
  <2>10. (2 * (q * f) + 2) * T = 2 * A - 2 * C + 2 * T
    <3>1. f = e - o
      BY <1>1
    <3> QED BY <1>1, <1>3, <3>1
  <2>11. (c * (q + 1)) * e = A + F + H + e - 2 * B - 2 * D
    BY <1>1, <1>3, <2>4 DEF c
  <2>12. B >= C + J /\ D >= I + o
    <3>1. (T + 1) * J <= e * J /\ (T + 1) * o <= e * o
      BY <1>1, <2>9, Times
    <3>2. e * J = B /\ (T + 1) * J = C + J /\ e * o = D /\ (T + 1) * o = I + o
      BY <1>1, <1>3
    <3> QED BY <3>1, <3>2
  <2>13. F + H + e <= A
    <3>1. PICK k \in Nat : q = k + 2
      <4>1. q - 2 \in Nat /\ q = (q - 2) + 2
        BY <1>3, <1>6
      <4> QED BY <4>1
    <3>2. k + 3 <= T * (k + 1)
      <4>1. 3 * (k + 1) <= T * (k + 1)
        BY <1>1, <2>3, <3>1, Times
      <4>2. T * (k + 1) \in Nat
        BY <1>1, <3>1
      <4> QED BY <3>1, <4>1, <4>2
    <3>3. (k + 3) * e <= (T * (k + 1)) * e
      <4> DEFINE x == T * (k + 1)
      <4>1. x \in Nat /\ k + 3 \in Nat /\ k + 3 <= x
        BY <1>1, <3>1, <3>2
      <4> HIDE DEF x
      <4>2. (k + 3) * e <= x * e
        BY <1>1, <4>1, Times
      <4> QED BY <4>2 DEF x
    <3>4. (k + 3) * e = H + e /\ (T * (k + 1)) * e = A - F
      BY <1>1, <3>1
    <3> QED BY <2>9, <3>3, <3>4, <1>1
  <2>14. c = T + 1 - 2 * o
    BY DEF c
  <2> HIDE DEF A, B, C, D, F, H, I, J
  <2> QED BY <1>1, <2>3, <2>8, <2>9, <2>10, <2>11, <2>12, <2>13, <2>14
<1>7. ASSUME q < 2, Cold(1), Cold(2) PROVE FALSE
  <2>1. q = 0 \/ q = 1
    BY <1>3, <1>7
  <2>2. n * T < 2 * e
    <3>1. q * e = 0 \/ q * e = e
      BY <1>1, <2>1
    <3> QED BY <1>1, <1>2, <1>3, <3>1
  <2>3. Elapsed(1) \in Nat /\ Elapsed(2) \in Nat /\ 2 * Elapsed(1) < T /\ 2 * Elapsed(2) < T
    BY <1>7, Duration DEF Cold, T
  <2>4. CASE n <= 2
    <3>1. n = 1 \/ n = 2
      BY <2>4
    <3> QED BY <1>1, <2>3, <3>1 DEF e
  <2>5. CASE n >= 3
    <3>1. n < 4
      <4>1. ASSUME n >= 4 PROVE FALSE
        <5>1. 4 * T <= n * T
          BY <1>1, <4>1, Times
        <5> QED BY <1>1, <1>2, <2>2, <5>1
      <4> QED BY <4>1
    <3>2. n = 3
      BY <2>5, <3>1
    <3>3. 3 * T < 2 * e
      BY <2>2, <3>2
    <3>4. Ms(2 * 1) \in Nat /\ Ms(3 * 1) + 1 <= 3 * Ms(1) + 3 /\ 3 * 1 = 3 /\ 2 * 1 = 2
      BY MultipleTakes, MsFloor
    <3>5. Ms(1) \in Nat /\ f + 1 <= 3 * Ms(1) + 3 /\ Elapsed(1) >= Ms(1) + o
      BY <3>2, <3>4, MsFloor, Duration DEF f, o
    <3>6. Elapsed(2) >= Ms(2) + o /\ Ms(2) \in Nat
      BY MsFloor, Duration DEF o
    <3>7. 2 * f < (Ms(2) + 1) * 3
      BY <3>2, Across DEF f
    <3> QED BY <1>1, <2>3, <3>3, <3>5, <3>6, <3>7
  <2> QED BY <2>4, <2>5
<1> QED BY <1>3, <1>4, <1>5, <1>6, <1>7

\* Induction, over the set of the numbers something is true of.
LEMMA LeastNat ==
  ASSUME NEW S, S \subseteq Nat, S # {}
  PROVE  \E m \in S : \A k \in S : m <= k
<1> DEFINE R == {ss \in Nat \X Nat : ss[1] < ss[2]}
<1>1. OpToRel(<, Nat) = R
  BY Zenon DEF OpToRel
<1>2. IsWellFoundedOn(R, Nat)
  BY <1>1, NatLessThanWellFounded, Zenon
<1> HIDE DEF R
<1>3. PICK m \in S : \A k \in S : ~(<<k, m>> \in R)
  BY <1>2, WFMin, Zenon
<1>4. \A k \in S : ~(k < m)
  BY <1>3 DEF R
<1> QED BY <1>4

\* A set that holds 0 and with each number the next one holds all of them.
LEMMA InductionOnNat ==
  ASSUME NEW S, 0 \in S, \A n \in Nat : n \in S => n + 1 \in S
  PROVE  \A n \in Nat : n \in S
<1> SUFFICES ASSUME NEW n \in Nat, n \notin S PROVE FALSE
  OBVIOUS
<1>1. PICK m \in Nat \ S : \A k \in Nat \ S : m <= k
  BY LeastNat
<1>2. m # 0 /\ m - 1 \in Nat /\ (m - 1) + 1 = m
  BY <1>1
<1>3. m - 1 \in S
  BY <1>1, <1>2
<1> QED BY <1>1, <1>2, <1>3

\* The powers of two exist,
LEMMA DoubledDef ==
  Doubled = [k \in 0 .. Steps |-> IF k = 0 THEN 1 ELSE 2 * Doubled[k - 1]]
<1> DEFINE Is(n, f) == f = [k \in 0 .. n |-> IF k = 0 THEN 1 ELSE 2 * f[k - 1]]
           S == {n \in Nat : \E f : Is(n, f)}
<1>1. 0 \in S
  <2>1. Is(0, [k \in 0 .. 0 |-> 1])
    OBVIOUS
  <2> QED BY <2>1
<1>2. ASSUME NEW n \in Nat, n \in S PROVE n + 1 \in S
  <2>1. PICK f : Is(n, f)
    BY <1>2
  <2> DEFINE g == [k \in 0 .. n + 1 |-> IF k = n + 1 THEN 2 * f[n] ELSE f[k]]
  <2>2. \A k \in 0 .. n + 1 : g[k] = IF k = 0 THEN 1 ELSE 2 * g[k - 1]
    <3> SUFFICES ASSUME NEW k \in 0 .. n + 1 PROVE g[k] = IF k = 0 THEN 1 ELSE 2 * g[k - 1]
      OBVIOUS
    <3>1. CASE k = n + 1
      BY <3>1
    <3>2. CASE k # n + 1
      <4>1. k \in 0 .. n /\ (k # 0 => k - 1 \in 0 .. n)
        BY <3>2
      <4>2. f[k] = IF k = 0 THEN 1 ELSE 2 * f[k - 1]
        BY <2>1, <4>1
      <4> QED BY <3>2, <4>1, <4>2
    <3> QED BY <3>1, <3>2
  <2>3. g = [k \in 0 .. n + 1 |-> g[k]]
    OBVIOUS
  <2> HIDE DEF g
  <2>4. g = [k \in 0 .. n + 1 |-> IF k = 0 THEN 1 ELSE 2 * g[k - 1]]
    BY <2>2, <2>3
  <2>5. \E f1 : Is(n + 1, f1)
    <3>1. Is(n + 1, g)
      BY <2>4
    <3> QED BY <3>1
  <2>6. n + 1 \in Nat
    OBVIOUS
  <2> HIDE DEF Is
  <2> QED BY <2>5, <2>6
<1> HIDE DEF Is, S
<1>3. Steps \in S
  BY <1>1, <1>2, InductionOnNat, StepsAssumption
<1>4. \E f : Is(Steps, f)
  BY <1>3 DEF S
<1> QED BY <1>4 DEF Is, Doubled

\* and each is twice the one before.
LEMMA DoubledFacts ==
  /\ Doubled[0] = 1
  /\ \A k \in 0 .. Steps : Doubled[k] \in Nat \ {0}
  /\ \A k \in 0 .. Steps : k # Steps => k + 1 \in 0 .. Steps /\ Doubled[k + 1] = 2 * Doubled[k]
<1>1. Steps \in Nat
  BY StepsAssumption
<1>2. \A k \in 0 .. Steps : Doubled[k] = IF k = 0 THEN 1 ELSE 2 * Doubled[k - 1]
  BY DoubledDef
<1>3. Doubled[0] = 1
  BY <1>1, <1>2
<1>4. \A k \in 0 .. Steps : k # Steps => k + 1 \in 0 .. Steps /\ Doubled[k + 1] = 2 * Doubled[k]
  BY <1>1, <1>2
<1> DEFINE S == {n \in Nat : n <= Steps => Doubled[n] \in Nat \ {0}}
<1>5. 0 \in S
  BY <1>3
<1>6. ASSUME NEW n \in Nat, n \in S PROVE n + 1 \in S
  BY <1>1, <1>4, <1>6
<1> HIDE DEF S
<1>7. \A n \in Nat : n \in S
  BY <1>5, <1>6, InductionOnNat
<1>8. \A k \in 0 .. Steps : Doubled[k] \in Nat \ {0}
  BY <1>1, <1>7 DEF S
<1> QED BY <1>3, <1>4, <1>8

-----------------------------------------------------------------------------
(* Tuning. *)

\* What tuning has reached at a size n after k rounds at one speed.  A size that is
\* too large was halved k times from MaxIters at most, one that is too small was
\* doubled k times from 1 at least; the last disjunct is a single iteration that is
\* too short while two are not, the only size from which tuning turns round.
Settling(n, k) ==
  /\ Hot(n) /\ n # 1 => n * Doubled[k] <= MaxIters
  /\ Cold(n) /\ n # MaxIters => Doubled[k] <= n \/ (n = 1 /\ ~Cold(2))

\* The three cases of clamp (gpu.rs:111-114).
LEMMA ClampedParts ==
  ASSUME iters \in 1 .. MaxIters, Proposed \in Int
  PROVE  /\ Lowest \in 1 .. MaxIters /\ Highest \in 1 .. MaxIters /\ Lowest <= Highest
         /\ Proposed < Lowest => Clamped = Lowest
         /\ Proposed > Highest => Clamped = Highest
         /\ Lowest <= Proposed /\ Proposed <= Highest => Clamped = Proposed
BY MaxItersAssumption DEF Lowest, Highest, Clamped

\* A tuned round leads to what Settling says of one round more.
LEMMA ClampedSettles ==
  ASSUME speed \in Speeds, iters \in 1 .. MaxIters, tuned \in 0 .. Steps, Settling(iters, tuned)
  PROVE  Settling(Clamped, Count)
<1> DEFINE n == iters
           E == Elapsed(iters)
           T == Target
           q == Proposed
           c == Clamped
           D == Doubled[tuned]
<1>1. n \in Nat \ {0} /\ n <= MaxIters /\ MaxIters \in Nat /\ T \in Nat \ {0} /\ Steps \in Nat
  BY MaxItersAssumption, TargetAssumption, StepsAssumption
<1>2. E \in Nat \ {0} /\ n * T \in Nat /\ q = (n * T) \div E
  BY <1>1, Duration DEF Proposed
<1> HIDE DEF E, q
<1>3. q \in Nat
  BY <1>1, <1>2, Floor
<1>4. /\ Lowest \in 1 .. MaxIters /\ Highest \in 1 .. MaxIters /\ Lowest <= Highest
      /\ q < Lowest => c = Lowest
      /\ q > Highest => c = Highest
      /\ Lowest <= q /\ q <= Highest => c = q
  BY <1>3, ClampedParts DEF q
<1>5. /\ n \div 2 \in Nat /\ 2 * (n \div 2) <= n /\ n < 2 * (n \div 2) + 2
      /\ Lowest = (IF n \div 2 < 1 THEN 1 ELSE n \div 2)
      /\ Highest = (IF 2 * n > MaxIters THEN MaxIters ELSE 2 * n)
  BY <1>1 DEF Lowest, Highest
<1>6. /\ D \in Nat \ {0}
      /\ tuned # Steps => Doubled[Count] = 2 * D
      /\ tuned = Steps => MaxIters <= D /\ Doubled[Count] = D
  <2>1. D \in Nat \ {0}
    BY DoubledFacts
  <2>2. ASSUME tuned # Steps PROVE Doubled[Count] = 2 * D
    <3>1. Count = tuned + 1
      BY <1>1, <2>2 DEF Count
    <3> QED BY <2>2, <3>1, DoubledFacts
  <2>3. ASSUME tuned = Steps PROVE MaxIters <= D /\ Doubled[Count] = D
    <3>1. Count = tuned
      BY <1>1, <2>3 DEF Count
    <3> QED BY <2>3, <3>1, StepsAssumption
  <2> QED BY <2>1, <2>2, <2>3
<1>7. /\ Hot(n) <=> E > 2 * T
      /\ Cold(n) <=> 2 * E < T
  BY DEF Hot, Cold, E
<1>8. /\ Hot(n) /\ n # 1 => n * D <= MaxIters
      /\ Cold(n) /\ n # MaxIters => D <= n \/ (n = 1 /\ ~Cold(2))
  BY DEF Settling
<1> HIDE DEF D, c
<1>9. CASE Hot(n)
  <2>1. q <= n \div 2
    <3>1. n * T < (n \div 2) * E + E
      <4> DEFINE h == n \div 2
      <4>1. h \in Nat /\ n <= 2 * h + 1
        BY <1>5
      <4> HIDE DEF h
      <4>2. n * T <= (2 * h + 1) * T
        BY <1>1, <4>1, Times
      <4>3. (2 * h + 1) * T <= (h + 1) * (2 * T)
        BY <1>1, <4>1
      <4>4. (2 * T + 1) * (h + 1) <= E * (h + 1)
        BY <1>1, <1>2, <1>7, <1>9, <4>1, Times
      <4>5. E * (h + 1) = h * E + E /\ (2 * T + 1) * (h + 1) = (h + 1) * (2 * T) + h + 1
        BY <1>1, <1>2, <4>1
      <4>6. h * E \in Nat /\ (h + 1) * (2 * T) \in Nat /\ (2 * h + 1) * T \in Nat
        BY <1>1, <1>2, <4>1
      <4>7. n * T < h * E + E
        BY <1>2, <4>1, <4>2, <4>3, <4>4, <4>5, <4>6
      <4> QED BY <4>7 DEF h
    <3> QED BY <1>2, <1>5, <3>1, FloorLess
  <2>2. c = Lowest
    BY <1>3, <1>4, <1>5, <2>1
  <2>3. CASE n = 1
    <3>1. c = 1
      BY <1>5, <2>2, <2>3
    <3>2. ~Cold(1)
      BY <1>1, <1>2, <1>7, <1>9, <2>3
    <3> QED BY <3>1, <3>2 DEF Settling, c
  <2>4. CASE n # 1
    <3>1. n >= 2 /\ c = n \div 2 /\ c \in Nat /\ 2 * c <= n
      BY <1>1, <1>5, <2>2, <2>4
    <3>2. ~Cold(c)
      BY <1>9, <3>1, Halving
    <3>3. 2 * D <= n * D /\ n * D <= MaxIters /\ n * D \in Nat /\ (2 * c) * D <= n * D
      BY <1>1, <1>6, <1>8, <1>9, <2>4, <3>1, Times
    <3>4. Doubled[Count] = 2 * D
      BY <1>1, <1>6, <3>3
    <3>5. c * Doubled[Count] <= MaxIters
      <4>1. c * (2 * D) = (2 * c) * D /\ (2 * c) * D \in Nat
        BY <1>6, <3>1
      <4>2. c * (2 * D) <= MaxIters
        BY <1>1, <3>3, <4>1
      <4> QED BY <3>4, <4>2
    <3> QED BY <3>2, <3>5 DEF Settling, c
  <2> QED BY <2>3, <2>4
<1>10. CASE Cold(n)
  <2>1. 2 * n <= q
    <3>1. (2 * n) * E <= n * T
      <4>1. (2 * E) * n <= T * n
        BY <1>1, <1>2, <1>7, <1>10, Times
      <4> QED BY <1>1, <1>2, <4>1
    <3> QED BY <1>1, <1>2, <3>1, FloorMore
  <2>2. c = Highest
    BY <1>1, <1>3, <1>4, <1>5, <2>1
  <2>3. ~Hot(2 * n)
    BY <1>1, <1>10, Doubling
  <2>4. ~Hot(c)
    <3>1. c \in Nat /\ 2 * n \in Nat /\ c <= 2 * n
      BY <1>1, <1>4, <1>5, <2>2
    <3>2. Elapsed(c) \in Nat /\ Elapsed(2 * n) \in Nat /\ Elapsed(c) <= Elapsed(2 * n)
      BY <3>1, Duration, LongerTakesLonger
    <3> QED BY <1>1, <2>3, <3>2 DEF Hot
  <2>5. ASSUME Cold(c), c # MaxIters PROVE Doubled[Count] <= c
    <3>1. c = 2 * n /\ n # MaxIters
      BY <1>1, <1>5, <2>2, <2>5
    <3>2. D <= n
      <4>1. ASSUME n = 1, ~Cold(2) PROVE FALSE
        BY <2>5, <3>1, <4>1
      <4> QED BY <1>8, <1>10, <3>1, <4>1
    <3> QED BY <1>1, <1>6, <3>1, <3>2
  <2> QED BY <2>4, <2>5 DEF Settling, c
<1>11. CASE ~Cold(n) /\ E <= T
  <2>1. n <= q /\ ~Hot(q)
    BY <1>1, <1>2, <1>11, Raising DEF E
  <2>2. c \in Nat /\ n <= c /\ c <= q
    BY <1>1, <1>3, <1>4, <1>5, <2>1
  <2>3. Elapsed(n) \in Nat /\ Elapsed(c) \in Nat /\ Elapsed(q) \in Nat
    BY <1>1, <1>3, <2>2, Duration
  <2>4. Elapsed(n) <= Elapsed(c) /\ Elapsed(c) <= Elapsed(q)
    BY <1>1, <1>3, <2>2, LongerTakesLonger
  <2>5. ~Hot(c)
    BY <1>1, <2>1, <2>3, <2>4 DEF Hot
  <2>6. ~Cold(c)
    BY <1>1, <1>11, <2>3, <2>4 DEF Cold
  <2> QED BY <2>5, <2>6 DEF Settling, c
<1>12. CASE E > T /\ ~Hot(n)
  <2>1. /\ n \div 2 <= q /\ q <= n
        /\ q >= 2 => ~Cold(q)
        /\ q < 2 => ~Cold(1) \/ ~Cold(2)
    <3>1. E <= 2 * T
      BY <1>1, <1>2, <1>7, <1>12
    <3> QED BY <1>1, <1>2, <1>12, <3>1, Lowering DEF E
  <2>2. c = IF q < 1 THEN 1 ELSE q
    BY <1>1, <1>3, <1>4, <1>5, <2>1
  <2>3. ~Hot(c)
    <3>1. c \in Nat /\ c <= n
      BY <1>1, <1>3, <2>1, <2>2
    <3>2. Elapsed(n) \in Nat /\ Elapsed(c) \in Nat /\ Elapsed(c) <= Elapsed(n)
      BY <1>1, <3>1, Duration, LongerTakesLonger
    <3> QED BY <1>1, <1>12, <3>2 DEF Hot
  <2>4. CASE q >= 2
    <3>1. ~Cold(c)
      BY <1>3, <2>1, <2>2, <2>4
    <3> QED BY <2>3, <3>1 DEF Settling, c
  <2>5. CASE q < 2
    <3>1. c = 1 /\ (~Cold(c) \/ ~Cold(2))
      BY <1>3, <2>1, <2>2, <2>5
    <3> QED BY <2>3, <3>1 DEF Settling, c
  <2> QED BY <1>3, <2>4, <2>5
<1> QED BY <1>1, <1>2, <1>7, <1>9, <1>10, <1>11, <1>12

\* After Steps rounds that is what Settles says.
LEMMA SettledAtLast ==
  ASSUME speed \in Speeds, iters \in 1 .. MaxIters, tuned \in 0 .. Steps, Settling(iters, tuned)
  PROVE  Settles
<1> SUFFICES ASSUME tuned = Steps, iters # 1, iters # MaxIters
             PROVE  2 * Elapsed(iters) >= Target /\ Elapsed(iters) <= 2 * Target
  BY DEF Settles
<1> DEFINE D == Doubled[Steps]
<1>1. /\ D \in Nat \ {0} /\ MaxIters <= D /\ MaxIters \in Nat /\ Target \in Nat
      /\ iters \in Nat /\ iters >= 2 /\ iters < MaxIters
  BY DoubledFacts, StepsAssumption, MaxItersAssumption, TargetAssumption
<1>2. Elapsed(iters) \in Nat
  BY <1>1, Duration
<1>3. ~Hot(iters)
  <2>1. SUFFICES ASSUME Hot(iters) PROVE FALSE
    OBVIOUS
  <2>2. iters * D <= MaxIters
    BY <2>1 DEF Settling
  <2> HIDE DEF D
  <2>3. 2 * D <= iters * D /\ iters * D \in Nat
    BY <1>1, Times
  <2> QED BY <1>1, <2>2, <2>3
<1>4. ~Cold(iters)
  BY <1>1 DEF Settling
<1> QED BY <1>1, <1>2, <1>3, <1>4 DEF Hot, Cold

-----------------------------------------------------------------------------
(* The worker. *)

\* An explicit size is never tuned.
Settled == IF Explicit > 0 THEN tuned = 0 ELSE Settling(iters, tuned)

\* The inductive invariant: a type, the range of the size, no panic so far and what
\* the rounds since the last change of speed have reached.
WorkerInv == TypeOK /\ InRange /\ NoPanic /\ Settled

\* The limits of an adjustment, for a size in range: they never cross and stay
\* in the range (gpu.rs:111-114).
LEMMA Limits ==
  ASSUME iters \in 1 .. MaxIters
  PROVE  /\ Lowest \in 1 .. MaxIters /\ Highest \in 1 .. MaxIters
         /\ Lowest <= Highest
BY MaxItersAssumption DEF Lowest, Highest

\* What clamp returns lies between its limits, and so in the range.
LEMMA ClampedInRange ==
  ASSUME speed \in Speeds, iters \in 1 .. MaxIters
  PROVE  Clamped \in 1 .. MaxIters
<1>1. iters \in Nat
  BY MaxItersAssumption
<1>2. Elapsed(iters) \in Nat \ {0}
  BY <1>1, Duration
<1> DEFINE product == iters * Target
<1>3. product \in Nat
  BY <1>1, TargetAssumption
<1> HIDE DEF product
<1>4. product \div Elapsed(iters) \in Int
  BY <1>2, <1>3
<1>5. Proposed \in Int
  BY <1>4 DEF Proposed, product
<1>6. Lowest \in 1 .. MaxIters /\ Highest \in 1 .. MaxIters /\ Lowest <= Highest
  BY Limits
<1> QED BY <1>5, <1>6, MaxItersAssumption DEF Clamped

\* The invariant holds initially.
LEMMA InitWorkerInv == Init => WorkerInv
<1> SUFFICES ASSUME Init PROVE WorkerInv
  OBVIOUS
<1>1. iters \in Nat \ {0} /\ InRange
  <2>1. CASE Explicit > 0
    BY <2>1, ExplicitAssumption DEF Init, InRange
  <2>2. CASE ~(Explicit > 0)
    BY <2>2, MaxItersAssumption DEF Init, InRange
  <2> QED BY <2>1, <2>2
<1>2. tuned \in 0 .. Steps
  BY StepsAssumption DEF Init
<1>3. TypeOK /\ NoPanic
  BY <1>1, <1>2 DEF Init, TypeOK, NoPanic
<1>4. Settled
  <2>1. CASE Explicit > 0
    BY <2>1 DEF Init, Settled
  <2>2. CASE ~(Explicit > 0)
    <3>1. /\ iters \in Nat \ {0} /\ iters <= MaxIters /\ iters * Doubled[tuned] = iters
          /\ Doubled[tuned] <= iters
      BY <1>1, <2>2, DoubledFacts, MaxItersAssumption DEF Init, InRange
    <3> QED BY <2>2, <3>1 DEF Settled, Settling
  <2> QED BY <2>1, <2>2
<1> QED BY <1>1, <1>3, <1>4 DEF WorkerInv

\* Every step keeps it.
LEMMA WorkerInvStep == WorkerInv /\ [Next]_vars => WorkerInv'
<1> SUFFICES ASSUME WorkerInv, [Next]_vars
             PROVE  WorkerInv'
  OBVIOUS
<1> USE DEF WorkerInv
<1>1. CASE MissBatch
  <2>1. CASE Explicit > 0
    BY <1>1, <2>1 DEF MissBatch, TypeOK, InRange, NoPanic, Settled
  <2>2. CASE ~(Explicit > 0)
    <3>1. iters \in 1 .. MaxIters /\ speed \in Speeds
      BY <2>2 DEF InRange, TypeOK
    <3>2. Clamped \in 1 .. MaxIters
      BY <3>1, ClampedInRange
    <3>3. ~(Lowest > Highest)
      <4>1. Lowest \in 1 .. MaxIters /\ Highest \in 1 .. MaxIters /\ Lowest <= Highest
        BY <3>1, Limits
      <4> QED BY <4>1, MaxItersAssumption
    <3>4. iters' = Clamped /\ panics' = panics
      BY <1>1, <2>2, <3>3 DEF MissBatch, NoPanic, TypeOK
    <3>5. Count \in 0 .. Steps
      BY StepsAssumption DEF Count, TypeOK
    <3>6. TypeOK'
      BY <1>1, <2>2, <3>2, <3>4, <3>5, MaxItersAssumption DEF MissBatch, TypeOK
    <3>7. InRange' /\ NoPanic'
      BY <2>2, <3>2, <3>4 DEF InRange, NoPanic
    <3>8. Settling(Clamped, Count)
      BY <2>2, <3>1, ClampedSettles DEF TypeOK, Settled
    <3>9. Settled'
      <4>1. tuned' = Count /\ speed' = speed
        BY <1>1, <2>2 DEF MissBatch
      <4> QED BY <2>2, <3>4, <3>8, <4>1 DEF Settled, Settling, Hot, Cold, Elapsed
    <3> QED BY <3>6, <3>7, <3>9
  <2> QED BY <2>1, <2>2
<1>2. CASE HitBatch
  BY <1>2 DEF HitBatch, TypeOK, InRange, NoPanic, Settled, Settling, Hot, Cold, Elapsed
<1>3. CASE FailBatch
  BY <1>3 DEF FailBatch, TypeOK, InRange, NoPanic, Settled, Settling, Hot, Cold, Elapsed
<1>4. CASE ChangeSpeed
  <2>1. TypeOK' /\ InRange' /\ NoPanic'
    BY <1>4, StepsAssumption DEF ChangeSpeed, TypeOK, InRange, NoPanic
  <2>2. CASE Explicit > 0
    BY <1>4, <2>1, <2>2 DEF ChangeSpeed, Settled
  <2>3. CASE ~(Explicit > 0)
    <3>1. /\ iters' \in Nat \ {0} /\ iters' <= MaxIters /\ iters' * Doubled[tuned'] = iters'
          /\ Doubled[tuned'] <= iters'
      BY <1>4, <2>1, <2>3, DoubledFacts, MaxItersAssumption DEF ChangeSpeed, InRange
    <3> QED BY <2>1, <2>3, <3>1 DEF Settled, Settling
  <2> QED BY <2>1, <2>2, <2>3
<1>5. CASE UNCHANGED vars
  BY <1>5 DEF vars, TypeOK, InRange, NoPanic, Settled, Settling, Hot, Cold, Elapsed
<1> QED BY <1>1, <1>2, <1>3, <1>4, <1>5 DEF Next, Batch

\* The range of the size and the absence of a panic in clamp (gpu.rs:110-116)
\* for every target, range, explicit size and device.
THEOREM TuningIsSafe == Spec => []WorkerInv
BY InitWorkerInv, WorkerInvStep, PTL DEF Spec

\* clamp never panics.
THEOREM NeverPanics == Spec => []NoPanic
<1>1. WorkerInv => NoPanic
  BY DEF WorkerInv
<1> QED BY <1>1, TuningIsSafe, PTL

\* The size stays in its range; an explicit one is kept.
THEOREM StaysInRange == Spec => []InRange
<1>1. WorkerInv => InRange
  BY DEF WorkerInv
<1> QED BY <1>1, TuningIsSafe, PTL

-----------------------------------------------------------------------------
(* The rounds. *)

\* The worker and each round keep the invariant they have alone; an explicit size
\* is never adjusted.
DevInv ==
  /\ part = "tuned" => WorkerInv
  /\ part # "tuned" => NoPanic /\ tuned = 0
  /\ part = "ethereum" => Eth!IInv
  /\ part = "solana" => Sol!IInv

LEMMA InitDevInv == DeviceInit => DevInv
<1> SUFFICES ASSUME DeviceInit
             PROVE  DevInv
  OBVIOUS
<1>1. ASSUME part = "ethereum"
      PROVE  Eth!IInv
  <2>1. Eth!Init
    BY <1>1 DEF DeviceInit
  <2> QED BY <2>1, Eth!InitIInv, RoundsAssumption
<1>2. ASSUME part = "solana"
      PROVE  Sol!IInv
  <2>1. Sol!Init
    BY <1>2 DEF DeviceInit
  <2> QED BY <2>1, Sol!InitIInv, RoundsAssumption
<1>3. ASSUME part = "tuned"
      PROVE  WorkerInv
  BY <1>3, InitWorkerInv DEF DeviceInit
<1>4. ASSUME part # "tuned"
      PROVE  NoPanic /\ tuned = 0
  BY <1>4 DEF DeviceInit, NoWorker, Explicitly!Init, NoPanic
<1> QED BY <1>1, <1>2, <1>3, <1>4 DEF DevInv

LEMMA DevInvStep == DevInv /\ [DeviceNext]_<<part, vars, RoundVars>> => DevInv'
<1> SUFFICES ASSUME DevInv, [DeviceNext]_<<part, vars, RoundVars>>
             PROVE  DevInv'
  OBVIOUS
<1>1. part' = part
  BY DEF DeviceNext
<1>2. ASSUME part = "ethereum"
      PROVE  Eth!IInv'
  <2>1. [Eth!Next]_Eth!vars
    BY <1>2 DEF DeviceNext, RoundVars, Eth!vars, Eth!hostVars, Eth!kernelVars
  <2> QED BY <1>2, <2>1, Eth!IInvStep, RoundsAssumption DEF DevInv
<1>3. ASSUME part = "solana"
      PROVE  Sol!IInv'
  <2>1. [Sol!Next]_Sol!vars
    BY <1>3 DEF DeviceNext, RoundVars, Sol!vars, Sol!hostVars, Sol!globals, Sol!history
  <2> QED BY <1>3, <2>1, Sol!IInvStep, RoundsAssumption DEF DevInv
<1>4. ASSUME part = "tuned"
      PROVE  WorkerInv'
  <2>1. [Next]_vars
    BY <1>4 DEF DeviceNext, vars
  <2> QED BY <1>4, <2>1, WorkerInvStep DEF DevInv
<1>5. ASSUME part # "tuned"
      PROVE  NoPanic' /\ tuned' = 0
  <2>1. CASE part = "explicit" /\ Explicitly!Next
    BY <2>1 DEF DevInv, NoPanic, Explicitly!Next, Explicitly!Batch, Explicitly!MissBatch,
                Explicitly!HitBatch, Explicitly!FailBatch, Explicitly!ChangeSpeed
  <2>2. CASE UNCHANGED vars
    BY <1>5, <2>2 DEF DevInv, NoPanic, vars
  <2> QED BY <1>5, <2>1, <2>2 DEF DeviceNext
<1> QED BY <1>1, <1>2, <1>3, <1>4, <1>5 DEF DevInv

\* Whichever part runs, its invariant holds.
THEOREM DeviceInvariance == DeviceSpec => []DevInv
BY InitDevInv, DevInvStep, PTL DEF DeviceSpec

\* Neither a tuned nor an explicit size ever makes clamp panic.
THEOREM DeviceNeverPanics == DeviceSpec => []NoPanic
<1>1. DevInv => NoPanic
  BY DEF DevInv, WorkerInv
<1> QED BY <1>1, DeviceInvariance, PTL

\* At any constant speed that many tuned rounds lead to a round between half and
\* twice the target, or to a limit of tuning (gpu.rs:104-119).
THEOREM DeviceSettles == DeviceSpec => []Settles
<1>1. DevInv => Settles
  <2> SUFFICES ASSUME DevInv
               PROVE  Settles
    OBVIOUS
  <2>1. CASE tuned = 0
    BY <2>1, StepsAssumption DEF Settles
  <2>2. CASE tuned # 0
    <3>1. TypeOK /\ InRange /\ Settled /\ ~(Explicit > 0)
      BY <2>2 DEF DevInv, WorkerInv, Settled
    <3> QED BY <3>1, SettledAtLast DEF TypeOK, InRange, Settled
  <2> QED BY <2>1, <2>2
<1> QED BY <1>1, DeviceInvariance, PTL

\* What a round of either device returns is one whole candidate that matches, or
\* nothing, and then no candidate that matches was passed over.
THEOREM DeviceResult == DeviceSpec => []RoundIsOne
<1>1. DevInv => RoundIsOne
  BY DEF DevInv, RoundIsOne, Eth!IInv, Eth!Read, Sol!IInv, Sol!Read, Sol!NothingMissed
<1> QED BY <1>1, DeviceInvariance, PTL

\* The counts a round returns are exact, and after a hit the other threads stop
\* at their next look at the done flag.
THEOREM DeviceCounts == DeviceSpec => []CountsExact
<1>1. DevInv => CountsExact
  <2> SUFFICES ASSUME DevInv
               PROVE  CountsExact
    OBVIOUS
  <2>1. part = "ethereum" => Eth!CountExact /\ Eth!StopsSoon
    BY DEF DevInv, Eth!IInv, Eth!Read, Eth!Late, Eth!StopsSoon
  <2>2. part = "solana" => Sol!CountsExact /\ Sol!StopsSoon
    BY Sol!Stops, RoundsAssumption DEF DevInv, Sol!IInv, Sol!Read
  <2> QED BY <2>1, <2>2 DEF CountsExact
<1> QED BY <1>1, DeviceInvariance, PTL

\* The two keys of an Ethereum thread stay a pair for the whole walk.
THEOREM DevicePairs == DeviceSpec => []KeysPaired
<1>1. DevInv => KeysPaired
  BY Eth!PairKept, RoundsAssumption DEF DevInv, KeysPaired
<1> QED BY <1>1, DeviceInvariance, PTL

\* Device memory is used only while it is allocated and is gone with the worker,
\* and the rounds' variables are of their types.
THEOREM DeviceMemory == DeviceSpec => []MemoryOwned
<1>1. DevInv => MemoryOwned
  <2> SUFFICES ASSUME DevInv
               PROVE  MemoryOwned
    OBVIOUS
  <2>1. part = "ethereum" => Eth!TypeOK /\ Eth!BufferOwned
    BY Eth!Typed, RoundsAssumption DEF DevInv, Eth!IInv, Eth!Memory
  <2>2. part = "solana" => Sol!TypeOK /\ Sol!BufferOwned
    BY Sol!Typed, RoundsAssumption DEF DevInv, Sol!IInv, Sol!Memory
  <2> QED BY <2>1, <2>2 DEF MemoryOwned
<1> QED BY <1>1, DeviceInvariance, PTL
=============================================================================
