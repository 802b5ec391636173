------------------------- MODULE MCAddresses_proofs -------------------------
(***************************************************************************)
(* What is proved on the way from random bytes to an address, for every    *)
(* size the assumptions of MCAddresses admit: no word of a random stream   *)
(* is drawn twice; the hash functions compress the blocks of the padded    *)
(* message, however it is cut; CPU and kernel accept the same Ethereum     *)
(* addresses, as many as the odds shown to the user say; the encoder of    *)
(* the search writes the Base58 of every key; CPU and kernel decide every  *)
(* Solana candidate alike and accept those whose address is as asked.      *)
(***************************************************************************)
EXTENDS MCAddresses, FiniteSetTheorems, SequenceTheorems, WellFoundedInduction, TLAPS

-----------------------------------------------------------------------------
(* Induction and recursive functions. *)

\* A set of numbers has a least one.
LEMMA LeastNat ==
  ASSUME NEW S, S \subseteq Nat, S # {}
  PROVE  \E m \in S : \A k \in S : m <= k
<1> DEFINE R == {ss \in Nat \X Nat : ss[1] < ss[2]}
<1>1. OpToRel(<, Nat) = R
  BY Zenon DEF OpToRel
<1>2. IsWellFoundedOn(R, Nat)
  BY <1>1, NatLessThanWellFounded, Zenon
<1> HIDE DEF R
<1>3. PICK m \in S : \A k \in S : ~(<<k, m>> \in R)
  BY <1>2, WFMin, Zenon
<1>4. \A k \in S : m <= k
  <2> SUFFICES ASSUME NEW k \in S PROVE m <= k
    OBVIOUS
  <2>1. m \in Nat /\ k \in Nat /\ ~(<<k, m>> \in R)
    BY <1>3
  <2> QED BY <2>1 DEF R
<1> QED BY <1>4

LEMMA InductionOnNat ==
  ASSUME NEW S, 0 \in S, \A n \in Nat : n \in S => n + 1 \in S
  PROVE  \A n \in Nat : n \in S
<1> SUFFICES ASSUME NEW n0 \in Nat, n0 \notin S PROVE FALSE
  OBVIOUS
<1>1. PICK m \in Nat \ S : \A k \in Nat \ S : m <= k
  <2>1. Nat \ S \subseteq Nat /\ Nat \ S # {}
    OBVIOUS
  <2> QED BY <2>1, LeastNat
<1>2. m # 0 /\ m - 1 \in Nat /\ (m - 1) + 1 = m
  BY <1>1
<1>3. m - 1 \in S
  BY <1>1, <1>2
<1> QED BY <1>1, <1>2, <1>3

\* A function on 0 .. n that starts with first and whose every value is made of the
\* one before.
Recursive(T, n, first, next) ==
  \E f \in [0 .. n -> T] : f[0] = first /\ \A i \in 1 .. n : f[i] = next[<<i, f[i - 1]>>]

LEMMA Recursion ==
  ASSUME NEW T, NEW first \in T, NEW next \in [Nat \X T -> T], NEW n0 \in Nat
  PROVE  Recursive(T, n0, first, next)
<1> DEFINE Is(n, f) == f[0] = first /\ \A i \in 1 .. n : f[i] = next[<<i, f[i - 1]>>]
           S == {n \in Nat : \E f \in [0 .. n -> T] : Is(n, f)}
<1>1. 0 \in S
  <2> DEFINE g == [i \in 0 .. 0 |-> first]
  <2>1. g \in [0 .. 0 -> T] /\ Is(0, g)
    OBVIOUS
  <2> QED BY <2>1
<1>2. ASSUME NEW n \in Nat, n \in S PROVE n + 1 \in S
  <2>1. PICK f \in [0 .. n -> T] : Is(n, f)
    BY <1>2
  <2> DEFINE g == [i \in 0 .. n + 1 |-> IF i = n + 1 THEN next[<<n + 1, f[n]>>] ELSE f[i]]
  <2>2. g \in [0 .. n + 1 -> T]
    <3>1. f[n] \in T /\ <<n + 1, f[n]>> \in Nat \X T
      OBVIOUS
    <3>2. next[<<n + 1, f[n]>>] \in T
      BY <3>1
    <3>3. \A i \in 0 .. n + 1 : i # n + 1 => i \in 0 .. n
      OBVIOUS
    <3> QED BY <3>2, <3>3
  <2>3. g[0] = first
    BY <2>1
  <2>4. ASSUME NEW i \in 1 .. n + 1 PROVE g[i] = next[<<i, g[i - 1]>>]
    <3>1. i \in 0 .. n + 1 /\ i - 1 \in 0 .. n /\ i - 1 \in 0 .. n + 1 /\ i - 1 # n + 1
      OBVIOUS
    <3>2. g[i - 1] = f[i - 1]
      BY <3>1
    <3>3. CASE i = n + 1
      <4>1. i - 1 = n /\ g[i] = next[<<n + 1, f[n]>>]
        BY <3>1, <3>3
      <4> HIDE DEF g
      <4> QED BY <3>2, <3>3, <4>1
    <3>4. CASE i # n + 1
      <4>1. i \in 1 .. n /\ g[i] = f[i]
        BY <3>1, <3>4
      <4> HIDE DEF g
      <4> QED BY <2>1, <3>2, <4>1
    <3> QED BY <3>3, <3>4
  <2> HIDE DEF g
  <2>5. \E f1 \in [0 .. n + 1 -> T] : Is(n + 1, f1)
    BY <2>2, <2>3, <2>4
  <2> HIDE DEF Is
  <2> QED BY <2>5
<1> HIDE DEF S
<1>3. n0 \in S
  BY <1>1, <1>2, InductionOnNat
<1> QED BY <1>3 DEF S, Is, Recursive

\* The same on all numbers: the functions on 0 .. n agree where they are defined.
RecursiveOnNat(T, first, next) ==
  \E f \in [Nat -> T] : f[0] = first /\ \A i \in Nat : f[i + 1] = next[<<i + 1, f[i]>>]

LEMMA RecursionOnNat ==
  ASSUME NEW T, NEW first \in T, NEW next \in [Nat \X T -> T]
  PROVE  RecursiveOnNat(T, first, next)
<1> DEFINE Is(n, f) == /\ f \in [0 .. n -> T] /\ f[0] = first
                       /\ \A i \in 1 .. n : f[i] = next[<<i, f[i - 1]>>]
           upTo(n) == CHOOSE f : Is(n, f)
           whole == [n \in Nat |-> upTo(n)[n]]
<1>1. \A n \in Nat : Is(n, upTo(n))
  <2> SUFFICES ASSUME NEW n \in Nat PROVE \E f : Is(n, f)
    BY Zenon
  <2>1. Recursive(T, n, first, next)
    BY Recursion
  <2>2. PICK f \in [0 .. n -> T] : f[0] = first /\ \A i \in 1 .. n : f[i] = next[<<i, f[i - 1]>>]
    BY <2>1 DEF Recursive
  <2>3. Is(n, f)
    BY <2>2
  <2> QED BY <2>3
<1> HIDE DEF upTo
<1>2. ASSUME NEW n \in Nat PROVE \A i \in 0 .. n : upTo(n + 1)[i] = upTo(n)[i]
  <2> DEFINE f == upTo(n)
             g == upTo(n + 1)
             S == {i \in Nat : i \in 0 .. n => g[i] = f[i]}
  <2>1. Is(n, f) /\ Is(n + 1, g)
    BY <1>1
  <2> HIDE DEF f, g
  <2>2. 0 \in S
    BY <2>1
  <2>3. ASSUME NEW i \in Nat, i \in S PROVE i + 1 \in S
    <3> SUFFICES ASSUME i + 1 \in 0 .. n PROVE g[i + 1] = f[i + 1]
      OBVIOUS
    <3>1. i + 1 \in 1 .. n /\ i + 1 \in 1 .. n + 1 /\ i \in 0 .. n /\ (i + 1) - 1 = i
      OBVIOUS
    <3>2. f[i + 1] = next[<<i + 1, f[(i + 1) - 1]>>] /\ g[i + 1] = next[<<i + 1, g[(i + 1) - 1]>>]
      BY <2>1, <3>1
    <3>3. g[i] = f[i]
      BY <2>3, <3>1
    <3> QED BY <3>1, <3>2, <3>3
  <2> HIDE DEF S
  <2>4. \A i \in Nat : i \in S
    BY <2>2, <2>3, InductionOnNat
  <2>5. \A i \in 0 .. n : g[i] = f[i]
    BY <2>4 DEF S
  <2> QED BY <2>5 DEF f, g
<1>3. whole \in [Nat -> T]
  <2>1. \A n \in Nat : upTo(n)[n] \in T
    BY <1>1
  <2> QED BY <2>1
<1>4. whole[0] = first
  BY <1>1
<1>5. ASSUME NEW i \in Nat PROVE whole[i + 1] = next[<<i + 1, whole[i]>>]
  <2>1. i + 1 \in Nat /\ i + 1 \in 1 .. i + 1 /\ (i + 1) - 1 = i /\ i \in 0 .. i
    OBVIOUS
  <2>2. upTo(i + 1)[i + 1] = next[<<i + 1, upTo(i + 1)[(i + 1) - 1]>>]
    BY <1>1, <2>1
  <2>3. upTo(i + 1)[i] = upTo(i)[i]
    BY <1>2, <2>1
  <2>4. whole[i + 1] = upTo(i + 1)[i + 1] /\ whole[i] = upTo(i)[i]
    BY <2>1
  <2> HIDE DEF whole, Is
  <2> QED BY <2>1, <2>2, <2>3, <2>4
<1> HIDE DEF whole
<1> QED BY <1>3, <1>4, <1>5 DEF RecursiveOnNat

-----------------------------------------------------------------------------
(* Quotients and remainders. *)

LEMMA DivMod ==
  ASSUME NEW x \in Nat, NEW b \in Nat \ {0}
  PROVE  x \div b \in Nat /\ x % b \in 0 .. b - 1 /\ x = (x \div b) * b + (x % b)
<1>1. x \div b \in Nat
  OBVIOUS
<1>2. x % b \in 0 .. b - 1
  OBVIOUS
<1>3. x = (x \div b) * b + (x % b)
  OBVIOUS
<1> QED BY <1>1, <1>2, <1>3

LEMMA DivUnique ==
  ASSUME NEW b \in Nat \ {0}, NEW q \in Nat, NEW r \in 0 .. b - 1
  PROVE  (q * b + r) \div b = q /\ (q * b + r) % b = r
OBVIOUS

\* A number is known by its quotient and its remainder.
LEMMA Digits ==
  ASSUME NEW b \in Nat \ {0}, NEW x \in Nat, NEW y \in Nat, x \div b = y \div b, x % b = y % b
  PROVE  x = y
BY DivMod

LEMMA DivNext ==
  ASSUME NEW b \in Nat \ {0}, NEW x \in Nat
  PROVE  IF (x % b) + 1 = b THEN (x + 1) % b = 0 /\ (x + 1) \div b = x \div b + 1
         ELSE (x + 1) % b = (x % b) + 1 /\ (x + 1) \div b = x \div b
OBVIOUS

LEMMA DivBelow ==
  ASSUME NEW b \in Nat \ {0}, NEW x \in Nat, x < b * b
  PROVE  x \div b \in 0 .. b - 1
OBVIOUS

\* A multiple below another is a whole step below it.
LEMMA Multiples ==
  ASSUME NEW d \in Nat \ {0}, NEW x \in Nat, NEW y \in Nat, x % d = 0, y % d = 0, x < y
  PROVE  x + d <= y /\ (x + d) % d = 0
<1>1. PICK p \in Nat, q \in Nat : x = p * d /\ y = q * d
  <2>1. /\ x \div d \in Nat /\ x = (x \div d) * d + (x % d)
        /\ y \div d \in Nat /\ y = (y \div d) * d + (y % d)
    BY DivMod
  <2>2. x = (x \div d) * d /\ y = (y \div d) * d
    BY <2>1
  <2> QED BY <2>1, <2>2
<1>2. p < q
  BY <1>1
<1>3. p + 1 \in Nat /\ (p + 1) * d <= q * d /\ (p + 1) * d = x + d
  BY <1>1, <1>2
<1>4. ((p + 1) * d + 0) % d = 0
  BY <1>3, DivUnique
<1> QED BY <1>1, <1>3, <1>4

LEMMA ProductPositive ==
  ASSUME NEW x \in Nat \ {0}, NEW y \in Nat \ {0}
  PROVE  x * y \in Nat \ {0}
<1>1. x - 1 \in Nat /\ x = (x - 1) + 1 /\ y >= 1
  OBVIOUS
<1>2. (x - 1) * y \in Nat /\ ((x - 1) + 1) * y = (x - 1) * y + y
  BY <1>1
<1> QED BY <1>1, <1>2

LEMMA ProductMonotone ==
  ASSUME NEW a \in Nat, NEW b \in Nat, NEW c \in Nat, NEW d \in Nat, a <= b, c <= d
  PROVE  a * c <= b * d
<1> DEFINE x == b - a
           y == d - c
<1>1. x \in Nat /\ y \in Nat /\ b = a + x /\ d = c + y
  OBVIOUS
<1> HIDE DEF x, y
<1>2. (a + x) * (c + y) = a * c + a * y + x * c + x * y
  BY <1>1
<1>3. a * c \in Nat /\ a * y \in Nat /\ x * c \in Nat /\ x * y \in Nat
  BY <1>1
<1> QED BY <1>1, <1>2, <1>3

\* Dividing twice is dividing by the product.
LEMMA DivDiv ==
  ASSUME NEW x \in Nat, NEW a \in Nat \ {0}, NEW b \in Nat \ {0}
  PROVE  (x \div a) \div b = x \div (a * b)
<1> DEFINE q == x \div a
           r == x % a
           s == q \div b
           t == q % b
           d == a * b
           w == t * a + r
<1>1. q \in Nat /\ r \in 0 .. a - 1 /\ x = q * a + r
  BY DivMod
<1> HIDE DEF q, r
<1>2. s \in Nat /\ t \in 0 .. b - 1 /\ q = s * b + t
  BY <1>1, DivMod
<1> HIDE DEF s, t
<1>3. (s * b + t) * a = s * (a * b) + t * a /\ s * (a * b) \in Nat /\ t * a \in Nat
  BY <1>2
<1>4. d \in Nat \ {0}
  BY ProductPositive
<1>5. w \in 0 .. d - 1
  <2>1. t * a <= (b - 1) * a
    <3>1. t \in Nat /\ b - 1 \in Nat /\ t <= b - 1 /\ a \in Nat /\ a <= a
      BY <1>2
    <3> QED BY <3>1, ProductMonotone
  <2>2. (b - 1) * a = a * b - a
    OBVIOUS
  <2> QED BY <1>1, <1>3, <2>1, <2>2
<1>6. x = s * d + w
  BY <1>1, <1>2, <1>3
<1> HIDE DEF d, w
<1>7. x \div d = s
  BY <1>2, <1>4, <1>5, <1>6, DivUnique
<1> QED BY <1>7 DEF s, q, d

\* A quotient is zero exactly where the number is below the divisor.
LEMMA DivZero ==
  ASSUME NEW x \in Nat, NEW a \in Nat \ {0}
  PROVE  x \div a = 0 <=> x < a
<1> DEFINE q == x \div a
           r == x % a
<1>1. q \in Nat /\ r \in 0 .. a - 1 /\ x = q * a + r
  BY DivMod
<1>2. CASE q = 0
  <2> HIDE DEF q, r
  <2> QED BY <1>1, <1>2 DEF q
<1>3. CASE q # 0
  <2> HIDE DEF q, r
  <2>1. 1 <= q /\ 1 * a <= q * a
    <3>1. q \in Nat /\ 1 \in Nat /\ 1 <= q /\ a \in Nat /\ a <= a
      BY <1>1, <1>3
    <3> QED BY <3>1, ProductMonotone
  <2>2. q * a \in Nat
    BY <1>1
  <2> QED BY <1>1, <1>3, <2>1, <2>2 DEF q
<1> QED BY <1>2, <1>3

-----------------------------------------------------------------------------
(* ChaChaStream. *)

W2 == WordBase * WordBase

\* The n-th block of a thread's stream under a round's key, as the code's four
\* words; after the last one the counter goes round.
Numbered(k, t, n) ==
  [key |-> k, low |-> n % WordBase, high |-> (n \div WordBase) % WordBase,
   stream |-> t % WordBase, streamHigh |-> t \div WordBase]

LEMMA StreamFacts ==
  /\ WordBase \in Nat \ {0} /\ Words \in Nat /\ MaxRounds \in Nat /\ W2 \in Nat \ {0}
  /\ DrawWords \in Nat \ {0} /\ DrawWords <= Words /\ Words % DrawWords = 0
  /\ \A t \in Threads : t \in Nat /\ t < W2
BY SizesAssumption DEF Random!StreamFits, W2

\* Blocks with different names are different states of the generator.
LEMMA NamesApart ==
  ASSUME NEW k, NEW t \in Threads, NEW u \in Threads,
         NEW m \in Nat, NEW n \in Nat, m < W2, n < W2,
         Numbered(k, t, m) = Numbered(k, u, n)
  PROVE  t = u /\ m = n
<1>1. WordBase \in Nat \ {0} /\ t \in Nat /\ u \in Nat
  BY StreamFacts
<1>2. /\ m % WordBase = n % WordBase
      /\ (m \div WordBase) % WordBase = (n \div WordBase) % WordBase
      /\ t % WordBase = u % WordBase /\ t \div WordBase = u \div WordBase
  BY DEF Numbered
<1>3. m \div WordBase \in 0 .. WordBase - 1 /\ n \div WordBase \in 0 .. WordBase - 1
  BY <1>1, DivBelow DEF W2
<1>4. m \div WordBase = n \div WordBase
  BY <1>1, <1>2, <1>3
<1> QED BY <1>1, <1>2, <1>4, Digits

\* Counting a state gives the next block of the stream.
LEMMA CountedIsNext ==
  ASSUME NEW k, NEW t, NEW n \in Nat, n < W2
  PROVE  Random!Counted(Numbered(k, t, n)) = Numbered(k, t, n + 1)
<1>1. WordBase \in Nat \ {0}
  BY StreamFacts
<1>2. n \div WordBase \in 0 .. WordBase - 1
  BY <1>1, DivBelow DEF W2
<1>3. (n \div WordBase) % WordBase = n \div WordBase
  BY <1>1, <1>2
<1>4. CASE (n % WordBase) + 1 = WordBase
  <2>1. (n + 1) % WordBase = 0 /\ (n + 1) \div WordBase = n \div WordBase + 1
    BY <1>1, <1>4, DivNext
  <2> QED BY <1>3, <1>4, <2>1 DEF Random!Counted, Numbered
<1>5. CASE (n % WordBase) + 1 # WordBase
  <2>1. (n + 1) % WordBase = (n % WordBase) + 1 /\ (n + 1) \div WordBase = n \div WordBase
    BY <1>1, <1>5, DivNext
  <2> QED BY <1>3, <1>5, <2>1 DEF Random!Counted, Numbered
<1> QED BY <1>4, <1>5

\* A stream starts at its block 0.
LEMMA SeededIsFirst ==
  ASSUME NEW t
  PROVE  Random!Seeded(t) = Numbered(rounds', t, 0)
<1>1. 0 % WordBase = 0 /\ 0 \div WordBase = 0
  BY StreamFacts
<1> QED BY <1>1 DEF Random!Seeded, Numbered

\* The words of a draw.
DrawnWords(b, at) == {[block |-> b, word |-> w] : w \in at .. at + DrawWords - 1}

LEMMA DrawSize ==
  ASSUME NEW b, NEW at \in Nat
  PROVE  IsFiniteSet(DrawnWords(b, at)) /\ Cardinality(DrawnWords(b, at)) = DrawWords
<1> DEFINE I == at .. at + DrawWords - 1
           f == [w \in I |-> [block |-> b, word |-> w]]
<1>1. at \in Int /\ at + DrawWords - 1 \in Int /\ DrawWords \in Nat \ {0}
  BY StreamFacts
<1>2. IsFiniteSet(I) /\ Cardinality(I) = DrawWords
  BY <1>1, FS_Interval
<1>3. f \in Bijection(I, DrawnWords(b, at))
  <2>1. f \in [I -> DrawnWords(b, at)] /\ DrawnWords(b, at) = {f[w] : w \in I}
    BY DEF DrawnWords
  <2>2. \A v, w \in I : f[v] = f[w] => v = w
    OBVIOUS
  <2>3. \A e \in DrawnWords(b, at) : \E w \in I : f[w] = e
    BY <2>1
  <2> HIDE DEF f, I
  <2>4. f \in Injection(I, DrawnWords(b, at))
    BY <2>1, <2>2 DEF Injection, IsInjective
  <2>5. f \in Surjection(I, DrawnWords(b, at))
    BY <2>1, <2>3 DEF Surjection
  <2> QED BY <2>4, <2>5 DEF Bijection
<1>4. ExistsBijection(I, DrawnWords(b, at))
  BY <1>3 DEF ExistsBijection
<1> QED BY <1>2, <1>4, FS_Bijection

Blocks == [key : Nat, low : Nat, high : Nat, stream : Nat, streamHigh : Nat]

StreamTypes ==
  /\ rounds \in Nat /\ total \in Nat
  /\ states \in [Threads -> Blocks] /\ words \in [Threads -> Blocks]
  /\ offset \in [Threads -> 0 .. Words] /\ begun \in [Threads -> 0 .. W2]

\* Where each thread is in its stream: the state is the next block, and the words
\* are of the block before it.
Positions ==
  /\ \A t \in Threads : offset[t] % DrawWords = 0 /\ (begun[t] = 0 => offset[t] = Words)
  /\ rounds > 0 => \A t \in Threads :
       /\ states[t] = Numbered(rounds, t, begun[t])
       /\ begun[t] > 0 => words[t] = Numbered(rounds, t, begun[t] - 1)

\* What was drawn in this round is behind the position of the thread that drew it;
\* what was drawn before is of another key.
Used ==
  \A d \in drawn :
    /\ d.word \in Nat /\ d.block.key \in 1 .. rounds
    /\ d.block.key = rounds => \E t \in Threads : \E m \in 0 .. begun[t] - 1 :
         d.block = Numbered(rounds, t, m) /\ (m + 1 = begun[t] => d.word < offset[t])

StreamInv == StreamTypes /\ Positions /\ Used /\ IsFiniteSet(drawn) /\ Random!DrawsFresh

LEMMA SameSize ==
  ASSUME NEW S
  PROVE  Random!Cardinality(S) = Cardinality(S)
BY DEF Random!Cardinality, Cardinality

LEMMA NumberedTyped ==
  ASSUME NEW k \in Nat, NEW t \in Nat, NEW n \in Nat
  PROVE  Numbered(k, t, n) \in Blocks
<1>1. /\ n % WordBase \in Nat /\ n \div WordBase \in Nat /\ t % WordBase \in Nat
      /\ t \div WordBase \in Nat
  BY StreamFacts, DivMod
<1>2. (n \div WordBase) % WordBase \in Nat
  BY <1>1, StreamFacts, DivMod
<1> QED BY <1>1, <1>2 DEF Numbered, Blocks

LEMMA InitStreamInv ==
  ASSUME Random!Init
  PROVE  StreamInv
<1> USE DEF Random!Init
<1>1. Random!NoBlock \in Blocks
  BY DEF Random!NoBlock, Blocks
<1>2. StreamTypes /\ Positions /\ Used
  BY <1>1, StreamFacts DEF StreamTypes, Positions, Used
<1>3. IsFiniteSet(drawn) /\ Cardinality(drawn) = 0
  BY FS_EmptySet
<1>4. Random!DrawsFresh
  BY <1>3, SameSize, StreamFacts DEF Random!DrawsFresh
<1> QED BY <1>2, <1>3, <1>4 DEF StreamInv

\* A draw takes the next DrawWords words of block n of a thread's stream, which
\* nobody has drawn.
LEMMA DrawIsFresh ==
  ASSUME StreamInv, rounds > 0, NEW t \in Threads, NEW n \in Nat, n < W2, NEW at \in Nat,
         \/ n = begun[t]
         \/ n + 1 = begun[t] /\ at = offset[t]
  PROVE  DrawnWords(Numbered(rounds, t, n), at) \cap drawn = {}
<1> SUFFICES ASSUME NEW d \in drawn, d \in DrawnWords(Numbered(rounds, t, n), at)
             PROVE  FALSE
  OBVIOUS
<1>1. d.block = Numbered(rounds, t, n) /\ d.word >= at
  BY DEF DrawnWords
<1>2. d.block.key = rounds
  BY <1>1 DEF Numbered
<1>3. PICK u \in Threads : \E m \in 0 .. begun[u] - 1 :
        d.block = Numbered(rounds, u, m) /\ (m + 1 = begun[u] => d.word < offset[u])
  BY <1>2 DEF StreamInv, Used
<1>4. PICK m \in 0 .. begun[u] - 1 :
        d.block = Numbered(rounds, u, m) /\ (m + 1 = begun[u] => d.word < offset[u])
  BY <1>3
<1>5. begun[u] \in 0 .. W2 /\ begun[t] \in 0 .. W2 /\ W2 \in Nat /\ offset[t] \in 0 .. Words
  BY StreamFacts DEF StreamInv, StreamTypes
<1>6. m \in Nat /\ m < W2
  BY <1>5
<1>7. u = t /\ m = n
  <2>1. Numbered(rounds, u, m) = Numbered(rounds, t, n)
    BY <1>1, <1>4
  <2> QED BY <1>6, <2>1, NamesApart
<1>8. d.word \in Nat
  BY DEF StreamInv, Used
<1> QED BY <1>1, <1>4, <1>5, <1>7, <1>8, StreamFacts

\* What such a draw makes of the invariant.
LEMMA DrawKeeps ==
  ASSUME StreamInv, rounds > 0, NEW t \in Threads, NEW n \in Nat, n < W2, NEW at \in Nat,
         \/ n = begun[t]
         \/ n + 1 = begun[t] /\ at = offset[t],
         at % DrawWords = 0, at + DrawWords <= Words,
         Random!Take(t, Numbered(rounds, t, n), at), rounds' = rounds,
         begun' = [begun EXCEPT ![t] = n + 1],
         states' = [states EXCEPT ![t] = Numbered(rounds, t, n + 1)],
         words' = [words EXCEPT ![t] = Numbered(rounds, t, n)]
  PROVE  StreamInv'
<1> DEFINE b == Numbered(rounds, t, n)
<1>1. /\ drawn' = drawn \cup DrawnWords(b, at) /\ total' = total + 1
      /\ offset' = [offset EXCEPT ![t] = at + DrawWords]
  BY DEF Random!Take, DrawnWords
<1>2. /\ DrawWords \in Nat \ {0} /\ Words \in Nat /\ W2 \in Nat /\ t \in Nat
      /\ rounds \in Nat /\ total \in Nat
      /\ offset \in [Threads -> 0 .. Words] /\ begun \in [Threads -> 0 .. W2]
      /\ states \in [Threads -> Blocks] /\ words \in [Threads -> Blocks]
  BY StreamFacts DEF StreamInv, StreamTypes
<1>3. b \in Blocks /\ Numbered(rounds, t, n + 1) \in Blocks
  BY <1>2, NumberedTyped
<1>4. StreamTypes'
  BY <1>1, <1>2, <1>3 DEF StreamTypes
<1>5. (at + DrawWords) % DrawWords = 0
  <2>1. CASE at < Words
    BY <1>2, <2>1, StreamFacts, Multiples
  <2>2. CASE ~(at < Words)
    BY <1>2, <2>2
  <2> QED BY <2>1, <2>2
<1>6. Positions'
  <2> SUFFICES ASSUME NEW u \in Threads
               PROVE  /\ offset'[u] % DrawWords = 0 /\ (begun'[u] = 0 => offset'[u] = Words)
                      /\ states'[u] = Numbered(rounds, u, begun'[u])
                      /\ begun'[u] > 0 => words'[u] = Numbered(rounds, u, begun'[u] - 1)
    BY DEF Positions
  <2>1. CASE u = t
    <3>1. offset'[u] = at + DrawWords /\ begun'[u] = n + 1
      BY <1>1, <1>2, <2>1
    <3>2. states'[u] = Numbered(rounds, u, n + 1) /\ words'[u] = Numbered(rounds, u, n)
      BY <1>2, <2>1
    <3>3. n + 1 - 1 = n /\ n + 1 > 0
      OBVIOUS
    <3> QED BY <1>5, <3>1, <3>2, <3>3
  <2>2. CASE u # t
    <3>1. /\ offset'[u] = offset[u] /\ begun'[u] = begun[u]
          /\ states'[u] = states[u] /\ words'[u] = words[u]
      BY <1>1, <1>2, <2>2
    <3> QED BY <3>1 DEF StreamInv, Positions
  <2> QED BY <2>1, <2>2
<1>7. Used'
  <2> SUFFICES ASSUME NEW d \in drawn'
               PROVE  /\ d.word \in Nat /\ d.block.key \in 1 .. rounds
                      /\ d.block.key = rounds => \E u \in Threads : \E m \in 0 .. begun'[u] - 1 :
                           /\ d.block = Numbered(rounds, u, m)
                           /\ m + 1 = begun'[u] => d.word < offset'[u]
    BY DEF Used
  <2>1. CASE d \in DrawnWords(b, at)
    <3>1. PICK w \in at .. at + DrawWords - 1 : d = [block |-> b, word |-> w]
      BY <2>1 DEF DrawnWords
    <3>2. /\ d.word = w /\ w \in Nat /\ d.block = Numbered(rounds, t, n)
          /\ w < at + DrawWords /\ d.block.key = rounds
      BY <1>2, <3>1 DEF Numbered
    <3>3. begun'[t] = n + 1 /\ offset'[t] = at + DrawWords /\ n \in 0 .. (n + 1) - 1
      BY <1>1, <1>2
    <3>4. n \in 0 .. begun'[t] - 1 /\ d.word < offset'[t]
      BY <3>2, <3>3
    <3> QED BY <1>2, <3>2, <3>4
  <2>2. CASE d \in drawn
    <3>1. d.word \in Nat /\ d.block.key \in 1 .. rounds
      BY <2>2 DEF StreamInv, Used
    <3>2. ASSUME d.block.key = rounds
          PROVE  \E u \in Threads : \E m \in 0 .. begun'[u] - 1 :
                   /\ d.block = Numbered(rounds, u, m)
                   /\ m + 1 = begun'[u] => d.word < offset'[u]
      <4>1. PICK u \in Threads : \E m \in 0 .. begun[u] - 1 :
              d.block = Numbered(rounds, u, m) /\ (m + 1 = begun[u] => d.word < offset[u])
        BY <2>2, <3>2 DEF StreamInv, Used
      <4>2. PICK m \in 0 .. begun[u] - 1 :
              d.block = Numbered(rounds, u, m) /\ (m + 1 = begun[u] => d.word < offset[u])
        BY <4>1
      <4>3. begun[u] \in Nat /\ m \in Nat /\ m <= begun[u] - 1 /\ offset[u] \in Nat
        BY <1>2
      <4>4. CASE u # t
        BY <1>1, <1>2, <4>2, <4>4
      <4>5. CASE u = t
        <5>1. begun'[t] = n + 1 /\ offset'[t] = at + DrawWords
          BY <1>1, <1>2
        <5>2. m \in 0 .. (n + 1) - 1
          BY <4>3, <4>5
        <5>3. m + 1 = n + 1 => d.word < at + DrawWords
          BY <1>2, <3>1, <4>2, <4>3, <4>5
        <5> QED BY <4>2, <4>5, <5>1, <5>2, <5>3
      <4> QED BY <4>4, <4>5
    <3> QED BY <3>1, <3>2
  <2> QED BY <1>1, <2>1, <2>2
<1>8. IsFiniteSet(drawn') /\ Random!DrawsFresh'
  <2> DEFINE N == DrawnWords(b, at)
             old == Cardinality(drawn)
  <2>1. N \cap drawn = {} /\ IsFiniteSet(N) /\ Cardinality(N) = DrawWords
    BY DrawIsFresh, DrawSize
  <2>2. IsFiniteSet(drawn) /\ old = DrawWords * total
    BY SameSize DEF StreamInv, Random!DrawsFresh
  <2>3. drawn \cap N = {} /\ Cardinality({}) = 0
    BY <2>1, FS_EmptySet
  <2>4. /\ IsFiniteSet(drawn \cup N)
        /\ Cardinality(drawn \cup N) = old + Cardinality(N) - Cardinality(drawn \cap N)
    BY <2>1, <2>2, FS_Union
  <2>5. Cardinality(drawn \cup N) = DrawWords * (total + 1)
    <3>1. Cardinality(drawn \cap N) = 0
      BY <2>3
    <3>2. old \in Nat /\ Cardinality(N) \in Nat
      BY <2>1, <2>2, FS_CardinalityType
    <3> HIDE DEF N, old
    <3>3. Cardinality(drawn \cup N) = old + DrawWords
      BY <1>2, <2>1, <2>4, <3>1, <3>2
    <3> QED BY <1>2, <2>2, <3>2, <3>3
  <2> QED BY <1>1, <2>4, <2>5, SameSize DEF Random!DrawsFresh
<1> QED BY <1>4, <1>6, <1>7, <1>8 DEF StreamInv

\* A new round has a new key, so that nothing drawn so far is of it.
LEMMA BeginKeeps ==
  ASSUME StreamInv, Random!BeginRound
  PROVE  StreamInv'
<1> USE DEF Random!BeginRound
<1>1. rounds \in Nat /\ rounds' = rounds + 1 /\ rounds' \in Nat
  BY DEF StreamInv, StreamTypes
<1>2. Random!NoBlock \in Blocks /\ \A t \in Threads : Random!Seeded(t) \in Blocks
  <2>1. \A t \in Threads : Numbered(rounds', t, 0) \in Blocks
    BY <1>1, StreamFacts, NumberedTyped
  <2> QED BY <2>1, SeededIsFirst DEF Random!NoBlock, Blocks
<1>3. StreamTypes'
  BY <1>1, <1>2, StreamFacts DEF StreamInv, StreamTypes
<1>4. Positions'
  BY <1>1, SeededIsFirst, StreamFacts DEF Positions
<1>5. Used'
  <2> SUFFICES ASSUME NEW d \in drawn
               PROVE  d.word \in Nat /\ d.block.key \in 1 .. rounds + 1 /\ d.block.key # rounds + 1
    BY <1>1 DEF Used
  <2> QED BY <1>1 DEF StreamInv, Used
<1>6. IsFiniteSet(drawn') /\ Random!DrawsFresh'
  BY DEF StreamInv, Random!DrawsFresh
<1> QED BY <1>3, <1>4, <1>5, <1>6 DEF StreamInv

LEMMA StreamInvStep ==
  ASSUME StreamInv, [Random!Next]_Random!vars
  PROVE  StreamInv'
<1>1. CASE Random!BeginRound
  BY <1>1, BeginKeeps
<1>2. ASSUME NEW t \in Threads, Random!Draw(t)
      PROVE  StreamInv'
  <2>1. /\ rounds > 0 /\ rounds' = rounds /\ offset[t] \in 0 .. Words /\ begun[t] \in 0 .. W2
        /\ offset[t] % DrawWords = 0
    BY <1>2 DEF Random!Draw, StreamInv, StreamTypes, Positions
  <2>2. states[t] = Numbered(rounds, t, begun[t])
    BY <2>1 DEF StreamInv, Positions
  <2>3. CASE offset[t] = Words
    <3> DEFINE n == begun[t]
    <3>1. /\ n < W2 /\ begun' = [begun EXCEPT ![t] = n + 1]
          /\ words' = [words EXCEPT ![t] = states[t]]
          /\ states' = [states EXCEPT ![t] = Random!Counted(states[t])]
          /\ Random!Take(t, states[t], 0)
      BY <1>2, <2>3 DEF Random!Draw, W2
    <3>2. n \in Nat /\ 0 \in Nat /\ 0 % DrawWords = 0 /\ 0 + DrawWords <= Words
      BY <2>1, StreamFacts
    <3>3. Random!Counted(states[t]) = Numbered(rounds, t, n + 1)
      BY <2>2, <3>1, <3>2, CountedIsNext
    <3> QED BY <2>1, <2>2, <3>1, <3>2, <3>3, DrawKeeps
  <2>4. CASE offset[t] # Words
    <3> DEFINE n == begun[t] - 1
    <3>1. Random!Take(t, words[t], offset[t]) /\ UNCHANGED <<words, states, begun>>
      BY <1>2, <2>4 DEF Random!Draw
    <3>2. begun[t] # 0
      BY <2>4 DEF StreamInv, Positions
    <3>3. n \in Nat /\ n < W2 /\ n + 1 = begun[t]
      BY <2>1, <3>2, StreamFacts
    <3>4. words[t] = Numbered(rounds, t, n)
      BY <2>1, <3>3 DEF StreamInv, Positions
    <3>5. offset[t] \in Nat /\ offset[t] + DrawWords <= Words
      BY <2>1, <2>4, StreamFacts, Multiples
    <3>6. /\ begun' = [begun EXCEPT ![t] = n + 1]
          /\ states' = [states EXCEPT ![t] = Numbered(rounds, t, n + 1)]
          /\ words' = [words EXCEPT ![t] = Numbered(rounds, t, n)]
      BY <2>2, <3>1, <3>3, <3>4 DEF StreamInv, StreamTypes
    <3> HIDE DEF n
    <3> QED BY <2>1, <3>1, <3>3, <3>4, <3>5, <3>6, DrawKeeps
  <2> QED BY <2>3, <2>4
<1>3. CASE UNCHANGED Random!vars
  BY <1>3 DEF Random!vars, StreamInv, StreamTypes, Positions, Used, Random!DrawsFresh
<1> QED BY <1>1, <1>2, <1>3 DEF Random!Next, Random!Finished

-----------------------------------------------------------------------------
(* HashStream. *)

\* What a byte of a block is.
Contents ==
  [kind : {"byte", "pad", "junk"}, value : Int] \cup {Hash!Digit(n, j) : n \in Nat, j \in Nat}

HashTypes ==
  /\ algorithm \in {"sha512", "sha256", "keccak"} /\ pc \in {"update", "final", "done"}
  /\ size \in Nat /\ fed \in Nat /\ left \in Nat /\ fed + left <= size
  /\ cur \in 0 .. Block - 1 /\ counted \in Nat
  /\ buf \in [Hash!Cells -> Contents] /\ blocks \in Seq([Hash!Cells -> Contents])

\* keccak256 has its message in one piece.
OnePiece == algorithm = "keccak" => IF left = 0 THEN fed \in {0, size} ELSE fed + left = size

\* What is taken in is in the blocks and, in order, at the front of the buffer;
\* the rest of it is what the padding will overwrite, and zero for Keccak, whose
\* padding only adds to it.
Buffered ==
  /\ fed = Len(blocks) * Block + cur /\ counted = 8 * (Len(blocks) * Block)
  /\ \A b \in 1 .. Len(blocks), j \in Hash!Cells : blocks[b][j] = Hash!Byte((b - 1) * Block + j)
  /\ \A j \in 0 .. cur - 1 : buf[j] = Hash!Byte(Len(blocks) * Block + j)
  /\ algorithm = "keccak" => \A j \in cur .. Block - 1 : buf[j] = Hash!Zero

HashInv ==
  /\ HashTypes /\ OnePiece
  /\ pc # "done" => Buffered
  /\ pc # "update" => left = 0 /\ fed = size
  /\ Hash!BlocksExact

LEMMA HashFacts ==
  /\ Block \in Nat \ {0} /\ Reserved \in Nat /\ Reserved < Block
  /\ LengthBytes \in Nat \ {0} /\ LengthBytes <= Reserved
  /\ HashByteBase \in Nat \ {0} /\ MaxLength \in Nat
BY SizesAssumption DEF Hash!SizesFit

LEMMA InitHashInv ==
  ASSUME Hash!Init
  PROVE  HashInv
<1> USE DEF Hash!Init
<1>1. HashTypes
  <2>1. buf \in [Hash!Cells -> Contents]
    BY HashFacts DEF Hash!Zero, Hash!Mark, Hash!Cells, Contents
  <2> QED BY <2>1, HashFacts DEF HashTypes
<1>2. Buffered
  BY HashFacts DEF Buffered, Hash!Cells
<1> QED BY <1>1, <1>2 DEF HashInv, OnePiece, Hash!BlocksExact

\* A block more, and the buffer empty again.
LEMMA BlockKeeps ==
  ASSUME HashInv, pc = "update", NEW B \in [Hash!Cells -> Contents],
         \A j \in Hash!Cells : B[j] = Hash!Byte(Len(blocks) * Block + j),
         NEW n \in Nat, n = Block - cur, n <= left, Hash!Takes(n),
         blocks' = Append(blocks, B), counted' = counted + 8 * Block, cur' = 0,
         buf' \in [Hash!Cells -> Contents],
         algorithm = "keccak" => buf' = [j \in Hash!Cells |-> Hash!Zero]
  PROVE  HashInv'
<1> DEFINE nb == Len(blocks)
<1>1. /\ HashTypes /\ OnePiece /\ Buffered /\ Block \in Nat \ {0} /\ nb \in Nat
  BY HashFacts DEF HashInv, HashTypes
<1>2. /\ fed' = fed + n /\ left' = left - n /\ UNCHANGED <<algorithm, size, pc>>
  BY DEF Hash!Takes
<1>3. /\ blocks' \in Seq([Hash!Cells -> Contents]) /\ Len(blocks') = nb + 1
      /\ blocks'[nb + 1] = B /\ \A b \in 1 .. nb : blocks'[b] = blocks[b]
  BY <1>1 DEF HashTypes
<1>4. HashTypes' /\ OnePiece'
  BY <1>1, <1>2, <1>3 DEF HashTypes, OnePiece
<1>5. nb * Block \in Nat /\ (nb + 1) * Block = nb * Block + Block /\ (nb + 1) - 1 = nb
  BY <1>1
<1>6. fed' = (nb + 1) * Block /\ counted' = 8 * ((nb + 1) * Block)
  <2> DEFINE at == nb * Block
  <2>1. /\ fed = at + cur /\ counted = 8 * at /\ (nb + 1) * Block = at + Block
        /\ fed' = fed + n /\ counted' = counted + 8 * Block
    BY <1>2, <1>1, <1>5 DEF Buffered
  <2>2. at \in Nat /\ Block \in Nat /\ cur \in Nat /\ n = Block - cur
    BY <1>1, <1>5 DEF HashTypes
  <2> HIDE DEF at
  <2> QED BY <2>1, <2>2
<1>7. \A b \in 1 .. nb + 1, j \in Hash!Cells : blocks'[b][j] = Hash!Byte((b - 1) * Block + j)
  <2> SUFFICES ASSUME NEW b \in 1 .. nb + 1, NEW j \in Hash!Cells
               PROVE  blocks'[b][j] = Hash!Byte((b - 1) * Block + j)
    OBVIOUS
  <2>1. CASE b = nb + 1
    BY <1>3, <1>5, <2>1
  <2>2. CASE b # nb + 1
    <3>1. b \in 1 .. nb
      BY <1>1, <2>2
    <3> QED BY <1>1, <1>3, <3>1 DEF Buffered
  <2> QED BY <2>1, <2>2
<1>8. algorithm = "keccak" => \A j \in 0 .. Block - 1 : buf'[j] = Hash!Zero
  BY DEF Hash!Cells
<1>9. Buffered'
  BY <1>2, <1>3, <1>5, <1>6, <1>7, <1>8 DEF Buffered, Hash!Byte, Hash!Zero, Hash!Mark, Hash!Cells
<1> QED BY <1>2, <1>4, <1>9 DEF HashInv, Hash!BlocksExact

LEMMA PieceKeeps ==
  ASSUME HashInv, Hash!NextPiece \/ Hash!CallFinal
  PROVE  HashInv'
<1> USE DEF HashInv, HashTypes
<1>1. CASE Hash!NextPiece
  <2>1. /\ pc = "update" /\ left = 0 /\ fed < size
        /\ left' \in IF algorithm = "keccak" THEN {size} ELSE 1 .. size - fed
        /\ UNCHANGED <<algorithm, size, fed, buf, cur, counted, blocks, pc>>
    BY <1>1 DEF Hash!NextPiece
  <2>2. left' \in Nat /\ fed + left' <= size /\ OnePiece'
    <3>1. CASE algorithm = "keccak"
      BY <2>1, <3>1 DEF OnePiece
    <3>2. CASE algorithm # "keccak"
      <4> DEFINE l == left'
      <4>1. l \in 1 .. size - fed /\ size \in Nat /\ fed \in Nat
        BY <2>1, <3>2
      <4> HIDE DEF l
      <4>2. l \in Nat /\ fed + l <= size
        BY <4>1
      <4> QED BY <2>1, <3>2, <4>2 DEF OnePiece, l
    <3> QED BY <3>1, <3>2
  <2> QED BY <2>1, <2>2 DEF Buffered, Hash!BlocksExact
<1>2. CASE Hash!CallFinal
  BY <1>2 DEF Hash!CallFinal, OnePiece, Buffered, Hash!BlocksExact
<1> QED BY <1>1, <1>2

LEMMA WholeBlockKeeps ==
  ASSUME HashInv, Hash!WholeBlock
  PROVE  HashInv'
<1> DEFINE B == Hash!Message(Block)
<1>1. /\ algorithm = "sha512" /\ left >= Block /\ cur = 0 /\ Hash!Takes(Block)
      /\ blocks' = Append(blocks, B) /\ counted' = counted + 8 * Block
      /\ UNCHANGED <<buf, cur>>
  BY DEF Hash!WholeBlock
<1>2. HashTypes /\ Block \in Nat \ {0} /\ Block = Block - cur
  BY <1>1, HashFacts DEF HashInv
<1>3. pc = "update"
  <2>1. left # 0
    BY <1>1, <1>2 DEF HashTypes
  <2> QED BY <2>1 DEF HashInv
<1>4. B \in [Hash!Cells -> Contents]
  BY <1>2 DEF Hash!Message, Hash!Cells, Hash!Byte, HashTypes, Contents
<1>5. fed = Len(blocks) * Block
  BY <1>1, <1>2, <1>3 DEF HashInv, Buffered, HashTypes
<1>6. \A j \in Hash!Cells : B[j] = Hash!Byte(Len(blocks) * Block + j)
  BY <1>5 DEF Hash!Message, Hash!Cells
<1>7. buf' \in [Hash!Cells -> Contents] /\ cur' = 0
  BY <1>1, <1>2 DEF HashTypes
<1> HIDE DEF B
<1> QED BY <1>1, <1>2, <1>3, <1>4, <1>6, <1>7, BlockKeeps

\* The buffer after n bytes more of the piece.
LEMMA FilledExact ==
  ASSUME HashInv, pc = "update", NEW n \in 1 .. Block - cur
  PROVE  /\ Hash!Filled(n) \in [Hash!Cells -> Contents]
         /\ \A j \in 0 .. cur + n - 1 : Hash!Filled(n)[j] = Hash!Byte(Len(blocks) * Block + j)
         /\ \A j \in cur + n .. Block - 1 : Hash!Filled(n)[j] = buf[j]
<1>1. HashTypes /\ Buffered /\ Block \in Nat \ {0} /\ cur \in 0 .. Block - 1 /\ fed \in Nat
  BY HashFacts DEF HashInv, HashTypes
<1>2. Len(blocks) * Block \in Nat /\ fed = Len(blocks) * Block + cur
  BY <1>1 DEF Buffered, HashTypes
<1>3. \A j \in cur .. cur + n - 1 : Hash!Message(n)[j - cur] = Hash!Byte(Len(blocks) * Block + j)
  <2> SUFFICES ASSUME NEW j \in cur .. cur + n - 1
               PROVE  Hash!Message(n)[j - cur] = Hash!Byte(Len(blocks) * Block + j)
    OBVIOUS
  <2>1. j - cur \in 0 .. n - 1 /\ fed + (j - cur) = Len(blocks) * Block + j
    BY <1>1, <1>2
  <2> QED BY <2>1 DEF Hash!Message
<1>4. \A j \in Hash!Cells : Hash!Filled(n)[j] =
        IF j \in cur .. cur + n - 1 THEN Hash!Byte(Len(blocks) * Block + j) ELSE buf[j]
  BY <1>3 DEF Hash!Filled
<1>5. \A j \in 0 .. cur - 1 : buf[j] = Hash!Byte(Len(blocks) * Block + j)
  BY <1>1 DEF Buffered
<1>6. \A j \in Hash!Cells : Hash!Filled(n)[j] \in Contents
  <2> SUFFICES ASSUME NEW j \in Hash!Cells
               PROVE  Hash!Filled(n)[j] \in Contents
    OBVIOUS
  <2>1. Hash!Byte(Len(blocks) * Block + j) \in Contents /\ buf[j] \in Contents
    BY <1>1, <1>2 DEF Hash!Byte, Contents, Hash!Cells, HashTypes
  <2> QED BY <1>4, <2>1
<1>7. Hash!Filled(n) = [j \in Hash!Cells |-> Hash!Filled(n)[j]]
  BY DEF Hash!Filled
<1>8. \A j \in 0 .. cur + n - 1 : j \in Hash!Cells /\ (j \in 0 .. cur - 1 \/ j \in cur .. cur + n - 1)
  BY <1>1 DEF Hash!Cells
<1>9. \A j \in cur + n .. Block - 1 : j \in Hash!Cells /\ j \notin cur .. cur + n - 1
  BY <1>1 DEF Hash!Cells
<1>10. \A j \in 0 .. cur - 1 : j \notin cur .. cur + n - 1
  BY <1>1
<1>11. \A j \in 0 .. cur + n - 1 : Hash!Filled(n)[j] = Hash!Byte(Len(blocks) * Block + j)
  BY <1>4, <1>5, <1>8, <1>10
<1> QED BY <1>4, <1>6, <1>7, <1>9, <1>11

LEMMA FillKeeps ==
  ASSUME HashInv, Hash!Fill
  PROVE  HashInv'
<1> DEFINE room == Block - cur
           n == IF algorithm = "sha256" THEN 1 ELSE IF left < room THEN left ELSE room
           F == Hash!Filled(n)
<1>1. HashTypes /\ OnePiece /\ left > 0 /\ Block \in Nat \ {0}
  BY HashFacts DEF HashInv, Hash!Fill
<1>2. pc = "update" /\ Buffered
  <2>1. left # 0
    BY <1>1 DEF HashTypes
  <2> QED BY <2>1 DEF HashInv
<1>3. n \in 1 .. room /\ n <= left /\ room \in Nat
  <2>1. left \in Nat \ {0} /\ room \in Nat \ {0}
    BY <1>1 DEF HashTypes
  <2>2. CASE algorithm = "sha256"
    BY <2>1, <2>2
  <2>3. CASE algorithm # "sha256" /\ left < room
    BY <2>1, <2>3
  <2>4. CASE algorithm # "sha256" /\ ~(left < room)
    BY <2>1, <2>4
  <2> QED BY <2>2, <2>3, <2>4
<1>4. /\ Hash!Takes(n)
      /\ IF n = room
         THEN /\ blocks' = Append(blocks, F) /\ cur' = 0 /\ counted' = counted + 8 * Block
              /\ buf' = IF algorithm = "keccak" THEN [j \in Hash!Cells |-> Hash!Zero] ELSE F
         ELSE /\ buf' = F /\ cur' = cur + n /\ UNCHANGED <<blocks, counted>>
  BY DEF Hash!Fill
<1> HIDE DEF n
<1>5. /\ F \in [Hash!Cells -> Contents]
      /\ \A j \in 0 .. cur + n - 1 : F[j] = Hash!Byte(Len(blocks) * Block + j)
      /\ \A j \in cur + n .. Block - 1 : F[j] = buf[j]
  BY <1>2, <1>3, FilledExact
<1> HIDE DEF F
<1>6. CASE n = room
  <2>1. \A j \in Hash!Cells : F[j] = Hash!Byte(Len(blocks) * Block + j)
    BY <1>1, <1>5, <1>6 DEF Hash!Cells, HashTypes
  <2>2. buf' \in [Hash!Cells -> Contents]
    BY <1>4, <1>5, <1>6 DEF Hash!Zero, Hash!Mark, Contents
  <2>3. n = Block - cur /\ n \in Nat
    BY <1>3, <1>6
  <2> QED BY <1>2, <1>3, <1>4, <1>5, <1>6, <2>1, <2>2, <2>3, BlockKeeps
<1>7. CASE n # room
  <2>1. /\ buf' = F /\ cur' = cur + n /\ fed' = fed + n /\ left' = left - n
        /\ UNCHANGED <<blocks, counted, algorithm, size, pc>>
    BY <1>4, <1>7 DEF Hash!Takes
  <2>2. HashTypes' /\ OnePiece'
    BY <1>1, <1>3, <1>5, <1>7, <2>1 DEF HashTypes, OnePiece
  <2>3. Buffered'
    <3>1. Len(blocks) * Block \in Nat
      BY <1>1 DEF HashTypes
    <3>2. fed' = Len(blocks) * Block + cur' /\ counted' = 8 * (Len(blocks) * Block)
      BY <1>1, <1>2, <1>3, <2>1, <3>1 DEF Buffered, HashTypes
    <3>3. \A j \in 0 .. cur' - 1 : buf'[j] = Hash!Byte(Len(blocks) * Block + j)
      <4> DEFINE c == cur'
      <4>1. c = cur + n /\ buf' = F /\ cur \in Int /\ n \in Int
        BY <1>1, <1>3, <2>1 DEF HashTypes
      <4> HIDE DEF c
      <4>2. \A j \in 0 .. c - 1 : buf'[j] = Hash!Byte(Len(blocks) * Block + j)
        BY <1>5, <4>1
      <4> QED BY <4>2 DEF c
    <3>4. algorithm = "keccak" => \A j \in cur' .. Block - 1 : buf'[j] = Hash!Zero
      <4>1. \A j \in cur + n .. Block - 1 : j \in cur .. Block - 1
        BY <1>1, <1>3 DEF HashTypes
      <4> QED BY <1>2, <1>5, <2>1, <4>1 DEF Buffered
    <3> QED BY <1>2, <2>1, <3>2, <3>3, <3>4 DEF Buffered, Hash!Byte, Hash!Zero, Hash!Mark, Hash!Cells
  <2> QED BY <1>2, <2>1, <2>2, <2>3 DEF HashInv, Hash!BlocksExact
<1> QED BY <1>6, <1>7

\* The message as blocks: what is left of it is in the buffer.
LEMMA MessageSplit ==
  ASSUME HashInv, pc = "final"
  PROVE  /\ size = Len(blocks) * Block + cur /\ counted + 8 * cur = 8 * size
         /\ Len(blocks) \in Nat /\ Len(blocks) * Block \in Nat
         /\ cur \in 0 .. Block - 1 /\ Block \in Nat \ {0} /\ size \in Nat
<1>1. /\ HashTypes /\ Buffered /\ fed = size /\ Block \in Nat \ {0}
  BY HashFacts DEF HashInv
<1>2. /\ Len(blocks) \in Nat /\ cur \in 0 .. Block - 1 /\ size \in Nat
      /\ size = Len(blocks) * Block + cur /\ counted = 8 * (Len(blocks) * Block)
  BY <1>1 DEF HashTypes, Buffered
<1>3. Len(blocks) * Block \in Nat
  BY <1>1, <1>2
<1> QED BY <1>1, <1>2, <1>3

\* The blocks that are compressed already are those of the padded message.
LEMMA FrontExact ==
  ASSUME HashInv, pc = "final", NEW b \in 1 .. Len(blocks), NEW j \in Hash!Cells
  PROVE  blocks[b][j] = Hash!Padded((b - 1) * Block + j)
<1> DEFINE nb == Len(blocks)
<1>1. /\ size = nb * Block + cur /\ nb \in Nat /\ nb * Block \in Nat /\ cur \in Nat
      /\ Block \in Nat \ {0} /\ j \in 0 .. Block - 1
  BY MessageSplit DEF Hash!Cells
<1>2. b \in Nat /\ b <= nb /\ b * Block <= nb * Block /\ (b - 1) * Block = b * Block - Block
  BY <1>1
<1>3. (b - 1) * Block + j < size
  BY <1>1, <1>2
<1>4. blocks[b][j] = Hash!Byte((b - 1) * Block + j)
  BY DEF HashInv, Buffered
<1> QED BY <1>3, <1>4 DEF Hash!Padded

\* The last blocks close the message.
LEMMA Closes ==
  ASSUME HashInv, pc = "final", NEW last \in Seq([Hash!Cells -> Contents]),
         blocks' = blocks \o last, Hash!Count = Len(blocks) + Len(last),
         \A b \in 1 .. Len(last), j \in Hash!Cells :
           last[b][j] = Hash!Padded((Len(blocks) + b - 1) * Block + j),
         pc' = "done", UNCHANGED <<algorithm, size, fed, left, buf, cur, counted>>
  PROVE  HashInv'
<1> DEFINE nb == Len(blocks)
<1>1. HashTypes /\ nb \in Nat /\ Len(last) \in Nat
  BY DEF HashInv, HashTypes
<1>2. /\ blocks' \in Seq([Hash!Cells -> Contents]) /\ Len(blocks') = Hash!Count
      /\ \A b \in 1 .. nb : blocks'[b] = blocks[b]
      /\ \A b \in 1 .. Len(last) : blocks'[nb + b] = last[b]
  BY <1>1 DEF HashTypes
<1>3. ASSUME NEW b \in 1 .. Hash!Count, NEW j \in Hash!Cells
      PROVE  blocks'[b][j] = Hash!Padded((b - 1) * Block + j)
  <2>1. CASE b \in 1 .. nb
    BY <1>2, <2>1, FrontExact
  <2>2. CASE b \notin 1 .. nb
    <3>1. b - nb \in 1 .. Len(last) /\ nb + (b - nb) = b /\ nb + (b - nb) - 1 = b - 1
      BY <1>1, <2>2
    <3> QED BY <1>2, <3>1
  <2> QED BY <2>1, <2>2
<1>4. HashTypes' /\ OnePiece'
  BY <1>1, <1>2 DEF HashTypes, HashInv, OnePiece
<1>5. Hash!BlocksExact'
  <2>1. Hash!Count' = Hash!Count
    BY DEF Hash!Count
  <2>2. ASSUME NEW b \in 1 .. Hash!Count, NEW j \in Hash!Cells
        PROVE  Hash!Padded((b - 1) * Block + j)' = Hash!Padded((b - 1) * Block + j)
    BY <2>1 DEF Hash!Padded, Hash!PaddedKeccak, Hash!PaddedSha
  <2> QED BY <1>2, <1>3, <2>1, <2>2 DEF Hash!BlocksExact
<1> QED BY <1>4, <1>5 DEF HashInv

LEMMA ShaCount ==
  ASSUME HashInv, pc = "final", algorithm # "keccak"
  PROVE  Hash!Count = Len(blocks) + (IF cur + 1 > Block - Reserved THEN 2 ELSE 1)
<1> DEFINE nb == Len(blocks)
<1>1. /\ size = nb * Block + cur /\ nb \in Nat /\ nb * Block \in Nat /\ cur \in 0 .. Block - 1
      /\ Block \in Nat \ {0} /\ Reserved \in Nat /\ Reserved < Block
  BY MessageSplit, HashFacts
<1>2. CASE cur + 1 > Block - Reserved
  <2>1. cur + Reserved - Block \in 0 .. Block - 1 /\ nb + 1 \in Nat
    BY <1>1, <1>2
  <2>2. size + Reserved = (nb + 1) * Block + (cur + Reserved - Block)
    <3>1. (nb + 1) * Block = nb * Block + Block
      BY <1>1
    <3> QED BY <1>1, <3>1
  <2>3. (size + Reserved) \div Block = nb + 1
    <3> DEFINE q == nb + 1
               r == cur + Reserved - Block
    <3>1. q \in Nat /\ r \in 0 .. Block - 1 /\ Block \in Nat \ {0} /\ size + Reserved = q * Block + r
      BY <1>1, <2>1, <2>2
    <3> HIDE DEF q, r
    <3>2. (size + Reserved) \div Block = q
      BY <3>1, DivUnique
    <3> QED BY <3>2 DEF q
  <2> QED BY <1>1, <1>2, <2>3 DEF Hash!Count
<1>3. CASE ~(cur + 1 > Block - Reserved)
  <2>1. cur + Reserved \in 0 .. Block - 1
    BY <1>1, <1>3
  <2>2. size + Reserved = nb * Block + (cur + Reserved)
    BY <1>1
  <2>3. (size + Reserved) \div Block = nb
    BY <1>1, <2>1, <2>2, DivUnique
  <2> QED BY <1>1, <1>3, <2>3 DEF Hash!Count
<1> QED BY <1>2, <1>3

LEMMA ShaFinalKeeps ==
  ASSUME HashInv, Hash!ShaFinal
  PROVE  HashInv'
<1> DEFINE nb == Len(blocks)
           bits == counted + 8 * cur
           Up(from) == [j \in Hash!Cells |->
                          IF j >= from THEN Hash!Zero ELSE [buf EXCEPT ![cur] = Hash!Mark(128)][j]]
           Marked == Up(cur + 1)
           Zeros == Up(0)
           x == Hash!WithLength(Zeros, bits)
           y == Hash!WithLength(Marked, bits)
<1>1. /\ pc = "final" /\ algorithm \in {"sha512", "sha256"} /\ pc' = "done"
      /\ blocks' = IF cur + 1 > Block - Reserved THEN blocks \o <<Marked, x>>
                   ELSE Append(blocks, y)
      /\ UNCHANGED <<algorithm, size, fed, left, buf, cur, counted>>
  BY DEF Hash!ShaFinal
<1>2. /\ size = nb * Block + cur /\ bits = 8 * size /\ nb \in Nat /\ nb * Block \in Nat
      /\ cur \in 0 .. Block - 1 /\ Block \in Nat \ {0} /\ size \in Nat
      /\ LengthBytes \in Nat \ {0} /\ LengthBytes <= Reserved
      /\ Reserved \in Nat /\ Reserved < Block /\ algorithm # "keccak"
  BY <1>1, MessageSplit, HashFacts
<1>3. /\ buf \in [Hash!Cells -> Contents]
      /\ \A j \in 0 .. cur - 1 : buf[j] = Hash!Byte(nb * Block + j)
  BY <1>1 DEF HashInv, HashTypes, Buffered
<1>4. ASSUME NEW j \in Hash!Cells
      PROVE  /\ Marked[j] = IF j < cur THEN Hash!Byte(nb * Block + j)
                            ELSE IF j = cur THEN Hash!Mark(128) ELSE Hash!Zero
             /\ Zeros[j] = Hash!Zero
             /\ x[j] = IF j >= Block - LengthBytes THEN Hash!Digit(8 * size, Block - 1 - j)
                       ELSE Hash!Zero
             /\ y[j] = IF j >= Block - LengthBytes THEN Hash!Digit(8 * size, Block - 1 - j)
                       ELSE Marked[j]
  <2>1. j \in 0 .. Block - 1
    BY DEF Hash!Cells
  <2>2. Zeros[j] = Hash!Zero
    BY <2>1
  <2>3. Marked[j] = IF j < cur THEN Hash!Byte(nb * Block + j)
                    ELSE IF j = cur THEN Hash!Mark(128) ELSE Hash!Zero
    <3>1. Marked[j] = IF j >= cur + 1 THEN Hash!Zero
                      ELSE [buf EXCEPT ![cur] = Hash!Mark(128)][j]
      OBVIOUS
    <3>2. [buf EXCEPT ![cur] = Hash!Mark(128)][j] = IF j = cur THEN Hash!Mark(128) ELSE buf[j]
      BY <1>2, <1>3
    <3>3. j < cur => buf[j] = Hash!Byte(nb * Block + j)
      BY <1>2, <1>3, <2>1
    <3> HIDE DEF Marked
    <3> QED BY <1>2, <2>1, <3>1, <3>2, <3>3
  <2> HIDE DEF Marked, Zeros, bits
  <2> QED BY <1>2, <2>2, <2>3 DEF Hash!WithLength
<1>5. Marked \in [Hash!Cells -> Contents] /\ x \in [Hash!Cells -> Contents]
      /\ y \in [Hash!Cells -> Contents]
  <2>1. \A j \in Hash!Cells : Hash!Byte(nb * Block + j) \in Contents /\ Block - 1 - j \in Nat
    BY <1>2 DEF Hash!Cells, Hash!Byte, Contents
  <2>2. Hash!Zero \in Contents /\ Hash!Mark(128) \in Contents
    BY DEF Hash!Zero, Hash!Mark, Contents
  <2>3. \A j \in Hash!Cells : Hash!Digit(8 * size, Block - 1 - j) \in Contents
    BY <1>2, <2>1 DEF Contents
  <2>4. /\ Marked = [j \in Hash!Cells |-> Marked[j]]
        /\ x = [j \in Hash!Cells |-> x[j]] /\ y = [j \in Hash!Cells |-> y[j]]
    BY DEF Hash!WithLength
  <2> HIDE DEF Marked, x, y
  <2>5. \A j \in Hash!Cells : Marked[j] \in Contents
    BY <1>4, <2>1, <2>2
  <2>6. \A j \in Hash!Cells : x[j] \in Contents /\ y[j] \in Contents
    BY <1>4, <2>2, <2>3, <2>5
  <2> QED BY <2>4, <2>5, <2>6
<1> HIDE DEF Marked, Zeros, x, y, bits
<1>6. CASE cur + 1 > Block - Reserved
  <2> DEFINE last == <<Marked, x>>
  <2>1. Hash!Count = nb + 2
    BY <1>1, <1>2, <1>6, ShaCount
  <2>2. last \in Seq([Hash!Cells -> Contents]) /\ Len(last) = 2 /\ last[1] = Marked /\ last[2] = x
    BY <1>5
  <2>3. ASSUME NEW j \in Hash!Cells
        PROVE  /\ Marked[j] = Hash!Padded((nb + 1 - 1) * Block + j)
               /\ x[j] = Hash!Padded((nb + 2 - 1) * Block + j)
    <3>1. j \in 0 .. Block - 1
      BY DEF Hash!Cells
    <3>2. /\ (nb + 1 - 1) * Block = nb * Block /\ (nb + 2 - 1) * Block = nb * Block + Block
          /\ Hash!Count * Block = nb * Block + 2 * Block
      BY <1>2, <2>1
    <3>3. Marked[j] = Hash!Padded(nb * Block + j)
      BY <1>2, <1>4, <3>1, <3>2 DEF Hash!Padded, Hash!PaddedSha
    <3>4. x[j] = Hash!Padded((nb * Block + Block) + j)
      <4>1. ~((nb * Block + Block) + j <= size)
        BY <1>2, <3>1
      <4>2. (nb * Block + Block) + j >= Hash!Count * Block - LengthBytes <=> j >= Block - LengthBytes
        BY <1>2, <3>1, <3>2
      <4>3. Hash!Count * Block - 1 - ((nb * Block + Block) + j) = Block - 1 - j
        BY <1>2, <3>1, <3>2
      <4> QED BY <1>2, <1>4, <3>1, <4>1, <4>2, <4>3 DEF Hash!Padded, Hash!PaddedSha
    <3> QED BY <3>2, <3>3, <3>4
  <2>4. \A b \in 1 .. Len(last), j \in Hash!Cells :
          last[b][j] = Hash!Padded((Len(blocks) + b - 1) * Block + j)
    <3>1. \A b \in 1 .. Len(last) : b = 1 \/ b = 2
      BY <2>2
    <3> QED BY <2>2, <2>3, <3>1
  <2>5. blocks' = blocks \o last
    BY <1>1, <1>6
  <2> HIDE DEF last
  <2> QED BY <1>1, <2>1, <2>2, <2>4, <2>5, Closes
<1>7. CASE ~(cur + 1 > Block - Reserved)
  <2> DEFINE last == <<y>>
  <2>1. Hash!Count = nb + 1
    BY <1>1, <1>2, <1>7, ShaCount
  <2>2. last \in Seq([Hash!Cells -> Contents]) /\ Len(last) = 1 /\ last[1] = y
    BY <1>5
  <2>3. ASSUME NEW j \in Hash!Cells
        PROVE  y[j] = Hash!Padded((nb + 1 - 1) * Block + j)
    <3>1. j \in 0 .. Block - 1
      BY DEF Hash!Cells
    <3>2. (nb + 1 - 1) * Block = nb * Block /\ Hash!Count * Block = nb * Block + Block
      BY <1>2, <2>1
    <3>3. /\ nb * Block + j >= Hash!Count * Block - LengthBytes <=> j >= Block - LengthBytes
          /\ Hash!Count * Block - 1 - (nb * Block + j) = Block - 1 - j
          /\ j >= Block - LengthBytes => j > cur
      BY <1>2, <1>7, <3>1, <3>2
    <3>4. /\ nb * Block + j < size <=> j < cur
          /\ nb * Block + j = size <=> j = cur
      BY <1>2, <3>1
    <3> QED BY <1>2, <1>4, <3>1, <3>2, <3>3, <3>4 DEF Hash!Padded, Hash!PaddedSha
  <2>4. \A b \in 1 .. Len(last), j \in Hash!Cells :
          last[b][j] = Hash!Padded((Len(blocks) + b - 1) * Block + j)
    <3>1. \A b \in 1 .. Len(last) : b = 1
      BY <2>2
    <3> QED BY <2>2, <2>3, <3>1
  <2>5. blocks' = blocks \o last
    BY <1>1, <1>5, <1>7 DEF HashInv, HashTypes
  <2> HIDE DEF last
  <2> QED BY <1>1, <2>1, <2>2, <2>4, <2>5, Closes
<1> QED BY <1>6, <1>7

LEMMA KeccakFinalKeeps ==
  ASSUME HashInv, Hash!KeccakFinal
  PROVE  HashInv'
<1> DEFINE nb == Len(blocks)
           at == size % Block
           y == [j \in Hash!Cells |->
                   IF j \in {at, Block - 1}
                   THEN IF j = Block - 1
                        THEN IF j = at THEN Hash!Mark(129) ELSE Hash!Mark(128) ELSE Hash!Mark(1)
                   ELSE buf[j]]
           last == <<y>>
<1>1. /\ pc = "final" /\ algorithm = "keccak" /\ pc' = "done" /\ blocks' = Append(blocks, y)
      /\ UNCHANGED <<algorithm, size, fed, left, buf, cur, counted>>
  BY DEF Hash!KeccakFinal
<1>2. /\ size = nb * Block + cur /\ nb \in Nat /\ nb * Block \in Nat
      /\ cur \in 0 .. Block - 1 /\ Block \in Nat \ {0} /\ size \in Nat
  BY <1>1, MessageSplit
<1>3. size \div Block = nb /\ at = cur
  BY <1>2, DivUnique
<1>4. /\ buf \in [Hash!Cells -> Contents]
      /\ \A j \in 0 .. cur - 1 : buf[j] = Hash!Byte(nb * Block + j)
      /\ \A j \in cur .. Block - 1 : buf[j] = Hash!Zero
  BY <1>1 DEF HashInv, HashTypes, Buffered
<1>5. Hash!Count = nb + 1 /\ Hash!Count * Block = nb * Block + Block
  <2>1. Hash!Count = nb + 1
    BY <1>1, <1>3 DEF Hash!Count
  <2> QED BY <1>2, <2>1
<1>6. ASSUME NEW j \in Hash!Cells
      PROVE  /\ y[j] = IF j = cur THEN IF j = Block - 1 THEN Hash!Mark(129) ELSE Hash!Mark(1)
                       ELSE IF j = Block - 1 THEN Hash!Mark(128) ELSE buf[j]
             /\ y[j] \in Contents
  <2>1. /\ Hash!Mark(129) \in Contents /\ Hash!Mark(1) \in Contents
        /\ Hash!Mark(128) \in Contents /\ buf[j] \in Contents
    BY <1>4 DEF Hash!Mark, Contents
  <2>2. y[j] = IF j = cur THEN IF j = Block - 1 THEN Hash!Mark(129) ELSE Hash!Mark(1)
               ELSE IF j = Block - 1 THEN Hash!Mark(128) ELSE buf[j]
    BY <1>3
  <2> HIDE DEF y
  <2> QED BY <2>1, <2>2
<1>7. y \in [Hash!Cells -> Contents]
  <2>1. y = [j \in Hash!Cells |-> y[j]]
    OBVIOUS
  <2> HIDE DEF y
  <2> QED BY <1>6, <2>1
<1> HIDE DEF y, at
<1>8. last \in Seq([Hash!Cells -> Contents]) /\ Len(last) = 1 /\ last[1] = y
  BY <1>7
<1>9. ASSUME NEW j \in Hash!Cells
      PROVE  y[j] = Hash!Padded((nb + 1 - 1) * Block + j)
  <2>1. j \in 0 .. Block - 1
    BY DEF Hash!Cells
  <2>2. (nb + 1 - 1) * Block = nb * Block
    BY <1>2
  <2>3. /\ nb * Block + j < size <=> j < cur
        /\ nb * Block + j = size <=> j = cur
        /\ nb * Block + j = Hash!Count * Block - 1 <=> j = Block - 1
    BY <1>2, <1>5, <2>1
  <2>4. CASE j < cur
    <3>1. j # cur /\ j # Block - 1 /\ j \in 0 .. cur - 1
      BY <1>2, <2>1, <2>4
    <3> QED BY <1>4, <1>6, <2>2, <2>3, <2>4, <3>1 DEF Hash!Padded
  <2>5. CASE ~(j < cur)
    <3>1. j \in cur .. Block - 1
      BY <1>2, <2>1, <2>5
    <3>2. buf[j] = Hash!Zero
      BY <1>4, <3>1
    <3> QED BY <1>1, <1>6, <2>2, <2>3, <2>5, <3>2 DEF Hash!Padded, Hash!PaddedKeccak
  <2> QED BY <2>4, <2>5
<1>10. \A b \in 1 .. Len(last), j \in Hash!Cells :
         last[b][j] = Hash!Padded((Len(blocks) + b - 1) * Block + j)
  <2>1. \A b \in 1 .. Len(last) : b = 1
    BY <1>8
  <2> QED BY <1>8, <1>9, <2>1
<1>11. blocks' = blocks \o last
  BY <1>1, <1>7 DEF HashInv, HashTypes
<1> HIDE DEF last
<1> QED BY <1>1, <1>5, <1>8, <1>10, <1>11, Closes

LEMMA HashInvStep ==
  ASSUME HashInv, [Hash!Next]_Hash!vars
  PROVE  HashInv'
<1>1. CASE UNCHANGED Hash!vars
  <2>1. UNCHANGED <<algorithm, size, fed, left, buf, cur, counted, blocks, pc>>
    BY <1>1 DEF Hash!vars
  <2>2. Hash!BlocksExact'
    BY <2>1 DEF HashInv, Hash!BlocksExact, Hash!Count, Hash!Padded, Hash!PaddedKeccak, Hash!PaddedSha
  <2> QED BY <2>1, <2>2 DEF HashInv, HashTypes, OnePiece, Buffered
<1> QED BY <1>1, PieceKeeps, WholeBlockKeeps, FillKeeps, ShaFinalKeeps, KeccakFinalKeeps
        DEF Hash!Next, Hash!Finished

-----------------------------------------------------------------------------
(* Texts. *)

\* A function on 1 .. n is a sequence of length n.
LEMMA FunctionIsSeq ==
  ASSUME NEW S, NEW n \in Nat, NEW t \in [1 .. n -> S]
  PROVE  t \in Seq(S) /\ Len(t) = n
<1>1. t \in Seq(S)
  OBVIOUS
<1>2. DOMAIN t = 1 .. n /\ DOMAIN t = 1 .. Len(t) /\ Len(t) \in Nat
  BY <1>1, LenProperties
<1>3. n = Len(t)
  <2> DEFINE l == Len(t)
  <2>1. 1 .. n = 1 .. l /\ l \in Nat
    BY <1>2
  <2> HIDE DEF l
  <2>2. (n >= 1 => n \in 1 .. l) /\ (l >= 1 => l \in 1 .. n)
    BY <2>1
  <2>3. n = l
    BY <2>1, <2>2
  <2> QED BY <2>3 DEF l
<1> QED BY <1>1, <1>3

LEMMA TextFacts ==
  ASSUME Eth!SizesFit, NEW t \in Eth!Texts
  PROVE  Eth!Digits \in Nat /\ Len(t) \in 0 .. Eth!Digits /\ t \in Seq(0 .. Hex - 1) /\ DOMAIN t = 1 .. Len(t)
<1>1. Eth!Digits \in Nat
  BY DEF Eth!SizesFit, Eth!Digits
<1>2. PICK n \in 0 .. Eth!Digits : t \in [1 .. n -> 0 .. Hex - 1]
  BY DEF Eth!Texts
<1>3. t \in Seq(0 .. Hex - 1) /\ Len(t) = n
  <2> DEFINE S == 0 .. Hex - 1
  <2>1. n \in Nat /\ t \in [1 .. n -> S]
    BY <1>1, <1>2
  <2> HIDE DEF S
  <2>2. t \in Seq(S) /\ Len(t) = n
    BY <2>1, FunctionIsSeq
  <2> QED BY <2>2 DEF S
<1> QED BY <1>1, <1>2, <1>3

\* A prefix and a suffix, place by place.
LEMMA PrefixAt ==
  ASSUME NEW S, NEW t \in Seq(S), NEW h \in Seq(S), Len(t) <= Len(h)
  PROVE  Eth!IsPrefix(t, h) <=> \A i \in 1 .. Len(t) : h[i] = t[i]
<1> DEFINE n == Len(t)
           f == SubSeq(h, 1, n)
<1>1. n \in Nat /\ Len(h) \in Nat /\ \A i \in 1 .. n : t[i] \in S /\ h[i] \in S
  <2>1. n \in Nat /\ Len(h) \in Nat /\ t \in [1 .. n -> S] /\ h \in [1 .. Len(h) -> S]
    BY LenProperties
  <2>2. \A i \in 1 .. n : i \in 1 .. Len(h)
    BY <2>1
  <2> QED BY <2>1, <2>2
<1>2. SubSeq(t, 1, n) = t
  BY SubSeqFull
<1>3. f \in Seq(S) /\ Len(f) = n /\ \A i \in 1 .. n : f[i] = h[i]
  <2>1. /\ f \in Seq(S) /\ Len(f) = IF 1 <= n THEN n - 1 + 1 ELSE 0
        /\ \A i \in 1 .. n - 1 + 1 : f[i] = h[1 + i - 1]
    BY <1>1, SubSeqProperties
  <2> HIDE DEF f, n
  <2> QED BY <1>1, <2>1
<1>4. f = t <=> \A i \in 1 .. n : h[i] = t[i]
  <2>1. ASSUME \A i \in 1 .. n : h[i] = t[i]
        PROVE  f = t
    BY <1>3, <2>1, SeqEqual
  <2> HIDE DEF f
  <2> QED BY <1>3, <2>1
<1> QED BY <1>2, <1>4 DEF Eth!IsPrefix

LEMMA ReverseFacts ==
  ASSUME NEW S, NEW t \in Seq(S)
  PROVE  /\ Eth!Reverse(t) \in Seq(S) /\ Len(Eth!Reverse(t)) = Len(t)
         /\ \A i \in 1 .. Len(t) : Eth!Reverse(t)[i] = t[Len(t) - i + 1]
<1> DEFINE n == Len(t)
<1>1. n \in Nat /\ t \in [1 .. n -> S]
  BY LenProperties
<1>2. Eth!Reverse(t) = [i \in 1 .. n |-> t[(n - i) + 1]]
  BY DEF Eth!Reverse
<1>3. \A i \in 1 .. n : (n - i) + 1 \in 1 .. n
  BY <1>1
<1> HIDE DEF n
<1>4. Eth!Reverse(t) \in [1 .. n -> S]
  BY <1>1, <1>2, <1>3
<1>5. Eth!Reverse(t) \in Seq(S) /\ Len(Eth!Reverse(t)) = n
  BY <1>1, <1>4, FunctionIsSeq
<1> QED BY <1>2, <1>5 DEF n

LEMMA SuffixAt ==
  ASSUME NEW S, NEW t \in Seq(S), NEW h \in Seq(S), Len(t) <= Len(h)
  PROVE  Eth!IsSuffix(t, h) <=> \A i \in 1 .. Len(t) : h[Len(h) - Len(t) + i] = t[i]
<1> DEFINE n == Len(t)
           m == Len(h)
           rt == Eth!Reverse(t)
           rh == Eth!Reverse(h)
<1>1. n \in Nat /\ m \in Nat /\ n <= m
  BY LenProperties
<1>2. /\ rt \in Seq(S) /\ Len(rt) = n /\ \A i \in 1 .. n : rt[i] = t[n - i + 1]
      /\ rh \in Seq(S) /\ Len(rh) = m /\ \A i \in 1 .. m : rh[i] = h[m - i + 1]
  BY ReverseFacts
<1> HIDE DEF rt, rh
<1>3. Eth!IsPrefix(rt, rh) <=> \A i \in 1 .. n : rh[i] = rt[i]
  BY <1>1, <1>2, PrefixAt
<1> HIDE DEF n, m
<1>4. \A i \in 1 .. n : i \in 1 .. m /\ n - i + 1 \in 1 .. n /\ m - i + 1 = m - n + (n - i + 1)
                        /\ n - (n - i + 1) + 1 = i
  BY <1>1
<1>5. (\A i \in 1 .. n : rh[i] = rt[i]) <=> (\A i \in 1 .. n : h[m - n + i] = t[i])
  <2>1. ASSUME \A i \in 1 .. n : rh[i] = rt[i], NEW j \in 1 .. n
        PROVE  h[m - n + j] = t[j]
    <3> DEFINE i == n - j + 1
    <3>1. i \in 1 .. n /\ n - i + 1 = j /\ m - i + 1 = m - n + j /\ i \in 1 .. m
      BY <1>1
    <3> HIDE DEF i
    <3>2. rh[i] = h[m - i + 1] /\ rt[i] = t[n - i + 1] /\ rh[i] = rt[i]
      BY <1>2, <2>1, <3>1
    <3> QED BY <3>1, <3>2
  <2>2. ASSUME \A i \in 1 .. n : h[m - n + i] = t[i], NEW j \in 1 .. n
        PROVE  rh[j] = rt[j]
    <3>1. h[m - n + (n - j + 1)] = t[n - j + 1]
      BY <1>4, <2>2
    <3>2. rh[j] = h[m - j + 1] /\ rt[j] = t[n - j + 1] /\ m - j + 1 = m - n + (n - j + 1)
      BY <1>2, <1>4
    <3> QED BY <3>1, <3>2
  <2> QED BY <2>1, <2>2
<1> QED BY <1>3, <1>5 DEF Eth!IsSuffix, rt, rh, n, m

-----------------------------------------------------------------------------
(* EthMatcher, digit by digit. *)

\* Digit k of an address.
Digit(a, k) == Eth!Half(a[(k - 1) \div 2], k % 2 = 1)

\* The digits of a from d on are those of t.
ReadsAt(a, d, t) == \A i \in 1 .. Len(t) : Digit(a, d + i) = t[i]

LEMMA DigitFacts ==
  ASSUME Eth!SizesFit, NEW a \in Eth!Addresses
  PROVE  /\ \A k \in 1 .. Eth!Digits : Eth!ToHex(a)[k] = Digit(a, k) /\ Digit(a, k) \in 0 .. Hex - 1
         /\ Eth!ToHex(a) \in Seq(0 .. Hex - 1) /\ Len(Eth!ToHex(a)) = Eth!Digits
<1>1. Eth!Digits \in Nat /\ Hex \in Nat \ {0, 1} /\ AddressBytes \in Nat \ {0} /\ Eth!Digits = 2 * AddressBytes
  BY DEF Eth!SizesFit, Eth!Digits
<1>2. ASSUME NEW k \in 1 .. Eth!Digits
      PROVE  Digit(a, k) \in 0 .. Hex - 1
  <2> DEFINE b == a[(k - 1) \div 2]
  <2>1. (k - 1) \div 2 \in 0 .. AddressBytes - 1
    BY <1>1
  <2>2. b \in 0 .. Hex * Hex - 1
    BY <2>1 DEF Eth!Addresses
  <2>3. b \in Nat /\ b < Hex * Hex
    <3>1. Hex * Hex \in Nat
      BY <1>1
    <3> QED BY <2>2, <3>1
  <2> HIDE DEF b
  <2>4. b \div Hex \in 0 .. Hex - 1 /\ b % Hex \in 0 .. Hex - 1
    BY <1>1, <2>3
  <2> QED BY <2>4 DEF Digit, Eth!Half, b
<1>3. Eth!ToHex(a) = [k \in 1 .. Eth!Digits |-> Digit(a, k)]
  BY DEF Eth!ToHex, Digit
<1>4. Eth!ToHex(a) \in [1 .. Eth!Digits -> 0 .. Hex - 1]
  BY <1>2, <1>3
<1> DEFINE S == 0 .. Hex - 1
<1>5. Eth!ToHex(a) \in [1 .. Eth!Digits -> S]
  BY <1>4
<1> HIDE DEF S
<1>6. Eth!ToHex(a) \in Seq(S) /\ Len(Eth!ToHex(a)) = Eth!Digits
  BY <1>1, <1>5, FunctionIsSeq
<1> QED BY <1>2, <1>3, <1>6 DEF S

\* What is asked for, and what the kernel and the CPU test, is that the address
\* reads as the prefix at its front and as the suffix at its end.
LEMMA WantedReads ==
  ASSUME Eth!SizesFit, prefix \in Eth!Texts, suffix \in Eth!Texts, NEW a \in Eth!Addresses
  PROVE  Eth!Wanted(a) <=> ReadsAt(a, 0, prefix) /\ ReadsAt(a, Eth!Digits - Len(suffix), suffix)
<1> DEFINE S == 0 .. Hex - 1
           h == Eth!ToHex(a)
<1>1. /\ prefix \in Seq(S) /\ Len(prefix) \in 0 .. Eth!Digits
      /\ suffix \in Seq(S) /\ Len(suffix) \in 0 .. Eth!Digits /\ Eth!Digits \in Nat
  BY TextFacts
<1>2. h \in Seq(S) /\ Len(h) = Eth!Digits /\ \A k \in 1 .. Eth!Digits : h[k] = Digit(a, k)
  BY DigitFacts
<1> HIDE DEF S, h
<1>3. Eth!IsPrefix(prefix, h) <=> \A i \in 1 .. Len(prefix) : h[i] = prefix[i]
  BY <1>1, <1>2, PrefixAt
<1>4. Eth!IsSuffix(suffix, h) <=> \A i \in 1 .. Len(suffix) : h[Eth!Digits - Len(suffix) + i] = suffix[i]
  <2>1. Len(suffix) <= Len(h)
    BY <1>1, <1>2
  <2>2. Eth!IsSuffix(suffix, h) <=> \A i \in 1 .. Len(suffix) : h[Len(h) - Len(suffix) + i] = suffix[i]
    BY <1>1, <1>2, <2>1, SuffixAt
  <2> QED BY <1>2, <2>2
<1>5. \A i \in 1 .. Len(prefix) : i \in 1 .. Eth!Digits /\ 0 + i = i
  BY <1>1
<1>6. \A i \in 1 .. Len(suffix) : Eth!Digits - Len(suffix) + i \in 1 .. Eth!Digits
  BY <1>1
<1>7. Eth!IsPrefix(prefix, h) <=> ReadsAt(a, 0, prefix)
  BY <1>2, <1>3, <1>5 DEF ReadsAt
<1>8. Eth!IsSuffix(suffix, h) <=> ReadsAt(a, Eth!Digits - Len(suffix), suffix)
  BY <1>2, <1>4, <1>6 DEF ReadsAt
<1> QED BY <1>7, <1>8 DEF Eth!Wanted, h

LEMMA DigitHalf ==
  ASSUME NEW a, NEW d \in Nat, NEW i \in Nat \ {0}
  PROVE  Eth!Half(a[(d + i - 1) \div 2], (d + i - 1) % 2 = 0) = Digit(a, d + i)
<1>1. (d + i - 1) % 2 = 0 <=> (d + i) % 2 = 1
  OBVIOUS
<1> QED BY <1>1 DEF Digit

LEMMA GpuReads ==
  ASSUME Eth!SizesFit, prefix \in Eth!Texts, suffix \in Eth!Texts, NEW a \in Eth!Addresses
  PROVE  Eth!GpuMatches(a, prefix, suffix) <=>
           ReadsAt(a, 0, prefix) /\ ReadsAt(a, Eth!Digits - Len(suffix), suffix)
<1> DEFINE d == Eth!Digits - Len(suffix)
<1>1. /\ DOMAIN prefix = 1 .. Len(prefix) /\ Len(prefix) \in Nat
      /\ DOMAIN suffix = 1 .. Len(suffix) /\ Len(suffix) \in Nat /\ d \in Nat
  BY TextFacts
<1> HIDE DEF d
<1>2. ASSUME NEW i \in 1 .. Len(prefix)
      PROVE  Eth!Half(a[(i - 1) \div 2], (i - 1) % 2 = 0) = Digit(a, 0 + i)
  <2>1. i \in Nat \ {0} /\ 0 + i - 1 = i - 1 /\ 0 \in Nat
    BY <1>1
  <2>2. \A e \in Nat : Eth!Half(a[(e + i - 1) \div 2], (e + i - 1) % 2 = 0) = Digit(a, e + i)
    BY <2>1, DigitHalf
  <2>3. 0 + i - 1 = i - 1
    BY <2>1
  <2> QED BY <2>1, <2>2, <2>3, Zenon
<1>3. ASSUME NEW i \in 1 .. Len(suffix)
      PROVE  Eth!Half(a[(d + i - 1) \div 2], (d + i - 1) % 2 = 0) = Digit(a, d + i)
  <2>1. i \in Nat \ {0}
    BY <1>1
  <2> QED BY <1>1, <2>1, DigitHalf
<1> QED BY <1>1, <1>2, <1>3 DEF Eth!GpuMatches, ReadsAt, d

LEMMA CpuReads ==
  ASSUME Eth!SizesFit, prefix \in Eth!Texts, suffix \in Eth!Texts, NEW a \in Eth!Addresses,
         checks = Eth!MakeChecks(prefix, suffix)
  PROVE  Eth!CpuMatches(a) <=> ReadsAt(a, 0, prefix) /\ ReadsAt(a, Eth!Digits - Len(suffix), suffix)
<1> DEFINE Checks(d, t) == {[byte |-> (d + i - 1) \div 2, high |-> (d + i - 1) % 2 = 0,
                             value |-> t[i]] : i \in DOMAIN t}
           d == Eth!Digits - Len(suffix)
<1>1. /\ DOMAIN prefix = 1 .. Len(prefix) /\ Len(prefix) \in Nat
      /\ DOMAIN suffix = 1 .. Len(suffix) /\ Len(suffix) \in Nat /\ d \in Nat
  BY TextFacts
<1>2. checks = Checks(0, prefix) \cup Checks(d, suffix)
  BY DEF Eth!MakeChecks, Eth!Placed
<1>3. ASSUME NEW t, NEW e \in Nat, DOMAIN t = 1 .. Len(t), Len(t) \in Nat
      PROVE  (\A c \in Checks(e, t) : Eth!Half(a[c.byte], c.high) = c.value) <=> ReadsAt(a, e, t)
  <2>1. (\A c \in Checks(e, t) : Eth!Half(a[c.byte], c.high) = c.value) <=>
          \A i \in 1 .. Len(t) : Eth!Half(a[(e + i - 1) \div 2], (e + i - 1) % 2 = 0) = t[i]
    <3> DEFINE Check(i) == [byte |-> (e + i - 1) \div 2, high |-> (e + i - 1) % 2 = 0,
                            value |-> t[i]]
    <3>1. Checks(e, t) = {Check(i) : i \in 1 .. Len(t)}
      BY <1>3
    <3>2. \A i \in 1 .. Len(t) : /\ Check(i).byte = (e + i - 1) \div 2
                                 /\ Check(i).high = ((e + i - 1) % 2 = 0)
                                 /\ Check(i).value = t[i]
      OBVIOUS
    <3> HIDE DEF Check, Checks
    <3>3. (\A c \in Checks(e, t) : Eth!Half(a[c.byte], c.high) = c.value) <=>
            \A i \in 1 .. Len(t) : Eth!Half(a[Check(i).byte], Check(i).high) = Check(i).value
      BY <3>1
    <3> QED BY <3>2, <3>3
  <2>2. \A i \in 1 .. Len(t) : i \in Nat \ {0}
    BY <1>3
  <2>3. \A i \in 1 .. Len(t) :
          Eth!Half(a[(e + i - 1) \div 2], (e + i - 1) % 2 = 0) = Digit(a, e + i)
    BY <1>3, <2>2, DigitHalf
  <2> QED BY <2>1, <2>3 DEF ReadsAt
<1> HIDE DEF Checks, d
<1>4. (\A c \in Checks(0, prefix) : Eth!Half(a[c.byte], c.high) = c.value) <=> ReadsAt(a, 0, prefix)
  BY <1>1, <1>3
<1>5. (\A c \in Checks(d, suffix) : Eth!Half(a[c.byte], c.high) = c.value) <=> ReadsAt(a, d, suffix)
  BY <1>1, <1>3
<1> QED BY <1>2, <1>4, <1>5 DEF Eth!CpuMatches, d

-----------------------------------------------------------------------------
(* How many texts a mask for every place admits. *)

\* The texts of n digits below h that the masks admit.
Admitted(n, h, mask) == {t \in [1 .. n -> 0 .. h - 1] : \A k \in 1 .. n : t[k] \in mask[k]}

LEMMA SameSizeEth ==
  ASSUME NEW S
  PROVE  Eth!Cardinality(S) = Cardinality(S)
BY DEF Eth!Cardinality, Cardinality

\* Sets in one-to-one correspondence have one size.
LEMMA BijectionSize ==
  ASSUME NEW S, NEW T, NEW f \in [S -> T], IsFiniteSet(S),
         \A a, b \in S : f[a] = f[b] => a = b, \A t \in T : \E a \in S : f[a] = t
  PROVE  IsFiniteSet(T) /\ Cardinality(T) = Cardinality(S)
<1>1. f \in Bijection(S, T)
  BY DEF Bijection, Injection, Surjection, IsInjective
<1>2. ExistsBijection(S, T)
  BY <1>1 DEF ExistsBijection
<1> QED BY <1>2, FS_Bijection

LEMMA AdmittedFirst ==
  ASSUME NEW h, NEW mask
  PROVE  IsFiniteSet(Admitted(0, h, mask)) /\ Cardinality(Admitted(0, h, mask)) = 1
<1> DEFINE t0 == [k \in 1 .. 0 |-> 0]
<1>1. Admitted(0, h, mask) = {t0}
  <2>1. t0 \in Admitted(0, h, mask)
    BY DEF Admitted
  <2>2. \A t \in Admitted(0, h, mask) : t = t0
    BY DEF Admitted
  <2> QED BY <2>1, <2>2
<1> HIDE DEF t0
<1> QED BY <1>1, FS_Singleton

LEMMA AdmittedNext ==
  ASSUME NEW n \in Nat, NEW h, NEW mask, IsFiniteSet(mask[n + 1]), mask[n + 1] \subseteq 0 .. h - 1,
         IsFiniteSet(Admitted(n, h, mask))
  PROVE  /\ IsFiniteSet(Admitted(n + 1, h, mask))
         /\ Cardinality(Admitted(n + 1, h, mask)) = Cardinality(Admitted(n, h, mask)) * Cardinality(mask[n + 1])
<1> DEFINE A == Admitted(n, h, mask)
           B == Admitted(n + 1, h, mask)
           M == mask[n + 1]
           D == 0 .. h - 1
           join(t, d) == [k \in 1 .. n + 1 |-> IF k = n + 1 THEN d ELSE t[k]]
           f == [at \in A \X M |-> join(at[1], at[2])]
<1>1. \A k \in 1 .. n + 1 : k # n + 1 => k \in 1 .. n
  OBVIOUS
<1>2. n + 1 \in 1 .. n + 1 /\ \A k \in 1 .. n : k \in 1 .. n + 1 /\ k # n + 1
  OBVIOUS
<1>3. \A t \in A : t \in [1 .. n -> D] /\ \A k \in 1 .. n : t[k] \in mask[k]
  BY DEF Admitted
<1>4. \A t : (t \in [1 .. n + 1 -> D] /\ \A k \in 1 .. n + 1 : t[k] \in mask[k]) <=> t \in B
  BY DEF Admitted
<1>5. \A t : (t \in [1 .. n -> D] /\ \A k \in 1 .. n : t[k] \in mask[k]) <=> t \in A
  BY DEF Admitted
<1>6. M \subseteq D
  OBVIOUS
<1> HIDE DEF A, B, D
<1>7. \A t \in A, d \in M : join(t, d) \in B
  <2> SUFFICES ASSUME NEW t \in A, NEW d \in M PROVE join(t, d) \in B
    OBVIOUS
  <2>1. join(t, d) \in [1 .. n + 1 -> D]
    BY <1>1, <1>3, <1>6
  <2>2. \A k \in 1 .. n + 1 : join(t, d)[k] \in mask[k]
    BY <1>1, <1>3
  <2> HIDE DEF join
  <2> QED BY <1>4, <2>1, <2>2
<1>8. \A t \in A, d \in M : join(t, d)[n + 1] = d /\ \A k \in 1 .. n : join(t, d)[k] = t[k]
  BY <1>2
<1>9. \A t \in B : \E s \in A, d \in M : join(s, d) = t
  <2> SUFFICES ASSUME NEW t \in B PROVE \E s \in A, d \in M : join(s, d) = t
    OBVIOUS
  <2> DEFINE s == [k \in 1 .. n |-> t[k]]
  <2>1. t \in [1 .. n + 1 -> D] /\ \A k \in 1 .. n + 1 : t[k] \in mask[k]
    BY <1>4
  <2>2. s \in [1 .. n -> D] /\ (\A k \in 1 .. n : s[k] \in mask[k]) /\ t[n + 1] \in M
    BY <1>2, <2>1
  <2>3. s \in A
    <3> HIDE DEF s
    <3> QED BY <1>5, <2>2
  <2>4. join(s, t[n + 1]) = t
    <3>1. \A k \in 1 .. n + 1 : join(s, t[n + 1])[k] = t[k]
      BY <1>1
    <3> QED BY <2>1, <3>1
  <2> QED BY <2>2, <2>3, <2>4
<1>10. \A s, t \in A, d, e \in M : join(s, d) = join(t, e) => s = t /\ d = e
  <2> SUFFICES ASSUME NEW s \in A, NEW t \in A, NEW d \in M, NEW e \in M, join(s, d) = join(t, e)
               PROVE  s = t /\ d = e
    OBVIOUS
  <2>1. d = e /\ \A k \in 1 .. n : s[k] = t[k]
    <3> HIDE DEF join
    <3> QED BY <1>8
  <2>2. s \in [1 .. n -> D] /\ t \in [1 .. n -> D]
    BY <1>3
  <2> QED BY <2>1, <2>2
<1> HIDE DEF join, M
<1>11. f \in [A \X M -> B]
  BY <1>7
<1>12. \A a, b \in A \X M : f[a] = f[b] => a = b
  BY <1>10
<1>13. \A t \in B : \E a \in A \X M : f[a] = t
  <2> SUFFICES ASSUME NEW t \in B PROVE \E a \in A \X M : f[a] = t
    OBVIOUS
  <2>1. PICK s \in A, d \in M : join(s, d) = t
    BY <1>9
  <2>2. <<s, d>> \in A \X M /\ f[<<s, d>>] = t
    BY <2>1
  <2> HIDE DEF f
  <2> QED BY <2>2
<1>14. IsFiniteSet(A \X M) /\ Cardinality(A \X M) = Cardinality(A) * Cardinality(M)
  <2>1. IsFiniteSet(A) /\ IsFiniteSet(M)
    BY DEF A, M
  <2> QED BY <2>1, FS_Product
<1> DEFINE P == A \X M
<1>15. IsFiniteSet(P) /\ f \in [P -> B] /\ (\A a, b \in P : f[a] = f[b] => a = b) /\ (\A t \in B : \E a \in P : f[a] = t)
  BY <1>11, <1>12, <1>13, <1>14
<1> HIDE DEF f, P
<1>16. IsFiniteSet(B) /\ Cardinality(B) = Cardinality(P)
  BY <1>15, BijectionSize
<1> QED BY <1>14, <1>16 DEF A, B, M, P

-----------------------------------------------------------------------------
(* The odds of EthMatcher. *)

\* A place admits one digit, every digit or none.
LEMMA MaskSize ==
  ASSUME Eth!SizesFit, NEW p, NEW s, NEW pos, Eth!Mask(pos, p, s) # {}
  PROVE  /\ Eth!Mask(pos, p, s) \subseteq 0 .. Hex - 1 /\ IsFiniteSet(Eth!Mask(pos, p, s))
         /\ Eth!Cardinality(Eth!Mask(pos, p, s)) = Cardinality(Eth!Mask(pos, p, s))
         /\ Cardinality(Eth!Mask(pos, p, s)) \in {1, Hex}
<1> DEFINE M == Eth!Mask(pos, p, s)
           D == 0 .. Hex - 1
<1>1. M \subseteq D
  BY DEF Eth!Mask
<1>2. IsFiniteSet(D) /\ Cardinality(D) = Hex
  BY FS_Interval DEF Eth!SizesFit
<1>3. CASE \E at \in Eth!Placed(p, s) : \E i \in DOMAIN at[2] : at[1] + i = pos
  <2>1. PICK at \in Eth!Placed(p, s) : \E i \in DOMAIN at[2] : at[1] + i = pos
    BY <1>3
  <2>2. PICK i \in DOMAIN at[2] : at[1] + i = pos
    BY <2>1
  <2>3. \A d \in M : d = at[2][i]
    BY <2>2 DEF Eth!Mask
  <2> HIDE DEF M
  <2>4. M = {at[2][i]}
    BY <2>3 DEF M
  <2>5. IsFiniteSet(M) /\ Cardinality(M) = 1
    BY <2>4, FS_Singleton
  <2> QED BY <1>1, <2>5, SameSizeEth DEF M
<1>4. CASE ~\E at \in Eth!Placed(p, s) : \E i \in DOMAIN at[2] : at[1] + i = pos
  <2>1. M = D
    BY <1>4 DEF Eth!Mask
  <2> QED BY <1>1, <1>2, <2>1, SameSizeEth
<1> QED BY <1>3, <1>4

LEMMA OddsDef ==
  ASSUME Eth!SizesFit, NEW p, NEW s, \A pos \in 1 .. Eth!Digits : Eth!Mask(pos, p, s) # {}
  PROVE  /\ Eth!Odds(p, s)[0] = 1
         /\ \A pos \in 1 .. Eth!Digits :
              Eth!Odds(p, s)[pos] =
                IF Cardinality(Eth!Mask(pos, p, s)) = 1 THEN Eth!Odds(p, s)[pos - 1] * Hex
                ELSE Eth!Odds(p, s)[pos - 1]
         /\ \A pos \in 0 .. Eth!Digits : Eth!Odds(p, s)[pos] \in Nat
<1> DEFINE n == Eth!Digits
           share(k) == Eth!Cardinality(Eth!Mask(k, p, s))
           Is(f) == f = [k \in 0 .. n |-> IF k = 0 THEN 1 ELSE (f[k-1] * Hex) \div share(k)]
           next == [it \in Nat \X Nat |-> IF it[1] \in 1 .. n THEN (it[2] * Hex) \div share(it[1]) ELSE 0]
<1>1. n \in Nat /\ Hex \in Nat \ {0, 1}
  BY DEF Eth!SizesFit, Eth!Digits
<1>2. Eth!Odds(p, s) = CHOOSE g : Is(g)
  BY DEF Eth!Odds, Is
<1> HIDE DEF n
<1>3. \A k \in 1 .. n : share(k) \in {1, Hex} /\ share(k) = Cardinality(Eth!Mask(k, p, s))
  BY MaskSize DEF n
<1> HIDE DEF share
<1>4. \A k \in 1 .. n, x \in Nat :
        /\ (x * Hex) \div share(k) \in Nat
        /\ (x * Hex) \div share(k) = IF share(k) = 1 THEN x * Hex ELSE x
  <2> SUFFICES ASSUME NEW k \in 1 .. n, NEW x \in Nat
               PROVE  /\ (x * Hex) \div share(k) \in Nat
                      /\ (x * Hex) \div share(k) = IF share(k) = 1 THEN x * Hex ELSE x
    OBVIOUS
  <2>1. CASE share(k) = 1
    <3>1. x * Hex \in Nat
      BY <1>1
    <3> DEFINE y == x * Hex
    <3> HIDE DEF y
    <3>2. y \in Nat /\ y \div 1 = y
      BY <3>1 DEF y
    <3> QED BY <2>1, <3>2 DEF y
  <2>2. CASE share(k) = Hex
    <3>1. (x * Hex + 0) \div Hex = x /\ x * Hex + 0 = x * Hex
      BY <1>1, DivUnique
    <3>2. (x * Hex) \div share(k) = x /\ share(k) # 1
      BY <1>1, <2>2, <3>1
    <3> QED BY <3>2
  <2> QED BY <1>3, <2>1, <2>2
<1>5. next \in [Nat \X Nat -> Nat]
  BY <1>4
<1>6. \A k \in Nat, x \in Nat : k \in 1 .. n => next[<<k, x>>] = (x * Hex) \div share(k)
  OBVIOUS
<1> HIDE DEF next
<1>7. Recursive(Nat, n, 1, next)
  BY <1>1, <1>5, Recursion
<1>8. PICK f \in [0 .. n -> Nat] : f[0] = 1 /\ \A k \in 1 .. n : f[k] = next[<<k, f[k - 1]>>]
  BY <1>7 DEF Recursive
<1>9. \A k \in 1 .. n : f[k] = (f[k-1] * Hex) \div share(k)
  <2> SUFFICES ASSUME NEW k \in 1 .. n PROVE f[k] = (f[k-1] * Hex) \div share(k)
    OBVIOUS
  <2>1. k \in Nat /\ k - 1 \in 0 .. n
    BY <1>1
  <2>2. f[k - 1] \in Nat
    BY <2>1
  <2>3. next[<<k, f[k - 1]>>] = (f[k - 1] * Hex) \div share(k)
    BY <1>6, <2>1, <2>2, Zenon
  <2> QED BY <1>8, <2>3, Zenon
<1>10. \A k \in 0 .. n : f[k] = IF k = 0 THEN 1 ELSE (f[k-1] * Hex) \div share(k)
  <2> DEFINE q(k) == (f[k-1] * Hex) \div share(k)
  <2>1. \A k \in 1 .. n : f[k] = q(k)
    BY <1>9
  <2> HIDE DEF q
  <2>2. \A k \in 0 .. n : f[k] = IF k = 0 THEN 1 ELSE q(k)
    BY <1>1, <1>8, <2>1
  <2> QED BY <2>2 DEF q
<1>11. Is(f)
  BY <1>10
<1> HIDE DEF Is
<1>12. Is(CHOOSE g : Is(g))
  BY <1>11
<1> DEFINE m == Eth!Odds(p, s)
           S == {k \in Nat : k \in 0 .. n => m[k] = f[k]}
<1>13. m = [k \in 0 .. n |-> IF k = 0 THEN 1 ELSE (m[k-1] * Hex) \div share(k)]
  BY <1>2, <1>12 DEF Is
<1> HIDE DEF m
<1>14. m[0] = 1 /\ \A k \in 1 .. n : m[k] = (m[k-1] * Hex) \div share(k)
  BY <1>1, <1>13
<1>15. 0 \in S
  BY <1>8, <1>14
<1>16. ASSUME NEW k \in Nat, k \in S PROVE k + 1 \in S
  <2> SUFFICES ASSUME k + 1 \in 0 .. n PROVE m[k + 1] = f[k + 1]
    OBVIOUS
  <2>1. k \in 0 .. n /\ k + 1 \in 1 .. n /\ (k + 1) - 1 = k
    BY <1>1
  <2>2. /\ m[k + 1] = (m[(k + 1) - 1] * Hex) \div share(k + 1)
        /\ f[k + 1] = (f[(k + 1) - 1] * Hex) \div share(k + 1)
    BY <1>9, <1>14, <2>1, Zenon
  <2>3. m[k] = f[k]
    BY <1>16, <2>1
  <2> QED BY <2>1, <2>2, <2>3, Zenon
<1> HIDE DEF S
<1>17. \A k \in Nat : k \in S
  BY <1>15, <1>16, InductionOnNat
<1>18. \A k \in 0 .. n : m[k] = f[k]
  BY <1>17 DEF S
<1>19. \A k \in 0 .. n : m[k] \in Nat
  BY <1>18
<1>20. ASSUME NEW k \in 1 .. n PROVE m[k] = IF share(k) = 1 THEN m[k-1] * Hex ELSE m[k-1]
  <2>1. k - 1 \in 0 .. n
    BY <1>1
  <2>2. m[k - 1] \in Nat
    BY <1>19, <2>1
  <2>3. (m[k - 1] * Hex) \div share(k) = IF share(k) = 1 THEN m[k-1] * Hex ELSE m[k-1]
    BY <1>4, <2>2, Zenon
  <2> QED BY <1>14, <2>3, Zenon
<1> QED BY <1>3, <1>14, <1>19, <1>20 DEF m, n

\* The texts of an address, and those of them that the masks admit.
AllTexts == Admitted(Eth!Digits, Hex, [pos \in 1 .. Eth!Digits |-> 0 .. Hex - 1])

MaskTexts(p, s) == Admitted(Eth!Digits, Hex, [pos \in 1 .. Eth!Digits |-> Eth!Mask(pos, p, s)])

\* The odds against the first digits are the texts there are of them, over those
\* the masks admit.
LEMMA OddsExact ==
  ASSUME Eth!SizesFit, NEW p, NEW s, \A pos \in 1 .. Eth!Digits : Eth!Mask(pos, p, s) # {}
  PROVE  /\ IsFiniteSet(AllTexts) /\ IsFiniteSet(MaskTexts(p, s))
         /\ Cardinality(MaskTexts(p, s)) \in Nat \ {0}
         /\ Eth!Odds(p, s)[Eth!Digits] * Cardinality(MaskTexts(p, s)) = Cardinality(AllTexts)
<1> DEFINE n == Eth!Digits
           mask == [pos \in 1 .. n |-> Eth!Mask(pos, p, s)]
           all == [pos \in 1 .. n |-> 0 .. Hex - 1]
           o == Eth!Odds(p, s)
           A(k) == Admitted(k, Hex, all)
           B(k) == Admitted(k, Hex, mask)
           Holds(k) == /\ IsFiniteSet(A(k)) /\ IsFiniteSet(B(k)) /\ Cardinality(B(k)) \in Nat \ {0}
                       /\ o[k] * Cardinality(B(k)) = Cardinality(A(k))
           S == {k \in Nat : k \in 0 .. n => Holds(k)}
<1>1. n \in Nat /\ Hex \in Nat \ {0, 1}
  BY DEF Eth!SizesFit, Eth!Digits
<1>0. AllTexts = A(n) /\ MaskTexts(p, s) = B(n)
  BY DEF AllTexts, MaskTexts
<1>2. /\ o[0] = 1 /\ \A k \in 0 .. n : o[k] \in Nat
      /\ \A k \in 1 .. n : o[k] = IF Cardinality(mask[k]) = 1 THEN o[k - 1] * Hex ELSE o[k - 1]
  <2>1. /\ Eth!Odds(p, s)[0] = 1
        /\ \A pos \in 1 .. Eth!Digits :
             Eth!Odds(p, s)[pos] =
               IF Cardinality(Eth!Mask(pos, p, s)) = 1 THEN Eth!Odds(p, s)[pos - 1] * Hex
               ELSE Eth!Odds(p, s)[pos - 1]
        /\ \A pos \in 0 .. Eth!Digits : Eth!Odds(p, s)[pos] \in Nat
    BY ONLY Eth!SizesFit, \A pos \in 1 .. Eth!Digits : Eth!Mask(pos, p, s) # {}, OddsDef, Zenon
  <2> QED BY <2>1
<1>3. \A k \in 1 .. n : /\ mask[k] \subseteq 0 .. Hex - 1 /\ IsFiniteSet(mask[k])
                        /\ Cardinality(mask[k]) \in {1, Hex}
  BY MaskSize
<1>4. \A k \in 1 .. n : all[k] \subseteq 0 .. Hex - 1 /\ IsFiniteSet(all[k]) /\ Cardinality(all[k]) = Hex
  <2>1. IsFiniteSet(0 .. Hex - 1) /\ Cardinality(0 .. Hex - 1) = Hex
    BY <1>1, FS_Interval
  <2> QED BY <2>1
<1> HIDE DEF n, o, mask, all
<1>5. 0 \in S
  <2>1. IsFiniteSet(A(0)) /\ Cardinality(A(0)) = 1 /\ IsFiniteSet(B(0)) /\ Cardinality(B(0)) = 1
    BY AdmittedFirst
  <2> HIDE DEF A, B
  <2> QED BY <1>2, <2>1
<1>6. ASSUME NEW k \in Nat, k \in S PROVE k + 1 \in S
  <2> SUFFICES ASSUME k + 1 \in 0 .. n PROVE Holds(k + 1)
    OBVIOUS
  <2>1. k \in 0 .. n /\ k + 1 \in 1 .. n /\ (k + 1) - 1 = k
    BY <1>1
  <2>2. Holds(k)
    BY <1>6, <2>1
  <2>3. /\ IsFiniteSet(A(k + 1)) /\ Cardinality(A(k + 1)) = Cardinality(A(k)) * Cardinality(all[k + 1])
        /\ IsFiniteSet(B(k + 1)) /\ Cardinality(B(k + 1)) = Cardinality(B(k)) * Cardinality(mask[k + 1])
    BY <1>3, <1>4, <2>1, <2>2, AdmittedNext
  <2> DEFINE a == Cardinality(A(k))
             b == Cardinality(B(k))
             c == Cardinality(mask[k + 1])
             a1 == Cardinality(A(k + 1))
             b1 == Cardinality(B(k + 1))
             x == o[k]
             x1 == o[k + 1]
  <2>4. /\ a1 = a * Hex /\ b1 = b * c /\ c \in {1, Hex} /\ x * b = a /\ x \in Nat /\ b \in Nat \ {0}
        /\ x1 = IF c = 1 THEN x * Hex ELSE x
    <3>1. x1 = IF c = 1 THEN x * Hex ELSE x
      BY <1>2, <2>1
    <3> QED BY <1>2, <1>3, <1>4, <2>1, <2>2, <2>3, <3>1
  <2>5. IsFiniteSet(A(k + 1)) /\ IsFiniteSet(B(k + 1))
    BY <2>3
  <2> HIDE DEF a, b, c, a1, b1, x, x1
  <2>6. b1 \in Nat \ {0} /\ x1 * b1 = a1
    <3>1. CASE c = 1
      <4>1. b1 = b /\ x1 = x * Hex
        BY <2>4, <3>1
      <4>2. (x * Hex) * b = (x * b) * Hex
        BY <1>1, <2>4
      <4> QED BY <2>4, <4>1, <4>2
    <3>2. CASE c = Hex
      <4>1. b1 = b * Hex /\ x1 = x
        BY <1>1, <2>4, <3>2
      <4>2. x * (b * Hex) = (x * b) * Hex /\ b * Hex \in Nat \ {0}
        BY <1>1, <2>4
      <4> QED BY <2>4, <4>1, <4>2
    <3> QED BY <2>4, <3>1, <3>2
  <2> QED BY <2>5, <2>6 DEF b1, a1, x1
<1> HIDE DEF S
<1>7. \A k \in Nat : k \in S
  BY <1>5, <1>6, InductionOnNat
<1>8. Holds(n)
  <2>1. n \in S /\ n \in 0 .. n
    BY <1>1, <1>7
  <2> HIDE DEF Holds
  <2> QED BY <2>1 DEF S
<1> QED BY <1>0, <1>8 DEF n, o

\* Addresses are their texts.
LEMMA TextIsAddress ==
  ASSUME Eth!SizesFit
  PROVE  /\ \A a \in Eth!Addresses : Eth!ToHex(a) \in [1 .. Eth!Digits -> 0 .. Hex - 1]
         /\ \A a, b \in Eth!Addresses : Eth!ToHex(a) = Eth!ToHex(b) => a = b
         /\ \A t \in [1 .. Eth!Digits -> 0 .. Hex - 1] : \E a \in Eth!Addresses : Eth!ToHex(a) = t
<1>1. /\ Eth!Digits \in Nat /\ Hex \in Nat \ {0, 1} /\ AddressBytes \in Nat \ {0}
      /\ Eth!Digits = 2 * AddressBytes /\ Hex * Hex \in Nat
  BY DEF Eth!SizesFit, Eth!Digits
<1>2. \A a : Eth!ToHex(a) = [k \in 1 .. Eth!Digits |-> Digit(a, k)]
  BY DEF Eth!ToHex, Digit
<1>3. ASSUME NEW a \in Eth!Addresses PROVE Eth!ToHex(a) \in [1 .. Eth!Digits -> 0 .. Hex - 1]
  BY <1>2, DigitFacts
<1>4. ASSUME NEW j \in 0 .. AddressBytes - 1
      PROVE  /\ 2 * j + 1 \in 1 .. Eth!Digits /\ 2 * j + 2 \in 1 .. Eth!Digits
             /\ \A a : Digit(a, 2 * j + 1) = a[j] \div Hex /\ Digit(a, 2 * j + 2) = a[j] % Hex
  <2>1. ((2 * j + 1) - 1) \div 2 = j /\ (2 * j + 1) % 2 = 1 /\ ((2 * j + 2) - 1) \div 2 = j /\ (2 * j + 2) % 2 # 1
    OBVIOUS
  <2> QED BY <1>1, <2>1 DEF Digit, Eth!Half
<1>5. ASSUME NEW a \in Eth!Addresses, NEW b \in Eth!Addresses, Eth!ToHex(a) = Eth!ToHex(b)
      PROVE  a = b
  <2>1. ASSUME NEW j \in 0 .. AddressBytes - 1 PROVE a[j] = b[j]
    <3>1. a[j] \div Hex = b[j] \div Hex /\ a[j] % Hex = b[j] % Hex
      <4>1. \A k \in 1 .. Eth!Digits : Digit(a, k) = Digit(b, k)
        BY <1>5, DigitFacts
      <4> QED BY <1>4, <4>1
    <3>2. a[j] \in Nat /\ b[j] \in Nat
      <4>1. a[j] \in 0 .. Hex * Hex - 1 /\ b[j] \in 0 .. Hex * Hex - 1
        BY DEF Eth!Addresses
      <4> QED BY <1>1, <4>1
    <3>3. Hex \in Nat \ {0}
      BY <1>1
    <3> QED BY <3>1, <3>2, <3>3, Digits, Zenon
  <2> DEFINE Bytes == 0 .. Hex * Hex - 1
             J == 0 .. AddressBytes - 1
  <2>2. a \in [J -> Bytes] /\ b \in [J -> Bytes] /\ \A j \in J : a[j] = b[j]
    BY <2>1 DEF Eth!Addresses
  <2> HIDE DEF Bytes, J
  <2> QED BY <2>2
<1>6. ASSUME NEW t \in [1 .. Eth!Digits -> 0 .. Hex - 1]
      PROVE  \E a \in Eth!Addresses : Eth!ToHex(a) = t
  <2> DEFINE a == [j \in 0 .. AddressBytes - 1 |-> t[2 * j + 1] * Hex + t[2 * j + 2]]
  <2>1. ASSUME NEW j \in 0 .. AddressBytes - 1
        PROVE  /\ t[2 * j + 1] * Hex + t[2 * j + 2] \in 0 .. Hex * Hex - 1
               /\ (t[2 * j + 1] * Hex + t[2 * j + 2]) \div Hex = t[2 * j + 1]
               /\ (t[2 * j + 1] * Hex + t[2 * j + 2]) % Hex = t[2 * j + 2]
    <3> DEFINE q == t[2 * j + 1]
               r == t[2 * j + 2]
    <3>1. q \in 0 .. Hex - 1 /\ r \in 0 .. Hex - 1
      BY <1>4
    <3> HIDE DEF q, r
    <3>2. q \in Nat /\ Hex \in Nat \ {0} /\ (q * Hex + r) \div Hex = q /\ (q * Hex + r) % Hex = r
      <4>1. q \in Nat /\ Hex \in Nat \ {0}
        BY <1>1, <3>1
      <4> QED BY <3>1, <4>1, DivUnique, Zenon
    <3>3. q * Hex + r \in 0 .. Hex * Hex - 1
      <4>1. q + 1 <= Hex /\ q + 1 \in Nat /\ r \in Nat /\ r + 1 <= Hex
        BY <1>1, <3>1
      <4>2. (q + 1) * Hex <= Hex * Hex /\ (q + 1) * Hex = q * Hex + Hex /\ q * Hex \in Nat
        BY <1>1, <3>2, <4>1
      <4> QED BY <1>1, <4>1, <4>2
    <3> QED BY <3>2, <3>3 DEF q, r
  <2>2. a \in Eth!Addresses
    BY <2>1 DEF Eth!Addresses
  <2>3. ASSUME NEW j \in 0 .. AddressBytes - 1
        PROVE  Digit(a, 2 * j + 1) = t[2 * j + 1] /\ Digit(a, 2 * j + 2) = t[2 * j + 2]
    <3>1. a[j] = t[2 * j + 1] * Hex + t[2 * j + 2]
      OBVIOUS
    <3> HIDE DEF a
    <3>2. Digit(a, 2 * j + 1) = a[j] \div Hex /\ Digit(a, 2 * j + 2) = a[j] % Hex
      BY <1>4
    <3> QED BY <2>1, <3>1, <3>2
  <2> HIDE DEF a
  <2>4. ASSUME NEW k \in 1 .. Eth!Digits PROVE Digit(a, k) = t[k]
    <3> DEFINE j == (k - 1) \div 2
    <3>1. j \in 0 .. AddressBytes - 1 /\ (k = 2 * j + 1 \/ k = 2 * j + 2)
      BY <1>1
    <3> HIDE DEF j
    <3> QED BY <2>3, <3>1
  <2>5. Eth!ToHex(a) = t
    BY <1>2, <2>4
  <2> QED BY <2>2, <2>5
<1> QED BY <1>3, <1>5, <1>6

\* An address is wanted when the mask of every place admits its digit.
LEMMA WantedMasks ==
  ASSUME Eth!SizesFit, prefix \in Eth!Texts, suffix \in Eth!Texts, NEW a \in Eth!Addresses
  PROVE  Eth!Wanted(a) <=> \A k \in 1 .. Eth!Digits : Eth!ToHex(a)[k] \in Eth!Mask(k, prefix, suffix)
<1> DEFINE d == Eth!Digits - Len(suffix)
           h == Eth!ToHex(a)
           n == Eth!Digits
<1>1. /\ DOMAIN prefix = 1 .. Len(prefix) /\ Len(prefix) \in 0 .. n /\ n \in Nat
      /\ DOMAIN suffix = 1 .. Len(suffix) /\ Len(suffix) \in 0 .. n
  BY TextFacts
<1>2. \A k \in 1 .. n : h[k] = Digit(a, k) /\ h[k] \in 0 .. Hex - 1
  BY DigitFacts
<1>3. d \in Nat /\ Len(prefix) \in Nat /\ Len(suffix) \in Nat
  BY <1>1
<1>4. (\A i \in 1 .. Len(prefix) : 0 + i \in 1 .. n) /\ (\A i \in 1 .. Len(suffix) : d + i \in 1 .. n)
  BY <1>1
<1>5. Eth!Placed(prefix, suffix) = {<<0, prefix>>, <<d, suffix>>}
  BY DEF Eth!Placed
<1>6. Eth!Wanted(a) <=> ReadsAt(a, 0, prefix) /\ ReadsAt(a, d, suffix)
  BY WantedReads
<1> HIDE DEF d, n
<1>7. \A k \in 1 .. n : h[k] \in Eth!Mask(k, prefix, suffix) <=>
        /\ \A i \in 1 .. Len(prefix) : 0 + i = k => prefix[i] = h[k]
        /\ \A i \in 1 .. Len(suffix) : d + i = k => suffix[i] = h[k]
  <2> SUFFICES ASSUME NEW k \in 1 .. n
               PROVE  h[k] \in Eth!Mask(k, prefix, suffix) <=>
                        /\ \A i \in 1 .. Len(prefix) : 0 + i = k => prefix[i] = h[k]
                        /\ \A i \in 1 .. Len(suffix) : d + i = k => suffix[i] = h[k]
    OBVIOUS
  <2>1. h[k] \in Eth!Mask(k, prefix, suffix) <=>
          \A at \in {<<0, prefix>>, <<d, suffix>>} : \A i \in DOMAIN at[2] : at[1] + i = k => at[2][i] = h[k]
    <3> HIDE DEF h
    <3> QED BY <1>2, <1>5 DEF Eth!Mask
  <2> HIDE DEF h
  <2> QED BY <1>1, <2>1
<1> HIDE DEF h
<1>8. ReadsAt(a, 0, prefix) <=> \A i \in 1 .. Len(prefix) : h[0 + i] = prefix[i]
  BY <1>2, <1>4 DEF ReadsAt
<1>9. ReadsAt(a, d, suffix) <=> \A i \in 1 .. Len(suffix) : h[d + i] = suffix[i]
  BY <1>2, <1>4 DEF ReadsAt
<1>10. (\A k \in 1 .. n : h[k] \in Eth!Mask(k, prefix, suffix)) <=>
         /\ \A i \in 1 .. Len(prefix) : h[0 + i] = prefix[i]
         /\ \A i \in 1 .. Len(suffix) : h[d + i] = suffix[i]
  BY <1>4, <1>7
<1> QED BY <1>6, <1>8, <1>9, <1>10 DEF h, n

\* The expected number of attempts is exact.
LEMMA ExpectedIsExact ==
  ASSUME Eth!SizesFit, prefix \in Eth!Texts, suffix \in Eth!Texts,
         expected = Eth!Expected(prefix, suffix)
  PROVE  Eth!ExpectedExact
<1> DEFINE n == Eth!Digits
           W == {a \in Eth!Addresses : Eth!Wanted(a)}
           mask == [k \in 1 .. n |-> Eth!Mask(k, prefix, suffix)]
           all == [k \in 1 .. n |-> 0 .. Hex - 1]
           A == AllTexts
           B == MaskTexts(prefix, suffix)
<1>1. \A k \in 1 .. n : mask[k] = Eth!Mask(k, prefix, suffix) /\ all[k] = 0 .. Hex - 1
  OBVIOUS
<1>2. \A a \in Eth!Addresses : Eth!ToHex(a) \in A
  BY <1>1, TextIsAddress DEF Admitted, AllTexts, MaskTexts
<1>3. \A t \in A : \E a \in Eth!Addresses : Eth!ToHex(a) = t
  BY TextIsAddress DEF Admitted, AllTexts, MaskTexts
<1>4. \A a \in Eth!Addresses : a \in W <=> Eth!ToHex(a) \in B
  BY <1>1, TextIsAddress, WantedMasks DEF Admitted, AllTexts, MaskTexts
<1>5. B \subseteq A
  <2>1. \A t \in B : t \in [1 .. n -> 0 .. Hex - 1]
    BY DEF Admitted, AllTexts, MaskTexts
  <2> QED BY <1>1, <2>1 DEF Admitted, AllTexts, MaskTexts
<1> HIDE DEF W
<1>6. W \subseteq Eth!Addresses /\ W = {a \in Eth!Addresses : Eth!Wanted(a)}
  BY DEF W
<1>7. CASE \E k \in 1 .. n : mask[k] = {}
  <2>1. B = {}
    BY <1>7 DEF Admitted, AllTexts, MaskTexts
  <2>2. W = {}
    BY <1>4, <1>6, <2>1
  <2>3. Eth!Cardinality(W) = 0
    BY <2>2, SameSizeEth, FS_EmptySet
  <2>4. expected = 0
    BY <1>1, <1>7 DEF Eth!Expected
  <2> QED BY <1>6, <2>3, <2>4 DEF Eth!ExpectedExact
<1>8. CASE \A k \in 1 .. n : mask[k] # {}
  <2>1. expected = Eth!Odds(prefix, suffix)[n]
    BY <1>1, <1>8 DEF Eth!Expected
  <2>2. \A k \in 1 .. n : Eth!Mask(k, prefix, suffix) # {}
    BY <1>1, <1>8
  <2>3. /\ IsFiniteSet(A) /\ IsFiniteSet(B) /\ Cardinality(B) \in Nat \ {0}
        /\ Eth!Odds(prefix, suffix)[n] * Cardinality(B) = Cardinality(A)
    BY <2>2, OddsExact
  <2> HIDE DEF A, B
  <2>4. IsFiniteSet(Eth!Addresses) /\ Cardinality(Eth!Addresses) = Cardinality(A)
    <3> DEFINE address(t) == CHOOSE a \in Eth!Addresses : Eth!ToHex(a) = t
               f == [t \in A |-> address(t)]
    <3>1. \A t \in A : address(t) \in Eth!Addresses /\ Eth!ToHex(address(t)) = t
      BY <1>3
    <3> HIDE DEF address
    <3>2. f \in [A -> Eth!Addresses] /\ (\A s, t \in A : f[s] = f[t] => s = t)
      BY <3>1
    <3>3. \A a \in Eth!Addresses : \E t \in A : f[t] = a
      <4> SUFFICES ASSUME NEW a \in Eth!Addresses PROVE \E t \in A : f[t] = a
        OBVIOUS
      <4>1. Eth!ToHex(a) \in A /\ address(Eth!ToHex(a)) \in Eth!Addresses
            /\ Eth!ToHex(address(Eth!ToHex(a))) = Eth!ToHex(a)
        BY <1>2, <3>1
      <4>2. address(Eth!ToHex(a)) = a
        BY <4>1, TextIsAddress
      <4> QED BY <4>1, <4>2
    <3> HIDE DEF f
    <3> QED BY <2>3, <3>2, <3>3, BijectionSize
  <2>5. IsFiniteSet(W) /\ Cardinality(W) = Cardinality(B)
    <3> DEFINE f == [a \in W |-> Eth!ToHex(a)]
    <3>1. IsFiniteSet(W)
      BY <1>6, <2>4, FS_Subset
    <3>2. f \in [W -> B]
      BY <1>4, <1>6
    <3>3. \A a, b \in W : f[a] = f[b] => a = b
      BY <1>6, TextIsAddress
    <3>4. \A t \in B : \E a \in W : f[a] = t
      <4> SUFFICES ASSUME NEW t \in B PROVE \E a \in W : f[a] = t
        OBVIOUS
      <4>1. PICK a \in Eth!Addresses : Eth!ToHex(a) = t
        BY <1>3, <1>5
      <4>2. a \in W
        BY <1>4, <4>1
      <4> QED BY <4>1, <4>2
    <3> HIDE DEF f
    <3> QED BY <3>1, <3>2, <3>3, <3>4, BijectionSize
  <2>6. Eth!Cardinality(W) # 0 /\ expected * Eth!Cardinality(W) = Eth!Cardinality(Eth!Addresses)
    BY <2>1, <2>3, <2>4, <2>5, SameSizeEth
  <2> QED BY <1>6, <2>6 DEF Eth!ExpectedExact
<1> QED BY <1>7, <1>8

\* The patterns stay; the expected attempts, once estimated, and the checks, once
\* built, are those of the patterns.
EthInv ==
  /\ prefix \in Eth!Texts /\ suffix \in Eth!Texts
  /\ pc # "new" => expected = Eth!Expected(prefix, suffix)
  /\ pc = "done" => checks = Eth!MakeChecks(prefix, suffix)

LEMMA SameExpected ==
  ASSUME UNCHANGED <<prefix, suffix>>
  PROVE  UNCHANGED Eth!Expected(prefix, suffix)
BY DEF Eth!Digits, Eth!Placed, Eth!Expected, Eth!Odds, Eth!Mask, Eth!Cardinality

LEMMA EthInvStep ==
  ASSUME EthInv, [Eth!Next]_Eth!vars
  PROVE  EthInv'
<1> USE DEF Eth!Texts, Eth!Digits, Eth!MakeChecks, Eth!Placed
<1>1. CASE Eth!Estimate
  <2>1. UNCHANGED Eth!Expected(prefix, suffix)
    BY <1>1, SameExpected DEF Eth!Estimate
  <2> QED BY <1>1, <2>1 DEF EthInv, Eth!Estimate
<1>2. CASE Eth!Build
  <2>1. UNCHANGED Eth!Expected(prefix, suffix)
    BY <1>2, SameExpected DEF Eth!Build
  <2> QED BY <1>2, <2>1 DEF EthInv, Eth!Build
<1>3. CASE UNCHANGED Eth!vars
  <2>1. UNCHANGED Eth!Expected(prefix, suffix)
    BY <1>3, SameExpected DEF Eth!vars
  <2> QED BY <1>3, <2>1 DEF EthInv, Eth!vars
<1> QED BY <1>1, <1>2, <1>3 DEF Eth!Next, Eth!Finished

-----------------------------------------------------------------------------
(* Powers. *)

LEMMA PowersDef ==
  ASSUME NEW b \in Nat \ {0}
  PROVE  /\ Sol!Powers(b)[0] = 1
         /\ \A n \in Nat : /\ Sol!Powers(b)[n] \in Nat \ {0}
                           /\ Sol!Powers(b)[n + 1] = Sol!Powers(b)[n] * b
<1> DEFINE T == Nat \ {0}
           Is(f) == f = [n \in Nat |-> IF n = 0 THEN 1 ELSE f[n-1] * b]
           next == [it \in Nat \X T |-> it[2] * b]
<1>1. \A a \in T : a * b \in T
  BY ProductPositive
<1>2. next \in [Nat \X T -> T] /\ 1 \in T /\ \A i \in Nat, a \in T : next[<<i, a>>] = a * b
  BY <1>1
<1> HIDE DEF T, next
<1>3. PICK f \in [Nat -> T] : f[0] = 1 /\ \A i \in Nat : f[i + 1] = next[<<i + 1, f[i]>>]
  <2>1. RecursiveOnNat(T, 1, next)
    BY <1>2, RecursionOnNat
  <2> QED BY <2>1 DEF RecursiveOnNat
<1>4. \A n \in Nat : f[n] \in T /\ f[n + 1] = f[n] * b
  <2> SUFFICES ASSUME NEW n \in Nat PROVE f[n] \in T /\ f[n + 1] = f[n] * b
    OBVIOUS
  <2>1. f[n] \in T /\ n + 1 \in Nat
    OBVIOUS
  <2> QED BY <1>2, <1>3, <2>1
<1>5. \A n \in Nat : f[n] = IF n = 0 THEN 1 ELSE f[n-1] * b
  <2> SUFFICES ASSUME NEW n \in Nat, n # 0 PROVE f[n] = f[n-1] * b
    BY <1>3
  <2>1. n - 1 \in Nat /\ (n - 1) + 1 = n
    OBVIOUS
  <2> QED BY <1>4, <2>1
<1>6. Is(f)
  BY <1>5
<1> HIDE DEF Is
<1>7. Is(CHOOSE g : Is(g))
  BY <1>6
<1>8. Sol!Powers(b) = CHOOSE g : Is(g)
  BY DEF Sol!Powers, Is
<1>9. Is(Sol!Powers(b))
  BY <1>7, <1>8
<1> DEFINE m == Sol!Powers(b)
           S == {n \in Nat : m[n] = f[n]}
<1>10. m = [n \in Nat |-> IF n = 0 THEN 1 ELSE m[n-1] * b]
  BY <1>9 DEF Is
<1> HIDE DEF m
<1>11. m[0] = 1 /\ \A n \in Nat : n # 0 => m[n] = m[n-1] * b
  BY <1>10
<1>12. 0 \in S
  BY <1>3, <1>11
<1>13. ASSUME NEW n \in Nat, n \in S PROVE n + 1 \in S
  <2>1. n + 1 \in Nat /\ n + 1 # 0 /\ (n + 1) - 1 = n
    OBVIOUS
  <2>2. m[n + 1] = m[(n + 1) - 1] * b
    BY <1>11, <2>1
  <2> QED BY <1>4, <1>13, <2>1, <2>2
<1> HIDE DEF S
<1>14. \A n \in Nat : n \in S
  BY <1>12, <1>13, InductionOnNat
<1>15. \A n \in Nat : m[n] = f[n]
  BY <1>14 DEF S
<1>16. \A n \in Nat : n + 1 \in Nat
  OBVIOUS
<1> QED BY <1>3, <1>4, <1>15, <1>16 DEF m, T

LEMMA PowersSum ==
  ASSUME NEW b \in Nat \ {0}, NEW m \in Nat, NEW n \in Nat
  PROVE  Sol!Powers(b)[m + n] = Sol!Powers(b)[m] * Sol!Powers(b)[n]
<1> DEFINE p == Sol!Powers(b)
           S == {k \in Nat : p[m + k] = p[m] * p[k]}
<1>1. p[0] = 1 /\ \A k \in Nat : p[k] \in Nat \ {0} /\ p[k + 1] = p[k] * b
  BY PowersDef
<1> HIDE DEF p
<1>2. 0 \in S
  BY <1>1
<1>3. ASSUME NEW k \in Nat, k \in S PROVE k + 1 \in S
  <2>1. m + k \in Nat /\ m + (k + 1) = (m + k) + 1
    OBVIOUS
  <2>2. p[m + (k + 1)] = (p[m] * p[k]) * b
    BY <1>1, <1>3, <2>1
  <2>3. p[k + 1] = p[k] * b /\ p[m] \in Nat /\ p[k] \in Nat
    BY <1>1
  <2>4. (p[m] * p[k]) * b = p[m] * (p[k] * b)
    BY <2>3
  <2> QED BY <2>2, <2>3, <2>4
<1> HIDE DEF S
<1>4. n \in S
  BY <1>2, <1>3, InductionOnNat
<1> QED BY <1>4 DEF S, p

LEMMA PowersMonotone ==
  ASSUME NEW b \in Nat \ {0}, NEW m \in Nat, NEW n \in Nat, m <= n
  PROVE  Sol!Powers(b)[m] <= Sol!Powers(b)[n]
<1> DEFINE d == n - m
           x == Sol!Powers(b)[m]
           y == Sol!Powers(b)[d]
<1>1. d \in Nat /\ m + d = n
  OBVIOUS
<1>2. Sol!Powers(b)[n] = x * y /\ x \in Nat \ {0} /\ y \in Nat \ {0}
  <2> HIDE DEF d
  <2>1. Sol!Powers(b)[m + d] = x * y
    BY <1>1, PowersSum
  <2> QED BY <1>1, <2>1, PowersDef
<1> HIDE DEF x, y
<1>3. y - 1 \in Nat /\ y = (y - 1) + 1
  BY <1>2
<1>4. x * ((y - 1) + 1) = x * (y - 1) + x /\ x * (y - 1) \in Nat
  BY <1>2, <1>3
<1>5. x <= x * y
  BY <1>2, <1>3, <1>4
<1> QED BY <1>2, <1>5 DEF x

LEMMA PowersGrow ==
  ASSUME NEW b \in Nat \ {0, 1}, NEW n \in Nat
  PROVE  n < Sol!Powers(b)[n]
<1> DEFINE p == Sol!Powers(b)
           S == {k \in Nat : k < p[k]}
<1>1. p[0] = 1 /\ \A k \in Nat : p[k] \in Nat \ {0} /\ p[k + 1] = p[k] * b
  BY PowersDef
<1> HIDE DEF p
<1>2. 0 \in S
  BY <1>1
<1>3. ASSUME NEW k \in Nat, k \in S PROVE k + 1 \in S
  <2> DEFINE x == p[k]
  <2>1. x \in Nat /\ k < x /\ p[k + 1] = x * b
    BY <1>1, <1>3
  <2> HIDE DEF x
  <2>2. b - 2 \in Nat /\ b = (b - 2) + 2
    OBVIOUS
  <2>3. x * ((b - 2) + 2) = x * (b - 2) + x * 2 /\ x * (b - 2) \in Nat
    BY <2>1, <2>2
  <2>4. x * b >= x + x
    BY <2>1, <2>2, <2>3
  <2>5. k + 1 < x * b
    BY <2>1, <2>4
  <2> QED BY <2>1, <2>5
<1> HIDE DEF S
<1>4. n \in S
  BY <1>2, <1>3, InductionOnNat
<1> QED BY <1>4 DEF S, p

\* The length of a number is the number of its digits.
LEMMA LengthExact ==
  ASSUME NEW b \in Nat \ {0, 1}, NEW v \in Nat
  PROVE  /\ Sol!Length(v, b) \in Nat /\ v < Sol!Powers(b)[Sol!Length(v, b)]
         /\ v # 0 => Sol!Length(v, b) # 0 /\ Sol!Powers(b)[Sol!Length(v, b) - 1] <= v
<1> DEFINE p == Sol!Powers(b)
           S == {n \in Nat : v < p[n]}
<1>1. p[0] = 1 /\ \A k \in Nat : p[k] \in Nat \ {0}
  BY PowersDef
<1>2. \A k \in Nat : k < p[k]
  BY PowersGrow
<1> HIDE DEF p
<1>3. CASE v = 0
  <2>1. Sol!Length(v, b) = 0
    BY <1>3 DEF Sol!Length
  <2> QED BY <1>1, <1>3, <2>1 DEF p
<1>4. CASE v # 0
  <2>1. v \in S
    BY <1>2
  <2>2. PICK n \in S : \A k \in S : n <= k
    <3>1. S \subseteq Nat /\ S # {}
      BY <2>1
    <3> HIDE DEF S
    <3> QED BY <3>1, LeastNat
  <2>3. n \in Nat /\ v < p[n] /\ n # 0
    BY <1>1, <1>4, <2>2
  <2>4. n - 1 \in Nat /\ n - 1 \notin S
    BY <2>2, <2>3
  <2>5. p[n-1] <= v
    BY <1>1, <2>4
  <2>6. n \in 1 .. v
    <3>1. n - 1 < p[n-1] /\ p[n-1] \in Nat
      BY <1>1, <1>2, <2>4
    <3> QED BY <2>3, <2>5, <3>1
  <2> DEFINE l == CHOOSE k \in 1 .. v : p[k-1] <= v /\ v < p[k]
  <2>7. l \in 1 .. v /\ p[l-1] <= v /\ v < p[l]
    BY <2>3, <2>5, <2>6
  <2>8. Sol!Length(v, b) = l
    BY <1>4 DEF Sol!Length, p
  <2> HIDE DEF l
  <2> QED BY <2>7, <2>8 DEF p
<1> QED BY <1>3, <1>4

\* A digit below the modulus is that of the remainder.
LEMMA DigitOfRemainder ==
  ASSUME NEW c \in Nat \ {0}, NEW b \in Nat \ {0}, NEW e \in Nat \ {0}, NEW v \in Nat
  PROVE  ((v % (c * b * e)) \div c) % b = (v \div c) % b
<1> DEFINE d == c * b * e
           q == v \div d
           r == v % d
           s == r \div c
           t == r % c
<1>1. d \in Nat \ {0}
  <2>1. c * b \in Nat \ {0}
    BY ProductPositive
  <2> QED BY <2>1, ProductPositive
<1>2. q \in Nat /\ r \in Nat /\ v = q * d + r
  <2> HIDE DEF d
  <2> QED BY <1>1, DivMod
<1> HIDE DEF q, r
<1>3. s \in Nat /\ t \in 0 .. c - 1 /\ r = s * c + t
  BY <1>2, DivMod
<1> HIDE DEF s, t
<1>4. q * d = (q * e * b) * c /\ q * e * b \in Nat
  BY <1>2
<1> DEFINE k == q * e * b + s
<1>5. k \in Nat /\ v = k * c + t
  <2>1. (q * e * b + s) * c = (q * e * b) * c + s * c
    BY <1>3, <1>4
  <2> QED BY <1>2, <1>3, <1>4, <2>1
<1>6. v \div c = k
  <2> HIDE DEF k
  <2> QED BY <1>3, <1>5, DivUnique
<1>7. k % b = s % b
  <2> DEFINE l == q * e
             g == s \div b
             h == s % b
  <2>1. l \in Nat /\ k = l * b + s
    BY <1>2
  <2>2. g \in Nat /\ h \in 0 .. b - 1 /\ s = g * b + h
    BY <1>3, DivMod
  <2> HIDE DEF l, k, g, h
  <2>3. k = (l + g) * b + h /\ l + g \in Nat
    <3>1. (l + g) * b = l * b + g * b
      BY <2>1, <2>2
    <3> QED BY <2>1, <2>2, <3>1
  <2>4. k % b = h
    BY <2>2, <2>3, DivUnique
  <2> QED BY <2>4 DEF h
<1> HIDE DEF k
<1> QED BY <1>6, <1>7 DEF s, r, d

\* A number with a digit at place n, counted from 0, is longer than n.
LEMMA LengthAbove ==
  ASSUME NEW b \in Nat \ {0, 1}, NEW v \in Nat, NEW n \in Nat, Sol!Powers(b)[n] <= v
  PROVE  n < Sol!Length(v, b)
<1> DEFINE l == Sol!Length(v, b)
           p == Sol!Powers(b)
<1>1. l \in Nat /\ v < p[l]
  BY LengthExact
<1>2. \A i \in Nat : p[i] \in Nat
  BY PowersDef
<1> SUFFICES ASSUME l <= n PROVE FALSE
  BY <1>1
<1>3. p[l] <= p[n]
  <2>1. b \in Nat \ {0}
    OBVIOUS
  <2> HIDE DEF l
  <2> QED BY <1>1, <2>1, PowersMonotone
<1> HIDE DEF l, p
<1>4. p[n] <= v
  BY DEF p
<1> QED BY <1>1, <1>2, <1>3, <1>4

LEMMA LengthBelow ==
  ASSUME NEW b \in Nat \ {0, 1}, NEW v \in Nat, NEW n \in Nat, v < Sol!Powers(b)[n]
  PROVE  Sol!Length(v, b) <= n
<1> DEFINE l == Sol!Length(v, b)
           p == Sol!Powers(b)
<1>1. l \in Nat /\ (v # 0 => l # 0 /\ p[l-1] <= v)
  BY LengthExact
<1>2. v = 0 => l = 0
  BY DEF Sol!Length
<1>3. \A i \in Nat : p[i] \in Nat
  BY PowersDef
<1> SUFFICES ASSUME n < l PROVE FALSE
  BY <1>1
<1>4. v # 0 /\ l - 1 \in Nat /\ n <= l - 1
  BY <1>1, <1>2
<1>5. p[n] <= p[l-1]
  <2>1. b \in Nat \ {0}
    OBVIOUS
  <2> HIDE DEF l
  <2> QED BY <1>4, <2>1, PowersMonotone
<1>6. v < p[n]
  BY DEF p
<1> HIDE DEF l, p
<1> QED BY <1>1, <1>3, <1>4, <1>5, <1>6

LEMMA LengthUnique ==
  ASSUME NEW b \in Nat \ {0, 1}, NEW v \in Nat, NEW n \in Nat,
         Sol!Powers(b)[n] <= v, v < Sol!Powers(b)[n + 1]
  PROVE  Sol!Length(v, b) = n + 1
<1>1. n < Sol!Length(v, b)
  BY LengthAbove
<1>2. Sol!Length(v, b) <= n + 1
  <2>1. n + 1 \in Nat
    OBVIOUS
  <2> QED BY <2>1, LengthBelow
<1>3. Sol!Length(v, b) \in Nat
  BY LengthExact
<1> QED BY <1>1, <1>2, <1>3

\* The powers of a power.
LEMMA PowersOfPower ==
  ASSUME NEW b \in Nat \ {0}, NEW g \in Nat, NEW n \in Nat
  PROVE  Sol!Powers(Sol!Powers(b)[g])[n] = Sol!Powers(b)[g * n]
<1> DEFINE p == Sol!Powers(b)
           r == p[g]
           m == Sol!Powers(r)
           S == {k \in Nat : m[k] = p[g * k]}
<1>1. p[0] = 1 /\ \A k \in Nat : p[k] \in Nat \ {0}
  BY PowersDef
<1>2. r \in Nat \ {0}
  BY <1>1
<1>3. \A i \in Nat, j \in Nat : p[i + j] = p[i] * p[j]
  BY PowersSum
<1>4. m[0] = 1 /\ \A k \in Nat : m[k + 1] = m[k] * r
  <2> HIDE DEF r
  <2> QED BY <1>2, PowersDef
<1> HIDE DEF p, m
<1>5. 0 \in S
  BY <1>1, <1>4
<1>6. ASSUME NEW k \in Nat, k \in S PROVE k + 1 \in S
  <2>1. g * k \in Nat /\ g * (k + 1) = g * k + g
    OBVIOUS
  <2>2. p[g * (k + 1)] = p[g * k] * p[g]
    BY <1>3, <2>1
  <2> QED BY <1>4, <1>6, <2>2
<1> HIDE DEF S
<1>7. n \in S
  BY <1>5, <1>6, InductionOnNat
<1> QED BY <1>7 DEF S, m, p, r

\* The powers of a smaller base are no greater.
LEMMA PowersLess ==
  ASSUME NEW b \in Nat \ {0}, NEW c \in Nat \ {0}, b <= c, NEW n \in Nat
  PROVE  Sol!Powers(b)[n] <= Sol!Powers(c)[n]
<1> DEFINE p == Sol!Powers(b)
           q == Sol!Powers(c)
           S == {k \in Nat : p[k] <= q[k]}
<1>1. /\ p[0] = 1 /\ \A k \in Nat : p[k] \in Nat \ {0} /\ p[k + 1] = p[k] * b
      /\ q[0] = 1 /\ \A k \in Nat : q[k] \in Nat \ {0} /\ q[k + 1] = q[k] * c
  BY PowersDef
<1> HIDE DEF p, q
<1>2. 0 \in S
  BY <1>1
<1>3. ASSUME NEW k \in Nat, k \in S PROVE k + 1 \in S
  <2> DEFINE x == p[k]
             y == q[k]
  <2>1. x \in Nat /\ y \in Nat /\ x <= y /\ p[k + 1] = x * b /\ q[k + 1] = y * c
    BY <1>1, <1>3
  <2> HIDE DEF x, y
  <2>2. x * b <= y * c
    BY <2>1, ProductMonotone
  <2> QED BY <2>1, <2>2
<1> HIDE DEF S
<1>4. n \in S
  BY <1>2, <1>3, InductionOnNat
<1> QED BY <1>4 DEF S, p, q

-----------------------------------------------------------------------------
(* Numbers of digits. *)

LEMMA NumbersDef ==
  ASSUME NEW s \in Seq(Nat), NEW b \in Nat
  PROVE  /\ Sol!Numbers(s, b)[0] = 0
         /\ \A i \in 1 .. Len(s) : Sol!Numbers(s, b)[i] = Sol!Numbers(s, b)[i-1] * b + s[i]
         /\ \A i \in 0 .. Len(s) : Sol!Numbers(s, b)[i] \in Nat
<1> DEFINE n == Len(s)
           Is(f) == f = [i \in 0 .. n |-> IF i = 0 THEN 0 ELSE f[i-1] * b + s[i]]
           next == [it \in Nat \X Nat |-> IF it[1] \in 1 .. n THEN it[2] * b + s[it[1]] ELSE 0]
<1>1. n \in Nat /\ \A i \in 1 .. n : s[i] \in Nat
  BY LenProperties
<1>2. \A i \in 1 .. n, a \in Nat : a * b + s[i] \in Nat
  BY <1>1
<1>3. next \in [Nat \X Nat -> Nat]
  BY <1>2
<1>4. \A i \in Nat, a \in Nat : i \in 1 .. n => next[<<i, a>>] = a * b + s[i]
  OBVIOUS
<1> HIDE DEF next
<1>5. Sol!Numbers(s, b) = CHOOSE g : Is(g)
  BY DEF Sol!Numbers, Is
<1> HIDE DEF n
<1>6. Recursive(Nat, n, 0, next)
  BY <1>1, <1>3, Recursion
<1>7. PICK f \in [0 .. n -> Nat] : f[0] = 0 /\ \A i \in 1 .. n : f[i] = next[<<i, f[i - 1]>>]
  BY <1>6 DEF Recursive
<1>8. \A i \in 1 .. n : f[i] = f[i-1] * b + s[i]
  <2> SUFFICES ASSUME NEW i \in 1 .. n PROVE f[i] = f[i-1] * b + s[i]
    OBVIOUS
  <2>1. i \in Nat /\ i - 1 \in 0 .. n
    BY <1>1
  <2>2. f[i - 1] \in Nat
    BY <2>1
  <2>3. next[<<i, f[i - 1]>>] = f[i - 1] * b + s[i]
    BY <1>4, <2>1, <2>2
  <2> QED BY <1>7, <2>3
<1>9. \A i \in 0 .. n : f[i] = IF i = 0 THEN 0 ELSE f[i-1] * b + s[i]
  BY <1>1, <1>7, <1>8
<1>10. Is(f)
  BY <1>9
<1> HIDE DEF Is
<1>11. Is(CHOOSE g : Is(g))
  BY <1>10
<1> DEFINE m == Sol!Numbers(s, b)
           S == {i \in Nat : i \in 0 .. n => m[i] = f[i]}
<1>12. m = [i \in 0 .. n |-> IF i = 0 THEN 0 ELSE m[i-1] * b + s[i]]
  BY <1>5, <1>11 DEF Is
<1> HIDE DEF m
<1>13. m[0] = 0 /\ \A i \in 1 .. n : m[i] = m[i-1] * b + s[i]
  BY <1>1, <1>12
<1>14. 0 \in S
  BY <1>7, <1>13
<1>15. ASSUME NEW i \in Nat, i \in S PROVE i + 1 \in S
  <2> SUFFICES ASSUME i + 1 \in 0 .. n PROVE m[i + 1] = f[i + 1]
    OBVIOUS
  <2>1. i \in 0 .. n /\ i + 1 \in 1 .. n /\ (i + 1) - 1 = i
    BY <1>1
  <2>2. m[i + 1] = m[(i + 1) - 1] * b + s[i + 1] /\ f[i + 1] = f[(i + 1) - 1] * b + s[i + 1]
    BY <1>8, <1>13, <2>1
  <2>3. m[i] = f[i]
    BY <1>15, <2>1
  <2> QED BY <2>1, <2>2, <2>3
<1> HIDE DEF S
<1>16. \A i \in Nat : i \in S
  BY <1>14, <1>15, InductionOnNat
<1>17. \A i \in 0 .. n : m[i] = f[i]
  BY <1>16 DEF S
<1> QED BY <1>13, <1>17 DEF m, n

\* The digits up to m + n stand for those up to m, moved n places, and the n after
\* them.
LEMMA NumberSplit ==
  ASSUME NEW s \in Seq(Nat), NEW b \in Nat \ {0}, NEW m \in Nat, NEW n \in Nat, m + n <= Len(s)
  PROVE  /\ Sol!Number(SubSeq(s, m + 1, m + n), b) \in Nat
         /\ Sol!Numbers(s, b)[m + n]
              = Sol!Numbers(s, b)[m] * Sol!Powers(b)[n] + Sol!Number(SubSeq(s, m + 1, m + n), b)
<1> DEFINE u == SubSeq(s, m + 1, m + n)
           f == Sol!Numbers(s, b)
           g == Sol!Numbers(u, b)
           p == Sol!Powers(b)
           S == {j \in Nat : j <= n => f[m + j] = f[m] * p[j] + g[j]}
<1>1. Len(s) \in Nat /\ \A i \in 1 .. Len(s) : s[i] \in Nat
  BY LenProperties
<1>2. u \in Seq(Nat) /\ Len(u) = n /\ \A j \in 1 .. n : u[j] = s[m + j]
  <2>1. m + 1 \in Nat /\ m + n \in Nat /\ \A i \in (m + 1) .. (m + n) : s[i] \in Nat
    BY <1>1
  <2> DEFINE e == m + 1
             h == m + n
  <2>2. /\ SubSeq(s, e, h) \in Seq(Nat)
        /\ Len(SubSeq(s, e, h)) = (IF e <= h THEN h - e + 1 ELSE 0)
        /\ \A i \in 1 .. h - e + 1 : SubSeq(s, e, h)[i] = s[e + i - 1]
    <3>1. e \in Nat /\ h \in Nat /\ \A i \in e .. h : s[i] \in Nat
      BY <2>1
    <3> HIDE DEF e, h
    <3> QED BY <3>1, SubSeqProperties
  <2>3. h - e + 1 = n /\ (e <= h <=> n >= 1) /\ \A i \in 1 .. n : e + i - 1 = m + i
    OBVIOUS
  <2>4. u = SubSeq(s, e, h)
    OBVIOUS
  <2> HIDE DEF u, e, h
  <2>5. Len(u) = n
    BY <2>2, <2>3, <2>4
  <2>6. \A j \in 1 .. n : u[j] = s[m + j]
    BY <2>2, <2>3, <2>4
  <2> QED BY <2>2, <2>4, <2>5, <2>6
<1>3. /\ \A i \in 1 .. Len(s) : f[i] = f[i-1] * b + s[i]
      /\ \A i \in 0 .. Len(s) : f[i] \in Nat
  BY NumbersDef
<1> HIDE DEF u
<1>4. /\ g[0] = 0 /\ \A i \in 1 .. n : g[i] = g[i-1] * b + u[i]
      /\ \A i \in 0 .. n : g[i] \in Nat
  BY <1>2, NumbersDef
<1>5. p[0] = 1 /\ \A j \in Nat : p[j] \in Nat \ {0} /\ p[j + 1] = p[j] * b
  BY PowersDef
<1>6. Sol!Number(u, b) = g[n]
  BY <1>2 DEF Sol!Number
<1> HIDE DEF f, g, p
<1>7. f[m] \in Nat
  BY <1>1, <1>3
<1>8. 0 \in S
  <2>1. m + 0 = m /\ f[m] * 1 + 0 = f[m]
    BY <1>7
  <2>2. g[0] = 0 /\ p[0] = 1
    BY <1>4, <1>5
  <2> QED BY <2>1, <2>2
<1>9. ASSUME NEW j \in Nat, j \in S PROVE j + 1 \in S
  <2> SUFFICES ASSUME j + 1 <= n PROVE f[m + (j + 1)] = f[m] * p[j + 1] + g[j + 1]
    OBVIOUS
  <2>1. /\ j \in 0 .. n /\ j + 1 \in 1 .. n /\ (j + 1) - 1 = j
        /\ m + (j + 1) \in 1 .. Len(s) /\ (m + (j + 1)) - 1 = m + j
    BY <1>1
  <2>2. f[m + (j + 1)] = f[m + j] * b + s[m + (j + 1)]
    BY <1>3, <2>1
  <2>3. g[j + 1] = g[j] * b + s[m + (j + 1)]
    BY <1>2, <1>4, <2>1
  <2>4. f[m + j] = f[m] * p[j] + g[j]
    BY <1>9, <2>1
  <2>5. p[j + 1] = p[j] * b /\ p[j] \in Nat /\ g[j] \in Nat /\ s[m + (j + 1)] \in Nat
    BY <1>1, <1>4, <1>5, <2>1
  <2> DEFINE x == f[m]
             y == p[j]
             z == g[j]
             w == s[m + (j + 1)]
  <2>6. x \in Nat /\ y \in Nat /\ z \in Nat /\ w \in Nat
    BY <1>7, <2>5
  <2>7. /\ f[m + (j + 1)] = (x * y + z) * b + w
        /\ g[j + 1] = z * b + w /\ p[j + 1] = y * b
    BY <2>2, <2>3, <2>4, <2>5
  <2> HIDE DEF x, y, z, w
  <2>8. (x * y + z) * b + w = x * (y * b) + (z * b + w)
    BY <2>6
  <2> QED BY <2>7, <2>8 DEF x
<1> HIDE DEF S
<1>10. n \in S
  BY <1>8, <1>9, InductionOnNat
<1>11. f[m + n] = f[m] * p[n] + g[n]
  BY <1>10 DEF S
<1>12. g[n] \in Nat
  BY <1>4
<1> QED BY <1>6, <1>11, <1>12 DEF f, p, u

\* A number that starts with z zeros is below the power of what is left of its
\* length.
LEMMA NumberBound ==
  ASSUME NEW b \in Nat \ {0}, NEW s \in Seq(Nat), \A i \in 1 .. Len(s) : s[i] < b,
         NEW z \in 0 .. Len(s), \A i \in 1 .. z : s[i] = 0
  PROVE  Sol!Number(s, b) \in Nat /\ Sol!Number(s, b) < Sol!Powers(b)[Len(s) - z]
<1> DEFINE n == Len(s)
           f == Sol!Numbers(s, b)
           p == Sol!Powers(b)
           S == {i \in Nat : i <= n => (i <= z => f[i] = 0) /\ (z <= i => f[i] < p[i - z])}
<1>1. n \in Nat /\ z \in Nat /\ z <= n /\ b \in Nat /\ \A i \in 1 .. n : s[i] \in Nat /\ s[i] < b
  BY LenProperties
<1>2. /\ f[0] = 0 /\ \A i \in 1 .. n : f[i] = f[i-1] * b + s[i]
      /\ \A i \in 0 .. n : f[i] \in Nat
  BY <1>1, NumbersDef
<1>3. p[0] = 1 /\ \A i \in Nat : p[i] \in Nat \ {0} /\ p[i + 1] = p[i] * b
  BY PowersDef
<1>4. Sol!Number(s, b) = f[n]
  BY DEF Sol!Number
<1> HIDE DEF n, f, p
<1>5. 0 \in S
  <2>1. z <= 0 => 0 - z = 0
    BY <1>1
  <2>2. z <= 0 => p[0 - z] = 1
    BY <1>3, <2>1
  <2>3. z <= 0 => f[0] < p[0 - z]
    BY <1>2, <2>2
  <2> QED BY <1>2, <2>3
<1>6. ASSUME NEW i \in Nat, i \in S PROVE i + 1 \in S
  <2> SUFFICES ASSUME i + 1 <= n
               PROVE  /\ i + 1 <= z => f[i + 1] = 0
                      /\ z <= i + 1 => f[i + 1] < p[(i + 1) - z]
    OBVIOUS
  <2>1. i \in 0 .. n /\ i + 1 \in 1 .. n /\ (i + 1) - 1 = i
    BY <1>1
  <2>2. f[i + 1] = f[i] * b + s[i + 1] /\ f[i] \in Nat /\ s[i + 1] \in Nat /\ s[i + 1] < b
    <3>1. f[i + 1] = f[(i + 1) - 1] * b + s[i + 1]
      BY <1>2, <2>1
    <3> QED BY <1>1, <1>2, <2>1, <3>1
  <2>3. CASE i + 1 <= z
    <3>1. f[i] = 0 /\ s[i + 1] = 0
      BY <1>1, <1>6, <2>1, <2>3
    <3>2. f[i + 1] = 0
      BY <1>1, <2>2, <3>1
    <3>3. z <= i + 1 => (i + 1) - z = 0
      BY <1>1, <2>3
    <3>4. z <= i + 1 => p[(i + 1) - z] = 1
      BY <1>3, <3>3
    <3>5. z <= i + 1 => f[i + 1] < p[(i + 1) - z]
      BY <3>2, <3>4
    <3> QED BY <3>2, <3>5
  <2>4. CASE z <= i
    <3> DEFINE x == f[i]
               y == p[i - z]
               w == s[i + 1]
    <3>1. i - z \in Nat /\ (i - z) + 1 = (i + 1) - z
      BY <1>1, <2>4
    <3>2. x \in Nat /\ y \in Nat /\ w \in Nat /\ w < b /\ f[i + 1] = x * b + w
      BY <1>3, <2>2, <3>1
    <3>3. x < y
      BY <1>6, <2>1, <2>4
    <3>4. p[(i + 1) - z] = y * b
      <4>1. p[(i - z) + 1] = y * b
        BY <1>3, <3>1
      <4> QED BY <3>1, <4>1
    <3> HIDE DEF x, y, w
    <3>5. (x + 1) * b <= y * b /\ (x + 1) * b = x * b + b
      <4>1. x + 1 \in Nat /\ x + 1 <= y /\ b \in Nat /\ b <= b
        BY <1>1, <3>2, <3>3
      <4> QED BY <3>2, <4>1, ProductMonotone
    <3>6. x * b \in Nat /\ y * b \in Nat
      BY <1>1, <3>2
    <3>7. x * b + w < y * b
      <4> DEFINE u == x * b
                 t == y * b
      <4>1. u \in Nat /\ t \in Nat /\ w \in Nat /\ w < b /\ b \in Nat /\ u + b <= t
        BY <1>1, <3>2, <3>5, <3>6
      <4> HIDE DEF u, t
      <4>2. u + w < t
        BY <4>1
      <4> QED BY <4>2 DEF u, t
    <3>8. f[i + 1] < p[(i + 1) - z]
      BY <3>2, <3>4, <3>7
    <3> QED BY <1>1, <2>4, <3>8
  <2> QED BY <1>1, <2>3, <2>4
<1> HIDE DEF S
<1>7. n \in S
  BY <1>1, <1>5, <1>6, InductionOnNat
<1>8. f[n] \in Nat /\ f[n] < p[n - z]
  BY <1>1, <1>2, <1>7 DEF S
<1> QED BY <1>4, <1>8 DEF n, p

\* A number is zero exactly where all its digits are.
LEMMA NumberZero ==
  ASSUME NEW b \in Nat \ {0}, NEW s \in Seq(Nat)
  PROVE  Sol!Number(s, b) = 0 <=> \A i \in 1 .. Len(s) : s[i] = 0
<1> DEFINE n == Len(s)
           f == Sol!Numbers(s, b)
           S == {i \in Nat : i <= n => (f[i] = 0 <=> \A j \in 1 .. i : s[j] = 0)}
<1>1. n \in Nat /\ b \in Nat /\ \A i \in 1 .. n : s[i] \in Nat
  BY LenProperties
<1>2. /\ f[0] = 0 /\ \A i \in 1 .. n : f[i] = f[i-1] * b + s[i]
      /\ \A i \in 0 .. n : f[i] \in Nat
  BY <1>1, NumbersDef
<1>3. Sol!Number(s, b) = f[n]
  BY DEF Sol!Number
<1> HIDE DEF n, f
<1>4. 0 \in S
  BY <1>2
<1>5. ASSUME NEW i \in Nat, i \in S PROVE i + 1 \in S
  <2> SUFFICES ASSUME i + 1 <= n PROVE f[i + 1] = 0 <=> \A j \in 1 .. i + 1 : s[j] = 0
    OBVIOUS
  <2> DEFINE x == f[i]
             w == s[i + 1]
  <2>1. i \in 0 .. n /\ i + 1 \in 1 .. n /\ (i + 1) - 1 = i
    BY <1>1
  <2>2. f[i + 1] = x * b + w /\ x \in Nat /\ w \in Nat
    <3>1. f[i + 1] = f[(i + 1) - 1] * b + s[i + 1]
      BY <1>2, <2>1
    <3> QED BY <1>1, <1>2, <2>1, <3>1
  <2>3. x = 0 <=> \A j \in 1 .. i : s[j] = 0
    BY <1>5, <2>1
  <2>4. (\A j \in 1 .. i + 1 : s[j] = 0) <=> (\A j \in 1 .. i : s[j] = 0) /\ w = 0
    <3>1. \A j \in 1 .. i + 1 : j \in 1 .. i \/ j = i + 1
      OBVIOUS
    <3>2. \A j \in 1 .. i : j \in 1 .. i + 1
      OBVIOUS
    <3>3. i + 1 \in 1 .. i + 1
      OBVIOUS
    <3> QED BY <3>1, <3>2, <3>3
  <2> HIDE DEF x, w
  <2>5. x # 0 => x * b \in Nat \ {0}
    BY <2>2, ProductPositive
  <2>6. x = 0 => x * b = 0
    BY <1>1
  <2>7. x * b \in Nat
    BY <1>1, <2>2
  <2> QED BY <2>2, <2>3, <2>4, <2>5, <2>6, <2>7
<1> HIDE DEF S
<1>6. n \in S
  BY <1>1, <1>4, <1>5, InductionOnNat
<1>7. f[n] = 0 <=> \A j \in 1 .. n : s[j] = 0
  BY <1>1, <1>6 DEF S
<1> QED BY <1>3, <1>7 DEF n

LEMMA LowDigitsTyped ==
  ASSUME NEW b \in Nat \ {0}, NEW v \in Nat, NEW n \in Nat
  PROVE  /\ Sol!LowDigits(v, b, n) \in Seq(Nat) /\ Len(Sol!LowDigits(v, b, n)) = n
         /\ \A i \in 1 .. n : Sol!LowDigits(v, b, n)[i] = (v \div Sol!Powers(b)[i-1]) % b
<1> DEFINE d == [i \in 1 .. n |-> (v \div Sol!Powers(b)[i-1]) % b]
<1>1. ASSUME NEW i \in 1 .. n PROVE (v \div Sol!Powers(b)[i-1]) % b \in Nat
  <2> DEFINE p == Sol!Powers(b)[i-1]
  <2>1. p \in Nat \ {0}
    <3>1. i - 1 \in Nat
      OBVIOUS
    <3> QED BY <3>1, PowersDef
  <2> HIDE DEF p
  <2>2. v \div p \in Nat
    BY <2>1, DivMod
  <2> DEFINE q == v \div p
  <2>3. q \in Nat
    BY <2>2
  <2> HIDE DEF q
  <2>4. q % b \in Nat
    BY <2>3, DivMod
  <2> QED BY <2>4 DEF q, p
<1>2. d \in [1 .. n -> Nat]
  BY <1>1
<1>3. Sol!LowDigits(v, b, n) = d /\ \A i \in 1 .. n : d[i] = (v \div Sol!Powers(b)[i-1]) % b
  BY DEF Sol!LowDigits
<1> HIDE DEF d
<1>4. d \in Seq(Nat) /\ Len(d) = n
  BY <1>2, FunctionIsSeq
<1> QED BY <1>3, <1>4

\* Two numbers have the same n last digits.
SameDigits(r, x, b, n) ==
  \A i \in 1 .. n : (r \div Sol!Powers(b)[i-1]) % b = (x \div Sol!Powers(b)[i-1]) % b

Appends(v, r, b, m, n) ==
  Sol!LowDigits(v, b, m) \o Sol!LowDigits(r, b, n) = Sol!LowDigits(v, b, m + n)

\* The digits of a quotient after those it has left behind.
LEMMA LowDigitsAppend ==
  ASSUME NEW b \in Nat \ {0}, NEW v \in Nat, NEW m \in Nat, NEW n \in Nat, NEW r \in Nat,
         NEW x, x = v \div Sol!Powers(b)[m], SameDigits(r, x, b, n)
  PROVE  Appends(v, r, b, m, n)
<1> DEFINE p == Sol!Powers(b)
           d == Sol!LowDigits(v, b, m)
           e == Sol!LowDigits(r, b, n)
           g == Sol!LowDigits(v, b, m + n)
<1>1. /\ d \in Seq(Nat) /\ Len(d) = m /\ \A i \in 1 .. m : d[i] = (v \div p[i-1]) % b
      /\ e \in Seq(Nat) /\ Len(e) = n /\ \A i \in 1 .. n : e[i] = (r \div p[i-1]) % b
  BY LowDigitsTyped
<1>2. /\ g \in Seq(Nat) /\ Len(g) = m + n
      /\ \A i \in 1 .. m + n : g[i] = (v \div p[i-1]) % b
  <2>1. m + n \in Nat
    OBVIOUS
  <2> QED BY <2>1, LowDigitsTyped
<1>3. \A i \in Nat : p[i] \in Nat \ {0}
  BY PowersDef
<1>4. \A i \in Nat : p[m + i] = p[m] * p[i]
  BY PowersSum
<1>5. \A i \in 1 .. n : (r \div p[i-1]) % b = ((v \div p[m]) \div p[i-1]) % b
  BY DEF SameDigits
<1> HIDE DEF p, d, e, g
<1>6. /\ d \o e \in Seq(Nat) /\ Len(d \o e) = m + n
      /\ \A i \in 1 .. m + n : (d \o e)[i] = IF i <= m THEN d[i] ELSE e[i - m]
  BY <1>1, ConcatProperties
<1>7. ASSUME NEW i \in 1 .. m + n PROVE (d \o e)[i] = g[i]
  <2>1. CASE i <= m
    <3>1. i \in 1 .. m
      BY <2>1
    <3> QED BY <1>1, <1>2, <1>6, <2>1, <3>1
  <2>2. CASE ~(i <= m)
    <3> DEFINE j == i - m
               a == p[m]
               c == p[j-1]
    <3>1. j \in 1 .. n /\ j - 1 \in Nat /\ m + (j - 1) = i - 1
      BY <2>2
    <3>2. a \in Nat \ {0} /\ c \in Nat \ {0} /\ p[i-1] = a * c
      <4>1. p[m + (j - 1)] = a * c
        BY <1>4, <3>1
      <4> QED BY <1>3, <3>1, <4>1
    <3>3. e[j] = ((v \div a) \div c) % b
      BY <1>1, <1>5, <3>1
    <3> HIDE DEF a, c, j
    <3>4. (v \div a) \div c = v \div (a * c)
      BY <3>2, DivDiv, Zenon
    <3>5. g[i] = (v \div (a * c)) % b
      BY <1>2, <3>2
    <3>6. (d \o e)[i] = e[j]
      BY <1>6, <2>2 DEF j
    <3> QED BY <3>3, <3>4, <3>5, <3>6
  <2> QED BY <2>1, <2>2
<1>8. d \o e = g
  <2> DEFINE h == d \o e
  <2>1. h \in Seq(Nat) /\ g \in Seq(Nat) /\ Len(h) = Len(g) /\ \A i \in 1 .. Len(h) : h[i] = g[i]
    BY <1>2, <1>6, <1>7
  <2> HIDE DEF h
  <2>2. h = g
    BY <2>1, SeqEqual
  <2> QED BY <2>2 DEF h
<1> QED BY <1>8 DEF Appends, d, e, g

\* Read from the other end, the digits stand for the remainder.
LEMMA LowDigitsNumber ==
  ASSUME NEW b \in Nat \ {0}, NEW v \in Nat, NEW n \in Nat
  PROVE  Sol!Number(Sol!Reverse(Sol!LowDigits(v, b, n)), b) = v % Sol!Powers(b)[n]
<1> DEFINE p == Sol!Powers(b)
           d == Sol!LowDigits(v, b, n)
           s == Sol!Reverse(d)
           f == Sol!Numbers(s, b)
           w == v % p[n]
           S == {i \in Nat : i <= n => f[i] = w \div p[n - i]}
<1>1. d \in Seq(Nat) /\ Len(d) = n /\ \A i \in 1 .. n : d[i] = (v \div p[i-1]) % b
  BY LowDigitsTyped
<1>2. p[0] = 1 /\ \A i \in Nat : p[i] \in Nat \ {0} /\ p[i + 1] = p[i] * b
  BY PowersDef
<1>3. \A i \in Nat, j \in Nat : p[i + j] = p[i] * p[j]
  BY PowersSum
<1>4. s \in Seq(Nat) /\ Len(s) = n /\ \A i \in 1 .. n : s[i] = d[n - i + 1]
  <2>1. s = Eth!Reverse(d)
    BY DEF Sol!Reverse, Eth!Reverse
  <2> HIDE DEF s, d
  <2> QED BY <1>1, <2>1, ReverseFacts
<1> HIDE DEF s, d, p
<1>5. f[0] = 0 /\ \A i \in 1 .. n : f[i] = f[i-1] * b + s[i]
  BY <1>4, NumbersDef
<1>6. w \in 0 .. p[n] - 1
  BY <1>2, DivMod
<1>7. Sol!Number(s, b) = f[n]
  BY <1>4 DEF Sol!Number
<1> HIDE DEF f, w
<1>8. 0 \in S
  <2>1. n - 0 = n /\ w < p[n] /\ w \in Nat /\ p[n] \in Nat \ {0}
    BY <1>2, <1>6
  <2>2. w \div p[n] = 0
    BY <2>1, DivZero
  <2> QED BY <1>5, <2>1, <2>2
<1>9. ASSUME NEW i \in Nat, i \in S PROVE i + 1 \in S
  <2> SUFFICES ASSUME i + 1 <= n PROVE f[i + 1] = w \div p[n - (i + 1)]
    OBVIOUS
  <2> DEFINE k == n - (i + 1)
             c == p[k]
             e == p[i]
             x == w \div c
  <2>1. k \in Nat /\ n - i = k + 1 /\ n = (k + 1) + i /\ i + 1 \in 1 .. n /\ (i + 1) - 1 = i
    OBVIOUS
  <2>2. c \in Nat \ {0} /\ e \in Nat \ {0} /\ p[k + 1] = c * b /\ p[n] = c * b * e
    <3>1. p[(k + 1) + i] = p[k + 1] * p[i] /\ p[k + 1] = p[k] * b
      <4>1. k + 1 \in Nat
        BY <2>1
      <4> HIDE DEF k
      <4> QED BY <1>2, <1>3, <2>1, <4>1
    <3> QED BY <1>2, <2>1, <3>1
  <2>3. f[i] = w \div (c * b)
    <3>1. f[i] = w \div p[n - i]
      BY <1>9, <2>1
    <3> QED BY <2>1, <2>2, <3>1
  <2>4. s[i + 1] = (v \div c) % b
    <3>1. s[i + 1] = d[n - (i + 1) + 1]
      BY <1>4, <2>1
    <3>2. n - (i + 1) + 1 = k + 1 /\ k + 1 \in 1 .. n /\ (k + 1) - 1 = k
      BY <2>1
    <3>3. d[k + 1] = (v \div p[(k + 1) - 1]) % b
      BY <1>1, <3>2
    <3> QED BY <3>1, <3>2, <3>3
  <2>5. f[i + 1] = f[i] * b + s[i + 1]
    <3>1. f[i + 1] = f[(i + 1) - 1] * b + s[i + 1]
      BY <1>5, <2>1
    <3> QED BY <2>1, <3>1
  <2> HIDE DEF c, e
  <2>6. w = v % (c * b * e)
    BY <2>2 DEF w
  <2>7. ((v % (c * b * e)) \div c) % b = (v \div c) % b
    BY <2>2, DigitOfRemainder
  <2>8. x % b = s[i + 1]
    BY <2>4, <2>6, <2>7
  <2>9. w \in Nat /\ b \in Nat \ {0}
    BY <1>2, <1>6
  <2>10. (w \div c) \div b = w \div (c * b)
    BY <2>2, <2>9, DivDiv, Zenon
  <2>11. x \div b = f[i]
    BY <2>3, <2>10
  <2>12. x \in Nat
    BY <2>2, <2>9, DivMod
  <2> HIDE DEF x
  <2>13. x = (x \div b) * b + (x % b)
    BY <2>9, <2>12, DivMod
  <2>14. x = f[i] * b + s[i + 1]
    BY <2>8, <2>11, <2>13
  <2> QED BY <2>5, <2>14 DEF x, c, k
<1> HIDE DEF S
<1>10. n \in S
  BY <1>8, <1>9, InductionOnNat
<1>11. f[n] = w
  <2>1. f[n] = w \div p[n - n] /\ n - n = 0
    BY <1>10 DEF S
  <2>2. w \in Nat
    BY <1>2, <1>6
  <2>3. w \div 1 = w
    <3>1. (w * 1 + 0) \div 1 = w
      BY <2>2, DivUnique
    <3> QED BY <2>2, <3>1
  <2> QED BY <1>2, <2>1, <2>3
<1> QED BY <1>7, <1>11 DEF s, d, w, p

\* Limb i of n bytes: the bytes up to its end stand for those before it, moved, and
\* for the limb.
SplitAt(s, b, n, i) ==
  /\ (i - 1) * n + n = i * n /\ (i - 1) * n \in Nat /\ i * n \in 0 .. Len(s)
  /\ Sol!Number(SubSeq(s, (i - 1) * n + 1, i * n), b) \in Nat
  /\ Sol!Numbers(s, b)[i * n]
       = Sol!Numbers(s, b)[(i - 1) * n] * Sol!Powers(b)[n]
           + Sol!Number(SubSeq(s, (i - 1) * n + 1, i * n), b)

LEMMA LimbSplit ==
  ASSUME NEW s \in Seq(Nat), NEW b \in Nat \ {0}, NEW n \in Nat, NEW c \in Nat, NEW i \in 1 .. c,
         Len(s) = n * c
  PROVE  SplitAt(s, b, n, i)
<1> DEFINE m == (i - 1) * n
<1>1. i - 1 \in Nat /\ c - i \in Nat /\ i \in Nat
  OBVIOUS
<1>2. m \in Nat /\ m + n = i * n /\ m + n <= Len(s) /\ i * n \in 0 .. Len(s)
  <2>1. (i - 1) * n + n = i * n /\ (i - 1) * n \in Nat
    BY <1>1
  <2>2. n * c = i * n + n * (c - i) /\ n * (c - i) \in Nat /\ i * n \in Nat
    BY <1>1
  <2> QED BY <2>1, <2>2
<1> HIDE DEF m
<1>3. /\ Sol!Number(SubSeq(s, m + 1, m + n), b) \in Nat
      /\ Sol!Numbers(s, b)[m + n]
           = Sol!Numbers(s, b)[m] * Sol!Powers(b)[n] + Sol!Number(SubSeq(s, m + 1, m + n), b)
  BY <1>2, NumberSplit
<1> QED BY <1>2, <1>3 DEF m, SplitAt

\* Zeros at the front of a sequence of length n.
Zeros(s, n) ==
  CHOOSE z \in 0 .. n : (\A i \in 1 .. z : s[i] = 0) /\ (z < n => s[z + 1] # 0)

LEMMA ZerosExact ==
  ASSUME NEW n \in Nat, NEW s
  PROVE  /\ Zeros(s, n) \in 0 .. n
         /\ \A i \in 1 .. Zeros(s, n) : s[i] = 0
         /\ Zeros(s, n) < n => s[Zeros(s, n) + 1] # 0
<1> DEFINE Is(z) == (\A i \in 1 .. z : s[i] = 0) /\ (z < n => s[z + 1] # 0)
           S == {z \in Nat : z = n \/ (z < n /\ s[z + 1] # 0)}
<1>1. PICK m \in S : \A z \in S : m <= z
  <2>1. S \subseteq Nat /\ n \in S
    OBVIOUS
  <2> HIDE DEF S
  <2> QED BY <2>1, LeastNat
<1>2. m \in 0 .. n /\ (m < n => s[m + 1] # 0)
  BY <1>1
<1>3. ASSUME NEW i \in 1 .. m PROVE s[i] = 0
  <2>1. i - 1 \in Nat /\ i - 1 < m /\ (i - 1) + 1 = i
    BY <1>2
  <2>2. i - 1 \notin S
    <3>1. ~(m <= i - 1)
      BY <1>2, <2>1
    <3> HIDE DEF S
    <3> QED BY <1>1, <3>1
  <2>3. i - 1 < n
    BY <1>2, <2>1
  <2> QED BY <2>1, <2>2, <2>3
<1>4. Is(m)
  BY <1>2, <1>3
<1> HIDE DEF Is
<1>5. \E z \in 0 .. n : Is(z)
  BY <1>2, <1>4
<1> DEFINE y == CHOOSE z \in 0 .. n : Is(z)
<1>6. y \in 0 .. n /\ Is(y)
  BY <1>5
<1>7. Zeros(s, n) = y
  BY DEF Zeros, Is
<1> HIDE DEF y
<1> QED BY <1>6, <1>7 DEF Is

-----------------------------------------------------------------------------
(* The residue of a key. *)

LEMMA SolSizes ==
  /\ Base \in Nat \ {0, 1} /\ ByteBase \in Nat \ {0} /\ LimbBytes \in Nat \ {0}
  /\ Limbs \in Nat \ {0} /\ ModDigits \in Nat \ {0}
  /\ Sol!Bytes = LimbBytes * Limbs /\ Sol!Bytes \in Nat
BY SizesAssumption DEF Sol!SizesFit, Sol!Bytes

LEMMA KeyIsSeq ==
  ASSUME NEW k \in Sol!Keys
  PROVE  k \in Seq(Nat) /\ Len(k) = Sol!Bytes
<1>1. Sol!Bytes \in Nat /\ k \in [1 .. Sol!Bytes -> Nat]
  <2>1. ByteBase \in Nat /\ Sol!Bytes \in Nat
    BY SolSizes
  <2> QED BY <2>1 DEF Sol!Keys
<1> QED BY <1>1, FunctionIsSeq

\* Reducing first changes no remainder.
LEMMA ReducedFirst ==
  ASSUME NEW d \in Nat \ {0}, NEW a \in Nat, NEW c \in Nat, NEW w \in Nat
  PROVE  ((a % d) * c + w) % d = (a * c + w) % d
<1> DEFINE q == a \div d
           r == a % d
           x == r * c + w
           g == x \div d
           h == x % d
<1>1. q \in Nat /\ r \in Nat /\ a = q * d + r
  BY DivMod
<1> HIDE DEF q, r
<1>2. x \in Nat
  BY <1>1
<1>3. a * c + w = (q * c) * d + x /\ q * c \in Nat
  <2>1. (q * d + r) * c = (q * c) * d + r * c /\ r * c \in Nat /\ (q * c) * d \in Nat
    BY <1>1
  <2> QED BY <1>1, <2>1
<1> HIDE DEF x
<1>4. g \in Nat /\ h \in 0 .. d - 1 /\ x = g * d + h
  BY <1>2, DivMod
<1> HIDE DEF g, h
<1> DEFINE k == q * c
<1>5. k \in Nat /\ a * c + w = k * d + (g * d + h)
  BY <1>3, <1>4
<1> HIDE DEF k
<1>6. k * d + (g * d + h) = (k + g) * d + h /\ k + g \in Nat
  BY <1>4, <1>5
<1> DEFINE l == k + g
           v == a * c + w
<1>7. l \in Nat /\ v = l * d + h
  BY <1>5, <1>6
<1> HIDE DEF l, v
<1>8. v % d = h
  BY <1>4, <1>7, DivUnique
<1> QED BY <1>8 DEF h, x, r, v

LEMMA LimbsExact ==
  ASSUME NEW k \in Sol!Keys, NEW i \in 1 .. Limbs
  PROVE  /\ Sol!ToLimbs(k)[i] \in Nat
         /\ Sol!Numbers(k, ByteBase)[i * LimbBytes]
              = Sol!Numbers(k, ByteBase)[(i - 1) * LimbBytes] * Sol!LimbBase + Sol!ToLimbs(k)[i]
<1>1. /\ k \in Seq(Nat) /\ Len(k) = LimbBytes * Limbs /\ ByteBase \in Nat \ {0}
      /\ LimbBytes \in Nat /\ Limbs \in Nat
  BY SolSizes, KeyIsSeq
<1>2. SplitAt(k, ByteBase, LimbBytes, i)
  BY <1>1, LimbSplit
<1>3. Sol!ToLimbs(k)[i] = Sol!Number(SubSeq(k, (i - 1) * LimbBytes + 1, i * LimbBytes), ByteBase)
  BY DEF Sol!ToLimbs
<1> QED BY <1>2, <1>3 DEF SplitAt, Sol!LimbBase

LEMMA ResiduesDef ==
  ASSUME NEW k \in Sol!Keys
  PROVE  LET M == Sol!Powers(Base)[ModDigits]
         IN  /\ Sol!Residues(k)[0] = 0
             /\ \A i \in 1 .. Limbs : Sol!Residues(k)[i]
                  = (Sol!Residues(k)[i-1] * Sol!LimbBase + Sol!ToLimbs(k)[i]) % M
<1> DEFINE M == Sol!Powers(Base)[ModDigits]
           l == Sol!ToLimbs(k)
           Turn(a, i) == (a * Sol!LimbBase + l[i]) % M
           Is(f) == f = [i \in 0 .. Limbs |-> IF i = 0 THEN 0 ELSE Turn(f[i-1], i)]
           next == [it \in Nat \X Nat |-> IF it[1] \in 1 .. Limbs THEN Turn(it[2], it[1]) ELSE 0]
<1>1. M \in Nat \ {0} /\ Sol!LimbBase \in Nat /\ Limbs \in Nat
  BY SolSizes, PowersDef DEF Sol!LimbBase
<1>2. ASSUME NEW i \in 1 .. Limbs, NEW a \in Nat PROVE Turn(a, i) \in Nat
  <2>1. l[i] \in Nat
    BY LimbsExact
  <2> HIDE DEF M, l
  <2>2. a * Sol!LimbBase + l[i] \in Nat
    BY <1>1, <2>1
  <2> QED BY <1>1, <2>2, DivMod
<1>3. Sol!Residues(k) = CHOOSE g : Is(g)
  BY DEF Sol!Residues, Is
<1> HIDE DEF Turn
<1>4. next \in [Nat \X Nat -> Nat]
  BY <1>2
<1>5. \A i \in Nat, a \in Nat : i \in 1 .. Limbs => next[<<i, a>>] = Turn(a, i)
  OBVIOUS
<1> HIDE DEF next
<1>6. Recursive(Nat, Limbs, 0, next)
  BY <1>1, <1>4, Recursion
<1>7. PICK f \in [0 .. Limbs -> Nat] : f[0] = 0 /\ \A i \in 1 .. Limbs : f[i] = next[<<i, f[i - 1]>>]
  BY <1>6 DEF Recursive
<1>8. \A i \in 1 .. Limbs : f[i] = Turn(f[i-1], i)
  <2> SUFFICES ASSUME NEW i \in 1 .. Limbs PROVE f[i] = Turn(f[i-1], i)
    OBVIOUS
  <2>1. i \in Nat /\ i - 1 \in 0 .. Limbs
    BY <1>1
  <2>2. f[i - 1] \in Nat
    BY <2>1
  <2>3. next[<<i, f[i - 1]>>] = Turn(f[i-1], i)
    BY <1>5, <2>1, <2>2
  <2> QED BY <1>7, <2>3
<1>9. \A i \in 0 .. Limbs : f[i] = IF i = 0 THEN 0 ELSE Turn(f[i-1], i)
  BY <1>1, <1>7, <1>8
<1>10. Is(f)
  BY <1>9
<1> HIDE DEF Is
<1>11. Is(CHOOSE g : Is(g))
  BY <1>10
<1> DEFINE m == Sol!Residues(k)
<1>12. m = [i \in 0 .. Limbs |-> IF i = 0 THEN 0 ELSE Turn(m[i-1], i)]
  BY <1>3, <1>11 DEF Is
<1> HIDE DEF m
<1>13. m[0] = 0 /\ \A i \in 1 .. Limbs : m[i] = Turn(m[i-1], i)
  BY <1>1, <1>12
<1> QED BY <1>13 DEF m, Turn, l, M

\* Limb by limb, the residue is the key's number modulo the power.
LEMMA ResidueExact ==
  ASSUME NEW k \in Sol!Keys
  PROVE  Sol!Residue(k) = Sol!Number(k, ByteBase) % Sol!Powers(Base)[ModDigits]
<1> DEFINE M == Sol!Powers(Base)[ModDigits]
           B == Sol!LimbBase
           f == Sol!Numbers(k, ByteBase)
           r == Sol!Residues(k)
           l == Sol!ToLimbs(k)
           S == {i \in Nat : i <= Limbs => r[i] = f[i * LimbBytes] % M}
<1>1. /\ M \in Nat \ {0} /\ B \in Nat /\ Limbs \in Nat /\ LimbBytes \in Nat
      /\ k \in Seq(Nat) /\ Len(k) = LimbBytes * Limbs /\ ByteBase \in Nat
  BY SolSizes, PowersDef, KeyIsSeq DEF Sol!LimbBase
<1>2. f[0] = 0 /\ \A i \in 0 .. LimbBytes * Limbs : f[i] \in Nat
  BY <1>1, NumbersDef
<1>3. r[0] = 0 /\ \A i \in 1 .. Limbs : r[i] = (r[i-1] * B + l[i]) % M
  BY ResiduesDef
<1>4. \A i \in 1 .. Limbs : l[i] \in Nat /\ f[i * LimbBytes] = f[(i - 1) * LimbBytes] * B + l[i]
  BY LimbsExact
<1> HIDE DEF M, B, f, r, l
<1>5. 0 \in S
  <2>1. 0 * LimbBytes = 0 /\ 0 % M = 0
    BY <1>1
  <2> QED BY <1>2, <1>3, <2>1
<1>6. ASSUME NEW i \in Nat, i \in S PROVE i + 1 \in S
  <2> SUFFICES ASSUME i + 1 <= Limbs PROVE r[i + 1] = f[(i + 1) * LimbBytes] % M
    OBVIOUS
  <2>1. i + 1 \in 1 .. Limbs /\ (i + 1) - 1 = i /\ i <= Limbs
    BY <1>1
  <2>2. i * LimbBytes \in 0 .. LimbBytes * Limbs
    <3>1. Limbs - i \in Nat
      BY <1>1, <2>1
    <3>2. LimbBytes * Limbs = i * LimbBytes + LimbBytes * (Limbs - i) /\ LimbBytes * (Limbs - i) \in Nat
          /\ i * LimbBytes \in Nat
      BY <1>1, <3>1
    <3> QED BY <3>2
  <2> DEFINE a == f[i * LimbBytes]
             w == l[i + 1]
  <2>3. a \in Nat /\ w \in Nat
    BY <1>2, <1>4, <2>1, <2>2
  <2>4. r[i] = a % M
    BY <1>6, <2>1
  <2>5. r[i + 1] = (r[i] * B + w) % M
    <3>1. r[i + 1] = (r[(i + 1) - 1] * B + l[i + 1]) % M
      BY <1>3, <2>1
    <3> QED BY <2>1, <3>1
  <2>6. f[(i + 1) * LimbBytes] = a * B + w
    <3>1. f[(i + 1) * LimbBytes] = f[((i + 1) - 1) * LimbBytes] * B + l[i + 1]
      BY <1>4, <2>1
    <3> QED BY <2>1, <3>1
  <2> HIDE DEF a, w
  <2>7. ((a % M) * B + w) % M = (a * B + w) % M
    <3>1. M \in Nat \ {0} /\ B \in Nat
      BY <1>1
    <3> QED BY <2>3, <3>1, ReducedFirst, Zenon
  <2> QED BY <2>4, <2>5, <2>6, <2>7
<1> HIDE DEF S
<1>7. Limbs \in S
  BY <1>1, <1>5, <1>6, InductionOnNat
<1>8. r[Limbs] = f[Limbs * LimbBytes] % M
  BY <1>1, <1>7 DEF S
<1>9. Limbs * LimbBytes = Len(k)
  BY <1>1
<1> QED BY <1>8, <1>9 DEF Sol!Residue, Sol!Number, M, f, r

\* The i-th letter from the end stands for this digit, also before the first digit
\* of the number.
LastDigit(k, i) == (Sol!Number(k, ByteBase) \div Sol!Powers(Base)[i-1]) % Base

LEMMA KeyNumber ==
  ASSUME NEW k \in Sol!Keys
  PROVE  Sol!Number(k, ByteBase) \in Nat
<1>1. k \in Seq(Nat) /\ ByteBase \in Nat /\ Len(k) \in Nat /\ Len(k) \in 0 .. Len(k)
  BY SolSizes, KeyIsSeq, LenProperties
<1> QED BY <1>1, NumbersDef DEF Sol!Number

LEMMA LastDigitRange ==
  ASSUME NEW k \in Sol!Keys, NEW i \in Nat \ {0}
  PROVE  LastDigit(k, i) \in 0 .. Base - 1
<1> DEFINE v == Sol!Number(k, ByteBase)
           p == Sol!Powers(Base)[i-1]
<1>1. v \in Nat /\ Base \in Nat \ {0}
  BY KeyNumber, SolSizes
<1>2. p \in Nat \ {0}
  <2>1. i - 1 \in Nat
    OBVIOUS
  <2> QED BY <1>1, <2>1, PowersDef
<1> HIDE DEF v, p
<1>3. v \div p \in Nat
  BY <1>1, <1>2, DivMod
<1>4. (v \div p) % Base \in 0 .. Base - 1
  BY <1>1, <1>3, DivMod
<1> QED BY <1>4 DEF LastDigit, v, p

\* The residue has the last digits.
LEMMA ResidueDigits ==
  ASSUME NEW k \in Sol!Keys, NEW i \in 1 .. ModDigits
  PROVE  (Sol!Residue(k) \div Sol!Powers(Base)[i-1]) % Base = LastDigit(k, i)
<1> DEFINE p == Sol!Powers(Base)
           c == p[i-1]
           e == p[ModDigits - i]
           v == Sol!Number(k, ByteBase)
<1>1. v \in Nat /\ Base \in Nat \ {0} /\ ModDigits \in Nat
  BY KeyNumber, SolSizes
<1>2. i - 1 \in Nat /\ ModDigits - i \in Nat /\ (i - 1) + 1 = i /\ i \in Nat /\ i + (ModDigits - i) = ModDigits
  BY <1>1
<1>3. c \in Nat \ {0} /\ e \in Nat \ {0} /\ p[(i - 1) + 1] = c * Base
  BY <1>1, <1>2, PowersDef
<1>4. p[i + (ModDigits - i)] = p[i] * e
  BY <1>1, <1>2, PowersSum
<1>5. p[ModDigits] = c * Base * e
  BY <1>2, <1>3, <1>4
<1>6. Sol!Residue(k) = v % p[ModDigits]
  BY ResidueExact
<1> HIDE DEF p, c, e, v
<1>7. ((v % (c * Base * e)) \div c) % Base = (v \div c) % Base
  BY <1>1, <1>3, DigitOfRemainder
<1> QED BY <1>5, <1>6, <1>7 DEF LastDigit, p, c, v

LEMMA LeadingZerosExact ==
  ASSUME NEW k \in Sol!Keys
  PROVE  /\ Sol!LeadingZeros(k) \in 0 .. Sol!Bytes
         /\ \A i \in 1 .. Sol!LeadingZeros(k) : k[i] = 0
         /\ Sol!LeadingZeros(k) < Sol!Bytes => k[Sol!LeadingZeros(k) + 1] # 0
<1>1. Sol!LeadingZeros(k) = Zeros(k, Sol!Bytes) /\ Sol!Bytes \in Nat
  BY SolSizes DEF Sol!LeadingZeros, Zeros
<1> QED BY <1>1, ZerosExact

\* An address, letter by letter from its end.
LEMMA AddressLetters ==
  ASSUME NEW k \in Sol!Keys
  PROVE  /\ Sol!Address(k) \in Seq(Letters)
         /\ \A i \in 1 .. Len(Sol!Address(k)) :
              Sol!Address(k)[Len(Sol!Address(k)) + 1 - i] = Alphabet[LastDigit(k, i) + 1]
<1> DEFINE v == Sol!Number(k, ByteBase)
           l == Sol!Length(v, Base)
           z == Sol!LeadingZeros(k)
           zeros == Sol!Repeat0(z)
           low == Sol!LowDigits(v, Base, l)
           high == Sol!Reverse(low)
           ref == zeros \o high
           n == z + l
           D == 0 .. Base - 1
<1>1. v \in Nat /\ Base \in Nat \ {0, 1} /\ Base \in Nat \ {0} /\ 0 \in D
  BY KeyNumber, SolSizes
<1>2. l \in Nat /\ v < Sol!Powers(Base)[l]
  <2> HIDE DEF v
  <2> QED BY <1>1, LengthExact
<1>3. z \in Nat
  <2>1. Sol!Bytes \in Nat
    BY SolSizes
  <2> QED BY <2>1, LeadingZerosExact
<1>4. \A i \in 1 .. l : low[i] = LastDigit(k, i) /\ low[i] \in D
  <2> SUFFICES ASSUME NEW i \in 1 .. l PROVE low[i] = LastDigit(k, i) /\ low[i] \in D
    OBVIOUS
  <2>1. i \in Nat \ {0}
    BY <1>2
  <2>2. low[i] = LastDigit(k, i)
    BY DEF Sol!LowDigits, LastDigit
  <2> QED BY <2>1, <2>2, LastDigitRange
<1>5. \A i \in Nat : i > l => LastDigit(k, i) = 0
  <2> SUFFICES ASSUME NEW i \in Nat, i > l PROVE LastDigit(k, i) = 0
    OBVIOUS
  <2> DEFINE c == Sol!Powers(Base)[i-1]
             d == Sol!Powers(Base)[l]
  <2>1. i - 1 \in Nat /\ l <= i - 1
    BY <1>2
  <2>2. c \in Nat \ {0} /\ d \in Nat
    BY <1>1, <1>2, <2>1, PowersDef
  <2>3. d <= c
    <3> HIDE DEF l
    <3> QED BY <1>1, <1>2, <2>1, PowersMonotone
  <2>4. v < d
    BY <1>2
  <2> HIDE DEF c, d, v
  <2>5. v \in 0 .. c - 1
    BY <1>1, <2>2, <2>3, <2>4
  <2>6. 0 * c + v = v
    BY <1>1, <2>2
  <2>7. (0 * c + v) \div c = 0
    BY <2>2, <2>5, DivUnique
  <2>8. (v \div c) % Base = 0
    BY <1>1, <2>6, <2>7
  <2> QED BY <2>8 DEF LastDigit, c, v
<1>6. low \in [1 .. l -> D]
  BY <1>4 DEF Sol!LowDigits
<1>7. zeros \in [1 .. z -> D] /\ \A i \in 1 .. z : zeros[i] = 0
  BY <1>1 DEF Sol!Repeat0
<1>8. Sol!Reference(k) = ref
  BY DEF Sol!Reference
<1> HIDE DEF low, zeros, D, l, z, v
<1>9. /\ low \in Seq(D) /\ Len(low) = l
      /\ zeros \in Seq(D) /\ Len(zeros) = z
  BY <1>2, <1>3, <1>6, <1>7, FunctionIsSeq
<1>10. high \in Seq(D) /\ Len(high) = l /\ \A i \in 1 .. l : high[i] = low[l - i + 1]
  <2>1. high = Eth!Reverse(low)
    BY DEF Sol!Reverse, Eth!Reverse
  <2> HIDE DEF high
  <2> QED BY <1>9, <2>1, ReverseFacts
<1> HIDE DEF high
<1>11. /\ ref \in Seq(D) /\ Len(ref) = n
       /\ \A j \in 1 .. n : ref[j] = IF j <= z THEN zeros[j] ELSE high[j - z]
  <2>1. /\ Len(ref) = Len(zeros) + Len(high) /\ ref \in Seq(D)
        /\ \A j \in 1 .. Len(zeros) + Len(high) :
             ref[j] = IF j <= Len(zeros) THEN zeros[j] ELSE high[j - Len(zeros)]
    BY <1>9, <1>10, ConcatProperties
  <2> HIDE DEF ref
  <2> QED BY <1>9, <1>10, <2>1
<1> HIDE DEF ref
<1>12. \A i \in 1 .. n : ref[n + 1 - i] = LastDigit(k, i)
  <2> SUFFICES ASSUME NEW i \in 1 .. n PROVE ref[n + 1 - i] = LastDigit(k, i)
    OBVIOUS
  <2> DEFINE j == n + 1 - i
  <2>1. n \in Nat /\ i \in Nat /\ j \in 1 .. n /\ (j <= z <=> i > l) /\ j - z = l + 1 - i
    BY <1>2, <1>3
  <2>2. CASE i > l
    <3>1. j \in 1 .. z
      BY <1>3, <2>1, <2>2
    <3> HIDE DEF j
    <3> QED BY <1>5, <1>7, <1>11, <2>1, <2>2, <3>1 DEF j
  <2>3. CASE ~(i > l)
    <3>1. j - z \in 1 .. l /\ l - (j - z) + 1 = i /\ i \in 1 .. l /\ ~(j <= z)
      BY <1>2, <1>3, <2>1, <2>3
    <3> HIDE DEF j
    <3>2. ref[j] = high[j - z]
      BY <1>11, <2>1, <3>1
    <3>3. high[j - z] = low[i]
      BY <1>10, <3>1
    <3> QED BY <1>4, <3>1, <3>2, <3>3 DEF j
  <2> QED BY <2>2, <2>3
<1> DEFINE a == Sol!Address(k)
<1>13. n \in Nat /\ DOMAIN ref = 1 .. n /\ \A j \in 1 .. n : ref[j] \in D
  <2>1. n \in Nat
    BY <1>2, <1>3
  <2> HIDE DEF n
  <2> QED BY <1>11, <2>1, LenProperties
<1>14. a = [j \in 1 .. n |-> Alphabet[ref[j] + 1]]
  BY <1>8, <1>13 DEF Sol!Address, Sol!Text
<1>15. \A d \in D : Alphabet[d + 1] \in Letters
  <2>1. Alphabet \in [1 .. Base -> Letters]
    BY SizesAssumption DEF Sol!AlphabetFits
  <2>2. \A d \in D : d + 1 \in 1 .. Base
    BY <1>1 DEF D
  <2> QED BY <2>1, <2>2
<1>16. a \in [1 .. n -> Letters]
  BY <1>13, <1>14, <1>15
<1> HIDE DEF a, n
<1>17. a \in Seq(Letters) /\ Len(a) = n
  BY <1>13, <1>16, FunctionIsSeq
<1>18. \A i \in 1 .. n : n + 1 - i \in 1 .. n
  BY <1>13
<1>19. \A i \in 1 .. n : a[n + 1 - i] = Alphabet[LastDigit(k, i) + 1]
  BY <1>12, <1>14, <1>18
<1> QED BY <1>17, <1>19 DEF a

-----------------------------------------------------------------------------
(* SolMatcher, letter by letter. *)

\* Two letters are one, without regard to case if it is ignored.
Same(c, d, any) == c = d \/ (any /\ LowerCase[c] = LowerCase[d])

\* The address reads as both patterns.
Reads(a, p, s, any) ==
  /\ Len(p) <= Len(a) /\ Len(s) <= Len(a)
  /\ \A i \in 1 .. Len(p) : Same(a[i], p[i], any)
  /\ \A i \in 1 .. Len(s) : Same(a[Len(a) - Len(s) + i], s[i], any)

LEMMA AlphabetFacts ==
  /\ \A d \in 0 .. Base - 1 : d + 1 \in 1 .. Base /\ Alphabet[d + 1] \in Letters
  /\ \A i \in 1 .. Base : Alphabet[i] \in Letters
  /\ \A c \in Letters : LowerCase[c] \in Letters /\ LowerCase[LowerCase[c]] = LowerCase[c]
<1>1. /\ Alphabet \in [1 .. Base -> Letters] /\ LowerCase \in [Letters -> Letters]
      /\ \A c \in Letters : LowerCase[LowerCase[c]] = LowerCase[c]
  BY SizesAssumption DEF Sol!AlphabetFits
<1>2. \A d \in 0 .. Base - 1 : d + 1 \in 1 .. Base
  BY SolSizes
<1> QED BY <1>1, <1>2

LEMMA FoldFacts ==
  ASSUME NEW t \in Seq(Letters), NEW any \in BOOLEAN
  PROVE  /\ Sol!Fold(t, any) \in Seq(Letters) /\ Len(Sol!Fold(t, any)) = Len(t)
         /\ \A i \in 1 .. Len(t) : Sol!Fold(t, any)[i] = IF any THEN LowerCase[t[i]] ELSE t[i]
<1>1. Len(t) \in Nat /\ t \in [1 .. Len(t) -> Letters] /\ DOMAIN t = 1 .. Len(t)
  BY LenProperties
<1>2. CASE any
  <2> DEFINE n == Len(t)
             f == [i \in 1 .. n |-> LowerCase[t[i]]]
  <2>1. Sol!Fold(t, any) = f
    BY <1>1, <1>2 DEF Sol!Fold
  <2>2. \A i \in 1 .. n : LowerCase[t[i]] \in Letters
    BY <1>1, AlphabetFacts
  <2>3. f \in [1 .. n -> Letters] /\ n \in Nat
    BY <1>1, <2>2
  <2>4. \A i \in 1 .. n : f[i] = LowerCase[t[i]]
    OBVIOUS
  <2> HIDE DEF f, n
  <2>5. f \in Seq(Letters) /\ Len(f) = n
    BY <2>3, FunctionIsSeq
  <2> QED BY <1>2, <2>1, <2>4, <2>5 DEF n
<1>3. CASE ~any
  BY <1>3 DEF Sol!Fold
<1> QED BY <1>2, <1>3

\* Letters that are the same are equal once folded.
LEMMA FoldedSame ==
  ASSUME NEW c \in Letters, NEW d \in Letters, NEW any \in BOOLEAN
  PROVE  ((IF any THEN LowerCase[c] ELSE c) = (IF any THEN LowerCase[d] ELSE d)) <=> Same(c, d, any)
BY DEF Same

LEMMA EqualSame ==
  ASSUME NEW n \in Nat, NEW b, NEW p, NEW any \in BOOLEAN,
         Len(b) = n, Len(p) = n, DOMAIN b = 1 .. n
  PROVE  Sol!Equal(b, p, any) <=> \A i \in 1 .. n : Same(b[i], p[i], any)
BY DEF Sol!Equal, Same

\* What the CPU compares once it has the text.
LEMMA CpuReadsSol ==
  ASSUME NEW a \in Seq(Letters), NEW p \in Seq(Letters), NEW s \in Seq(Letters), NEW any \in BOOLEAN
  PROVE  (/\ Len(p) <= Len(a) /\ Len(s) <= Len(a)
          /\ Sol!Equal(SubSeq(a, 1, Len(p)), p, any)
          /\ Sol!Equal(SubSeq(a, Len(a) - Len(s) + 1, Len(a)), s, any)) <=> Reads(a, p, s, any)
<1> DEFINE n == Len(a)
           l == Len(p)
           m == Len(s)
           e == n - m + 1
           front == SubSeq(a, 1, l)
           back == SubSeq(a, e, n)
<1>1. n \in Nat /\ l \in Nat /\ m \in Nat /\ \A i \in 1 .. n : a[i] \in Letters
  BY LenProperties
<1> SUFFICES ASSUME l <= n, m <= n
             PROVE  /\ Sol!Equal(front, p, any) <=> \A i \in 1 .. l : Same(a[i], p[i], any)
                    /\ Sol!Equal(back, s, any) <=> \A i \in 1 .. m : Same(a[n - m + i], s[i], any)
  BY DEF Reads
<1>2. Sol!Equal(front, p, any) <=> \A i \in 1 .. l : Same(a[i], p[i], any)
  <2>1. \A i \in 1 .. l : a[i] \in Letters
    BY <1>1
  <2> HIDE DEF l, n
  <2>2. /\ front \in Seq(Letters) /\ Len(front) = (IF 1 <= l THEN l - 1 + 1 ELSE 0)
        /\ \A i \in 1 .. l - 1 + 1 : front[i] = a[1 + i - 1]
    BY <1>1, <2>1, SubSeqProperties
  <2> HIDE DEF front
  <2>3. Len(front) = l /\ DOMAIN front = 1 .. l
    BY <1>1, <2>2, LenProperties
  <2>4. \A i \in 1 .. l : front[i] = a[i]
    BY <1>1, <2>2
  <2>5. Sol!Equal(front, p, any) <=> \A i \in 1 .. l : Same(front[i], p[i], any)
    BY <1>1, <2>3, EqualSame DEF l
  <2> QED BY <2>4, <2>5
<1>3. Sol!Equal(back, s, any) <=> \A i \in 1 .. m : Same(a[n - m + i], s[i], any)
  <2>1. e \in Nat /\ n - e + 1 = m /\ (e <= n <=> m >= 1) /\ \A i \in e .. n : i \in 1 .. n
    BY <1>1
  <2>2. \A i \in e .. n : a[i] \in Letters
    BY <1>1, <2>1
  <2>3. \A i \in 1 .. m : e + i - 1 = n - m + i
    BY <1>1
  <2> HIDE DEF e, n, m
  <2>4. /\ back \in Seq(Letters) /\ Len(back) = (IF e <= n THEN n - e + 1 ELSE 0)
        /\ \A i \in 1 .. n - e + 1 : back[i] = a[e + i - 1]
    BY <1>1, <2>1, <2>2, SubSeqProperties
  <2> HIDE DEF back
  <2>5. Len(back) = m /\ DOMAIN back = 1 .. m
    BY <1>1, <2>1, <2>4, LenProperties
  <2>6. \A i \in 1 .. m : back[i] = a[n - m + i]
    BY <2>1, <2>3, <2>4
  <2>7. Sol!Equal(back, s, any) <=> \A i \in 1 .. m : Same(back[i], s[i], any)
    BY <1>1, <2>5, EqualSame DEF m
  <2> QED BY <2>6, <2>7
<1> QED BY <1>2, <1>3

\* What the kernel compares.
LEMMA GpuReadsSol ==
  ASSUME NEW a \in Seq(Letters), NEW p \in Seq(Letters), NEW s \in Seq(Letters), NEW any \in BOOLEAN
  PROVE  Sol!MatchesTarget(a, p, s, any) <=> Reads(a, p, s, any)
<1> DEFINE n == Len(a)
           l == Len(p)
           m == Len(s)
           fa == Sol!Fold(a, any)
           fp == Sol!Fold(p, any)
           fs == Sol!Fold(s, any)
<1>1. /\ n \in Nat /\ \A i \in 1 .. n : a[i] \in Letters
      /\ l \in Nat /\ DOMAIN p = 1 .. l /\ \A i \in 1 .. l : p[i] \in Letters
      /\ m \in Nat /\ DOMAIN s = 1 .. m /\ \A i \in 1 .. m : s[i] \in Letters
  BY LenProperties
<1>2. /\ \A i \in 1 .. n : fa[i] = IF any THEN LowerCase[a[i]] ELSE a[i]
      /\ \A i \in 1 .. l : fp[i] = IF any THEN LowerCase[p[i]] ELSE p[i]
      /\ \A i \in 1 .. m : fs[i] = IF any THEN LowerCase[s[i]] ELSE s[i]
  BY FoldFacts
<1> HIDE DEF fa, fp, fs
<1>3. ASSUME l <= n, NEW i \in 1 .. l PROVE fa[i] = fp[i] <=> Same(a[i], p[i], any)
  <2>1. i \in 1 .. n
    BY <1>1, <1>3
  <2>2. a[i] \in Letters /\ p[i] \in Letters
    BY <1>1, <2>1
  <2> QED BY <1>2, <2>1, <2>2, FoldedSame
<1>4. ASSUME m <= n, NEW i \in 1 .. m PROVE fa[n - m + i] = fs[i] <=> Same(a[n - m + i], s[i], any)
  <2> DEFINE j == n - m + i
  <2>1. j \in 1 .. n
    BY <1>1, <1>4
  <2> HIDE DEF j
  <2>2. a[j] \in Letters /\ s[i] \in Letters
    BY <1>1, <2>1
  <2>3. fa[j] = fs[i] <=> Same(a[j], s[i], any)
    BY <1>2, <2>1, <2>2, FoldedSame
  <2> QED BY <2>3 DEF j
<1> QED BY <1>1, <1>3, <1>4 DEF Sol!MatchesTarget, Reads, fa, fp, fs

\* What the user asked for.
LEMMA WantedReadsSol ==
  ASSUME key \in Sol!Keys, prefix \in Seq(Letters), suffix \in Seq(Letters), ignore \in BOOLEAN
  PROVE  Sol!Wanted <=> Reads(Sol!Address(key), prefix, suffix, ignore)
<1> DEFINE a == Sol!Address(key)
           h == Sol!Fold(a, ignore)
           p == Sol!Fold(prefix, ignore)
           s == Sol!Fold(suffix, ignore)
<1>1. a \in Seq(Letters)
  BY AddressLetters
<1> HIDE DEF a
<1>2. /\ h \in Seq(Letters) /\ Len(h) = Len(a)
      /\ p \in Seq(Letters) /\ Len(p) = Len(prefix)
      /\ s \in Seq(Letters) /\ Len(s) = Len(suffix)
  BY <1>1, FoldFacts
<1>3. Sol!MatchesTarget(a, prefix, suffix, ignore) <=>
        /\ Len(p) <= Len(h) /\ Len(s) <= Len(h)
        /\ \A i \in 1 .. Len(p) : h[i] = p[i]
        /\ \A i \in 1 .. Len(s) : h[Len(h) - Len(s) + i] = s[i]
  <2>1. DOMAIN prefix = 1 .. Len(prefix) /\ DOMAIN suffix = 1 .. Len(suffix)
    BY LenProperties
  <2> QED BY <1>2, <2>1 DEF Sol!MatchesTarget
<1>4. Sol!Wanted <=> Eth!IsPrefix(p, h) /\ Eth!IsSuffix(s, h)
  <2>1. Sol!IsPrefix(p, h) <=> Eth!IsPrefix(p, h)
    BY DEF Sol!IsPrefix, Eth!IsPrefix
  <2>2. Sol!IsSuffix(s, h) <=> Eth!IsSuffix(s, h)
    BY DEF Sol!IsSuffix, Eth!IsSuffix, Sol!IsPrefix, Eth!IsPrefix, Sol!Reverse, Eth!Reverse
  <2> QED BY <2>1, <2>2 DEF Sol!Wanted, a
<1> HIDE DEF h, p, s
<1>5. Eth!IsPrefix(p, h) <=> Len(p) <= Len(h) /\ \A i \in 1 .. Len(p) : h[i] = p[i]
  <2>1. Eth!IsPrefix(p, h) => Len(p) <= Len(h)
    BY DEF Eth!IsPrefix
  <2> QED BY <1>2, <2>1, PrefixAt
<1>6. Eth!IsSuffix(s, h) <=> Len(s) <= Len(h) /\ \A i \in 1 .. Len(s) : h[Len(h) - Len(s) + i] = s[i]
  <2>1. Eth!IsSuffix(s, h) => Len(s) <= Len(h)
    BY <1>2, ReverseFacts DEF Eth!IsSuffix, Eth!IsPrefix
  <2> QED BY <1>2, <2>1, SuffixAt
<1>7. Sol!MatchesTarget(a, prefix, suffix, ignore) <=> Reads(a, prefix, suffix, ignore)
  BY <1>1, GpuReadsSol
<1> QED BY <1>3, <1>4, <1>5, <1>6, <1>7 DEF a

\* Letters of the suffix that the residue knows of.
Known(s) == IF Len(s) < ModDigits THEN Len(s) ELSE ModDigits

\* Both tests before the encoding compare these letters with the key's last digits.
LastReads(k, s, any) ==
  \A i \in 1 .. Known(s) : Same(Alphabet[LastDigit(k, i) + 1], s[Len(s) + 1 - i], any)

LEMMA PrefiltersRead ==
  ASSUME NEW k \in Sol!Keys, NEW s \in Seq(Letters), NEW any \in BOOLEAN
  PROVE  /\ Sol!CpuPrefilter(k, s, any) <=> LastReads(k, s, any)
         /\ Sol!GpuPrefilter(k, s, any) <=> LastReads(k, s, any)
<1> DEFINE m == Len(s)
           r == Sol!Residue(k)
           low == Sol!LowDigits(r, Base, ModDigits)
           digit(i) == (r \div Sol!Powers(Base)[i-1]) % Base
           last == Sol!Fold(s, any)
           c(i) == Alphabet[LastDigit(k, i) + 1]
<1>1. m \in Nat /\ ModDigits \in Nat /\ \A i \in 1 .. m : s[i] \in Letters
  BY SolSizes, LenProperties
<1>2. ASSUME NEW i \in 1 .. Known(s)
      PROVE  /\ i \in 1 .. ModDigits /\ m + 1 - i \in 1 .. m /\ s[m + 1 - i] \in Letters
             /\ low[i] = LastDigit(k, i) /\ digit(i) = LastDigit(k, i) /\ c(i) \in Letters
  <2>1. i \in 1 .. ModDigits /\ m + 1 - i \in 1 .. m
    BY <1>1 DEF Known
  <2>2. digit(i) = LastDigit(k, i)
    BY <2>1, ResidueDigits
  <2>3. low[i] = digit(i)
    BY <2>1 DEF Sol!LowDigits
  <2>4. LastDigit(k, i) \in 0 .. Base - 1
    BY <1>1, <2>1, LastDigitRange
  <2> QED BY <1>1, <2>1, <2>2, <2>3, <2>4, AlphabetFacts
<1>3. Sol!CpuPrefilter(k, s, any) <=> LastReads(k, s, any)
  <2>1. ASSUME NEW x, NEW y PROVE Sol!Equal(<<x>>, <<y>>, any) <=> Same(x, y, any)
    BY DEF Sol!Equal, Same
  <2>2. Sol!CpuPrefilter(k, s, any) <=>
          \A i \in 1 .. Known(s) : Sol!Equal(<<Alphabet[low[i] + 1]>>, <<s[m + 1 - i]>>, any)
    BY DEF Sol!CpuPrefilter, Known
  <2> QED BY <1>2, <2>1, <2>2 DEF LastReads
<1>4. Sol!GpuPrefilter(k, s, any) <=> LastReads(k, s, any)
  <2>1. ASSUME NEW x \in Letters
        PROVE  Sol!Fold(<<x>>, any)[1] = IF any THEN LowerCase[x] ELSE x
    BY DEF Sol!Fold
  <2>2. \A i \in 1 .. m : last[i] = IF any THEN LowerCase[s[i]] ELSE s[i]
    BY FoldFacts
  <2>3. Sol!GpuPrefilter(k, s, any) <=>
          \A i \in 1 .. Known(s) : Sol!Fold(<<Alphabet[digit(i) + 1]>>, any)[1] = last[m + 1 - i]
    BY DEF Sol!GpuPrefilter, Known
  <2> HIDE DEF last, digit
  <2>4. ASSUME NEW i \in 1 .. Known(s)
        PROVE  Sol!Fold(<<Alphabet[digit(i) + 1]>>, any)[1] = last[m + 1 - i]
                 <=> Same(c(i), s[m + 1 - i], any)
    <3>1. /\ m + 1 - i \in 1 .. m /\ s[m + 1 - i] \in Letters
          /\ c(i) \in Letters /\ Alphabet[digit(i) + 1] = c(i)
      BY <1>2 DEF digit
    <3>2. last[m + 1 - i] = IF any THEN LowerCase[s[m + 1 - i]] ELSE s[m + 1 - i]
      BY <2>2, <3>1
    <3> HIDE DEF m, c
    <3> QED BY <2>1, <3>1, <3>2, FoldedSame
  <2> QED BY <2>3, <2>4 DEF LastReads
<1> QED BY <1>3, <1>4

\* An address that ends with the suffix passes them.
LEMMA ReadsLast ==
  ASSUME NEW k \in Sol!Keys, NEW p \in Seq(Letters), NEW s \in Seq(Letters), NEW any \in BOOLEAN,
         Reads(Sol!Address(k), p, s, any)
  PROVE  LastReads(k, s, any)
<1> DEFINE a == Sol!Address(k)
           n == Len(a)
           m == Len(s)
<1>1. a \in Seq(Letters) /\ \A i \in 1 .. n : a[n + 1 - i] = Alphabet[LastDigit(k, i) + 1]
  BY AddressLetters
<1>2. n \in Nat /\ m \in Nat /\ m <= n /\ \A i \in 1 .. m : Same(a[n - m + i], s[i], any)
  <2> HIDE DEF a
  <2> QED BY <1>1, LenProperties DEF Reads, a
<1>3. ModDigits \in Nat
  BY SolSizes
<1> SUFFICES ASSUME NEW i \in 1 .. Known(s)
             PROVE  Same(Alphabet[LastDigit(k, i) + 1], s[m + 1 - i], any)
  BY DEF LastReads
<1> DEFINE j == m + 1 - i
<1>4. j \in 1 .. m /\ n - m + j = n + 1 - i /\ i \in 1 .. n
  BY <1>2, <1>3 DEF Known
<1> HIDE DEF a, n, m, j
<1>5. Same(a[n - m + j], s[j], any)
  BY <1>2, <1>4
<1>6. a[n + 1 - i] = Alphabet[LastDigit(k, i) + 1]
  BY <1>1, <1>4
<1> QED BY <1>4, <1>5, <1>6 DEF j

\* The decision of each side, and that they are one.
LEMMA TestsExact ==
  ASSUME NEW k \in Sol!Keys, NEW p \in Seq(Letters), NEW s \in Seq(Letters), NEW any \in BOOLEAN
  PROVE  /\ Sol!CpuTest(k, p, s, any).match <=> Reads(Sol!Address(k), p, s, any)
         /\ Sol!GpuTest(k, p, s, any) = Sol!CpuTest(k, p, s, any)
<1> DEFINE a == Sol!Address(k)
           mine == /\ Len(p) <= Len(a) /\ Len(s) <= Len(a)
                   /\ Sol!Equal(SubSeq(a, 1, Len(p)), p, any)
                   /\ Sol!Equal(SubSeq(a, Len(a) - Len(s) + 1, Len(a)), s, any)
           theirs == Sol!MatchesTarget(a, p, s, any)
           skip == Len(s) > 0 /\ ~LastReads(k, s, any)
<1>1. a \in Seq(Letters)
  BY AddressLetters
<1>2. mine <=> Reads(a, p, s, any)
  <2> HIDE DEF a
  <2> QED BY <1>1, CpuReadsSol
<1>3. theirs <=> Reads(a, p, s, any)
  <2> HIDE DEF a
  <2> QED BY <1>1, GpuReadsSol
<1>4. skip => ~Reads(a, p, s, any)
  BY ReadsLast
<1>5. Sol!CpuTest(k, p, s, any) = IF skip THEN Sol!Untested ELSE [encoded |-> TRUE, match |-> mine]
  BY PrefiltersRead, Zenon DEF Sol!CpuTest
<1>6. Sol!GpuTest(k, p, s, any) = IF skip THEN Sol!Untested ELSE [encoded |-> TRUE, match |-> theirs]
  BY PrefiltersRead, Zenon DEF Sol!GpuTest
<1>7. Sol!Untested.match = FALSE
  BY DEF Sol!Untested
<1> HIDE DEF a, skip
<1>8. mine = theirs
  <2>1. mine \in BOOLEAN /\ theirs \in BOOLEAN
    BY DEF Sol!MatchesTarget
  <2> HIDE DEF mine, theirs
  <2> QED BY <1>2, <1>3, <2>1
<1> HIDE DEF mine, theirs
<1> QED BY <1>2, <1>3, <1>4, <1>5, <1>6, <1>7, <1>8 DEF a

\* Every letter of a pattern stands for one of the alphabet.
Possible(t, any) == \A i \in DOMAIN t : Sol!Mask(t[i], any) # {}

LEMMA PatternIsSeq ==
  ASSUME NEW n, NEW t \in Sol!Patterns(n)
  PROVE  t \in Seq(Letters)
<1>1. PICK l \in 0 .. n : t \in [1 .. l -> Letters]
  BY DEF Sol!Patterns
<1>2. l \in Nat
  OBVIOUS
<1> QED BY <1>1, <1>2, FunctionIsSeq

\* The form a valid pattern is searched for in.
LEMMA NormalPossible ==
  ASSUME NEW t \in Seq(Letters), NEW any \in BOOLEAN, Sol!Valid(t, any)
  PROVE  Sol!Normalize(t, any) \in Seq(Letters) /\ Possible(Sol!Normalize(t, any), any)
<1>1. Len(t) \in Nat /\ DOMAIN t = 1 .. Len(t) /\ \A i \in 1 .. Len(t) : t[i] \in Letters
  BY LenProperties
<1> DEFINE u == Sol!Normalize(t, any)
<1>2. u = Sol!Fold(t, any)
  BY DEF Sol!Normalize, Sol!Fold
<1> HIDE DEF u
<1>3. /\ u \in Seq(Letters) /\ Len(u) = Len(t)
      /\ \A i \in 1 .. Len(t) : u[i] = IF any THEN LowerCase[t[i]] ELSE t[i]
  BY <1>2, FoldFacts
<1>4. DOMAIN u = 1 .. Len(t)
  BY <1>3, LenProperties
<1>5. ASSUME NEW i \in 1 .. Len(t) PROVE Sol!Mask(u[i], any) # {}
  <2>1. \/ Sol!InAlphabet(t[i])
        \/ any /\ \E c \in Letters : Sol!InAlphabet(c) /\ LowerCase[c] = LowerCase[t[i]]
    BY <1>1 DEF Sol!Valid
  <2>2. PICK j \in 1 .. Base : IF any THEN LowerCase[Alphabet[j]] = LowerCase[t[i]] ELSE Alphabet[j] = t[i]
    BY <2>1 DEF Sol!InAlphabet
  <2>3. LowerCase[LowerCase[t[i]]] = LowerCase[t[i]]
    BY <1>1, AlphabetFacts
  <2>4. j \in Sol!Mask(u[i], any)
    BY <1>3, <2>2, <2>3 DEF Sol!Mask
  <2> QED BY <2>4
<1> QED BY <1>3, <1>4, <1>5 DEF u, Possible

\* The patterns are possible once they are accepted, and each side has said what its
\* test says.
SolInv ==
  /\ key \in Sol!Keys /\ ignore \in BOOLEAN
  /\ prefix \in Seq(Letters) /\ suffix \in Seq(Letters)
  /\ pc \in {"cpu", "gpu", "done"} => Possible(prefix, ignore) /\ Possible(suffix, ignore)
  /\ pc \in {"gpu", "done"} => cpu = Sol!CpuTest(key, prefix, suffix, ignore)
  /\ pc = "done" => gpu = Sol!GpuTest(key, prefix, suffix, ignore)

LEMMA InitSolInv ==
  ASSUME Sol!Init
  PROVE  SolInv
BY PatternIsSeq DEF Sol!Init, SolInv

LEMMA SolInvStep ==
  ASSUME SolInv, [Sol!Next]_Sol!vars
  PROVE  SolInv'
<1>1. CASE Sol!Accept
  <2>1. /\ pc = "input" /\ pc' = "cpu" /\ key' = key /\ ignore' = ignore
        /\ Sol!Valid(prefix, ignore) /\ Sol!Valid(suffix, ignore)
        /\ prefix' = Sol!Normalize(prefix, ignore) /\ suffix' = Sol!Normalize(suffix, ignore)
    BY <1>1 DEF Sol!Accept
  <2>2. key \in Sol!Keys /\ ignore \in BOOLEAN /\ prefix \in Seq(Letters) /\ suffix \in Seq(Letters)
    BY DEF SolInv
  <2>3. /\ prefix' \in Seq(Letters) /\ Possible(prefix', ignore')
        /\ suffix' \in Seq(Letters) /\ Possible(suffix', ignore')
    BY <2>1, <2>2, NormalPossible
  <2>4. (key \in Sol!Keys)'
    BY <2>1, <2>2 DEF Sol!Keys, Sol!Bytes
  <2> QED BY <2>1, <2>2, <2>3, <2>4 DEF SolInv, Possible
<1>2. CASE Sol!Refuse
  BY <1>2 DEF Sol!Refuse, SolInv
<1>3. CASE Sol!TestOnCpu
  BY <1>3 DEF Sol!TestOnCpu, SolInv
<1>4. CASE Sol!TestOnGpu
  BY <1>4 DEF Sol!TestOnGpu, SolInv
<1>5. CASE UNCHANGED Sol!vars
  BY <1>5 DEF Sol!vars, SolInv
<1> QED BY <1>1, <1>2, <1>3, <1>4, <1>5 DEF Sol!Next, Sol!Finished

LEMMA SolInvExact ==
  ASSUME SolInv
  PROVE  Sol!CpuExact /\ Sol!DeviceAgrees /\ Sol!EveryLetterPossible
<1>1. /\ key \in Sol!Keys /\ ignore \in BOOLEAN /\ prefix \in Seq(Letters) /\ suffix \in Seq(Letters)
  BY DEF SolInv
<1>2. /\ Sol!CpuTest(key, prefix, suffix, ignore).match <=> Sol!Wanted
      /\ Sol!GpuTest(key, prefix, suffix, ignore) = Sol!CpuTest(key, prefix, suffix, ignore)
  BY <1>1, TestsExact, WantedReadsSol
<1>3. Sol!CpuExact
  BY <1>2 DEF SolInv, Sol!CpuExact
<1>4. Sol!DeviceAgrees
  BY <1>2 DEF SolInv, Sol!DeviceAgrees
<1>5. Sol!EveryLetterPossible
  BY DEF SolInv, Possible, Sol!EveryLetterPossible
<1> QED BY <1>3, <1>4, <1>5

-----------------------------------------------------------------------------
(* Base58Encode, pass by pass. *)

LEMMA EncoderSizes ==
  /\ EncoderBase \in Nat \ {0, 1} /\ EncoderByteBase \in Nat \ {0, 1} /\ EncoderBase < EncoderByteBase
  /\ EncoderLimbBytes \in Nat \ {0} /\ EncoderLimbs \in Nat \ {0} /\ EncoderGroup \in Nat \ {0}
  /\ Encoder!Bytes = EncoderLimbBytes * EncoderLimbs /\ Encoder!Bytes \in Nat \ {0}
<1>1. /\ EncoderBase \in Nat \ {0, 1} /\ EncoderByteBase \in Nat /\ EncoderByteBase > EncoderBase
      /\ EncoderLimbBytes \in Nat \ {0} /\ EncoderLimbs \in Nat \ {0} /\ EncoderGroup \in Nat \ {0}
  BY SizesAssumption DEF Encoder!SizesFit
<1>2. Encoder!Bytes = EncoderLimbBytes * EncoderLimbs
  BY DEF Encoder!Bytes
<1>3. EncoderLimbBytes * EncoderLimbs \in Nat \ {0}
  BY <1>1, ProductPositive
<1> QED BY <1>1, <1>2, <1>3

\* The operators on numbers are those of SolMatcher.
LEMMA EncoderNumbers ==
  /\ \A b : Encoder!Powers(b) = Sol!Powers(b)
  /\ \A s, b : Encoder!Numbers(s, b) = Sol!Numbers(s, b) /\ Encoder!Number(s, b) = Sol!Number(s, b)
  /\ \A v, b, n : Encoder!LowDigits(v, b, n) = Sol!LowDigits(v, b, n)
  /\ \A v, b : Encoder!Length(v, b) = Sol!Length(v, b)
  /\ \A s : Encoder!Reverse(s) = Sol!Reverse(s)
<1>1. \A b : Encoder!Powers(b) = Sol!Powers(b)
  BY DEF Encoder!Powers, Sol!Powers
<1>2. \A s, b : Encoder!Numbers(s, b) = Sol!Numbers(s, b)
  BY DEF Encoder!Numbers, Sol!Numbers
<1>3. \A s, b : Encoder!Number(s, b) = Sol!Number(s, b)
  BY <1>2 DEF Encoder!Number, Sol!Number
<1>4. \A v, b, n : Encoder!LowDigits(v, b, n) = Sol!LowDigits(v, b, n)
  BY <1>1 DEF Encoder!LowDigits, Sol!LowDigits
<1>5. \A v, b : Encoder!Length(v, b) = Sol!Length(v, b)
  BY DEF Encoder!Length, Sol!Length, Encoder!Powers, Sol!Powers
<1>6. \A s : Encoder!Reverse(s) = Sol!Reverse(s)
  BY DEF Encoder!Reverse, Sol!Reverse
<1> QED BY <1>1, <1>2, <1>3, <1>4, <1>5, <1>6

LEMMA EncoderBases ==
  /\ Encoder!LimbBase = Sol!Powers(EncoderByteBase)[EncoderLimbBytes]
  /\ Encoder!LimbBase \in Nat \ {0}
  /\ Encoder!Radix = Sol!Powers(EncoderBase)[EncoderGroup]
  /\ Encoder!Radix \in Nat \ {0, 1}
<1>1. /\ Encoder!LimbBase = Sol!Powers(EncoderByteBase)[EncoderLimbBytes]
      /\ Encoder!Radix = Sol!Powers(EncoderBase)[EncoderGroup]
  BY EncoderNumbers DEF Encoder!LimbBase, Encoder!Radix
<1>2. Sol!Powers(EncoderByteBase)[EncoderLimbBytes] \in Nat \ {0}
  BY EncoderSizes, PowersDef
<1>3. Sol!Powers(EncoderBase)[EncoderGroup] \in Nat \ {0}
  BY EncoderSizes, PowersDef
<1>4. EncoderGroup < Sol!Powers(EncoderBase)[EncoderGroup] /\ 1 <= EncoderGroup
  BY EncoderSizes, PowersGrow
<1> DEFINE r == Sol!Powers(EncoderBase)[EncoderGroup]
<1>5. r \in Nat \ {0} /\ EncoderGroup < r /\ 1 <= EncoderGroup /\ EncoderGroup \in Nat
  BY <1>3, <1>4, EncoderSizes
<1> HIDE DEF r
<1>6. r \in Nat \ {0, 1}
  BY <1>5
<1> QED BY <1>1, <1>2, <1>6 DEF r

KeyValue(k) == Sol!Number(k, EncoderByteBase)

LEMMA EncoderKey ==
  ASSUME NEW k \in Encoder!Keys
  PROVE  /\ k \in Seq(Nat) /\ Len(k) = Encoder!Bytes
         /\ \A i \in 1 .. Encoder!Bytes : k[i] < EncoderByteBase
         /\ KeyValue(k) \in Nat
<1> DEFINE n == Encoder!Bytes
<1>1. n \in Nat /\ k \in [1 .. n -> 0 .. EncoderByteBase - 1] /\ EncoderByteBase \in Nat \ {0}
  BY EncoderSizes DEF Encoder!Keys
<1> HIDE DEF n
<1>2. k \in [1 .. n -> Nat] /\ \A i \in 1 .. n : k[i] < EncoderByteBase
  BY <1>1
<1>3. k \in Seq(Nat) /\ Len(k) = n
  BY <1>1, <1>2, FunctionIsSeq
<1>4. Sol!Numbers(k, EncoderByteBase)[Len(k)] \in Nat
  <2>1. Len(k) \in 0 .. Len(k) /\ EncoderByteBase \in Nat
    BY <1>1, <1>3
  <2> QED BY <1>3, <2>1, NumbersDef
<1> QED BY <1>2, <1>3, <1>4 DEF KeyValue, Sol!Number, n

\* What limbs of their size can hold.
LimbValues == [1 .. EncoderLimbs -> 0 .. Encoder!LimbBase - 1]

LEMMA LimbsTyped ==
  ASSUME NEW l \in LimbValues
  PROVE  l \in Seq(Nat) /\ Len(l) = EncoderLimbs /\ \A i \in 1 .. EncoderLimbs : l[i] \in 0 .. Encoder!LimbBase - 1
<1>1. EncoderLimbs \in Nat /\ Encoder!LimbBase \in Nat \ {0}
  BY EncoderSizes, EncoderBases
<1>2. l \in [1 .. EncoderLimbs -> Nat] /\ \A i \in 1 .. EncoderLimbs : l[i] \in 0 .. Encoder!LimbBase - 1
  BY <1>1 DEF LimbValues
<1> QED BY <1>1, <1>2, FunctionIsSeq

\* The limbs of a key stand for its number.
LEMMA ToLimbsExact ==
  ASSUME NEW k \in Encoder!Keys
  PROVE  /\ Encoder!ToLimbs(k) \in LimbValues
         /\ Sol!Number(Encoder!ToLimbs(k), Encoder!LimbBase) = KeyValue(k)
<1> DEFINE b == EncoderByteBase
           n == EncoderLimbBytes
           c == EncoderLimbs
           B == Encoder!LimbBase
           l == Encoder!ToLimbs(k)
           f == Sol!Numbers(k, b)
           g == Sol!Numbers(l, B)
           S == {i \in Nat : i <= c => g[i] = f[i * n]}
<1>1. /\ b \in Nat \ {0} /\ n \in Nat /\ c \in Nat /\ k \in Seq(Nat) /\ Len(k) = n * c
      /\ \A i \in 1 .. Len(k) : k[i] < b
  BY EncoderSizes, EncoderKey
<1>2. B = Sol!Powers(b)[n] /\ B \in Nat \ {0}
  BY EncoderBases
<1>3. l = [i \in 1 .. c |-> Sol!Number(SubSeq(k, (i - 1) * n + 1, i * n), b)]
  BY EncoderNumbers DEF Encoder!ToLimbs
<1> HIDE DEF b, n, c, B, l
<1>4. ASSUME NEW i \in 1 .. c
      PROVE  l[i] \in 0 .. B - 1 /\ f[i * n] = f[(i - 1) * n] * B + l[i]
  <2> DEFINE m == (i - 1) * n
             h == i * n
             u == SubSeq(k, m + 1, h)
  <2>1. m \in Nat /\ m + n = h /\ h \in 0 .. Len(k) /\ f[h] = f[m] * B + Sol!Number(u, b)
    <3>1. SplitAt(k, b, n, i)
      BY <1>1, LimbSplit
    <3>2. /\ f[h] = f[m] * B + Sol!Number(u, b)
      BY <1>2, <3>1 DEF SplitAt
    <3> QED BY <3>1, <3>2 DEF SplitAt
  <2>2. l[i] = Sol!Number(u, b)
    BY <1>3
  <2> HIDE DEF m, h
  <2>3. u \in Seq(Nat) /\ Len(u) = n /\ \A j \in 1 .. n : u[j] < b
    <3> DEFINE e == m + 1
    <3>1. e \in Nat /\ h \in Nat /\ \A j \in e .. h : k[j] \in Nat /\ k[j] < b
      <4>1. \A j \in e .. h : j \in 1 .. Len(k)
        BY <1>1, <2>1
      <4> QED BY <1>1, <2>1, <4>1
    <3>2. h - e + 1 = n /\ (e <= h <=> n >= 1) /\ \A j \in 1 .. n : e + j - 1 \in e .. h
      BY <1>1, <2>1
    <3>3. u = SubSeq(k, e, h)
      OBVIOUS
    <3> HIDE DEF u, e
    <3>4. /\ SubSeq(k, e, h) \in Seq(Nat)
          /\ Len(SubSeq(k, e, h)) = (IF e <= h THEN h - e + 1 ELSE 0)
          /\ \A j \in 1 .. h - e + 1 : SubSeq(k, e, h)[j] = k[e + j - 1]
      BY <3>1, SubSeqProperties
    <3>5. Len(u) = n
      BY <1>1, <3>2, <3>3, <3>4
    <3>6. \A j \in 1 .. n : u[j] < b
      BY <3>1, <3>2, <3>3, <3>4
    <3> QED BY <3>3, <3>4, <3>5, <3>6
  <2> HIDE DEF u
  <2>4. Sol!Number(u, b) \in Nat /\ Sol!Number(u, b) < B
    <3>1. 0 \in 0 .. Len(u) /\ Len(u) - 0 = n /\ \A j \in 1 .. 0 : u[j] = 0
      BY <1>1, <2>3
    <3>2. /\ Sol!Number(u, b) \in Nat
          /\ Sol!Number(u, b) < Sol!Powers(b)[Len(u) - 0]
      BY <1>1, <2>3, <3>1, NumberBound
    <3> QED BY <1>2, <3>1, <3>2
  <2>5. l[i] \in 0 .. B - 1
    BY <1>2, <2>2, <2>4
  <2> QED BY <2>1, <2>2, <2>5 DEF m, h
<1>5. l \in LimbValues
  BY <1>3, <1>4 DEF LimbValues, c, B
<1>6. l \in Seq(Nat) /\ Len(l) = c
  BY <1>5, LimbsTyped DEF c
<1>7. g[0] = 0 /\ \A i \in 1 .. c : g[i] = g[i-1] * B + l[i]
  BY <1>2, <1>6, NumbersDef
<1>8. f[0] = 0
  BY <1>1, NumbersDef
<1>9. Sol!Number(l, B) = g[c] /\ Sol!Number(k, b) = f[n * c]
  BY <1>1, <1>6 DEF Sol!Number
<1> HIDE DEF f, g
<1>10. 0 \in S
  <2>1. 0 * n = 0
    BY <1>1
  <2> QED BY <1>7, <1>8, <2>1
<1>11. ASSUME NEW i \in Nat, i \in S PROVE i + 1 \in S
  <2> SUFFICES ASSUME i + 1 <= c PROVE g[i + 1] = f[(i + 1) * n]
    OBVIOUS
  <2>1. i + 1 \in 1 .. c /\ (i + 1) - 1 = i /\ i <= c
    BY <1>1
  <2>2. g[i + 1] = g[(i + 1) - 1] * B + l[i + 1] /\ f[(i + 1) * n] = f[((i + 1) - 1) * n] * B + l[i + 1]
    BY <1>4, <1>7, <2>1
  <2> QED BY <1>11, <2>1, <2>2
<1> HIDE DEF S
<1>12. c \in S
  BY <1>1, <1>10, <1>11, InductionOnNat
<1>13. g[c] = f[n * c]
  <2>1. c * n = n * c
    BY <1>1
  <2> QED BY <1>1, <1>12, <2>1 DEF S
<1> QED BY <1>5, <1>9, <1>13 DEF KeyValue, l, B, b

LEMMA RemainderDef ==
  ASSUME NEW l \in LimbValues
  PROVE  /\ Encoder!Remainder(l)[0] = 0
         /\ \A i \in 1 .. EncoderLimbs : Encoder!Remainder(l)[i]
              = (Encoder!Remainder(l)[i-1] * Encoder!LimbBase + l[i]) % Encoder!Radix
         /\ \A i \in 0 .. EncoderLimbs : Encoder!Remainder(l)[i] \in 0 .. Encoder!Radix - 1
<1> DEFINE R == Encoder!Radix
           B == Encoder!LimbBase
           c == EncoderLimbs
           T == 0 .. R - 1
           Turn(a, i) == (a * B + l[i]) % R
           Is(f) == f = [i \in 0 .. c |-> IF i = 0 THEN 0 ELSE Turn(f[i-1], i)]
           next == [it \in Nat \X T |-> IF it[1] \in 1 .. c THEN Turn(it[2], it[1]) ELSE 0]
<1>1. R \in Nat \ {0} /\ B \in Nat \ {0} /\ c \in Nat /\ \A i \in 1 .. c : l[i] \in Nat
  BY EncoderSizes, EncoderBases, LimbsTyped
<1>2. Encoder!Remainder(l) = CHOOSE g : Is(g)
  BY DEF Encoder!Remainder, Is
<1> HIDE DEF R, B, c
<1>3. ASSUME NEW i \in 1 .. c, NEW a \in T PROVE Turn(a, i) \in T
  <2> DEFINE x == a * B + l[i]
  <2>1. x \in Nat
    <3>1. a \in Nat /\ l[i] \in Nat
      BY <1>1
    <3> QED BY <1>1, <3>1
  <2> HIDE DEF x
  <2>2. x % R \in 0 .. R - 1
    BY <1>1, <2>1, DivMod
  <2> QED BY <2>2 DEF x
<1> HIDE DEF Turn
<1>4. 0 \in T
  BY <1>1
<1> HIDE DEF T
<1>5. next \in [Nat \X T -> T]
  BY <1>3, <1>4
<1>6. \A i \in Nat, a \in T : i \in 1 .. c => next[<<i, a>>] = Turn(a, i)
  OBVIOUS
<1> HIDE DEF next
<1>7. Recursive(T, c, 0, next)
  BY <1>1, <1>4, <1>5, Recursion
<1>8. PICK f \in [0 .. c -> T] : f[0] = 0 /\ \A i \in 1 .. c : f[i] = next[<<i, f[i - 1]>>]
  BY <1>7 DEF Recursive
<1>9. \A i \in 1 .. c : f[i] = Turn(f[i-1], i)
  <2> SUFFICES ASSUME NEW i \in 1 .. c PROVE f[i] = Turn(f[i-1], i)
    OBVIOUS
  <2>1. i \in Nat /\ i - 1 \in 0 .. c
    BY <1>1
  <2>2. f[i - 1] \in T
    BY <2>1
  <2>3. next[<<i, f[i - 1]>>] = Turn(f[i-1], i)
    BY <1>6, <2>1, <2>2
  <2> QED BY <1>8, <2>3
<1>10. \A i \in 0 .. c : f[i] = IF i = 0 THEN 0 ELSE Turn(f[i-1], i)
  BY <1>1, <1>8, <1>9
<1>11. Is(f)
  BY <1>10
<1> HIDE DEF Is
<1>12. Is(CHOOSE g : Is(g))
  BY <1>11
<1> DEFINE m == Encoder!Remainder(l)
           S == {i \in Nat : i \in 0 .. c => m[i] \in T}
<1>13. m = [i \in 0 .. c |-> IF i = 0 THEN 0 ELSE Turn(m[i-1], i)]
  BY <1>2, <1>12 DEF Is
<1> HIDE DEF m
<1>14. m[0] = 0 /\ \A i \in 1 .. c : m[i] = Turn(m[i-1], i)
  BY <1>1, <1>13
<1>15. 0 \in S
  BY <1>4, <1>14
<1>16. ASSUME NEW i \in Nat, i \in S PROVE i + 1 \in S
  <2> SUFFICES ASSUME i + 1 \in 0 .. c PROVE m[i + 1] \in T
    OBVIOUS
  <2>1. i \in 0 .. c /\ i + 1 \in 1 .. c /\ (i + 1) - 1 = i
    BY <1>1
  <2>2. m[i + 1] = Turn(m[(i + 1) - 1], i + 1)
    BY <1>14, <2>1
  <2> QED BY <1>3, <1>16, <2>1, <2>2
<1> HIDE DEF S
<1>17. \A i \in Nat : i \in S
  BY <1>15, <1>16, InductionOnNat
<1>18. \A i \in 0 .. c : m[i] \in T
  BY <1>17 DEF S
<1> QED BY <1>14, <1>18 DEF m, Turn, T, R, B, c

\* One pass divides the number by Radix and loses nothing: quotients fit their limbs.
LEMMA PassDivides ==
  ASSUME NEW l \in LimbValues
  PROVE  /\ Encoder!Quotient(l) \in LimbValues
         /\ Encoder!Remainder(l)[EncoderLimbs] = Sol!Number(l, Encoder!LimbBase) % Encoder!Radix
         /\ Sol!Number(Encoder!Quotient(l), Encoder!LimbBase)
              = Sol!Number(l, Encoder!LimbBase) \div Encoder!Radix
<1> DEFINE R == Encoder!Radix
           B == Encoder!LimbBase
           c == EncoderLimbs
           r == Encoder!Remainder(l)
           q == Encoder!Quotient(l)
           f == Sol!Numbers(l, B)
           g == Sol!Numbers(q, B)
           S == {i \in Nat : i <= c => f[i] = g[i] * R + r[i]}
<1>1. /\ R \in Nat \ {0} /\ B \in Nat \ {0} /\ c \in Nat
      /\ l \in Seq(Nat) /\ Len(l) = c /\ \A i \in 1 .. c : l[i] \in 0 .. B - 1
  BY EncoderSizes, EncoderBases, LimbsTyped
<1>2. /\ r[0] = 0 /\ \A i \in 1 .. c : r[i] = (r[i-1] * B + l[i]) % R
      /\ \A i \in 0 .. c : r[i] \in 0 .. R - 1
  BY RemainderDef
<1>3. q = [i \in 1 .. c |-> (r[i-1] * B + l[i]) \div R]
  BY DEF Encoder!Quotient
<1> HIDE DEF R, B, c, r, q
<1>4. ASSUME NEW i \in 1 .. c
      PROVE  q[i] \in 0 .. B - 1 /\ r[i-1] * B + l[i] = q[i] * R + r[i]
  <2> DEFINE a == r[i-1]
             w == l[i]
             x == a * B + w
             y == x \div R
  <2>1. a \in 0 .. R - 1 /\ w \in 0 .. B - 1
    <3>1. i - 1 \in 0 .. c
      BY <1>1
    <3> QED BY <1>1, <1>2, <3>1
  <2>2. q[i] = y /\ r[i] = x % R
    BY <1>2, <1>3
  <2> HIDE DEF a, w
  <2>3. x \in Nat /\ x < R * B
    <3>1. a \in Nat /\ R - 1 \in Nat /\ a <= R - 1 /\ B \in Nat /\ B <= B
      BY <1>1, <2>1
    <3>2. a * B <= (R - 1) * B
      BY <3>1, ProductMonotone
    <3>3. (R - 1) * B = R * B - B /\ a * B \in Nat /\ R * B \in Nat
      BY <1>1, <3>1
    <3> DEFINE s == a * B
               t == R * B
    <3>4. s \in Nat /\ t \in Nat /\ s <= t - B /\ w \in 0 .. B - 1 /\ B \in Nat
      BY <1>1, <2>1, <3>2, <3>3
    <3> HIDE DEF s, t
    <3>5. s + w \in Nat /\ s + w < t
      BY <3>4
    <3> QED BY <3>5 DEF s, t
  <2>4. R * B = B * R
    BY <1>1
  <2> HIDE DEF x
  <2>5. y \in Nat /\ x = y * R + (x % R) /\ x % R \in 0 .. R - 1
    BY <1>1, <2>3, DivMod
  <2> HIDE DEF y
  <2>6. y < B
    <3> SUFFICES ASSUME B <= y PROVE FALSE
      BY <1>1, <2>5
    <3>1. R <= R /\ B \in Nat /\ R \in Nat
      BY <1>1
    <3>2. B * R <= y * R
      BY <2>5, <3>1, ProductMonotone
    <3>3. y * R \in Nat /\ B * R \in Nat
      BY <2>5, <3>1
    <3> QED BY <2>3, <2>4, <2>5, <3>2, <3>3
  <2>7. y \in 0 .. B - 1
    BY <1>1, <2>5, <2>6
  <2>8. x = q[i] * R + r[i]
    BY <2>2, <2>5
  <2> QED BY <2>2, <2>7, <2>8 DEF x, a, w
<1>5. q \in LimbValues
  BY <1>3, <1>4 DEF LimbValues, c, B
<1>6. q \in Seq(Nat) /\ Len(q) = c
  BY <1>5, LimbsTyped DEF c
<1>7. /\ f[0] = 0 /\ \A i \in 1 .. c : f[i] = f[i-1] * B + l[i]
      /\ \A i \in 0 .. c : f[i] \in Nat
      /\ g[0] = 0 /\ \A i \in 1 .. c : g[i] = g[i-1] * B + q[i]
      /\ \A i \in 0 .. c : g[i] \in Nat
  BY <1>1, <1>6, NumbersDef
<1>8. Sol!Number(l, B) = f[c] /\ Sol!Number(q, B) = g[c]
  BY <1>1, <1>6 DEF Sol!Number
<1> HIDE DEF f, g
<1>9. 0 \in S
  <2>1. 0 * R + 0 = 0
    BY <1>1
  <2> QED BY <1>2, <1>7, <2>1
<1>10. ASSUME NEW i \in Nat, i \in S PROVE i + 1 \in S
  <2> SUFFICES ASSUME i + 1 <= c PROVE f[i + 1] = g[i + 1] * R + r[i + 1]
    OBVIOUS
  <2> DEFINE x == g[i]
             a == r[i]
             w == l[i + 1]
             y == q[i + 1]
             h == r[i + 1]
  <2>1. i \in 0 .. c /\ i + 1 \in 1 .. c /\ i + 1 \in 0 .. c /\ (i + 1) - 1 = i
    BY <1>1
  <2>2. f[i] = x * R + a
    BY <1>10, <2>1
  <2>3. f[i + 1] = f[i] * B + w /\ g[i + 1] = x * B + y
    <3>1. f[i + 1] = f[(i + 1) - 1] * B + l[i + 1] /\ g[i + 1] = g[(i + 1) - 1] * B + q[i + 1]
      BY <1>7, <2>1
    <3> QED BY <2>1, <3>1
  <2>4. a * B + w = y * R + h
    <3>1. r[(i + 1) - 1] * B + l[i + 1] = q[i + 1] * R + r[i + 1]
      BY <1>4, <2>1
    <3> QED BY <2>1, <3>1
  <2>5. x \in Nat /\ a \in Nat /\ w \in Nat /\ y \in Nat /\ h \in Nat
    <3>1. a \in Nat /\ h \in Nat
      BY <1>1, <1>2, <2>1
    <3>2. w \in Nat /\ y \in Nat
      BY <1>1, <1>4, <2>1
    <3> QED BY <1>7, <2>1, <3>1, <3>2
  <2> HIDE DEF x, a, w, y, h
  <2>6. (x * R + a) * B + w = (x * B) * R + (a * B + w)
    BY <1>1, <2>5
  <2>7. (x * B) * R + (y * R + h) = (x * B + y) * R + h
    BY <1>1, <2>5
  <2>8. f[i + 1] = (x * B + y) * R + h
    BY <2>2, <2>3, <2>4, <2>6, <2>7
  <2> QED BY <2>3, <2>8 DEF h
<1> HIDE DEF S
<1>11. c \in S
  BY <1>1, <1>9, <1>10, InductionOnNat
<1> DEFINE v == f[c]
           k == g[c]
           e == r[c]
<1>12. v = k * R + e /\ k \in Nat /\ e \in 0 .. R - 1
  <2>1. c \in 0 .. c
    BY <1>1
  <2> QED BY <1>1, <1>2, <1>7, <1>11, <2>1 DEF S
<1> HIDE DEF v, k, e
<1>13. v \div R = k /\ v % R = e
  BY <1>1, <1>12, DivUnique
<1> QED BY <1>5, <1>8, <1>13 DEF v, k, e, R, B, c, r, q

\* Nothing is left exactly where no limb is.
LEMMA LeftZero ==
  ASSUME NEW l \in LimbValues
  PROVE  /\ Sol!Number(l, Encoder!LimbBase) \in Nat
         /\ Sol!Number(l, Encoder!LimbBase) = 0 <=> \A i \in 1 .. EncoderLimbs : l[i] = 0
<1>1. /\ l \in Seq(Nat) /\ Len(l) = EncoderLimbs /\ Encoder!LimbBase \in Nat \ {0}
      /\ Encoder!LimbBase \in Nat /\ EncoderLimbs \in Nat /\ EncoderLimbs \in 0 .. EncoderLimbs
  BY EncoderSizes, EncoderBases, LimbsTyped
<1>2. Sol!Numbers(l, Encoder!LimbBase)[EncoderLimbs] \in Nat
  BY <1>1, NumbersDef
<1>3. Sol!Number(l, Encoder!LimbBase) \in Nat
  BY <1>1, <1>2 DEF Sol!Number
<1> QED BY <1>1, <1>3, NumberZero

\* No key has more groups of digits, nor digits with its zero bytes, than the
\* buffers have places for.
LEMMA KeyBounds ==
  ASSUME NEW k \in Encoder!Keys
  PROVE  /\ \A n \in Nat : Sol!Powers(Encoder!Radix)[n] <= KeyValue(k) => n < Encoder!Groups
         /\ Encoder!Groups \in Nat
         /\ Encoder!LeadingZeros(k) \in Nat
         /\ Encoder!LeadingZeros(k) + Sol!Length(KeyValue(k), EncoderBase)
              < EncoderGroup * Encoder!Groups
<1> DEFINE b == EncoderBase
           c == EncoderByteBase
           n == Encoder!Bytes
           p == Sol!Powers(b)
           q == Sol!Powers(c)
           v == KeyValue(k)
           z == Encoder!LeadingZeros(k)
           l == Sol!Length(v, b)
           top == q[n] - 1
<1>1. /\ b \in Nat \ {0, 1} /\ b \in Nat \ {0} /\ c \in Nat \ {0, 1} /\ c \in Nat \ {0} /\ b <= c /\ n \in Nat \ {0}
      /\ k \in Seq(Nat) /\ Len(k) = n /\ \A i \in 1 .. n : k[i] < c
      /\ v \in Nat
  BY EncoderSizes, EncoderKey
<1>2. z = Zeros(k, n)
  BY DEF Encoder!LeadingZeros, Zeros
<1>3. z \in 0 .. n /\ \A i \in 1 .. z : k[i] = 0
  <2> HIDE DEF z, n
  <2> QED BY <1>1, <1>2, ZerosExact
<1>4. /\ p[0] = 1 /\ \A i \in Nat : p[i] \in Nat \ {0} /\ p[i + 1] = p[i] * b
      /\ q[0] = 1 /\ \A i \in Nat : q[i] \in Nat \ {0} /\ q[i + 1] = q[i] * c
  <2> HIDE DEF b, c
  <2> QED BY <1>1, PowersDef
<1>5. top \in Nat
  <2>1. q[n] \in Nat \ {0}
    BY <1>1, <1>4
  <2> HIDE DEF q, n
  <2> QED BY <2>1
<1>6. v < q[n - z] /\ n - z \in Nat
  <2>1. Sol!Number(k, c) < Sol!Powers(c)[Len(k) - z]
    <3> HIDE DEF z, n, c
    <3> QED BY <1>1, <1>3, NumberBound
  <2> QED BY <1>1, <1>3, <2>1 DEF KeyValue
<1>7. v <= top
  <2>1. q[n - z] <= q[n]
    <3>1. n - z <= n /\ n - z \in Nat /\ n \in Nat
      BY <1>1, <1>3
    <3> HIDE DEF n, z, c
    <3> QED BY <1>1, <3>1, PowersMonotone
  <2>2. q[n - z] \in Nat /\ q[n] \in Nat
    BY <1>1, <1>4, <1>6
  <2> HIDE DEF v, q, n, z
  <2> QED BY <1>1, <1>6, <2>1, <2>2
<1>8. Encoder!Groups = Sol!Length(top, Encoder!Radix)
  BY EncoderNumbers DEF Encoder!Groups
<1>9. Sol!Length(top, b) < EncoderGroup * Encoder!Groups
  BY SizesAssumption, EncoderNumbers DEF Encoder!BufferFits
<1> HIDE DEF b, c, n, v, z, top
<1>10. Encoder!Groups \in Nat
  BY <1>5, <1>8, EncoderBases, LengthExact
<1>11. ASSUME NEW i \in Nat, Sol!Powers(Encoder!Radix)[i] <= v
       PROVE  i < Encoder!Groups
  <2>1. Sol!Powers(Encoder!Radix)[i] \in Nat
    BY EncoderBases, PowersDef
  <2>2. Sol!Powers(Encoder!Radix)[i] <= top
    BY <1>1, <1>5, <1>7, <1>11, <2>1
  <2> QED BY <1>5, <1>8, <2>2, EncoderBases, LengthAbove
<1>12. l \in Nat /\ (v # 0 => l # 0 /\ p[l-1] <= v)
  BY <1>1, LengthExact
<1>13. v = 0 => l = 0
  BY DEF Sol!Length
<1> HIDE DEF l
<1>14. z + l <= Sol!Length(top, b)
  <2>1. z \in Nat /\ n - z \in Nat /\ (n - z) + z = n
    BY <1>1, <1>3
  <2>2. CASE v = 0
    <3>1. z + l <= n
      BY <1>1, <1>3, <1>13, <2>2
    <3>2. n - 1 \in Nat /\ (n - 1) + 1 = n
      BY <1>1
    <3>3. p[n - 1] <= top
      <4> DEFINE x == q[n - 1]
                 w == p[n - 1]
      <4>1. w <= x
        BY <1>1, <3>2, PowersLess
      <4>2. x \in Nat \ {0} /\ w \in Nat /\ q[n] = x * c
        <5>1. q[(n - 1) + 1] = x * c
          BY <1>4, <3>2
        <5> QED BY <1>4, <3>2, <5>1
      <4> HIDE DEF x, w
      <4>3. x * 2 <= x * c
        <5>1. x \in Nat /\ x <= x /\ 2 \in Nat /\ c \in Nat /\ 2 <= c
          BY <1>1, <4>2
        <5> QED BY <5>1, ProductMonotone
      <4>4. top = q[n] - 1
        BY DEF top
      <4>5. x * c \in Nat
        BY <1>1, <4>2
      <4>6. w <= top
        BY <4>1, <4>2, <4>3, <4>4, <4>5
      <4> QED BY <4>6 DEF w
    <3>4. n - 1 < Sol!Length(top, b)
      BY <1>1, <1>5, <3>2, <3>3, LengthAbove
    <3>5. Sol!Length(top, b) \in Nat
      BY <1>1, <1>5, LengthExact
    <3> QED BY <1>1, <1>12, <2>1, <3>1, <3>4, <3>5
  <2>3. CASE v # 0
    <3> DEFINE m == l - 1
               x == p[m]
               y == p[z]
               g == q[n - z]
               h == q[z]
    <3>1. m \in Nat /\ m + 1 = l /\ x <= v
      BY <1>12, <2>3
    <3>2. y <= h
      BY <1>1, <2>1, PowersLess
    <3>3. p[m + z] = x * y
      <4> HIDE DEF m
      <4> QED BY <1>1, <2>1, <3>1, PowersSum
    <3>4. q[n] = g * h
      <4>1. q[(n - z) + z] = g * h
        BY <1>1, <2>1, PowersSum
      <4> QED BY <2>1, <4>1
    <3>5. x \in Nat /\ y \in Nat /\ g \in Nat /\ h \in Nat \ {0} /\ m + z \in Nat
      BY <1>4, <2>1, <3>1
    <3>6. v < g
      BY <1>6
    <3>7. top = g * h - 1
      BY <3>4 DEF top
    <3> HIDE DEF x, y, g, h, m, p
    <3>8. x * y <= v * h
      BY <1>1, <3>1, <3>2, <3>5, ProductMonotone
    <3>9. (v + 1) * h <= g * h /\ (v + 1) * h = v * h + h
      <4>1. v + 1 \in Nat /\ v + 1 <= g /\ h \in Nat /\ h <= h
        BY <1>1, <3>5, <3>6
      <4> QED BY <1>1, <3>5, <4>1, ProductMonotone
    <3>10. x * y <= top
      <4> DEFINE s == x * y
                 t == v * h
                 u == g * h
      <4>1. s \in Nat /\ t \in Nat /\ u \in Nat /\ s <= t /\ t + h <= u /\ h \in Nat \ {0} /\ top = u - 1
        BY <1>1, <3>5, <3>7, <3>8, <3>9
      <4> HIDE DEF s, t, u
      <4>2. s <= top
        BY <4>1
      <4> QED BY <4>2 DEF s
    <3>11. p[m + z] <= top
      BY <3>3, <3>10
    <3>12. m + z < Sol!Length(top, b)
      BY <1>1, <1>5, <3>5, <3>11, LengthAbove DEF p
    <3>13. Sol!Length(top, b) \in Nat
      BY <1>1, <1>5, LengthExact
    <3> QED BY <1>12, <2>1, <3>1, <3>12, <3>13
  <2> QED BY <2>2, <2>3
<1>15. z + l < EncoderGroup * Encoder!Groups
  <2>1. EncoderGroup * Encoder!Groups \in Nat
    BY <1>10, EncoderSizes
  <2>2. Sol!Length(top, b) \in Nat
    BY <1>1, <1>5, LengthExact
  <2>3. z \in Nat
    BY <1>1, <1>3
  <2> QED BY <1>9, <1>12, <1>14, <2>1, <2>2, <2>3
<1>16. z \in Nat
  BY <1>1, <1>3
<1> QED BY <1>10, <1>11, <1>15, <1>16 DEF v, z, l, b

\* After n passes over the limbs of key k: l is what is left, d the digits so far.
\* The digits are the lowest of the key's number, whole groups while anything is
\* left, then all; what is left is the quotient by their power.
EncoderOk(k, l, d, n) ==
  /\ k \in Encoder!Keys /\ l \in LimbValues
  /\ n \in Nat /\ n <= Encoder!Groups
  /\ Len(d) \in Nat /\ d = Sol!LowDigits(KeyValue(k), EncoderBase, Len(d))
  /\ Sol!Number(l, Encoder!LimbBase) = KeyValue(k) \div Sol!Powers(EncoderBase)[Len(d)]
  /\ Sol!Number(l, Encoder!LimbBase) # 0 => Len(d) = EncoderGroup * n
  /\ Sol!Number(l, Encoder!LimbBase) = 0 => Len(d) = Sol!Length(KeyValue(k), EncoderBase)

EncoderInv ==
  /\ EncoderOk(input, limbs, reversed, passes)
  /\ pc = "done" => \A i \in 1 .. EncoderLimbs : limbs[i] = 0

LEMMA FirstPass ==
  ASSUME NEW k \in Encoder!Keys
  PROVE  EncoderOk(k, Encoder!ToLimbs(k), <<>>, 0)
<1> DEFINE v == KeyValue(k)
           l == Encoder!ToLimbs(k)
           b == EncoderBase
<1>1. v \in Nat /\ b \in Nat \ {0, 1} /\ b \in Nat \ {0}
  BY EncoderKey, EncoderSizes
<1>2. l \in LimbValues /\ Sol!Number(l, Encoder!LimbBase) = v
  BY ToLimbsExact
<1>3. Len(<<>>) = 0 /\ <<>> = Sol!LowDigits(v, b, 0)
  <2>1. Sol!LowDigits(v, b, 0) \in Seq(Nat) /\ Len(Sol!LowDigits(v, b, 0)) = 0
    <3> HIDE DEF v, b
    <3> QED BY <1>1, LowDigitsTyped
  <2> DEFINE e == Sol!LowDigits(v, b, 0)
  <2> HIDE DEF e
  <2>2. e = <<>>
    BY <2>1, EmptySeq DEF e
  <2> QED BY <2>2 DEF e
<1>4. v \div Sol!Powers(b)[0] = v
  <2>1. Sol!Powers(b)[0] = 1
    BY <1>1, PowersDef
  <2> HIDE DEF v
  <2>2. (v * 1 + 0) \div 1 = v
    BY <1>1, DivUnique
  <2> QED BY <1>1, <2>1, <2>2
<1>5. EncoderGroup * 0 = 0
  BY EncoderSizes
<1>6. v = 0 => Sol!Length(v, b) = 0
  BY DEF Sol!Length
<1>7. 0 <= Encoder!Groups
  BY KeyBounds
<1> HIDE DEF v, l, b
<1> QED BY <1>2, <1>3, <1>4, <1>5, <1>6, <1>7 DEF EncoderOk, v, l, b

\* The digits of a pass are those of what was left before it.
LEMMA PassDigits ==
  ASSUME NEW l \in LimbValues, Sol!Number(l, Encoder!LimbBase) # 0
  PROVE  LET x == Sol!Number(l, Encoder!LimbBase)
             r == Encoder!Remainder(l)[EncoderLimbs]
             e == Encoder!Emitted(Encoder!Quotient(l), r)
             m == IF x \div Encoder!Radix = 0 THEN Sol!Length(x, EncoderBase) ELSE EncoderGroup
         IN  /\ r \in Nat /\ m \in Nat /\ e = Sol!LowDigits(r, EncoderBase, m)
             /\ SameDigits(r, x, EncoderBase, m)
<1> DEFINE b == EncoderBase
           g == EncoderGroup
           R == Encoder!Radix
           p == Sol!Powers(b)
           x == Sol!Number(l, Encoder!LimbBase)
           q == Encoder!Quotient(l)
           r == Encoder!Remainder(l)[EncoderLimbs]
           e == Encoder!Emitted(q, r)
           m == IF x \div R = 0 THEN Sol!Length(x, b) ELSE g
<1>1. /\ b \in Nat \ {0, 1} /\ b \in Nat \ {0} /\ g \in Nat /\ R \in Nat \ {0} /\ R = p[g] /\ x \in Nat
  BY EncoderSizes, EncoderBases, LeftZero
<1>2. r = x % R /\ q \in LimbValues /\ Sol!Number(q, Encoder!LimbBase) = x \div R
  BY PassDivides
<1>3. (\A i \in 1 .. EncoderLimbs : q[i] = 0) <=> x \div R = 0
  <2> HIDE DEF q, x, R
  <2> QED BY <1>2, LeftZero
<1>4. /\ Encoder!Emitted(q, r)
           = Sol!LowDigits(r, b, IF x \div R = 0 THEN Sol!Length(r, b) ELSE g)
  <2> HIDE DEF q, r, x, R
  <2> QED BY <1>3, EncoderNumbers DEF Encoder!Emitted
<1>5. x \div R = 0 => r = x
  <2> HIDE DEF x, R, r
  <2> SUFFICES ASSUME x \div R = 0 PROVE r = x
    OBVIOUS
  <2>1. x < R
    BY <1>1, DivZero
  <2>2. x \in 0 .. R - 1
    BY <1>1, <2>1
  <2>3. 0 * R + x = x
    BY <1>1
  <2>4. (0 * R + x) % R = x
    <3>1. R \in Nat \ {0} /\ 0 \in Nat /\ x \in 0 .. R - 1
      BY <1>1, <2>2
    <3> QED BY <3>1, DivUnique, Zenon
  <2> QED BY <1>2, <2>3, <2>4
<1>6. m \in Nat /\ (x \div R # 0 => m = g)
  <2> HIDE DEF x, b
  <2>1. Sol!Length(x, b) \in Nat
    BY <1>1, LengthExact
  <2> QED BY <1>1, <2>1
<1>7. e = Sol!LowDigits(r, b, m)
  <2> HIDE DEF r, x, R, e, b
  <2> QED BY <1>4, <1>5 DEF e
<1>8. r \in Nat
  <2>1. x \in Nat /\ R \in Nat \ {0} /\ r = x % R
    BY <1>1, <1>2
  <2> HIDE DEF x, R, r
  <2>2. x % R \in 0 .. R - 1
    BY <2>1, DivMod, Zenon
  <2> QED BY <2>1, <2>2
<1>9. ASSUME NEW i \in 1 .. m PROVE (r \div p[i-1]) % b = (x \div p[i-1]) % b
  <2>1. CASE x \div R = 0
    BY <1>5, <2>1
  <2>2. CASE x \div R # 0
    <3> DEFINE c == p[i-1]
               h == p[g-i]
    <3>1. i \in Nat /\ i - 1 \in Nat /\ g - i \in Nat /\ (i - 1) + 1 = i /\ i + (g - i) = g
      BY <1>1, <1>6, <2>2
    <3>2. \A j \in Nat : p[j] \in Nat \ {0} /\ p[j + 1] = p[j] * b
      BY <1>1, PowersDef
    <3>3. c \in Nat \ {0} /\ h \in Nat \ {0} /\ p[i] = c * b
      <4>1. p[(i - 1) + 1] = p[i - 1] * b
        BY <3>1, <3>2
      <4> QED BY <3>1, <3>2, <4>1
    <3>4. p[i + (g - i)] = p[i] * h
      BY <1>1, <3>1, PowersSum
    <3>5. R = c * b * h
      BY <1>1, <3>1, <3>3, <3>4
    <3> HIDE DEF c, h, x, R, r, b
    <3>6. ((x % (c * b * h)) \div c) % b = (x \div c) % b
      <4>1. c \in Nat \ {0} /\ b \in Nat \ {0} /\ h \in Nat \ {0} /\ x \in Nat
        BY <1>1, <3>3
      <4> QED BY <4>1, DigitOfRemainder, Zenon
    <3>7. (r \div c) % b = (x \div c) % b
      BY <1>2, <3>5, <3>6
    <3> QED BY <3>7 DEF c
  <2> QED BY <2>1, <2>2
<1>10. SameDigits(r, x, b, m)
  <2> HIDE DEF m, r, x, b
  <2> QED BY <1>9 DEF SameDigits
<1> HIDE DEF p, m, e, r, b
<1> QED BY <1>6, <1>7, <1>8, <1>10 DEF p, m, e, r, b

LEMMA NextPass ==
  ASSUME NEW k, NEW l, NEW d, NEW n, EncoderOk(k, l, d, n), Sol!Number(l, Encoder!LimbBase) # 0
  PROVE  EncoderOk(k, Encoder!Quotient(l),
                   d \o Encoder!Emitted(Encoder!Quotient(l), Encoder!Remainder(l)[EncoderLimbs]), n + 1)
<1> DEFINE b == EncoderBase
           g == EncoderGroup
           R == Encoder!Radix
           p == Sol!Powers(b)
           v == KeyValue(k)
           x == Sol!Number(l, Encoder!LimbBase)
           q == Encoder!Quotient(l)
           y == Sol!Number(q, Encoder!LimbBase)
           r == Encoder!Remainder(l)[EncoderLimbs]
           e == Encoder!Emitted(q, r)
           h == Len(d)
           m == IF x \div R = 0 THEN Sol!Length(x, b) ELSE g
<1>1. /\ k \in Encoder!Keys /\ l \in LimbValues /\ n \in Nat /\ h \in Nat
      /\ d = Sol!LowDigits(v, b, h) /\ x = v \div p[h] /\ h = g * n /\ x # 0
  BY DEF EncoderOk
<1>2. /\ b \in Nat \ {0, 1} /\ b \in Nat \ {0} /\ g \in Nat /\ R = p[g] /\ v \in Nat /\ x \in Nat
      /\ \A i \in Nat : p[i] \in Nat \ {0}
  BY <1>1, EncoderSizes, EncoderBases, EncoderKey, LeftZero, PowersDef
<1>3. q \in LimbValues /\ y = x \div R
  BY <1>1, PassDivides
<1>4. /\ r \in Nat /\ m \in Nat /\ e = Sol!LowDigits(r, b, m)
      /\ SameDigits(r, x, b, m)
  BY <1>1, PassDigits
<1>5. n < Encoder!Groups
  <2>1. p[h] <= v
    <3> DEFINE c == p[h]
    <3>1. c \in Nat \ {0} /\ v \div c # 0
      BY <1>1, <1>2
    <3> HIDE DEF c, v
    <3>2. ~(v < c)
      BY <1>2, <3>1, DivZero
    <3>3. c <= v
      BY <1>2, <3>1, <3>2
    <3> QED BY <3>3 DEF c
  <2>2. Sol!Powers(p[g])[n] = p[g * n]
    <3> HIDE DEF b
    <3> QED BY <1>1, <1>2, PowersOfPower
  <2>3. Sol!Powers(R)[n] <= v
    BY <1>1, <1>2, <2>1, <2>2
  <2> QED BY <1>1, <2>3, KeyBounds
<1> HIDE DEF v, x, q, y, r, e, h, m, R, b, g
<1>6. d \o e = Sol!LowDigits(v, b, h + m)
  <2>1. /\ b \in Nat \ {0} /\ v \in Nat /\ h \in Nat /\ m \in Nat /\ r \in Nat
        /\ x = v \div Sol!Powers(b)[h] /\ SameDigits(r, x, b, m)
    BY <1>1, <1>2, <1>4
  <2>2. Appends(v, r, b, h, m)
    BY <2>1, LowDigitsAppend
  <2> QED BY <1>1, <1>4, <2>2 DEF Appends
<1>7. Len(d \o e) = h + m /\ h + m \in Nat
  <2>1. h + m \in Nat
    BY <1>1, <1>4
  <2> QED BY <1>2, <1>6, <2>1, LowDigitsTyped
<1>8. ASSUME NEW i \in Nat PROVE x \div p[i] = v \div p[h + i]
  <2> DEFINE a == p[h]
             c == p[i]
  <2>1. a \in Nat \ {0} /\ c \in Nat \ {0} /\ x = v \div a
    BY <1>1, <1>2
  <2>2. p[h + i] = a * c
    BY <1>1, <1>2, PowersSum
  <2> HIDE DEF a, c
  <2>3. (v \div a) \div c = v \div (a * c)
    <3>1. v \in Nat /\ a \in Nat \ {0} /\ c \in Nat \ {0}
      BY <1>2, <2>1
    <3> QED BY <3>1, DivDiv, Zenon
  <2> QED BY <2>1, <2>2, <2>3 DEF c
<1>9. CASE y # 0
  <2>1. m = g
    BY <1>3, <1>9 DEF m
  <2>2. y = v \div p[h + m]
    BY <1>2, <1>3, <1>8, <2>1
  <2>3. h + m = g * (n + 1)
    <3>1. g * (n + 1) = g * n + g
      BY <1>1, <1>2
    <3> QED BY <1>1, <2>1, <3>1
  <2>4. n + 1 \in Nat /\ n + 1 <= Encoder!Groups
    BY <1>1, <1>5, KeyBounds
  <2> DEFINE t == d \o e
             w == h + m
  <2>5. t = Sol!LowDigits(v, b, w) /\ Len(t) = w /\ w \in Nat /\ y = v \div p[w] /\ w = g * (n + 1)
    BY <1>6, <1>7, <2>2, <2>3
  <2> HIDE DEF t, w
  <2>6. EncoderOk(k, q, t, n + 1)
    BY <1>1, <1>3, <1>9, <2>4, <2>5 DEF EncoderOk, v, y, b, g
  <2> QED BY <2>6 DEF t, e, q, r
<1>10. CASE y = 0
  <2>1. m = Sol!Length(x, b)
    BY <1>3, <1>10 DEF m
  <2>2. /\ x < p[m] /\ m # 0 /\ p[m-1] <= x
    BY <1>1, <1>2, <2>1, LengthExact
  <2>3. v \div p[h + m] = 0
    <3>1. x \div p[m] = 0
      <4> DEFINE c == p[m]
      <4>1. c \in Nat \ {0} /\ x < c
        BY <1>2, <1>4, <2>2
      <4> HIDE DEF c
      <4>2. x \div c = 0
        BY <1>2, <4>1, DivZero
      <4> QED BY <4>2 DEF c
    <3> QED BY <1>4, <1>8, <3>1
  <2>4. Sol!Length(v, b) = h + m
    <3> DEFINE j == m - 1
    <3>1. j \in Nat /\ j + 1 = m /\ h + j \in Nat /\ (h + j) + 1 = h + m
      BY <1>1, <1>4, <2>2
    <3>2. p[h + j] <= v
      <4> DEFINE c == p[h + j]
      <4>1. c \in Nat \ {0} /\ v \div c = x \div p[j]
        BY <1>2, <1>8, <3>1
      <4>2. x \div p[j] # 0
        <5> DEFINE a == p[j]
        <5>1. a \in Nat \ {0} /\ a <= x
          BY <1>2, <2>2, <3>1
        <5> HIDE DEF a, j
        <5>2. ~(x < a)
          BY <1>2, <5>1
        <5>3. x \div a # 0
          BY <1>2, <5>1, <5>2, DivZero
        <5> QED BY <5>3 DEF a
      <4> HIDE DEF c, j
      <4>3. ~(v < c)
        BY <1>2, <4>1, <4>2, DivZero
      <4>4. c <= v
        BY <1>2, <4>1, <4>3
      <4> QED BY <4>4 DEF c
    <3>3. v < p[(h + j) + 1]
      <4> DEFINE c == p[h + m]
      <4>1. c \in Nat \ {0} /\ v \div c = 0
        BY <1>2, <1>7, <2>3
      <4> HIDE DEF c, j
      <4>2. v < c
        BY <1>2, <4>1, DivZero
      <4> QED BY <3>1, <4>2 DEF c
    <3> HIDE DEF j
    <3>4. Sol!Length(v, b) = (h + j) + 1
      BY <1>2, <3>1, <3>2, <3>3, LengthUnique DEF p
    <3> QED BY <3>1, <3>4
  <2>5. n + 1 \in Nat /\ n + 1 <= Encoder!Groups
    BY <1>1, <1>5, KeyBounds
  <2> DEFINE t == d \o e
             w == h + m
  <2>6. t = Sol!LowDigits(v, b, w) /\ Len(t) = w /\ w \in Nat /\ y = v \div p[w] /\ w = Sol!Length(v, b)
    BY <1>6, <1>7, <1>10, <2>3, <2>4
  <2> HIDE DEF t, w
  <2>7. EncoderOk(k, q, t, n + 1)
    BY <1>1, <1>3, <1>10, <2>5, <2>6 DEF EncoderOk, v, y, b, g
  <2> QED BY <2>7 DEF t, e, q, r
<1> QED BY <1>9, <1>10

\* The invariant of a step is that of the values it leaves behind.
LEMMA SameEncoder ==
  EncoderInv' <=> /\ EncoderOk(input', limbs', reversed', passes')
                  /\ pc' = "done" => \A i \in 1 .. EncoderLimbs : limbs'[i] = 0
BY DEF EncoderInv, EncoderOk, LimbValues, KeyValue, Encoder!Keys, Encoder!Bytes, Encoder!Groups,
       Encoder!Radix, Encoder!LimbBase, Encoder!Length, Encoder!Powers, Sol!LowDigits, Sol!Length,
       Sol!Number, Sol!Numbers, Sol!Powers

LEMMA InitEncoderInv ==
  ASSUME Encoder!Init
  PROVE  EncoderInv
BY FirstPass DEF Encoder!Init, EncoderInv

LEMMA EncoderInvStep ==
  ASSUME EncoderInv, [Encoder!Next]_(Encoder!vars)
  PROVE  EncoderInv'
<1>1. limbs \in LimbValues
  BY DEF EncoderInv, EncoderOk
<1>2. CASE Encoder!Pass
  <2>1. \E i \in 1 .. EncoderLimbs : limbs[i] # 0
    BY <1>2 DEF Encoder!Pass
  <2>2. Sol!Number(limbs, Encoder!LimbBase) # 0
    BY <1>1, <2>1, LeftZero
  <2>3. /\ limbs' = Encoder!Quotient(limbs)
        /\ reversed' = reversed \o Encoder!Emitted(limbs', Encoder!Remainder(limbs)[EncoderLimbs])
        /\ passes' = passes + 1 /\ input' = input /\ pc' = "loop"
    BY <1>2 DEF Encoder!Pass
  <2>4. EncoderOk(input, limbs, reversed, passes)
    BY DEF EncoderInv
  <2>5. EncoderOk(input, Encoder!Quotient(limbs),
                  reversed \o Encoder!Emitted(Encoder!Quotient(limbs), Encoder!Remainder(limbs)[EncoderLimbs]),
                  passes + 1)
    BY <2>2, <2>4, NextPass
  <2> QED BY <2>3, <2>5, SameEncoder
<1>3. CASE Encoder!Leave
  BY <1>3, SameEncoder DEF Encoder!Leave, EncoderInv
<1>4. CASE UNCHANGED Encoder!vars
  BY <1>4, SameEncoder DEF Encoder!vars, EncoderInv
<1> QED BY <1>2, <1>3, <1>4 DEF Encoder!Next, Encoder!Finished

LEMMA EncoderInvExact ==
  ASSUME EncoderInv
  PROVE  Encoder!PassesExact /\ Encoder!EncodesRight
<1> DEFINE b == EncoderBase
           p == Sol!Powers(b)
           v == KeyValue(input)
           x == Sol!Number(limbs, Encoder!LimbBase)
           h == Len(reversed)
           l == Sol!Length(v, b)
           z == Encoder!LeadingZeros(input)
<1>1. /\ input \in Encoder!Keys /\ limbs \in LimbValues /\ passes <= Encoder!Groups
      /\ h \in Nat /\ reversed = Sol!LowDigits(v, b, h) /\ x = v \div p[h] /\ (x = 0 => h = l)
      /\ pc = "done" => \A i \in 1 .. EncoderLimbs : limbs[i] = 0
  BY DEF EncoderInv, EncoderOk
<1>2. /\ b \in Nat \ {0, 1} /\ b \in Nat \ {0} /\ v \in Nat /\ x \in Nat /\ p[h] \in Nat \ {0}
      /\ (x = 0 <=> \A i \in 1 .. EncoderLimbs : limbs[i] = 0)
  BY <1>1, EncoderSizes, EncoderKey, LeftZero, PowersDef
<1>3. z \in Nat /\ z + l < EncoderGroup * Encoder!Groups
  BY <1>1, KeyBounds
<1>4. Sol!Number(Sol!Reverse(reversed), b) = v % p[h]
  <2>1. Sol!Number(Sol!Reverse(Sol!LowDigits(v, b, h)), b) = v % p[h]
    <3> HIDE DEF v, h, b
    <3> QED BY <1>1, <1>2, LowDigitsNumber
  <2> QED BY <1>1, <2>1
<1>5. h <= l /\ l \in Nat
  <2>1. l \in Nat
    BY <1>2, LengthExact
  <2>2. CASE x = 0
    BY <1>1, <2>1, <2>2
  <2>3. CASE x # 0
    <3> DEFINE c == p[h]
    <3>1. c \in Nat \ {0} /\ v \div c # 0
      BY <1>1, <1>2, <2>3
    <3>2. ~(v < c)
      <4> HIDE DEF c, v
      <4> QED BY <1>2, <3>1, DivZero
    <3>3. c <= v
      BY <1>2, <3>1, <3>2
    <3>4. h < l
      BY <1>1, <1>2, <3>3, LengthAbove
    <3> QED BY <1>1, <2>1, <3>4
  <2> QED BY <2>2, <2>3
<1>6. Encoder!PassesExact
  <2>1. \A i \in 1 .. EncoderLimbs : limbs[i] \in 0 .. Encoder!LimbBase - 1
    BY <1>1 DEF LimbValues
  <2>2. x * p[h] + Sol!Number(Sol!Reverse(reversed), b) = v
    <3> DEFINE c == p[h]
    <3>1. c \in Nat \ {0} /\ x = v \div c /\ Sol!Number(Sol!Reverse(reversed), b) = v % c
      BY <1>1, <1>2, <1>4
    <3> HIDE DEF c, v, x
    <3>2. v = (v \div c) * c + (v % c)
      BY <1>2, <3>1, DivMod
    <3>3. x * c + Sol!Number(Sol!Reverse(reversed), b) = v
      BY <3>1, <3>2
    <3> QED BY <3>3 DEF c
  <2>3. z + h < EncoderGroup * Encoder!Groups
    <3> DEFINE m == EncoderGroup * Encoder!Groups
    <3>1. m \in Nat
      BY <1>1, EncoderSizes, KeyBounds
    <3> HIDE DEF m, z, h, l
    <3>2. z + h < m
      BY <1>1, <1>3, <1>5, <3>1 DEF m
    <3> QED BY <3>2 DEF m
  <2>4. /\ Encoder!Number(limbs, Encoder!LimbBase) = x
        /\ Encoder!Powers(EncoderBase)[Len(reversed)] = p[h]
        /\ Encoder!Number(Encoder!Reverse(reversed), EncoderBase) = Sol!Number(Sol!Reverse(reversed), b)
        /\ Encoder!Number(input, EncoderByteBase) = v
    BY EncoderNumbers DEF KeyValue
  <2> HIDE DEF x, p, h, b, v, z
  <2>5. Encoder!Number(limbs, Encoder!LimbBase) * Encoder!Powers(EncoderBase)[Len(reversed)]
          + Encoder!Number(Encoder!Reverse(reversed), EncoderBase) = Encoder!Number(input, EncoderByteBase)
    BY <2>2, <2>4
  <2>6. Encoder!LeadingZeros(input) + Len(reversed) < EncoderGroup * Encoder!Groups
    BY <2>3 DEF z, h
  <2> QED BY <1>1, <2>1, <2>5, <2>6 DEF Encoder!PassesExact
<1>7. Encoder!EncodesRight
  <2> SUFFICES ASSUME pc = "done" PROVE Encoder!Encoded = Encoder!Reference(input)
    BY DEF Encoder!EncodesRight
  <2>1. h = l
    BY <1>1, <1>2
  <2>2. reversed = Encoder!LowDigits(v, b, Encoder!Length(v, b)) /\ v = Encoder!Number(input, EncoderByteBase)
    BY <1>1, <2>1, EncoderNumbers DEF KeyValue
  <2> HIDE DEF v
  <2> QED BY <2>2 DEF Encoder!Encoded, Encoder!Reference
<1> QED BY <1>6, <1>7

-----------------------------------------------------------------------------
(* All, side by side. *)

AddrInv ==
  /\ part = "random" => StreamInv
  /\ part = "hash" => HashInv
  /\ part = "base58" => EncoderInv
  /\ part = "solana" => SolInv
  /\ part = "ethereum" => EthInv

allVars ==
  <<part, pc, RandomVars, HashVars, KeccakVars, EncoderVars, Patterns, SolVars, EthVars>>

LEMMA InitAddrInv ==
  ASSUME Init
  PROVE  AddrInv
<1>1. ASSUME Eth!Init PROVE EthInv
  BY <1>1 DEF Eth!Init, EthInv
<1> QED BY <1>1, InitStreamInv, InitHashInv, InitEncoderInv, InitSolInv DEF Init, AddrInv

LEMMA AddrInvStep ==
  ASSUME AddrInv, [Next]_allVars
  PROVE  AddrInv'
<1>1. CASE UNCHANGED allVars
  <2>1. /\ UNCHANGED part /\ UNCHANGED Random!vars /\ UNCHANGED Hash!vars
        /\ UNCHANGED Encoder!vars /\ UNCHANGED Sol!vars /\ UNCHANGED Eth!vars
    BY <1>1 DEF allVars, RandomVars, HashVars, EncoderVars, Patterns, SolVars, EthVars,
                Random!vars, Hash!vars, Encoder!vars, Sol!vars, Eth!vars
  <2> QED BY <2>1, StreamInvStep, HashInvStep, EncoderInvStep, SolInvStep, EthInvStep DEF AddrInv
<1>2. CASE Next
  <2>1. part' = part
    BY <1>2 DEF Next
  <2>2. CASE part = "random"
    <3>1. Random!Next
      BY <1>2, <2>2 DEF Next
    <3> QED BY <2>1, <2>2, <3>1, StreamInvStep DEF AddrInv
  <2>3. CASE part = "hash"
    <3>1. Hash!Next
      BY <1>2, <2>3 DEF Next
    <3> QED BY <2>1, <2>3, <3>1, HashInvStep DEF AddrInv
  <2>4. CASE part = "ethereum"
    <3>1. Eth!Next
      BY <1>2, <2>4 DEF Next
    <3> QED BY <2>1, <2>4, <3>1, EthInvStep DEF AddrInv
  <2>5. CASE part = "solana"
    <3>1. Sol!Next
      BY <1>2, <2>5 DEF Next
    <3> QED BY <2>1, <2>5, <3>1, SolInvStep DEF AddrInv
  <2>6. CASE part = "base58"
    <3>1. Encoder!Next
      BY <1>2, <2>6 DEF Next
    <3> QED BY <2>1, <2>6, <3>1, EncoderInvStep DEF AddrInv
  <2>7. CASE part \notin {"random", "hash", "base58", "solana", "ethereum"}
    BY <2>1, <2>7 DEF AddrInv
  <2> QED BY <2>2, <2>3, <2>4, <2>5, <2>6, <2>7
<1> QED BY <1>1, <1>2

\* Each stream has drawn what its counters say, each hash has in its blocks and its
\* buffer what it has taken in, and the encoder in its limbs and digits its key.
THEOREM AddressInvariance == Spec => []AddrInv
<1>1. Init => AddrInv
  BY InitAddrInv
<1>2. AddrInv /\ [Next]_allVars => AddrInv'
  BY AddrInvStep
<1> QED BY <1>1, <1>2, PTL DEF Spec, allVars

\* No words of a random stream are drawn twice, by any threads and in any rounds
\* (curand_init and the counters of the kernels), and the hash functions of the
\* kernels compress exactly the padded message, for every length and every cut
\* into pieces.
THEOREM StreamsAreExact == Spec => []StreamsExact
<1>1. AddrInv => StreamsExact
  BY DEF AddrInv, StreamsExact, StreamInv, HashInv
<1> QED BY <1>1, AddressInvariance, PTL

\* EthMatcher's masked bytes on the CPU and the kernel's hexadecimal digits accept
\* the same Ethereum addresses, those whose text starts with the prefix and ends
\* with the suffix: for every base of the digits and length of the addresses, all
\* patterns and all addresses, also where prefix and suffix overlap.
THEOREM MatchersAgree == Spec => [](part = "ethereum" => Eth!CpuExact /\ Eth!GpuExact)
<1>1. ASSUME EthInv, pc = "done", NEW a \in Eth!Addresses
      PROVE  /\ Eth!CpuMatches(a) <=> Eth!Wanted(a)
             /\ Eth!GpuMatches(a, prefix, suffix) <=> Eth!Wanted(a)
  BY <1>1, SizesAssumption, WantedReads, GpuReads, CpuReads DEF EthInv
<1>2. AddrInv => (part = "ethereum" => Eth!CpuExact /\ Eth!GpuExact)
  BY <1>1 DEF AddrInv, Eth!CpuExact, Eth!GpuExact
<1> QED BY <1>2, AddressInvariance, PTL

\* CPU and kernel accept exactly the Ethereum addresses asked for, and
\* expected_attempts is the number of all addresses over the number of those, or
\* infinite if there is none: prefix and suffix may overlap, agreeing or not.
THEOREM EthereumIsExact == Spec => []EthereumExact
<1>1. ASSUME EthInv PROVE Eth!ExpectedExact
  <2>1. CASE pc = "new"
    BY <2>1 DEF Eth!ExpectedExact
  <2>2. CASE pc # "new"
    BY <1>1, <2>2, SizesAssumption, ExpectedIsExact DEF EthInv
  <2> QED BY <2>1, <2>2
<1>2. AddrInv /\ (part = "ethereum" => Eth!CpuExact /\ Eth!GpuExact) => EthereumExact
  BY <1>1 DEF AddrInv, EthereumExact
<1> QED BY <1>2, AddressInvariance, MatchersAgree, PTL

\* simple_base58_encode_32 writes the Base58 of every key: a pass divides what is
\* left by the power of a group, its quotients fit their limbs, and the digits and
\* the zero bytes fit the buffers.  SolMatcher::matches_counted on the CPU accepts
\* exactly the candidates whose address starts and ends as asked, so that the residue
\* test before the encoding rejects none of them; the kernel decides every candidate
\* alike and encodes the same ones; and no letter of an accepted pattern is one that no
\* address has: for every alphabet, key size, size of a limb or group and number of
\* digits of the residue.
THEOREM SolanaIsExact == Spec => []SolanaExact
<1>1. AddrInv => SolanaExact
  BY EncoderInvExact, SolInvExact DEF AddrInv, SolanaExact
<1> QED BY <1>1, AddressInvariance, PTL
=============================================================================
