---------------------------- MODULE DoubleScalar ----------------------------
(***************************************************************************)
(* slide and ge_double_scalarmult_vartime (src/kernels/ed25519/ge.cu): the *)
(* sum of two multiples, of a point and of the base point, by odd signed   *)
(* digits that a window gathers.                                           *)
(***************************************************************************)
EXTENDS EdwardsCurve

CONSTANTS
  ScalarBits,  \* bits a scalar is slid over (256)
  Spare,       \* bits at its top that are zero (3)
  Points       \* bound: the points, as multiples of the base point

SlideFits == ScalarBits \in Nat \ {0} /\ Spare \in 0 .. ScalarBits

VARIABLES
  a, b,      \* the scalars
  A,         \* the point
  as, bs,    \* their digits
  ai,        \* the odd multiples of the point
  i,         \* the next digit
  r,         \* the sum so far
  pc         \* "slide", "skip", "loop" or "done"

vars == <<a, b, A, as, bs, ai, i, r, pc>>

Places == 0 .. ScalarBits - 1

\* One is added at place k: ones are cleared up to the first zero.
Carried(digits, k) ==
  LET free == {n \in k .. ScalarBits - 1 : digits[n] = 0}
      last == IF free = {} THEN ScalarBits ELSE CHOOSE n \in free : \A m \in free : n <= m
  IN [n \in Places |-> IF n = last THEN 1 ELSE IF n \in k .. last THEN 0 ELSE digits[n]]

\* Deviation: what is taken away is not carried up.
Gather_NoCarry(s, at, n) ==
  LET add == s.digits[at + n] * 2 ^ n
      low == s.digits[at]
  IN IF s.stop \/ at + n >= ScalarBits \/ s.digits[at + n] = 0 THEN s
     ELSE IF low + add <= 15 THEN [s EXCEPT !.digits = [@ EXCEPT ![at] = low + add, ![at + n] = 0]]
     ELSE IF low - add >= -15
     THEN [s EXCEPT !.digits = [@ EXCEPT ![at] = low - add, ![at + n] = 0]]
     ELSE [s EXCEPT !.stop = TRUE]

\* The digit at a place takes in the one n places up, unless the window ends.
Gather(s, at, n) ==
  LET add == s.digits[at + n] * 2 ^ n
      low == s.digits[at]
  IN IF s.stop \/ at + n >= ScalarBits \/ s.digits[at + n] = 0 THEN s
     ELSE IF low + add <= 15 THEN [s EXCEPT !.digits = [@ EXCEPT ![at] = low + add, ![at + n] = 0]]
     ELSE IF low - add >= -15
     THEN [s EXCEPT !.digits = Carried([@ EXCEPT ![at] = low - add], at + n)]
     ELSE [s EXCEPT !.stop = TRUE]

Slide(scalar) ==
  FoldLeft(LAMBDA digits, at :
             IF digits[at] = 0 THEN digits
             ELSE FoldLeft(LAMBDA s, n : Gather(s, at, n), [digits |-> digits, stop |-> FALSE],
                           <<1, 2, 3, 4, 5, 6>>).digits,
           [n \in Places |-> (scalar \div 2 ^ n) % 2], [n \in 1 .. ScalarBits |-> n - 1])

\* A, 3A, ... 15A, each the one before and 2A.
OddMultiples(p) ==
  LET twice == ToP3(Doubled(p))
  IN FoldLeft(LAMBDA s, n : Append(s, ToCached(ToP3(Sum(twice, s[Len(s)])))),
              <<ToCached(p)>>, <<1, 2, 3, 4, 5, 6, 7>>)

Init ==
  /\ a \in 0 .. 2 ^ (ScalarBits - Spare) - 1 /\ b \in 0 .. 2 ^ (ScalarBits - Spare) - 1
  /\ A \in {P3(Multiples[k % Order]) : k \in Points}
  /\ as = [n \in Places |-> 0] /\ bs = [n \in Places |-> 0]
  /\ ai = <<>> /\ i = ScalarBits - 1 /\ r = P3Zero /\ pc = "slide"

SlideBoth ==
  /\ pc = "slide" /\ as' = Slide(a) /\ bs' = Slide(b) /\ ai' = OddMultiples(A)
  /\ pc' = "skip" /\ UNCHANGED <<a, b, A, i, r>>

\* The zero digits at the top.
Skip ==
  /\ pc = "skip"
  /\ LET used == {n \in Places : as[n] # 0 \/ bs[n] # 0}
     IN IF used = {} THEN i' = -1 /\ pc' = "done"
        ELSE i' = (CHOOSE n \in used : \A m \in used : m <= n) /\ pc' = "loop"
  /\ UNCHANGED <<a, b, A, as, bs, ai, r>>

\* A digit times its point is added or subtracted, with the mixed formulas for
\* the base point's table.
WithA(t, x) == IF x = 0 THEN t
               ELSE IF x > 0 THEN Sum(ToP3(t), ai[x \div 2 + 1])
               ELSE Difference(ToP3(t), ai[(-x) \div 2 + 1])
WithB(t, x) == IF x = 0 THEN t
               ELSE IF x > 0 THEN MixedSum(ToP3(t), Bi[x \div 2])
               ELSE MixedDifference(ToP3(t), Bi[(-x) \div 2])

AddDigits ==
  /\ pc = "loop" /\ r' = ToP2(WithB(WithA(Doubled(r), as[i]), bs[i]))
  /\ IF i = 0 THEN pc' = "done" ELSE pc' = pc
  /\ i' = i - 1 /\ UNCHANGED <<a, b, A, as, bs, ai>>

Finished == pc = "done" /\ UNCHANGED vars

Next == SlideBoth \/ Skip \/ AddDigits \/ Finished

Spec == Init /\ [][Next]_vars

-----------------------------------------------------------------------------
(* Properties. *)

\* The number digits stand for from a place on.
From(digits, k) ==
  FoldLeft(LAMBDA n, at : n + (IF at >= k THEN digits[at] * 2 ^ (at - k) ELSE 0), 0,
           [n \in 1 .. ScalarBits |-> n - 1])

\* Sliding keeps the number, carries that run far up included, and leaves only
\* zeros and the odd digits the tables have.
SlidesExact ==
  pc # "slide" =>
    /\ From(as, 0) = a /\ From(bs, 0) = b
    /\ \A n \in Places : \A x \in {as[n], bs[n]} : x = 0 \/ (x % 2 = 1 /\ x \in -15 .. 15)

\* The index of the point among the multiples.
IndexOfA == CHOOSE k \in 0 .. Order - 1 : Multiples[k] = Affine(A)

\* Loop invariant: the sum is the one of the digits from the last place on,
\* whichever of the points and their negatives met on the way.
SumExact ==
  pc \in {"loop", "done"} =>
    Affine(r) = Multiples[(From(as, i + 1) * IndexOfA + From(bs, i + 1)) % Order]

\* The result is the sum of the two multiples.
ProductRight == pc = "done" => Affine(r) = Multiples[(a * IndexOfA + b) % Order]
=============================================================================
