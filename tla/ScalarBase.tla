----------------------------- MODULE ScalarBase -----------------------------
(***************************************************************************)
(* ge_scalarmult_base (src/kernels/ed25519/ge.cu): a scalar times the base *)
(* point, by signed digits and a table; the odd digits first, then four    *)
(* doublings, then the even ones.                                          *)
(***************************************************************************)
EXTENDS EdwardsCurve

VARIABLES
  a,      \* the scalar's bytes, lowest first
  e,      \* its signed digits
  i,      \* the next digit, or the doublings so far
  h,      \* the sum so far
  pc      \* "digits", "odd", "double", "even" or "done"

vars == <<a, e, i, h, pc>>

Digits == 2 * Positions
Doublings == CHOOSE n \in 1 .. 4 : 2 ^ n = Radix

\* The digits of the bytes, each carried up to the next one when it is not
\* below half the radix.
Recoded(s) ==
  LET raw(n) == (s[n \div 2] \div (IF n % 2 = 0 THEN 1 ELSE Radix)) % Radix
      with[n \in 0 .. Digits - 1] ==
        IF n = 0 THEN raw(0) ELSE raw(n) + (with[n-1] + Radix \div 2) \div Radix
  IN [n \in 0 .. Digits - 1 |->
        IF n = Digits - 1 THEN with[n]
        ELSE with[n] - Radix * ((with[n] + Radix \div 2) \div Radix)]

\* cmov: t, or u if b is 1.
CMov(t, u, b) == IF b = 1 THEN u ELSE t

\* The table's entry for a digit: every entry is read, and the negative too.
Select(pos, b) ==
  LET size == IF b < 0 THEN -b ELSE b
      t == FoldLeft(LAMBDA u, j : CMov(u, BaseTable[pos][j-1], IF size = j THEN 1 ELSE 0),
                    [S |-> 1, D |-> 1, Z |-> 1, T |-> 0], [j \in 1 .. Radix \div 2 |-> j])
  IN CMov(t, [t EXCEPT !.S = t.D, !.D = t.S, !.T = (-t.T) % P], IF b < 0 THEN 1 ELSE 0)

\* a[31] <= 127
Init ==
  /\ a \in [0 .. Positions - 1 -> 0 .. Radix * Radix - 1]
  /\ a[Positions - 1] < (Radix * Radix) \div 2
  /\ e = [n \in 0 .. Digits - 1 |-> 0] /\ i = 1 /\ h = P3Zero /\ pc = "digits"

SplitDigits == pc = "digits" /\ e' = Recoded(a) /\ pc' = "odd" /\ UNCHANGED <<a, i, h>>

\* select, ge_madd and ge_p1p1_to_p3; the last of a pass leads to the next.
AddDigit(pass, next, first) ==
  /\ pc = pass /\ h' = ToP3(MixedSum(h, Select(i \div 2, e[i])))
  /\ IF i + 2 < Digits THEN i' = i + 2 /\ pc' = pass ELSE i' = first /\ pc' = next
  /\ UNCHANGED <<a, e>>

\* ge_p3_dbl or ge_p2_dbl; the last result gets its extra coordinate back.
Double ==
  /\ pc = "double"
  /\ IF i + 1 < Doublings THEN h' = ToP2(Doubled(h)) /\ i' = i + 1 /\ pc' = pc
                          ELSE h' = ToP3(Doubled(h)) /\ i' = 0 /\ pc' = "even"
  /\ UNCHANGED <<a, e>>

Finished == pc = "done" /\ UNCHANGED vars

Next ==
  SplitDigits \/ AddDigit("odd", "double", 0) \/ Double \/ AddDigit("even", "done", 0) \/ Finished

Spec == Init /\ [][Next]_vars

-----------------------------------------------------------------------------
(* Properties. *)

Scalar == FoldLeft(LAMBDA n, k : n + a[k] * Radix ^ (2 * k), 0, [k \in 1 .. Positions |-> k - 1])

\* Digits and scalar are one number, and each digit is in the table's range.
DigitsExact ==
  pc # "digits" =>
    /\ FoldLeft(LAMBDA n, k : n + e[k] * Radix ^ k, 0, [k \in 1 .. Digits |-> k - 1]) = Scalar
    /\ \A n \in 0 .. Digits - 1 : e[n] \in -(Radix \div 2) .. Radix \div 2

\* What the sum stands for: the digits added so far, the odd ones times what
\* the doublings have made of them.
Expected ==
  LET done(n) == CASE pc \in {"digits", "odd"} -> n % 2 = 1 /\ n < i
                   [] pc = "double" -> n % 2 = 1
                   [] pc = "even" -> n % 2 = 1 \/ n < i
                   [] pc = "done" -> TRUE
      weight(n) == CASE n % 2 = 0 \/ pc \in {"even", "done"} -> Radix ^ n
                     [] n % 2 = 1 /\ pc = "double" /\ i > 0 -> Radix ^ (n - 1) * 2 ^ i
                     [] OTHER -> Radix ^ (n - 1)
  IN FoldLeft(LAMBDA s, n : s + (IF done(n) THEN e[n] * weight(n) ELSE 0), 0,
              [n \in 1 .. Digits |-> n - 1])

\* Loop invariant: the point is the one its digits stand for, in coordinates
\* the next addition may use, also when it meets a table entry or its negative.
SumExact == (pc # "double" => Extended(h)) /\ Affine(h) = Multiples[Expected % Order]

\* The result is the scalar times the base point.
ProductRight == pc = "done" => Affine(h) = Multiples[Scalar % Order]
=============================================================================
