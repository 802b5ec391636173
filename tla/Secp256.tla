------------------------------ MODULE Secp256 ------------------------------
(***************************************************************************)
(* The field of secp256k1 as src/kernels/eth_math_working.h computes in    *)
(* it: limbs with chains of carries, modulo 2^(N*LB) - 2^LB - C.  The code *)
(* has N = 8 limbs of LB = 32 bits and C = 977.  Limb 0 is the lowest, the *)
(* code's h.                                                               *)
(***************************************************************************)
EXTENDS Integers, SequencesExt

CONSTANTS
  N,           \* limbs (8)
  LB,          \* bits of a limb (32)
  C            \* the modulus is 2^LB + C below the power of two (977)

\* The last overflow is at most C + 1, and its fold must fit two limbs.
SizesFit ==
  /\ N \in Nat /\ N >= 4 /\ LB \in Nat \ {0, 1} /\ C \in 1 .. 2 ^ LB - 1
  /\ ((C + 1) * C) \div 2 ^ LB + C + 1 < 2 ^ LB

B     == 2 ^ LB
Limbs == 0 .. N - 1
PLimbs == [i \in Limbs |-> IF i = 0 THEN B - C ELSE IF i = 1 THEN B - 2 ELSE B - 1]

Number(x) == LET v[i \in 0 .. N] == IF i = N THEN 0 ELSE x[i] + B * v[i+1] IN v[0]
LimbsOf(n) == [i \in Limbs |-> (n \div B ^ i) % B]

-----------------------------------------------------------------------------
(* Chains of add.cc, addc.cc and so on. *)

\* y is added to x from limb from on; the carry goes to the next limb, if there
\* is one.
Chain(x, from, y) ==
  LET n == Cardinality(DOMAIN y)
      carry[k \in 0 .. n] ==
        IF k = 0 THEN 0 ELSE (x[from + k - 1] + y[k-1] + carry[k-1]) \div B
  IN [i \in DOMAIN x |->
        IF i \in from .. from + n - 1 THEN (x[i] + y[i - from] + carry[i - from]) % B
        ELSE IF i = from + n THEN (x[i] + carry[n]) % B ELSE x[i]]

\* With a limb for the carry.
Wider(x) == [i \in 0 .. Cardinality(DOMAIN x) |-> IF i \in DOMAIN x THEN x[i] ELSE 0]
Part(x, from, n) == [i \in 0 .. n - 1 |-> x[from + i]]

\* Limb N is the carry.
AddWithC(x, y) == Chain(Wider(x), 0, y)

Borrow(x, y) ==
  LET b[k \in 0 .. N] == IF k = 0 THEN 0 ELSE IF x[k-1] - y[k-1] - b[k-1] < 0 THEN 1 ELSE 0
  IN b
Sub(x, y) == [i \in Limbs |-> (x[i] - y[i] - Borrow(x, y)[i]) % B]

\* The modulus is added back if the subtraction borrowed.
SubModP(x, y) ==
  IF Borrow(x, y)[N] = 1 THEN Part(Chain(Sub(x, y), 0, PLimbs), 0, N) ELSE Sub(x, y)

Gte(x, y) ==
  \/ \E i \in Limbs : x[i] > y[i] /\ \A j \in i + 1 .. N - 1 : x[j] = y[j]
  \/ x = y

\* add_256_mod_p; no compiled kernel calls it.
AddModP(x, y) ==
  LET s == AddWithC(x, y)
      r == Part(s, 0, N)
  IN IF s[N] = 1 \/ Gte(r, PLimbs) THEN SubModP(r, PLimbs) ELSE r

\* One bit down; the carry comes in at the top.
RShift1c(x) == [i \in Limbs |-> x[i] \div 2 + (x[i+1] % 2) * (B \div 2)]
RShift1(x)  == RShift1c(Wider(x))

-----------------------------------------------------------------------------
(* Products. *)

Lo(n) == n % B
Hi(n) == n \div B

\* n limbs times one: low halves, and a chain of the high halves one limb up.
Row(x, d, n) ==
  Chain([i \in 0 .. n |-> IF i < n THEN Lo(x[i] * d) ELSE 0], 1, [i \in 0 .. n - 1 |-> Hi(x[i] * d)])

\* The first row starts a product; each other one is a chain of low halves and
\* one of high halves.
FirstRow(x, d) == [i \in 0 .. 2 * N - 1 |-> IF i <= N THEN Row(x, d, N)[i] ELSE 0]
AddRow(t, x, d, r) ==
  Chain(Chain(t, r, [i \in Limbs |-> Lo(x[i] * d)]), r + 1, [i \in Limbs |-> Hi(x[i] * d)])

\* The upper half of a product but its top limb, times 2^LB + C; limb N is ov.
HighFolded(t) ==
  LET hi == Part(t, N, N) IN Chain(Wider(Row(hi, C, N - 1)), 1, Part(hi, 0, N - 1))

\* Deviation: the carry of a and its own high half is lost.
TopFolded_NoCarry(w, a) ==
  LET up == Hi(a * C) + a
  IN Chain(w, 0, [i \in 0 .. N |-> CASE i = 0 -> Lo(a * C) [] i = 1 -> Lo(up)
                                     [] i = N - 1 -> Lo(a * C) [] i = N -> Hi(a * C) [] OTHER -> 0])

\* The top limb a times 2^LB would leave the limbs, so it is folded at once.
TopFolded(w, a) ==
  LET up == Hi(a * C) + a
  IN Chain(w, 0, [i \in 0 .. N |-> CASE i = 0 -> Lo(a * C) [] i = 1 -> Lo(up) [] i = 2 -> Hi(up)
                                     [] i = N - 1 -> Lo(a * C) [] i = N -> Hi(a * C) [] OTHER -> 0])

\* What has left the limbs so far; limb N of the result is the last carry.
OverflowFolded(w) ==
  Chain(Wider(Part(w, 0, N)), 0,
        [i \in Limbs |-> CASE i = 0 -> Lo(w[N] * C) [] i = 1 -> Lo(Hi(w[N] * C) + w[N]) [] OTHER -> 0])

\* At most one modulus is left.
Normalized(w) ==
  LET r == Part(w, 0, N) IN IF w[N] = 1 \/ Gte(r, PLimbs) THEN Sub(r, PLimbs) ELSE r
=============================================================================
