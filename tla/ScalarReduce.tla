---------------------------- MODULE ScalarReduce ----------------------------
(***************************************************************************)
(* sc_reduce and sc_muladd (src/kernels/ed25519/sc.cu): a long string, or  *)
(* a b + c of three, modulo the order l.  The limbs above the order are    *)
(* folded down by the digits of 2^(W*2F) modulo l, between rounds of       *)
(* carries; the code has F = 6 digits of W = 21 bits and 4F limbs.         *)
(***************************************************************************)
EXTENDS Integers, SequencesExt

CONSTANTS
  Fold,        \* the digits, lowest first (666643, 470296, 654183, ...)
  W,           \* bits of a limb (21)
  ByteBits,    \* bits of a byte (8)
  Bytes,       \* bytes of a scalar (32)
  Longs,       \* bound: the strings that are reduced
  Triples      \* bound: the scalars a, b and c

SizesFit ==
  /\ Len(Fold) > 0 /\ Len(Fold) % 2 = 0 /\ W \in Nat \ {0} /\ Bytes * ByteBits >= W * 2 * Len(Fold)

F == Len(Fold)
Limbs == 0 .. 4 * F - 1

VARIABLES
  input,   \* the strings, one or three
  s,       \* the limbs
  next,    \* the passes still to run
  out      \* the bytes of the result, or none

vars == <<input, s, next, out>>

-----------------------------------------------------------------------------
(* The order. *)

\* 2^(W*2F) less what the digits make; a limb's weight modulo it.
L == LET low[i \in 0 .. F] == IF i = F THEN 0 ELSE Fold[i+1] + 2 ^ W * low[i+1]
     IN 2 ^ (2 * F * W) - low[0]
Mod(limbs, n) ==
  LET v[i \in 0 .. n] == IF i = n THEN 0 ELSE ((limbs[i] % L) + 2 ^ W * v[i+1]) % L IN v[0]
TimesMod(a, b) ==
  FoldLeft(LAMBDA r, n : (r * 64 + a * ((b \div 64 ^ n) % 64)) % L, 0, <<4, 3, 2, 1, 0>>)
StringMod(b) ==
  FoldLeft(LAMBDA r, n : (r * 2 ^ ByteBits + b[n]) % L, 0, Reverse([n \in 1 .. Cardinality(DOMAIN b) |-> n - 1]))

-----------------------------------------------------------------------------
(* Bytes and limbs. *)

\* Bits from to to - 1 of a string.
Slice(b, from, to) ==
  FoldLeft(LAMBDA v, n : 2 * v + ((b[n \div ByteBits] \div 2 ^ (n % ByteBits)) % 2), 0,
           Reverse([k \in 1 .. to - from |-> from + k - 1]))

\* n limbs of a string; the last one has the bits that are left.
LoadLimbs(b, n) ==
  [i \in 0 .. n - 1 |-> Slice(b, W * i, IF i = n - 1 THEN ByteBits * Cardinality(DOMAIN b) ELSE W * (i + 1))]

\* The limbs put side by side; the last one is not masked but cut by the bytes.
StoreBytes(limbs) ==
  [j \in 0 .. Bytes - 1 |->
     FoldLeft(LAMBDA v, k : LET n == ByteBits * j + k
                                i == IF n \div W < 2 * F THEN n \div W ELSE 2 * F - 1
                            IN v + 2 ^ k * ((limbs[i] \div 2 ^ (n - W * i)) % 2),
              0, [k \in 1 .. ByteBits |-> k - 1])]

Products(a, b, c) ==
  [k \in Limbs |->
     FoldLeft(LAMBDA v, i : IF k - i \in 0 .. 2 * F - 1 THEN v + a[i] * b[k - i] ELSE v,
              IF k < 2 * F THEN c[k] ELSE 0, [i \in 1 .. 2 * F |-> i - 1])]

-----------------------------------------------------------------------------
(* Passes. *)

Down(from, to) == [n \in 1 .. from - to + 1 |-> from - n + 1]
Up(from, to)   == [n \in 1 .. to - from + 1 |-> from + n - 1]
Every2(from, to) == [n \in 1 .. (to - from) \div 2 + 1 |-> from + 2 * (n - 1)]

\* Limb k times the digits goes to the limbs from 2F below on.
Folded(limbs, k) ==
  [i \in Limbs |-> IF i = k THEN 0
                   ELSE IF i \in k - 2 * F .. k - F - 1
                   THEN limbs[i] + limbs[k] * Fold[i - (k - 2 * F) + 1] ELSE limbs[i]]

Carry(limbs, i, c) == [limbs EXCEPT ![i] = @ - c * 2 ^ W, ![i+1] = @ + c]
Rounded(limbs, i)  == Carry(limbs, i, (limbs[i] + 2 ^ (W - 1)) \div 2 ^ W)
Floored(limbs, i)  == Carry(limbs, i, limbs[i] \div 2 ^ W)

Pass(p, limbs) ==
  CASE p.op = "fold"  -> FoldLeft(Folded, limbs, p.at)
    [] p.op = "round" -> FoldLeft(Rounded, limbs, p.at)
    [] p.op = "floor" -> FoldLeft(Floored, limbs, p.at)

RoundOf(from, to) ==
  [op |-> "round", at |-> Every2(from, to) \o Every2(from + 1, to - 1)]

\* sc_reduce; the rounds end where the next fold begins.
Reduction ==
  << [op |-> "fold", at |-> Down(4 * F - 1, 3 * F)], RoundOf(F, 3 * F - 2),
     [op |-> "fold", at |-> Down(3 * F - 1, 2 * F)],
     [op |-> "round", at |-> Every2(0, 2 * F - 2) \o Every2(1, 2 * F - 1)],
     [op |-> "fold", at |-> <<2 * F>>], [op |-> "floor", at |-> Up(0, 2 * F - 1)],
     [op |-> "fold", at |-> <<2 * F>>], [op |-> "floor", at |-> Up(0, 2 * F - 2)] >>

Init ==
  /\ out = <<>>
  /\ \/ \E b \in Longs : input = <<b>> /\ s = LoadLimbs(b, 4 * F) /\ next = Reduction
     \/ \E t \in Triples :
          /\ input = t
          /\ s = Products(LoadLimbs(t[1], 2 * F), LoadLimbs(t[2], 2 * F), LoadLimbs(t[3], 2 * F))
          /\ next = << RoundOf(0, 4 * F - 2) >> \o Reduction

RunPass ==
  /\ next # <<>> /\ s' = Pass(Head(next), s)
  /\ next' = [n \in 1 .. Len(next) - 1 |-> next[n+1]] /\ UNCHANGED <<input, out>>

Store == next = <<>> /\ out = <<>> /\ out' = StoreBytes(s) /\ UNCHANGED <<input, s, next>>

Finished == out # <<>> /\ UNCHANGED vars

Next == RunPass \/ Store \/ Finished

Spec == Init /\ [][Next]_vars

-----------------------------------------------------------------------------
(* Properties. *)

\* The residue the result must have.
Wanted == IF Len(input) = 1 THEN StringMod(input[1])
          ELSE (TimesMod(StringMod(input[1]), StringMod(input[2])) + StringMod(input[3])) % L

\* Every pass keeps the number modulo the order, whatever the signs of limbs.
ResidueKept == Mod(s, 4 * F) = Wanted

\* The result is the residue below the order, byte for byte: a signature's S is
\* then one number, and no limb is negative when its bytes are put together.
ReducedExactly ==
  out # <<>> => out = [j \in 0 .. Bytes - 1 |-> (Wanted \div 2 ^ (ByteBits * j)) % 2 ^ ByteBits]
=============================================================================
