---------------------------- MODULE FieldMachine ----------------------------
(***************************************************************************)
(* What the curve does with field elements, in small: load two from bytes, *)
(* add or subtract, multiply, store.  Each register goes with the residue  *)
(* it should stand for.                                                    *)
(***************************************************************************)
EXTENDS FieldElement

CONSTANTS
  Firsts,      \* bound: strings of the first operand
  Seconds      \* bound: second operands

VARIABLES
  f, g,        \* the operands
  rf, rg,      \* the residues they stand for
  s, t,        \* the bytes they were loaded from
  op,          \* the last operation, "" before it
  done         \* operations so far

vars == <<f, g, rf, rg, s, t, op, done>>

\* a * b modulo P, digit by digit of b.
Times(a, b) ==
  FoldLeft(LAMBDA r, n : (r * 64 + a * ((b \div 64 ^ n) % 64)) % P, 0, <<3, 2, 1, 0>>)

\* The residue of a string, the bits above the modulus ignored.
Residue(b) ==
  LET n[i \in 0 .. ByteCount] == IF i = ByteCount THEN 0 ELSE (b[i] + 2 ^ ByteBits * n[i+1]) % 2 ^ Bits
  IN n[0] % P

Init ==
  /\ f = Fe0 /\ g = Fe1 /\ rf = 0 /\ rg = 1 /\ op = "" /\ done = 0
  /\ s \in Firsts /\ t \in Seconds

LoadBytes ==
  /\ done = 0 /\ op' = "load" /\ done' = 1
  /\ f' = FeFromBytes(s) /\ g' = FeFromBytes(t) /\ rf' = Residue(s) /\ rg' = Residue(t)
  /\ UNCHANGED <<s, t>>

\* One operation without a carry between a load and a product.
Does(name, h, r) ==
  /\ op' = name /\ done' = done + 1 /\ f' = h /\ rf' = r % P /\ UNCHANGED <<g, rg, s, t>>

Adds == op = "load" /\ Does("add", FeAdd(f, g), rf + rg)
Subtracts == op = "load" /\ Does("sub", FeSub(f, g), rf - rg)
Negates == op = "load" /\ Does("neg", FeNeg(f), -rf)
Moves(b) == op = "load" /\ Does("cmov", FeCmov(f, g, b), IF b = 1 THEN rg ELSE rf)

Swaps ==
  /\ op = "load" /\ op' = "cswap" /\ done' = done + 1
  /\ \E b \in {0, 1} :
       /\ f' = FeCswap(f, g, b)[1] /\ g' = FeCswap(f, g, b)[2]
       /\ rf' = (IF b = 1 THEN rg ELSE rf) /\ rg' = IF b = 1 THEN rf ELSE rg
  /\ UNCHANGED <<s, t>>

Loaded == op \in {"load", "add", "sub", "neg"}

Multiplies == Loaded /\ Does("mul", FeMul(f, g), Times(rf, rg))
Squares    == Loaded /\ Does("sq", FeSq(f), Times(rf, rf))
Squares2   == Loaded /\ Does("sq2", FeSq2(f), 2 * Times(rf, rf))
Scales     == op = "load" /\ Does("mul121666", FeMul121666(f), Times(rf, Factor % P))

Finished == done > 1 /\ UNCHANGED vars

Next ==
  \/ LoadBytes \/ Adds \/ Subtracts \/ Negates \/ Swaps \/ Multiplies \/ Squares \/ Squares2
  \/ Scales \/ (\E b \in {0, 1} : Moves(b)) \/ Finished

Spec == Init /\ [][Next]_vars

-----------------------------------------------------------------------------
(* Properties. *)

\* Every register stands for the number it should: loads, sums, products,
\* squares and carries agree modulo P, whatever the limbs.
ValuesAgree == Value(f) = rf /\ Value(g) = rg

\* A product's limbs are again small enough to be added once and multiplied,
\* and to be stored: no chain of operations lets them grow.
LimbsStaySmall ==
  op \in {"load", "mul", "sq", "sq2"} => \A i \in Index : 10 * f[i] \in -11 * 2 ^ Width(i) .. 11 * 2 ^ Width(i)

\* An element is stored as the one string of its residue below P, so that equal
\* elements have equal bytes and sign and zero tests do not depend on the limbs.
\* The zero test has to be true of elements that are not zero: with the answers
\* that its comment promises, decoding would refuse the points it should take.
StoredCanonical ==
  LET b == FeToBytes(f) IN
    /\ \A j \in 0 .. ByteCount - 1 : b[j] = (rf \div 2 ^ (ByteBits * j)) % 2 ^ ByteBits
    /\ FeIsNegative(f) = rf % 2 /\ (FeIsNonzero(f) <=> rf # 0)
=============================================================================
