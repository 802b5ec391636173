----------------------------- MODULE SecpField -----------------------------
(***************************************************************************)
(* mul_256_mod_p, sub_256_mod_p and add_256_mod_p on two elements of the   *)
(* field of secp256k1, in small: a product is one row of limbs after the   *)
(* other, and then folded down in four steps.                              *)
(***************************************************************************)
EXTENDS Secp256

CONSTANTS
  FirstLimbs,  \* bound: limbs of the first element
  SecondLimbs  \* bound: limbs of the second one

VARIABLES
  x, y,        \* the elements
  op,          \* the operation, "" before it
  stage,       \* of a product: "rows", the folds, "end"; "done" of all
  row,         \* the next row
  t,           \* the product so far
  w,           \* what it has been folded to, with a limb for the overflow
  z            \* the result

vars == <<x, y, op, stage, row, t, w, z>>

P == Number(PLimbs)
Zero(n) == [i \in 0 .. n - 1 |-> 0]

Init ==
  /\ x \in [Limbs -> FirstLimbs] /\ y \in [Limbs -> SecondLimbs]
  /\ Number(x) < P /\ Number(y) < P
  /\ op = "" /\ stage = "" /\ row = 0 /\ t = Zero(2 * N) /\ w = Zero(N + 1) /\ z = Zero(N)

Does(name, result) ==
  /\ op = "" /\ op' = name /\ stage' = "done" /\ z' = result /\ UNCHANGED <<x, y, row, t, w>>

Subtracts  == Does("sub", SubModP(x, y))
Adds       == Does("add", AddModP(x, y))

Multiplies ==
  /\ op = "" /\ op' = "mul" /\ stage' = "rows" /\ row' = 1 /\ t' = FirstRow(x, y[0])
  /\ UNCHANGED <<x, y, w, z>>

NextRow ==
  /\ stage = "rows" /\ t' = AddRow(t, x, y[row], row)
  /\ row' = row + 1 /\ stage' = IF row = N - 1 THEN "high" ELSE "rows"
  /\ UNCHANGED <<x, y, op, w, z>>

Fold(now, then, folded) ==
  /\ stage = now /\ stage' = then /\ w' = folded /\ UNCHANGED <<x, y, op, row, t, z>>

FoldHigh     == Fold("high", "top", HighFolded(t))
FoldTop      == Fold("top", "low", TopFolded(w, t[2 * N - 1]))
AddLow       == Fold("low", "overflow", Chain(w, 0, Part(t, 0, N)))
FoldOverflow == Fold("overflow", "end", OverflowFolded(w))

Ends == stage = "end" /\ stage' = "done" /\ z' = Normalized(w)
        /\ UNCHANGED <<x, y, op, row, t, w>>

Finished == stage = "done" /\ UNCHANGED vars

Next ==
  \/ Multiplies \/ NextRow \/ FoldHigh \/ FoldTop \/ AddLow \/ FoldOverflow \/ Ends
  \/ Subtracts \/ Adds \/ Finished

Spec == Init /\ [][Next]_vars

-----------------------------------------------------------------------------
(* Properties. *)

\* A product modulo P in two digits of y, so that no product reaches 2^31.
TimesMod(a, b) == (((a * (b \div 256)) % P) * 256 + a * (b % 256)) % P

\* Products and differences are the residue below the modulus, limb for limb,
\* wherever carries run to; what a product overflows is folded twice, and then
\* one subtraction is enough.
MulSubExact ==
  stage = "done" =>
    /\ op = "mul" => z = LimbsOf(TimesMod(Number(x), Number(y)))
    /\ op = "sub" => z = LimbsOf((Number(x) - Number(y)) % P)

\* add_256_mod_p: "If carry or result >= P, subtract P".
AddDocumented == op = "add" => z = LimbsOf((Number(x) + Number(y)) % P)
=============================================================================
