------------------------------ MODULE MCLimbs ------------------------------
(***************************************************************************)
(* The arithmetic of src/kernels/ed25519 below its curve, side by side: a  *)
(* behaviour is one of FieldMachine, of FieldPower, of GroupBounds or of   *)
(* ScalarReduce.  FieldPower and GroupBounds have the code's own sizes,    *)
(* the others small ones.  The variables of those that do not run keep     *)
(* their first value.                                                      *)
(***************************************************************************)
EXTENDS Integers, Sequences

VARIABLES
  part,                           \* "field", "power", "magnitude" or "scalar"
  s,                              \* FieldMachine and ScalarReduce
  f, g, rf, rg, t, op, done,      \* FieldMachine
  program, at, left, power,       \* FieldPower
  mem, form, cached, rest, then,  \* GroupBounds
  input, next, out                \* ScalarReduce

\* All ones, the modulus, the modulus less one, nearly half of it twice over,
\* and some in between.
Seconds == {[i \in 0 .. 5 |-> b[i+1]] : b \in
  {<<15, 15, 15, 15, 15, 15>>, <<13, 15, 15, 15, 15, 3>>, <<12, 15, 15, 15, 15, 3>>,
   <<8, 0, 8, 0, 8, 0>>, <<0, 7, 15, 8, 1, 2>>, <<15, 15, 15, 15, 15, 1>>}}

\* With the first ones too, sums reach the modulus without a carry.
Firsts == [0 .. 5 -> {0, 15}] \cup Seconds

\* The modulus is 2^22 - 3.
Field == INSTANCE FieldMachine WITH
  Limbs <- 4, Wide <- 6, Gap <- 3, ByteBits <- 4, Factor <- 5

Power == INSTANCE FieldPower

Magnitude == INSTANCE GroupBounds WITH
  Limbs <- 10, Wide <- 26, Gap <- 19, ByteBits <- 8, Factor <- 121666

\* The order is 2^20 - 9 + 13 * 2^5.  Strings of nothing but zeros and ones per
\* byte, multiples of the order and their neighbours, and some in between.
OrderL == 1048983
Of(x, n) == [j \in 0 .. n - 1 |-> IF 3 * j > 30 THEN 0 ELSE (x \div 2 ^ (3 * j)) % 8]
Longs ==
  {[j \in 0 .. 13 |-> IF j \in ones THEN 7 ELSE 0] : ones \in SUBSET (4 .. 13)}
    \cup {Of(k * OrderL + d, 14) : k \in {1, 2, 3, 7, 8, 15, 1000, 1999}, d \in {-1, 0, 1}}
    \cup {[j \in 0 .. 13 |-> (a * j * j + b) % 8] : a \in 0 .. 7, b \in 0 .. 7}
Scalars ==
  {[j \in 0 .. 6 |-> IF j = 6 THEN u ELSE x] : x \in {0, 3, 4, 7}, u \in {0, 3, 4, 7}}
    \cup {Of(OrderL + d, 7) : d \in {-408, -1, 0, 1}}
    \cup {[j \in 0 .. 6 |-> (a * j + b) % 8] : a \in {1, 3, 5}, b \in 0 .. 7}
Triples == Scalars \X Scalars \X {Of(x, 7) : x \in {0, 1, OrderL - 1, 2097151}}

Scalar == INSTANCE ScalarReduce WITH Fold <- <<9, -13>>, W <- 5, ByteBits <- 3, Bytes <- 7

ASSUME LimbsAssumption == Field!SizesFit /\ Magnitude!SizesFit /\ Scalar!SizesFit

FieldVars     == <<f, g, rf, rg, t, op, done>>
PowerVars     == <<program, at, left, power>>
MagnitudeVars == <<mem, form, cached, rest, then>>
ScalarVars    == <<input, next, out>>

NoField     == f = 0 /\ g = 0 /\ rf = 0 /\ rg = 0 /\ t = 0 /\ op = "" /\ done = 0
NoPower     == program = "" /\ at = 0 /\ left = 0 /\ power = 0
NoMagnitude == mem = 0 /\ form = "" /\ cached = FALSE /\ rest = <<>> /\ then = ""
NoScalar    == input = 0 /\ next = <<>> /\ out = <<>>

Init ==
  \/ part = "field"     /\ Field!Init /\ NoPower /\ NoMagnitude /\ NoScalar
  \/ part = "power"     /\ Power!Init /\ s = 0 /\ NoField /\ NoMagnitude /\ NoScalar
  \/ part = "magnitude" /\ Magnitude!Init /\ s = 0 /\ NoField /\ NoPower /\ NoScalar
  \/ part = "scalar"    /\ Scalar!Init /\ NoField /\ NoPower /\ NoMagnitude

Next ==
  /\ UNCHANGED part
  /\ \/ part = "field"     /\ Field!Next /\ UNCHANGED <<PowerVars, MagnitudeVars, ScalarVars>>
     \/ part = "power"     /\ Power!Next /\ UNCHANGED <<s, FieldVars, MagnitudeVars, ScalarVars>>
     \/ part = "magnitude" /\ Magnitude!Next /\ UNCHANGED <<s, FieldVars, PowerVars, ScalarVars>>
     \/ part = "scalar"    /\ Scalar!Next /\ UNCHANGED <<FieldVars, PowerVars, MagnitudeVars>>

Spec == Init /\ [][Next]_<<part, s, FieldVars, PowerVars, MagnitudeVars, ScalarVars>>

-----------------------------------------------------------------------------
(* Properties. *)

\* Every register stands for the residue it should, whatever the limbs, and is
\* stored as that residue's one string; the exponents of fe_invert and of
\* fe_pow22523 are p - 2 and (p - 5) / 8; a scalar is reduced to the residue
\* below the order, and no pass on the way changes it.
ArithmeticExact ==
  /\ part = "field" => Field!ValuesAgree /\ Field!StoredCanonical
  /\ part = "power" => Power!BitsApart /\ Power!ExponentsRight
  /\ part = "scalar" => Scalar!ResidueKept /\ Scalar!ReducedExactly

\* In whatever order the point operations follow each other, and without a carry
\* after sums, no sum leaves 32 bits and no sum of products 64, and what is
\* multiplied or stored is as small as the product and the store require.
MagnitudesFit ==
  /\ part = "field" => Field!LimbsStaySmall
  /\ part = "magnitude" => Magnitude!NothingOverflows /\ Magnitude!OperandsSmall /\ Magnitude!ProductsSmall
=============================================================================
