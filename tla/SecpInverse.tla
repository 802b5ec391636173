---------------------------- MODULE SecpInverse ----------------------------
(***************************************************************************)
(* eeuclid_256_mod_p (src/kernels/eth_math_working.h): the inverse of an   *)
(* element by halving and subtracting, one turn of its loops at a time.    *)
(* The lower bound of the inputs is one: with zero it does not end.        *)
(***************************************************************************)
EXTENDS Secp256

VARIABLES
  input,
  u, v,        \* what is halved and subtracted
  x, y,        \* what u and v are multiples of the input by
  prmt,        \* whether they have changed places an odd number of times
  turns,       \* turns of the loops so far
  pc           \* "first", "compare", "halve" or "done"

vars == <<input, u, v, x, y, prmt, turns, pc>>

P == Number(PLimbs)
Even(a) == a[0] % 2 = 0

\* Half of a residue: the modulus is added to an odd one first.
Halved(a) == RShift1c(IF Even(a) THEN Wider(a) ELSE AddWithC(a, PLimbs))

Init ==
  /\ input \in {LimbsOf(n) : n \in 1 .. P - 1}
  /\ u = input /\ v = PLimbs /\ x = LimbsOf(1) /\ y = LimbsOf(0)
  /\ prmt = FALSE /\ turns = 0 /\ pc = "first"

Turn(next) == turns' = turns + 1 /\ pc' = next /\ UNCHANGED input

HalveU ==
  /\ pc = "first" /\ Even(u) /\ u' = RShift1(u) /\ x' = Halved(x)
  /\ Turn("first") /\ UNCHANGED <<v, y, prmt>>

Compare == pc = "first" /\ ~Even(u) /\ Turn("compare") /\ UNCHANGED <<u, v, x, y, prmt>>

\* The larger one becomes v, and u is taken away from it.
Subtract ==
  /\ pc = "compare" /\ u # v
  /\ LET swap == ~Gte(v, u) IN
       /\ u' = (IF swap THEN v ELSE u) /\ x' = (IF swap THEN y ELSE x)
       /\ v' = (IF swap THEN Sub(u, v) ELSE Sub(v, u))
       /\ y' = (IF swap THEN SubModP(x, y) ELSE SubModP(y, x))
       /\ prmt' = (prmt # swap)
  /\ Turn("halve")

HalveV ==
  /\ pc = "halve" /\ Even(v) /\ v' = RShift1(v) /\ y' = Halved(y)
  /\ Turn("halve") /\ UNCHANGED <<u, x, prmt>>

Again == pc = "halve" /\ ~Even(v) /\ Turn("compare") /\ UNCHANGED <<u, v, x, y, prmt>>

Ends == pc = "compare" /\ u = v /\ Turn("done") /\ UNCHANGED <<u, v, x, y, prmt>>

Finished == pc = "done" /\ UNCHANGED vars

Next == HalveU \/ Compare \/ Subtract \/ HalveV \/ Again \/ Ends \/ Finished

Spec == Init /\ [][Next]_vars

-----------------------------------------------------------------------------
(* Properties. *)

\* Loop invariant: u and v are the input times x and y, below the modulus, and
\* odd where they are compared; no subtraction borrows and no halving loses a bit.
MultiplesKept ==
  /\ (Number(x) * Number(input) - Number(u)) % P = 0 /\ (Number(y) * Number(input) - Number(v)) % P = 0
  /\ Number(x) < P /\ Number(y) < P
  /\ pc = "compare" => ~Even(u) /\ ~Even(v)

\* It ends within six turns per bit of the modulus, and the result is the
\* inverse, whichever of the two is returned.
InverseExact ==
  /\ turns <= 6 * N * LB + 2
  /\ pc = "done" => (Number(IF prmt THEN y ELSE x) * Number(input)) % P = 1
=============================================================================
