------------------------------- MODULE MCSecp -------------------------------
(***************************************************************************)
(* secp256k1 in small, side by side: a behaviour is one of SecpField, of   *)
(* SecpInverse or of SecpWalk.  The variables of those that do not run     *)
(* keep their first value.                                                 *)
(***************************************************************************)
EXTENDS SecpWalk

VARIABLES
  part,                                   \* "field", "inverse" or "walk"
  x, y,                                   \* SecpField and SecpInverse
  op, stage, row, t, w, z,                \* SecpField
  input, u, v, prmt, turns, pc            \* SecpInverse

\* Modulo 2^16 - 2^4 - 9; the products do not ask for a prime.
Field == INSTANCE SecpField WITH
  N <- 4, LB <- 4, C <- 9, FirstLimbs <- {0, 1, 8, 15}, SecondLimbs <- {0, 13, 15}

\* Modulo the prime 2^10 - 2^2 - 1.
Euclid == INSTANCE SecpInverse WITH N <- 5, LB <- 2, C <- 1

ASSUME SecpAssumption == Field!SizesFit /\ Euclid!SizesFit

FieldVars  == <<op, stage, row, t, w, z>>
EuclidVars == <<input, u, v, prmt, turns, pc>>

NoField  == op = "" /\ stage = "" /\ row = 0 /\ t = 0 /\ w = 0 /\ z = 0
NoEuclid == input = 0 /\ u = 0 /\ v = 0 /\ prmt = FALSE /\ turns = 0 /\ pc = ""
NoWalk   == walk = "" /\ private = 0 /\ public = 0 /\ batch = 0 /\ iter = 0

Init ==
  \/ part = "field"   /\ Field!Init /\ NoEuclid /\ NoWalk
  \/ part = "inverse" /\ Euclid!Init /\ NoField /\ NoWalk
  \/ part = "walk"    /\ x = 0 /\ y = 0 /\ WalkInit /\ NoField /\ NoEuclid

Next ==
  /\ UNCHANGED part
  /\ \/ part = "field"   /\ Field!Next /\ UNCHANGED <<EuclidVars, vars>>
     \/ part = "inverse" /\ Euclid!Next /\ UNCHANGED <<FieldVars, vars>>
     \/ part = "walk"    /\ WalkNext /\ UNCHANGED <<x, y, FieldVars, EuclidVars>>

Spec == Init /\ [][Next]_<<part, x, y, FieldVars, EuclidVars, vars>>

-----------------------------------------------------------------------------
(* Properties. *)

\* Products, differences and inverses of the field are exact for every limb
\* pattern, and the inversion ends, keeping what its numbers stand for.
FieldExact ==
  /\ part = "field" => Field!MulSubExact
  /\ part = "inverse" => Euclid!MultiplesKept /\ Euclid!InverseExact

\* Both walks keep the public key the private key's, across batches, carries
\* and the end of the order.
WalksPaired == part = "walk" => Paired
=============================================================================
