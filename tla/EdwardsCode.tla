---------------------------- MODULE EdwardsCode ----------------------------
(***************************************************************************)
(* The group operations of src/kernels/ed25519/ge.cu as they are written:  *)
(* straight lines of field operations on named variables, some of which    *)
(* are read and written on the same line.  EdwardsCurve runs them with     *)
(* numbers, GroupBounds with the magnitudes of limbs.                      *)
(*                                                                         *)
(* X, Y, Z and T are the result's coordinates, pX to pT the first          *)
(* operand's and qS, qD, qZ and qT the second's: sum and difference of its *)
(* coordinates, Z, and the product of its coordinates times 2d.            *)
(***************************************************************************)
EXTENDS Integers, Sequences

\* One call: the variable it writes and the ones it reads.
Add(to, a, b) == [op |-> "add", to |-> to, a |-> a, b |-> b]
Sub(to, a, b) == [op |-> "sub", to |-> to, a |-> a, b |-> b]
Mul(to, a, b) == [op |-> "mul", to |-> to, a |-> a, b |-> b]
One(op, to, a) == [op |-> op, to |-> to, a |-> a, b |-> a]

Coordinates == {"X", "Y", "Z", "T"}
Variables == Coordinates \cup {"pX", "pY", "pZ", "pT", "qS", "qD", "qZ", "qT",
              "t0", "u", "v", "v3", "vxx", "check", "recip", "d", "d2", "sqrtm1"}

GeAdd ==
  << Add("X", "pY", "pX"), Sub("Y", "pY", "pX"), Mul("Z", "X", "qS"), Mul("Y", "Y", "qD"),
     Mul("T", "qT", "pT"), Mul("X", "pZ", "qZ"), Add("t0", "X", "X"), Sub("X", "Z", "Y"),
     Add("Y", "Z", "Y"), Add("Z", "t0", "T"), Sub("T", "t0", "T") >>

GeSub ==
  << Add("X", "pY", "pX"), Sub("Y", "pY", "pX"), Mul("Z", "X", "qD"), Mul("Y", "Y", "qS"),
     Mul("T", "qT", "pT"), Mul("X", "pZ", "qZ"), Add("t0", "X", "X"), Sub("X", "Z", "Y"),
     Add("Y", "Z", "Y"), Sub("Z", "t0", "T"), Add("T", "t0", "T") >>

GeMadd ==
  << Add("X", "pY", "pX"), Sub("Y", "pY", "pX"), Mul("Z", "X", "qS"), Mul("Y", "Y", "qD"),
     Mul("T", "qT", "pT"), Add("t0", "pZ", "pZ"), Sub("X", "Z", "Y"), Add("Y", "Z", "Y"),
     Add("Z", "t0", "T"), Sub("T", "t0", "T") >>

GeMsub ==
  << Add("X", "pY", "pX"), Sub("Y", "pY", "pX"), Mul("Z", "X", "qD"), Mul("Y", "Y", "qS"),
     Mul("T", "qT", "pT"), Add("t0", "pZ", "pZ"), Sub("X", "Z", "Y"), Add("Y", "Z", "Y"),
     Sub("Z", "t0", "T"), Add("T", "t0", "T") >>

GeP2Dbl ==
  << One("sq", "X", "pX"), One("sq", "Z", "pY"), One("sq2", "T", "pZ"), Add("Y", "pX", "pY"),
     One("sq", "t0", "Y"), Add("Y", "Z", "X"), Sub("Z", "Z", "X"), Sub("X", "t0", "Y"),
     Sub("T", "T", "Z") >>

P1p1ToP2 == << Mul("X", "pX", "pT"), Mul("Y", "pY", "pZ"), Mul("Z", "pZ", "pT") >>

P1p1ToP3 == P1p1ToP2 \o << Mul("T", "pX", "pY") >>

P3ToCached ==
  << Add("qS", "pY", "pX"), Sub("qD", "pY", "pX"), One("copy", "qZ", "pZ"), Mul("qT", "pT", "d2") >>

\* ge_frombytes_negate_vartime up to its tests; Y and Z are there.
DecodeX ==
  << One("sq", "u", "Y"), Mul("v", "u", "d"), Sub("u", "u", "Z"), Add("v", "v", "Z"),
     One("sq", "v3", "v"), Mul("v3", "v3", "v"), One("sq", "X", "v3"), Mul("X", "X", "v"),
     Mul("X", "X", "u"), One("pow22523", "X", "X"), Mul("X", "X", "v3"), Mul("X", "X", "u"),
     One("sq", "vxx", "X"), Mul("vxx", "vxx", "v"), Sub("check", "vxx", "u") >>

OtherCheck   == << Add("check", "vxx", "u") >>
TimesSqrtm1  == << Mul("X", "X", "sqrtm1") >>
NegateX      == << One("neg", "X", "X") >>
DecodeT      == << Mul("T", "X", "Y") >>

\* ge_p3_tobytes and ge_tobytes: X and Y are then affine.
ToAffine == << One("inv", "recip", "pZ"), Mul("X", "pX", "recip"), Mul("Y", "pY", "recip") >>
=============================================================================
