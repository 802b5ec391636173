------------------------------ MODULE MCCurve ------------------------------
(***************************************************************************)
(* The curve of src/kernels/ed25519, side by side: a behaviour is one of   *)
(* ScalarBase, of DoubleScalar, of PointCodec or of SignVerify.  The first *)
(* three have a curve with a cofactor of 4 and all of its encodings, the   *)
(* last one of prime order.  The variables of those that do not run keep   *)
(* their first value.                                                      *)
(***************************************************************************)
EXTENDS Integers, Sequences

VARIABLES
  part,                             \* "base", "double", "codec" or "sign"
  pc,                               \* all
  a, i,                             \* ScalarBase and DoubleScalar
  e, h,                             \* ScalarBase
  b, A, as, bs, ai, r,              \* DoubleScalar
  s, result, p, t,                  \* PointCodec
  secret, public, nonce, hash, sig, altered, seen, accepted   \* SignVerify

Base == INSTANCE ScalarBase WITH
  P <- 61, D <- 28, Sqrtm1 <- 11, BaseX <- 3, BaseY <- 4, Order <- 76, YBits <- 6,
  Positions <- 2, Radix <- 16

Twofold == INSTANCE DoubleScalar WITH
  P <- 61, D <- 28, Sqrtm1 <- 11, BaseX <- 3, BaseY <- 4, Order <- 76, YBits <- 6,
  Positions <- 1, Radix <- 16, ScalarBits <- 9, Spare <- 3, Points <- {1, 38}

Codec == INSTANCE PointCodec WITH
  P <- 61, D <- 28, Sqrtm1 <- 11, BaseX <- 3, BaseY <- 4, Order <- 76, YBits <- 6,
  Positions <- 1, Radix <- 16

\* The points of the small curve, each the next multiple of the second; the base
\* point is the fourth multiple (PointsFit).
SmallPoints ==
  <<<<0, 1>>, <<1, 16>>, <<29, 12>>, <<7, 23>>, <<5, 22>>, <<9, 8>>, <<11, 20>>,
    <<21, 7>>, <<27, 32>>, <<35, 11>>, <<22, 31>>, <<6, 0>>, <<22, 6>>, <<35, 26>>,
    <<27, 5>>, <<21, 30>>, <<11, 17>>, <<9, 29>>, <<5, 15>>, <<7, 14>>, <<29, 25>>,
    <<1, 21>>, <<0, 36>>, <<36, 21>>, <<8, 25>>, <<30, 14>>, <<32, 15>>, <<28, 29>>,
    <<26, 17>>, <<16, 30>>, <<10, 5>>, <<2, 26>>, <<15, 6>>, <<31, 0>>, <<15, 31>>,
    <<2, 11>>, <<10, 32>>, <<16, 7>>, <<26, 20>>, <<28, 8>>, <<32, 22>>, <<30, 23>>,
    <<8, 12>>, <<36, 16>>>>

Signing == INSTANCE SignVerify WITH
  P <- 37, D <- 14, Sqrtm1 <- 6, BaseX <- 5, BaseY <- 22, Order <- 11, YBits <- 6,
  Positions <- 1, Radix <- 16, SeedBits <- 4, Cofactor <- 4, SBits <- 6, TopBits <- 2,
  Nonces <- {0, 3}, Challenges <- {0, 1, 4, 10},
  Points <- SmallPoints

ASSUME CurvesAssumption ==
  /\ Base!CurveFits /\ Twofold!CurveFits /\ Codec!CurveFits /\ Signing!CurveFits
  /\ Twofold!SlideFits /\ Signing!SignFits /\ Signing!PointsFit

BaseVars    == <<e, h>>
TwofoldVars == <<b, A, as, bs, ai, r>>
CodecVars   == <<s, result, p, t>>
SigningVars == <<secret, public, nonce, hash, sig, altered, seen, accepted>>

NoScalar  == a = 0 /\ i = 0
NoBase    == e = 0 /\ h = 0
NoTwofold == b = 0 /\ A = 0 /\ as = 0 /\ bs = 0 /\ ai = 0 /\ r = 0
NoCodec   == s = 0 /\ result = 0 /\ p = 0 /\ t = 0
NoSigning == /\ secret = 0 /\ public = 0 /\ nonce = 0 /\ hash = 0 /\ sig = 0 /\ altered = ""
             /\ seen = 0 /\ accepted = FALSE

Init ==
  \/ part = "base"   /\ Base!Init /\ NoTwofold /\ NoCodec /\ NoSigning
  \/ part = "double" /\ Twofold!Init /\ NoBase /\ NoCodec /\ NoSigning
  \/ part = "codec"  /\ Codec!Init /\ NoScalar /\ NoBase /\ NoTwofold /\ NoSigning
  \/ part = "sign"   /\ Signing!Init /\ NoScalar /\ NoBase /\ NoTwofold /\ NoCodec

Next ==
  /\ UNCHANGED part
  /\ \/ part = "base"   /\ Base!Next /\ UNCHANGED <<TwofoldVars, CodecVars, SigningVars>>
     \/ part = "double" /\ Twofold!Next /\ UNCHANGED <<BaseVars, CodecVars, SigningVars>>
     \/ part = "codec"  /\ Codec!Next /\ UNCHANGED <<a, i, BaseVars, TwofoldVars, SigningVars>>
     \/ part = "sign"   /\ Signing!Next /\ UNCHANGED <<a, i, BaseVars, TwofoldVars, CodecVars>>

Spec == Init /\ [][Next]_<<part, pc, a, i, BaseVars, TwofoldVars, CodecVars, SigningVars>>

-----------------------------------------------------------------------------
(* Properties. *)

\* Products of points are exact after every step, for signed digits and for
\* sliding windows, also where a point meets itself, its negative or the
\* neutral one; a string is decoded if and only if a point has it, to the
\* point's negative, and a point has one string whatever its coordinates.
PointsExact ==
  /\ part = "base"   => Base!DigitsExact /\ Base!SumExact /\ Base!ProductRight
  /\ part = "double" => Twofold!SlidesExact /\ Twofold!SumExact /\ Twofold!ProductRight
  /\ part = "codec"  => Codec!DecodeExact /\ Codec!EncodeExact

\* A signature verifies with the key it was made with, whatever the hashes; when
\* the message, R, S or the key was changed to anything else, only if the numbers
\* that the strings stand for solve the equation, with the hash of what was changed.
VerifyExact == part = "sign" => Signing!VerifyExact
=============================================================================
