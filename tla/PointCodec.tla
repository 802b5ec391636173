----------------------------- MODULE PointCodec -----------------------------
(***************************************************************************)
(* ge_frombytes_negate_vartime and ge_p3_tobytes (src/kernels/ed25519/     *)
(* ge.cu): every string is decoded, its point scaled to any Z, and encoded *)
(* again.                                                                  *)
(***************************************************************************)
EXTENDS EdwardsCurve

VARIABLES
  s,       \* the string
  result,  \* what decoding it gave
  p,       \* the point, in some coordinates
  t,       \* the string of the point
  pc       \* "read", "scale", "write", "done" or "refused"

vars == <<s, result, p, t, pc>>

Init ==
  /\ s \in Encodings /\ result = [ok |-> FALSE, point |-> P3Zero] /\ p = P3Zero
  /\ t = [y |-> 0, sign |-> 0] /\ pc = "read"

FromBytes ==
  /\ pc = "read" /\ result' = Decode(s)
  /\ p' = result'.point /\ pc' = (IF result'.ok THEN "scale" ELSE "refused")
  /\ UNCHANGED <<s, t>>

\* Arithmetic leaves any coordinates of the same point.
Scale ==
  /\ pc = "scale"
  /\ \E z \in Field \ {0} :
       p' = [X |-> (p.X * z) % P, Y |-> (p.Y * z) % P, Z |-> (p.Z * z) % P, T |-> (p.T * z) % P]
  /\ pc' = "write" /\ UNCHANGED <<s, result, t>>

ToBytes == pc = "write" /\ t' = Encode(p) /\ pc' = "done" /\ UNCHANGED <<s, result, p>>

Finished == pc \in {"done", "refused"} /\ UNCHANGED vars

Next == FromBytes \/ Scale \/ ToBytes \/ Finished

Spec == Init /\ [][Next]_vars

-----------------------------------------------------------------------------
(* Properties. *)

\* A string is refused exactly if no point of the curve has its y; otherwise
\* the point is on the curve and is the negative of the one the string is of,
\* also for a y that is not reduced and where the second root is needed.
DecodeExact ==
  pc # "read" =>
    LET roots == {x \in Field : OnCurve(x, s.y % P)} IN
      /\ result.ok <=> roots # {}
      /\ result.ok =>
           /\ Affine(result.point)[1] \in roots /\ Affine(result.point)[2] = s.y % P
           /\ Affine(result.point)[1] # 0 => Affine(result.point)[1] % 2 # s.sign
           /\ Extended(result.point)

\* A point has one string, whatever its coordinates, and it is the string of
\* the negative with the other sign.
EncodeExact ==
  pc = "done" =>
    t = [y |-> s.y % P, sign |-> IF Affine(p)[1] = 0 THEN 0 ELSE 1 - s.sign]
=============================================================================
