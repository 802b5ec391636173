----------------------------- MODULE GroupBounds -----------------------------
(***************************************************************************)
(* How large the limbs get: the group operations of src/kernels/ed25519/   *)
(* ge.cu in any order the callers can put them, line by line, with an      *)
(* upper bound of each limb's magnitude in the place of the limb, at the   *)
(* code's ten limbs of 26 and 25 bits.  Sums are not carried, so it is the *)
(* order of the lines that keeps products within 32 and 64 bits.           *)
(*                                                                         *)
(* A magnitude <<m, e>> is m * 2^e, rounded up to 15 bits of m.            *)
(***************************************************************************)
EXTENDS EdwardsCode, FieldElement

VARIABLES
  mem,      \* the magnitudes of each variable's limbs
  form,     \* what the coordinates are: "p2", "p3", "p1p1" or "string"
  cached,   \* there is a second operand
  rest,     \* lines still to run
  then      \* the form after them

vars == <<mem, form, cached, rest, then>>

-----------------------------------------------------------------------------
(* Magnitudes. *)

UpDiv(m, k) == (m + 2 ^ k - 1) \div 2 ^ k
RECURSIVE Norm(_, _)
Norm(m, e) ==
  IF m = 0 THEN <<0, 0>> ELSE IF m >= 2 ^ 23 THEN Norm(UpDiv(m, 8), e + 8)
  ELSE IF m >= 2 ^ 15 THEN Norm(UpDiv(m, 1), e + 1) ELSE IF m < 2 ^ 14 THEN Norm(2 * m, e - 1)
  ELSE <<m, e>>

TwoTo(k) == Norm(1, k)
Scale(n, a) == Norm(n * a[1], a[2])
Prod(a, b) == Norm(a[1] * b[1], a[2] + b[2])
Plus(a, b) ==
  LET large == IF a[1] = 0 \/ (b[1] # 0 /\ b[2] > a[2]) THEN b ELSE a
      small == IF large = a THEN b ELSE a
      shift == IF large[2] - small[2] > 15 THEN 15 ELSE large[2] - small[2]
  IN IF small[1] = 0 THEN large ELSE Norm(large[1] + UpDiv(small[1], shift), large[2])
Below(a, b) == a[1] = 0 \/ (b[1] # 0 /\ (a[2] < b[2] \/ (a[2] = b[2] /\ a[1] <= b[1])))
Larger(a, b) == IF Below(a, b) THEN b ELSE a

\* n hundredths of the widths above a power of two.
Hundredths(n, more) == [i \in Index |-> Norm(n * 2 ^ 7, Width(i) + more - 7)]
Within(f, n, more) == \A i \in Index : Below(Scale(100, f[i]), Hundredths(n, more)[i])

-----------------------------------------------------------------------------
(* Field operations on magnitudes. *)

Limbwise(F(_, _), f, g) == [i \in Index |-> F(f[i], g[i])]

\* RoundCarry: what stays is at most half of the width's power, what goes is
\* at most half more than the quotient.
CarryUp(h, i) ==
  LET half == TwoTo(Width(i) - 1)
      c    == IF Below(Plus(h[i], TwoTo(0)), half) THEN <<0, 0>> ELSE Plus(Norm(h[i][1], h[i][2] - Width(i)), TwoTo(-1))
      next == (i + 1) % Limbs
  IN [h EXCEPT ![i] = IF Below(@, half) THEN @ ELSE half,
               ![next] = Plus(@, IF next = 0 THEN Scale(Gap, c) ELSE c)]
CarriedUp(h, order) == FoldLeft(CarryUp, h, order)

\* The 64-bit sums of a product, before the carries.
Sums(f, g) ==
  [k \in Index |->
     FoldLeft(LAMBDA s, i : Plus(s, LET j == (k - (i - 1)) % Limbs IN
                                    Scale(Weight(i - 1, j), Prod(f[i-1], g[j]))),
              <<0, 0>>, [i \in 1 .. Limbs |-> i])]
Twice(f) == [i \in Index |-> Scale(2, f[i])]

ProductUp(f, g) == CarriedUp(Sums(f, g), MulOrder)

\* An exponent chain multiplies its argument, squares and products.
ChainUp(f) ==
  LET any == Limbwise(Larger, f, ProductUp(f, f)) IN ProductUp(any, any)

Result(line) ==
  LET f == mem[line.a]
      g == mem[line.b]
  IN CASE line.op \in {"add", "sub"} -> Limbwise(Plus, f, g)
       [] line.op \in {"mul", "sq"} -> ProductUp(f, g)
       [] line.op = "sq2" -> CarriedUp(Twice(Sums(f, f)), MulOrder)
       [] line.op \in {"inv", "pow22523"} -> ChainUp(f)
       [] line.op \in {"neg", "copy"} -> f

\* fe_frombytes: the limbs as they are loaded, then carried.
LoadedUp ==
  CarriedUp([i \in Index |-> TwoTo(IF i = Limbs - 1 THEN Bits - Offset(i)
                                   ELSE ByteBits * Place(i+1) - Offset(i))], SmallOrder)

\* The constants of ge.cu and the tables of precomp_data.h.
ConstantUp == [i \in Index |-> TwoTo(Width(i) - 1)]
Unit == [i \in Index |-> IF i = 0 THEN TwoTo(0) ELSE <<0, 0>>]
None == [i \in Index |-> <<0, 0>>]

-----------------------------------------------------------------------------
(* Calls. *)

Init ==
  /\ \/ form = "string" /\ mem = [n \in Variables |->
          CASE n \in {"d", "d2", "sqrtm1"} -> ConstantUp [] n = "Y" -> LoadedUp
            [] n = "Z" -> Unit [] OTHER -> None]
     \/ form \in {"p2", "p3"} /\ mem = [n \in Variables |->
          CASE n \in {"d", "d2", "sqrtm1"} -> ConstantUp [] n \in {"Y", "Z"} -> Unit [] OTHER -> None]
  /\ cached = FALSE /\ rest = <<>> /\ then = form

\* The coordinates become the operand of a call.
Call(code, from, to) ==
  /\ rest = <<>> /\ form \in from /\ rest' = code /\ then' = to
  /\ mem' = [mem EXCEPT !.pX = mem["X"], !.pY = mem["Y"], !.pZ = mem["Z"],
                        !.pT = IF form = "p2" THEN @ ELSE mem["T"]]
  /\ UNCHANGED <<form, cached>>

Decodes    == \E code \in {DecodeX \o DecodeT, DecodeX \o OtherCheck \o TimesSqrtm1 \o DecodeT,
                           DecodeX \o NegateX \o DecodeT,
                           DecodeX \o OtherCheck \o TimesSqrtm1 \o NegateX \o DecodeT} :
                Call(code, {"string"}, "p3")
Caches     == Call(P3ToCached, {"p3"}, "p3")
AddsCached == cached /\ \E code \in {GeAdd, GeSub} : Call(code, {"p3"}, "p1p1")
Doubles    == Call(GeP2Dbl, {"p2", "p3"}, "p1p1")
ToP2       == Call(P1p1ToP2, {"p1p1"}, "p2")
ToP3       == Call(P1p1ToP3, {"p1p1"}, "p3")
Stores     == Call(ToAffine, {"p2", "p3"}, "affine")

\* Another point of a table.
AddsTable ==
  /\ rest = <<>> /\ form = "p3" /\ then' = "p1p1"
  /\ \E code \in {GeMadd, GeMsub} : rest' = code
  /\ mem' = [mem EXCEPT !.pX = mem["X"], !.pY = mem["Y"], !.pZ = mem["Z"], !.pT = mem["T"],
                        !.qS = ConstantUp, !.qD = ConstantUp, !.qT = ConstantUp]
  /\ cached' = FALSE /\ UNCHANGED form

\* A line; with the last one the operand and the scratch variables go.
Kept == Coordinates \cup {"qS", "qD", "qZ", "qT", "d", "d2", "sqrtm1"}
RunLine ==
  /\ rest # <<>>
  /\ mem' = [n \in Variables |-> IF n = Head(rest).to THEN Result(Head(rest))
                                 ELSE IF n \in Kept \/ Len(rest) > 1 THEN mem[n] ELSE None]
  /\ rest' = [i \in 1 .. Len(rest) - 1 |-> rest[i+1]]
  /\ form' = (IF Len(rest) = 1 THEN then ELSE form)
  /\ cached' = (cached \/ Head(rest).to = "qT")
  /\ UNCHANGED then

Finished == rest = <<>> /\ form = "affine" /\ UNCHANGED vars

Next ==
  \/ Decodes \/ Caches \/ AddsCached \/ AddsTable \/ Doubles \/ ToP2 \/ ToP3 \/ Stores \/ RunLine
  \/ Finished

Spec == Init /\ [][Next]_vars

-----------------------------------------------------------------------------
(* Properties. *)

Multiplies(op) == op \in {"mul", "sq", "sq2", "inv", "pow22523"}

\* No line that is run next overflows: sums and the multiples of one limb (38
\* in a square) fit 32 bits, sums of products with a carry's rounding 64.
NothingOverflows ==
  rest # <<>> =>
    LET line == Head(rest)
        f == mem[line.a]
        g == mem[line.b]
        fits(a, bits) == ~Below(TwoTo(bits), a)
    IN /\ \A i \in Index : fits(Plus(f[i], g[i]), 31)
       /\ Multiplies(line.op) => \A i \in Index :
            /\ fits(Scale(IF i = 0 THEN 2 ELSE Gap * (IF line.op # "mul" /\ i % 2 = 1 THEN 2 ELSE 1), g[i]), 31)
            /\ fits(Plus(Scale(IF line.op = "sq2" THEN 2 ELSE 1, Sums(f, g)[i]), TwoTo(25)), 63)

\* What a product is given and what a store is given is as small as they
\* require (1.65 and 1.1 times a power of two), whatever was called before.
OperandsSmall ==
  /\ rest # <<>> /\ Multiplies(Head(rest).op) =>
       Within(mem[Head(rest).a], 165, 0) /\ Within(mem[Head(rest).b], 165, 0)
  /\ form = "affine" => Within(mem["X"], 110, 0) /\ Within(mem["Y"], 110, 0)
  /\ Within(mem["check"], 110, 0)

\* Products are as small as they promise (1.01 times half the power).
ProductsSmall ==
  rest # <<>> /\ Multiplies(Head(rest).op) => Within(Result(Head(rest)), 101, -1)
=============================================================================
