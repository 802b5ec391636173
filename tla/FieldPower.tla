----------------------------- MODULE FieldPower -----------------------------
(***************************************************************************)
(* fe_invert and fe_pow22523 (src/kernels/ed25519/fe.cu) at their real     *)
(* size: chains of squarings and products of powers of z, which must end   *)
(* at the exponents p - 2 and (p - 5) / 8 of p = 2^255 - 19.               *)
(*                                                                         *)
(* A power is its exponent, and an exponent the set of its one bits: the   *)
(* chains multiply powers only whose bits are apart.                       *)
(***************************************************************************)
EXTENDS Integers, Sequences

VARIABLES
  program,   \* the procedure
  at,        \* its current line
  left,      \* squarings left on the line
  power      \* the exponent in each variable

vars == <<program, at, left, power>>

\* A line squares a variable into another so many times, or multiplies two.
Sq(to, from, times) == [op |-> "sq", to |-> to, a |-> from, b |-> from, times |-> times]
Mul(to, a, b)       == [op |-> "mul", to |-> to, a |-> a, b |-> b, times |-> 1]

Names == {"z", "t0", "t1", "t2", "t3", "out"}

Invert ==
  << Sq("t0", "z", 1), Sq("t1", "t0", 2), Mul("t1", "z", "t1"), Mul("t0", "t0", "t1"),
     Sq("t2", "t0", 1), Mul("t1", "t1", "t2"), Sq("t2", "t1", 5), Mul("t1", "t2", "t1"),
     Sq("t2", "t1", 10), Mul("t2", "t2", "t1"), Sq("t3", "t2", 20), Mul("t2", "t3", "t2"),
     Sq("t2", "t2", 10), Mul("t1", "t2", "t1"), Sq("t2", "t1", 50), Mul("t2", "t2", "t1"),
     Sq("t3", "t2", 100), Mul("t2", "t3", "t2"), Sq("t2", "t2", 50), Mul("t1", "t2", "t1"),
     Sq("t1", "t1", 5), Mul("out", "t1", "t0") >>

Pow22523 ==
  << Sq("t0", "z", 1), Sq("t1", "t0", 2), Mul("t1", "z", "t1"), Mul("t0", "t0", "t1"),
     Sq("t0", "t0", 1), Mul("t0", "t1", "t0"), Sq("t1", "t0", 5), Mul("t0", "t1", "t0"),
     Sq("t1", "t0", 10), Mul("t1", "t1", "t0"), Sq("t2", "t1", 20), Mul("t1", "t2", "t1"),
     Sq("t1", "t1", 10), Mul("t0", "t1", "t0"), Sq("t1", "t0", 50), Mul("t1", "t1", "t0"),
     Sq("t2", "t1", 100), Mul("t1", "t2", "t1"), Sq("t1", "t1", 50), Mul("t0", "t1", "t0"),
     Sq("t0", "t0", 2), Mul("out", "t0", "z") >>

Lines == IF program = "invert" THEN Invert ELSE Pow22523

Init ==
  /\ program \in {"invert", "pow22523"} /\ at = 1 /\ left = 1
  /\ power = [n \in Names |-> IF n = "z" THEN {0} ELSE {}]

\* The line after this one, and its squarings.
Advance == at' = at + 1 /\ left' = IF at < Len(Lines) THEN Lines[at + 1].times ELSE 0

\* fe_sq(to, from), then fe_sq(to, to) until the line's squarings are done.
Square ==
  /\ at <= Len(Lines) /\ Lines[at].op = "sq"
  /\ LET line == Lines[at]
         from == IF left = line.times THEN line.a ELSE line.to
     IN power' = [power EXCEPT ![line.to] = {n + 1 : n \in power[from]}]
  /\ IF left > 1 THEN left' = left - 1 /\ at' = at ELSE Advance
  /\ UNCHANGED program

\* Exponents whose bits are apart add up to all of their bits.
Multiply ==
  /\ at <= Len(Lines) /\ Lines[at].op = "mul"
  /\ LET line == Lines[at]
     IN power' = [power EXCEPT ![line.to] = power[line.a] \cup power[line.b]]
  /\ Advance /\ UNCHANGED program

Finished == at > Len(Lines) /\ UNCHANGED vars

Next == Square \/ Multiply \/ Finished

Spec == Init /\ [][Next]_vars

-----------------------------------------------------------------------------
(* Properties. *)

\* No product carries: every line multiplies powers whose bits are apart, and
\* reads only what an earlier line wrote.
BitsApart ==
  at <= Len(Lines) =>
    LET line == Lines[at] IN
      /\ line.op = "mul" => power[line.a] \cap power[line.b] = {}
      /\ left = line.times => power[line.a] # {} /\ power[line.b] # {}

\* fe_invert ends at 2^255 - 21, so that it inverts every element but 0, and
\* fe_pow22523 at 2^252 - 3, as the square root of ge_frombytes needs.
ExponentsRight ==
  at > Len(Lines) =>
    power["out"] = IF program = "invert" THEN (0 .. 254) \ {2, 4} ELSE (0 .. 251) \ {1}
=============================================================================
