---------------------------- MODULE Base58Encode ----------------------------
(***************************************************************************)
(* simple_base58_encode_32 (src/kernels/base58_simple.cu), one pass of its *)
(* loop a step, and the properties of the encoders and suffix helpers.     *)
(***************************************************************************)
EXTENDS Base58

\* The buffers, a place for each digit of a group, hold the digits of every key and
\* a closing zero.
BufferFits == Length(Powers(ByteBase)[Bytes] - 1, Base) < Group * Groups

VARIABLES
  input,      \* the key
  limbs,      \* what is left of its number
  reversed,   \* the digits so far, lowest first
  passes,     \* passes made
  pc          \* "loop" or "done"

vars == <<input, limbs, reversed, passes, pc>>

Init ==
  /\ input \in Keys /\ limbs = ToLimbs(input) /\ reversed = <<>> /\ passes = 0 /\ pc = "loop"

\* Remainders of the long division by Radix, before each limb and at the end.
Remainder(l) ==
  LET r[i \in 0 .. Limbs] == IF i = 0 THEN 0 ELSE (r[i-1] * LimbBase + l[i]) % Radix IN r

Quotient(l) == [i \in 1 .. Limbs |-> (Remainder(l)[i-1] * LimbBase + l[i]) \div Radix]

\* A group of digits; the last pass stops when nothing is left.
Emitted(rest, r) ==
  LowDigits(r, Base, IF \A i \in 1 .. Limbs : rest[i] = 0 THEN Length(r, Base) ELSE Group)

\* Deviation: the remainder of the first limb only.
Pass_FirstLimb ==
  /\ pc = "loop" /\ \E i \in 1 .. Limbs : limbs[i] # 0
  /\ limbs' = Quotient(limbs)
  /\ reversed' = reversed \o Emitted(limbs', Remainder(limbs)[1])
  /\ passes' = passes + 1
  /\ UNCHANGED <<input, pc>>

Pass ==
  /\ pc = "loop" /\ \E i \in 1 .. Limbs : limbs[i] # 0
  /\ limbs' = Quotient(limbs)
  /\ reversed' = reversed \o Emitted(limbs', Remainder(limbs)[Limbs])
  /\ passes' = passes + 1
  /\ UNCHANGED <<input, pc>>

Leave ==
  /\ pc = "loop" /\ \A i \in 1 .. Limbs : limbs[i] = 0
  /\ pc' = "done"
  /\ UNCHANGED <<input, limbs, reversed, passes>>

Finished == pc = "done" /\ UNCHANGED vars

Next == Pass \/ Leave \/ Finished

Spec == Init /\ [][Next]_vars

\* What the procedure writes.
Encoded == Repeat0(LeadingZeros(input)) \o Reverse(reversed)

-----------------------------------------------------------------------------
(* Properties. *)

\* Loop invariant: what is left and the digits so far are the key, what is left
\* still fits its limbs, and there are no more passes and digits than the comments
\* and the buffers allow.
PassesExact ==
  /\ \A i \in 1 .. Limbs : limbs[i] \in 0 .. LimbBase - 1
  /\ Number(limbs, LimbBase) * Powers(Base)[Len(reversed)] + Number(Reverse(reversed), Base)
       = Number(input, ByteBase)
  /\ passes <= Groups
  /\ LeadingZeros(input) + Len(reversed) < Group * Groups

\* The device writes the standard encoding of every key.
EncodesRight == pc = "done" => Encoded = Reference(input)

\* The older encoder agrees with it.
FdEncodesRight == pc = "done" => FdEncode(input) = Reference(input)

\* The residue rejects no key whose address ends with the suffix, whatever the
\* suffix's length and however many zero bytes the key starts with.
ResidueNecessary ==
  pc = "done" =>
    \A n \in 1 .. Len(Encoded) : SuffixMatchMod(input, SubSeq(Encoded, Len(Encoded) - n + 1, Len(Encoded)))

\* base58_simple.cu:43 and 64: the suffix helper returns the last min(k, total
\* length) letters of the address, since leading '1's do not matter.
SuffixDocumented ==
  pc = "done" =>
    \A k \in 1 .. Len(Encoded) :
      SuffixDigits(input, k) = [i \in 1 .. k |-> Encoded[Len(Encoded) + 1 - i]]
=============================================================================
