----------------------------- MODULE EthMatcher -----------------------------
(***************************************************************************)
(* An Ethereum address tested on both sides of the program, and the odds   *)
(* shown to the user: EthMatcher (src/src/matcher.rs) compares masked      *)
(* bytes, the kernel (src/kernels/eth_vanity_ultra.cu) hexadecimal digits, *)
(* and expected_attempts (src/src/progress.rs) multiplies the odds of the  *)
(* positions, which prefix and suffix may both constrain.                  *)
(*                                                                         *)
(* A digit of a pattern or an address is a number below Hex; the code has  *)
(* Hex = 16 and 20 bytes.                                                  *)
(***************************************************************************)
EXTENDS Integers, FiniteSets, SequencesExt

CONSTANTS
  Hex,         \* values of a digit (16)
  AddressBytes \* bytes of an address (20)

SizesFit == Hex \in Nat \ {0, 1} /\ AddressBytes \in Nat \ {0}

Digits == 2 * AddressBytes
Texts  == UNION {[1 .. n -> 0 .. Hex - 1] : n \in 0 .. Digits}
Addresses == [0 .. AddressBytes - 1 -> 0 .. Hex * Hex - 1]

VARIABLES
  prefix, suffix,   \* the patterns
  checks,           \* EthMatcher's checks: byte, half and value
  expected,         \* expected attempts; 0 stands for infinity
  pc                \* "new", "ready" or "done"

vars == <<prefix, suffix, checks, expected, pc>>

\* Where in the address each pattern starts.
Placed(p, s) == {<<0, p>>, <<Digits - Len(s), s>>}

\* Deviation: the halves are the digit's position in the pattern.
MakeChecks_ByPattern(p, s) ==
  UNION {{[byte |-> (at[1] + i - 1) \div 2, high |-> (i - 1) % 2 = 0, value |-> at[2][i]] :
            i \in DOMAIN at[2]} : at \in Placed(p, s)}

\* EthMatcher::new: each digit is the high or the low half of a byte.
MakeChecks(p, s) ==
  UNION {{[byte |-> (at[1] + i - 1) \div 2, high |-> (at[1] + i - 1) % 2 = 0, value |-> at[2][i]] :
            i \in DOMAIN at[2]} : at \in Placed(p, s)}

Half(b, high) == IF high THEN b \div Hex ELSE b % Hex

\* EthMatcher::matches
CpuMatches(a) == \A c \in checks : Half(a[c.byte], c.high) = c.value

\* address_to_hex_ultra
ToHex(a) == [i \in 1 .. Digits |-> Half(a[(i - 1) \div 2], i % 2 = 1)]

\* matches_target_eth_ultra
GpuMatches(a, p, s) ==
  /\ \A i \in DOMAIN p : Half(a[(i - 1) \div 2], (i - 1) % 2 = 0) = p[i]
  /\ \A i \in DOMAIN s : LET pos == Digits - Len(s) + i - 1 IN Half(a[pos \div 2], pos % 2 = 0) = s[i]

\* The digits a position may have, of what both patterns say of it.
Mask(pos, p, s) ==
  {d \in 0 .. Hex - 1 :
     \A at \in Placed(p, s) : \A i \in DOMAIN at[2] : at[1] + i = pos => at[2][i] = d}

\* The odds against the first digits: 1 for a position nothing is said of.
Odds(p, s) ==
  LET odds[pos \in 0 .. Digits] ==
        IF pos = 0 THEN 1 ELSE (odds[pos-1] * Hex) \div Cardinality(Mask(pos, p, s))
  IN odds

\* expected_attempts
Expected(p, s) ==
  IF \E pos \in 1 .. Digits : Mask(pos, p, s) = {} THEN 0 ELSE Odds(p, s)[Digits]

Init ==
  /\ prefix \in Texts /\ suffix \in Texts
  /\ checks = {} /\ expected = 0 /\ pc = "new"

Estimate ==
  /\ pc = "new" /\ expected' = Expected(prefix, suffix) /\ pc' = "ready"
  /\ UNCHANGED <<prefix, suffix, checks>>

Build ==
  /\ pc = "ready" /\ checks' = MakeChecks(prefix, suffix) /\ pc' = "done"
  /\ UNCHANGED <<prefix, suffix, expected>>

Finished == pc = "done" /\ UNCHANGED vars

Next == Estimate \/ Build \/ Finished

Spec == Init /\ [][Next]_vars

-----------------------------------------------------------------------------
(* Properties. *)

Wanted(a) == IsPrefix(prefix, ToHex(a)) /\ IsSuffix(suffix, ToHex(a))

\* The CPU's masked bytes accept exactly the addresses whose text starts with
\* the prefix and ends with the suffix, also where the two overlap.
CpuExact == pc = "done" => \A a \in Addresses : CpuMatches(a) <=> Wanted(a)

\* The kernel's comparison accepts the same ones.
GpuExact == pc = "done" => \A a \in Addresses : GpuMatches(a, prefix, suffix) <=> Wanted(a)

\* progress.rs:185: the expected number of attempts is exact for Ethereum,
\* overlapping prefix and suffix included, and infinite if no address matches.
ExpectedExact ==
  pc # "new" =>
    LET hits == Cardinality({a \in Addresses : Wanted(a)}) IN
      IF hits = 0 THEN expected = 0 ELSE expected * hits = Cardinality(Addresses)
=============================================================================
