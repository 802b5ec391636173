------------------------------- MODULE Base58 -------------------------------
(***************************************************************************)
(* Base58 of keys: numbers and texts, the suffix helpers of                *)
(* src/kernels/base58_simple.cu and the older fd_base58_encode_32          *)
(* (src/kernels/base58.cu); Base58Encode has the encoder of the search.    *)
(* The sizes are parameters: the code has 8 limbs of 4 bytes of base 256,  *)
(* base 58, groups of 5 digits and residues of 4.  A text is a sequence of *)
(* digits; digit 0 is the letter '1'.                                      *)
(***************************************************************************)
EXTENDS Integers, SequencesExt

CONSTANTS
  Base,        \* letters of the alphabet (58)
  ByteBase,    \* values of a byte (256)
  LimbBytes,   \* bytes of a limb (4)
  Limbs,       \* limbs of a key (8)
  Group,       \* digits a pass emits (5)
  ModDigits    \* digits of the suffix residue (4)

SizesFit ==
  /\ Base \in Nat \ {0, 1} /\ ByteBase \in Nat /\ ByteBase > Base
  /\ LimbBytes \in Nat \ {0} /\ Limbs \in Nat \ {0}
  /\ Group \in Nat \ {0} /\ ModDigits \in Nat \ {0}

\* The powers of b.
Powers(b) == LET power[n \in Nat] == IF n = 0 THEN 1 ELSE power[n-1] * b IN power

LimbBase == Powers(ByteBase)[LimbBytes]
Radix    == Powers(Base)[Group]
Bytes    == LimbBytes * Limbs
Keys     == [1 .. Bytes -> 0 .. ByteBase - 1]

\* The numbers the first digits of a sequence stand for, and all of them, first
\* digit highest.
Numbers(s, b) ==
  LET number[i \in 0 .. Len(s)] == IF i = 0 THEN 0 ELSE number[i-1] * b + s[i] IN number
Number(s, b) == Numbers(s, b)[Len(s)]

\* The n digits of a number in base b, lowest first.
LowDigits(v, b, n) == [i \in 1 .. n |-> (v \div Powers(b)[i-1]) % b]

\* The length of a positive number in base b; 0 for 0.
Length(v, b) == IF v = 0 THEN 0 ELSE CHOOSE n \in 1 .. v : Powers(b)[n-1] <= v /\ v < Powers(b)[n]

Repeat0(n) == [i \in 1 .. n |-> 0]

\* Big-endian limbs of a key.
ToLimbs(key) == [i \in 1 .. Limbs |-> Number(SubSeq(key, (i-1) * LimbBytes + 1, i * LimbBytes), ByteBase)]

\* Zero bytes at the front of a key; each becomes a '1'.
LeadingZeros(key) ==
  CHOOSE z \in 0 .. Bytes : (\A i \in 1 .. z : key[i] = 0) /\ (z < Bytes => key[z+1] # 0)

\* Base58 as it is defined: a '1' for every leading zero byte, then the digits
\* of the number without leading zeros.
Reference(key) ==
  LET v == Number(key, ByteBase)
  IN Repeat0(LeadingZeros(key)) \o Reverse(LowDigits(v, Base, Length(v, Base)))

-----------------------------------------------------------------------------
(* fd_base58_encode_32: a table of the powers of the limb base in groups. *)

\* INTERMEDIATE_SZ: groups of a key.
Groups == Length(Powers(ByteBase)[Bytes] - 1, Radix)

\* enc_table_32[i]: the i-th limb's weight in base Radix, highest first.
EncTable == [i \in 1 .. Limbs |-> Reverse(LowDigits(Powers(LimbBase)[Limbs - i], Radix, Groups - 1))]

\* The products summed up by column, then carried into groups.
Intermediate(key) ==
  LET l == ToLimbs(key)
      sum(j) == IF j = 1 THEN 0 ELSE FoldLeft(LAMBDA a, i : a + l[i] * EncTable[i][j-1], 0, [i \in 1 .. Limbs |-> i])
      up[i \in 1 .. Groups] == IF i = Groups THEN sum(i) ELSE sum(i) + up[i+1] \div Radix
  IN [i \in 1 .. Groups |-> IF i = 1 THEN up[i] ELSE up[i] % Radix]

\* The digits of the groups, without the leading zeros that no zero byte
\* stands for.
FdEncode(key) ==
  LET raw  == FoldLeft(LAMBDA a, v : a \o Reverse(LowDigits(v, Base, Group)), <<>>, Intermediate(key))
      zero == CHOOSE z \in 0 .. Len(raw) : (\A i \in 1 .. z : raw[i] = 0) /\ (z < Len(raw) => raw[z+1] # 0)
  IN SubSeq(raw, zero - LeadingZeros(key) + 1, Len(raw))

-----------------------------------------------------------------------------
(* The suffix helpers. *)

\* simple_base58_suffix_32: at most k digits, last first, without the ones
\* that stand for zero bytes; the number zero has one digit.
SuffixDigits(key, k) ==
  LET v == Number(key, ByteBase)
      n == IF v = 0 THEN 1 ELSE Length(v, Base)
  IN LowDigits(v, Base, IF k < n THEN k ELSE n)

\* The number modulo a power of Base, limb by limb.
Residues(key) ==
  LET limb == ToLimbs(key)
      residue[i \in 0 .. Limbs] ==
        IF i = 0 THEN 0 ELSE (residue[i-1] * LimbBase + limb[i]) % Powers(Base)[ModDigits]
  IN residue
Residue(key) == Residues(key)[Limbs]

\* base58_suffix_match_mod_32: the last digits against the end of the suffix.
SuffixMatchMod(key, suffix) ==
  \A i \in 1 .. (IF Len(suffix) < ModDigits THEN Len(suffix) ELSE ModDigits) :
    LowDigits(Residue(key), Base, ModDigits)[i] = suffix[Len(suffix) + 1 - i]
=============================================================================
