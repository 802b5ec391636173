---------------------------- MODULE MCAddresses ----------------------------
(***************************************************************************)
(* From random bytes to an address and its test, side by side: a behaviour *)
(* is one of ChaChaStream, of HashStream (for each of its functions), of   *)
(* KeccakRound, of Base58Encode, of SolMatcher or of EthMatcher.  The      *)
(* variables of those that do not run keep their first value.              *)
(***************************************************************************)
EXTENDS Integers, Sequences

CONSTANTS
  WordBase, Words, DrawWords, Threads, MaxRounds,            \* ChaChaStream
  Block, Reserved, LengthBytes, HashByteBase, MaxLength,     \* HashStream
  Base, ByteBase, LimbBytes, Limbs, Group, ModDigits,        \* SolMatcher
  Letters, Alphabet, LowerCase, MaxPrefix, MaxSuffix,        \* SolMatcher
  Hex, AddressBytes,                                         \* EthMatcher
  EncoderBase, EncoderByteBase, EncoderLimbBytes, EncoderLimbs,   \* Base58Encode
  EncoderGroup, EncoderModDigits                                  \* Base58Encode

VARIABLES
  part,        \* "random", "hash", "keccak", "base58", "solana" or "ethereum"
  pc,          \* the last four, and HashStream
  rounds, states, words, offset, drawn, begun, total,       \* ChaChaStream
  algorithm, size, fed, left, buf, cur, counted, blocks, \* HashStream
  code, stage, row, step, block, temp,                      \* KeccakRound
  input, limbs, reversed, passes,   \* Base58Encode
  prefix, suffix,                   \* both matchers
  key, ignore, cpu, gpu,            \* SolMatcher
  checks, expected                  \* EthMatcher

Random == INSTANCE ChaChaStream

Hash == INSTANCE HashStream WITH ByteBase <- HashByteBase

Keccak == INSTANCE KeccakRound

Encoder == INSTANCE Base58Encode WITH
  Base <- EncoderBase, ByteBase <- EncoderByteBase, LimbBytes <- EncoderLimbBytes,
  Limbs <- EncoderLimbs, Group <- EncoderGroup, ModDigits <- EncoderModDigits

Sol == INSTANCE SolMatcher

Eth == INSTANCE EthMatcher

ASSUME SizesAssumption ==
  /\ Random!StreamFits /\ Hash!SizesFit
  /\ Encoder!SizesFit /\ Encoder!BufferFits /\ Sol!SizesFit /\ Sol!AlphabetFits /\ Eth!SizesFit

RandomVars  == <<rounds, states, words, offset, drawn, begun, total>>
HashVars    == <<algorithm, size, fed, left, buf, cur, counted, blocks>>
KeccakVars  == <<code, stage, row, step, block, temp>>
EncoderVars == <<input, limbs, reversed, passes>>
Patterns    == <<prefix, suffix>>
SolVars     == <<key, ignore, cpu, gpu>>
EthVars     == <<checks, expected>>

NoRandom  ==
  /\ rounds = 0 /\ states = 0 /\ words = 0 /\ offset = 0 /\ drawn = {} /\ begun = 0 /\ total = 0
NoHash    ==
  /\ algorithm = "" /\ size = 0 /\ fed = 0 /\ left = 0 /\ buf = 0 /\ cur = 0 /\ counted = 0
  /\ blocks = 0
NoKeccak  == code = "" /\ stage = "" /\ row = 0 /\ step = 0 /\ block = 0 /\ temp = 0
NoEncoder == input = 0 /\ limbs = 0 /\ reversed = 0 /\ passes = 0
NoPattern == prefix = 0 /\ suffix = 0
NoSol     == key = 0 /\ ignore = 0 /\ cpu = 0 /\ gpu = 0
NoEth     == checks = 0 /\ expected = 0
NoTest    == NoPattern /\ NoSol /\ NoEth

Init ==
  \/ part = "random"   /\ pc = "" /\ Random!Init /\ NoHash /\ NoKeccak /\ NoEncoder /\ NoTest
  \/ part = "hash"     /\ Hash!Init /\ NoRandom /\ NoKeccak /\ NoEncoder /\ NoTest
  \/ part = "keccak"   /\ pc = "" /\ Keccak!Init /\ NoRandom /\ NoHash /\ NoEncoder /\ NoTest
  \/ part = "base58"   /\ Encoder!Init /\ NoRandom /\ NoHash /\ NoKeccak /\ NoTest
  \/ part = "solana"   /\ Sol!Init /\ NoRandom /\ NoHash /\ NoKeccak /\ NoEncoder /\ NoEth
  \/ part = "ethereum" /\ Eth!Init /\ NoRandom /\ NoHash /\ NoKeccak /\ NoEncoder /\ NoSol

Next ==
  /\ UNCHANGED part
  /\ \/ part = "random"   /\ Random!Next
        /\ UNCHANGED <<pc, HashVars, KeccakVars, EncoderVars, Patterns, SolVars, EthVars>>
     \/ part = "hash"     /\ Hash!Next
        /\ UNCHANGED <<RandomVars, KeccakVars, EncoderVars, Patterns, SolVars, EthVars>>
     \/ part = "keccak"   /\ Keccak!Next
        /\ UNCHANGED <<pc, RandomVars, HashVars, EncoderVars, Patterns, SolVars, EthVars>>
     \/ part = "base58"   /\ Encoder!Next
        /\ UNCHANGED <<RandomVars, HashVars, KeccakVars, Patterns, SolVars, EthVars>>
     \/ part = "solana"   /\ Sol!Next
        /\ UNCHANGED <<RandomVars, HashVars, KeccakVars, EncoderVars, EthVars>>
     \/ part = "ethereum" /\ Eth!Next
        /\ UNCHANGED <<RandomVars, HashVars, KeccakVars, EncoderVars, SolVars>>

Spec ==
  Init /\ [][Next]_<<part, pc, RandomVars, HashVars, KeccakVars, EncoderVars, Patterns, SolVars, EthVars>>

-----------------------------------------------------------------------------
(* Values of the constants of a run. *)

\* "L" is in the alphabet and "l" is not; "A" and "a" are one letter without case;
\* "0" is not in the alphabet in any case.
SmallAlphabet  == <<"1", "A", "L", "a">>
SmallLowerCase == [c \in Letters |-> CASE c = "A" -> "a" [] c = "L" -> "l" [] OTHER -> c]

-----------------------------------------------------------------------------
(* Properties. *)

\* No words of a random stream are drawn twice; the hash functions get the
\* blocks of the padded message, however it is cut.
StreamsExact ==
  /\ part = "random" => Random!DrawsFresh
  /\ part = "hash" => Hash!BlocksExact

\* A round of the Ethereum kernel's permutation is a round of Keccak, on the
\* padded key, and the address is its last bytes.  The older encoder writes the
\* Base58 of every key, zero bytes at its front included; the suffix residue
\* rejects no key whose address, as the encoder of the search writes it, ends with
\* the suffix.
AddressesExact ==
  /\ part = "keccak" => Keccak!AddressHashExact
  /\ part = "base58" => Encoder!FdEncodesRight /\ Encoder!ResidueNecessary

\* The encoder of the search writes the Base58 of every key, zero bytes at its
\* front included, loses no digit from pass to pass and stays within its buffers.
\* The CPU and the kernel decide a Solana candidate alike, encode the same ones,
\* and accept exactly those whose address starts and ends as asked; no pattern
\* is let through that no address can match.
SolanaExact ==
  /\ part = "base58" => Encoder!PassesExact /\ Encoder!EncodesRight
  /\ part = "solana" => Sol!CpuExact /\ Sol!DeviceAgrees /\ Sol!EveryLetterPossible

\* The CPU's masked bytes and the kernel's digits accept exactly the Ethereum
\* addresses asked for, and the expected number of attempts is exact, also where
\* prefix and suffix overlap, agreeing or not.
EthereumExact ==
  part = "ethereum" => Eth!CpuExact /\ Eth!GpuExact /\ Eth!ExpectedExact
=============================================================================
