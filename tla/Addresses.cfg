CONSTANTS
  WordBase = 2
  Words = 4
  DrawWords = 2
  Threads = {1, 3}
  MaxRounds = 2
  \* Messages of up to two blocks and a quarter, cut anywhere.
  Block = 8
  Reserved = 3
  LengthBytes = 2
  HashByteBase = 16
  MaxLength = 18
  \* Two bytes, a limb each, in four letters.
  Base = 4
  ByteBase = 5
  LimbBytes = 1
  Limbs = 2
  Group = 2
  ModDigits = 2
  Letters = {"1", "A", "L", "a", "l", "0"}
  Alphabet <- SmallAlphabet
  LowerCase <- SmallLowerCase
  MaxPrefix = 1
  MaxSuffix = 3
  Hex = 3
  AddressBytes = 2
  \* Three limbs of two bytes of base 5, in base 3.
  EncoderBase = 3
  EncoderByteBase = 5
  EncoderLimbBytes = 2
  EncoderLimbs = 3
  EncoderGroup = 2
  EncoderModDigits = 2
SPECIFICATION Spec
INVARIANTS StreamsExact AddressesExact SolanaExact EthereumExact
