CONSTANTS
  Base = 3
  ByteBase = 5
  LimbBytes = 2
  Limbs = 3
  Group = 2
  ModDigits = 2
SPECIFICATION Spec
INVARIANTS SuffixDocumented
