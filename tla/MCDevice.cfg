CONSTANTS
  Explicit = 0
  Start = 16
  Target = 12
  MaxIters = 200
  Steps = 8
  Speeds <- Devices
  Requested = 2
  CheckEvery = 2
  MaxRounds = 2
  EthIters = 5
  BatchSize = 2
  Order = 9
  SolIters = 4
  \* Seed 2 has the residue of the suffix and not the suffix.
  Seeds = {1, 2, 3, 4}
  Residue = {2, 3, 4}
  PrefixOk = {1, 3, 4}
  SuffixOk = {3, 4}
SPECIFICATION DeviceSpec
INVARIANTS NoPanic Settles RoundIsOne CountsExact KeysPaired MemoryOwned
