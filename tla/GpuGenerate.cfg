CONSTANTS
  d1 = d1
  d2 = d2
  Devices = {d1, d2}
  Target = 2
  Saving = TRUE
SPECIFICATION GenFairSpec
INVARIANTS SavedWhenPrinted CountsAgree
PROPERTIES NeverOverwritten Scheduler AcceptedIsPrinted
