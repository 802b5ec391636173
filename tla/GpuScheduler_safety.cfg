\* Three devices.
CONSTANTS
  d1 = d1
  d2 = d2
  d3 = d3
  Devices = {d1, d2, d3}
  Target = 2
SPECIFICATION Spec
INVARIANTS
  IInv SendNeverWaits HitsBounded OkIsEarned NothingLeftBehind ReleasedWhenReported
PROPERTIES
  NoLateHit Refines
