\* No symmetry: it is not sound for liveness.
CONSTANTS
  d1 = d1
  d2 = d2
  Devices = {d1, d2}
  Target = 2
SPECIFICATION FairSpec
PROPERTIES StopLeadsToAnswer AckComes FailureSurfaces
