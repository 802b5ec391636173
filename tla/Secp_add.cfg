CONSTANTS
  N = 4
  LB = 4
  C = 9
  FirstLimbs = {0, 1, 8, 15}
  SecondLimbs = {0, 13, 15}
SPECIFICATION Spec
INVARIANTS AddDocumented
