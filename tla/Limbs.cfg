SPECIFICATION Spec
INVARIANTS ArithmeticExact MagnitudesFit
