SPECIFICATION Spec
INVARIANTS PointsExact VerifyExact
