CONSTANTS
  \* A curve of prime order, with room above the last key a thread can draw.
  Prime = 349
  Order = 313
  GX = 2
  GY = 109
  Batch = 4
  Bits = 8
  ByteBase = 16
  Bytes = 2
  Iterations = 10
SPECIFICATION Spec
INVARIANTS FieldExact WalksPaired
