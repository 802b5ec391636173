------------------------------ MODULE SecpWalk ------------------------------
(***************************************************************************)
(* The two walks over Ethereum keys, which go from one private key to the  *)
(* next and take the public key along by an addition: a thread of          *)
(* eth_vanity_search_ultra (src/kernels/eth_vanity_ultra.cu) with batches  *)
(* of additions, and EthWalk (src/src/eth_walk.rs) on the CPU, which meets *)
(* the end of the order.                                                   *)
(***************************************************************************)
EXTENDS SecpCurve

CONSTANTS
  ByteBase,    \* values of a byte (256)
  Bytes,       \* bytes of a private key (32)
  Iterations   \* bound: candidates of a thread

\* The powers of b.
Powers(b, n) == LET power[i \in 0 .. n] == IF i = 0 THEN 1 ELSE b * power[i-1] IN power

\* A key is a scalar, and no walk from a key below the top byte's last value reaches
\* the order or wraps.
ASSUME WalkAssumption ==
  /\ ByteBase \in Nat \ {0, 1} /\ Bytes \in Nat \ {0} /\ Iterations \in Nat
  /\ Powers(2, Bits)[Bits] = Powers(ByteBase, Bytes)[Bytes]
  /\ Iterations <= Powers(ByteBase, Bytes)[Bytes-1]
  /\ (ByteBase - 1) * Powers(ByteBase, Bytes)[Bytes-1] + Iterations + Batch < Order

VARIABLES
  walk,        \* "gpu" or "cpu"
  private,     \* the bytes of the private key, highest first; the scalar on the CPU
  public,      \* the public key
  batch,       \* the public keys of the batch
  iter         \* candidates so far

vars == <<walk, private, public, batch, iter>>

\* The numbers the first bytes of a key stand for, and the key itself.
Numbers(key) ==
  LET number[i \in 0 .. Bytes] == IF i = 0 THEN 0 ELSE number[i-1] * ByteBase + key[i] IN number
Number(key) == Numbers(key)[Bytes]

\* Drawn again while it is zero or its top byte is all ones.
GpuStart ==
  /\ walk = "gpu" /\ private \in [1 .. Bytes -> 0 .. ByteBase - 1]
  /\ Number(private) # 0 /\ private[1] # ByteBase - 1
  /\ public = PointMultiply(G, Number(private))

\* Any secret key.
CpuStart ==
  /\ walk = "cpu" /\ private \in 1 .. Order - 1 /\ public = Multiples[private]

WalkInit == (GpuStart \/ CpuStart) /\ batch = <<>> /\ iter = 0

\* The last byte and those before it, while there is a carry.
Incremented(key) ==
  [i \in 1 .. Bytes |-> IF \A j \in i + 1 .. Bytes : key[j] = ByteBase - 1
                        THEN (key[i] + 1) % ByteBase ELSE key[i]]

\* The end of a turn of the loop: the key is counted up, at the start of a batch
\* its public keys are computed, and one is taken.
GpuNext ==
  /\ walk = "gpu" /\ iter < Iterations /\ iter' = iter + 1
  /\ private' = Incremented(private)
  /\ batch' = (IF iter % Batch = 0 THEN AddBatch(public) ELSE batch)
  /\ public' = batch'[(iter % Batch) + 1]
  /\ UNCHANGED walk

\* advance: the scalar and one, or one where that is no key.
CpuNext ==
  /\ walk = "cpu" /\ iter < Iterations /\ iter' = iter + 1
  /\ IF private + 1 = Order THEN private' = 1 /\ public' = G
                            ELSE private' = private + 1 /\ public' = Plus(public, G)
  /\ UNCHANGED <<walk, batch>>

Finished == iter = Iterations /\ UNCHANGED vars

WalkNext == GpuNext \/ CpuNext \/ Finished

WalkSpec == WalkInit /\ [][WalkNext]_vars

-----------------------------------------------------------------------------
(* Properties. *)

\* Whatever key a walk starts from, at every candidate the public key is the
\* private key's: across batches, where the batch meets its own starting point
\* and is added one by one, where the increment carries, and at the end of the
\* order; and every batch is asked for within the scalars it is written for.
Paired ==
  IF walk = "gpu"
  THEN /\ public = Multiples[Number(private)]
       /\ iter % Batch = 0 => Number(private) \in 1 .. Order - Batch - 1
  ELSE private \in 1 .. Order - 1 /\ public = Multiples[private]
=============================================================================
