----------------------------- MODULE HashStream -----------------------------
(***************************************************************************)
(* Which blocks the hash functions of src/kernels see: the buffering and   *)
(* padding of SHA-512 (ed25519/sha512.cu), of SHA-256 (sha256.cu) and of   *)
(* Keccak (keccak256.cu), for a message that comes in pieces.  Compressing *)
(* and permuting a block is recorded, not computed.  A byte of the message *)
(* is its position.  What a buffer held before stays in it until it is     *)
(* written.                                                                *)
(***************************************************************************)
EXTENDS Integers, Sequences

CONSTANTS
  Block,       \* bytes of a block (128, 64, 136)
  Reserved,    \* bytes at its end before which SHA-512 and SHA-256 end their padding (16, 8)
  LengthBytes, \* bytes of the length that are written (8)
  ByteBase,    \* values of a byte (256)
  MaxLength    \* bound: bytes of a message

SizesFit ==
  /\ Block \in Nat /\ Reserved \in 0 .. Block - 1 /\ LengthBytes \in 1 .. Reserved
  /\ ByteBase \in Nat \ {0} /\ MaxLength \in Nat /\ 8 * MaxLength < ByteBase ^ LengthBytes

VARIABLES
  algorithm,   \* "sha512", "sha256" or "keccak"
  size,       \* bytes of the message
  fed,         \* bytes taken in
  left,        \* bytes left of the piece that is taken in
  buf, cur,    \* the buffer and what of it is filled
  counted,     \* bits of the blocks compressed
  blocks,      \* the blocks compressed
  pc           \* "update", "final" or "done"

vars == <<algorithm, size, fed, left, buf, cur, counted, blocks, pc>>

Cells == 0 .. Block - 1
Byte(i) == [kind |-> "byte", value |-> i]
Mark(n) == [kind |-> "pad", value |-> n]
Zero    == Mark(0)
Digit(n, j) == [kind |-> "length", value |-> (n \div ByteBase ^ j) % ByteBase]

\* The length in bits in a block's last bytes, highest first.
WithLength(b, bits) ==
  [j \in Cells |-> IF j >= Block - LengthBytes THEN Digit(bits, Block - 1 - j) ELSE b[j]]

Init ==
  /\ algorithm \in {"sha512", "sha256", "keccak"} /\ size \in 0 .. MaxLength
  /\ fed = 0 /\ left = 0 /\ cur = 0 /\ counted = 0 /\ blocks = <<>> /\ pc = "update"
  /\ buf = [j \in Cells |-> IF algorithm = "keccak" THEN Zero ELSE [kind |-> "junk", value |-> j]]

\* The caller passes the next piece; keccak256 has all of it.
NextPiece ==
  /\ pc = "update" /\ left = 0 /\ fed < size
  /\ left' \in IF algorithm = "keccak" THEN {size} ELSE 1 .. size - fed
  /\ UNCHANGED <<algorithm, size, fed, buf, cur, counted, blocks, pc>>

Takes(n) == fed' = fed + n /\ left' = left - n /\ UNCHANGED <<algorithm, size, pc>>
Message(n) == [j \in 0 .. n - 1 |-> Byte(fed + j)]

\* The buffer with n bytes more.
Filled(n) == [j \in Cells |-> IF j \in cur .. cur + n - 1 THEN Message(n)[j - cur] ELSE buf[j]]

\* sha512_update: a whole block is compressed where it is.
WholeBlock ==
  /\ algorithm = "sha512" /\ left >= Block /\ cur = 0 /\ Takes(Block)
  /\ blocks' = Append(blocks, Message(Block)) /\ counted' = counted + 8 * Block
  /\ UNCHANGED <<buf, cur>>

\* As many bytes as the buffer has room for; SHA-256 takes one at a time.
Fill ==
  /\ left > 0
  /\ LET room == Block - cur
         n    == IF algorithm = "sha256" THEN 1 ELSE IF left < room THEN left ELSE room
     IN /\ algorithm = "sha512" => cur > 0 \/ left < Block
        /\ Takes(n)
        /\ IF n = room
           THEN /\ blocks' = Append(blocks, Filled(n)) /\ cur' = 0 /\ counted' = counted + 8 * Block
                /\ buf' = IF algorithm = "keccak" THEN [j \in Cells |-> Zero] ELSE Filled(n)
           ELSE /\ buf' = Filled(n) /\ cur' = cur + n /\ UNCHANGED <<blocks, counted>>

CallFinal ==
  /\ pc = "update" /\ left = 0 /\ fed = size /\ pc' = "final"
  /\ UNCHANGED <<algorithm, size, fed, left, buf, cur, counted, blocks>>

\* Deviation: the length fits after any mark that is in the block.
ShaFinal_Late ==
  /\ pc = "final" /\ algorithm \in {"sha512", "sha256"}
  /\ LET bits   == counted + 8 * cur
         marked == [buf EXCEPT ![cur] = Mark(128)]
         upTo(b, from) == [j \in Cells |-> IF j >= from THEN Zero ELSE b[j]]
     IN blocks' = Append(blocks, WithLength(upTo(marked, cur + 1), bits))
  /\ pc' = "done" /\ UNCHANGED <<algorithm, size, fed, left, buf, cur, counted>>

\* A mark and zeros; if the length does not fit after them, in a block of its
\* own.
ShaFinal ==
  /\ pc = "final" /\ algorithm \in {"sha512", "sha256"}
  /\ LET bits   == counted + 8 * cur
         marked == [buf EXCEPT ![cur] = Mark(128)]
         upTo(b, from) == [j \in Cells |-> IF j >= from THEN Zero ELSE b[j]]
     IN blocks' = IF cur + 1 > Block - Reserved
                  THEN blocks \o <<upTo(marked, cur + 1), WithLength(upTo(marked, 0), bits)>>
                  ELSE Append(blocks, WithLength(upTo(marked, cur + 1), bits))
  /\ pc' = "done" /\ UNCHANGED <<algorithm, size, fed, left, buf, cur, counted>>

\* A mark after the message and one in the last byte, which may be the same.
KeccakFinal ==
  /\ pc = "final" /\ algorithm = "keccak"
  /\ LET at == size % Block
     IN blocks' = Append(blocks, [j \in Cells |->
          IF j \in {at, Block - 1}
          THEN IF j = Block - 1 THEN IF j = at THEN Mark(129) ELSE Mark(128) ELSE Mark(1)
          ELSE buf[j]])
  /\ pc' = "done" /\ UNCHANGED <<algorithm, size, fed, left, buf, cur, counted>>

Finished == pc = "done" /\ UNCHANGED vars

Next == NextPiece \/ WholeBlock \/ Fill \/ CallFinal \/ ShaFinal \/ KeccakFinal \/ Finished

Spec == Init /\ [][Next]_vars

-----------------------------------------------------------------------------
(* Properties. *)

\* The padded message: with room for the length after the mark, or for the two
\* marks, in the last of Count blocks.
Count == IF algorithm = "keccak" THEN size \div Block + 1 ELSE (size + Reserved) \div Block + 1
PaddedKeccak(n) ==
  IF n = size THEN IF n = Count * Block - 1 THEN Mark(129) ELSE Mark(1)
  ELSE IF n = Count * Block - 1 THEN Mark(128) ELSE Zero
PaddedSha(n) ==
  IF n = size THEN Mark(128)
  ELSE IF n >= Count * Block - LengthBytes THEN Digit(8 * size, Count * Block - 1 - n) ELSE Zero
Padded(n) ==
  IF n < size THEN Byte(n) ELSE IF algorithm = "keccak" THEN PaddedKeccak(n) ELSE PaddedSha(n)

\* The blocks are those of the padded message, for every length around a block's
\* end and however the message was cut into pieces; nothing of what a buffer
\* held before gets into a block.
BlocksExact ==
  pc = "done" =>
    /\ Len(blocks) = Count
    /\ \A b \in 1 .. Count, j \in Cells : blocks[b][j] = Padded((b - 1) * Block + j)
=============================================================================
