---------------------------- MODULE KeccakRound ----------------------------
(***************************************************************************)
(* The permutation under the addresses of Ethereum: a round of             *)
(* block_permute with what keccak256_address packs and takes out           *)
(* (src/kernels/keccak256_mrspike.h), and a round of keccak_f1600          *)
(* (src/kernels/keccak256.cu, which the kernels that are compiled do not   *)
(* call).                                                                  *)
(*                                                                         *)
(* Every number is its own: 25 lanes of 64 bits.  A lane is computed with  *)
(* once for all its values, as a set with the symmetric difference for ^ . *)
(* Until chi it is the set of the first lanes it is a sum of, each with    *)
(* its rotation; in chi, which works bit by bit, the set of the rows for   *)
(* which its bit is one; in what is packed, the sequence of its bytes from *)
(* the lowest.                                                             *)
(***************************************************************************)
EXTENDS Integers, SequencesExt

VARIABLES
  code,      \* "address" (block_permute) or "plain" (keccak_f1600)
  stage,     \* "theta", "rhopi", "chi", "iota", "pack", "take" or what is then done
  row,       \* the row of chi
  step,      \* lines run, or the round
  block,     \* the lanes
  temp       \* temp1, temp2

vars == <<code, stage, row, step, block, temp>>

Side  == 0 .. 4
Lanes == 0 .. 24
Bits  == 64

\* Where a code keeps the lane of a column and a row.
At(x, y)  == IF code = "address" THEN 5 * x + y ELSE x + 5 * y
Column(i) == IF code = "address" THEN i \div 5 ELSE i % 5
Row(i)    == IF code = "address" THEN i % 5 ELSE i \div 5

Xor(a, b) == (a \ b) \cup (b \ a)
Rotate(lane, n) == {[p EXCEPT !.by = (p.by + n) % Bits] : p \in lane}

Symbol(x, y) == {[x |-> x, y |-> y, by |-> 0]}
Rows         == SUBSET Side
OneIn(x)     == {r \in Rows : x \in r}

\* Where a computation starts: at the top of a round, at chi with any bits in one
\* row, at the first constant, and at both ends of an address.
Init ==
  /\ code \in {"address", "plain"} /\ temp = <<{}, {}>> /\ step = 0 /\ row \in Side
  /\ stage \in {"theta", "chi", "iota"} \cup (IF code = "address" THEN {"pack", "take"} ELSE {})
  /\ stage # "chi" => row = 0
  /\ block = [i \in Lanes |->
       CASE stage = "theta" -> Symbol(Column(i), Row(i))
         [] stage = "chi"   -> IF Row(i) = row THEN OneIn(Column(i)) ELSE {}
         [] stage = "iota"  -> {}
         [] stage = "pack"  -> [k \in 1 .. 8 |-> 0]
         [] stage = "take"  -> [k \in 1 .. 8 |-> [lane |-> i, byte |-> k - 1]]]

-----------------------------------------------------------------------------
\* The sums of the columns, and to each lane two of them.
Theta ==
  /\ stage = "theta" /\ stage' = "rhopi"
  /\ LET C == [x \in Side |-> FoldLeft(Xor, {}, [y \in 1 .. 5 |-> block[At(x, y - 1)]])]
         D == [x \in Side |-> Xor(C[(x + 4) % 5], Rotate(C[(x + 1) % 5], 1))]
     IN block' = [i \in Lanes |-> Xor(block[i], D[Column(i)])]
  /\ UNCHANGED <<code, row, step, temp>>

\* block_permute's moves in place, from the lane that temp1 has the value of: to,
\* from and rotation.
Moves == <<
  <<8, 1, 36>>, <<1, 15, 28>>, <<15, 18, 21>>, <<18, 13, 15>>, <<13, 7, 10>>, <<7, 11, 6>>,
  <<11, 2, 3>>, <<2, 5, 1>>, <<5, 6, 44>>, <<6, 21, 20>>, <<21, 14, 61>>, <<14, 22, 39>>,
  <<22, 4, 18>>, <<4, 10, 62>>, <<10, 12, 43>>, <<12, 17, 25>>, <<17, 23, 8>>, <<23, 19, 56>>,
  <<19, 3, 41>>, <<3, 20, 27>>, <<20, 24, 14>>, <<24, 9, 2>>, <<9, 16, 55>> >>
LastMove == <<16, 45>>

SaveFirst ==
  /\ code = "address" /\ stage = "rhopi" /\ step = 0
  /\ temp' = <<block[8], {}>> /\ step' = 1 /\ UNCHANGED <<code, stage, row, block>>

Move ==
  /\ code = "address" /\ stage = "rhopi" /\ step \in 1 .. Len(Moves)
  /\ LET m == Moves[step] IN block' = [block EXCEPT ![m[1]] = Rotate(block[m[2]], m[3])]
  /\ step' = step + 1 /\ UNCHANGED <<code, stage, row, temp>>

MoveLast ==
  /\ code = "address" /\ stage = "rhopi" /\ step = Len(Moves) + 1
  /\ block' = [block EXCEPT ![LastMove[1]] = Rotate(temp[1], LastMove[2])]
  /\ stage' = "linear" /\ UNCHANGED <<code, row, step, temp>>

\* keccak_f1600's: all lanes into an array of their own.
RotationOffsets == << <<0, 36, 3, 41, 18>>, <<1, 44, 10, 45, 2>>, <<62, 6, 43, 15, 61>>,
                      <<28, 55, 25, 21, 56>>, <<27, 20, 39, 8, 14>> >>
MoveAll ==
  /\ code = "plain" /\ stage = "rhopi"
  /\ LET Source(i) == CHOOSE p \in Side \X Side :
           (((p[1] + 1) + (p[2] + 1) * 2) % 5) + 5 * ((p[1] + 3 * p[2]) % 5) = i
     IN block' = [i \in Lanes |-> LET p == Source(i)
                                  IN Rotate(block[p[1] + 5 * p[2]], RotationOffsets[p[2] + 1][p[1] + 1])]
  /\ stage' = "linear" /\ UNCHANGED <<code, row, step, temp>>

\* In a row every bit gets a product of the next two.  block_permute works in
\* place, from left to right, with the first two kept; keccak_f1600 has an array
\* of the old ones.
SaveTwo ==
  /\ code = "address" /\ stage = "chi" /\ step = 0 /\ step' = 1
  /\ temp' = <<block[At(0, row)], block[At(1, row)]>> /\ UNCHANGED <<code, stage, row, block>>

Chi(a, b, c) == Xor(a, (Rows \ b) \cap c)
ChiLine ==
  /\ code = "address" /\ stage = "chi" /\ step \in 1 .. 5
  /\ LET x == step - 1
         Operand(k) == IF k < 5 THEN block[At(k, row)] ELSE temp[k - 4]
     IN block' = [block EXCEPT ![At(x, row)] = Chi(@, Operand(x + 1), Operand(x + 2))]
  /\ step' = step + 1 /\ stage' = (IF step = 5 THEN "row" ELSE stage) /\ UNCHANGED <<code, row, temp>>

ChiAll ==
  /\ code = "plain" /\ stage = "chi" /\ stage' = "row"
  /\ block' = [i \in Lanes |-> IF Row(i) # row THEN block[i] ELSE
       Chi(block[i], block[At((Column(i) + 1) % 5, row)], block[At((Column(i) + 2) % 5, row)])]
  /\ UNCHANGED <<code, row, step, temp>>

IotaConstants == <<
  {0}, {1, 7, 15}, {1, 3, 7, 15, 63}, {15, 31, 63}, {0, 1, 3, 7, 15}, {0, 31},
  {0, 7, 15, 31, 63}, {0, 3, 15, 63}, {1, 3, 7}, {3, 7}, {0, 3, 15, 31}, {1, 3, 31},
  {0, 1, 3, 7, 15, 31}, {0, 1, 3, 7, 63}, {0, 3, 7, 15, 63}, {0, 1, 15, 63}, {1, 15, 63}, {7, 63},
  {1, 3, 15}, {1, 3, 31, 63}, {0, 7, 15, 31, 63}, {7, 15, 63}, {0, 31}, {3, 15, 31, 63} >>

\* The constants, round by round, into the first lane; what else is in it is left
\* out.
Iota ==
  /\ stage = "iota" /\ step < Len(IotaConstants)
  /\ block' = [block EXCEPT ![0] = IotaConstants[step + 1]]
  /\ step' = step + 1 /\ UNCHANGED <<code, stage, row, temp>>

\* keccak256_address: the coordinates' bytes, in words of four, and the two marks
\* of the padding.
Coordinate(k) == 256 + k          \* the name of their byte k in 0 .. 63; not a value
Packing == <<0, 5, 10, 15, 20, 1, 6, 11>>
Pack ==
  /\ stage = "pack" /\ stage' = "packed"
  /\ LET Word(n) == [k \in 1 .. 4 |-> Coordinate(4 * n + 4 - k)]
         Mark(at, value) == [k \in 1 .. 8 |-> IF k = at THEN value ELSE 0]
     IN block' = [i \in Lanes |->
          IF \E n \in 1 .. 8 : Packing[n] = i
          THEN LET n == CHOOSE n \in 1 .. 8 : Packing[n] = i
               IN Reverse(Word(2 * n - 1) \o Word(2 * n - 2))
          ELSE IF i = 16 THEN Mark(1, 1) ELSE IF i = 8 THEN Mark(8, 128) ELSE block[i]]
  /\ UNCHANGED <<code, row, step, temp>>

\* The address: half a lane and two lanes, each with its bytes exchanged and
\* written as words, the highest byte first.
Take ==
  /\ stage = "take" /\ stage' = "taken"
  /\ LET Low(l)  == SubSeq(l, 1, 4)
         High(l) == SubSeq(l, 5, 8)
         b == Reverse(block[5])  c == Reverse(block[10])  d == Reverse(block[15])
     IN temp' = Reverse(Low(b)) \o Reverse(High(c)) \o Reverse(Low(c)) \o Reverse(High(d)) \o Reverse(Low(d))
  /\ UNCHANGED <<code, row, step, block>>

Finished ==
  /\ \/ stage \in {"linear", "row", "packed", "taken"}
     \/ stage = "iota" /\ step = Len(IotaConstants)
  /\ UNCHANGED vars

Next ==
  \/ Theta \/ SaveFirst \/ Move \/ MoveLast \/ MoveAll \/ SaveTwo \/ ChiLine \/ ChiAll \/ Iota
  \/ Pack \/ Take \/ Finished

Spec == Init /\ [][Next]_vars

-----------------------------------------------------------------------------
(* Properties: Keccak as FIPS 202 defines it. *)

\* Theta, rho along the walk from (1, 0), and pi.
StandardTheta(x, y) ==
  LET Col(u) == UNION {Symbol(u % 5, v) : v \in Side}
  IN Xor(Symbol(x, y), Xor(Col(x + 4), Rotate(Col(x + 1), 1)))
Times(n) == [k \in 1 .. n |-> k]
Turned(p, k) == <<p[2], (2 * p[1] + 3 * p[2]) % 5>>
Turn(t) == FoldLeft(Turned, <<1, 0>>, Times(t))
Rho(x, y) ==
  IF x = 0 /\ y = 0 THEN 0
  ELSE LET t == CHOOSE t \in 0 .. 23 : Turn(t) = <<x, y>> IN ((t + 1) * (t + 2)) \div 2
LinearExact ==
  stage = "linear" => \A x, y \in Side :
    block[At(y, (2 * x + 3 * y) % 5)] = Rotate(StandardTheta(x, y), Rho(x, y))

\* The register of eight bits that the constants come from.
Shifted(r, k) == Xor({i + 1 : i \in r \ {7}}, IF 7 \in r THEN {0, 4, 5, 6} ELSE {})
Register(n) == FoldLeft(Shifted, {0}, Times(n))
StandardConstant(t) ==
  LET Place == <<0, 1, 3, 7, 15, 31, 63>> IN {Place[j] : j \in {j \in 1 .. 7 : 0 \in Register(j - 1 + 7 * t)}}

\* Byte n of the padded coordinates.
Padded(n) == IF n < 64 THEN Coordinate(n) ELSE IF n = 64 THEN 1 ELSE IF n = 135 THEN 128 ELSE 0

\* A round of block_permute is a round of Keccak for every state, its moves and
\* its chi in place included, and so are keccak_f1600's chi and constants; what
\* is packed is the padded key and what is taken out the hash's last twenty bytes.
AddressHashExact ==
  /\ code = "address" => LinearExact
  /\ stage = "row" => \A x \in Side : block[At(x, row)] =
       {r \in Rows : (x \in r) # ((x + 1) % 5 \notin r /\ (x + 2) % 5 \in r)}
  /\ stage = "iota" /\ step > 0 => block[0] = StandardConstant(step - 1)
  /\ stage = "packed" => \A i \in Lanes : block[At(i % 5, i \div 5)] =
       [k \in 1 .. 8 |-> IF i < 17 THEN Padded(8 * i + k - 1) ELSE 0]
  /\ stage = "taken" => temp = [n \in 1 .. 20 |->
       [lane |-> At((n + 11) \div 8, 0), byte |-> (n + 11) % 8]]

\* keccak256.cu says of itself: "Keccak-256 implementation for CUDA", "Based on
\* the FIPS 202 specification".
PlainDocumented == code = "plain" => LinearExact
=============================================================================
