----------------------------- MODULE SignVerify -----------------------------
(***************************************************************************)
(* A key pair, a signature and its verification, as keypair.cu, sign.cu    *)
(* and verify.cu (src/kernels/ed25519) combine the point operations: the   *)
(* products themselves are the affine ones that ScalarBase and             *)
(* DoubleScalar reach.                                                     *)
(*                                                                         *)
(* SHA-512 is any function: what it makes of the seed and of the nonce's   *)
(* input is chosen at the start, and what it makes of R, the public key    *)
(* and the message once for the signer's three; for any other three it is  *)
(* chosen anew.                                                            *)
(***************************************************************************)
EXTENDS EdwardsCurve

CONSTANTS
  SeedBits,    \* position of the bit that is set in a secret (254)
  Cofactor,    \* the low bits that are cleared (8)
  SBits,       \* bits of an encoded S (256)
  TopBits,     \* bits of it that must be clear (3)
  Nonces,      \* bound: hashes the nonce comes from
  Challenges,  \* bound: hashes of what was changed, the signer's besides
  Points       \* the curve's points, each the multiple of one of them

VARIABLES
  secret, public,   \* the key pair
  nonce, hash,      \* the hashes of a signature, reduced
  sig,              \* the signature: R's string and S
  altered,          \* what is different when it is verified
  seen,             \* the hash the verifier computes
  accepted,         \* its answer
  pc

vars == <<secret, public, nonce, hash, sig, altered, seen, accepted, pc>>

SignFits ==
  /\ SBits \in Nat /\ TopBits \in 0 .. SBits /\ SeedBits \in Nat \ {0, 1, 2}
  /\ Nonces \subseteq 0 .. Order - 1 /\ Challenges \subseteq 0 .. Order - 1

\* The whole group is cyclic and Points lists it, from the neutral point on; the
\* base point is number Cofactor.
Elements == Cofactor * Order
Point(k) == Points[(k % Elements) + 1]
PointsFit ==
  /\ Len(Points) = Elements /\ Point(Cofactor) = <<BaseX, BaseY>>
  /\ \A k \in 0 .. Elements - 1 : Point(k) = IF k = 0 THEN <<0, 1>> ELSE Plus(Point(k - 1), Point(1))
  /\ Range(Points) = {a \in Field \X Field : OnCurve(a[1], a[2])}

Scalars  == 0 .. Order - 1
SStrings == 0 .. 2 ^ SBits - 1
NoString == [y |-> 0, sign |-> 0]

\* A multiple of a point, as the double scalar multiplication gives it.
Times(k, a) == FoldLeft(LAMBDA s, n : Plus(s, a), <<0, 1>>, [n \in 1 .. k |-> n])

\* The low bits of the seed's hash are cleared and its top bit is set.
Clamped(s) == (s - (s % Cofactor)) + 2 ^ SeedBits

Init ==
  /\ secret \in {Clamped(s) : s \in 0 .. 2 ^ SeedBits - 1} /\ public = NoString
  /\ nonce \in Nonces /\ hash \in Scalars
  /\ sig = [R |-> NoString, S |-> 0] /\ altered = "" /\ seen = 0 /\ accepted = FALSE
  /\ pc = "keypair"

\* ed25519_create_keypair
CreateKeypair ==
  /\ pc = "keypair" /\ public' = Encode(P3(Multiples[secret % Order])) /\ pc' = "sign"
  /\ UNCHANGED <<secret, nonce, hash, sig, altered, seen, accepted>>

\* ed25519_sign_device
Sign ==
  /\ pc = "sign"
  /\ sig' = [R |-> Encode(P3(Multiples[nonce])), S |-> (hash * secret + nonce) % Order]
  /\ pc' = "send" /\ UNCHANGED <<secret, public, nonce, hash, altered, seen, accepted>>

\* The verifier gets the same, or with one part changed to anything else.  It
\* hashes R, the key and the message, and not S.
Transmit ==
  /\ pc = "send"
  /\ \/ altered' \in {"nothing", "message"} /\ UNCHANGED <<sig, public>>
     \/ /\ altered' = "S" /\ UNCHANGED public
        /\ \E n \in SStrings \ {sig.S} : sig' = [sig EXCEPT !.S = n]
     \/ /\ altered' = "R" /\ UNCHANGED public
        /\ \E r \in Encodings \ {sig.R} : sig' = [sig EXCEPT !.R = r]
     \/ altered' = "key" /\ UNCHANGED sig /\ public' \in Encodings \ {public}
  /\ seen' \in {hash} \cup (IF altered' \in {"nothing", "S"} THEN {} ELSE Challenges)
  /\ pc' = "verify" /\ UNCHANGED <<secret, nonce, hash, accepted>>

\* Deviation: the decoded key is taken for the key itself.
Verify_Positive ==
  /\ pc = "verify" /\ pc' = "done"
  /\ LET A == Decode(public)
         R == Plus(Times(sig.S % Order, <<BaseX, BaseY>>), Times(seen, Minus(Affine(A.point))))
     IN accepted' = (sig.S < 2 ^ (SBits - TopBits) /\ A.ok /\ Encode(P3(R)) = sig.R)
  /\ UNCHANGED <<secret, public, nonce, hash, sig, altered, seen>>

\* ed25519_verify_device: the top bits of S must be clear and the key must be
\* a point; S B + h (-A) is written down and compared with R byte for byte.
Verify ==
  /\ pc = "verify" /\ pc' = "done"
  /\ LET A == Decode(public)
         R == Plus(Times(sig.S % Order, <<BaseX, BaseY>>), Times(seen, Affine(A.point)))
     IN accepted' = (sig.S < 2 ^ (SBits - TopBits) /\ A.ok /\ Encode(P3(R)) = sig.R)
  /\ UNCHANGED <<secret, public, nonce, hash, sig, altered, seen>>

Finished == pc = "done" /\ UNCHANGED vars

Next == CreateKeypair \/ Sign \/ Transmit \/ Verify \/ Finished

Spec == Init /\ [][Next]_vars

-----------------------------------------------------------------------------
(* Properties. *)

\* The numbers of the points that a string may be of, and the string of a number.
Named(string) ==
  {k \in 0 .. Elements - 1 :
     Point(k)[2] = string.y % P /\ (Point(k)[1] # 0 => Point(k)[1] % 2 = string.sign)}
StringOf(k) == [y |-> Point(k)[2], sign |-> Point(k)[1] % 2]

\* Verification decides an equation between numbers: S B - h A has R's string,
\* for any key, small subgroups and unreduced strings included, any R and any
\* hash.  Therefore a signature verifies with the key it was made with; another
\* message does only if its hash is the same; another S only if it is the same
\* modulo the order and has no bit at its top; another R never with the same
\* hash; and with the same hash another key only if the hash takes the
\* difference of the two to zero.
VerifyExact ==
  pc = "done" =>
    LET small == sig.S < 2 ^ (SBits - TopBits)
        own   == Cofactor * secret
    IN /\ accepted <=>
            small /\ \E k \in Named(public) : sig.R = StringOf(Cofactor * sig.S - seen * k)
       /\ altered = "nothing" => accepted
       /\ altered = "message" => (accepted <=> seen = hash)
       /\ altered = "S" => (accepted <=> small /\ (sig.S - hash * secret - nonce) % Order = 0)
       /\ altered = "R" /\ seen = hash => ~accepted
       /\ altered = "key" /\ seen = hash =>
            (accepted <=> \E k \in Named(public) : (hash * (k - own)) % Elements = 0)
=============================================================================
