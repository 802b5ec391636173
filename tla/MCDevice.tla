------------------------------ MODULE MCDevice ------------------------------
(***************************************************************************)
(* A GPU worker and the two rounds it may call, side by side: a behaviour  *)
(* is one of CudaWorker with a size that is tuned, of CudaWorker with an   *)
(* explicit size, of EthRound or of SolRound.  The parts share no step;    *)
(* the variables of those that do not run keep their first value.          *)
(***************************************************************************)
EXTENDS CudaWorker

CONSTANTS
  Requested, CheckEvery, MaxRounds,           \* both rounds
  EthIters, BatchSize, Order,                 \* EthRound
  SolIters, Seeds, Residue, PrefixOk, SuffixOk  \* SolRound

VARIABLES
  part,        \* "tuned", "explicit", "ethereum" or "solana"
  host, live, initialized, status, rounds, launched, done, count, out, thread, ret, tested,
  late,        \* both rounds
  wanted,      \* EthRound
  suffix, encodes, encoded, missed   \* SolRound

\* From devices that hardly ever reach the target to one that never gets below.
Devices == [num : {0, 1, 3, 7}, den : {1, 4, 16}, overhead : {0, 1, 5, 30}]

Explicitly == INSTANCE CudaWorker WITH Explicit <- 500

Eth == INSTANCE EthRound_proofs WITH Iters <- EthIters

Sol == INSTANCE SolRound_proofs WITH Iters <- SolIters

ASSUME RoundsAssumption == Eth!SizesFit /\ Sol!SizesFit

EthOnly   == <<wanted>>
SolOnly   == <<suffix, encodes, encoded, missed>>
RoundVars == <<host, live, initialized, status, rounds, launched, done, count, out, thread, ret,
               tested, late, wanted, suffix, encodes, encoded, missed>>

NoRound ==
  /\ host = "idle" /\ live = FALSE /\ initialized = FALSE /\ status = 0 /\ rounds = 0
  /\ launched = 0 /\ done = 0 /\ count = 0 /\ out = 0 /\ thread = 0 /\ ret = 0
  /\ tested = 0 /\ late = 0
NoWorker ==
  /\ iters = Start /\ panics = FALSE /\ answer = "none" /\ tuned = 0
  /\ speed = CHOOSE s \in Speeds : TRUE
NoEth == wanted = {}
NoSol == suffix = FALSE /\ encodes = 0 /\ encoded = 0 /\ missed = FALSE

DeviceInit ==
  \/ part = "tuned"    /\ Init /\ NoRound /\ NoEth /\ NoSol
  \/ part = "explicit" /\ Explicitly!Init /\ NoRound /\ NoEth /\ NoSol
  \/ part = "ethereum" /\ NoWorker /\ Eth!Init /\ NoSol
  \/ part = "solana"   /\ NoWorker /\ Sol!Init /\ NoEth

DeviceNext ==
  \/ part = "tuned"    /\ Next /\ UNCHANGED <<part, RoundVars>>
  \/ part = "explicit" /\ Explicitly!Next /\ UNCHANGED <<part, RoundVars>>
  \/ part = "ethereum" /\ Eth!Next /\ UNCHANGED <<part, vars, SolOnly>>
  \/ part = "solana"   /\ Sol!Next /\ UNCHANGED <<part, vars, EthOnly>>

DeviceSpec == DeviceInit /\ [][DeviceNext]_<<part, vars, RoundVars>>

-----------------------------------------------------------------------------
(* Properties. *)

\* What a round returns is one candidate: the key, public key and address that
\* one thread wrote and that match, or nothing and then no thread had a match;
\* never halves of two threads or the rest of an earlier round.
RoundIsOne ==
  /\ part = "ethereum" => Eth!ResultIsOne
  /\ part = "solana" => Sol!ResultIsOne /\ Sol!NothingMissed

\* What a round says it tested is what its threads tested, whoever left early
\* and however the launch was cut down, and after a hit every other thread stops
\* at its next look at the done flag; the addresses a Solana round encoded are
\* counted apart.
CountsExact ==
  /\ part = "ethereum" => Eth!CountExact /\ Eth!StopsSoon
  /\ part = "solana" => Sol!CountsExact /\ Sol!StopsSoon

\* The private and the public key of an Ethereum thread stay a pair.
KeysPaired == part = "ethereum" => Eth!Paired

\* Device memory is used only while it is allocated, and none is left when the
\* worker is dropped, after whatever CUDA call failed.  (And what is in the
\* variables of the rounds is of its type.)
MemoryOwned ==
  /\ part = "ethereum" => Eth!TypeOK /\ Eth!BufferOwned
  /\ part = "solana" => Sol!TypeOK /\ Sol!BufferOwned
=============================================================================
