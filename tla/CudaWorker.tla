----------------------------- MODULE CudaWorker -----------------------------
(***************************************************************************)
(* CudaWorker::batch (src/gpu.rs): one call of a CUDA round, what it makes *)
(* of the values the round returns, and the size of the next round, which  *)
(* follows the measured duration of the last one towards target_ms.        *)
(*                                                                         *)
(* The device is a speed: a round of n iterations takes (n*num) \div den   *)
(* milliseconds and a fixed overhead - that may change at any time (clocks,*)
(* heat, other processes).  EthRound models what the round itself does.    *)
(***************************************************************************)
EXTENDS Integers

CONSTANTS
  Explicit,   \* --gpu-iters, or 0 when it was not given
  Start,      \* iterations of the first round otherwise (256 or 64)
  Target,     \* target_ms
  MaxIters,   \* the largest size tuning may choose (200 000)
  Speeds,     \* speeds of the device: records num, den, overhead
  Steps       \* bound: tuned rounds counted at one speed

ASSUME ExplicitAssumption == Explicit \in Nat
ASSUME MaxItersAssumption == MaxIters \in Nat /\ Start \in 1 .. MaxIters
ASSUME TargetAssumption   == Target \in Nat \ {0}
ASSUME SpeedsAssumption   ==
  Speeds # {} /\ Speeds \subseteq [num : Nat, den : Nat \ {0}, overhead : Nat]

\* The powers of two.  Steps doublings lead from one iteration past MaxIters.
Doubled[k \in 0 .. Steps] == IF k = 0 THEN 1 ELSE 2 * Doubled[k - 1]

ASSUME StepsAssumption == Steps \in Nat \ {0} /\ MaxIters <= Doubled[Steps]

VARIABLES
  iters,   \* self.iters
  panics,  \* has clamp been given a lower limit above the upper one?
  answer,  \* what batch has returned last
  speed,   \* the device's speed
  tuned    \* history: rounds that have been tuned at this speed

vars == <<iters, panics, answer, speed, tuned>>

Init ==
  /\ iters = IF Explicit > 0 THEN Explicit ELSE Start
  /\ panics = FALSE /\ answer = "none"
  /\ speed \in Speeds /\ tuned = 0

\* elapsed.as_millis().max(1)
Elapsed(n) ==
  LET ms == ((n * speed.num) \div speed.den) + speed.overhead
  IN IF ms < 1 THEN 1 ELSE ms

\* The limits of one adjustment: at most half or double, and MaxIters.
Lowest  == IF iters \div 2 < 1 THEN 1 ELSE iters \div 2
Highest == IF 2 * iters > MaxIters THEN MaxIters ELSE 2 * iters

\* Deviation: longer rounds for a slower device.
Proposed_Inverted == (iters * Elapsed(iters)) \div Target

Proposed == (iters * Target) \div Elapsed(iters)

\* Ord::clamp
Clamped == IF Proposed < Lowest THEN Lowest
           ELSE IF Proposed > Highest THEN Highest ELSE Proposed

Count == IF tuned < Steps THEN tuned + 1 ELSE tuned

\* Deviation: an explicit --gpu-iters is tuned as well.
MissBatch_Always ==
  /\ answer' = "miss"
  /\ panics' = (panics \/ Lowest > Highest)
  /\ iters' = Clamped /\ tuned' = Count
  /\ UNCHANGED speed

\* The done flag is 0: the round has tested all its candidates, so that its
\* duration says something about the device.
MissBatch ==
  /\ answer' = "miss"
  /\ IF Explicit > 0
     THEN UNCHANGED <<iters, panics, tuned>>
     ELSE /\ panics' = (panics \/ Lowest > Highest)
          /\ iters' = Clamped /\ tuned' = Count
  /\ UNCHANGED speed

\* The done flag is 1: the round was cut short and says nothing.
HitBatch ==
  /\ answer' = "hit"
  /\ UNCHANGED <<iters, panics, speed, tuned>>

\* A status other than 0, or a done flag that is neither 0 nor 1.
FailBatch ==
  /\ answer' = "err"
  /\ UNCHANGED <<iters, panics, speed, tuned>>

\* The scheduler calls batch again unless it has failed or the loop was left.
Batch == answer # "err" /\ ~panics /\ (MissBatch \/ HitBatch \/ FailBatch)

ChangeSpeed ==
  /\ speed' \in Speeds \ {speed} /\ tuned' = 0
  /\ UNCHANGED <<iters, panics, answer>>

Next == Batch \/ ChangeSpeed

Spec == Init /\ [][Next]_vars

-----------------------------------------------------------------------------
(* Properties. *)

TypeOK ==
  /\ iters \in Nat \ {0} /\ panics \in BOOLEAN
  /\ answer \in {"none", "miss", "hit", "err"}
  /\ speed \in Speeds /\ tuned \in 0 .. Steps

\* Tuning stays between one iteration and MaxIters for whatever durations the
\* device shows, and an explicit size is kept.
InRange == IF Explicit > 0 THEN iters = Explicit ELSE iters \in 1 .. MaxIters

\* clamp panics when its limits cross; no size the worker can have, an explicit
\* one above MaxIters included, makes them cross.
NoPanic == ~panics

\* At any constant speed Steps tuned rounds are enough: a round then takes
\* between half and twice the target, or tuning has reached a limit.
Settles ==
  tuned = Steps =>
    \/ 2 * Elapsed(iters) >= Target /\ Elapsed(iters) <= 2 * Target
    \/ iters \in {1, MaxIters}
=============================================================================
