# Verification of vanity-generator-evm-svm

TLA+ specifications of the vanity address generator: how it schedules CUDA
devices, accepts, saves and prints results, runs a device's round, and searches
on CPUs. TLC checks the specifications on small instances; TLAPS proves the
safety of all of these for every number of devices, threads and searches, every
target and every size of a round.

All line numbers are those of the files they name; `src/` is the repository.

## The system

One process looks for key pairs whose address begins or ends with a pattern.
`main.rs` checks the arguments and calls one of two engines.

| Component | Code | State it keeps | Operations |
|---|---|---|---|
| Command line | `src/main.rs` `generate`, `validate_pattern`, `normalize_pattern` | none | check, normalise, choose an engine, exit code |
| GPU batch scheduler | `src/gpu_scheduler.rs` `run` | `alive`, `found`, `error`, `stopped`, a bounded channel, one acknowledgement channel per device | worker threads run batches; a coordinator receives, decides, acknowledges |
| CUDA worker | `src/gpu.rs` `CudaWorker` | `iters`, `round`, configuration | `new`, `batch` with adaptive size, `drop` |
| Event handler | `src/gpu.rs` `generate`, `verify_hit` | `accepted`, `encodes`, files | count, verify, save, accept, print |
| Ethereum round | `kernels/eth_vanity_ultra.cu`, `launch_config.cuh` | context per device; `eth_done_ultra`, `eth_count_ultra`, the output buffer; a key walk per thread | reset, launch, search, read back, clean up |
| Solana round | `kernels/sol_vanity_optimized.cu` | the same, with an encode counter | the same, a random key per iteration |
| CPU search | `src/main.rs` `run_cpu_generation` | per round `stopped`; per search `pending`, walk | test, publish counts, win, leave |
| Key walk | `src/eth_walk.rs` | secret, public, generator | `advance`, `current` |
| Matchers | `src/matcher.rs`, `kernels/base58_simple.cu` | pattern as nibbles or as a residue | `matches`, `matches_counted` |
| Progress | `src/progress.rs` | `attempts`, `found`, `round_start`, device rates, display mutex, thread | `record_batch`, `gpu_stopped`, `found`, `output`, `drop` |
| Saving | `src/main.rs` `save_result`, `encrypt_content`, `decrypt_file` | files | write, set permissions, encrypt, decrypt |
| Random streams | `kernels/chacha_rng.h` | key, counter, stream number, what is left of a block | `next32` |
| secp256k1 | `kernels/eth_math_working.h`, `kernels/secp256k1_mrspike.cu` | none | arithmetic modulo the prime, inversion, addition, multiplication, batches of additions |
| Ed25519 | `kernels/ed25519/` `fe.cu`, `sc.cu`, `ge.cu`, `keypair.cu`, `sign.cu`, `verify.cu` | none | arithmetic modulo the prime and the order, points, keys, signatures |
| Hash functions | `kernels/keccak256_mrspike.h`, `keccak256.cu`, `sha256.cu`, `ed25519/sha512.cu` | state, buffer, length | update, final |
| Base58 | `kernels/base58_simple.cu`, `base58.cu` | none | encode, suffix residue, suffix |

How they interact. The scheduler calls `make_worker` and `batch` on device
threads and `handle` on the coordinator. `batch` calls the C function of the
round, which runs the kernel and copies three values back. `handle` updates
`Progress`, calls `verify_hit` and `save_result`, and prints under the display
mutex. The CPU engine shares `Progress.attempts` and one flag between rayon
items. No component but the saved files outlives the process.

What is hard here: hits of several devices in flight while the target is
reached; a stop or a deadline between a check and the end of a long batch;
errors and panics on any thread while others wait on bounded channels; the
lifetime of CUDA resources; values left on a device from an earlier round; two
kernel threads with a match; exact counts with early exits; a save that fails
half way; and arithmetic at the curve order and at the limits of tuning.

What makes each component correct:

* scheduler: at most `target` hits, `Ok` only when earned, no error lost, no
  thread waits for ever, resources released before a device is reported gone;
* handler: a result is on disk before it is shown, no file is replaced, every
  batch is counted;
* round: one consistent pair that matches or nothing, exact counts, nothing
  left allocated;
* worker: the batch size stays in range and reaches the target duration;
* CPU search: one winner a round, exact counts, bounded lateness, no two
  results of one walk;
* walk, matcher, Base58, curve: agreement with a reference definition;
* progress: the last line shows the final counts, and drop returns;
* saving: decrypting what was encrypted gives it back.

## The modules

| Module | Models | Kind |
|---|---|---|
| `SearchContract` | what a caller of the scheduler may rely on | abstract specification |
| `GpuScheduler` | `gpu_scheduler::run` | detailed specification, refines `SearchContract` |
| `GpuScheduler_proofs` | | invariants and refinement, proved |
| `GpuGenerate` | `gpu::generate`'s handler composed with the scheduler | composition, refines `GpuScheduler` |
| `GpuGenerate_proofs` | | invariants and refinement, proved |
| `CudaWorker` | `CudaWorker::batch` and its tuning | specification |
| `EthRound`, `SolRound` | host and kernel side of one device | specifications |
| `EthRound_proofs`, `SolRound_proofs` | | invariants, proved |
| `CpuSearch` | `run_cpu_generation` | specification |
| `Progress` | the display thread and its callers | specification |
| `SolMatcher`, `EthMatcher` | both matchers on the CPU, both tests on the device, expected attempts | algorithms |
| `Base58`, `Base58Encode` | encoders and suffix helpers | operators; one encoder pass by pass |
| `ChaChaStream` | random streams of the threads | specification |
| `HashStream` | buffering and padding of SHA-512, SHA-256 and Keccak | specification |
| `KeccakRound` | the permutation under Ethereum addresses, line by line | algorithm |
| `FieldElement`, `FieldMachine` | field elements of Ed25519 in limbs | operators; registers |
| `FieldPower` | exponents of inversion and square root | algorithm |
| `EdwardsCode` | the point operations as lines of field operations | data |
| `EdwardsCurve` | those lines run over a small field; the group law | operators |
| `GroupBounds` | those lines run with magnitudes of limbs | algorithm |
| `ScalarBase`, `DoubleScalar`, `PointCodec` | scalar multiplication, decoding and encoding | algorithms |
| `SignVerify` | key pair, signature, verification | algorithm |
| `ScalarReduce` | `sc_reduce`, `sc_muladd` | algorithm |
| `Secp256`, `SecpField`, `SecpInverse` | 256-bit arithmetic of secp256k1 and its inversion | operators; algorithms |
| `SecpCurve`, `SecpWalk` | points, batches of additions, both key walks | operators; specification |
| `MCDevice`, `MCHost`, `MCAddresses`, `MCLimbs`, `MCCurve`, `MCSecp` | instances for TLC | several parts side by side |
| `MCDevice_proofs` | | the worker's invariant and that it settles; those of the rounds, side by side, proved |
| `MCHost_proofs` | | invariants of the CPU search and of the display, an action property, side by side, proved |
| `MCAddresses_proofs` | | random streams, hash functions, the Base58 encoder, both matchers and the expected attempts, proved |
| `MCSecp_proofs` | | additions, batches, multiplication and both key walks, proved |

An `MC` module puts components that ask the same question next to each other. A
variable `part` says which of them a behaviour is one of; the others' variables
keep their first value. The parts share no step, so what TLC explores is the
disjoint union of their state spaces, and a property of the module states of
each part what that part promises.

Some definitions have a *deviation* before them: the same definition with a
plausible bug. It is used nowhere in the specification; with it in the place of
the definition TLC finds the property of the run violated, which shows that the
property depends on that code.

### GpuScheduler

State: `coord` is the place in the coordinator's loop (lines 95-138), `alive`,
`found`, `error`, `stopped` are its locals; `chan` is the `sync_channel`,
`acks[d]` the tokens in a device's acknowledgement channel; `worker[d]` is the
place in the spawned closure (lines 67-92), `held[d]` says whether the thread
owns a constructed worker and `outcome[d]` how its closure ended. `expired` is
the clock. Every statement that another thread can observe is a step: the loop
condition, the batch, the send, the wait for an acknowledgement, the drop of the
worker, the failure and the stop message; on the other side the loop head with
its deadline check, the receive with timeout, the handler, the acknowledgement.
Errors and panics are both `outcome = "err"` on a device thread, because the
`catch_unwind` turns the second into the first; a panic of the handler unwinds
the scope, closes both channel ends and joins the threads.

A hit is a BOOLEAN. The error for zero devices is left out: `generate` calls the
scheduler with at least one.

### SearchContract

Hits accepted, whether the search was halted, late, broken; which devices are
busy (own resources); and the answer. A hit counts only while the search is
neither complete, halted nor late; `Ok` needs all hits or the deadline, no
failure, and no busy device.

### GpuGenerate

`step` is the place in the handler of `src/gpu.rs` 209-269 while the coordinator
is in `handle`. Devices' batches are one unit of work; `uncounted` is the work
done that `progress.attempts` does not show yet. `files` maps the sequence
number of the file name to the hit saved under it. A verification or a save may
fail; a save may fail before or after the file was written (the permissions are
set afterwards). `println!` may panic at any step.

### EthRound

`host` is the place in `eth_vanity_round_ultra`; every CUDA call is a step and
may fail, which ends the round with an error; the worker is dropped then, since
`batch` returns an `Err`. `thread[t]` holds a kernel thread's place, iteration,
key, public key and batch of following public keys. A public key is represented
by the private key it belongs to, and group addition by addition modulo the
order, so a mismatch between private and public key is visible. `wanted` is the
set of keys whose address matches; it is any set. `WriteKey` and `WritePub` are
separate, since another thread may write in between. `tested` and `late` are
history. A failed round leaves no thread running: a sticky CUDA error ends the
context's kernels.

### CudaWorker

One action per outcome of `batch`; the device is a speed and an overhead that
may change at any time. `panics` records a call of `clamp` with crossed limits.

### SolRound

As `EthRound`, with what differs: a fresh seed for every candidate, the residue
test before the encoding, and two counters, candidates and encodings. Which seeds
have the residue, the prefix and the suffix are three sets, one of them wider
than the suffix needs.

### CpuSearch

`main` is the place in the loop over `--count`; `pc[s]` the place of each rayon
item, "waiting" until a pool thread takes it. `uncounted` is candidates tested
less `progress.attempts`. Saving is left out: an error is printed and the loop
goes on.

### Progress

`thread` is the place in the display thread's loop, `caller` that of the engine.
The counters are relaxed atomics, which the Rust memory model lets become
visible in any order: the stores of one call are made in any order (`unset`),
and the loads of one wake-up too (`toRead`). The channel, the mutex and the join
order what comes before them, as they do in Rust. A panic inside `output`
poisons the mutex. Rates are kept as what they were computed from.

### Patterns and addresses

`Base58` has sizes as parameters: the code has 8 limbs of 4 bytes and base 58,
the run 3 limbs of 2 bytes of base 5 in base 3 for the encoder, so that every key can be
encoded and keys with leading zero bytes and zero limbs occur, and 2 limbs of a byte in
base 4 for the matcher. `SolMatcher` and
`EthMatcher` choose a key or address and the patterns that `validate_pattern`
lets through and compare the decisions of CPU and device with the plain text
comparison. `HashStream` follows which byte comes to stand where; a buffer
starts with junk. `KeccakRound` has the real sizes: a lane is a symbolic sum of
rotated lanes until chi, which makes the linear half of a round exact for every
state, and a truth table of its row in chi, which is bit by bit; packing and the
address are followed byte by byte. `ChaChaStream` names a block by the state it
is computed from and shows that no state is used twice; `begun` counts the
blocks a thread has made, of which a stream of 2^64 never runs out
(`WordBase * WordBase` in the guard of `Draw`).

### Ed25519

`FieldElement` has the number and the widths of limbs, the distance of the
modulus from the power of two and the bits of a byte as parameters. The small
instance has the same alternating widths and the same reduction, modulo
2^22 - 3, and the second operands include the modulus, its neighbours and all
ones. `FieldPower` runs the code's own two chains with exponents as sets of
bits. What the small field cannot show, overflow at the real widths, is
`GroupBounds`: at ten limbs of 26 and 25 bits it runs the lines of ge.cu with
upper bounds of magnitudes, in every order in which the callers can put the
operations, and compares with 2^31, 2^63 and what `fe_tobytes` needs.

The point operations are written once, as the lines of `EdwardsCode`, and run by
`EdwardsCurve` modulo 61 (cofactor 4, all encodings) and 37. The tables of
`precomp_data.h` are taken to hold the multiples of the base point that their
use requires; their numbers are not checked. `ScalarReduce` folds with two
digits in place of six; as in the code a string has bits above the last whole
limb, and far fewer of them than a limb has.

In `SignVerify` SHA-512 is any function: the signer's hash of R, key and message
is any number; the verifier, which hashes the same three (verify.cu 78-82), gets
that hash again when none of them was changed, and otherwise another or, as a
collision, the same. What is sent may have another message, any other string
for S, any other encoding for R, or any other encoding for the key, those of
points outside the base point's subgroup, of no point, and unreduced ones
included. `VerifyExact` does not repeat the verifier's lines: every point of the
small curve has a number (`Points`, checked by `PointsFit` against the affine
addition), so that a verification is an equation between numbers modulo 44, from
which the property states what each kind of change does to the answer. The code
looks only at the top three bits of S (verify.cu:70): an S that the order was
added to is accepted while those bits are clear, and the property says so.

`fe_mul` asks for limbs of at most 1.65 * 2^26 and 2^25 (fe.cu 506-508): ge.cu
keeps to it, which `OperandsSmall` checks. It does not keep to what `fe_add` and
`fe_sub` ask for (below). `GroupBounds` shows that even so no sum leaves 32 bits
and no product 64.

### secp256k1

`Secp256` keeps the chains of carries of the assembly with the number and width
of limbs and the constant 977 as parameters. What is assumed of them,
`((C+1)*C) \div 2^LB + C + 1 < 2^LB`, says that the last overflow fits two limbs; 977 and
32 bits satisfy it with much to spare. `SecpField` runs a product row by row and
fold by fold, `SecpInverse` the inversion turn by turn. `SecpCurve` and
`SecpWalk` take the arithmetic as exact and a curve of order 313 with batches of
four: the kernel's walk starts below the reserved top byte, as the code's does,
and the CPU's anywhere, the last key included. A batch that starts at a small
multiple of the generator meets its own table.

Three assumptions say what of the real numbers the walks need. `PrimeAssumption`:
what the inversion returns is an inverse, so the modulus is a prime.
`GroupAssumption`: the multiples of the generator add like numbers modulo the order,
and share an x only with themselves and their opposites. `WalkAssumption`: a
scalar is as long as a key, and a walk from a key whose top byte is not the last
value, a batch included, stays below the order. The last is what the kernel
reserves the top 1/256 of its keys for; for 32 bytes it holds up to 2^248
candidates of a thread.

## What is checked

| Run | Instance | What it shows |
|---|---|---|
| `scheduler_safety` | 3 devices, 2 hits | no send waits, target never exceeded, `Ok` earned, nothing left behind, resources released, no late hit; the inductive invariant of the proofs; `SearchContract` is implemented |
| `scheduler_live` | 2 devices, 2 hits | a reason to stop leads to an answer, acknowledgements come, failures surface |
| `generate` | 2 devices, 2 hits, saving | saved before printed, no file replaced, counts agree, an accepted result is printed; `GpuScheduler` is implemented |
| `device` | 48 devices, target 12 ms, limit 200, once with an explicit size 500; 2 threads, 5 or 4 iterations, 2 rounds | `clamp` cannot panic, tuning settles in as many rounds as doubling takes for the range; one complete result, exact counts, pairs stay pairs, memory owned |
| `host` | 3 searches, 2 results, publication every 2; 3 candidates and 2 results on display | one winner, exact counts, lateness bounded, unrelated results, every search ends; last line final, lines go forward, drop returns |
| `addresses` | sizes in `Addresses.cfg` | no random word twice, blocks of the padded message, Keccak's round, Base58, both matchers, expected attempts |
| `limbs` | modulo 2^22 - 3 and 1048983; real sizes for exponents and magnitudes | residues and stored strings exact, exponents right, no overflow |
| `curve` | 61 and 37 | products and encodings exact; what verification answers to a signature, unaltered or with another message, S, R or key |
| `secp` | 4 limbs of 4 bits, 5 limbs of 2 bits, a curve of order 313 | products and inverses exact, walks keep pairs |
| `secp_add`, `base58_suffix`, `keccak_plain` | as above | the code contradicts a comment on it (below) |

Why the bounds are enough. *Scheduler*: with three devices and two hits more
devices can hit than hits are wanted, a third device can fail or be anywhere
while two race, and the channel can hold messages of all; the proofs cover
every other number. *Handler*: two hits are needed for a second file number.
*Round*: five iterations with a look at the flag every second one and batches of
two give iterations before, on and after each boundary and a last partial
batch; the order 9 leaves the first keys 1 to 3, and the walk from 3 ends at the last
key below the order, so one key more would pass it; two rounds are needed
for what is left over. *Worker*: eight rounds suffice to halve or double
through the whole range, which `StepsAssumption` asks for:
`MaxIters <= Doubled[Steps]`. *Solana*: seeds that pass
none, the first, the first two and all tests. *CPU*: two candidates between publications make
`pending` take each of its kinds of value: none, some, full. *Display*: two
results, and a count in between, suffice for a reader to see the parts of one
announcement apart. *Algorithms*: every message length around a block's end,
every key, every scalar and point of the small sizes; the operands that are not
enumerated are named in the `MC` modules.

Fairness. Threads are scheduled, so each worker and the coordinator have weak
fairness (`Fairness` in `GpuScheduler`); it includes that a batch, a handler call
and a save end. No fairness is assumed of the deadline (there may be none), of
hits or of failures. In `CpuSearch` the running searches have weak fairness; an
item that waits is only taken up for certain when nothing runs, which is the
least a thread pool does: properties do not depend on all items running at once.
In `Progress` the display thread and a caller that has begun to drop have weak
fairness; the caller may otherwise stay where it is.

Deadlock is checked in every run; a specification that is done stutters in
`Finished`.

Abstractions to keep in mind: memory order is sequentially consistent except in
`Progress`. The other Rust code uses relaxed atomics for a flag and counters that
carry no other data, and joins threads before it reads final counts; the kernels
read and write their flag with atomics, and the host reads after a synchronise.

### Where code and comments disagree

Three functions do not do what is said of them; each has a run that shows it. None
of the three is called by a kernel that `build.rs` compiles.

* `add_256_mod_p` (`secp256k1_mrspike.cu` 84-101) says it subtracts P when there is
  a carry or the result is at least P. With a carry and a result below P,
  `sub_256_mod_p` borrows, adds P back, and the carry is lost.
* `simple_base58_suffix_32` (`base58_simple.cu` 42-74) drops the leading '1's, and says
  they do not matter for a suffix. They do for a key whose number has fewer
  digits than the suffix.
* `keccak_f1600` (`keccak256.cu` 24-71) moves lanes to other places, with other
  rotations, than the standard it names. `keccak256_mrspike.h`, which the
  Ethereum kernel uses, does what the standard says.

In two places of Ed25519 the comment is wrong, or stricter than need be, and the
code does what its callers rely on. The properties check the code.

* `fe_isnonzero` (fe.cu 448-498): the comment says it returns 1 if f is 0, and 0
  if f is not; line 497 returns `r != 0`, the opposite. The name, and the two
  tests of `ge_frombytes_negate_vartime` (ge.cu 165 and 168), need what line 497
  does, and `ArithmeticExact` (`StoredCanonical` of `FieldMachine`) checks that:
  true exactly for the values that are not 0 modulo the prime. Whoever follows
  the comment has the test the wrong way round.
* `fe_add` and `fe_sub` (fe.cu 51-53 and 1286-1287) ask for limbs of at most
  1.1 * 2^25 and 2^24. `ge.cu` gives them sums that were not carried and can be
  nearly twice that: `t0` in `ge_add` (ge.cu 17, 20 and 21), the last two lines of
  `ge_p2_dbl` (269 and 270).

## What is proved

The theorems hold for every value of the constants that the named assumptions
admit. TLC has checked each inductive invariant on a small instance before it was
proved; that of the scheduler is a property of `scheduler_safety`.

| Module | Theorem | States |
|---|---|---|
| `GpuScheduler_proofs` | `Invariance` | `Spec => []IInv` |
| | `TypeCorrect`, `UnconsumedBound`, `NeverWaits`, `HitsBound`, `Earned`, `NothingLeft`, `Released` | the safety invariants of `scheduler_safety` |
| | `LateHitDropped` | an action property: no hit after the stop or the deadline |
| | `Implements` | refinement of `SearchContract` |
| `GpuGenerate_proofs` | `SchedulerImplemented` | refinement of `GpuScheduler` |
| | `GenInvariance`, `PrintedIsSaved`, `DisplayAgrees` | the invariants of `generate` |
| | `FilesStay` | an action property: no file is replaced |
| `EthRound_proofs` | `Invariance`, `TypesHold`, `PairsHold`, `ResultHolds`, `CountHolds`, `StopHolds`, `BufferHolds` | a round for every size and every set of wanted keys |
| `SolRound_proofs` | `Invariance`, `TypesHold`, `ResultHolds`, `CountsHold`, `NothingIsMissed`, `StopHolds`, `BufferHolds` | a round for every size and every pattern |
| `MCDevice_proofs` | `TuningIsSafe`, `NeverPanics`, `StaysInRange` | the worker alone |
| | `DeviceInvariance`, `DeviceNeverPanics`, `DeviceSettles`, `DeviceResult`, `DeviceCounts`, `DevicePairs`, `DeviceMemory` | the invariants of `device`, for every range of sizes, target and device |
| `MCHost_proofs` | `Invariance`, `WinnerIsOne`, `AttemptsExact`, `DeadlineBounds`, `KeysUnrelated` | the CPU search alone, for any finite set of searches |
| | `HostInvariance`, `DisplayInvariance`, `DisplayLastLine`, `DisplayLinesForward` | the display: its invariant, that the line that is left is final, and that lines go forward |
| `MCAddresses_proofs` | `AddressInvariance`, `StreamsAreExact` | random streams and the blocks that are hashed |
| | `MatchersAgree`, `EthereumIsExact` | the Ethereum matchers, CPU and kernel, and the expected number of attempts |
| | `SolanaIsExact` | the encoder, and the Solana matchers, CPU and kernel, the residue test included |
| `MCSecp_proofs` | `WalkPaired` | the kernel's and the CPU's walk, each public key of its private key |
| | `WalksKeepPaired` | the same as an invariant of `secp` |

None of the properties is inductive by itself. What had to be added:

* *Scheduler.* That `Ok` is earned needs to know why `stopped` was set (`Reason`);
  that nothing is left behind needs the messages of a device to come in order -
  batches, then at most one failure, then one stop, the last after its thread is
  done (`Order`, `Origin`); that `alive` counts right needs a count of the devices
  whose stop was not received (`Count`); that resources are released needs the
  place of a thread to agree with what it holds (`Thread`); the coordinator's hand
  and the end of the scope have their own part (`Desk`, `Ends`). `NeverWaits` is a
  counting argument: a device has at most one batch or failure in the channel,
  and one stop, so the messages inject into pairs of a device and a kind; when a
  thread still has something to send one pair is free, so fewer than
  `2 * devices` messages wait.
* *Handler.* Every step of `GpuGenerate` is a step of the scheduler, so the
  scheduler's invariant holds here too, lemma by lemma. `Saved` adds which
  numbers have a file: those of the accepted hits, and one more between a save
  and its acceptance, or after a save that failed half way, and then the search
  has stopped. `Counted` says that what progress lacks is one batch for each
  device whose message has not been recorded.
* *Ethereum round.* `Walking` says how far a thread's key is from the top for the
  iterations it has left, and of which key its batch of public keys is; then the
  first key's range leaves room for the whole walk, and the group order is never
  reached. `Writer` says that one thread writes, and which half of the result is
  there. `Counted` and `Bounded` compare the counter with the number of pairs of a
  thread and an iteration: those in flight are what the counter lacks.
* *Solana round.* As above; the sums over threads that its counters are compared
  with - candidates and encodings not added yet, candidates a thread may still
  draw after a hit - are the sizes of sets of pairs too (`Under`), which makes
  a step of one thread a change of one element.
* *Side by side.* `DevInv`, `HostInv` and `AddrInv` are each part's invariant where
  that part runs, so the theorems of `MCDevice_proofs`, `MCHost_proofs` and
  `MCAddresses_proofs` are those of the parts with the sizes of the run as
  constants.
* *Worker.* A size in `1 .. MaxIters` makes limits that do not cross, so `clamp`
  neither panics nor leaves the range. That it settles is an argument about two
  ways (`Settling`): a size whose round is too long (`Hot`) is halved, and after k rounds
  is at most `MaxIters` halved k times; one whose round is too short (`Cold`) is doubled,
  and is at least 1 doubled k times. Tuning turns round at one size only, a single
  iteration that is too short while two are not.
* *Key walks.* From the group law: the kernels' addition, which takes equal x for
  equal points, is the group's unless the sum is the neutral point
  (`PointAddIsPlus`); a batch with one inverse gives the same points as additions
  one by one, since the inverse carried back through the loop is at each turn that
  of the products left (`InversesExact`); multiplication, bit by bit, has the
  multiple of the bits so far, and never meets the neutral point while the scalar is
  below the order. Counting a key up by its bytes adds one to its number while not
  all are the last value. `GpuPaired` then ties key, public key and batch to the number of the
  first key, and its distance to the order to the iterations left; `CpuPaired` is
  what the walk on the CPU keeps, past the end of the order.
* *CPU search.* `Winner` follows a match on its way to the flag; `Lag` gives the
  unpublished candidates as pairs of a search and a position since its last
  publication; `Clock` and `LastRound` bound what is tested after the deadline,
  in this round and in one begun after a late result; `Walks` dates every walk
  by its round.
* *Display.* The loads are relaxed, so a line in between is only known to be
  behind (`Behind`). `Finishing` says why the last is exact: the thread decides to
  finish before it loads, and once the stop was sent no store is outstanding.
* *Random streams.* A thread's state is the name of the next block of its stream
  (`Positions`), whatever carries the counter made; equal names are of the same
  thread and number, so a draw is fresh when all that was drawn is below the
  thread's position (`Used`). A few facts about quotients and remainders that the
  solver finds only alone are lemmas.
* *Hash functions.* `Buffered`: what was taken in is in the blocks and, in order,
  at the front of the buffer; for Keccak the rest of it is zero. The closing
  blocks are then compared byte by byte with the padded message.
* *Base58 encoder.* After a pass the digits so far are the lowest of the key's number and
  what is left is its quotient by their power (`EncoderOk`). A pass is a long division
  limb by limb, by induction over the limbs (`PassDivides`), and a quotient of quotients is
  one by the product, so the next group continues the digits (`LowDigitsAppend`). The
  last group stops at the last digit, which makes as many digits as the number has
  (`LengthUnique`). That passes, digits and zero bytes fit the buffers follows from the
  largest key (`KeyBounds`): a zero byte takes more from a number than a letter adds.
* *Ethereum matchers.* That an address starts and ends with the patterns, that the
  CPU's checks hold and that the kernel's digits compare equal are each the same
  statement (`ReadsAt`): digit for digit, the address reads as the prefix at its
  front and as the suffix before its end, for any base and any length.
* *Expected attempts.* At each place a digit is wanted, any is admitted, or none since
  the patterns disagree (`MaskSize`). The texts that are admitted are counted place by
  place (`AdmittedNext`, by a bijection), which is the product the code takes
  (`OddsExact`); addresses and their texts correspond one to one (`TextIsAddress`), and the
  admitted ones are those wanted (`WantedMasks`).
* *Solana matchers.* The residue, limb by limb, is the key's number modulo the power
  (`ResidueExact`), and its digits are the address's last letters, those that stand for
  zero bytes included (`ResidueDigits`, `AddressLetters`). Every comparison of the CPU and
  of the kernel is then the same statement letter by letter (`Reads`), and no letter of
  an accepted pattern is outside the alphabet (`Possible`).

The assumptions: a finite non-empty set of devices or searches and natural
targets; `SizesFit` of the rounds (as many first keys as the walk needs room for,
a residue test that rejects no seed with the suffix); sizes of words and blocks
that are positive and fit one another, an alphabet of as many letters as the base, and
buffers of the encoder that hold the largest key; rounds enough to double through the range;
a prime field, the group law and room below the order. Each `ASSUME` is evaluated by TLC on the
run's instance.

A few inductions over data are proved: the library's induction theorems take a
predicate and no prover here instantiates it, but that a set of naturals without a
least element is empty is a statement about sets (`InductionOnNat`), and so is what a
recursive function over naturals is (`Recursion`).

Only model-checked:

* liveness, in all runs: fairness and ENABLED are beyond the provers;
* `MagnitudesFit`: `GroupBounds` has a RECURSIVE operator, and the provers take no
  such module;
* `AddressesExact`: the permutation of Keccak has fixed sizes and no parameter, so the run
  is as good as a proof of it; the older encoder, which no search kernel calls, adds up
  with folds; that the residue rejects no key is part of `SolanaIsExact`;
* `ArithmeticExact`, `PointsExact`, `VerifyExact`, `FieldExact`: they compare what folds and
  powers over limbs and points compute with a reference, at sizes chosen in the modules.
  `^` and the folds of the community modules have no axioms the provers know.

## What is not modelled

* The command line (`generate`, `validate_pattern`, `normalize_pattern`): independent
  checks before any state exists. What they let through is the matchers' input.
* The file format and the encryption: text around an external cipher. A save is
  its outcomes in `GpuGenerate`; in `CpuSearch` it changes nothing. With `--count`
  above 1 and an explicit path the CPU engine writes every result to that path
  (main.rs 1139-1144); nothing promises otherwise.
* `CudaWorker::new` (defaults and limits) and device queries: pure input.
* The compression functions of SHA-256 and SHA-512, ChaCha's block function, and
  the numbers in the tables of `precomp_data.h` and `BATCH_G`: fixed data.
* Wording and layout of output, floating-point estimates.
* Kernels that `build.rs` does not compile, tests, benchmarks. Of the files it
  does not compile these are modelled: `base58.cu`, next to the encoder that
  replaced it, and `ed25519/sign.cu` and `ed25519/verify.cu`, the only callers of
  `ge_double_scalarmult_vartime` and of the decoding in `ge.cu`, which it does compile.

## Plan

Modelled as planned: the scheduler, the handler, both rounds, the worker, the CPU
search, the display, walks, matchers, Base58, both curves, streams and hashing.
The invariants of the host's and the rounds' components are proved, and so are both
refinements, the path from random words to a match, and the walks. What could be
proved next is `FieldExact` and `ArithmeticExact`, with sizes as constants and recursive
functions in the place of powers and folds.
