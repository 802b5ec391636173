------------------------------ MODULE EthRound ------------------------------
(***************************************************************************)
(* One Ethereum device: the host procedure eth_vanity_round_ultra and the  *)
(* threads of the kernel it launches (src/kernels/eth_vanity_ultra.cu),    *)
(* called round after round by one CudaWorker and cleaned up by its drop.  *)
(*                                                                         *)
(* A private key is a number below the curve order; a public key is the    *)
(* private key it belongs to, so "the pair belongs together" is equality.  *)
(* An address matches the pattern when its key is in `wanted`.             *)
(***************************************************************************)
EXTENDS Integers, FiniteSets

CONSTANTS
  Requested,   \* threads asked for; one block
  Iters,       \* iterations_per_thread
  CheckEvery,  \* how often a thread looks at the done flag (64)
  BatchSize,   \* SECP256K1_BATCH_SIZE (32)
  Order,       \* the order of the curve's group
  MaxRounds    \* bound: rounds one worker runs

\* What is assumed of the sizes; a walk of Iters steps from below the reserved
\* top does not reach the order.
SizesFit ==
  /\ Requested \in Nat \ {0} /\ Iters \in Nat \ {0} /\ MaxRounds \in Nat \ {0}
  /\ CheckEvery \in Nat \ {0} /\ BatchSize \in Nat \ {0}
  /\ Order \in Nat /\ Iters + 2 < Order

VARIABLES
  host,        \* where the host is in the round
  live,        \* is d_buffer allocated?
  initialized, \* the context's flag
  status,      \* what the round returned: 0, or -1 for any error
  rounds,      \* rounds begun
  launched,    \* threads of the launch that was accepted
  done,        \* eth_done_ultra
  count,       \* eth_count_ultra
  out,         \* the device's output: Zeros or a key pair
  thread,      \* the state of each kernel thread
  ret,         \* what the host has read back: out, count, done
  wanted,      \* keys whose address matches the pattern
  tested,      \* history: candidates hashed in this round
  late         \* history: candidates each thread hashed after the first hit

hostVars   == <<host, live, initialized, status, rounds, launched, ret>>
kernelVars == <<done, count, out, thread, tested, late>>
vars == <<hostVars, kernelVars, wanted>>

Threads == 1 .. Requested
Keys    == 1 .. Order - 1
Zeros   == [key |-> 0, pub |-> 0]
Idle    == [pc |-> "off", iter |-> 0, key |-> 0, pub |-> 0, batch |-> <<>>]
Unread  == [out |-> Zeros, count |-> 0, done |-> 0]

\* Deviation: no key is rejected for being close to the order.
StartKeys_All == Keys

\* The first key of a thread: not zero, and so far below the order that the
\* walk cannot reach it.
StartKeys == 1 .. Order - 1 - Iters

Init ==
  /\ host = "idle" /\ live = FALSE /\ initialized = FALSE /\ status = 0
  /\ rounds = 0 /\ launched = 0 /\ ret = Unread
  /\ done = 0 /\ count = 0 /\ out = Zeros
  /\ thread = [t \in Threads |-> Idle]
  /\ wanted \in SUBSET Keys
  /\ tested = 0 /\ late = [t \in Threads |-> 0]

-----------------------------------------------------------------------------
(* The host. *)

At(p, q) == host = p /\ host' = q

\* CudaWorker::batch calls the round, unless the last one failed; an existing
\* context is used again.
BeginRound ==
  /\ At("idle", IF initialized THEN "upload" ELSE "create")
  /\ status = 0 /\ rounds < MaxRounds
  /\ rounds' = rounds + 1 /\ ret' = Unread
  /\ tested' = 0 /\ late' = [t \in Threads |-> 0]
  /\ UNCHANGED <<live, initialized, status, launched, done, count, out, thread, wanted>>

\* cudaMalloc; the flag is set once the buffer is there.
CreateContext ==
  /\ At("create", "upload")
  /\ live' = TRUE /\ initialized' = TRUE
  /\ UNCHANGED <<status, rounds, launched, ret, kernelVars, wanted>>

Upload ==
  /\ At("upload", "resetDone")
  /\ UNCHANGED <<live, initialized, status, rounds, launched, ret, kernelVars, wanted>>

ResetDone ==
  /\ At("resetDone", "resetCount")
  /\ done' = 0
  /\ UNCHANGED <<live, initialized, status, rounds, launched, ret, count, out, thread,
                 tested, late, wanted>>

ResetCount ==
  /\ At("resetCount", "clearOut")
  /\ count' = 0
  /\ UNCHANGED <<live, initialized, status, rounds, launched, ret, done, out, thread,
                 tested, late, wanted>>

ClearOut ==
  /\ At("clearOut", "configure")
  /\ out' = Zeros
  /\ UNCHANGED <<live, initialized, status, rounds, launched, ret, done, count, thread,
                 tested, late, wanted>>

\* vanity_launch_threads halves the request until a block fits on the device.
Configure ==
  /\ At("configure", "launch")
  /\ \E n \in Threads : (\E h \in 0 .. Requested : n = Requested \div 2^h) /\ launched' = n
  /\ UNCHANGED <<live, initialized, status, rounds, ret, kernelVars, wanted>>

\* A launch the device has no resources for ran nothing: half as many threads.
RetryLaunch ==
  /\ host = "launch" /\ launched > 1
  /\ launched' = launched \div 2
  /\ UNCHANGED <<host, live, initialized, status, rounds, ret, kernelVars, wanted>>

\* Each thread derives its own first key from the seed and its index.
Launch ==
  /\ At("launch", "sync")
  /\ thread' \in [Threads -> {Idle} \cup {[pc |-> "check", iter |-> 0, key |-> k, pub |-> k,
                                         batch |-> <<>>] : k \in StartKeys}]
  /\ \A t \in Threads : thread'[t] = Idle <=> t > launched
  /\ UNCHANGED <<live, initialized, status, rounds, launched, ret, done, count, out, tested,
                 late, wanted>>

\* cudaDeviceSynchronize returns when every thread has.
Synchronize ==
  /\ At("sync", "readOut")
  /\ \A t \in Threads : thread[t].pc = "off"
  /\ UNCHANGED <<live, initialized, status, rounds, launched, ret, kernelVars, wanted>>

ReadOut ==
  /\ At("readOut", "readCount")
  /\ ret' = [ret EXCEPT !.out = out]
  /\ UNCHANGED <<live, initialized, status, rounds, launched, kernelVars, wanted>>

ReadCount ==
  /\ At("readCount", "readDone")
  /\ ret' = [ret EXCEPT !.count = count]
  /\ UNCHANGED <<live, initialized, status, rounds, launched, kernelVars, wanted>>

\* The last copy; batch() turns what was read into a Batch.
ReadDone ==
  /\ At("readDone", "idle")
  /\ ret' = [ret EXCEPT !.done = done]
  /\ UNCHANGED <<live, initialized, status, rounds, launched, kernelVars, wanted>>

\* Any CUDA call may fail; the round returns its error and batch() an Err.
\* A failed synchronize leaves no thread running.
RoundFails ==
  /\ host \notin {"idle", "dropped"} /\ host' = "idle" /\ status' = -1
  /\ thread' = [t \in Threads |-> Idle]
  /\ UNCHANGED <<live, initialized, rounds, launched, ret, done, count, out, tested, late,
                 wanted>>

\* The worker is dropped - the search is over or the last round failed - and
\* eth_vanity_cleanup_ultra frees what the context owns.
Drop ==
  /\ At("idle", "dropped") /\ rounds > 0
  /\ IF initialized
     THEN live' = FALSE /\ initialized' = FALSE
     ELSE UNCHANGED <<live, initialized>>
  /\ UNCHANGED <<status, rounds, launched, ret, kernelVars, wanted>>

Finished == host = "dropped" /\ UNCHANGED vars

HostStep ==
  \/ BeginRound \/ CreateContext \/ Upload \/ ResetDone \/ ResetCount \/ ClearOut
  \/ Configure \/ RetryLaunch \/ Launch \/ Synchronize
  \/ ReadOut \/ ReadCount \/ ReadDone \/ RoundFails \/ Drop

-----------------------------------------------------------------------------
(* The kernel's threads. *)

Exits(t, n) ==
  /\ thread' = [thread EXCEPT ![t] = Idle]
  /\ count' = count + n

KernelAt(t, p) ==
  /\ thread[t].pc = p
  /\ UNCHANGED <<hostVars, wanted>>

\* Every CheckEvery iterations a thread leaves if another has a hit.
CheckDone(t) ==
  /\ KernelAt(t, "check") /\ thread[t].iter < Iters
  /\ IF thread[t].iter % CheckEvery = 0 /\ done = 1
     THEN Exits(t, thread[t].iter)
     ELSE thread' = [thread EXCEPT ![t].pc = "hash"] /\ UNCHANGED count
  /\ UNCHANGED <<done, out, tested, late>>

\* The candidate's address is hashed and compared with the pattern.
Hash(t) ==
  /\ KernelAt(t, "hash")
  /\ thread' = [thread EXCEPT ![t].pc = IF thread[t].pub \in wanted THEN "claim" ELSE "walk"]
  /\ tested' = tested + 1
  /\ late' = [late EXCEPT ![t] = IF done = 1 THEN @ + 1 ELSE @]
  /\ UNCHANGED <<done, count, out>>

\* Deviation: every thread with a match writes it.
Claim_All(t) ==
  /\ KernelAt(t, "claim")
  /\ done' = 1
  /\ thread' = [thread EXCEPT ![t].pc = "writeKey"]
  /\ UNCHANGED <<count, out, tested, late>>

\* atomicMax(&eth_done_ultra, 1) == 0: only the first match is written.
Claim(t) ==
  /\ KernelAt(t, "claim")
  /\ done' = 1
  /\ thread' = [thread EXCEPT ![t].pc = IF done = 0 THEN "writeKey" ELSE "leave"]
  /\ UNCHANGED <<count, out, tested, late>>

WriteKey(t) ==
  /\ KernelAt(t, "writeKey")
  /\ out' = [out EXCEPT !.key = thread[t].key]
  /\ thread' = [thread EXCEPT ![t].pc = "writePub"]
  /\ UNCHANGED <<done, count, tested, late>>

\* The public key, and the address that was computed from it.
WritePub(t) ==
  /\ KernelAt(t, "writePub")
  /\ out' = [out EXCEPT !.pub = thread[t].pub]
  /\ thread' = [thread EXCEPT ![t].pc = "leave"]
  /\ UNCHANGED <<done, count, tested, late>>

\* The thread had a match: iter + 1 candidates.
Leave(t) ==
  /\ KernelAt(t, "leave")
  /\ Exits(t, thread[t].iter + 1)
  /\ UNCHANGED <<done, out, tested, late>>

\* secp256k1_public_add_batch: the next BatchSize public keys after pub.
AddBatch(pub) == [k \in 0 .. BatchSize - 1 |-> (pub + k + 1) % Order]

\* The private key plus one; the public key from the batch, which is made
\* anew from the current one every BatchSize iterations.
Walk(t) ==
  LET me    == thread[t]
      batch == IF me.iter % BatchSize = 0 THEN AddBatch(me.pub) ELSE me.batch
  IN /\ KernelAt(t, "walk")
     /\ thread' = [thread EXCEPT ![t] =
          [pc |-> "check", iter |-> me.iter + 1, key |-> me.key + 1, batch |-> batch,
           pub |-> batch[me.iter % BatchSize]]]
     /\ UNCHANGED <<done, count, out, tested, late>>

\* All iterations are done.
RunOut(t) ==
  /\ KernelAt(t, "check") /\ thread[t].iter = Iters
  /\ Exits(t, Iters)
  /\ UNCHANGED <<done, out, tested, late>>

ThreadStep(t) ==
  \/ CheckDone(t) \/ Hash(t) \/ Claim(t) \/ WriteKey(t) \/ WritePub(t)
  \/ Leave(t) \/ Walk(t) \/ RunOut(t)

Next == HostStep \/ (\E t \in Threads : ThreadStep(t)) \/ Finished

Spec == Init /\ [][Next]_vars

-----------------------------------------------------------------------------
(* Properties. *)

\* The round has returned 0 and batch() reads its buffer.
Returned == host = "idle" /\ status = 0 /\ rounds > 0

TypeOK ==
  /\ host \in {"idle", "create", "upload", "resetDone", "resetCount", "clearOut", "configure",
               "launch", "sync", "readOut", "readCount", "readDone", "dropped"}
  /\ live \in BOOLEAN /\ initialized \in BOOLEAN /\ status \in {0, -1}
  /\ rounds \in 0 .. MaxRounds /\ launched \in 0 .. Requested
  /\ done \in {0, 1} /\ count \in 0 .. Requested * Iters
  /\ tested \in 0 .. Requested * Iters
  /\ \A t \in Threads : thread[t].iter \in 0 .. Iters

\* The private and the public key of a thread stay a pair through the whole
\* walk, across batches of additions and short of the curve order.
Paired ==
  \A t \in Threads : thread[t].pc # "off" =>
    thread[t].pub = thread[t].key /\ thread[t].key \in Keys

\* A round that reports a hit returns one complete pair that matches: never
\* the half of two threads' results, and nothing of an earlier round.  A round
\* that reports none has found none.
ResultIsOne ==
  Returned =>
    /\ ret.done = 1 => ret.out.key = ret.out.pub /\ ret.out.key \in wanted
    /\ ret.done = 0 => ret.out = Zeros

\* The count is the number of candidates that were hashed, whoever stopped
\* early and however the launch was cut down; with no hit it is the fixed
\* amount of work that gpu_tests.rs:128 expects.
CountExact ==
  Returned =>
    /\ ret.count = tested
    /\ ret.done = 0 => ret.count = launched * Iters

\* Once there is a hit no thread tests more than CheckEvery candidates more.
StopsSoon == \A t \in Threads : late[t] <= CheckEvery

\* Device memory: the kernel and the copies use it only while it is allocated,
\* the flag says so, and nothing is left when the worker is gone.
BufferOwned ==
  /\ host \notin {"idle", "create", "dropped"} => live
  /\ initialized <=> live
  /\ host = "dropped" => ~live
=============================================================================
