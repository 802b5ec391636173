------------------------------ MODULE SolRound ------------------------------
(***************************************************************************)
(* One Solana device (src/kernels/sol_vanity_optimized.cu): the host       *)
(* procedure sol_vanity_round_optimized, the threads of its kernel and the *)
(* cleanup.  Unlike the Ethereum round a thread draws a new key for every  *)
(* candidate, tests the suffix as a residue before it encodes the address, *)
(* and counts candidates and encodings in two counters.                    *)
(*                                                                         *)
(* A candidate is its seed; keys and address are functions of it.          *)
(***************************************************************************)
EXTENDS Integers

CONSTANTS
  Requested,   \* threads asked for; one block
  Iters,       \* iterations_per_thread
  CheckEvery,  \* how often a thread looks at the done flag (64)
  Seeds,       \* seeds a thread may draw
  Residue,     \* those whose public key has the suffix's residue
  PrefixOk,    \* those whose address starts with the prefix
  SuffixOk,    \* those whose address ends with the suffix
  MaxRounds    \* bound: rounds one worker runs

\* What is assumed of the sizes; the residue never rejects an address that ends
\* with the suffix (ResidueNecessary of Base58Encode).
SizesFit ==
  /\ Requested \in Nat \ {0} /\ Iters \in Nat \ {0} /\ MaxRounds \in Nat \ {0}
  /\ CheckEvery \in Nat \ {0} /\ 0 \notin Seeds
  /\ SuffixOk \subseteq Residue /\ Residue \subseteq Seeds /\ PrefixOk \subseteq Seeds

VARIABLES
  host,        \* where the host is in the round
  live,        \* is d_buffer allocated?
  initialized, \* the context's flag
  status,      \* what the round returned: 0 or an error
  rounds,      \* rounds begun
  launched,    \* threads of the launch that was accepted
  suffix,      \* is there a suffix?
  done, count, encodes,  \* the kernel's globals
  out,         \* the device's output
  thread,      \* the state of each kernel thread
  ret,         \* what the host has read back
  tested, encoded, missed, late   \* history of the round

hostVars == <<host, live, initialized, status, rounds, launched, ret>>
globals  == <<done, count, encodes, out>>
history  == <<tested, encoded, missed, late>>
vars == <<hostVars, globals, thread, history, suffix>>

Threads == 1 .. Requested
Parts   == {"seed", "private", "public", "address"}
Zeros   == [p \in Parts |-> 0]
Idle    == [pc |-> "off", iter |-> 0, seed |-> 0, encodes |-> 0]
Started == [Idle EXCEPT !.pc = "check"]
\* matches_target_sol_opt on the encoded address.
Matches(seed) == seed \in PrefixOk /\ (suffix => seed \in SuffixOk)
Unread  == [out |-> Zeros, count |-> 0, encodes |-> 0, done |-> 0]

Init ==
  /\ host = "idle" /\ live = FALSE /\ initialized = FALSE /\ status = 0
  /\ rounds = 0 /\ launched = 0 /\ ret = Unread /\ suffix \in BOOLEAN
  /\ done = 0 /\ count = 0 /\ encodes = 0 /\ out = Zeros
  /\ thread = [t \in Threads |-> Idle]
  /\ tested = 0 /\ encoded = 0 /\ missed = FALSE /\ late = 0

-----------------------------------------------------------------------------
(* The host. *)

\* The host goes from p to q; what of its context and copies changes follows.
At(p, q) == host = p /\ host' = q /\ UNCHANGED <<status, suffix>>
KeepContext == UNCHANGED <<live, initialized, rounds, launched>>

BeginRound ==
  /\ At("idle", IF initialized THEN "upload" ELSE "create")
  /\ status = 0 /\ rounds < MaxRounds /\ rounds' = rounds + 1
  /\ ret' = Unread /\ tested' = 0 /\ encoded' = 0 /\ missed' = FALSE /\ late' = 0
  /\ UNCHANGED <<live, initialized, launched, globals, thread>>

CreateContext ==
  /\ At("create", "upload") /\ live' = TRUE /\ initialized' = TRUE
  /\ UNCHANGED <<rounds, launched, ret, globals, thread, history>>

\* Seed, lengths, patterns and the case flag.
Upload == At("upload", "reset") /\ KeepContext /\ UNCHANGED <<ret, globals, thread, history>>

\* The three copies to the kernel's globals.
Reset ==
  /\ At("reset", "clear") /\ KeepContext
  /\ done' = 0 /\ count' = 0 /\ encodes' = 0
  /\ UNCHANGED <<out, ret, thread, history>>

\* 172 zero bytes; vanity_launch_threads halves the request until it fits.
ClearOut ==
  /\ At("clear", "launch") /\ UNCHANGED <<live, initialized, rounds>> /\ out' = Zeros
  /\ \E n \in Threads : (\E h \in 0 .. Requested : n = Requested \div 2^h) /\ launched' = n
  /\ UNCHANGED <<done, count, encodes, ret, thread, history>>

\* A launch refused for want of resources is tried with half the threads.
RetryLaunch ==
  /\ At("launch", "launch") /\ launched > 1 /\ launched' = launched \div 2
  /\ UNCHANGED <<live, initialized, rounds, ret, globals, thread, history>>

Launch ==
  /\ At("launch", "sync") /\ KeepContext
  /\ thread' = [t \in Threads |-> IF t <= launched THEN Started ELSE Idle]
  /\ UNCHANGED <<ret, globals, history>>

Synchronize ==
  /\ At("sync", "readOut") /\ KeepContext /\ \A t \in Threads : thread[t].pc = "off"
  /\ UNCHANGED <<ret, globals, thread, history>>

ReadOut ==
  /\ At("readOut", "readCounts") /\ KeepContext /\ ret' = [ret EXCEPT !.out = out]
  /\ UNCHANGED <<globals, thread, history>>

ReadCounts ==
  /\ At("readCounts", "readDone") /\ KeepContext
  /\ ret' = [ret EXCEPT !.count = count, !.encodes = encodes]
  /\ UNCHANGED <<globals, thread, history>>

ReadDone ==
  /\ At("readDone", "idle") /\ KeepContext /\ ret' = [ret EXCEPT !.done = done]
  /\ UNCHANGED <<globals, thread, history>>

\* Any CUDA call may fail: the worker gives up the device.
RoundFails ==
  /\ host \notin {"idle", "dropped"} /\ host' = "idle" /\ status' = -1
  /\ thread' = [t \in Threads |-> Idle]
  /\ UNCHANGED <<live, initialized, rounds, launched, ret, globals, history, suffix>>

\* Deviation: the flag outlives the buffer.
Drop_KeepsFlag ==
  /\ At("idle", "dropped") /\ rounds > 0
  /\ live' = (live /\ ~initialized)
  /\ UNCHANGED <<initialized, rounds, launched, ret, globals, thread, history>>

\* sol_vanity_cleanup frees what an initialized context owns.
Drop ==
  /\ At("idle", "dropped") /\ rounds > 0
  /\ IF initialized THEN live' = FALSE /\ initialized' = FALSE
                    ELSE UNCHANGED <<live, initialized>>
  /\ UNCHANGED <<rounds, launched, ret, globals, thread, history>>

Finished == host = "dropped" /\ UNCHANGED vars

HostStep ==
  \/ BeginRound \/ CreateContext \/ Upload \/ Reset \/ ClearOut \/ RetryLaunch
  \/ Launch \/ Synchronize \/ ReadOut \/ ReadCounts \/ ReadDone \/ RoundFails \/ Drop

-----------------------------------------------------------------------------
(* The kernel's threads. *)

KernelAt(t, p) == thread[t].pc = p /\ UNCHANGED <<hostVars, suffix>>

Goto(t, p) == thread' = [thread EXCEPT ![t].pc = p]

\* Deviation: a thread that leaves early counts candidates only.
Exits_CandidatesOnly(t, n) ==
  /\ thread' = [thread EXCEPT ![t] = Idle]
  /\ encodes' = IF n = Iters \/ thread[t].pc = "leave" THEN encodes + thread[t].encodes
                ELSE encodes
  /\ count' = count + n

\* Both counters are added to, whichever way a thread leaves.
Exits(t, n) ==
  /\ thread' = [thread EXCEPT ![t] = Idle]
  /\ encodes' = encodes + thread[t].encodes
  /\ count' = count + n

CheckDone(t) ==
  /\ KernelAt(t, "check") /\ thread[t].iter < Iters
  /\ IF thread[t].iter % CheckEvery = 0 /\ done = 1
     THEN Exits(t, thread[t].iter)
     ELSE Goto(t, "draw") /\ UNCHANGED <<count, encodes>>
  /\ UNCHANGED <<done, out, history>>

\* suffix_len && !base58_suffix_match_mod_32(...)
Rejected(seed) == suffix /\ seed \notin Residue

\* A new key; the residue rejects it, or its address is encoded and compared.
Draw(t) ==
  /\ KernelAt(t, "draw")
  /\ \E seed \in Seeds :
       LET me == thread[t]
           next == IF Rejected(seed)
                   THEN [me EXCEPT !.pc = "check", !.iter = @ + 1, !.seed = seed]
                   ELSE IF Matches(seed)
                   THEN [me EXCEPT !.pc = "claim", !.seed = seed, !.encodes = @ + 1]
                   ELSE [me EXCEPT !.pc = "check", !.iter = @ + 1, !.seed = seed,
                                   !.encodes = @ + 1]
       IN /\ thread' = [thread EXCEPT ![t] = next]
          /\ tested' = tested + 1
          /\ encoded' = IF suffix /\ seed \notin Residue THEN encoded ELSE encoded + 1
          /\ missed' = (missed \/ (Matches(seed) /\ next.pc # "claim"))
          /\ late' = IF done = 1 THEN late + 1 ELSE late
  /\ UNCHANGED globals

\* atomicMax(&sol_done_opt, 1) == 0
Claim(t) ==
  /\ KernelAt(t, "claim") /\ done' = 1 /\ Goto(t, IF done = 0 THEN "seed" ELSE "leave")
  /\ UNCHANGED <<count, encodes, out, history>>

\* The four memcpys to the output.
Copy(t, part, next) ==
  /\ KernelAt(t, part) /\ Goto(t, next)
  /\ out' = [out EXCEPT ![part] = thread[t].seed]
  /\ UNCHANGED <<done, count, encodes, history>>

WriteResult(t) ==
  \/ Copy(t, "seed", "private") \/ Copy(t, "private", "public")
  \/ Copy(t, "public", "address") \/ Copy(t, "address", "leave")

Leave(t) == KernelAt(t, "leave") /\ Exits(t, thread[t].iter + 1) /\ UNCHANGED <<done, out, history>>

RunOut(t) ==
  /\ KernelAt(t, "check") /\ thread[t].iter = Iters /\ Exits(t, Iters)
  /\ UNCHANGED <<done, out, history>>

ThreadStep(t) ==
  CheckDone(t) \/ Draw(t) \/ Claim(t) \/ WriteResult(t) \/ Leave(t) \/ RunOut(t)

Next == HostStep \/ (\E t \in Threads : ThreadStep(t)) \/ Finished

Spec == Init /\ [][Next]_vars

-----------------------------------------------------------------------------
(* Properties. *)

\* The round has returned 0 and batch() reads its buffer.
Returned == host = "idle" /\ status = 0 /\ rounds > 0

TypeOK ==
  /\ live \in BOOLEAN /\ initialized \in BOOLEAN /\ status \in {0, -1}
  /\ rounds \in 0 .. MaxRounds /\ launched \in 0 .. Requested
  /\ done \in {0, 1} /\ count \in 0 .. Requested * Iters /\ encodes \in 0 .. Requested * Iters
  /\ \A t \in Threads : thread[t].iter \in 0 .. Iters /\ thread[t].encodes \in 0 .. Iters

\* A reported hit is one key: seed, private key, public key and address are of
\* the same candidate, and it matches.  Without a hit nothing is returned, in
\* particular nothing of an earlier round.
ResultIsOne ==
  Returned =>
    /\ ret.done = 1 => \E s \in Seeds : Matches(s) /\ \A p \in Parts : ret.out[p] = s
    /\ ret.done = 0 => ret.out = Zeros

\* Both counts are exact, whoever left early: candidates drawn and addresses
\* encoded; and without a suffix every candidate is encoded.
CountsExact ==
  Returned =>
    /\ ret.count = tested /\ ret.encodes = encoded
    /\ ~suffix => ret.encodes = ret.count

\* A round that reports no hit has drawn no key that matches.
NothingMissed == Returned => ~missed

\* Once there is a hit, the other threads test at most CheckEvery more each.
StopsSoon == late <= (Requested - 1) * CheckEvery

\* The kernel and the copies use the buffer only while it is allocated, and
\* nothing is left when the worker is gone.
BufferOwned ==
  /\ host \notin {"idle", "create", "dropped"} => live
  /\ initialized <=> live
  /\ host = "dropped" => ~live
=============================================================================
