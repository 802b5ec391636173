--------------------------- MODULE EthRound_proofs ---------------------------
(***************************************************************************)
(* Proofs about EthRound, for every number of threads, length of walk,     *)
(* size of a batch of additions, interval of looks at the done flag and    *)
(* group order that SizesFit allows, and every set of wanted keys.         *)
(*                                                                         *)
(* The inductive invariant says what a thread's batch of public keys holds *)
(* (Walking), who writes the result and how much of it is written (Writer),*)
(* what the host has read of it (Read), which candidates the count lacks   *)
(* (Counted), how much room it has (Bounded), how far a thread is past the *)
(* first hit (Late) and who owns the buffer (Memory).                      *)
(***************************************************************************)
EXTENDS EthRound, FiniteSetTheorems, TLAPS

Hosts == {"idle", "create", "upload", "resetDone", "resetCount", "clearOut", "configure",
          "launch", "sync", "readOut", "readCount", "readDone", "dropped"}
Pcs   == {"off", "check", "hash", "claim", "writeKey", "writePub", "leave", "walk"}

\* From here on the kernel's globals belong to this round, and its output too.
Reset    == {"clearOut", "configure", "launch"}
Launched == {"sync", "readOut", "readCount", "readDone"}
Cleared  == {"configure", "launch"} \cup Launched

Pairs   == [key : Nat, pub : Nat]
Batches == {<<>>} \cup [0 .. BatchSize - 1 -> Nat]
States  == [pc : Pcs, iter : 0 .. Iters, key : Nat, pub : Nat, batch : Batches]

Types ==
  /\ host \in Hosts /\ live \in BOOLEAN /\ initialized \in BOOLEAN /\ status \in {0, -1}
  /\ rounds \in 0 .. MaxRounds /\ launched \in 0 .. Requested
  /\ done \in {0, 1} /\ count \in Nat /\ out \in Pairs
  /\ thread \in [Threads -> States]
  /\ ret \in [out : Pairs, count : Nat, done : {0, 1}]
  /\ wanted \in SUBSET Keys /\ tested \in Nat /\ late \in [Threads -> Nat]

\* Threads run between the launch and the synchronisation.
Rest ==
  /\ host # "sync" => \A t \in Threads : thread[t].pc = "off"
  /\ \A t \in Threads : thread[t].pc = "off" => thread[t] = Idle
  /\ host = "sync" => \A t \in Threads : t > launched => thread[t].pc = "off"
  /\ host \in {"launch"} \cup Launched => launched >= 1

\* The key of an iteration is as far from the top as iterations are left, and
\* the batch is that of the key it was made from.
Walking ==
  \A t \in Threads : LET me == thread[t] IN me.pc # "off" =>
    /\ me.pub = me.key /\ me.iter < me.key /\ me.key <= Order - 1 - Iters + me.iter
    /\ me.pc # "check" => me.iter < Iters
    /\ me.iter % BatchSize # 0 => me.batch = AddBatch(me.key - (me.iter % BatchSize))
    /\ me.pc \in {"claim", "writeKey", "writePub"} => me.pub \in wanted

Writes(t) == thread[t].pc \in {"writeKey", "writePub"}

\* One thread writes, the first with a match; without one there is no output.
Writer ==
  /\ \A t, u \in Threads : Writes(t) /\ Writes(u) => t = u
  /\ \A t \in Threads : thread[t].pc \in {"writeKey", "writePub", "leave"} => done = 1
  /\ \A t \in Threads : thread[t].pc = "writePub" => out.key = thread[t].key
  /\ host \in Cleared /\ done = 0 => out = Zeros
  /\ host \in Cleared /\ done = 1 =>
       (\E t \in Threads : Writes(t)) \/ (out.key = out.pub /\ out.key \in wanted)
  /\ host \in {"resetCount"} \cup Reset => done = 0

Read ==
  /\ host \in {"readCount", "readDone"} => ret.out = out
  /\ host = "readDone" => ret.count = count
  /\ ResultIsOne /\ CountExact

\* The candidates a thread has hashed in its walk.
Hashed(t) == IF thread[t].pc \in {"off", "check", "hash"} THEN thread[t].iter
                                                         ELSE thread[t].iter + 1

Work     == Threads \X (1 .. Iters)
InFlight == {w \in Work : thread[w[1]].pc # "off" /\ w[2] <= Hashed(w[1])}
Off      == {t \in Threads : thread[t].pc = "off"}
Finishers == {t \in 1 .. launched : thread[t].pc = "off"}

\* The count lacks what the threads that have not left have hashed.
Counted ==
  /\ host \in {"create", "upload", "resetDone", "resetCount"} => tested = 0
  /\ host \in Reset => count = 0 /\ tested = 0
  /\ host \in Launched => tested = count + Cardinality(InFlight)
  /\ host \in Launched /\ done = 0 => count = Cardinality(Finishers \X (1 .. Iters))

\* A thread that has left has counted Iters candidates at most.
Bounded ==
  /\ count <= Cardinality(Off \X (1 .. Iters))
  /\ tested <= Cardinality(Work)

\* What a thread tests after the first hit counts from its last look at the flag.
Late ==
  /\ done = 0 \/ host \in {"create", "upload", "resetDone"} => \A t \in Threads : late[t] = 0
  /\ \A t \in Threads : LET me == thread[t] since == me.iter % CheckEvery IN
       /\ late[t] <= CheckEvery
       /\ me.pc = "check" /\ since # 0 => late[t] <= since
       /\ me.pc = "hash" => late[t] <= since
       /\ me.pc = "walk" => late[t] <= since + 1

Memory == BufferOwned

IInv == Types /\ Rest /\ Walking /\ Writer /\ Read /\ Counted /\ Bounded /\ Late /\ Memory

-----------------------------------------------------------------------------
(* Remainders: how they change when a number grows by one. *)

LEMMA Remainder ==
  ASSUME NEW i \in Nat, NEW b \in Nat \ {0}
  PROVE  i % b \in 0 .. b - 1 /\ i % b <= i /\ \E q \in Nat : i = b * q + (i % b)
<1> DEFINE q == i \div b
<1>1. i % b \in 0 .. b - 1 /\ q \in Nat /\ b * q \in Nat
  OBVIOUS
<1>2. i % b = i - b * q
  OBVIOUS
<1> HIDE DEF q
<1>3. i = b * q + (i % b)
  BY <1>1, <1>2
<1>4. i % b <= i
  BY <1>1, <1>2
<1> QED BY <1>1, <1>3, <1>4

LEMMA RemainderIs ==
  ASSUME NEW i \in Nat, NEW b \in Nat \ {0}, NEW q \in Nat, NEW r \in Nat, i = b * q + r, r < b
  PROVE  i % b = r
OBVIOUS

LEMMA NextRemainder ==
  ASSUME NEW i \in Nat, NEW b \in Nat \ {0}
  PROVE  (i + 1) % b = IF (i % b) + 1 = b THEN 0 ELSE (i % b) + 1
<1>1. PICK q \in Nat : i = b * q + (i % b)
  BY Remainder
<1>2. i % b \in 0 .. b - 1
  BY Remainder
<1>3. CASE (i % b) + 1 = b
  <2> DEFINE p == q + 1
  <2>1. i + 1 = b * p + 0 /\ p \in Nat /\ i + 1 \in Nat /\ 0 < b
    BY <1>1, <1>2, <1>3
  <2> HIDE DEF p
  <2>2. (i + 1) % b = 0
    BY <2>1, RemainderIs
  <2> QED BY <1>3, <2>2
<1>4. CASE (i % b) + 1 # b
  <2> DEFINE r == (i % b) + 1
  <2>1. i + 1 = b * q + r /\ r \in Nat /\ r < b /\ i + 1 \in Nat
    BY <1>1, <1>2, <1>4
  <2> HIDE DEF r
  <2>2. (i + 1) % b = r
    BY <2>1, RemainderIs
  <2> QED BY <1>4, <2>2 DEF r
<1> QED BY <1>3, <1>4

-----------------------------------------------------------------------------
(* The walk. *)

\* Short of the order, a batch of additions holds the next keys.
LEMMA BatchHolds ==
  ASSUME SizesFit, NEW k \in Nat
  PROVE  /\ AddBatch(k) \in [0 .. BatchSize - 1 -> Nat]
         /\ \A r \in 0 .. BatchSize - 1 : k + r + 1 < Order => AddBatch(k)[r] = k + r + 1
<1>1. ASSUME NEW r \in 0 .. BatchSize - 1
      PROVE  /\ (k + r + 1) % Order \in Nat
             /\ k + r + 1 < Order => (k + r + 1) % Order = k + r + 1
  BY DEF SizesFit
<1> QED BY <1>1 DEF AddBatch

\* The whole of a step of the walk: one key on, with its own public key.
LEMMA WalkIsNext ==
  ASSUME SizesFit, Types, Walking, NEW t \in Threads, Walk(t)
  PROVE  LET me == thread[t] IN
         /\ me.pc = "walk" /\ me.iter < Iters /\ me.key + 1 \in Keys
         /\ me.key - (me.iter % BatchSize) \in Nat
         /\ thread' = [thread EXCEPT ![t] =
              [pc |-> "check", iter |-> me.iter + 1, key |-> me.key + 1, pub |-> me.key + 1,
               batch |-> AddBatch(me.key - (me.iter % BatchSize))]]
<1> DEFINE me == thread[t]
           r  == me.iter % BatchSize
           k  == me.key - r
<1>1. /\ me \in States /\ me.pc = "walk" /\ me.iter \in Nat /\ me.iter < Iters
      /\ me.pub = me.key /\ me.key \in Nat
      /\ me.iter < me.key /\ me.key <= Order - 1 - Iters + me.iter
      /\ r # 0 => me.batch = AddBatch(k)
      /\ Iters \in Nat /\ Order \in Nat
  BY DEF Types, Walking, Walk, KernelAt, States, SizesFit
<1>2. r \in 0 .. BatchSize - 1 /\ r <= me.iter
  <2>1. BatchSize \in Nat \ {0}
    BY DEF SizesFit
  <2>2. me.iter \in Nat
    BY <1>1
  <2> HIDE DEF me
  <2> QED BY <2>1, <2>2, Remainder
<1>3. me.key + 1 \in Keys /\ me.key + 1 < Order
  BY <1>1 DEF Keys
<1>4. k \in Nat /\ k + r + 1 = me.key + 1
  <2> HIDE DEF me, r
  <2> QED BY <1>1, <1>2
<1>5. AddBatch(k)[r] = me.key + 1
  <2> HIDE DEF me, r, k
  <2> QED BY <1>2, <1>3, <1>4, BatchHolds
<1>6. (IF r = 0 THEN AddBatch(me.pub) ELSE me.batch) = AddBatch(k)
  <2>1. CASE r = 0
    <3>1. k = me.pub
      BY <1>1, <2>1
    <3> QED BY <2>1, <3>1
  <2>2. CASE r # 0
    BY <1>1, <2>2
  <2> QED BY <2>1, <2>2
<1>7. thread' = [thread EXCEPT ![t] =
        [pc |-> "check", iter |-> me.iter + 1, key |-> me.key + 1, pub |-> me.key + 1,
         batch |-> AddBatch(k)]]
  BY <1>5, <1>6 DEF Walk
<1> QED BY <1>1, <1>3, <1>4, <1>7

\* A step of a thread leaves the host, the pattern and the other threads alone.
LEMMA ThreadKeeps ==
  ASSUME Types, Rest, NEW t \in Threads, ThreadStep(t)
  PROVE  /\ host = "sync" /\ UNCHANGED <<hostVars, wanted>> /\ thread[t].pc # "off"
         /\ thread' = [thread EXCEPT ![t] = thread'[t]]
         /\ \A u \in Threads \ {t} : thread'[u] = thread[u]
<1>1. CASE CheckDone(t)
  BY <1>1 DEF CheckDone, KernelAt, Exits, Types, Rest
<1>2. CASE Hash(t)
  BY <1>2 DEF Hash, KernelAt, Types, Rest
<1>3. CASE Claim(t)
  BY <1>3 DEF Claim, KernelAt, Types, Rest
<1>4. CASE WriteKey(t)
  BY <1>4 DEF WriteKey, KernelAt, Types, Rest
<1>5. CASE WritePub(t)
  BY <1>5 DEF WritePub, KernelAt, Types, Rest
<1>6. CASE Leave(t)
  BY <1>6 DEF Leave, KernelAt, Exits, Types, Rest
<1>7. CASE Walk(t)
  BY <1>7 DEF Walk, KernelAt, Types, Rest
<1>8. CASE RunOut(t)
  BY <1>8 DEF RunOut, KernelAt, Exits, Types, Rest
<1> QED BY <1>1, <1>2, <1>3, <1>4, <1>5, <1>6, <1>7, <1>8 DEF ThreadStep

-----------------------------------------------------------------------------
(* Types and rest. *)

LEMMA StatesHold ==
  ASSUME SizesFit
  PROVE  /\ Idle \in States
         /\ \A k \in StartKeys : [pc |-> "check", iter |-> 0, key |-> k, pub |-> k,
                                  batch |-> <<>>] \in States
         /\ Zeros \in Pairs /\ Unread \in [out : Pairs, count : Nat, done : {0, 1}]
<1>1. <<>> \in Batches
  BY DEF Batches
<1>2. 0 \in 0 .. Iters /\ StartKeys \in SUBSET Nat
  BY DEF SizesFit, StartKeys
<1>3. Zeros \in Pairs
  BY DEF Zeros, Pairs
<1> QED BY <1>1, <1>2, <1>3 DEF Idle, States, Pcs, Unread

LEMMA TypesStep ==
  ASSUME SizesFit, IInv, [Next]_vars
  PROVE  Types'
<1> USE DEF IInv
<1>1. CASE HostStep
  <2> USE DEF Types, Hosts, At, hostVars, kernelVars
  <2>1. CASE BeginRound
    <3>1. rounds' \in 0 .. MaxRounds
      BY <2>1 DEF BeginRound, SizesFit
    <3> QED BY <2>1, <3>1, StatesHold DEF BeginRound
  <2>2. CASE CreateContext
    BY <2>2 DEF CreateContext
  <2>3. CASE Upload
    BY <2>3 DEF Upload
  <2>4. CASE ResetDone
    BY <2>4 DEF ResetDone
  <2>5. CASE ResetCount
    BY <2>5 DEF ResetCount
  <2>6. CASE ClearOut
    BY <2>6, StatesHold DEF ClearOut
  <2>7. CASE Configure
    BY <2>7 DEF Configure, Threads, SizesFit
  <2>8. CASE RetryLaunch
    <3>1. launched' \in 0 .. Requested
      BY <2>8 DEF RetryLaunch, SizesFit
    <3> QED BY <2>8, <3>1 DEF RetryLaunch
  <2>9. CASE Launch
    <3>1. thread' \in [Threads -> States]
      BY <2>9, StatesHold DEF Launch
    <3> QED BY <2>9, <3>1 DEF Launch
  <2>10. CASE Synchronize
    BY <2>10 DEF Synchronize
  <2>11. CASE ReadOut
    BY <2>11 DEF ReadOut
  <2>12. CASE ReadCount
    BY <2>12 DEF ReadCount
  <2>13. CASE ReadDone
    BY <2>13 DEF ReadDone
  <2>14. CASE RoundFails
    <3>1. thread' \in [Threads -> States]
      BY <2>14, StatesHold DEF RoundFails
    <3> QED BY <2>14, <3>1 DEF RoundFails
  <2>15. CASE Drop
    BY <2>15 DEF Drop
  <2> QED
    BY <1>1, <2>1, <2>2, <2>3, <2>4, <2>5, <2>6, <2>7, <2>8, <2>9, <2>10, <2>11, <2>12, <2>13,
       <2>14, <2>15 DEF HostStep
<1>2. ASSUME NEW t \in Threads, ThreadStep(t)
      PROVE  Types'
  <2>1. UNCHANGED <<hostVars, wanted>>
    BY <1>2, ThreadKeeps
  <2>2. thread[t] \in States
    BY DEF Types
  <2>3. SUFFICES /\ done' \in {0, 1} /\ count' \in Nat /\ out' \in Pairs /\ tested' \in Nat
                 /\ thread' \in [Threads -> States] /\ late' \in [Threads -> Nat]
    BY <2>1 DEF Types, hostVars
  <2> USE <2>2 DEF Types, KernelAt, States, Pcs
  <2>4. CASE CheckDone(t)
    <3>1. thread[t].iter \in Nat
      BY DEF SizesFit
    <3>2. UNCHANGED <<done, out, tested, late>>
      BY <2>4 DEF CheckDone
    <3>3. CASE Exits(t, thread[t].iter)
      BY <3>1, <3>2, <3>3, StatesHold DEF Exits
    <3>4. CASE thread' = [thread EXCEPT ![t].pc = "hash"] /\ count' = count
      BY <3>2, <3>4
    <3> QED BY <2>4, <3>3, <3>4 DEF CheckDone
  <2>5. CASE Hash(t)
    BY <2>5 DEF Hash
  <2>6. CASE Claim(t)
    BY <2>6 DEF Claim
  <2>7. CASE WriteKey(t)
    BY <2>7 DEF WriteKey, Pairs
  <2>8. CASE WritePub(t)
    BY <2>8 DEF WritePub, Pairs
  <2>9. CASE Leave(t)
    <3>1. thread[t].iter \in Nat
      BY DEF SizesFit
    <3> QED BY <2>9, <3>1, StatesHold DEF Leave, Exits
  <2>10. CASE Walk(t)
    <3>1. AddBatch(thread[t].key - (thread[t].iter % BatchSize)) \in Batches
      BY <2>10, WalkIsNext, BatchHolds DEF Batches
    <3>2. thread[t].iter + 1 \in 0 .. Iters
      BY <2>10, WalkIsNext DEF SizesFit
    <3>3. thread' \in [Threads -> States]
      BY <2>10, <3>1, <3>2, WalkIsNext
    <3> QED BY <2>10, <3>3 DEF Walk
  <2>11. CASE RunOut(t)
    <3>1. Iters \in Nat
      BY DEF SizesFit
    <3> QED BY <2>11, <3>1, StatesHold DEF RunOut, Exits
  <2> QED
    BY <1>2, <2>4, <2>5, <2>6, <2>7, <2>8, <2>9, <2>10, <2>11 DEF ThreadStep
<1>3. CASE Finished \/ UNCHANGED vars
  BY <1>3 DEF Finished, Types, vars, hostVars, kernelVars
<1> QED BY <1>1, <1>2, <1>3 DEF Next

LEMMA RestStep ==
  ASSUME SizesFit, IInv, [Next]_vars
  PROVE  Rest'
<1> USE DEF IInv
<1>1. CASE HostStep
  <2> USE DEF At, hostVars, kernelVars
  <2>1. CASE Launch
    <3>1. \A t \in Threads : thread'[t].pc = "off" => thread'[t] = Idle
      BY <2>1 DEF Launch
    <3> QED BY <2>1, <3>1 DEF Launch, Rest, Launched
  <2>2. CASE RoundFails
    BY <2>2 DEF RoundFails, Rest, Launched, Idle
  <2>3. CASE Configure \/ RetryLaunch
    <3>1. launched' >= 1
      BY <2>3 DEF Configure, RetryLaunch, Threads, Types, SizesFit
    <3> QED BY <2>3, <3>1 DEF Configure, RetryLaunch, Rest, Launched
  <2>4. CASE Synchronize
    BY <2>4 DEF Synchronize, Rest, Launched
  <2>5. CASE BeginRound \/ CreateContext \/ Upload \/ ResetDone \/ ResetCount \/ ClearOut \/ Drop
    BY <2>5 DEF BeginRound, CreateContext, Upload, ResetDone, ResetCount, ClearOut, Drop, Rest,
                Launched
  <2>6. CASE ReadOut \/ ReadCount \/ ReadDone
    BY <2>6 DEF ReadOut, ReadCount, ReadDone, Rest, Launched
  <2> QED BY <1>1, <2>1, <2>2, <2>3, <2>4, <2>5, <2>6 DEF HostStep
<1>2. ASSUME NEW t \in Threads, ThreadStep(t)
      PROVE  Rest'
  <2>1. thread'[t].pc = "off" => thread'[t] = Idle
    <3> USE DEF KernelAt, Types, Idle
    <3>1. CASE CheckDone(t)
      <4>1. CASE Exits(t, thread[t].iter)
        BY <4>1 DEF Exits
      <4>2. CASE thread' = [thread EXCEPT ![t].pc = "hash"]
        BY <4>2 DEF States
      <4> QED BY <3>1, <4>1, <4>2 DEF CheckDone
    <3>2. CASE Hash(t) \/ Claim(t) \/ WriteKey(t) \/ WritePub(t)
      BY <3>2 DEF Hash, Claim, WriteKey, WritePub, States
    <3>3. CASE Walk(t)
      BY <3>3 DEF Walk
    <3>4. CASE Leave(t) \/ RunOut(t)
      BY <3>4 DEF Leave, RunOut, Exits
    <3> QED BY <1>2, <3>1, <3>2, <3>3, <3>4 DEF ThreadStep
  <2>2. /\ host = "sync" /\ UNCHANGED hostVars /\ thread[t].pc # "off"
        /\ \A u \in Threads \ {t} : thread'[u] = thread[u]
    BY <1>2, ThreadKeeps
  <2>3. ~(t > launched)
    BY <2>2 DEF Rest
  <2> QED BY <2>1, <2>2, <2>3 DEF Rest, hostVars
<1>3. CASE Finished \/ UNCHANGED vars
  BY <1>3 DEF Finished, Rest, vars, hostVars, kernelVars
<1> QED BY <1>1, <1>2, <1>3 DEF Next

-----------------------------------------------------------------------------
(* The walk and the writer. *)

\* The host touches the threads when it launches them and when it gives up.
LEMMA HostKeeps ==
  ASSUME HostStep
  PROVE  /\ wanted' = wanted
         /\ thread' = thread \/ Launch \/ RoundFails
<1> USE DEF At, hostVars, kernelVars
<1>1. CASE BeginRound \/ CreateContext \/ Upload \/ ResetDone \/ ResetCount \/ ClearOut
  BY <1>1 DEF BeginRound, CreateContext, Upload, ResetDone, ResetCount, ClearOut
<1>2. CASE Configure \/ RetryLaunch \/ Launch \/ Synchronize
  BY <1>2 DEF Configure, RetryLaunch, Launch, Synchronize
<1>3. CASE ReadOut \/ ReadCount \/ ReadDone \/ RoundFails \/ Drop
  BY <1>3 DEF ReadOut, ReadCount, ReadDone, RoundFails, Drop
<1> QED BY <1>1, <1>2, <1>3 DEF HostStep

LEMMA WalkingStep ==
  ASSUME SizesFit, IInv, [Next]_vars
  PROVE  Walking'
<1> USE DEF IInv
<1>1. CASE HostStep
  <2>1. CASE thread' = thread
    BY <1>1, <2>1, HostKeeps DEF Walking
  <2>2. CASE Launch
    <3>1. ASSUME NEW t \in Threads, thread'[t].pc # "off"
          PROVE  \E k \in StartKeys :
                   thread'[t] = [pc |-> "check", iter |-> 0, key |-> k, pub |-> k,
                                 batch |-> <<>>]
      BY <2>2, <3>1 DEF Launch, Idle
    <3>2. ASSUME NEW k \in StartKeys
          PROVE  0 < k /\ k <= Order - 1 - Iters + 0
      BY DEF StartKeys, SizesFit
    <3>3. 0 % BatchSize = 0
      BY DEF SizesFit
    <3>4. ASSUME NEW t \in Threads, thread'[t].pc # "off"
          PROVE  /\ thread'[t].pc = "check" /\ thread'[t].iter = 0
                 /\ thread'[t].pub = thread'[t].key /\ 0 < thread'[t].key
                 /\ thread'[t].key <= Order - 1 - Iters + 0
      <4>1. PICK k \in StartKeys :
              thread'[t] = [pc |-> "check", iter |-> 0, key |-> k, pub |-> k, batch |-> <<>>]
        BY <3>1, <3>4
      <4> QED BY <3>2, <4>1
    <3> QED BY <3>3, <3>4 DEF Walking
  <2>3. CASE RoundFails
    BY <2>3 DEF RoundFails, Walking, Idle
  <2> QED BY <1>1, <2>1, <2>2, <2>3, HostKeeps
<1>2. ASSUME NEW t \in Threads, ThreadStep(t)
      PROVE  Walking'
  <2>1. wanted' = wanted /\ \A u \in Threads \ {t} : thread'[u] = thread[u]
    BY <1>2, ThreadKeeps
  <2> DEFINE Good(me, w) ==
        me.pc # "off" =>
          /\ me.pub = me.key /\ me.iter < me.key /\ me.key <= Order - 1 - Iters + me.iter
          /\ me.pc # "check" => me.iter < Iters
          /\ me.iter % BatchSize # 0 => me.batch = AddBatch(me.key - (me.iter % BatchSize))
          /\ me.pc \in {"claim", "writeKey", "writePub"} => me.pub \in w
  <2>2. Good(thread[t], wanted) /\ thread[t] \in States /\ thread \in [Threads -> States]
    BY DEF Walking, Types
  <2>3. SUFFICES Good(thread'[t], wanted)
    BY <2>1 DEF Walking
  <2>4. CASE thread'[t] = Idle
    BY <2>4 DEF Idle
  <2>5. CASE CheckDone(t)
    <3>1. CASE Exits(t, thread[t].iter)
      BY <2>2, <2>4, <3>1 DEF Exits
    <3>2. CASE thread' = [thread EXCEPT ![t].pc = "hash"]
      BY <2>2, <2>5, <3>2 DEF CheckDone, KernelAt, States, SizesFit
    <3> QED BY <2>5, <3>1, <3>2 DEF CheckDone
  <2>6. CASE Hash(t)
    BY <2>2, <2>6 DEF Hash, KernelAt, States
  <2>7. CASE Claim(t)
    BY <2>2, <2>7 DEF Claim, KernelAt, States
  <2>8. CASE WriteKey(t) \/ WritePub(t)
    BY <2>2, <2>8 DEF WriteKey, WritePub, KernelAt, States
  <2>9. CASE Leave(t) \/ RunOut(t)
    BY <2>2, <2>4, <2>9 DEF Leave, RunOut, Exits
  <2>10. CASE Walk(t)
    <3> DEFINE me == thread[t]
               r  == me.iter % BatchSize
    <3>1. /\ me.iter < Iters
          /\ thread'[t] = [pc |-> "check", iter |-> me.iter + 1, key |-> me.key + 1,
                           pub |-> me.key + 1, batch |-> AddBatch(me.key - r)]
      BY <2>2, <2>10, WalkIsNext
    <3>2. me.iter \in Nat /\ me.key \in Nat /\ BatchSize \in Nat \ {0} /\ r \in Nat
      BY <2>2 DEF States, SizesFit
    <3>3. (me.iter + 1) % BatchSize # 0 => (me.iter + 1) % BatchSize = r + 1
      BY <3>2, NextRemainder
    <3>4. me.iter < me.key /\ me.key <= Order - 1 - Iters + me.iter
      BY <2>2, <2>10 DEF Walk, KernelAt
    <3>5. me.iter + 1 < me.key + 1 /\ me.key + 1 <= Order - 1 - Iters + (me.iter + 1)
      BY <3>2, <3>4 DEF SizesFit
    <3>6. (me.key + 1) - (r + 1) = me.key - r
      BY <3>2
    <3> QED BY <3>1, <3>3, <3>5, <3>6
  <2> QED
    BY <1>2, <2>5, <2>6, <2>7, <2>8, <2>9, <2>10 DEF ThreadStep
<1>3. CASE Finished \/ UNCHANGED vars
  BY <1>3 DEF Finished, Walking, vars, hostVars, kernelVars
<1> QED BY <1>1, <1>2, <1>3 DEF Next

LEMMA WriterStep ==
  ASSUME SizesFit, IInv, [Next]_vars
  PROVE  Writer'
<1> USE DEF IInv
<1>1. CASE HostStep
  <2> USE DEF At, hostVars, kernelVars, Cleared, Reset, Launched
  <2>1. CASE BeginRound \/ CreateContext \/ Upload \/ Drop
    BY <2>1 DEF BeginRound, CreateContext, Upload, Drop, Writer, Writes
  <2>2. CASE ResetDone \/ ResetCount
    BY <2>2 DEF ResetDone, ResetCount, Writer, Writes, Rest
  <2>3. CASE ClearOut
    BY <2>3 DEF ClearOut, Writer, Writes, Rest
  <2>4. CASE Configure \/ RetryLaunch
    BY <2>4 DEF Configure, RetryLaunch, Writer, Writes
  <2>5. CASE Launch
    <3>1. \A t \in Threads : thread'[t].pc \in {"off", "check"}
      BY <2>5 DEF Launch, Idle
    <3> QED BY <2>5, <3>1 DEF Launch, Writer, Writes
  <2>6. CASE Synchronize
    BY <2>6 DEF Synchronize, Writer, Writes
  <2>7. CASE ReadOut \/ ReadCount \/ ReadDone
    BY <2>7 DEF ReadOut, ReadCount, ReadDone, Writer, Writes
  <2>8. CASE RoundFails
    BY <2>8 DEF RoundFails, Writer, Writes, Idle
  <2> QED
    BY <1>1, <2>1, <2>2, <2>3, <2>4, <2>5, <2>6, <2>7, <2>8 DEF HostStep
<1>2. ASSUME NEW t \in Threads, ThreadStep(t)
      PROVE  Writer'
  <2>1. /\ host = "sync" /\ host' = "sync" /\ wanted' = wanted
        /\ \A u \in Threads \ {t} : thread'[u] = thread[u]
    BY <1>2, ThreadKeeps DEF hostVars
  <2>2. thread[t] \in States /\ thread \in [Threads -> States] /\ done \in {0, 1} /\ out \in Pairs
    BY DEF Types
  <2>3. thread'[t].pc \in {"off", "check", "hash", "claim", "walk"} /\ ~Writes(t)
        /\ UNCHANGED <<done, out>> => Writer'
    BY <2>1 DEF Writer, Writes, Cleared, Launched
  <2>4. CASE CheckDone(t)
    <3>1. CASE Exits(t, thread[t].iter)
      BY <2>2, <2>3, <2>4, <3>1 DEF Exits, CheckDone, KernelAt, Writes, Idle
    <3>2. CASE thread' = [thread EXCEPT ![t].pc = "hash"]
      BY <2>2, <2>3, <2>4, <3>2 DEF CheckDone, KernelAt, Writes, States
    <3> QED BY <2>4, <3>1, <3>2 DEF CheckDone
  <2>5. CASE Hash(t)
    BY <2>2, <2>3, <2>5 DEF Hash, KernelAt, Writes, States
  <2>6. CASE Claim(t)
    <3>1. done' = 1 /\ out' = out /\ thread[t].pc = "claim"
          /\ thread'[t].pc = IF done = 0 THEN "writeKey" ELSE "leave"
      BY <2>2, <2>6 DEF Claim, KernelAt, States
    <3>2. CASE done = 0
      <4>1. \A u \in Threads : ~Writes(u)
        BY <3>2 DEF Writer, Writes
      <4> QED BY <2>1, <3>1, <3>2, <4>1 DEF Writer, Writes, Cleared, Launched, Reset
    <3>3. CASE done = 1
      BY <2>1, <3>1, <3>3 DEF Writer, Writes, Cleared, Launched, Reset
    <3> QED BY <2>2, <3>2, <3>3
  <2>7. CASE WriteKey(t)
    BY <2>1, <2>2, <2>7 DEF WriteKey, KernelAt, Writes, Writer, States, Cleared, Launched, Pairs
  <2>8. CASE WritePub(t)
    <3>1. thread[t].pub = thread[t].key /\ thread[t].pub \in wanted
      BY <2>8 DEF WritePub, KernelAt, Walking
    <3>2. out.key = thread[t].key /\ done = 1
      BY <2>8 DEF WritePub, KernelAt, Writer
    <3>3. out'.key = out'.pub /\ out'.key \in wanted'
      BY <2>1, <2>2, <2>8, <3>1, <3>2 DEF WritePub, Pairs
    <3>4. thread'[t].pc = "leave" /\ done' = 1
      BY <2>2, <2>8, <3>2 DEF WritePub, States
    <3>5. \A u \in Threads : ~Writes(u)'
      BY <2>1, <2>8, <3>4 DEF WritePub, KernelAt, Writer, Writes
    <3> QED BY <2>1, <3>2, <3>3, <3>4, <3>5 DEF Writer, Writes, Cleared, Launched, Reset
  <2>9. CASE Leave(t) \/ RunOut(t)
    BY <2>2, <2>3, <2>9 DEF Leave, RunOut, Exits, KernelAt, Writes, Idle
  <2>10. CASE Walk(t)
    BY <2>2, <2>3, <2>10 DEF Walk, KernelAt, Writes
  <2> QED
    BY <1>2, <2>4, <2>5, <2>6, <2>7, <2>8, <2>9, <2>10 DEF ThreadStep
<1>3. CASE Finished \/ UNCHANGED vars
  BY <1>3 DEF Finished, Writer, Writes, vars, hostVars, kernelVars
<1> QED BY <1>1, <1>2, <1>3 DEF Next

-----------------------------------------------------------------------------
(* Counting. *)

\* As many pairs as threads times iterations.
LEMMA Products ==
  ASSUME SizesFit, NEW S, S \subseteq Threads
  PROVE  /\ IsFiniteSet(S) /\ IsFiniteSet(S \X (1 .. Iters))
         /\ Cardinality(S) \in Nat
         /\ Cardinality(S \X (1 .. Iters)) = Cardinality(S) * Iters
<1>1. IsFiniteSet(Threads) /\ IsFiniteSet(1 .. Iters) /\ Cardinality(1 .. Iters) = Iters
  <2>1. 1 \in Int /\ Requested \in Int /\ Iters \in Int /\ Iters >= 1
    BY DEF SizesFit
  <2> QED BY <2>1, FS_Interval DEF Threads
<1>2. IsFiniteSet(S)
  BY <1>1, FS_Subset
<1>3. Cardinality(S) \in Nat
  BY <1>2, FS_CardinalityType
<1> QED BY <1>1, <1>2, <1>3, FS_Product

LEMMA OneMore ==
  ASSUME SizesFit, NEW S, S \subseteq Threads, NEW t \in Threads \ S
  PROVE  Cardinality((S \cup {t}) \X (1 .. Iters)) = Cardinality(S \X (1 .. Iters)) + Iters
<1>1. /\ IsFiniteSet(S) /\ Cardinality(S) \in Nat
      /\ Cardinality(S \X (1 .. Iters)) = Cardinality(S) * Iters
  BY Products
<1>2. (S \cup {t}) \subseteq Threads
  OBVIOUS
<1>3. Cardinality((S \cup {t}) \X (1 .. Iters)) = Cardinality(S \cup {t}) * Iters
  BY <1>2, Products
<1>4. Cardinality(S \cup {t}) = Cardinality(S) + 1
  BY <1>1, FS_AddElement
<1>5. Iters \in Nat
  BY DEF SizesFit
<1>6. ASSUME NEW c \in Nat PROVE (c + 1) * Iters = c * Iters + Iters
  BY <1>5
<1> QED BY <1>1, <1>3, <1>4, <1>6

LEMMA FlightFinite ==
  ASSUME SizesFit
  PROVE  /\ IsFiniteSet(Work) /\ Cardinality(Work) = Requested * Iters
         /\ IsFiniteSet(InFlight) /\ Cardinality(InFlight) \in Nat
<1>1. Cardinality(Threads) = Requested
  <2>1. 1 \in Int /\ Requested \in Int /\ Requested >= 1
    BY DEF SizesFit
  <2> QED BY <2>1, FS_Interval DEF Threads
<1>2. IsFiniteSet(Work) /\ Cardinality(Work) = Requested * Iters
  BY <1>1, Products DEF Work
<1>3. InFlight \subseteq Work
  BY DEF InFlight
<1> QED BY <1>2, <1>3, FS_Subset, FS_CardinalityType

\* A thread that walks on without a hash has hashed what it had.
LEMMA FlightSame ==
  ASSUME SizesFit, Types, NEW t \in Threads, \A u \in Threads \ {t} : thread'[u] = thread[u],
         thread[t].pc # "off", thread'[t].pc # "off", Hashed(t)' = Hashed(t), launched' = launched
  PROVE  InFlight' = InFlight /\ Off' = Off /\ Finishers' = Finishers
<1>1. \A u \in Threads : /\ (thread'[u].pc = "off") <=> (thread[u].pc = "off")
                        /\ Hashed(u)' = Hashed(u)
  BY DEF Hashed
<1>2. InFlight' = InFlight
  <2>1. ASSUME NEW u \in Threads, NEW k \in 1 .. Iters
        PROVE  <<u, k>> \in InFlight' <=> <<u, k>> \in InFlight
    BY <1>1 DEF InFlight, Work
  <2> QED BY <2>1 DEF InFlight, Work
<1>3. Off' = Off
  BY <1>1 DEF Off
<1>4. Finishers' = Finishers
  <2>1. \A u \in 1 .. launched : u \in Threads
    BY DEF Types, Threads, SizesFit
  <2> QED BY <1>1, <2>1 DEF Finishers
<1> QED BY <1>2, <1>3, <1>4

\* A thread that leaves takes with it the candidates it has hashed.
LEMMA FlightLeaves ==
  ASSUME SizesFit, Types, Rest, NEW t \in Threads, host = "sync", thread[t].pc # "off",
         thread' = [thread EXCEPT ![t] = Idle], launched' = launched,
         Hashed(t) \in 0 .. Iters
  PROVE  /\ Cardinality(InFlight') = Cardinality(InFlight) - Hashed(t)
         /\ t \notin Off /\ Off' = Off \cup {t}
         /\ t \notin Finishers /\ Finishers' = Finishers \cup {t}
<1> DEFINE n == Hashed(t)
           P == {t} \X (1 .. n)
<1>1. thread'[t].pc = "off" /\ \A u \in Threads \ {t} : thread'[u] = thread[u]
  BY DEF Types, Idle
<1>2. n \in 0 .. Iters /\ \A u \in Threads \ {t} : Hashed(u)' = Hashed(u)
  BY <1>1 DEF Hashed
<1>3. InFlight' = InFlight \ P /\ P \subseteq InFlight
  <2>1. ASSUME NEW u \in Threads, NEW k \in 1 .. Iters
        PROVE  /\ <<u, k>> \in InFlight' <=> <<u, k>> \in InFlight \ P
               /\ <<u, k>> \in P => <<u, k>> \in InFlight
    <3>1. CASE u = t
      <4>1. <<u, k>> \in P <=> k <= n
        BY <1>2, <3>1 DEF SizesFit
      <4>2. <<u, k>> \in InFlight <=> k <= n
        BY <3>1 DEF InFlight, Work
      <4>3. <<u, k>> \notin InFlight'
        BY <1>1, <3>1 DEF InFlight
      <4> QED BY <4>1, <4>2, <4>3
    <3>2. CASE u # t
      BY <1>1, <1>2, <3>2 DEF InFlight, Work
    <3> QED BY <3>1, <3>2
  <2>2. P \subseteq Work
    BY <1>2 DEF Work, SizesFit
  <2> HIDE DEF n, P
  <2> QED BY <2>1, <2>2 DEF InFlight, Work
<1>4. Cardinality(P) = n
  <2>1. IsFiniteSet(1 .. n) /\ Cardinality(1 .. n) = n
    <3>1. 1 \in Int /\ n \in Int /\ n >= 0
      BY <1>2 DEF SizesFit
    <3> HIDE DEF n
    <3> QED BY <3>1, FS_Interval
  <2>2. IsFiniteSet({t}) /\ Cardinality({t}) = 1
    BY FS_Singleton
  <2>3. n \in Nat
    BY <1>2 DEF SizesFit
  <2> HIDE DEF n
  <2>4. Cardinality({t} \X (1 .. n)) = 1 * n
    BY <2>1, <2>2, FS_Product
  <2> QED BY <2>3, <2>4
<1>5. Cardinality(InFlight') = Cardinality(InFlight) - n
  <2>1. InFlight \cap P = P
    BY <1>3
  <2>2. Cardinality(InFlight \ P) = Cardinality(InFlight) - Cardinality(InFlight \cap P)
    <3> HIDE DEF P
    <3> QED BY FlightFinite, FS_Difference
  <2> HIDE DEF n, P
  <2> QED BY <1>3, <1>4, <2>1, <2>2
<1>6. t \notin Off /\ Off' = Off \cup {t}
  BY <1>1 DEF Off
<1>7. t \notin Finishers /\ Finishers' = Finishers \cup {t}
  <2>1. t \in 1 .. launched /\ \A u \in 1 .. launched : u \in Threads
    BY DEF Rest, Threads, SizesFit, Types
  <2> QED BY <1>1, <2>1 DEF Finishers
<1> QED BY <1>5, <1>6, <1>7

\* A hash adds one.
LEMMA FlightHashes ==
  ASSUME SizesFit, Types, NEW t \in Threads, \A u \in Threads \ {t} : thread'[u] = thread[u],
         thread[t].pc # "off", thread'[t].pc # "off", Hashed(t) \in 0 .. Iters - 1,
         Hashed(t)' = Hashed(t) + 1, launched' = launched
  PROVE  /\ Cardinality(InFlight') = Cardinality(InFlight) + 1
         /\ Off' = Off /\ Finishers' = Finishers
<1> DEFINE p == <<t, Hashed(t) + 1>>
<1>1. \A u \in Threads \ {t} : Hashed(u)' = Hashed(u)
  BY DEF Hashed
<1>2. InFlight' = InFlight \cup {p} /\ p \notin InFlight
  <2>1. p \in Work /\ p \notin InFlight
    BY DEF Work, InFlight, SizesFit
  <2>2. ASSUME NEW u \in Threads, NEW k \in 1 .. Iters
        PROVE  <<u, k>> \in InFlight' <=> <<u, k>> \in InFlight \cup {p}
    <3>1. CASE u = t
      <4>1. k \in Nat /\ Hashed(t) \in Nat
        BY DEF SizesFit
      <4>2. k <= Hashed(t) + 1 <=> k <= Hashed(t) \/ k = Hashed(t) + 1
        BY <4>1
      <4> QED BY <3>1, <4>2 DEF InFlight, Work
    <3>2. CASE u # t
      BY <1>1, <3>2 DEF InFlight, Work
    <3> QED BY <3>1, <3>2
  <2> HIDE DEF p
  <2> QED BY <2>1, <2>2 DEF InFlight, Work
<1>3. Off' = Off
  BY DEF Off
<1>4. Finishers' = Finishers
  <2>1. \A u \in 1 .. launched : u \in Threads
    BY DEF Types, Threads, SizesFit
  <2> QED BY <2>1 DEF Finishers
<1> HIDE DEF p
<1> QED BY <1>2, <1>3, <1>4, FlightFinite, FS_AddElement

Passes  == /\ UNCHANGED <<count, tested>>
           /\ InFlight' = InFlight /\ Off' = Off /\ Finishers' = Finishers
Tests   == /\ count' = count /\ tested' = tested + 1
           /\ Cardinality(InFlight') = Cardinality(InFlight) + 1
           /\ Off' = Off /\ Finishers' = Finishers
Goes(t) == \E n \in 0 .. Iters :
             /\ count' = count + n /\ tested' = tested /\ (done = 1 \/ n = Iters)
             /\ Cardinality(InFlight') = Cardinality(InFlight) - n
             /\ t \notin Off /\ Off' = Off \cup {t}
             /\ t \notin Finishers /\ Finishers' = Finishers \cup {t}

\* What a step of a thread does to the counts.
LEMMA ThreadCounts ==
  ASSUME SizesFit, IInv, NEW t \in Threads, ThreadStep(t)
  PROVE  (done = 1 => done' = 1) /\ (Passes \/ Tests \/ Goes(t))
<1> USE DEF IInv
<1>1. /\ host = "sync" /\ launched' = launched /\ thread[t].pc # "off"
      /\ \A u \in Threads \ {t} : thread'[u] = thread[u]
  BY ThreadKeeps DEF hostVars
<1>2. /\ thread[t] \in States /\ thread \in [Threads -> States] /\ Types /\ Rest
      /\ thread[t].iter \in 0 .. Iters /\ Iters \in Nat /\ thread[t].iter \in Nat
      /\ thread[t].pc # "check" => thread[t].iter + 1 \in 0 .. Iters
  BY <1>1 DEF Types, States, Walking, SizesFit
<1>3. CASE CheckDone(t)
  <2>1. UNCHANGED <<done, tested>> /\ Hashed(t) = thread[t].iter
    BY <1>3 DEF CheckDone, KernelAt, Hashed
  <2>2. CASE done = 1 /\ Exits(t, thread[t].iter)
    <3>1. Goes(t)
      BY <1>1, <1>2, <2>1, <2>2, FlightLeaves DEF Exits, Goes
    <3> QED BY <2>1, <3>1
  <2>3. CASE thread' = [thread EXCEPT ![t].pc = "hash"] /\ count' = count
    <3>1. thread'[t].pc # "off" /\ Hashed(t)' = Hashed(t)
      BY <1>2, <2>1, <2>3 DEF Hashed, States
    <3>2. Passes
      BY <1>1, <1>2, <2>1, <2>3, <3>1, FlightSame DEF Passes
    <3> QED BY <2>1, <3>2
  <2> QED BY <1>3, <2>2, <2>3 DEF CheckDone
<1>4. CASE Hash(t)
  <2>1. /\ UNCHANGED <<done, count>> /\ tested' = tested + 1
        /\ thread'[t].pc \in {"claim", "walk"} /\ thread'[t].iter = thread[t].iter
        /\ thread[t].pc = "hash"
    BY <1>2, <1>4 DEF Hash, KernelAt, States
  <2>2. Hashed(t) \in 0 .. Iters - 1 /\ Hashed(t)' = Hashed(t) + 1
    BY <1>2, <2>1 DEF Hashed
  <2>3. Tests
    BY <1>1, <1>2, <2>1, <2>2, FlightHashes DEF Tests
  <2> QED BY <2>1, <2>3
<1>5. CASE Claim(t) \/ WriteKey(t) \/ WritePub(t)
  <2>1. /\ done = 1 => done' = 1
        /\ UNCHANGED <<count, tested>> /\ thread'[t].iter = thread[t].iter
        /\ thread[t].pc \notin {"off", "check", "hash"}
        /\ thread'[t].pc \notin {"off", "check", "hash"}
    BY <1>2, <1>5 DEF Claim, WriteKey, WritePub, KernelAt, States
  <2>2. Hashed(t)' = Hashed(t)
    BY <2>1 DEF Hashed
  <2>3. Passes
    BY <1>1, <1>2, <2>1, <2>2, FlightSame DEF Passes
  <2> QED BY <2>1, <2>3
<1>6. CASE Leave(t)
  <2>1. /\ UNCHANGED <<done, tested>> /\ thread[t].pc = "leave" /\ done = 1
        /\ thread' = [thread EXCEPT ![t] = Idle] /\ count' = count + (thread[t].iter + 1)
    BY <1>6 DEF Leave, KernelAt, Exits, Writer
  <2>2. Hashed(t) = thread[t].iter + 1 /\ Hashed(t) \in 0 .. Iters
    BY <1>2, <2>1 DEF Hashed
  <2>3. Goes(t)
    BY <1>1, <1>2, <2>1, <2>2, FlightLeaves DEF Goes
  <2> QED BY <2>1, <2>3
<1>7. CASE Walk(t)
  <2>1. /\ UNCHANGED <<done, count, tested>> /\ thread[t].pc = "walk"
        /\ thread'[t].pc = "check" /\ thread'[t].iter = thread[t].iter + 1
    BY <1>2, <1>7 DEF Walk, KernelAt
  <2>2. Hashed(t)' = Hashed(t)
    BY <2>1 DEF Hashed
  <2>3. Passes
    BY <1>1, <1>2, <2>1, <2>2, FlightSame DEF Passes
  <2> QED BY <2>1, <2>3
<1>8. CASE RunOut(t)
  <2>1. /\ UNCHANGED <<done, tested>> /\ thread[t].pc = "check" /\ thread[t].iter = Iters
        /\ thread' = [thread EXCEPT ![t] = Idle] /\ count' = count + Iters
    BY <1>8 DEF RunOut, KernelAt, Exits
  <2>2. Hashed(t) = Iters /\ Hashed(t) \in 0 .. Iters
    BY <1>2, <2>1 DEF Hashed
  <2>3. Goes(t)
    BY <1>1, <1>2, <2>1, <2>2, FlightLeaves DEF Goes
  <2> QED BY <2>1, <2>3
<1> QED BY <1>3, <1>4, <1>5, <1>6, <1>7, <1>8 DEF ThreadStep

LEMMA CountedStep ==
  ASSUME SizesFit, IInv, [Next]_vars
  PROVE  Counted'
<1> USE DEF IInv
<1> DEFINE All(S) == Cardinality(S \X (1 .. Iters))
<1>1. CASE HostStep
  <2> USE DEF At, hostVars, kernelVars, Launched, Reset
  <2>1. CASE Launch
    <3>1. count = 0 /\ tested = 0 /\ UNCHANGED <<count, tested>> /\ host' = "sync"
      BY <2>1 DEF Launch, Counted
    <3>2. InFlight' = {}
      <4>1. ASSUME NEW u \in Threads, NEW k \in 1 .. Iters
            PROVE  <<u, k>> \notin InFlight'
        <5>1. thread'[u] = Idle \/ (thread'[u].pc = "check" /\ thread'[u].iter = 0)
          BY <2>1 DEF Launch
        <5>2. ~(k <= 0)
          BY DEF SizesFit
        <5> QED BY <5>1, <5>2 DEF InFlight, Hashed, Idle
      <4> QED BY <4>1 DEF InFlight, Work
    <3>3. Finishers' = {}
      <4>1. ASSUME NEW u \in 1 .. launched
            PROVE  thread'[u].pc # "off"
        <5>1. u \in Threads /\ ~(u > launched)
          BY DEF Threads, Types, SizesFit
        <5> QED BY <2>1, <5>1 DEF Launch, Idle
      <4> QED BY <2>1, <4>1 DEF Launch, Finishers
    <3>4. {} \X (1 .. Iters) = {}
      OBVIOUS
    <3>5. Cardinality(InFlight') = 0 /\ Cardinality(Finishers' \X (1 .. Iters)) = 0
      BY <3>2, <3>3, <3>4, FS_EmptySet
    <3> QED BY <3>1, <3>5 DEF Counted
  <2>2. CASE Synchronize \/ ReadOut \/ ReadCount
    <3>1. UNCHANGED <<count, tested, thread, launched, done>>
      BY <2>2 DEF Synchronize, ReadOut, ReadCount
    <3>2. InFlight' = InFlight /\ Finishers' = Finishers
      BY <3>1 DEF InFlight, Hashed, Finishers
    <3>3. host \in Launched /\ host' \in Launched
      BY <2>2 DEF Synchronize, ReadOut, ReadCount
    <3> QED BY <3>1, <3>2, <3>3 DEF Counted
  <2>3. CASE BeginRound \/ CreateContext \/ Upload \/ ResetDone \/ ResetCount \/ ClearOut
    BY <2>3 DEF BeginRound, CreateContext, Upload, ResetDone, ResetCount, ClearOut, Counted
  <2>4. CASE Configure \/ RetryLaunch
    BY <2>4 DEF Configure, RetryLaunch, Counted
  <2>5. CASE ReadDone \/ RoundFails \/ Drop
    BY <2>5 DEF ReadDone, RoundFails, Drop, Counted
  <2> QED BY <1>1, <2>1, <2>2, <2>3, <2>4, <2>5 DEF HostStep
<1>2. ASSUME NEW t \in Threads, ThreadStep(t)
      PROVE  Counted'
  <2>1. host = "sync" /\ host' = "sync" /\ launched' = launched
    BY <1>2, ThreadKeeps DEF hostVars
  <2>2. /\ tested = count + Cardinality(InFlight)
        /\ done = 0 => count = All(Finishers)
    BY <2>1 DEF Counted, Launched
  <2>3. /\ count \in Nat /\ tested \in Nat /\ Cardinality(InFlight) \in Nat
        /\ done \in {0, 1} /\ Finishers \subseteq Threads
    BY FlightFinite DEF Types, Finishers, Threads, SizesFit
  <2>4. done = 1 => done' = 1
    BY <1>2, ThreadCounts
  <2>5. SUFFICES /\ tested' = count' + Cardinality(InFlight')
                 /\ done = 0 => count' = All(Finishers')
    BY <2>1, <2>3, <2>4 DEF Counted, Launched, Reset
  <2>6. CASE Passes \/ Tests
    BY <2>2, <2>3, <2>6 DEF Passes, Tests
  <2>7. CASE Goes(t)
    <3>1. PICK n \in 0 .. Iters :
            /\ count' = count + n /\ tested' = tested /\ (done = 1 \/ n = Iters)
            /\ Cardinality(InFlight') = Cardinality(InFlight) - n
            /\ t \notin Finishers /\ Finishers' = Finishers \cup {t}
      BY <2>7 DEF Goes
    <3>2. n \in Nat
      BY DEF SizesFit
    <3>3. tested' = count' + Cardinality(InFlight')
      BY <2>2, <2>3, <3>1, <3>2
    <3>4. All(Finishers \cup {t}) = All(Finishers) + Iters
      BY <2>3, <3>1, OneMore
    <3>5. done = 0 => count' = All(Finishers')
      BY <2>2, <3>1, <3>4
    <3> QED BY <3>3, <3>5
  <2> QED BY <1>2, <2>6, <2>7, ThreadCounts
<1>3. CASE Finished \/ UNCHANGED vars
  <2>1. UNCHANGED vars
    BY <1>3 DEF Finished
  <2>2. InFlight' = InFlight /\ Finishers' = Finishers
    BY <2>1 DEF InFlight, Hashed, Finishers, vars, hostVars, kernelVars
  <2> QED BY <2>1, <2>2 DEF Counted, vars, hostVars, kernelVars
<1> QED BY <1>1, <1>2, <1>3 DEF Next

\* The threads that have left and the candidates in flight share no work.
LEMMA RoomForBoth ==
  ASSUME SizesFit
  PROVE  Cardinality(Off \X (1 .. Iters)) + Cardinality(InFlight) <= Cardinality(Work)
<1> DEFINE A == Off \X (1 .. Iters)
<1>1. Off \subseteq Threads
  BY DEF Off
<1>2. IsFiniteSet(A)
  BY <1>1, Products
<1>3. Cardinality(A \cup InFlight) =
        Cardinality(A) + Cardinality(InFlight) - Cardinality(A \cap InFlight)
  <2> HIDE DEF A
  <2> QED BY <1>2, FlightFinite, FS_Union
<1>4. A \cap InFlight = {}
  BY DEF Off, InFlight
<1>5. (A \cup InFlight) \in SUBSET Work
  BY <1>1 DEF InFlight, Work
<1>6. Cardinality(A \cup InFlight) <= Cardinality(Work)
  <2> HIDE DEF A
  <2> QED BY <1>5, FlightFinite, FS_Subset
<1>7. Cardinality(A) \in Nat
  <2> HIDE DEF A
  <2> QED BY <1>2, FS_CardinalityType
<1>8. Cardinality(A \cap InFlight) = 0
  BY <1>4, FS_EmptySet
<1> HIDE DEF A
<1>9. Cardinality(A) + Cardinality(InFlight) <= Cardinality(Work)
  BY <1>3, <1>6, <1>7, <1>8, FlightFinite
<1> QED BY <1>9 DEF A

LEMMA BoundedStep ==
  ASSUME SizesFit, IInv, [Next]_vars
  PROVE  Bounded'
<1> USE DEF IInv
<1> DEFINE All(S) == Cardinality(S \X (1 .. Iters))
<1>1. /\ count \in Nat /\ tested \in Nat /\ Cardinality(InFlight) \in Nat /\ Off \subseteq Threads
      /\ Cardinality(Work) \in Nat /\ count <= All(Off) /\ tested <= Cardinality(Work)
  BY FlightFinite, FS_CardinalityType DEF Types, Off, Bounded
<1>2. All(Off) \in Nat /\ All(Off') \in Nat
  <2>1. \A S : S \subseteq Threads => All(S) \in Nat
    BY Products, FS_CardinalityType
  <2>2. Off' \subseteq Threads
    BY DEF Off
  <2> QED BY <1>1, <2>1, <2>2
<1>3. CASE HostStep
  <2>1. (count' = count \/ count' = 0) /\ (tested' = tested \/ tested' = 0)
    <3> USE DEF At, hostVars, kernelVars
    <3>1. CASE BeginRound \/ CreateContext \/ Upload \/ ResetDone \/ ResetCount \/ ClearOut
      BY <3>1 DEF BeginRound, CreateContext, Upload, ResetDone, ResetCount, ClearOut
    <3>2. CASE Configure \/ RetryLaunch \/ Launch \/ Synchronize
      BY <3>2 DEF Configure, RetryLaunch, Launch, Synchronize
    <3>3. CASE ReadOut \/ ReadCount \/ ReadDone \/ RoundFails \/ Drop
      BY <3>3 DEF ReadOut, ReadCount, ReadDone, RoundFails, Drop
    <3> QED BY <1>3, <3>1, <3>2, <3>3 DEF HostStep
  <2>2. CASE thread' = thread
    <3>1. Off' = Off
      BY <2>2 DEF Off
    <3> QED BY <1>1, <1>2, <2>1, <3>1 DEF Bounded
  <2>3. CASE Launch
    <3>1. count' = 0
      BY <2>3 DEF Launch, At, Counted, Reset
    <3> QED BY <1>1, <1>2, <2>1, <3>1 DEF Bounded
  <2>4. CASE RoundFails
    <3>1. Off' = Threads
      BY <2>4 DEF RoundFails, Off, Idle
    <3>2. All(Off) <= All(Threads)
      <4>1. IsFiniteSet(Threads \X (1 .. Iters))
        BY Products
      <4>2. (Off \X (1 .. Iters)) \in SUBSET (Threads \X (1 .. Iters))
        BY <1>1
      <4> QED BY <4>1, <4>2, FS_Subset
    <3>3. All(Off') = All(Threads)
      BY <3>1
    <3> HIDE DEF All
    <3> QED BY <1>1, <1>2, <2>1, <3>2, <3>3 DEF Bounded, All
  <2> QED BY <1>3, <2>2, <2>3, <2>4, HostKeeps
<1>4. ASSUME NEW t \in Threads, ThreadStep(t)
      PROVE  Bounded'
  <2>1. host = "sync" /\ host' = "sync" /\ launched' = launched
    BY <1>4, ThreadKeeps DEF hostVars
  <2>2. count' <= All(Off')
    <3>1. CASE Passes \/ Tests
      BY <1>1, <3>1 DEF Passes, Tests
    <3>2. CASE Goes(t)
      <4>1. PICK n \in 0 .. Iters : count' = count + n /\ t \notin Off /\ Off' = Off \cup {t}
        BY <3>2 DEF Goes
      <4>2. All(Off \cup {t}) = All(Off) + Iters
        BY <1>1, <4>1, OneMore
      <4>3. n \in Nat /\ n <= Iters /\ Iters \in Nat
        BY DEF SizesFit
      <4>4. All(Off') = All(Off) + Iters
        BY <4>1, <4>2
      <4> HIDE DEF All
      <4> QED BY <1>1, <1>2, <4>1, <4>3, <4>4
    <3> QED BY <1>4, <3>1, <3>2, ThreadCounts
  <2>3. tested' = count' + Cardinality(InFlight') /\ count' \in Nat
    <3>1. Counted' /\ Types'
      BY CountedStep, TypesStep
    <3> QED BY <2>1, <3>1 DEF Counted, Types, Launched
  <2>4. All(Off') + Cardinality(InFlight') <= Cardinality(Work')
    <3>1. SizesFit'
      BY DEF SizesFit
    <3>2. (All(Off) + Cardinality(InFlight) <= Cardinality(Work))'
      BY <3>1, RoomForBoth, PTL
    <3> QED BY <3>2
  <2>5. Work' = Work /\ Cardinality(InFlight') \in Nat
    <3>1. SizesFit' /\ Work' = Work
      BY DEF SizesFit, Work, Threads
    <3>2. (Cardinality(InFlight) \in Nat)'
      BY <3>1, FlightFinite, PTL
    <3> QED BY <3>1, <3>2
  <2>6. tested' <= Cardinality(Work)
    <3> HIDE DEF All
    <3> QED BY <1>1, <1>2, <2>2, <2>3, <2>4, <2>5
  <2> QED BY <2>2, <2>5, <2>6 DEF Bounded
<1>5. CASE Finished \/ UNCHANGED vars
  <2>1. UNCHANGED vars
    BY <1>5 DEF Finished
  <2>2. Off' = Off
    BY <2>1 DEF Off, vars, hostVars, kernelVars
  <2> QED BY <2>1, <2>2 DEF Bounded, vars, hostVars, kernelVars
<1> QED BY <1>3, <1>4, <1>5 DEF Next

-----------------------------------------------------------------------------
(* After the first hit, reading back, memory. *)

LEMMA LateStep ==
  ASSUME SizesFit, IInv, [Next]_vars
  PROVE  Late'
<1> USE DEF IInv
<1>0. CheckEvery \in Nat \ {0} /\ 0 % CheckEvery = 0
  BY DEF SizesFit
<1>1. CASE HostStep
  <2> USE DEF At, hostVars, kernelVars
  <2>1. CASE BeginRound
    <3>1. \A t \in Threads : late'[t] = 0 /\ thread'[t] = Idle
      BY <2>1 DEF BeginRound, Rest
    <3> QED BY <1>0, <3>1 DEF Late, Idle
  <2>2. CASE CreateContext \/ Upload \/ ResetDone
    BY <2>2 DEF CreateContext, Upload, ResetDone, Late
  <2>3. CASE ResetCount \/ ClearOut \/ Configure \/ RetryLaunch \/ Synchronize
    BY <2>3 DEF ResetCount, ClearOut, Configure, RetryLaunch, Synchronize, Late
  <2>4. CASE ReadOut \/ ReadCount \/ ReadDone \/ Drop
    BY <2>4 DEF ReadOut, ReadCount, ReadDone, Drop, Late
  <2>5. CASE Launch
    <3>1. \A t \in Threads : thread'[t] = Idle \/ (thread'[t].pc = "check" /\ thread'[t].iter = 0)
      BY <2>5 DEF Launch
    <3>2. UNCHANGED <<late, done>> /\ host = "launch" /\ host' = "sync"
      BY <2>5 DEF Launch
    <3> QED BY <1>0, <3>1, <3>2 DEF Late, Idle
  <2>6. CASE RoundFails
    BY <2>6 DEF RoundFails, Late, Idle
  <2> QED BY <1>1, <2>1, <2>2, <2>3, <2>4, <2>5, <2>6 DEF HostStep
<1>2. ASSUME NEW t \in Threads, ThreadStep(t)
      PROVE  Late'
  <2>1. host' = "sync" /\ \A u \in Threads \ {t} : thread'[u] = thread[u]
    BY <1>2, ThreadKeeps DEF hostVars
  <2> DEFINE Ok(me, n) ==
        /\ n <= CheckEvery
        /\ me.pc = "check" /\ me.iter % CheckEvery # 0 => n <= me.iter % CheckEvery
        /\ me.pc = "hash" => n <= me.iter % CheckEvery
        /\ me.pc = "walk" => n <= (me.iter % CheckEvery) + 1
  <2>2. /\ thread[t] \in States /\ thread \in [Threads -> States] /\ late \in [Threads -> Nat]
        /\ Ok(thread[t], late[t]) /\ late[t] \in Nat /\ thread[t].iter \in Nat /\ done \in {0, 1}
        /\ done = 0 => late[t] = 0
    BY DEF Types, Late, States, SizesFit
  <2>3. thread[t].iter % CheckEvery \in 0 .. CheckEvery - 1
    BY <1>0, <2>2, Remainder
  <2>4. SUFFICES /\ Ok(thread'[t], late'[t])
                 /\ \A u \in Threads \ {t} : late'[u] = late[u]
                 /\ done' = 0 => done = 0 /\ late'[t] = 0
    BY <2>1 DEF Late
  <2>5. CASE late' = late /\ done' = done /\ thread' = [thread EXCEPT ![t] = Idle]
    BY <2>2, <2>5 DEF Idle
  <2>6. CASE CheckDone(t)
    <3>1. CASE thread[t].iter % CheckEvery = 0 /\ done = 1 /\ Exits(t, thread[t].iter)
      BY <2>5, <2>6, <3>1 DEF CheckDone, Exits
    <3>2. CASE /\ ~(thread[t].iter % CheckEvery = 0 /\ done = 1)
               /\ thread' = [thread EXCEPT ![t].pc = "hash"]
      <4>1. thread'[t].pc = "hash" /\ thread'[t].iter = thread[t].iter /\ thread[t].pc = "check"
        BY <2>2, <2>6, <3>2 DEF CheckDone, KernelAt, States
      <4>2. UNCHANGED <<done, late>>
        BY <2>6 DEF CheckDone
      <4>3. late[t] <= thread[t].iter % CheckEvery
        BY <2>2, <2>3, <3>2, <4>1
      <4> QED BY <2>2, <4>1, <4>2, <4>3
    <3> QED BY <2>6, <3>1, <3>2 DEF CheckDone
  <2>7. CASE Hash(t)
    <3>1. /\ thread'[t].pc \in {"claim", "walk"} /\ thread'[t].iter = thread[t].iter
          /\ thread[t].pc = "hash" /\ done' = done
          /\ late' = [late EXCEPT ![t] = IF done = 1 THEN late[t] + 1 ELSE late[t]]
      BY <2>2, <2>7 DEF Hash, KernelAt, States
    <3>2. late'[t] <= (thread[t].iter % CheckEvery) + 1 /\ late'[t] <= CheckEvery
      BY <1>0, <2>2, <2>3, <3>1
    <3> QED BY <2>2, <3>1, <3>2
  <2>8. CASE Claim(t) \/ WriteKey(t) \/ WritePub(t)
    <3>1. thread'[t].pc \in {"writeKey", "writePub", "leave"} /\ late' = late
      BY <2>2, <2>8 DEF Claim, WriteKey, WritePub, States
    <3>2. done' = done \/ done' = 1
      BY <2>8 DEF Claim, WriteKey, WritePub
    <3> QED BY <2>2, <3>1, <3>2
  <2>9. CASE Leave(t) \/ RunOut(t)
    BY <2>5, <2>9 DEF Leave, RunOut, Exits
  <2>10. CASE Walk(t)
    <3>1. /\ thread[t].pc = "walk" /\ thread'[t].pc = "check"
          /\ thread'[t].iter = thread[t].iter + 1 /\ UNCHANGED <<late, done>>
      BY <2>2, <2>10 DEF Walk, KernelAt
    <3>2. (thread[t].iter + 1) % CheckEvery =
            IF (thread[t].iter % CheckEvery) + 1 = CheckEvery THEN 0
                                                            ELSE (thread[t].iter % CheckEvery) + 1
      BY <1>0, <2>2, NextRemainder
    <3> QED BY <2>2, <3>1, <3>2
  <2> QED BY <1>2, <2>6, <2>7, <2>8, <2>9, <2>10 DEF ThreadStep
<1>3. CASE Finished \/ UNCHANGED vars
  BY <1>3 DEF Finished, Late, vars, hostVars, kernelVars
<1> QED BY <1>1, <1>2, <1>3 DEF Next

\* With every thread gone nothing is in flight and all that were launched are
\* counted.
LEMMA AllGone ==
  ASSUME SizesFit, IInv, host = "readDone"
  PROVE  tested = count /\ (done = 0 => count = launched * Iters)
<1> USE DEF IInv
<1>1. \A t \in Threads : thread[t].pc = "off"
  BY DEF Rest
<1>2. Cardinality(InFlight) = 0
  <2>1. InFlight = {}
    BY <1>1 DEF InFlight, Work
  <2> QED BY <2>1, FS_EmptySet
<1>3. Finishers = 1 .. launched /\ Finishers \subseteq Threads
  BY <1>1 DEF Finishers, Threads, Types, SizesFit
<1>4. Cardinality(Finishers) = launched
  <2>1. 1 \in Int /\ launched \in Int /\ launched >= 1
    BY DEF Types, Rest, Launched, SizesFit
  <2> QED BY <1>3, <2>1, FS_Interval
<1>5. Cardinality(Finishers \X (1 .. Iters)) = launched * Iters
  BY <1>3, <1>4, Products
<1> QED BY <1>2, <1>5 DEF Counted, Launched, Types

LEMMA ReadStep ==
  ASSUME SizesFit, IInv, [Next]_vars
  PROVE  Read'
<1>0. host = "readDone" => tested = count /\ (done = 0 => count = launched * Iters)
  BY AllGone
<1> USE DEF IInv
<1>1. CASE HostStep
  <2> USE DEF At, hostVars, kernelVars, ResultIsOne, CountExact, Returned, Read
  <2>1. CASE BeginRound \/ CreateContext \/ Upload \/ ResetDone \/ ResetCount \/ ClearOut
    BY <2>1 DEF BeginRound, CreateContext, Upload, ResetDone, ResetCount, ClearOut
  <2>2. CASE Configure \/ RetryLaunch \/ Launch \/ Synchronize
    BY <2>2 DEF Configure, RetryLaunch, Launch, Synchronize
  <2>3. CASE ReadOut \/ ReadCount
    BY <2>3 DEF ReadOut, ReadCount, Types
  <2>4. CASE ReadDone
    <3>1. /\ host = "readDone" /\ host' = "idle" /\ ret' = [ret EXCEPT !.done = done]
          /\ UNCHANGED <<wanted, tested, launched>>
      BY <2>4 DEF ReadDone
    <3>2. ret'.done = done /\ ret'.out = out /\ ret'.count = count
      BY <3>1 DEF Types
    <3>3. \A t \in Threads : ~Writes(t)
      BY <3>1 DEF Rest, Writes
    <3>4. /\ done = 0 => out = Zeros
          /\ done = 1 => out.key = out.pub /\ out.key \in wanted
      BY <3>1, <3>3 DEF Writer, Cleared, Launched
    <3>5. tested = count /\ (done = 0 => count = launched * Iters)
      BY <1>0, <3>1
    <3>6. ResultIsOne'
      BY <3>1, <3>2, <3>4
    <3>7. CountExact'
      BY <3>1, <3>2, <3>5
    <3> QED BY <3>1, <3>6, <3>7
  <2>5. CASE RoundFails \/ Drop
    BY <2>5 DEF RoundFails, Drop
  <2> QED BY <1>1, <2>1, <2>2, <2>3, <2>4, <2>5 DEF HostStep
<1>2. ASSUME NEW t \in Threads, ThreadStep(t)
      PROVE  Read'
  <2>1. host' = "sync"
    BY <1>2, ThreadKeeps DEF hostVars
  <2> QED BY <2>1 DEF Read, ResultIsOne, CountExact, Returned
<1>3. CASE Finished \/ UNCHANGED vars
  BY <1>3 DEF Finished, Read, ResultIsOne, CountExact, Returned, vars, hostVars, kernelVars
<1> QED BY <1>1, <1>2, <1>3 DEF Next

LEMMA MemoryStep ==
  ASSUME SizesFit, IInv, [Next]_vars
  PROVE  Memory'
<1> USE DEF IInv, Memory, BufferOwned
<1>1. CASE HostStep
  <2> USE DEF At, hostVars, kernelVars
  <2>1. CASE BeginRound \/ CreateContext \/ Upload \/ ResetDone \/ ResetCount \/ ClearOut
    BY <2>1 DEF BeginRound, CreateContext, Upload, ResetDone, ResetCount, ClearOut
  <2>2. CASE Configure \/ RetryLaunch \/ Launch \/ Synchronize
    BY <2>2 DEF Configure, RetryLaunch, Launch, Synchronize
  <2>3. CASE ReadOut \/ ReadCount \/ ReadDone
    BY <2>3 DEF ReadOut, ReadCount, ReadDone
  <2>4. CASE RoundFails \/ Drop
    BY <2>4 DEF RoundFails, Drop
  <2> QED BY <1>1, <2>1, <2>2, <2>3, <2>4 DEF HostStep
<1>2. ASSUME NEW t \in Threads, ThreadStep(t)
      PROVE  Memory'
  BY <1>2, ThreadKeeps DEF hostVars
<1>3. CASE Finished \/ UNCHANGED vars
  BY <1>3 DEF Finished, vars, hostVars, kernelVars
<1> QED BY <1>1, <1>2, <1>3 DEF Next

-----------------------------------------------------------------------------
(* The theorems. *)

LEMMA InitIInv ==
  ASSUME SizesFit, Init
  PROVE  IInv
<1> USE DEF Init
<1>1. Types
  <2>1. thread \in [Threads -> States] /\ late \in [Threads -> Nat]
    BY StatesHold
  <2>2. rounds \in 0 .. MaxRounds /\ launched \in 0 .. Requested
    BY DEF SizesFit
  <2> QED BY <2>1, <2>2, StatesHold DEF Types, Hosts
<1>2. Rest /\ Walking /\ Writer /\ Late
  BY DEF Rest, Walking, Writer, Writes, Late, Idle, Launched, Cleared, Reset, SizesFit
<1>3. Read /\ Counted /\ Memory
  BY DEF Read, ResultIsOne, CountExact, Returned, Counted, Launched, Reset, Memory, BufferOwned
<1>4. Bounded
  <2>1. Off \subseteq Threads
    BY DEF Off
  <2>2. Cardinality(Off \X (1 .. Iters)) \in Nat /\ Cardinality(Work) \in Nat
    BY <2>1, Products, FlightFinite, FS_CardinalityType
  <2> QED BY <2>2 DEF Bounded
<1> QED BY <1>1, <1>2, <1>3, <1>4 DEF IInv

LEMMA IInvStep ==
  ASSUME SizesFit, IInv, [Next]_vars
  PROVE  IInv'
BY TypesStep, RestStep, WalkingStep, WriterStep, ReadStep, CountedStep, BoundedStep, LateStep,
   MemoryStep DEF IInv

\* The inductive invariant holds throughout every run of a device's rounds,
\* whatever their sizes.
THEOREM Invariance ==
  ASSUME SizesFit
  PROVE  Spec => []IInv
<1>1. Init => IInv
  BY InitIInv
<1>2. IInv /\ [Next]_vars => IInv'
  BY IInvStep
<1> QED BY <1>1, <1>2, PTL DEF Spec

\* The counters fit: no count exceeds the work of the threads asked for.
LEMMA Typed ==
  ASSUME SizesFit, IInv
  PROVE  TypeOK
<1>1. /\ count <= Requested * Iters /\ tested <= Requested * Iters
      /\ count \in Nat /\ tested \in Nat
  <2>1. /\ Cardinality(Off \X (1 .. Iters)) + Cardinality(InFlight) <= Requested * Iters
        /\ Cardinality(InFlight) \in Nat /\ Cardinality(Work) = Requested * Iters
    BY RoomForBoth, FlightFinite
  <2>2. Cardinality(Off \X (1 .. Iters)) \in Nat
    <3>1. Off \subseteq Threads
      BY DEF Off
    <3> QED BY <3>1, Products, FS_CardinalityType
  <2>3. /\ count <= Cardinality(Off \X (1 .. Iters)) /\ tested <= Cardinality(Work)
        /\ count \in Nat /\ tested \in Nat
    BY DEF IInv, Bounded, Types
  <2>4. Requested * Iters \in Nat
    BY DEF SizesFit
  <2> QED BY <2>1, <2>2, <2>3, <2>4
<1>2. Requested * Iters \in Nat
  BY DEF SizesFit
<1>3. count \in 0 .. Requested * Iters /\ tested \in 0 .. Requested * Iters
  BY <1>1, <1>2
<1> QED BY <1>3 DEF IInv, Types, Hosts, TypeOK, States

\* Each variable of the round keeps its type throughout, whatever the sizes.
THEOREM TypesHold ==
  ASSUME SizesFit
  PROVE  Spec => []TypeOK
<1>1. IInv => TypeOK
  BY Typed
<1> QED BY <1>1, Invariance, PTL

\* The private and the public key of a thread stay a pair for the whole walk,
\* through every batch of additions and for every length of walk that the range
\* of the first key leaves room for.
LEMMA PairKept ==
  ASSUME SizesFit, IInv
  PROVE  Paired
BY DEF IInv, Walking, Paired, Types, States, Keys, SizesFit

\* So the two keys are a pair in every state.
THEOREM PairsHold ==
  ASSUME SizesFit
  PROVE  Spec => []Paired
<1>1. IInv => Paired
  BY PairKept
<1> QED BY <1>1, Invariance, PTL

\* What a round returns is one whole pair that matches, or nothing when nothing
\* was found: however many threads have a match at once.
THEOREM ResultHolds ==
  ASSUME SizesFit
  PROVE  Spec => []ResultIsOne
<1>1. IInv => ResultIsOne
  BY DEF IInv, Read
<1> QED BY <1>1, Invariance, PTL

\* The count a round returns is the number of candidates it hashed, whoever
\* stopped early; with no hit it is the whole of the work launched.
THEOREM CountHolds ==
  ASSUME SizesFit
  PROVE  Spec => []CountExact
<1>1. IInv => CountExact
  BY DEF IInv, Read
<1> QED BY <1>1, Invariance, PTL

\* After the first hit no thread tests more than CheckEvery candidates.
THEOREM StopHolds ==
  ASSUME SizesFit
  PROVE  Spec => []StopsSoon
<1>1. IInv => StopsSoon
  BY DEF IInv, Late, StopsSoon
<1> QED BY <1>1, Invariance, PTL

\* The device's buffer is used only while it is allocated and is gone with the
\* worker, through failed rounds and rounds that use the context again.
THEOREM BufferHolds ==
  ASSUME SizesFit
  PROVE  Spec => []BufferOwned
<1>1. IInv => BufferOwned
  BY DEF IInv, Memory
<1> QED BY <1>1, Invariance, PTL
=============================================================================
